------------------------------- MODULE LogTags ------------------------------
(***************************************************************************)
(* Log tags (log-tags.cc): each thread has, for each tag, a stack of       *)
(* values with counts, and a list of the values on top that is made again  *)
(* after a change.  A copy of the tags of one thread is pasted in another. *)
(***************************************************************************)
EXTENDS Naturals, Sequences, FiniteSets

CONSTANTS Threads,
          NbTags,       \* tags: their identifiers are numbers, in the order of the map
          Values,       \* values of a tag
          MaxPushed     \* bound: values pushed and not popped

VARIABLES
    mTags,          \* the stacks, top first
    mTagsModified,
    mCurrentTags,   \* the list of the values on top
    pushed,         \* the values pushed and not popped, last first
    overlaid,          \* how many of them were there when the thread last pasted
    copied          \* a copy of the tags of a thread, or no copy

TagTypes == 1..NbTags

vars == <<mTags, mTagsModified, mCurrentTags, pushed, overlaid, copied>>

NoCopy == [t \in TagTypes |-> <<>>]

Init == /\ mTags = [th \in Threads |-> [t \in TagTypes |-> <<>>]]
        /\ mTagsModified = [th \in Threads |-> FALSE]
        /\ mCurrentTags = [th \in Threads |-> <<>>]
        /\ pushed = [th \in Threads |-> [t \in TagTypes |-> <<>>]]
        /\ overlaid = [th \in Threads |-> [t \in TagTypes |-> 0]]
        /\ copied = NoCopy

Outstanding ==
    Cardinality({p \in Threads \X TagTypes \X (1..MaxPushed) : p[3] <= Len(pushed[p[1]][p[2]])})

\* A value equal to the one on top is counted.
Push(stack, v) ==
    IF stack = <<>> \/ stack[1].mValue # v THEN <<[mValue |-> v, mCount |-> 1]>> \o stack
    ELSE [stack EXCEPT ![1].mCount = @ + 1]

Pop(stack) == IF stack[1].mCount = 1 THEN Tail(stack) ELSE [stack EXCEPT ![1].mCount = @ - 1]

pushTag(th, t, v) ==
    /\ Outstanding < MaxPushed
    /\ mTags' = [mTags EXCEPT ![th][t] = Push(@, v)]
    /\ mTagsModified' = [mTagsModified EXCEPT ![th] = TRUE]
    /\ pushed' = [pushed EXCEPT ![th][t] = <<v>> \o @]
    /\ UNCHANGED <<mCurrentTags, overlaid, copied>>

\* One value less, and not more under the paste than there are.
Popped(th, t) ==
    /\ mTags' = [mTags EXCEPT ![th][t] = Pop(@)]
    /\ pushed' = [pushed EXCEPT ![th][t] = Tail(@)]
    /\ overlaid' = [overlaid EXCEPT ![th][t] = IF @ = Len(pushed[th][t]) THEN @ - 1 ELSE @]

\* Mutant: the list is not made again.
pop_unnoticed(th, t) ==
    /\ pushed[th][t] # <<>>
    /\ Popped(th, t)
    /\ UNCHANGED <<mTagsModified, mCurrentTags, copied>>

\* With nothing pushed it logs an error and changes nothing.
popTag(th, t) ==
    /\ IF mTags[th][t] = <<>> THEN UNCHANGED <<mTags, mTagsModified, pushed, overlaid>>
       ELSE /\ Popped(th, t)
            /\ mTagsModified' = [mTagsModified EXCEPT ![th] = @ \/ Len(mTags'[th][t]) # Len(mTags[th][t])]
    /\ UNCHANGED <<mCurrentTags, copied>>

\* What is on top of the stacks that are not empty, in the order of the map.
AddTop(s, stack) == IF stack = <<>> THEN s ELSE Append(s, stack[1])

Tops(stacks) == LET tops[t \in 0..NbTags] == IF t = 0 THEN <<>> ELSE AddTop(tops[t - 1], stacks[t]) IN tops[NbTags]

TopValues(stacks) == [i \in DOMAIN Tops(stacks) |-> Tops(stacks)[i].mValue]

getTags(th) ==
    /\ mCurrentTags' = IF mTagsModified[th]
                       THEN [mCurrentTags EXCEPT ![th] = TopValues(mTags[th])] ELSE mCurrentTags
    /\ mTagsModified' = [mTagsModified EXCEPT ![th] = FALSE]
    /\ UNCHANGED <<mTags, pushed, overlaid, copied>>

createCopy(th) ==
    /\ copied' = [t \in TagTypes |-> IF mTags[th][t] = <<>> THEN <<>> ELSE <<mTags[th][t][1].mValue>>]
    /\ UNCHANGED <<mTags, mTagsModified, mCurrentTags, pushed, overlaid>>

\* The values are pushed over the ones there are, which the code logs as lost.
paste(th) ==
    /\ copied # NoCopy
    /\ Outstanding + Cardinality({t \in TagTypes : copied[t] # <<>>}) <= MaxPushed
    /\ mTags' = [mTags EXCEPT ![th] = [t \in TagTypes |->
                    IF copied[t] = <<>> THEN @[t] ELSE Push(@[t], copied[t][1])]]
    /\ mTagsModified' = [mTagsModified EXCEPT ![th] = TRUE]
    /\ pushed' = [pushed EXCEPT ![th] = [t \in TagTypes |-> copied[t] \o @[t]]]
    /\ overlaid' = [overlaid EXCEPT ![th] = [t \in TagTypes |-> Len(pushed[th][t])]]
    /\ UNCHANGED <<mCurrentTags, copied>>

Next == \E th \in Threads :
    \/ \E t \in TagTypes : popTag(th, t) \/ \E v \in Values : pushTag(th, t, v)
    \/ getTags(th) \/ createCopy(th) \/ paste(th)
=============================================================================
