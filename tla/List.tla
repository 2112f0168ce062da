-------------------------------- MODULE List --------------------------------
(***************************************************************************)
(* The doubly linked list of list.c, as nodes on a heap: a list is the     *)
(* address of its first node, 0 for NULL.  Two lists of a caller are       *)
(* modelled, with the sequences they stand for.                            *)
(***************************************************************************)
EXTENDS Naturals, Sequences, FiniteSets, SequencesExt

CONSTANTS Nodes,    \* bound: 1..n, addresses
          Data      \* what a node may point to: numbers, compared by value

VARIABLES
    heap,       \* the nodes, used or free
    first,      \* the first node of each list
    content     \* the data each list holds, in order

vars == <<heap, first, content>>

Lists == {1, 2}

FreeNode == [used |-> FALSE, prev |-> 0, next |-> 0, data |-> 0]

Init == /\ heap = [n \in Nodes |-> FreeNode]
        /\ first = [l \in Lists |-> 0]
        /\ content = [l \in Lists |-> <<>>]

Turns == 0..Cardinality(Nodes)

Follow(h, n) == IF n = 0 THEN 0 ELSE h[n].next

\* The nodes met from p on by following next.
Chain(h, p) ==
    LET met[k \in Turns] == IF k = 0 THEN p ELSE Follow(h, met[k - 1])
    IN  [i \in 1..Min({k \in Turns : met[k] = 0}) |-> met[i - 1]]

DataOf(h, s) == [i \in DOMAIN s |-> h[s[i]].data]

FreeNodes(h) == {n \in Nodes : ~h[n].used}

-----------------------------------------------------------------------------
(* The functions: those that change the list return the heap and the first *)
(* node.                                                                   *)

At(h, p) == [heap |-> h, first |-> p]

bctbx_list_new(h, d) ==
    LET n == CHOOSE n \in FreeNodes(h) : \A m \in FreeNodes(h) : n <= m
    IN  At([h EXCEPT ![n] = [FreeNode EXCEPT !.used = TRUE, !.data = d]], n)

bctbx_list_last_elem(h, p) == IF p = 0 THEN 0 ELSE Last(Chain(h, p))

Back(h, n) == IF n = 0 \/ h[n].prev = 0 THEN n ELSE h[n].prev

bctbx_list_first_elem(h, p) ==
    LET met[k \in Turns] == IF k = 0 THEN p ELSE Back(h, met[k - 1]) IN met[Cardinality(Nodes)]

bctbx_list_concat(h, a, b) ==
    IF a = 0 THEN At(h, b) ELSE IF b = 0 THEN At(h, a)
    ELSE LET last == bctbx_list_last_elem(h, a)
         IN  At([h EXCEPT ![last].next = b, ![b].prev = last], a)

bctbx_list_append(h, p, d) ==
    LET new == bctbx_list_new(h, d) IN bctbx_list_concat(new.heap, p, new.first)

bctbx_list_prepend(h, p, d) ==
    LET new == bctbx_list_new(h, d) IN bctbx_list_concat(new.heap, new.first, p)

\* Mutant: the next node keeps its pointer to the one that goes.
unlink_one_way(h, list, elem) ==
    IF elem = 0 THEN At(h, list)
    ELSE LET next == h[elem].next  prev == h[elem].prev
             alone == [h EXCEPT ![elem].prev = 0, ![elem].next = 0]
         IN  IF elem = list THEN At(alone, next) ELSE At([alone EXCEPT ![prev].next = next], list)

bctbx_list_unlink(h, list, elem) ==
    IF elem = 0 THEN At(h, list)
    ELSE LET next == h[elem].next  prev == h[elem].prev
             alone == [h EXCEPT ![elem].prev = 0, ![elem].next = 0]
             back(g) == IF next = 0 THEN g ELSE [g EXCEPT ![next].prev = IF elem = list THEN 0 ELSE prev]
         IN  IF elem = list THEN At(back(alone), next)
                            ELSE At(back([alone EXCEPT ![prev].next = next]), list)

bctbx_list_erase_link(h, list, elem) ==
    LET r == bctbx_list_unlink(h, list, elem)
    IN  IF elem = 0 THEN r ELSE [r EXCEPT !.heap[elem] = FreeNode]

\* D is the data for which the compare function returns 0, here and below.
bctbx_list_find_custom(h, p, D) ==
    LET s == Chain(h, p)  i == SelectInSeq(DataOf(h, s), LAMBDA e : e \in D) IN IF i = 0 THEN 0 ELSE s[i]

bctbx_list_find(h, p, d) == bctbx_list_find_custom(h, p, {d})

bctbx_list_remove(h, p, d) == bctbx_list_erase_link(h, p, bctbx_list_find(h, p, d))

bctbx_list_delete_custom(h, p, D) == bctbx_list_erase_link(h, p, bctbx_list_find_custom(h, p, D))

\* The loop reads next before the node may go, and removes by the data.
RemoveTurn(st, D) ==
    IF st.elem = 0 THEN st
    ELSE LET d == st.heap[st.elem].data
             r == IF d \in D THEN bctbx_list_remove(st.heap, st.first, d) ELSE At(st.heap, st.first)
         IN  [heap |-> r.heap, first |-> r.first, elem |-> st.heap[st.elem].next]

bctbx_list_remove_custom(h, p, D) ==
    LET after[k \in Turns] == IF k = 0 THEN [heap |-> h, first |-> p, elem |-> p] ELSE RemoveTurn(after[k - 1], D)
    IN  after[Cardinality(Nodes)]

bctbx_list_pop_front(h, p) == bctbx_list_erase_link(h, p, p)

\* In front of the first node that is not smaller.
bctbx_list_insert_sorted(h, p, d) ==
    IF p = 0 THEN bctbx_list_append(h, p, d)
    ELSE LET new == bctbx_list_new(h, d)
             n == new.first
             it == bctbx_list_find_custom(h, p, {e \in Data : d <= e})
             last == bctbx_list_last_elem(h, p)
             prev == h[it].prev
             linked == [new.heap EXCEPT ![n].prev = prev, ![n].next = it, ![it].prev = n]
         IN  IF it = 0 THEN At([new.heap EXCEPT ![last].next = n, ![n].prev = last], p)
             ELSE IF prev = 0 THEN At(linked, n) ELSE At([linked EXCEPT ![prev].next = n], p)

bctbx_list_insert(h, p, before, d) ==
    IF p = 0 \/ before = 0 THEN bctbx_list_append(h, p, d)
    ELSE IF h[before].prev = 0 THEN bctbx_list_prepend(h, p, d)
    ELSE LET new == bctbx_list_new(h, d)
             n == new.first
             prev == h[before].prev
         IN  At([new.heap EXCEPT ![n].prev = prev, ![n].next = before, ![prev].next = n, ![before].prev = n], p)

bctbx_list_free(h, p) == At([n \in Nodes |-> IF Contains(Chain(h, p), n) THEN FreeNode ELSE h[n]], 0)

AppendTo(r, d) == bctbx_list_append(r.heap, r.first, d)

PrependTo(r, d) == bctbx_list_prepend(r.heap, r.first, d)

bctbx_list_copy(h, s) ==
    LET copied[i \in 0..Len(s)] == IF i = 0 THEN At(h, 0) ELSE AppendTo(copied[i - 1], s[i]) IN copied[Len(s)]

bctbx_list_copy_reverse(h, s) ==
    LET copied[i \in 0..Len(s)] == IF i = 0 THEN At(h, 0) ELSE PrependTo(copied[i - 1], s[i]) IN copied[Len(s)]

bctbx_list_size(h, p) == Len(Chain(h, p))

bctbx_list_index(h, p, d) == SelectInSeq(DataOf(h, Chain(h, p)), LAMBDA e : e = d) - 1

-----------------------------------------------------------------------------
(* The calls of the program, and what each should do to the sequence.      *)

Set(l, r, s) == /\ heap' = r.heap
                /\ first' = [first EXCEPT ![l] = r.first]
                /\ content' = [content EXCEPT ![l] = s]

Without(s, i) == IF i = 0 THEN s ELSE RemoveAt(s, i)

KeepTurn(s, d, D) == IF d \in D THEN s ELSE Append(s, d)

Kept(s, D) ==
    LET kept[i \in 0..Len(s)] == IF i = 0 THEN <<>> ELSE KeepTurn(kept[i - 1], s[i], D) IN kept[Len(s)]

Place(l, d) == LET i == SelectInSeq(content[l], LAMBDA e : d <= e) IN IF i = 0 THEN Len(content[l]) + 1 ELSE i

Add(l, d) ==
    /\ FreeNodes(heap) # {}
    /\ \/ Set(l, bctbx_list_append(heap, first[l], d), Append(content[l], d))
       \/ Set(l, bctbx_list_prepend(heap, first[l], d), <<d>> \o content[l])
       \/ Set(l, bctbx_list_insert_sorted(heap, first[l], d), InsertAt(content[l], Place(l, d), d))
       \/ \E i \in DOMAIN content[l] :
             Set(l, bctbx_list_insert(heap, first[l], Chain(heap, first[l])[i], d), InsertAt(content[l], i, d))
       \/ Set(l, bctbx_list_insert(heap, first[l], 0, d), Append(content[l], d))

Take(l) ==
    \/ \E d \in Data : Set(l, bctbx_list_remove(heap, first[l], d),
                           Without(content[l], SelectInSeq(content[l], LAMBDA e : e = d)))
    \/ \E D \in SUBSET Data :
          \/ Set(l, bctbx_list_remove_custom(heap, first[l], D), Kept(content[l], D))
          \/ Set(l, bctbx_list_delete_custom(heap, first[l], D),
                 Without(content[l], SelectInSeq(content[l], LAMBDA e : e \in D)))
    \/ first[l] # 0 /\ Set(l, bctbx_list_pop_front(heap, first[l]), Tail(content[l]))
    \/ Set(l, bctbx_list_free(heap, first[l]), <<>>)

\* A node of list 1 is unlinked and linked to list 2, at either end.
Move ==
    \E i \in DOMAIN content[1] :
        LET n == Chain(heap, first[1])[i]
            u == bctbx_list_unlink(heap, first[1], n)
            atEnd == bctbx_list_concat(u.heap, first[2], n)
            atStart == bctbx_list_concat(u.heap, n, first[2])
        IN  /\ \/ /\ heap' = atEnd.heap /\ first' = [first EXCEPT ![1] = u.first, ![2] = atEnd.first]
                  /\ content' = <<Without(content[1], i), Append(content[2], content[1][i])>>
               \/ /\ heap' = atStart.heap /\ first' = [first EXCEPT ![1] = u.first, ![2] = atStart.first]
                  /\ content' = <<Without(content[1], i), <<content[1][i]>> \o content[2]>>

Concat ==
    LET r == bctbx_list_concat(heap, first[1], first[2])
    IN  /\ heap' = r.heap
        /\ first' = [first EXCEPT ![1] = r.first, ![2] = 0]
        /\ content' = <<content[1] \o content[2], <<>>>>

Copy ==
    /\ first[2] = 0
    /\ bctbx_list_size(heap, first[1]) <= Cardinality(FreeNodes(heap))
    /\ \/ Set(2, bctbx_list_copy(heap, DataOf(heap, Chain(heap, first[1]))), content[1])
       \/ Set(2, bctbx_list_copy_reverse(heap, DataOf(heap, Chain(heap, first[1]))), Reverse(content[1]))

Next == \/ \E l \in Lists : Take(l) \/ \E d \in Data : Add(l, d)
        \/ Move \/ Concat \/ Copy
=============================================================================
