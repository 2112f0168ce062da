------------------------------- MODULE WinCond ------------------------------
(***************************************************************************)
(* Mutex and condition variable of port.c on the Windows desktop: the      *)
(* condition is an event that resets itself, and the wait is three calls.  *)
(* Their users are consumers of a queue that wait while it is empty, and a *)
(* producer that signals after each item: the repository has no caller of  *)
(* its own.                                                                *)
(***************************************************************************)
EXTENDS Naturals

CONSTANTS Consumers,    \* threads that wait
          MaxItems      \* bound: items put in a behaviour

VARIABLES
    owner,      \* the thread that has the mutex, or "nobody"
    event,      \* the event is set
    items,      \* items in the queue
    put,        \* items put so far
    at          \* the next call of each thread

vars == <<owner, event, items, put, at>>

Threads == Consumers \cup {"producer"}

Init == /\ owner = "nobody" /\ event = FALSE /\ items = 0 /\ put = 0
        /\ at = [t \in Threads |-> "lock"]

Goto(t, l) == at' = [at EXCEPT ![t] = l]

\* A wait for the mutex, with no limit.
WIN_mutex_lock(t) == owner = "nobody" /\ owner' = t

WIN_mutex_unlock(t) == owner = t /\ owner' = "nobody"

\* Mutant: an event that wakes a waiter and is not remembered.
pulse(then) ==
    /\ \/ \E c \in Consumers : at[c] = "blocked" /\ at' = [then EXCEPT ![c] = "relock"]
       \/ (\A c \in Consumers : at[c] # "blocked") /\ at' = then
    /\ UNCHANGED event

\* A waiting thread is released, whichever it is; without one the event stays
\* set.  __bctbx_WIN_cond_broadcast is the same.  "then" is where the threads
\* are after the call, but for the one it releases.
WIN_cond_signal(then) ==
    \/ \E c \in Consumers : /\ at[c] = "blocked"
                            /\ at' = [then EXCEPT ![c] = "relock"] /\ UNCHANGED event
    \/ (\A c \in Consumers : at[c] # "blocked") /\ event' = TRUE /\ at' = then

\* __bctbx_WIN_cond_wait: unlock, wait for the event, lock.
WIN_cond_wait(c) ==
    \/ /\ at[c] = "unlock" /\ WIN_mutex_unlock(c) /\ Goto(c, "wait")
       /\ UNCHANGED event
    \/ /\ at[c] = "wait"
       /\ IF event THEN Goto(c, "relock") ELSE Goto(c, "blocked")
       /\ event' = FALSE /\ UNCHANGED owner
    \/ /\ at[c] = "relock" /\ WIN_mutex_lock(c) /\ Goto(c, "check")
       /\ UNCHANGED event

Consumer(c) ==
    \/ at[c] = "lock" /\ WIN_mutex_lock(c) /\ Goto(c, "check") /\ UNCHANGED <<event, items, put>>
    \/ at[c] = "check" /\ items = 0 /\ Goto(c, "unlock") /\ UNCHANGED <<owner, event, items, put>>
    \/ /\ at[c] = "check" /\ items > 0
       /\ items' = items - 1 /\ WIN_mutex_unlock(c) /\ Goto(c, "lock")
       /\ UNCHANGED <<event, put>>
    \/ WIN_cond_wait(c) /\ UNCHANGED <<items, put>>

\* It unlocks before it signals; the other order has fewer behaviours.
Producer ==
    \/ /\ at["producer"] = "lock" /\ put < MaxItems
       /\ WIN_mutex_lock("producer") /\ Goto("producer", "put") /\ UNCHANGED <<event, items, put>>
    \/ /\ at["producer"] = "put"
       /\ items' = items + 1 /\ put' = put + 1
       /\ WIN_mutex_unlock("producer") /\ Goto("producer", "signal") /\ UNCHANGED event
    \/ /\ at["producer"] = "signal" /\ WIN_cond_signal([at EXCEPT !["producer"] = "lock"])
       /\ UNCHANGED <<owner, items, put>>

Next == Producer \/ \E c \in Consumers : Consumer(c)
=============================================================================
