------------------------------- MODULE LogFile ------------------------------
(***************************************************************************)
(* The file log handler of logging.c with its rotation: the file "name",   *)
(* the older ones "name_1", "name_2" and so on, by their numbers 0, 1, 2.  *)
(* Every step runs under log_mutex.  Other programs move the file away and *)
(* delete older ones, and system calls may fail.                           *)
(***************************************************************************)
EXTENDS Integers, Sequences, FiniteSets

CONSTANTS MaxSizes,     \* what max_size may be, 0 for no rotation
          Lengths,      \* lengths of a message in the file
          MaxMessages,  \* bound: messages logged
          MaxAway       \* bound: files taken away

VARIABLES
    max_size,
    names,      \* the file under each name, 0 for none
    data,       \* the messages in each file
    filehandler,    \* the stream: its file, its state, size and reopen_requested
    logged,     \* lengths of the messages so far
    away,       \* files other programs took away
    renameFailed    \* a rename of the rotation failed

vars == <<max_size, names, data, filehandler, logged, away, renameFailed>>

Nb == 0..MaxMessages + 1
Files == 1..MaxMessages + MaxAway + 2

Init == /\ max_size \in MaxSizes
        /\ names = [n \in Nb |-> IF n = 0 THEN 1 ELSE 0]
        /\ data = [f \in Files |-> <<>>]
        /\ filehandler = [file |-> 1, state |-> "open", size |-> 0, reopen_requested |-> FALSE]
        /\ logged = <<>> /\ away = {} /\ renameFailed = FALSE

SizeOf(s) == LET size[i \in 0..Len(s)] == IF i = 0 THEN 0 ELSE size[i - 1] + logged[s[i]] IN size[Len(s)]

First(S) == CHOOSE n \in S : \A k \in S : n <= k

\* fopen for appending: a file under the name, a new one if there is none.
FileUnder(ns, n) ==
    IF ns[n] # 0 THEN ns[n]
    ELSE First({f \in Files \ away : data[f] = <<>> /\ filehandler.file # f /\ \A k \in Nb : ns[k] # f})

Stream(f, state, size) == [file |-> f, state |-> state, size |-> size, reopen_requested |-> FALSE]

\* fopen fails and gives NULL; a file above the limit is closed, and the
\* pointer to the stream stays.  total is the size of each file.
_try_open_log_collection_file(ns, opens, total) ==
    LET f == FileUnder(ns, 0)
    IN  IF ~opens THEN [names |-> ns, ret |-> -1, fh |-> Stream(0, "null", 0)]
        ELSE IF total[f] > max_size
        THEN [names |-> [ns EXCEPT ![0] = f], ret |-> -1, fh |-> Stream(f, "closed", 0)]
        ELSE [names |-> [ns EXCEPT ![0] = f], ret |-> 0, fh |-> Stream(f, "open", total[f])]

\* Mutant: the file takes the place of the last older one.
rotate_over(ns, failed) == [ns EXCEPT ![1] = ns[0], ![0] = 0]

\* From the first number that is free down each file gets the next number; a
\* rename that fails is not noticed, and the next one takes its place.
_rotate_log_collection_files(ns, failed) ==
    LET n == First({k \in Nb \ {0} : ns[k] = 0})
        moves(k) == k < n /\ k # failed
    IN  [k \in Nb |-> IF k > 0 /\ moves(k - 1) THEN ns[k - 1] ELSE IF moves(k) THEN 0 ELSE ns[k]]

\* Each of the two attempts, and a rename, may fail.
_open_log_collection_file(ns, opens1, opens2, failed, total) ==
    LET first == _try_open_log_collection_file(ns, opens1, total)
    IN  IF first.ret = 0 THEN first
        ELSE _try_open_log_collection_file(_rotate_log_collection_files(first.names, failed), opens2, total)

\* Without a handler or a stream nothing is written.  A write to a closed one is undefined:
\* here it is lost.
bctbx_logv_file(len) ==
    LET m == Len(logged) + 1
        f == filehandler.file
        total == [g \in Files |-> SizeOf(data[g]) + IF g = f THEN len ELSE 0]
        size == IF max_size > 0 THEN filehandler.size + len ELSE filehandler.size
        reopen == filehandler.reopen_requested \/ (max_size > 0 /\ size > max_size)
    IN  /\ m <= MaxMessages
        /\ logged' = Append(logged, len)
        /\ \/ /\ filehandler.state # "open"
              /\ UNCHANGED <<names, data, filehandler, renameFailed>>
           \/ /\ filehandler.state = "open" /\ ~reopen
              /\ data' = [data EXCEPT ![f] = Append(@, m)]
              /\ filehandler' = [filehandler EXCEPT !.size = size]
              /\ UNCHANGED <<names, renameFailed>>
           \/ /\ filehandler.state = "open" /\ reopen
              /\ data' = [data EXCEPT ![f] = Append(@, m)]
              /\ \E opens1, opens2 \in BOOLEAN, failed \in {0, 1, MaxMessages + 2} :
                    LET r == _open_log_collection_file(names, opens1, opens2, failed, total)
                    IN  /\ filehandler' = r.fh /\ names' = r.names
                        /\ renameFailed' = (renameFailed \/ failed \in Nb)
        /\ UNCHANGED <<max_size, away>>

bctbx_file_log_handler_reopen ==
    /\ filehandler.state # "none" /\ filehandler.reopen_requested = FALSE
    /\ filehandler' = [filehandler EXCEPT !.reopen_requested = TRUE]
    /\ UNCHANGED <<max_size, names, data, logged, away, renameFailed>>

\* The handler, if there is one, is destroyed and created again: the size is
\* that of the file.  When fopen or stat fails there is no handler.  Destroying
\* one without an open stream is undefined, it calls fclose.
bctbx_create_file_log_handler ==
    LET f == FileUnder(names, 0)
    IN  /\ filehandler.state \in {"open", "none"}
        /\ \/ filehandler' = Stream(f, "open", SizeOf(data[f])) /\ names' = [names EXCEPT ![0] = f]
           \/ filehandler' = Stream(0, "none", 0) /\ names' \in {names, [names EXCEPT ![0] = f]}
        /\ UNCHANGED <<max_size, data, logged, away, renameFailed>>

\* Another program takes the file, or an older one, away.
MoveAway ==
    /\ Cardinality(away) < MaxAway
    /\ \E n \in {k \in Nb : names[k] # 0} :
          names' = [names EXCEPT ![n] = 0] /\ away' = away \cup {names[n]}
    /\ UNCHANGED <<max_size, data, filehandler, logged, renameFailed>>

Next == \/ \E len \in Lengths : bctbx_logv_file(len)
        \/ bctbx_file_log_handler_reopen \/ bctbx_create_file_log_handler \/ MoveAway
=============================================================================
