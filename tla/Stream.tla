-------------------------------- MODULE Stream --------------------------------
(***************************************************************************)
(* What a bctbx_vfs_file_t handle promises: a plain file and a position,    *)
(* with no cache in between.  It is a PlainFile with a position that        *)
(* bctbx_file_fprintf, write2, read2, get_nxtline and seek move.            *)
(***************************************************************************)
EXTENDS Integers

CONSTANTS Byte, Zero, NoByte, MaxSize, MaxData

VARIABLES content, reliable, position

vars == <<content, reliable, position>>

File == INSTANCE PlainFile

Init == File!Init /\ position = 0

\* n bytes are written at off: the ones the file then holds there.
Write(off, n) ==
  /\ off + n <= MaxSize
  /\ \E data \in {[i \in 0 .. (n - 1) |-> content'[off + i]]} :
       data \in [0 .. (n - 1) -> Byte] /\ File!Write(off, data)

\* Write at off and leave the position alone.
Put(off, n) == UNCHANGED position /\ Write(off, n)

\* Write at off, the position or another place of the caller's choice, and
\* move the position to the end of what was written.
WriteThrough(off, n) == position' = off + n /\ Write(off, n)

\* Move the position; a new handle starts at 0.
Seek == UNCHANGED <<content, reliable>>

Truncate(n) == File!Truncate(n) /\ UNCHANGED position

\* Bytes were lost and the caller was not told.
Damage == reliable' = FALSE

Next ==
  \/ Damage
  \/ Seek
  \/ \E n \in 0 .. MaxSize : Truncate(n)
  \/ \E off \in 0 .. MaxSize, n \in 0 .. MaxData : Put(off, n) \/ WriteThrough(off, n)

Spec == Init /\ [][Next]_vars

=============================================================================
