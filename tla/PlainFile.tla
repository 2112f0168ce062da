------------------------------ MODULE PlainFile ------------------------------
(***************************************************************************)
(* What the encrypted VFS promises its callers: the file behaves as a      *)
(* plain array of bytes whose writes and truncations are atomic, also      *)
(* across a crash, until a physical I/O failure or a crash in the middle   *)
(* of a shrinking truncation makes the file unreliable.                    *)
(*                                                                         *)
(* A file of n bytes is a function on 0 .. MaxSize - 1 that is NoByte from *)
(* n on.                                                                   *)
(***************************************************************************)
EXTENDS Integers

CONSTANTS
  Byte,      \* the byte values
  Zero,      \* the byte that fills a gap
  NoByte,    \* marks the positions at and after the end of the file
  MaxSize,   \* bound on the size of a file
  MaxData    \* bound on the number of bytes of one write

VARIABLES
  content,   \* the bytes of the file
  reliable   \* no failure has damaged the file

vars == <<content, reliable>>

Pos == 0 .. (MaxSize - 1)

Init ==
  /\ content = [p \in Pos |-> NoByte]
  /\ reliable = TRUE

\* The buffers a caller may pass to a write: n bytes, numbered from 0.
Data == UNION {[0 .. (n - 1) -> Byte] : n \in 0 .. MaxData}

\* off lies after the end of the file: the gap is filled with zeros.
Fill(f, off) == [p \in Pos |-> IF f[p] = NoByte /\ p < off THEN Zero ELSE f[p]]

Write(off, data) ==
  /\ reliable
  /\ \A i \in DOMAIN data : off + i \in Pos
  /\ content' = [p \in Pos |-> IF p - off \in DOMAIN data THEN data[p - off]
                               ELSE Fill(content, off)[p]]
  /\ UNCHANGED reliable

Truncate(n) ==
  /\ reliable
  /\ content' = [p \in Pos |-> IF p >= n THEN NoByte ELSE Fill(content, n)[p]]
  /\ UNCHANGED reliable

\* A failure the file does not survive: afterwards the content is unspecified.
Damage == reliable' = FALSE

Next ==
  \/ \E off \in 0 .. MaxSize, data \in Data : Write(off, data)
  \/ \E n \in 0 .. MaxSize : Truncate(n)
  \/ Damage

Spec == Init /\ [][Next]_vars

=============================================================================
