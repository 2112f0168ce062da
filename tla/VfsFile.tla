------------------------------- MODULE VfsFile -------------------------------
(***************************************************************************)
(* The file handle of src/src/vfs/vfs.c: a position, the page that          *)
(* bctbx_file_fprintf fills before it writes to the file, and the page that *)
(* bctbx_file_get_nxtline reads ahead.  One handle on one file; a physical  *)
(* write may fail or be short, the process may crash.                      *)
(*                                                                         *)
(* Files opened with O_APPEND are left out.  Text holds no 0x04 character,  *)
(* the code's mark for the end of the file.                                *)
(***************************************************************************)
EXTENDS Integers, FiniteSets, Sequences

CONSTANTS
  Byte, Zero, NoByte,           \* bytes; '\0'; position not in the file
  Char, LF, CR,                 \* the characters callers write; '\n' and '\r'
  MaxSize,                      \* bound on the size of the file
  MaxData,                      \* bound on the bytes of one write
  MaxFaults,                    \* bound on short writes and lost pages
  MaxLen,                       \* bound on the max_len of get_nxtline
  BCTBX_VFS_PRINTF_PAGE_SIZE,
  BCTBX_VFS_GETLINE_PAGE_SIZE,
  Modes                         \* the modes files are opened with, as sequences of characters

ASSUME FileSizesAssumption ==
  /\ MaxSize \in Nat \ {0} /\ MaxData \in Nat /\ MaxFaults \in Nat /\ MaxLen \in Nat
  /\ BCTBX_VFS_PRINTF_PAGE_SIZE \in Nat \ {0}
  /\ BCTBX_VFS_GETLINE_PAGE_SIZE \in Nat \ {0}

ASSUME FileBytesAssumption ==
  Zero \in Byte \ Char /\ Char \subseteq Byte /\ {LF, CR} \subseteq Char /\ NoByte \notin Byte

ASSUME ModesAssumption ==
  Modes \subseteq {<<"r">>, <<"r", "+">>, <<"w">>, <<"w", "+">>,
                   <<"r", "b">>, <<"r", "b", "+">>, <<"w", "b">>, <<"w", "b", "+">>}

VARIABLES
  file,         \* the bytes of the file, NoByte from its end on
  mode,         \* the mode the handle was opened with, <<>> if there is none
  offset,       \* pFile->offset
  fPage, fSize, fPageOffset,   \* bytes printed and not yet written
  gPage, gSize, gPageOffset,   \* bytes read ahead (without the EOT mark)
  gEOT,         \* the page read ahead ends with the EOT mark
  faults,       \* short writes and pages lost without an error to the caller
  cut,          \* the file was truncated after gPage was read
  stray         \* the last line holds characters that do not come from the file

vars == <<file, mode, offset, fPage, fSize, fPageOffset, gPage, gSize, gPageOffset,
          gEOT, faults, cut, stray>>

Pos == 0 .. (MaxSize - 1)
Sizes == 0 .. MaxSize
Empty == [i \in {} |-> Zero]

FileSize(f) == Cardinality({p \in Pos : f[p] # NoByte})

-----------------------------------------------------------------------------
(* Opening.                                                                *)

\* set_flags, first loop: the index moves on at a 'b' and the mode does not, so
\* what follows the 'b' is never copied.
clean_mode(m) ==
  IF \E i \in DOMAIN m : m[i] = "b"
  THEN [i \in 1 .. ((CHOOSE k \in DOMAIN m : m[k] = "b") - 1) |-> m[i]]
  ELSE m

\* set_flags, second part.
set_flags(m) ==
  CASE clean_mode(m) = <<"r">>      -> {"O_RDONLY"}
    [] clean_mode(m) = <<"r", "+">> -> {"O_RDWR"}
    [] clean_mode(m) = <<"w">>      -> {"O_WRONLY", "O_CREAT", "O_TRUNC"}
    [] clean_mode(m) = <<"w", "+">> -> {"O_RDWR", "O_CREAT"}

Open == mode # <<>>
Readable == "O_WRONLY" \notin set_flags(mode)
Writable == "O_RDONLY" \notin set_flags(mode)

Init ==
  /\ file = [p \in Pos |-> NoByte]
  /\ mode = <<>> /\ offset = 0
  /\ fPage = Empty /\ fSize = 0 /\ fPageOffset = 0
  /\ gPage = Empty /\ gSize = 0 /\ gPageOffset = 0 /\ gEOT = FALSE
  /\ faults = 0 /\ cut = FALSE /\ stray = FALSE

\* (Mutant) The page read ahead is kept.
CancelGetForgotten == UNCHANGED <<gPage, gSize, gPageOffset, gEOT, cut>>

\* The page read ahead is dropped: it might be out of date.
CancelGet ==
  gPage' = Empty /\ gSize' = 0 /\ gPageOffset' = 0 /\ gEOT' = FALSE /\ cut' = FALSE

KeepGet == UNCHANGED <<gPage, gSize, gPageOffset, gEOT, cut>>

\* The page is empty, its offset of no more use.
NoPage == fPage' = Empty /\ fSize' = 0 /\ fPageOffset' = 0

NoHandle ==
  /\ mode' = <<>> /\ offset' = 0
  /\ NoPage
  /\ CancelGet

\* bctbx_file_open and bctbx_file_open2, of a file that exists or is created.
bctbx_file_open(m) ==
  /\ ~Open
  /\ mode' = m
  /\ file' = IF "O_TRUNC" \in set_flags(m) THEN [p \in Pos |-> NoByte] ELSE file
  /\ UNCHANGED <<offset, fPage, fSize, fPageOffset, gPage, gSize, gPageOffset, gEOT,
                 faults, cut>>

-----------------------------------------------------------------------------
(* Writing.                                                                *)

\* The file after the physical write of the first n bytes of data at off; a gap
\* before off reads as zeros.
Patch(f, off, data, n) ==
  IF n = 0 THEN f
  ELSE [p \in Pos |-> IF off <= p /\ p < off + n THEN data[p - off]
                      ELSE IF p < off /\ f[p] = NoByte THEN Zero
                      ELSE f[p]]

\* bctbx_file_flush writes r bytes of the page and drops the others.  (A negative
\* result keeps the page, and the caller returns an error: nothing changes.)
Flush(r) ==
  \/ fSize = 0 /\ r = 0
  \/ fSize > 0 /\ Writable /\ r = fSize
  \/ fSize > 0 /\ Writable /\ r < fSize /\ faults < MaxFaults

\* (Mutant) The page is written at the position instead of the place it was printed to.
FlushedAtPosition(r) == Patch(file, offset, fPage, r)

Flushed(r) == Patch(file, fPageOffset, fPage, r)

\* The page is empty; bytes of it that did not reach the file are lost.
PageWritten(r) ==
  /\ NoPage
  /\ faults' = IF r < fSize THEN faults + 1 ELSE faults

\* A call that has no other effect on the handle than to flush the page:
\* bctbx_file_sync, bctbx_file_size, bctbx_file_read, and any other
\* call whose own work fails after the flush.
bctbx_file_flush ==
  /\ Open /\ fSize > 0
  /\ \E r \in 0 .. fSize :
       /\ Flush(r)
       /\ file' = Flushed(r)
       /\ PageWritten(r)
  /\ CancelGet
  /\ UNCHANGED <<mode, offset>>

\* bctbx_file_write of n bytes at off; w of them reach the file, which is what
\* the call returns.
bctbx_file_write(off, data, n) ==
  /\ Open /\ Writable /\ off + n <= MaxSize
  /\ \E r \in 0 .. fSize, w \in 0 .. n :
       /\ Flush(r)
       /\ file' = Patch(Flushed(r), off, data, w)
       /\ PageWritten(r)
  /\ CancelGet
  /\ UNCHANGED <<mode, offset>>

\* bctbx_file_write2: the same at the position, which moves by what was written.
bctbx_file_write2(data, n) ==
  /\ Open /\ Writable /\ offset + n <= MaxSize
  /\ \E r \in 0 .. fSize, w \in 0 .. n :
       /\ Flush(r)
       /\ file' = Patch(Flushed(r), offset, data, w)
       /\ PageWritten(r)
       /\ offset' = offset + w
  /\ CancelGet
  /\ UNCHANGED mode

\* The page, the file and the faults fprintf starts from: as they are, with the
\* page flushed, or with the page kept because the flush failed.
Current == [file |-> file, page |-> fPage, size |-> fSize, lost |-> 0]

AfterFlush(r) ==
  [file |-> Flushed(r), page |-> Empty, size |-> 0, lost |-> IF r < fSize THEN 1 ELSE 0]

FlushIgnored == [Current EXCEPT !.lost = 1]

\* The page of b with n bytes of data after its own.
Joined(b, data, n) ==
  [i \in 0 .. (b.size + n - 1) |-> IF i < b.size THEN b.page[i] ELSE data[i - b.size]]

\* (Mutant) The page may fill up.
FitsExactly(b, n) == n + b.size <= BCTBX_VFS_PRINTF_PAGE_SIZE

Fits(b, n) == n + b.size < BCTBX_VFS_PRINTF_PAGE_SIZE

\* data fits: it joins the page.
PrintToPage(b, o, data, n) ==
  /\ Fits(b, n)
  /\ file' = b.file
  /\ fPage' = Joined(b, data, n) /\ fSize' = b.size + n
  /\ fPageOffset' = IF b.size = 0 THEN o ELSE fPageOffset
  /\ offset' = o + n
  /\ faults' = faults + b.lost
  /\ CancelGet

\* data does not fit: it is written with the page, or alone if there is no page.
\* A short write of both is reported as complete.
PrintToFile(b, o, data, n) ==
  /\ ~Fits(b, n) /\ Writable
  /\ \E w \in 0 .. (b.size + n) :
       /\ file' = Patch(b.file, IF b.size > 0 THEN fPageOffset ELSE o, Joined(b, data, n), w)
       /\ faults' = faults + (IF b.size > 0 /\ w < b.size + n THEN 1 ELSE b.lost)
       /\ offset' = o + (IF b.size > 0 THEN n ELSE w)
  /\ NoPage
  /\ CancelGet

\* data does not fit and cannot be written: the position has moved.
PrintFails(b, o, n) ==
  /\ ~Fits(b, n)
  /\ file' = b.file /\ fPage' = b.page /\ fSize' = b.size
  /\ offset' = o
  /\ faults' = faults + b.lost
  /\ fPageOffset' = IF b.size = 0 THEN 0 ELSE fPageOffset
  /\ IF b.size < fSize THEN CancelGet ELSE KeepGet

\* bctbx_file_fprintf; offset 0 stands for the position, another one moves it.
bctbx_file_fprintf(off, data, n) ==
  /\ Open /\ fPageOffset + fSize + n <= MaxSize
  /\ LET o == IF off = 0 THEN offset ELSE off IN
     /\ o + n <= MaxSize
     /\ \E b \in IF off = 0 THEN {Current}
                 ELSE {AfterFlush(r) : r \in {q \in 0 .. fSize : Flush(q)}}
                      \cup {c \in {FlushIgnored} : fSize > 0} :
          PrintToPage(b, o, data, n) \/ PrintToFile(b, o, data, n) \/ PrintFails(b, o, n)
  /\ faults' <= MaxFaults
  /\ UNCHANGED mode

-----------------------------------------------------------------------------
(* The other calls.                                                        *)

\* What becomes of the page read ahead when the call flushes first.
GetAfterFlush == IF fSize > 0 THEN CancelGet ELSE KeepGet

\* bctbx_file_seek, whatever whence is: o is the new position.
bctbx_file_seek(o) ==
  /\ Open
  /\ \E r \in 0 .. fSize : Flush(r) /\ file' = Flushed(r) /\ PageWritten(r)
  /\ offset' = o
  /\ GetAfterFlush
  /\ UNCHANGED mode

\* Bytes a read of at most n bytes at o returns.
Available(f, o, n) ==
  IF o >= FileSize(f) THEN 0 ELSE IF o + n > FileSize(f) THEN FileSize(f) - o ELSE n

\* bctbx_file_read2: the position moves by what was read.
bctbx_file_read2(n) ==
  /\ Open /\ Readable
  /\ \E r \in 0 .. fSize :
       /\ Flush(r) /\ file' = Flushed(r) /\ PageWritten(r)
       /\ offset' = offset + Available(Flushed(r), offset, n)
  /\ GetAfterFlush
  /\ UNCHANGED mode

\* bctbx_file_truncate leaves the page read ahead alone.
bctbx_file_truncate(n) ==
  /\ Open /\ Writable
  /\ \E r \in 0 .. fSize :
       /\ Flush(r) /\ PageWritten(r)
       /\ file' = [p \in Pos |-> IF p >= n THEN NoByte
                                 ELSE IF Flushed(r)[p] = NoByte THEN Zero ELSE Flushed(r)[p]]
  /\ IF fSize > 0 THEN CancelGet
     ELSE cut' = (gSize > 0) /\ UNCHANGED <<gPage, gSize, gPageOffset, gEOT>>
  /\ UNCHANGED <<mode, offset>>

\* bctbx_file_close: if the flush fails the handle stays open.
bctbx_file_close ==
  /\ Open
  /\ \E r \in 0 .. fSize :
       /\ Flush(r) /\ file' = Flushed(r)
       /\ faults' = IF r < fSize THEN faults + 1 ELSE faults
  /\ NoHandle

\* The process stops; what was only in the page is lost.
Crash ==
  /\ Open
  /\ fSize > 0 => faults < MaxFaults
  /\ faults' = IF fSize > 0 THEN faults + 1 ELSE faults
  /\ NoHandle
  /\ UNCHANGED file

-----------------------------------------------------------------------------
(* Reading lines.                                                          *)

\* findNextLine: where in s[from .. n - 1] the first line ends, at most one index.
\* A '\0' ends the search.
findNextLine(s, from, n) ==
  {i \in from .. (n - 1) :
     s[i] \in {LF, CR} /\ \A j \in from .. (i - 1) : s[j] \notin {LF, CR, Zero}}

\* The second character of "\r\n" at s[i], if s[0 .. n - 1] holds it.
Skip(s, i, n) == IF s[i] = CR /\ i + 1 < n /\ s[i + 1] = LF THEN 1 ELSE 0

\* The position is in the page read ahead; its EOT mark counts.
InPage(o) ==
  gSize > 0 /\ gPageOffset <= o /\ o < gPageOffset + gSize + (IF gEOT THEN 1 ELSE 0)

CachedEnd(o) == findNextLine(gPage, o - gPageOffset, gSize)

CacheAnswers(o) == InPage(o) /\ (CachedEnd(o) # {} \/ gEOT)

\* Size of the line the cache gives at o, and the position after it.
CachedSize(o) ==
  IF CachedEnd(o) # {} THEN (CHOOSE i \in CachedEnd(o) : TRUE) - (o - gPageOffset) + 1
  ELSE gSize - (o - gPageOffset)

CachedNext(o) ==
  o + CachedSize(o)
    + (IF CachedEnd(o) # {} THEN Skip(gPage, CHOOSE i \in CachedEnd(o) : TRUE, gSize) ELSE 0)

\* The bytes a read of n bytes at o puts in the caller's buffer.
ReadBytes(f, o, n) == [i \in 0 .. (Available(f, o, n) - 1) |-> f[o + i]]

\* Size of the line that starts s[0 .. k - 1].
LineSize(s, k) ==
  IF findNextLine(s, 0, k) = {} THEN k ELSE 1 + CHOOSE i \in findNextLine(s, 0, k) : TRUE

\* Size of the line and characters after it to skip, when the k bytes s are read into
\* a buffer of n + 1 bytes.  After a short read s is not terminated: the search goes
\* on in what the caller left in the buffer.
LinesRead(s, k, n) ==
  LET e == findNextLine(s, 0, k)
      size == LineSize(s, k)
  IN
  IF e # {}
  THEN {<<size, Skip(s, size - 1, k)>>}
         \cup {<<size, d>> : d \in {x \in {1} : s[size - 1] = CR /\ size = k /\ k < n}}
  ELSE {<<size, 0>>}
         \cup {l \in ((k + 1) .. n) \X {0, 1} :
                 l[1] + l[2] <= n /\ \A i \in 0 .. (k - 1) : s[i] # Zero}

\* bctbx_file_get_nxtline with max_len = n + 1.  A flush has cancelled the cache.
LineFromCache ==
  /\ fSize = 0 /\ CacheAnswers(offset)
  /\ offset' = CachedNext(offset)
  /\ KeepGet /\ stray' = FALSE

LineFromRead(f, n) ==
  LET k == Available(f, offset, n)
      s == ReadBytes(f, offset, n)
  IN
  /\ ~(fSize = 0 /\ CacheAnswers(offset)) /\ Readable /\ k > 0
  /\ IF n < BCTBX_VFS_GETLINE_PAGE_SIZE
     THEN /\ gPage' = s /\ gSize' = k /\ gPageOffset' = offset
          /\ gEOT' = (k < n) /\ cut' = FALSE
     ELSE GetAfterFlush
  /\ \E l \in LinesRead(s, k, n) :
       /\ offset' = offset + l[1] + l[2]
       /\ stray' = (l[1] > k + 1)

bctbx_file_get_nxtline(n) ==
  /\ Open
  /\ \E r \in 0 .. fSize :
       /\ Flush(r) /\ file' = Flushed(r) /\ PageWritten(r)
       /\ LineFromCache \/ LineFromRead(Flushed(r), n)
  /\ offset' <= MaxSize
  /\ UNCHANGED mode

-----------------------------------------------------------------------------
Data(n) == [0 .. (n - 1) -> Char]

\* The calls that return no line.
Call ==
  \/ \E m \in Modes : bctbx_file_open(m)
  \/ bctbx_file_flush
  \/ \E n \in 1 .. MaxData : \E data \in Data(n) :
       \/ \E off \in Sizes : bctbx_file_write(off, data, n)
       \/ bctbx_file_write2(data, n)
       \/ \E off \in Sizes : bctbx_file_fprintf(off, data, n)
  \/ \E o \in Sizes : bctbx_file_seek(o)
  \/ \E n \in 1 .. MaxData : bctbx_file_read2(n)
  \/ \E n \in Sizes : bctbx_file_truncate(n)
  \/ bctbx_file_close
  \/ Crash

Next ==
  \/ Call /\ stray' = FALSE
  \/ \E n \in 1 .. MaxLen : bctbx_file_get_nxtline(n)

Spec == Init /\ [][Next]_vars

-----------------------------------------------------------------------------
TypeOK ==
  /\ file \in [Pos -> Byte \cup {NoByte}]
  /\ mode \in Modes \cup {<<>>}
  /\ offset \in Sizes
  /\ fSize \in 0 .. (BCTBX_VFS_PRINTF_PAGE_SIZE - 1)
  /\ fPage \in [0 .. (fSize - 1) -> Byte]
  /\ fPageOffset \in Sizes
  /\ gSize \in Sizes /\ gPageOffset \in Sizes /\ gEOT \in BOOLEAN
  /\ gPage \in [0 .. (gSize - 1) -> Byte \cup {NoByte}]
  /\ faults \in 0 .. MaxFaults
  /\ cut \in BOOLEAN /\ stray \in BOOLEAN

\* A line that get_nxtline takes from the page read ahead is the one it would read from
\* the file, whatever was written, printed or flushed since, unless the
\* file was truncated.  (For callers whose buffer holds the page.)
CachedLinesAreFresh ==
  ~cut => \A o \in Sizes : CacheAnswers(o) =>
    \A n \in gSize .. MaxLen :
      CachedSize(o) = LineSize(ReadBytes(file, o, n), Available(file, o, n))

\* The file with the printed bytes that are still in the page.
Content == Patch(file, fPageOffset, fPage, fSize)

Stream == INSTANCE Stream WITH
  content <- Content, reliable <- faults = 0, position <- offset

\* The handle behaves as one without caches: a byte printed is in the file, at the
\* place it was printed to, for every later call, until a short write or a failed
\* flush goes unreported (bctbx_file_flush l. 148, bctbx_file_fprintf l. 251).
ImplementsStream == Stream!Spec

-----------------------------------------------------------------------------
(* The inductive invariant behind the theorems of VfsFileProofs.           *)

PageInv ==
  /\ fPageOffset + fSize <= MaxSize
  /\ ~Open => fSize = 0 /\ offset = 0
  /\ faults = 0 /\ fSize > 0 => offset = fPageOffset + fSize

HandleInv == TypeOK /\ PageInv

-----------------------------------------------------------------------------
(* Stated in the repository, not met by the code.                          *)

\* vfs.h, bctbx_file_get_nxtline: "Returns a line with at most maxlen characters from
\* the file associated to pFile", read from the file or taken from the page read ahead.
LineFromFile ==
  /\ ~stray
  /\ \A o \in Sizes : CacheAnswers(o) => o + CachedSize(o) <= FileSize(file)

=============================================================================
