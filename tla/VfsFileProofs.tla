---------------------------- MODULE VfsFileProofs ----------------------------
(***************************************************************************)
(* Theorems about VfsFile: the page bctbx_file_fprintf fills is transparent *)
(* for every page size, file size and set of bytes.                         *)
(***************************************************************************)
EXTENDS VfsFile, FiniteSetTheorems, TLAPS

Contents == [Pos -> Byte \cup {NoByte}]

-----------------------------------------------------------------------------
(* Patch.                                                                  *)

\* A physical write of bytes into a file gives a file.
LEMMA PatchType ==
  ASSUME NEW f \in Contents, NEW off \in Nat, NEW n \in Nat, NEW data,
         \A i \in 0 .. (n - 1) : data[i] \in Byte
  PROVE  Patch(f, off, data, n) \in Contents
<1>1. ASSUME NEW p \in Pos, off <= p, p < off + n PROVE data[p - off] \in Byte
  <2>1. p - off \in 0 .. (n - 1)
    BY <1>1 DEF Pos
  <2> QED
    BY <2>1
<1> QED
  BY <1>1, FileBytesAssumption DEF Patch, Contents

\* Two adjacent writes are one write of the joined bytes.
LEMMA PatchJoined ==
  ASSUME NEW f \in Contents, NEW off \in Nat, NEW n \in Nat \ {0}, NEW m \in Nat,
         NEW d1, NEW d2, NEW d,
         \A i \in 0 .. (n - 1) : d1[i] \in Byte,
         \A i \in 0 .. (n + m - 1) : d[i] = IF i < n THEN d1[i] ELSE d2[i - n]
  PROVE  Patch(f, off, d, n + m) = Patch(Patch(f, off, d1, n), off + n, d2, m)
<1> DEFINE g == Patch(f, off, d1, n)
<1>1. ASSUME NEW p \in Pos
      PROVE  g[p] = IF off <= p /\ p < off + n THEN d1[p - off]
                    ELSE IF p < off /\ f[p] = NoByte THEN Zero ELSE f[p]
  BY DEF Patch
<1>2. ASSUME NEW p \in Pos
      PROVE  Patch(f, off, d, n + m)[p] = IF off <= p /\ p < off + (n + m) THEN d[p - off]
                    ELSE IF p < off /\ f[p] = NoByte THEN Zero ELSE f[p]
  BY DEF Patch
<1>3. g = [p \in Pos |-> g[p]]
  BY DEF Patch
<1>4. Patch(f, off, d, n + m) = [p \in Pos |-> Patch(f, off, d, n + m)[p]]
  BY DEF Patch
<1> HIDE DEF g
<1>5. CASE m = 0
  <2>1. Patch(g, off + n, d2, m) = g
    BY <1>5 DEF Patch
  <2>2. ASSUME NEW p \in Pos PROVE Patch(f, off, d, n + m)[p] = g[p]
    <3>1. off <= p /\ p < off + n => p - off \in 0 .. (n + m - 1) /\ p - off < n
      BY <1>5 DEF Pos
    <3> QED
      BY <3>1, <1>1, <1>2, <1>5 DEF Pos
  <2> QED
    BY <2>1, <2>2, <1>3, <1>4 DEF g
<1>6. CASE m > 0
  <2>1. ASSUME NEW p \in Pos
        PROVE  Patch(g, off + n, d2, m)[p] =
                 IF off + n <= p /\ p < (off + n) + m THEN d2[p - (off + n)]
                 ELSE IF p < off + n /\ g[p] = NoByte THEN Zero ELSE g[p]
    BY <1>6 DEF Patch
  <2>2. Patch(g, off + n, d2, m) = [p \in Pos |-> Patch(g, off + n, d2, m)[p]]
    BY <1>6 DEF Patch
  <2>3. ASSUME NEW p \in Pos PROVE Patch(f, off, d, n + m)[p] = Patch(g, off + n, d2, m)[p]
    <3>0. p \in Nat
      BY DEF Pos
    <3>1. CASE off + n <= p /\ p < (off + n) + m
      <4>1. p - off \in 0 .. (n + m - 1) /\ ~(p - off < n) /\ (p - off) - n = p - (off + n)
        BY <3>0, <3>1
      <4> QED
        BY <4>1, <3>0, <3>1, <1>2, <2>1
    <3>2. CASE off <= p /\ p < off + n
      <4>1. p - off \in 0 .. (n + m - 1) /\ p - off \in 0 .. (n - 1) /\ p - off < n
        BY <3>0, <3>2
      <4>2. g[p] = d1[p - off] /\ g[p] # NoByte
        BY <4>1, <3>2, <1>1, FileBytesAssumption
      <4> QED
        BY <4>1, <4>2, <3>0, <3>2, <1>2, <2>1
    <3>3. CASE p < off
      BY <3>0, <3>3, <1>1, <1>2, <2>1, FileBytesAssumption
    <3>4. CASE p >= (off + n) + m
      BY <3>0, <3>4, <1>1, <1>2, <2>1
    <3> QED
      BY <3>0, <3>1, <3>2, <3>3, <3>4
  <2> QED
    BY <2>2, <2>3, <1>4 DEF g
<1> QED
  BY <1>5, <1>6

\* A file holds at most MaxSize bytes, so a read stays inside it.
LEMMA AvailableBounds ==
  ASSUME NEW f, NEW o \in Sizes, NEW n \in Nat
  PROVE  /\ Available(f, o, n) \in Nat
         /\ o + Available(f, o, n) <= MaxSize
         /\ Available(f, o, n) <= n
<1> USE FileSizesAssumption DEF Sizes
<1>1. IsFiniteSet(Pos) /\ Cardinality(Pos) = MaxSize
  <2>1. 0 \in Int /\ MaxSize - 1 \in Int /\ ~(0 > MaxSize - 1)
    OBVIOUS
  <2>2. IsFiniteSet(0 .. (MaxSize - 1)) /\ Cardinality(0 .. (MaxSize - 1)) = (MaxSize - 1) - 0 + 1
    BY <2>1, FS_Interval
  <2> QED
    BY <2>2 DEF Pos
<1>2. FileSize(f) \in Nat /\ FileSize(f) <= MaxSize
  <2> DEFINE T == {p \in Pos : f[p] # NoByte}
  <2>1. T \in SUBSET Pos
    OBVIOUS
  <2>2. IsFiniteSet(T) /\ Cardinality(T) <= Cardinality(Pos)
    BY <2>1, <1>1, FS_Subset
  <2>3. Cardinality(T) \in Nat
    BY <2>2, FS_CardinalityType
  <2> QED
    BY <2>2, <2>3, <1>1 DEF FileSize
<1> QED
  BY <1>2 DEF Available

-----------------------------------------------------------------------------
(* Parts of the invariant.                                                 *)

GetType ==
  /\ gSize \in Sizes /\ gPageOffset \in Sizes /\ gEOT \in BOOLEAN /\ cut \in BOOLEAN
  /\ gPage \in [0 .. (gSize - 1) -> Byte \cup {NoByte}]

PageType ==
  /\ fSize \in 0 .. (BCTBX_VFS_PRINTF_PAGE_SIZE - 1)
  /\ fPage \in [0 .. (fSize - 1) -> Byte]
  /\ fPageOffset \in Sizes

\* Type correctness, put together from its parts.
LEMMA Parts ==
  ASSUME file' \in Contents, mode' \in Modes \cup {<<>>}, offset' \in Sizes,
         PageType', GetType', faults' \in 0 .. MaxFaults, stray' \in BOOLEAN, PageInv'
  PROVE  HandleInv'
  BY DEF HandleInv, TypeOK, PageType, GetType, Contents

\* The read-ahead page keeps its type when it is kept or dropped.
LEMMA GetKept ==
  ASSUME HandleInv, CancelGet \/ KeepGet
  PROVE  GetType'
<1>1. CASE CancelGet
  <2>1. 0 \in Sizes /\ gPage' \in [0 .. (0 - 1) -> Byte \cup {NoByte}]
    BY <1>1, FileSizesAssumption DEF CancelGet, Empty, Sizes
  <2> QED
    BY <1>1, <2>1 DEF CancelGet, GetType
<1>2. CASE KeepGet
  BY <1>2 DEF KeepGet, HandleInv, TypeOK, GetType
<1> QED
  BY <1>1, <1>2

\* An empty page has the type of a page.
LEMMA PageDropped ==
  ASSUME NoPage
  PROVE  PageType' /\ fSize' = 0 /\ fPageOffset' = 0 /\ (0 <= MaxSize)
<1>1. 0 \in Sizes /\ 0 \in 0 .. (BCTBX_VFS_PRINTF_PAGE_SIZE - 1) /\ 0 <= MaxSize
  BY FileSizesAssumption DEF Sizes
<1>2. fPage' \in [0 .. (0 - 1) -> Byte]
  BY DEF NoPage, Empty
<1> QED
  BY <1>1, <1>2 DEF NoPage, PageType

\* What a flush writes, and that it writes the whole page unless it is a fault.
LEMMA FlushFacts ==
  ASSUME HandleInv, NEW r \in 0 .. fSize, Flush(r)
  PROVE  /\ Flushed(r) \in Contents
         /\ (IF r < fSize THEN faults + 1 ELSE faults) \in 0 .. MaxFaults
         /\ ~(r < fSize) => r = fSize /\ Flushed(r) = Content
         /\ fSize = 0 => r = 0
<1> USE FileSizesAssumption
<1>1. /\ file \in Contents /\ fPageOffset \in Nat /\ fSize \in Nat /\ r \in Nat /\ r <= fSize
      /\ faults \in 0 .. MaxFaults
      /\ \A i \in 0 .. (r - 1) : fPage[i] \in Byte
  BY DEF HandleInv, TypeOK, Contents, Sizes
<1>2. Flushed(r) \in Contents
  BY <1>1, PatchType DEF Flushed
<1>3. (IF r < fSize THEN faults + 1 ELSE faults) \in 0 .. MaxFaults
  BY <1>1 DEF Flush
<1> QED
  BY <1>1, <1>2, <1>3 DEF Flushed, Content

-----------------------------------------------------------------------------
(* Every call preserves the invariant.                                     *)

\* The invariant holds before the first handle.
LEMMA HandleInit == Init => HandleInv
<1> SUFFICES ASSUME Init PROVE HandleInv
  OBVIOUS
<1> USE FileSizesAssumption, FileBytesAssumption DEF Init, Empty
<1>1. file \in [Pos -> Byte \cup {NoByte}]
  OBVIOUS
<1>2. fPage \in [0 .. (0 - 1) -> Byte] /\ gPage \in [0 .. (0 - 1) -> Byte \cup {NoByte}]
  OBVIOUS
<1>3. 0 \in Sizes /\ 0 \in 0 .. (BCTBX_VFS_PRINTF_PAGE_SIZE - 1) /\ 0 \in 0 .. MaxFaults
  BY DEF Sizes
<1>4. TypeOK
  BY <1>1, <1>2, <1>3 DEF TypeOK
<1> QED
  BY <1>4 DEF HandleInv, PageInv, Open

\* A call that leaves an empty page and a position in range.
LEMMA FlushingCall ==
  ASSUME HandleInv, NoPage, file' \in Contents, faults' \in 0 .. MaxFaults,
         offset' \in Sizes, mode' = mode, Open, GetType', stray' \in BOOLEAN
  PROVE  HandleInv'
<1>1. PageInv'
  BY PageDropped DEF PageInv, Open
<1>2. mode' \in Modes \cup {<<>>}
  BY DEF HandleInv, TypeOK
<1> QED
  BY <1>1, <1>2, PageDropped, Parts

\* Opening, closing and crashing.
LEMMA LifecycleInv ==
  ASSUME HandleInv, stray' = FALSE,
         (\E m \in Modes : bctbx_file_open(m)) \/ bctbx_file_close \/ Crash
  PROVE  HandleInv'
<1> USE FileSizesAssumption, FileBytesAssumption
<1>1. ASSUME NEW m \in Modes, bctbx_file_open(m) PROVE HandleInv'
  <2>1. file' \in Contents
    BY <1>1 DEF bctbx_file_open, HandleInv, TypeOK, Contents
  <2>2. PageInv'
    BY <1>1 DEF bctbx_file_open, HandleInv, PageInv, Open
  <2>3. PageType' /\ GetType' /\ offset' \in Sizes /\ faults' \in 0 .. MaxFaults
    BY <1>1 DEF bctbx_file_open, HandleInv, TypeOK, PageType, GetType
  <2>4. mode' \in Modes \cup {<<>>} /\ stray' \in BOOLEAN
    BY <1>1 DEF bctbx_file_open
  <2> QED
    BY <2>1, <2>2, <2>3, <2>4, Parts
<1>2. ASSUME NoHandle, file' \in Contents, faults' \in 0 .. MaxFaults PROVE HandleInv'
  <2>1. PageType' /\ fSize' = 0 /\ fPageOffset' = 0
    BY <1>2, PageDropped DEF NoHandle
  <2>2. PageInv'
    BY <1>2, <2>1 DEF NoHandle, PageInv, Open
  <2>3. GetType'
    BY <1>2, GetKept DEF NoHandle
  <2>4. offset' \in Sizes /\ mode' \in Modes \cup {<<>>}
    BY <1>2 DEF NoHandle, Sizes
  <2>5. stray' \in BOOLEAN
    OBVIOUS
  <2> QED
    BY <1>2, <2>1, <2>2, <2>3, <2>4, <2>5, Parts
<1>3. CASE bctbx_file_close
  <2>1. PICK r \in 0 .. fSize : /\ Flush(r) /\ file' = Flushed(r)
                                /\ faults' = IF r < fSize THEN faults + 1 ELSE faults
    BY <1>3 DEF bctbx_file_close
  <2> QED
    BY <2>1, <1>2, <1>3, FlushFacts DEF bctbx_file_close
<1>4. CASE Crash
  BY <1>2, <1>4 DEF Crash, HandleInv, TypeOK, Contents
<1> QED
  BY <1>1, <1>3, <1>4

\* The calls that flush the page and write, seek, read or truncate.
LEMMA FlushInv ==
  ASSUME HandleInv, stray' = FALSE,
         \/ bctbx_file_flush
         \/ \E o \in Sizes : bctbx_file_seek(o)
         \/ \E n \in 1 .. MaxData : bctbx_file_read2(n)
         \/ \E n \in Sizes : bctbx_file_truncate(n)
  PROVE  HandleInv'
<1> USE FileSizesAssumption, FileBytesAssumption
<1>0. ASSUME NEW r \in 0 .. fSize, Flush(r), PageWritten(r)
      PROVE  NoPage /\ faults' \in 0 .. MaxFaults /\ Flushed(r) \in Contents
  BY <1>0, FlushFacts DEF PageWritten
<1>1. stray' \in BOOLEAN
  OBVIOUS
<1>2. CASE bctbx_file_flush
  <2>1. PICK r \in 0 .. fSize : Flush(r) /\ file' = Flushed(r) /\ PageWritten(r)
    BY <1>2 DEF bctbx_file_flush
  <2>2. CancelGet /\ mode' = mode /\ offset' \in Sizes /\ Open
    BY <1>2 DEF bctbx_file_flush, HandleInv, TypeOK
  <2> QED
    BY <1>0, <1>1, <2>1, <2>2, GetKept, FlushingCall
<1>3. ASSUME NEW o \in Sizes, bctbx_file_seek(o) PROVE HandleInv'
  <2>1. PICK r \in 0 .. fSize : Flush(r) /\ file' = Flushed(r) /\ PageWritten(r)
    BY <1>3 DEF bctbx_file_seek
  <2>2. (CancelGet \/ KeepGet) /\ mode' = mode /\ offset' \in Sizes /\ Open
    BY <1>3 DEF bctbx_file_seek, GetAfterFlush
  <2> QED
    BY <1>0, <1>1, <2>1, <2>2, GetKept, FlushingCall
<1>4. ASSUME NEW n \in 1 .. MaxData, bctbx_file_read2(n) PROVE HandleInv'
  <2>1. PICK r \in 0 .. fSize : /\ Flush(r) /\ file' = Flushed(r) /\ PageWritten(r)
                                /\ offset' = offset + Available(Flushed(r), offset, n)
    BY <1>4 DEF bctbx_file_read2
  <2>2. offset \in Sizes /\ n \in Nat
    BY DEF HandleInv, TypeOK
  <2>3. offset' \in Sizes
    BY <2>1, <2>2, AvailableBounds DEF Sizes
  <2>4. (CancelGet \/ KeepGet) /\ mode' = mode /\ Open
    BY <1>4 DEF bctbx_file_read2, GetAfterFlush
  <2> QED
    BY <1>0, <1>1, <2>1, <2>3, <2>4, GetKept, FlushingCall
<1>5. ASSUME NEW n \in Sizes, bctbx_file_truncate(n) PROVE HandleInv'
  <2>1. PICK r \in 0 .. fSize :
          /\ Flush(r) /\ PageWritten(r)
          /\ file' = [p \in Pos |-> IF p >= n THEN NoByte
                                    ELSE IF Flushed(r)[p] = NoByte THEN Zero ELSE Flushed(r)[p]]
    BY <1>5 DEF bctbx_file_truncate
  <2>2. file' \in Contents
    BY <1>0, <2>1 DEF Contents
  <2>3. mode' = mode /\ Open /\ offset' \in Sizes
    BY <1>5 DEF bctbx_file_truncate, HandleInv, TypeOK
  <2>4. GetType'
    <3>1. CASE fSize > 0
      BY <3>1, <1>5, GetKept DEF bctbx_file_truncate
    <3>2. CASE ~(fSize > 0)
      <4>1. cut' \in BOOLEAN
        BY <3>2, <1>5 DEF bctbx_file_truncate
      <4> QED
        BY <3>2, <4>1, <1>5 DEF bctbx_file_truncate, HandleInv, TypeOK, GetType
    <3> QED
      BY <3>1, <3>2
  <2> QED
    BY <1>0, <1>1, <2>1, <2>2, <2>3, <2>4, FlushingCall
<1> QED
  BY <1>2, <1>3, <1>4, <1>5

\* bctbx_file_write and bctbx_file_write2.
LEMMA WriteInv ==
  ASSUME HandleInv, stray' = FALSE, NEW n \in 1 .. MaxData, NEW data \in Data(n),
         (\E off \in Sizes : bctbx_file_write(off, data, n)) \/ bctbx_file_write2(data, n)
  PROVE  HandleInv'
<1> USE FileSizesAssumption, FileBytesAssumption
<1>0. stray' \in BOOLEAN
  OBVIOUS
<1>1. n \in Nat /\ \A i \in 0 .. (n - 1) : data[i] \in Byte
  BY DEF Data
<1>2. ASSUME NEW off \in Sizes, NEW r \in 0 .. fSize, NEW w \in 0 .. n, Flush(r)
      PROVE  Patch(Flushed(r), off, data, w) \in Contents
  <2>1. off \in Nat /\ w \in Nat /\ \A i \in 0 .. (w - 1) : data[i] \in Byte
    BY <1>1 DEF Sizes
  <2> QED
    BY <1>2, <2>1, FlushFacts, PatchType
<1>3. ASSUME NEW off \in Sizes, bctbx_file_write(off, data, n) PROVE HandleInv'
  <2>1. PICK r \in 0 .. fSize, w \in 0 .. n :
          Flush(r) /\ file' = Patch(Flushed(r), off, data, w) /\ PageWritten(r)
    BY <1>3 DEF bctbx_file_write
  <2>2. CancelGet /\ mode' = mode /\ Open /\ offset' \in Sizes
    BY <1>3 DEF bctbx_file_write, HandleInv, TypeOK
  <2> QED
    BY <1>0, <1>1, <1>2, <2>1, <2>2, GetKept, FlushFacts, FlushingCall DEF PageWritten
<1>4. CASE bctbx_file_write2(data, n)
  <2>1. PICK r \in 0 .. fSize, w \in 0 .. n :
          /\ Flush(r) /\ file' = Patch(Flushed(r), offset, data, w) /\ PageWritten(r)
          /\ offset' = offset + w
    BY <1>4 DEF bctbx_file_write2
  <2>2. CancelGet /\ mode' = mode /\ Open /\ offset \in Sizes /\ offset + n <= MaxSize
    BY <1>4 DEF bctbx_file_write2, HandleInv, TypeOK
  <2>3. offset' \in Sizes
    BY <2>1, <2>2, <1>1 DEF Sizes
  <2> QED
    BY <1>0, <1>1, <1>2, <2>1, <2>2, <2>3, GetKept, FlushFacts, FlushingCall DEF PageWritten
<1> QED
  BY <1>3, <1>4

\* What bctbx_file_fprintf starts from is a file and a page, and the position is at the
\* end of the page unless there has been a fault.
LEMMA StartFacts ==
  ASSUME HandleInv, NEW off \in Sizes, NEW b,
         b \in IF off = 0 THEN {Current}
               ELSE {AfterFlush(r) : r \in {q \in 0 .. fSize : Flush(q)}}
                    \cup {c \in {FlushIgnored} : fSize > 0}
  PROVE  /\ b.file \in Contents /\ b.size \in 0 .. fSize /\ b.lost \in 0 .. 1
         /\ b.page \in [0 .. (b.size - 1) -> Byte]
         /\ b.size = 0 \/ (b.size = fSize /\ b.page = fPage /\ b.file = file)
         /\ b.size > 0 /\ off # 0 => b.lost = 1
         /\ b.lost = 0 => Patch(b.file, fPageOffset, b.page, b.size) = Content
<1> USE FileSizesAssumption
<1>0. /\ file \in Contents /\ fSize \in Nat /\ fPage \in [0 .. (fSize - 1) -> Byte]
  BY DEF HandleInv, TypeOK, Contents
<1>1. CASE b = Current
  <2>1. off = 0 \/ fSize = 0 \/ b.lost = 1
    BY <1>1, <1>0 DEF Current, AfterFlush, FlushIgnored
  <2> QED
    BY <1>0, <1>1, <2>1 DEF Current, Content
<1>2. ASSUME NEW r \in 0 .. fSize, Flush(r), b = AfterFlush(r) PROVE
         /\ b.file \in Contents /\ b.size \in 0 .. fSize /\ b.lost \in 0 .. 1
         /\ b.page \in [0 .. (b.size - 1) -> Byte]
         /\ b.size = 0
         /\ b.lost = 0 => Patch(b.file, fPageOffset, b.page, b.size) = Content
  <2>1. b.page \in [0 .. (b.size - 1) -> Byte] /\ b.size = 0
    BY <1>2 DEF AfterFlush, Empty
  <2>2. b.file = Flushed(r) /\ b.lost = IF r < fSize THEN 1 ELSE 0
    BY <1>2 DEF AfterFlush
  <2>3. Patch(b.file, fPageOffset, b.page, b.size) = b.file
    BY <2>1 DEF Patch
  <2> QED
    BY <1>0, <1>2, <2>1, <2>2, <2>3, FlushFacts
<1>3. CASE b = FlushIgnored
  <2>1. b.file = file /\ b.size = fSize /\ b.page = fPage /\ b.lost = 1
    BY <1>3 DEF FlushIgnored, Current
  <2> QED
    BY <1>0, <2>1
<1>4. CASE off = 0
  BY <1>1, <1>4
<1>5. CASE off # 0
  <2>1. CASE b \in {AfterFlush(r) : r \in {q \in 0 .. fSize : Flush(q)}}
    BY <1>2, <2>1
  <2>2. CASE b \in {c \in {FlushIgnored} : fSize > 0}
    BY <1>3, <2>2
  <2> QED
    BY <1>5, <2>1, <2>2
<1> QED
  BY <1>4, <1>5

\* The joined page is a page.
LEMMA JoinedType ==
  ASSUME NEW b, b.size \in Nat, b.page \in [0 .. (b.size - 1) -> Byte],
         NEW n \in Nat, NEW data, \A i \in 0 .. (n - 1) : data[i] \in Byte
  PROVE  Joined(b, data, n) \in [0 .. (b.size + n - 1) -> Byte]
<1>1. ASSUME NEW i \in 0 .. (b.size + n - 1)
      PROVE  (IF i < b.size THEN b.page[i] ELSE data[i - b.size]) \in Byte
  <2>1. CASE i < b.size
    BY <2>1
  <2>2. CASE ~(i < b.size)
    <3>1. i - b.size \in 0 .. (n - 1)
      BY <2>2
    <3> QED
      BY <2>2, <3>1
  <2> QED
    BY <2>1, <2>2
<1> QED
  BY <1>1 DEF Joined

\* bctbx_file_fprintf.
LEMMA FprintfInv ==
  ASSUME HandleInv, stray' = FALSE, NEW n \in 1 .. MaxData, NEW data \in Data(n),
         NEW off \in Sizes, bctbx_file_fprintf(off, data, n)
  PROVE  HandleInv'
<1> USE FileSizesAssumption, FileBytesAssumption
<1> DEFINE o == IF off = 0 THEN offset ELSE off
<1>0. stray' \in BOOLEAN
  OBVIOUS
<1>1. n \in Nat /\ \A i \in 0 .. (n - 1) : data[i] \in Byte
  BY DEF Data
<1>2. PICK b \in IF off = 0 THEN {Current}
                 ELSE {AfterFlush(r) : r \in {q \in 0 .. fSize : Flush(q)}}
                      \cup {c \in {FlushIgnored} : fSize > 0} :
        PrintToPage(b, o, data, n) \/ PrintToFile(b, o, data, n) \/ PrintFails(b, o, n)
  BY DEF bctbx_file_fprintf
<1>3. /\ b.file \in Contents /\ b.size \in 0 .. fSize /\ b.lost \in 0 .. 1
      /\ b.page \in [0 .. (b.size - 1) -> Byte]
      /\ b.size = 0 \/ (b.size = fSize /\ b.page = fPage /\ b.file = file)
      /\ b.size > 0 /\ off # 0 => b.lost = 1
  BY <1>2, StartFacts
<1>4. /\ fSize \in 0 .. (BCTBX_VFS_PRINTF_PAGE_SIZE - 1) /\ fPageOffset \in Sizes
      /\ offset \in Sizes /\ faults \in 0 .. MaxFaults /\ fPageOffset + fSize <= MaxSize
      /\ faults = 0 /\ fSize > 0 => offset = fPageOffset + fSize
  BY DEF HandleInv, TypeOK, PageInv
<1>5. /\ Open /\ mode' = mode /\ fPageOffset + fSize + n <= MaxSize /\ o + n <= MaxSize
      /\ faults' <= MaxFaults
  BY DEF bctbx_file_fprintf
<1>6. o \in Sizes
  BY <1>4
<1>7. Joined(b, data, n) \in [0 .. (b.size + n - 1) -> Byte]
  <2>1. b.size \in Nat
    BY <1>3, <1>4
  <2> QED
    BY <1>1, <1>3, <2>1, JoinedType
<1>8. mode' \in Modes \cup {<<>>} /\ Open'
  BY <1>5 DEF HandleInv, TypeOK, Open
<1> HIDE DEF o
<1>9. CASE PrintToPage(b, o, data, n)
  <2>1. PageType'
    <3>0. fSize' = b.size + n /\ fPage' = Joined(b, data, n)
      BY <1>9 DEF PrintToPage
    <3>1. fPage' \in [0 .. (fSize' - 1) -> Byte]
      <4>1. 0 .. (fSize' - 1) = 0 .. (b.size + n - 1)
        BY <1>1, <1>3, <1>4, <3>0
      <4> QED
        BY <1>7, <3>0, <4>1, Zenon
    <3>2. fSize' \in 0 .. (BCTBX_VFS_PRINTF_PAGE_SIZE - 1)
      BY <1>1, <1>3, <1>4, <1>9 DEF PrintToPage, Fits
    <3>3. fPageOffset' \in Sizes
      BY <1>4, <1>6, <1>9 DEF PrintToPage
    <3> QED
      BY <3>1, <3>2, <3>3 DEF PageType
  <2>2. offset' \in Sizes
    BY <1>1, <1>5, <1>6, <1>9 DEF PrintToPage, Sizes
  <2>3. fPageOffset' + fSize' <= MaxSize
    BY <1>1, <1>3, <1>4, <1>5, <1>6, <1>9 DEF PrintToPage, Sizes
  <2>4. faults' = 0 => offset' = fPageOffset' + fSize'
    <3>1. faults' = faults + b.lost
      BY <1>9 DEF PrintToPage
    <3>2. faults' = 0 /\ b.size > 0 => off = 0 /\ faults = 0 /\ fSize > 0 /\ b.size = fSize
      BY <1>3, <1>4, <3>1
    <3>3. /\ offset' = o + n /\ fSize' = b.size + n
          /\ fPageOffset' = IF b.size = 0 THEN o ELSE fPageOffset
      BY <1>9 DEF PrintToPage
    <3>4. off = 0 => o = offset
      BY DEF o
    <3>5. CASE b.size = 0
      BY <1>1, <3>3, <3>5
    <3>6. CASE b.size > 0
      <4> SUFFICES ASSUME faults' = 0 PROVE offset' = fPageOffset' + fSize'
        OBVIOUS
      <4>1. o = fPageOffset + fSize /\ b.size = fSize
        BY <1>4, <3>2, <3>4, <3>6
      <4>2. fPageOffset' = fPageOffset
        BY <3>3, <3>6
      <4> QED
        BY <1>1, <1>4, <3>3, <4>1, <4>2 DEF Sizes
    <3> QED
      BY <1>3, <1>4, <3>5, <3>6
  <2>5. PageInv'
    BY <1>8, <2>3, <2>4 DEF PageInv
  <2>6. file' \in Contents /\ faults' \in 0 .. MaxFaults
    BY <1>3, <1>4, <1>5, <1>9 DEF PrintToPage
  <2>7. GetType'
    BY <1>9, GetKept DEF PrintToPage
  <2> QED
    BY <1>0, <1>8, <2>1, <2>2, <2>5, <2>6, <2>7, Parts
<1>10. CASE PrintToFile(b, o, data, n)
  <2>1. PICK w \in 0 .. (b.size + n) :
       /\ file' = Patch(b.file, IF b.size > 0 THEN fPageOffset ELSE o, Joined(b, data, n), w)
       /\ faults' = faults + (IF b.size > 0 /\ w < b.size + n THEN 1 ELSE b.lost)
       /\ offset' = o + (IF b.size > 0 THEN n ELSE w)
    BY <1>10 DEF PrintToFile
  <2>2. file' \in Contents
    <3>1. /\ (IF b.size > 0 THEN fPageOffset ELSE o) \in Nat /\ w \in Nat
          /\ \A i \in 0 .. (w - 1) : Joined(b, data, n)[i] \in Byte
      BY <1>1, <1>3, <1>4, <1>6, <1>7, <2>1, SMTT(30) DEF Sizes
    <3> QED
      BY <2>1, <3>1, <1>3, PatchType
  <2>3. offset' \in Sizes /\ faults' \in 0 .. MaxFaults
    <3>1. CASE b.size > 0
      <4>1. offset' = o + n
        BY <2>1, <3>1
      <4>2. offset' \in Sizes
        BY <1>1, <1>5, <1>6, <4>1 DEF Sizes
      <4>3. \E x \in 0 .. 1 : faults' = faults + x
        BY <1>3, <2>1
      <4> QED
        BY <1>4, <1>5, <4>2, <4>3
    <3>2. CASE b.size = 0
      <4>1. w \in 0 .. n /\ offset' = o + w /\ faults' = faults + b.lost
        BY <1>1, <2>1, <3>2
      <4> QED
        BY <1>1, <1>3, <1>4, <1>5, <1>6, <4>1 DEF Sizes
    <3> QED
      BY <1>3, <1>4, <3>1, <3>2
  <2>4. NoPage /\ CancelGet
    BY <1>10 DEF PrintToFile
  <2> QED
    BY <1>0, <1>5, <2>2, <2>3, <2>4, GetKept, FlushingCall
<1>11. CASE PrintFails(b, o, n)
  <2>1. PageType'
    BY <1>3, <1>4, <1>11 DEF PrintFails, PageType, Sizes
  <2>2. offset' \in Sizes /\ file' \in Contents
    BY <1>3, <1>6, <1>11 DEF PrintFails
  <2>3. faults' = faults + b.lost /\ faults' \in 0 .. MaxFaults
    BY <1>3, <1>4, <1>5, <1>11 DEF PrintFails
  <2>4. fPageOffset' + fSize' <= MaxSize
    BY <1>3, <1>4, <1>11 DEF PrintFails, Sizes
  <2>5. faults' = 0 /\ fSize' > 0 => offset' = fPageOffset' + fSize'
    <3>1. fSize' = b.size /\ offset' = o /\ (b.size # 0 => fPageOffset' = fPageOffset)
      BY <1>11 DEF PrintFails
    <3>2. faults' = 0 /\ b.size > 0 => off = 0 /\ faults = 0 /\ b.size = fSize
      BY <1>3, <1>4, <2>3
    <3>3. off = 0 => o = offset
      BY DEF o
    <3> QED
      BY <1>3, <1>4, <3>1, <3>2, <3>3
  <2>6. PageInv'
    BY <1>8, <2>4, <2>5 DEF PageInv
  <2>7. GetType'
    BY <1>11, GetKept DEF PrintFails
  <2> QED
    BY <1>0, <1>8, <2>1, <2>2, <2>3, <2>6, <2>7, Parts
<1> QED
  BY <1>2, <1>9, <1>10, <1>11

\* Where the search for the end of a line stops is an index of the buffer.
LEMMA LineEnd ==
  ASSUME NEW s, NEW from \in Int, NEW n \in Int, findNextLine(s, from, n) # {}
  PROVE  (CHOOSE i \in findNextLine(s, from, n) : TRUE) \in from .. (n - 1)
<1>1. \A i \in findNextLine(s, from, n) : i \in from .. (n - 1)
  BY DEF findNextLine
<1> QED
  BY <1>1

\* A line has a size, and so has what is skipped after it.
LEMMA LineSizes ==
  ASSUME NEW s, NEW k \in Nat, NEW n \in Nat, NEW l \in LinesRead(s, k, n)
  PROVE  l[1] \in Nat /\ l[2] \in Nat
<1>1. LineSize(s, k) \in Nat
  <2>1. CASE findNextLine(s, 0, k) = {}
    BY <2>1 DEF LineSize
  <2>2. CASE findNextLine(s, 0, k) # {}
    <3>1. (CHOOSE i \in findNextLine(s, 0, k) : TRUE) \in 0 .. (k - 1)
      BY <2>2, LineEnd
    <3> QED
      BY <2>2, <3>1 DEF LineSize
  <2> QED
    BY <2>1, <2>2
<1>2. Skip(s, LineSize(s, k) - 1, k) \in Nat
  BY DEF Skip
<1> DEFINE size == LineSize(s, k)
           skip == Skip(s, size - 1, k)
<1> HIDE DEF size, skip
<1>3. CASE findNextLine(s, 0, k) # {}
  <2>1. \/ l = <<size, skip>>
        \/ \E d \in {1} : l = <<size, d>>
    BY <1>3 DEF LinesRead, size, skip
  <2> QED
    BY <1>1, <1>2, <2>1 DEF size, skip
<1>4. CASE findNextLine(s, 0, k) = {}
  <2>1. \/ l = <<size, 0>>
        \/ \E j \in k .. (n - 1), d \in {0, 1} : l = <<j + 1, d>>
    BY <1>4 DEF LinesRead, size
  <2> QED
    BY <1>1, <2>1 DEF size
<1> QED
  BY <1>3, <1>4

\* The page read ahead never moves the position back.
LEMMA CachedForward ==
  ASSUME HandleInv, CacheAnswers(offset)
  PROVE  CachedNext(offset) \in Nat
<1> USE FileSizesAssumption
<1>1. /\ offset \in Nat /\ gSize \in Nat /\ gPageOffset \in Nat
      /\ gPageOffset <= offset /\ offset <= gPageOffset + gSize
  BY DEF HandleInv, TypeOK, Sizes, CacheAnswers, InPage
<1> DEFINE i == CHOOSE i \in CachedEnd(offset) : TRUE
<1>2. CASE CachedEnd(offset) # {}
  <2>1. i \in (offset - gPageOffset) .. (gSize - 1)
    BY <1>1, <1>2, LineEnd DEF CachedEnd
  <2>2. Skip(gPage, i, gSize) \in Nat
    BY DEF Skip
  <2>3. CachedNext(offset) = offset + (i - (offset - gPageOffset) + 1) + Skip(gPage, i, gSize)
    BY <1>2 DEF CachedNext, CachedSize
  <2> HIDE DEF i
  <2> QED
    BY <1>1, <2>1, <2>2, <2>3
<1>3. CASE CachedEnd(offset) = {}
  <2>1. CachedNext(offset) = offset + (gSize - (offset - gPageOffset)) + 0
    BY <1>3 DEF CachedNext, CachedSize
  <2> QED
    BY <1>1, <2>1
<1> QED
  BY <1>2, <1>3

\* bctbx_file_get_nxtline: what it reads ahead is a page of the file.
LEMMA GetLineInv ==
  ASSUME HandleInv, NEW n \in 1 .. MaxLen, bctbx_file_get_nxtline(n)
  PROVE  HandleInv'
<1> USE FileSizesAssumption, FileBytesAssumption
<1>1. PICK r \in 0 .. fSize :
        /\ Flush(r) /\ file' = Flushed(r) /\ PageWritten(r)
        /\ LineFromCache \/ LineFromRead(Flushed(r), n)
  BY DEF bctbx_file_get_nxtline
<1>2. Open /\ mode' = mode /\ offset \in Sizes /\ offset' <= MaxSize
  BY DEF bctbx_file_get_nxtline, HandleInv, TypeOK
<1>3. NoPage /\ faults' \in 0 .. MaxFaults /\ file' \in Contents
  BY <1>1, FlushFacts DEF PageWritten
<1>4. CASE LineFromCache
  <2>1. offset' \in Sizes
    BY <1>2, <1>4, CachedForward DEF LineFromCache, Sizes
  <2>2. stray' \in BOOLEAN
    BY <1>4 DEF LineFromCache
  <2>3. GetType'
    BY <1>4, GetKept DEF LineFromCache
  <2> QED
    BY <1>2, <1>3, <2>1, <2>2, <2>3, FlushingCall
<1>5. CASE LineFromRead(Flushed(r), n)
  <2> DEFINE k == Available(Flushed(r), offset, n)
             s == ReadBytes(Flushed(r), offset, n)
  <2>0. n \in Nat
    OBVIOUS
  <2>1. k \in Nat /\ offset + k <= MaxSize
    BY <1>2, <2>0, AvailableBounds
  <2>2. s \in [0 .. (k - 1) -> Byte \cup {NoByte}]
    <3>1. Flushed(r) \in Contents
      BY <1>1, FlushFacts
    <3>2. ASSUME NEW i \in 0 .. (k - 1) PROVE Flushed(r)[offset + i] \in Byte \cup {NoByte}
      <4>1. offset + i \in Pos
        BY <1>2, <2>1 DEF Pos, Sizes
      <4> QED
        BY <3>1, <4>1 DEF Contents
    <3> QED
      BY <3>2 DEF ReadBytes
  <2>3. /\ IF n < BCTBX_VFS_GETLINE_PAGE_SIZE
           THEN /\ gPage' = s /\ gSize' = k /\ gPageOffset' = offset
                /\ gEOT' = (k < n) /\ cut' = FALSE
           ELSE GetAfterFlush
        /\ \E l \in LinesRead(s, k, n) :
             offset' = offset + l[1] + l[2] /\ stray' = (l[1] > k + 1)
    BY <1>5 DEF LineFromRead
  <2> HIDE DEF k, s
  <2>4. GetType'
    <3>1. CASE n < BCTBX_VFS_GETLINE_PAGE_SIZE
      <4>1. gSize' \in Sizes /\ gPageOffset' \in Sizes
            /\ gPage' \in [0 .. (gSize' - 1) -> Byte \cup {NoByte}]
        BY <1>2, <2>1, <2>2, <2>3, <3>1 DEF Sizes
      <4>2. gEOT' \in BOOLEAN
        BY <2>3, <3>1
      <4>3. cut' \in BOOLEAN
        BY <2>3, <3>1
      <4> QED
        BY <4>1, <4>2, <4>3 DEF GetType
    <3>2. CASE ~(n < BCTBX_VFS_GETLINE_PAGE_SIZE)
      BY <2>3, <3>2, GetKept DEF GetAfterFlush
    <3> QED
      BY <3>1, <3>2
  <2>5. offset' \in Sizes
    <3>1. PICK l \in LinesRead(s, k, n) : offset' = offset + l[1] + l[2]
      BY <2>3
    <3>2. l[1] \in Nat /\ l[2] \in Nat
      BY <2>0, <2>1, <3>1, LineSizes
    <3> QED
      BY <1>2, <3>1, <3>2 DEF Sizes
  <2>6. stray' \in BOOLEAN
    BY <2>3
  <2> QED
    BY <1>2, <1>3, <2>4, <2>5, <2>6, FlushingCall
<1> QED
  BY <1>1, <1>4, <1>5

\* Every step preserves the invariant.
LEMMA HandleStep == HandleInv /\ [Next]_vars => HandleInv'
<1> SUFFICES ASSUME HandleInv, [Next]_vars PROVE HandleInv'
  OBVIOUS
<1>1. ASSUME Call, stray' = FALSE PROVE HandleInv'
  BY <1>1, LifecycleInv, FlushInv, WriteInv, FprintfInv DEF Call
<1>2. ASSUME NEW n \in 1 .. MaxLen, bctbx_file_get_nxtline(n) PROVE HandleInv'
  BY <1>2, GetLineInv
<1>3. CASE UNCHANGED vars
  BY <1>3 DEF vars, HandleInv, TypeOK, PageInv, Open
<1> QED
  BY <1>1, <1>2, <1>3 DEF Next

\* The invariant of a handle: the printed page never fills up, it ends inside the file's
\* bounds, and while nothing has been lost the position is at its end.
THEOREM HandleInvariant == Spec => []HandleInv
<1> QED
  BY HandleInit, HandleStep, PTL DEF Spec

\* The variables of a handle keep their types; in particular the page that
\* bctbx_file_fprintf fills stays below BCTBX_VFS_PRINTF_PAGE_SIZE (vfs.c l. 247).
THEOREM HandleTypeCorrect == Spec => []TypeOK
<1>1. HandleInv => TypeOK
  BY DEF HandleInv
<1> QED
  BY <1>1, HandleInvariant, PTL

-----------------------------------------------------------------------------
(* The handle implements a stream.                                         *)

\* The content is a file.
LEMMA ContentType ==
  ASSUME HandleInv
  PROVE  Content \in Contents
<1>1. /\ file \in Contents /\ fPageOffset \in Nat /\ fSize \in Nat
      /\ \A i \in 0 .. (fSize - 1) : fPage[i] \in Byte
  BY FileSizesAssumption DEF HandleInv, TypeOK, Contents, Sizes
<1> QED
  BY <1>1, PatchType DEF Content

\* Without a printed page the content is the file.
LEMMA NoPageContent ==
  /\ fSize = 0 => Content = file
  /\ fSize' = 0 => Content' = file'
  BY DEF Content, Patch

\* Bytes that reach the content are a write of the stream.
LEMMA PatchIsWrite ==
  ASSUME HandleInv, faults = 0, faults' = 0, NEW off \in Sizes, NEW w \in Nat, w > 0,
         off + w <= MaxSize, NEW d, \A i \in 0 .. (w - 1) : d[i] \in Byte,
         Content' = Patch(Content, off, d, w)
  PROVE  Stream!Write(off, w)
<1> USE FileSizesAssumption
<1> DEFINE c == Content
           cc == Patch(c, off, d, w)
           data == [i \in 0 .. (w - 1) |-> cc[off + i]]
<1>1. c \in Contents /\ off \in Nat
  BY ContentType DEF Sizes
<1>2. ASSUME NEW p \in Pos
      PROVE  cc[p] = IF off <= p /\ p < off + w THEN d[p - off]
                     ELSE IF p < off /\ c[p] = NoByte THEN Zero ELSE c[p]
  BY DEF Patch
<1>3. cc = [p \in Pos |-> cc[p]]
  BY DEF Patch
<1> HIDE DEF c, cc
<1>4. ASSUME NEW i \in 0 .. (w - 1) PROVE off + i \in Pos /\ cc[off + i] = d[i] /\ data[i] = d[i]
  <2>1. off + i \in Pos /\ off <= off + i /\ off + i < off + w /\ (off + i) - off = i
    BY <1>1 DEF Pos
  <2> QED
    BY <2>1, <1>2
<1>5. data \in [0 .. (w - 1) -> Byte]
  BY <1>4
<1>6. DOMAIN data = 0 .. (w - 1)
  OBVIOUS
<1>7. ASSUME NEW p \in Pos
      PROVE  cc[p] = IF p - off \in DOMAIN data THEN data[p - off]
                     ELSE [q \in Pos |-> IF c[q] = NoByte /\ q < off THEN Zero ELSE c[q]][p]
  <2>0. p \in Nat
    BY DEF Pos
  <2>1. CASE p - off \in DOMAIN data
    <3>1. off <= p /\ p < off + w /\ p - off \in 0 .. (w - 1)
      BY <1>1, <1>6, <2>0, <2>1
    <3>2. data[p - off] = d[p - off]
      BY <3>1, <1>4
    <3> HIDE DEF data
    <3> QED
      BY <2>1, <3>1, <3>2, <1>2
  <2>2. CASE p - off \notin DOMAIN data
    <3>1. ~(off <= p /\ p < off + w)
      BY <1>1, <1>6, <2>0, <2>2
    <3> HIDE DEF data
    <3> QED
      BY <2>2, <3>1, <1>2
  <2> QED
    BY <2>1, <2>2
<1>8. cc = [p \in Pos |-> IF p - off \in DOMAIN data THEN data[p - off]
              ELSE [q \in Pos |-> IF c[q] = NoByte /\ q < off THEN Zero ELSE c[q]][p]]
  <2> HIDE DEF data
  <2> QED
    BY <1>3, <1>7
<1>9. \A i \in DOMAIN data : off + i \in Pos
  BY <1>4
<1>10. Content' = cc
  BY DEF cc, c
<1>11. data = [i \in 0 .. (w - 1) |-> Content'[off + i]]
  BY <1>10
<1> HIDE DEF data
<1>12. Stream!File!Write(off, data)
  BY <1>8, <1>9, <1>10 DEF Stream!File!Write, Stream!File!Fill, Stream!File!Pos, Pos, c
<1> QED
  BY <1>5, <1>11, <1>12 DEF Stream!Write

\* A step that leaves the content alone, or writes to it, is a step of the stream.
LEMMA StepIsStream ==
  ASSUME HandleInv, faults = 0, faults' = 0, NEW off \in Sizes, NEW w \in 0 .. MaxData,
         off + w <= MaxSize, NEW d, \A i \in 0 .. (w - 1) : d[i] \in Byte,
         Content' = Patch(Content, off, d, w),
         offset' = offset \/ offset' = off + w
  PROVE  Stream!Next
<1> USE FileSizesAssumption
<1>1. CASE w = 0
  <2>1. Content' = Content
    BY <1>1 DEF Patch
  <2> QED
    BY <2>1 DEF Stream!Next, Stream!Seek
<1>2. CASE w > 0
  <2>1. Stream!Write(off, w)
    BY <1>2, PatchIsWrite
  <2>2. off \in 0 .. MaxSize
    BY DEF Sizes
  <2>3. Stream!Put(off, w) \/ Stream!WriteThrough(off, w)
    BY <2>1 DEF Stream!Put, Stream!WriteThrough
  <2> QED
    BY <2>2, <2>3 DEF Stream!Next
<1> QED
  BY <1>1, <1>2

\* bctbx_file_fprintf is a write of the stream, or the caller sees an error.
LEMMA FprintfRefines ==
  ASSUME HandleInv, faults' = 0, NEW n \in 1 .. MaxData, NEW data \in Data(n),
         NEW off \in Sizes, bctbx_file_fprintf(off, data, n)
  PROVE  Stream!Next
<1> USE FileSizesAssumption, FileBytesAssumption
<1> DEFINE o == IF off = 0 THEN offset ELSE off
<1>1. n \in Nat /\ \A i \in 0 .. (n - 1) : data[i] \in Byte
  BY DEF Data
<1>2. PICK b \in IF off = 0 THEN {Current}
                 ELSE {AfterFlush(r) : r \in {q \in 0 .. fSize : Flush(q)}}
                      \cup {c \in {FlushIgnored} : fSize > 0} :
        PrintToPage(b, o, data, n) \/ PrintToFile(b, o, data, n) \/ PrintFails(b, o, n)
  BY DEF bctbx_file_fprintf
<1>3. /\ b.file \in Contents /\ b.size \in 0 .. fSize /\ b.lost \in 0 .. 1
      /\ b.page \in [0 .. (b.size - 1) -> Byte]
      /\ b.size = 0 \/ (b.size = fSize /\ b.page = fPage /\ b.file = file)
      /\ b.size > 0 /\ off # 0 => b.lost = 1
      /\ b.lost = 0 => Patch(b.file, fPageOffset, b.page, b.size) = Content
  BY <1>2, StartFacts
<1>4. /\ fSize \in Nat /\ fPageOffset \in Nat /\ offset \in Sizes /\ faults \in Nat
      /\ faults = 0 /\ fSize > 0 => offset = fPageOffset + fSize
  BY DEF HandleInv, TypeOK, PageInv, Sizes
<1>5. o + n <= MaxSize /\ o \in Sizes
  BY <1>4 DEF bctbx_file_fprintf
<1>6. b.lost = 0 /\ faults = 0
  BY <1>2, <1>3, <1>4 DEF PrintToPage, PrintToFile, PrintFails
<1>7. b.size > 0 => o = fPageOffset + b.size
  BY <1>3, <1>4, <1>6
<1>8. b.size = 0 => b.file = Content
  BY <1>3, <1>6 DEF Patch
<1> HIDE DEF o
<1> DEFINE d == Joined(b, data, n)
           at == IF b.size > 0 THEN fPageOffset ELSE o
<1>9. \A i \in 0 .. (b.size + n - 1) : d[i] = IF i < b.size THEN b.page[i] ELSE data[i - b.size]
  BY DEF Joined
<1>10. Patch(b.file, at, d, b.size + n) = Patch(Content, o, data, n)
  <2>1. CASE b.size > 0
    <3>1. b.size \in Nat \ {0} /\ \A i \in 0 .. (b.size - 1) : b.page[i] \in Byte
      BY <1>3, <1>4, <2>1
    <3> HIDE DEF d
    <3> DEFINE f == b.file
               z == b.size
               page == b.page
    <3>2. f \in Contents /\ fPageOffset \in Nat /\ n \in Nat /\ z \in Nat \ {0}
      BY <1>1, <1>3, <1>4, <3>1
    <3>3. \A i \in 0 .. (z - 1) : page[i] \in Byte
      BY <3>1
    <3>4. \A i \in 0 .. (z + n - 1) : d[i] = IF i < z THEN page[i] ELSE data[i - z]
      BY <1>9
    <3>5. Patch(f, fPageOffset, d, z + n)
            = Patch(Patch(f, fPageOffset, page, z), fPageOffset + z, data, n)
      <4> HIDE DEF f, z, page
      <4> QED
        BY <3>2, <3>3, <3>4, PatchJoined
    <3> QED
      BY <1>3, <1>6, <1>7, <2>1, <3>5
  <2>2. CASE b.size = 0
    <3>1. \A i \in 0 .. (n - 1) : d[i] = data[i]
      <4> HIDE DEF d
      <4> QED
        BY <1>1, <1>9, <2>2
    <3> HIDE DEF d
    <3>2. ASSUME NEW p \in Pos, o <= p, p < o + n PROVE d[p - o] = data[p - o]
      <4>1. p - o \in 0 .. (n - 1)
        BY <1>1, <1>5, <3>2 DEF Pos, Sizes
      <4> QED
        BY <3>1, <4>1
    <3>3. Patch(Content, o, d, n) = Patch(Content, o, data, n)
      BY <3>2 DEF Patch
    <3> QED
      BY <1>1, <1>8, <2>2, <3>3
  <2> QED
    BY <1>3, <1>4, <2>1, <2>2
<1> HIDE DEF d, at
<1>11. ASSUME Content' = Patch(Content, o, data, n), offset' = o + n PROVE Stream!Next
  BY <1>1, <1>5, <1>6, <1>11, StepIsStream
<1>12. CASE PrintToPage(b, o, data, n)
  <2>1. /\ file' = b.file /\ fPage' = d /\ fSize' = b.size + n /\ offset' = o + n
        /\ fPageOffset' = IF b.size = 0 THEN o ELSE fPageOffset
    BY <1>12 DEF PrintToPage, d
  <2>2. fPageOffset' = at
    BY <1>3, <1>4, <2>1 DEF at
  <2>3. Content' = Patch(b.file, at, d, b.size + n)
    BY <2>1, <2>2 DEF Content
  <2> QED
    BY <1>10, <1>11, <2>1, <2>3
<1>13. CASE PrintToFile(b, o, data, n)
  <2>1. PICK w \in 0 .. (b.size + n) :
       /\ file' = Patch(b.file, at, d, w)
       /\ faults' = faults + (IF b.size > 0 /\ w < b.size + n THEN 1 ELSE b.lost)
       /\ offset' = o + (IF b.size > 0 THEN n ELSE w)
    BY <1>13 DEF PrintToFile, at, d
  <2>2. Content' = file'
    BY <1>13, NoPageContent DEF PrintToFile, NoPage
  <2>3. CASE w = b.size + n
    <3>1. offset' = o + n
      BY <1>1, <1>3, <1>4, <2>1, <2>3
    <3> QED
      BY <1>10, <1>11, <2>1, <2>2, <2>3, <3>1
  <2>4. CASE w # b.size + n
    <3>1. b.size = 0 /\ w \in 0 .. n /\ offset' = o + w /\ at = o
      BY <1>1, <1>3, <1>4, <1>6, <2>1, <2>4 DEF at
    <3>2. Content' = Patch(Content, o, d, w)
      BY <1>8, <2>1, <2>2, <3>1
    <3>3. \A i \in 0 .. (w - 1) : d[i] \in Byte
      <4>1. \A i \in 0 .. (w - 1) : i \in 0 .. (n - 1) /\ d[i] = data[i]
        BY <1>1, <1>9, <3>1
      <4> QED
        BY <1>1, <4>1
    <3>4. w \in 0 .. MaxData /\ o + w <= MaxSize
      BY <1>1, <1>5, <3>1 DEF Sizes
    <3> QED
      BY <1>5, <1>6, <3>1, <3>2, <3>3, <3>4, StepIsStream
  <2> QED
    BY <2>3, <2>4
<1>14. CASE PrintFails(b, o, n)
  <2>1. /\ file' = b.file /\ fPage' = b.page /\ fSize' = b.size
        /\ b.size # 0 => fPageOffset' = fPageOffset
    BY <1>14 DEF PrintFails
  <2>2. Content' = Content
    <3>1. CASE b.size = 0
      BY <1>8, <2>1, <3>1, NoPageContent
    <3>2. CASE b.size # 0
      BY <1>3, <1>6, <2>1, <3>2 DEF Content
    <3> QED
      BY <3>1, <3>2
  <2> QED
    BY <1>6, <2>2 DEF Stream!Next, Stream!Seek
<1> QED
  BY <1>2, <1>12, <1>13, <1>14

\* Every call is a step of the stream or leaves it alone.
LEMMA StreamStep == HandleInv /\ [Next]_vars => [Stream!Next]_(Stream!vars)
<1> SUFFICES ASSUME HandleInv, Next PROVE Stream!Next
  <2>1. UNCHANGED vars => UNCHANGED Stream!vars
    BY DEF vars, Stream!vars, Content
  <2> QED
    BY <2>1
<1> USE FileSizesAssumption, FileBytesAssumption
<1>0. faults \in Nat /\ fSize \in Nat /\ offset \in Sizes
  BY DEF HandleInv, TypeOK
<1>1. CASE faults' # 0
  BY <1>1 DEF Stream!Next, Stream!Damage
<1>2. CASE faults' = 0
  <2>1. ASSUME NEW r \in 0 .. fSize, Flush(r), faults' = IF r < fSize THEN faults + 1 ELSE faults
        PROVE  faults = 0 /\ Flushed(r) = Content
    BY <1>0, <1>2, <2>1, FlushFacts
  <2>2. ASSUME NEW r \in 0 .. fSize, Flush(r), PageWritten(r)
        PROVE  faults = 0 /\ Flushed(r) = Content /\ Content' = file'
    BY <2>1, <2>2, NoPageContent DEF PageWritten, NoPage
  <2>3. ASSUME NEW r \in 0 .. fSize, Flush(r), PageWritten(r), file' = Flushed(r)
        PROVE  Stream!Next
    BY <1>2, <2>2, <2>3 DEF Stream!Next, Stream!Seek
  <2>4. ASSUME NEW m \in Modes, bctbx_file_open(m) PROVE Stream!Next
    <3>1. fSize = 0 /\ fSize' = 0 /\ faults = 0 /\ offset' = offset
      BY <1>2, <2>4 DEF bctbx_file_open, HandleInv, PageInv
    <3>2. Content = file /\ Content' = file'
      BY <3>1, NoPageContent
    <3>3. CASE file' = file
      BY <1>2, <3>1, <3>2, <3>3 DEF Stream!Next, Stream!Seek
    <3>4. CASE file' = [p \in Pos |-> NoByte]
      <4>1. Content' = [p \in Pos |-> IF p >= 0 THEN NoByte
                          ELSE [q \in Pos |-> IF Content[q] = NoByte /\ q < 0 THEN Zero
                                              ELSE Content[q]][p]]
        BY <3>2, <3>4 DEF Pos
      <4>2. Stream!Truncate(0)
        BY <1>2, <3>1, <4>1
           DEF Stream!Truncate, Stream!File!Truncate, Stream!File!Fill, Stream!File!Pos, Pos
      <4>3. 0 \in 0 .. MaxSize
        OBVIOUS
      <4> QED
        BY <4>2, <4>3 DEF Stream!Next
    <3> QED
      BY <2>4, <3>3, <3>4 DEF bctbx_file_open
  <2>5. CASE bctbx_file_flush
    BY <2>3, <2>5 DEF bctbx_file_flush
  <2>6. ASSUME NEW n \in 1 .. MaxData, NEW data \in Data(n), NEW off \in Sizes,
               bctbx_file_write(off, data, n)
        PROVE  Stream!Next
    <3>1. PICK r \in 0 .. fSize, w \in 0 .. n :
            Flush(r) /\ file' = Patch(Flushed(r), off, data, w) /\ PageWritten(r)
      BY <2>6 DEF bctbx_file_write
    <3>2. faults = 0 /\ Content' = Patch(Content, off, data, w)
      BY <2>2, <3>1
    <3>3. offset' = offset /\ off + n <= MaxSize
      BY <2>6 DEF bctbx_file_write
    <3>4. \A i \in 0 .. (w - 1) : data[i] \in Byte
      BY DEF Data
    <3>5. w \in 0 .. MaxData /\ off + w <= MaxSize
      BY <3>3 DEF Sizes
    <3> QED
      BY <1>2, <3>2, <3>3, <3>4, <3>5, StepIsStream
  <2>7. ASSUME NEW n \in 1 .. MaxData, NEW data \in Data(n), bctbx_file_write2(data, n)
        PROVE  Stream!Next
    <3>1. PICK r \in 0 .. fSize, w \in 0 .. n :
            /\ Flush(r) /\ file' = Patch(Flushed(r), offset, data, w) /\ PageWritten(r)
            /\ offset' = offset + w
      BY <2>7 DEF bctbx_file_write2
    <3>2. faults = 0 /\ Content' = Patch(Content, offset, data, w)
      BY <2>2, <3>1
    <3>3. offset + n <= MaxSize
      BY <2>7 DEF bctbx_file_write2
    <3>4. \A i \in 0 .. (w - 1) : data[i] \in Byte
      BY DEF Data
    <3>5. w \in 0 .. MaxData /\ offset + w <= MaxSize
      BY <1>0, <3>3 DEF Sizes
    <3> QED
      BY <1>0, <1>2, <3>1, <3>2, <3>4, <3>5, StepIsStream
  <2>8. ASSUME NEW n \in 1 .. MaxData, NEW data \in Data(n), NEW off \in Sizes,
               bctbx_file_fprintf(off, data, n)
        PROVE  Stream!Next
    BY <1>2, <2>8, FprintfRefines
  <2>9. ASSUME NEW o \in Sizes, bctbx_file_seek(o) PROVE Stream!Next
    BY <2>3, <2>9 DEF bctbx_file_seek
  <2>10. ASSUME NEW n \in 1 .. MaxData, bctbx_file_read2(n) PROVE Stream!Next
    BY <2>3, <2>10 DEF bctbx_file_read2
  <2>11. ASSUME NEW n \in Sizes, bctbx_file_truncate(n) PROVE Stream!Next
    <3>1. PICK r \in 0 .. fSize :
            /\ Flush(r) /\ PageWritten(r)
            /\ file' = [p \in Pos |-> IF p >= n THEN NoByte
                                      ELSE IF Flushed(r)[p] = NoByte THEN Zero ELSE Flushed(r)[p]]
      BY <2>11 DEF bctbx_file_truncate
    <3>2. faults = 0 /\ Flushed(r) = Content /\ Content' = file'
      BY <2>2, <3>1
    <3>3. Content' = [p \in Pos |-> IF p >= n THEN NoByte
                          ELSE [q \in Pos |-> IF Content[q] = NoByte /\ q < n THEN Zero
                                              ELSE Content[q]][p]]
      BY <3>1, <3>2 DEF Pos, Sizes
    <3>4. offset' = offset
      BY <2>11 DEF bctbx_file_truncate
    <3>5. Stream!Truncate(n)
      BY <1>2, <3>2, <3>3, <3>4
         DEF Stream!Truncate, Stream!File!Truncate, Stream!File!Fill, Stream!File!Pos, Pos
    <3> QED
      BY <3>5 DEF Stream!Next, Sizes
  <2>12. CASE bctbx_file_close
    <3>1. PICK r \in 0 .. fSize : /\ Flush(r) /\ file' = Flushed(r)
                                  /\ faults' = IF r < fSize THEN faults + 1 ELSE faults
      BY <2>12 DEF bctbx_file_close
    <3>2. Content' = file'
      BY <2>12, NoPageContent DEF bctbx_file_close, NoHandle, NoPage
    <3> QED
      BY <1>2, <2>1, <3>1, <3>2 DEF Stream!Next, Stream!Seek
  <2>13. CASE Crash
    <3>1. fSize = 0 /\ fSize' = 0 /\ faults = 0 /\ file' = file
      BY <1>0, <1>2, <2>13 DEF Crash, NoHandle, NoPage
    <3>2. Content' = Content
      BY <3>1, NoPageContent
    <3> QED
      BY <1>2, <3>1, <3>2 DEF Stream!Next, Stream!Seek
  <2>14. ASSUME NEW n \in 1 .. MaxLen, bctbx_file_get_nxtline(n) PROVE Stream!Next
    BY <2>3, <2>14 DEF bctbx_file_get_nxtline
  <2>15. CASE Call
    BY <2>4, <2>5, <2>6, <2>7, <2>8, <2>9, <2>10, <2>11, <2>12, <2>13, <2>15 DEF Call
  <2> QED
    BY <2>14, <2>15 DEF Next
<1> QED
  BY <1>1, <1>2

\* A handle with its two pages behaves as a stream without any: what fprintf printed is in
\* the file for every later call, until bytes are lost without an error to the caller.
THEOREM StreamRefinement == Spec => ImplementsStream
<1>1. Init => Stream!Init
  BY NoPageContent DEF Init, Stream!Init, Stream!File!Init, Stream!File!Pos, Pos
<1> QED
  BY <1>1, StreamStep, HandleInvariant, PTL DEF Spec, ImplementsStream, Stream!Spec

-----------------------------------------------------------------------------
(* The page read ahead.                                                    *)

\* The file is its first s bytes.
Prefix(f, s) == \A p \in Pos : f[p] # NoByte <=> p < s

\* The page read ahead holds the bytes of the file at its offset, all of them up to the end
\* when it has the EOT mark.
GetFresh ==
  ~cut /\ gSize > 0 =>
    /\ gPageOffset + gSize <= FileSize(file)
    /\ \A i \in 0 .. (gSize - 1) : gPage[i] = file[gPageOffset + i]
    /\ gEOT => gPageOffset + gSize = FileSize(file)

LinesInv ==
  /\ HandleInv
  /\ \E s \in Sizes : Prefix(file, s)
  /\ ~Open => gSize = 0
  /\ GetFresh

\* The size of a file without holes.
LEMMA SizeOfPrefix ==
  ASSUME NEW f, NEW s \in Sizes, Prefix(f, s)
  PROVE  FileSize(f) = s
<1>1. s \in Nat /\ s <= MaxSize
  BY FileSizesAssumption DEF Sizes
<1>2. {p \in Pos : f[p] # NoByte} = 0 .. (s - 1)
  <2>1. \A p \in Pos : f[p] # NoByte <=> p \in 0 .. (s - 1)
    BY <1>1 DEF Prefix, Pos
  <2>2. \A p \in 0 .. (s - 1) : p \in Pos
    BY <1>1, FileSizesAssumption DEF Pos
  <2> QED
    BY <2>1, <2>2
<1>3. Cardinality(0 .. (s - 1)) = IF 0 > s - 1 THEN 0 ELSE (s - 1) - 0 + 1
  <2>1. 0 \in Int /\ s - 1 \in Int
    BY <1>1
  <2> QED
    BY <2>1, FS_Interval
<1>4. FileSize(f) = Cardinality(0 .. (s - 1))
  BY <1>2, Zenon DEF FileSize
<1>5. (IF 0 > s - 1 THEN 0 ELSE (s - 1) - 0 + 1) = s
  BY <1>1
<1> QED
  BY <1>3, <1>4, <1>5

\* A write of bytes leaves no hole: a gap before it is filled.
LEMMA PatchPrefix ==
  ASSUME NEW f, NEW s \in Sizes, Prefix(f, s), NEW off \in Nat, NEW n \in Nat,
         NEW data, \A i \in 0 .. (n - 1) : data[i] \in Byte
  PROVE  \E z \in Sizes : Prefix(Patch(f, off, data, n), z)
<1> USE FileSizesAssumption, FileBytesAssumption
<1>0. s \in Nat /\ s <= MaxSize
  BY DEF Sizes
<1>1. CASE n = 0
  BY <1>1 DEF Patch
<1>2. CASE n # 0
  <2> DEFINE e == IF off + n > MaxSize THEN MaxSize ELSE off + n
             z == IF s > e THEN s ELSE e
             g == Patch(f, off, data, n)
  <2>1. z \in Sizes
    BY <1>0 DEF Sizes
  <2>2. ASSUME NEW p \in Pos PROVE g[p] # NoByte <=> p < z
    <3>1. p \in Nat /\ p < MaxSize
      BY DEF Pos
    <3>2. g[p] = IF off <= p /\ p < off + n THEN data[p - off]
                 ELSE IF p < off /\ f[p] = NoByte THEN Zero ELSE f[p]
      BY <1>2 DEF Patch
    <3>3. f[p] # NoByte <=> p < s
      BY DEF Prefix
    <3>4. CASE off <= p /\ p < off + n
      <4>1. data[p - off] \in Byte
        BY <3>1, <3>4
      <4>2. p < z
        BY <1>0, <3>1, <3>4
      <4> QED
        BY <3>2, <3>4, <4>1, <4>2
    <3>5. CASE p < off
      <4>1. g[p] # NoByte
        BY <3>1, <3>2, <3>5
      <4>2. p < z
        BY <1>0, <1>2, <3>1, <3>5
      <4> QED
        BY <4>1, <4>2
    <3>6. CASE off + n <= p
      <4>1. g[p] = f[p]
        BY <3>1, <3>2, <3>6
      <4>2. p < z <=> p < s
        BY <1>0, <3>1, <3>6
      <4> QED
        BY <3>3, <4>1, <4>2
    <3> QED
      BY <3>1, <3>4, <3>5, <3>6
  <2> HIDE DEF z, g
  <2>3. Prefix(g, z)
    BY <2>2 DEF Prefix
  <2> QED
    BY <2>1, <2>3 DEF g
<1> QED
  BY <1>1, <1>2

\* A flush leaves no hole, and writes nothing without a page.
LEMMA FlushPrefix ==
  ASSUME LinesInv, NEW r \in 0 .. fSize, Flush(r)
  PROVE  /\ \E z \in Sizes : Prefix(Flushed(r), z)
         /\ fSize = 0 => Flushed(r) = file
<1>1. PICK s \in Sizes : Prefix(file, s)
  BY DEF LinesInv
<1>2. /\ fPageOffset \in Nat /\ fSize \in Nat /\ r \in Nat /\ r <= fSize
      /\ \A i \in 0 .. (r - 1) : fPage[i] \in Byte
  BY FileSizesAssumption DEF LinesInv, HandleInv, TypeOK, Sizes
<1>3. \E z \in Sizes : Prefix(Flushed(r), z)
  BY <1>1, <1>2, PatchPrefix DEF Flushed
<1> QED
  BY <1>2, <1>3 DEF Flushed, Patch

\* A call that drops the page read ahead, or that keeps it and the file.
LEMMA LinesKept ==
  ASSUME LinesInv, HandleInv', \E z \in Sizes : Prefix(file', z), mode' # <<>> \/ CancelGet,
         CancelGet \/ (KeepGet /\ file' = file)
  PROVE  LinesInv'
<1>1. CASE CancelGet
  BY <1>1 DEF CancelGet, LinesInv, GetFresh
<1>2. CASE KeepGet /\ file' = file /\ mode' # <<>>
  BY <1>2 DEF KeepGet, LinesInv, GetFresh, Open
<1> QED
  BY <1>1, <1>2

\* The calls that write, open, close or crash leave a file without holes, and drop a page
\* read ahead that the file no longer matches.
LEMMA LinesCall ==
  ASSUME LinesInv, HandleInv',
         \/ \E m \in Modes : bctbx_file_open(m)
         \/ bctbx_file_flush
         \/ \E o \in Sizes : bctbx_file_seek(o)
         \/ \E n \in 1 .. MaxData : bctbx_file_read2(n)
         \/ \E n \in Sizes : bctbx_file_truncate(n)
         \/ bctbx_file_close
         \/ Crash
  PROVE  LinesInv'
<1> USE FileSizesAssumption
<1>0. PICK s \in Sizes : Prefix(file, s)
  BY DEF LinesInv
<1>1. ASSUME NEW m \in Modes, bctbx_file_open(m) PROVE LinesInv'
  <2>1. \E z \in Sizes : Prefix(file', z)
    <3>1. CASE "O_TRUNC" \in set_flags(m)
      <4>1. file' = [p \in Pos |-> NoByte]
        BY <1>1, <3>1 DEF bctbx_file_open
      <4>2. 0 \in Sizes /\ \A p \in Pos : ~(p < 0)
        BY DEF Sizes, Pos
      <4>3. Prefix(file', 0)
        BY <4>1, <4>2 DEF Prefix
      <4> QED
        BY <4>2, <4>3
    <3> QED
      BY <1>0, <1>1, <3>1 DEF bctbx_file_open
  <2>2. gSize' = 0
    BY <1>1 DEF bctbx_file_open, LinesInv
  <2> QED
    BY <2>1, <2>2 DEF LinesInv, GetFresh
<1>2. CASE bctbx_file_flush
  <2>1. PICK r \in 0 .. fSize : Flush(r) /\ file' = Flushed(r)
    BY <1>2 DEF bctbx_file_flush
  <2> QED
    BY <1>2, <2>1, FlushPrefix, LinesKept DEF bctbx_file_flush
<1>3. ASSUME NEW r \in 0 .. fSize, Flush(r), file' = Flushed(r), GetAfterFlush, Open,
             mode' = mode
      PROVE  LinesInv'
  <2>1. fSize \in Nat
    BY DEF LinesInv, HandleInv, TypeOK
  <2>2. CancelGet \/ (KeepGet /\ file' = file)
    BY <1>3, <2>1, FlushPrefix DEF GetAfterFlush
  <2> QED
    BY <1>3, <2>2, FlushPrefix, LinesKept DEF Open
<1>4. ASSUME NEW o \in Sizes, bctbx_file_seek(o) PROVE LinesInv'
  BY <1>3, <1>4 DEF bctbx_file_seek
<1>5. ASSUME NEW n \in 1 .. MaxData, bctbx_file_read2(n) PROVE LinesInv'
  BY <1>3, <1>5 DEF bctbx_file_read2
<1>6. ASSUME NEW n \in Sizes, bctbx_file_truncate(n) PROVE LinesInv'
  <2>1. PICK r \in 0 .. fSize :
          file' = [p \in Pos |-> IF p >= n THEN NoByte
                                 ELSE IF Flushed(r)[p] = NoByte THEN Zero ELSE Flushed(r)[p]]
    BY <1>6 DEF bctbx_file_truncate
  <2>2. ASSUME NEW p \in Pos PROVE file'[p] # NoByte <=> p < n
    <3>1. p \in Nat /\ n \in Nat
      BY DEF Pos, Sizes
    <3>2. Zero # NoByte
      BY FileBytesAssumption
    <3>3. file'[p] = IF p >= n THEN NoByte
                     ELSE IF Flushed(r)[p] = NoByte THEN Zero ELSE Flushed(r)[p]
      BY <2>1
    <3> QED
      BY <3>1, <3>2, <3>3
  <2>3. \E z \in Sizes : Prefix(file', z)
    BY <2>2 DEF Prefix
  <2>4. CASE fSize > 0
    BY <1>6, <2>3, <2>4, LinesKept DEF bctbx_file_truncate
  <2>5. CASE ~(fSize > 0)
    <3>1. cut' = (gSize' > 0) /\ mode' = mode /\ Open
      BY <1>6, <2>5 DEF bctbx_file_truncate
    <3>2. GetFresh'
      BY <3>1 DEF GetFresh
    <3> QED
      BY <2>3, <3>1, <3>2 DEF LinesInv, Open
  <2> QED
    BY <2>4, <2>5
<1>7. CASE bctbx_file_close
  BY <1>7, FlushPrefix, LinesKept DEF bctbx_file_close, NoHandle
<1>8. CASE Crash
  BY <1>0, <1>8, LinesKept DEF Crash, NoHandle
<1> QED
  BY <1>1, <1>2, <1>4, <1>5, <1>6, <1>7, <1>8

\* bctbx_file_write, bctbx_file_write2 and bctbx_file_fprintf.
LEMMA LinesWrite ==
  ASSUME LinesInv, HandleInv', NEW n \in 1 .. MaxData, NEW data \in Data(n),
         \/ \E off \in Sizes : bctbx_file_write(off, data, n)
         \/ bctbx_file_write2(data, n)
         \/ \E off \in Sizes : bctbx_file_fprintf(off, data, n)
  PROVE  LinesInv'
<1> USE FileSizesAssumption
<1>1. n \in Nat /\ \A i \in 0 .. (n - 1) : data[i] \in Byte
  BY FileBytesAssumption DEF Data
<1>2. /\ HandleInv /\ offset \in Sizes /\ fPageOffset \in Nat /\ fSize \in Nat
      /\ \A o \in Sizes : o \in Nat
  BY SMTT(30) DEF LinesInv, HandleInv, TypeOK, Sizes
<1>3. ASSUME NEW off \in Sizes, NEW r \in 0 .. fSize, NEW w \in 0 .. n, Flush(r)
      PROVE  \E z \in Sizes : Prefix(Patch(Flushed(r), off, data, w), z)
  <2>1. PICK s \in Sizes : Prefix(Flushed(r), s)
    BY <1>3, FlushPrefix
  <2>2. off \in Nat /\ w \in Nat /\ \A i \in 0 .. (w - 1) : data[i] \in Byte
    BY <1>1, <1>2
  <2> QED
    BY <2>1, <2>2, PatchPrefix
<1>4. ASSUME NEW off \in Sizes, bctbx_file_write(off, data, n) PROVE LinesInv'
  BY <1>3, <1>4, LinesKept DEF bctbx_file_write
<1>5. CASE bctbx_file_write2(data, n)
  BY <1>2, <1>3, <1>5, LinesKept DEF bctbx_file_write2
<1>6. ASSUME NEW off \in Sizes, bctbx_file_fprintf(off, data, n) PROVE LinesInv'
  <2> DEFINE o == IF off = 0 THEN offset ELSE off
  <2>1. PICK b \in IF off = 0 THEN {Current}
                   ELSE {AfterFlush(r) : r \in {q \in 0 .. fSize : Flush(q)}}
                        \cup {c \in {FlushIgnored} : fSize > 0} :
          PrintToPage(b, o, data, n) \/ PrintToFile(b, o, data, n) \/ PrintFails(b, o, n)
    BY <1>6 DEF bctbx_file_fprintf
  <2>2. o \in Nat /\ mode' # <<>>
    BY <1>2, <1>6 DEF bctbx_file_fprintf, Open
  <2> HIDE DEF o
  <2>3. /\ b.size \in Nat /\ b.size <= fSize /\ b.page \in [0 .. (b.size - 1) -> Byte]
        /\ b.size = 0 \/ b.file = file
    BY <1>2, <2>1, StartFacts
  <2>4. b.file = file \/ \E r \in 0 .. fSize : Flush(r) /\ b.file = Flushed(r)
    BY <2>1 DEF Current, AfterFlush, FlushIgnored
  <2>5. PICK s \in Sizes : Prefix(b.file, s)
    BY <2>4, FlushPrefix DEF LinesInv
  <2>6. ~(b.size < fSize) => b.file = file
    BY <1>2, <2>3, <2>4, FlushPrefix
  <2>7. CASE PrintToPage(b, o, data, n)
    BY <2>5, <2>7, LinesKept DEF PrintToPage
  <2>8. CASE PrintToFile(b, o, data, n)
    <3> DEFINE at == IF b.size > 0 THEN fPageOffset ELSE o
    <3>1. PICK w \in 0 .. (b.size + n) : file' = Patch(b.file, at, Joined(b, data, n), w)
      BY <2>8 DEF PrintToFile
    <3>2. at \in Nat /\ w \in Nat
      BY <1>1, <1>2, <2>2, <2>3
    <3> HIDE DEF at
    <3>3. Joined(b, data, n) \in [0 .. (b.size + n - 1) -> Byte]
      BY <1>1, <2>3, JoinedType
    <3>4. \A i \in 0 .. (w - 1) : Joined(b, data, n)[i] \in Byte
      BY <1>1, <2>3, <3>3
    <3>5. \E z \in Sizes : Prefix(file', z)
      BY <2>5, <3>1, <3>2, <3>4, PatchPrefix
    <3> QED
      BY <2>8, <3>5, LinesKept DEF PrintToFile
  <2>9. CASE PrintFails(b, o, n)
    BY <2>2, <2>5, <2>6, <2>9, LinesKept DEF PrintFails
  <2> QED
    BY <2>1, <2>7, <2>8, <2>9
<1> QED
  BY <1>4, <1>5, <1>6

\* bctbx_file_get_nxtline: the page it reads is what the file holds.
LEMMA LinesGet ==
  ASSUME LinesInv, HandleInv', NEW n \in 1 .. MaxLen, bctbx_file_get_nxtline(n)
  PROVE  LinesInv'
<1> USE FileSizesAssumption
<1>1. PICK r \in 0 .. fSize : /\ Flush(r) /\ file' = Flushed(r)
                              /\ LineFromCache \/ LineFromRead(Flushed(r), n)
  BY DEF bctbx_file_get_nxtline
<1>2. /\ mode' # <<>> /\ fSize \in Nat /\ offset \in Sizes /\ n \in Nat
  BY DEF bctbx_file_get_nxtline, Open, LinesInv, HandleInv, TypeOK
<1>3. PICK s \in Sizes : Prefix(file', s)
  BY <1>1, FlushPrefix
<1>4. FileSize(file') = s /\ s \in Nat /\ offset \in Nat
  BY <1>2, <1>3, SizeOfPrefix DEF Sizes
<1>5. fSize = 0 => file' = file
  BY <1>1, FlushPrefix
<1>6. CASE LineFromCache
  BY <1>2, <1>3, <1>5, <1>6, LinesKept DEF LineFromCache
<1>7. CASE LineFromRead(Flushed(r), n) /\ ~(n < BCTBX_VFS_GETLINE_PAGE_SIZE)
  <2>1. CancelGet \/ (KeepGet /\ file' = file)
    BY <1>2, <1>5, <1>7 DEF LineFromRead, GetAfterFlush
  <2> QED
    BY <1>2, <1>3, <2>1, LinesKept
<1>8. CASE LineFromRead(Flushed(r), n) /\ n < BCTBX_VFS_GETLINE_PAGE_SIZE
  <2> DEFINE k == Available(file', offset, n)
  <2>1. /\ k > 0 /\ gPage' = ReadBytes(file', offset, n) /\ gSize' = k /\ gPageOffset' = offset
        /\ gEOT' = (k < n)
    BY <1>1, <1>8 DEF LineFromRead
  <2>2. k = IF offset >= s THEN 0 ELSE IF offset + n > s THEN s - offset ELSE n
    BY <1>4 DEF Available
  <2>3. gPage' = [i \in 0 .. (k - 1) |-> file'[offset + i]]
    BY <2>1 DEF ReadBytes
  <2> HIDE DEF k
  <2>4. k \in Nat /\ offset + k <= s /\ (k < n => offset + k = s)
    BY <1>2, <1>4, <2>1, <2>2
  <2>5. GetFresh'
    BY <1>4, <2>1, <2>3, <2>4 DEF GetFresh
  <2> QED
    BY <1>2, <1>3, <2>5 DEF LinesInv, Open
<1> QED
  BY <1>1, <1>6, <1>7, <1>8

\* Every step keeps the page read ahead as fresh as the file.
LEMMA LinesStep == LinesInv /\ [Next]_vars => LinesInv'
<1> SUFFICES ASSUME LinesInv, [Next]_vars PROVE LinesInv'
  OBVIOUS
<1>1. HandleInv'
  BY HandleStep DEF LinesInv
<1>2. CASE Call
  BY <1>1, <1>2, LinesCall, LinesWrite DEF Call
<1>3. ASSUME NEW n \in 1 .. MaxLen, bctbx_file_get_nxtline(n) PROVE LinesInv'
  BY <1>1, <1>3, LinesGet
<1>4. CASE UNCHANGED vars
  BY <1>1, <1>4 DEF vars, LinesInv, GetFresh, Open
<1> QED
  BY <1>2, <1>3, <1>4 DEF Next

\* A buffer has at most one first line end.
LEMMA OneLineEnd ==
  ASSUME NEW b, NEW k \in Int, NEW i \in findNextLine(b, 0, k), NEW j \in findNextLine(b, 0, k)
  PROVE  i = j
<1>1. i \in 0 .. (k - 1) /\ j \in 0 .. (k - 1) /\ b[i] \in {LF, CR} /\ b[j] \in {LF, CR}
  BY DEF findNextLine
<1>2. ~(i < j)
  <2> SUFFICES ASSUME i < j PROVE FALSE
    OBVIOUS
  <2>1. i \in 0 .. (j - 1)
    BY <1>1
  <2> QED
    BY <1>1, <2>1 DEF findNextLine
<1>3. ~(j < i)
  <2> SUFFICES ASSUME j < i PROVE FALSE
    OBVIOUS
  <2>1. j \in 0 .. (i - 1)
    BY <1>1
  <2> QED
    BY <1>1, <2>1 DEF findNextLine
<1> QED
  BY <1>1, <1>2, <1>3

\* A line end of b is one of its copy in a page from d on, and the other way around.
LEMMA ShiftedLineEnd ==
  ASSUME NEW g, NEW size \in Nat, NEW b, NEW k \in Nat, NEW d \in Nat,
         \A i \in 0 .. (size - d - 1) : b[i] = g[d + i],
         NEW e \in 0 .. (size - d - 1), e < k
  PROVE  e \in findNextLine(b, 0, k) <=> d + e \in findNextLine(g, d, size)
<1>1. /\ e \in 0 .. (k - 1) /\ d + e \in d .. (size - 1) /\ b[e] = g[d + e]
  OBVIOUS
<1>2. (\A j \in 0 .. (e - 1) : b[j] \notin {LF, CR, Zero})
      <=> (\A j \in d .. (d + e - 1) : g[j] \notin {LF, CR, Zero})
  <2>1. ASSUME \A j \in 0 .. (e - 1) : b[j] \notin {LF, CR, Zero}, NEW j \in d .. (d + e - 1)
        PROVE  g[j] \notin {LF, CR, Zero}
    <3>1. j - d \in 0 .. (e - 1) /\ j - d \in 0 .. (size - d - 1) /\ d + (j - d) = j
      OBVIOUS
    <3>2. b[j - d] = g[d + (j - d)]
      BY <3>1
    <3> QED
      BY <2>1, <3>1, <3>2
  <2>2. ASSUME \A j \in d .. (d + e - 1) : g[j] \notin {LF, CR, Zero}, NEW j \in 0 .. (e - 1)
        PROVE  b[j] \notin {LF, CR, Zero}
    <3>1. d + j \in d .. (d + e - 1) /\ j \in 0 .. (size - d - 1)
      OBVIOUS
    <3> QED
      BY <2>2, <3>1
  <2> QED
    BY <2>1, <2>2
<1> QED
  BY <1>1, <1>2 DEF findNextLine

\* What the cache answers is what a read of the file gives.
LEMMA FreshLines == LinesInv => CachedLinesAreFresh
<1> SUFFICES ASSUME LinesInv, ~cut, NEW o \in Sizes, CacheAnswers(o), NEW n \in gSize .. MaxLen
             PROVE  CachedSize(o) = LineSize(ReadBytes(file, o, n), Available(file, o, n))
  BY DEF CachedLinesAreFresh
<1> USE FileSizesAssumption
<1>1. PICK s \in Sizes : Prefix(file, s)
  BY DEF LinesInv
<1>2. FileSize(file) = s
  BY <1>1, SizeOfPrefix
<1>3. /\ s \in Nat /\ o \in Nat /\ gSize \in Nat /\ gPageOffset \in Nat /\ n \in Nat /\ gSize <= n
      /\ gSize > 0 /\ gPageOffset <= o /\ o <= gPageOffset + gSize
      /\ ~gEOT => o < gPageOffset + gSize
  BY DEF Sizes, LinesInv, HandleInv, TypeOK, CacheAnswers, InPage
<1>4. /\ gPageOffset + gSize <= s
      /\ \A i \in 0 .. (gSize - 1) : gPage[i] = file[gPageOffset + i]
      /\ gEOT => gPageOffset + gSize = s
  BY <1>2, <1>3 DEF LinesInv, GetFresh
<1> DEFINE d == o - gPageOffset
           k == Available(file, o, n)
           b == ReadBytes(file, o, n)
<1>5. k = IF o >= s THEN 0 ELSE IF o + n > s THEN s - o ELSE n
  BY <1>2 DEF Available
<1>6. /\ d \in Nat /\ d <= gSize /\ k \in Nat /\ gSize - d <= k
      /\ gEOT => k = gSize - d
  <2> HIDE DEF k
  <2> QED
    BY <1>3, <1>4, <1>5
<1>7. b = [i \in 0 .. (k - 1) |-> file[o + i]]
  BY DEF ReadBytes
<1>8. gPageOffset + d = o /\ CachedEnd(o) = findNextLine(gPage, d, gSize)
  BY <1>3 DEF CachedEnd
<1> HIDE DEF d, k, b
<1>9. ASSUME NEW i \in 0 .. (gSize - d - 1) PROVE b[i] = gPage[d + i]
  <2>1. i \in 0 .. (k - 1) /\ d + i \in 0 .. (gSize - 1) /\ gPageOffset + (d + i) = o + i
    BY <1>3, <1>6, <1>8
  <2>2. b[i] = file[o + i] /\ gPage[d + i] = file[gPageOffset + (d + i)]
    BY <1>4, <1>7, <2>1
  <2> QED
    BY <2>1, <2>2
<1>10. CASE CachedEnd(o) # {}
  <2>1. PICK e : e = CHOOSE i \in CachedEnd(o) : TRUE
    OBVIOUS
  <2>2. e \in CachedEnd(o) /\ e \in d .. (gSize - 1)
    BY <1>10, <1>8, <2>1 DEF findNextLine
  <2>3. /\ e - d \in 0 .. (gSize - d - 1) /\ e - d < k /\ d + (e - d) = e
    BY <1>3, <1>6, <2>2
  <2>4. e - d \in findNextLine(b, 0, k)
    <3>1. PICK x \in 0 .. (gSize - d - 1) : x = e - d
      BY <2>3
    <3>2. x < k /\ d + x \in findNextLine(gPage, d, gSize)
      BY <1>8, <2>2, <2>3, <3>1
    <3>3. x \in findNextLine(b, 0, k)
      BY <1>3, <1>6, <1>9, <3>2, ShiftedLineEnd
    <3> QED
      BY <3>1, <3>3
  <2>5. (CHOOSE i \in findNextLine(b, 0, k) : TRUE) \in findNextLine(b, 0, k)
    BY <2>4
  <2>6. (CHOOSE i \in findNextLine(b, 0, k) : TRUE) = e - d
    BY <1>6, <2>4, <2>5, OneLineEnd
  <2>7. LineSize(b, k) = 1 + (e - d)
    BY <2>4, <2>6 DEF LineSize
  <2>8. CachedSize(o) = e - d + 1
    BY <1>10, <2>1 DEF CachedSize, d
  <2> QED
    BY <1>6, <2>2, <2>7, <2>8 DEF b, k
<1>11. CASE CachedEnd(o) = {}
  <2>1. gEOT /\ k = gSize - d
    BY <1>6, <1>11 DEF CacheAnswers
  <2>2. ASSUME NEW i \in findNextLine(b, 0, k) PROVE FALSE
    <3>1. i \in 0 .. (gSize - d - 1) /\ i < k
      BY <1>3, <1>6, <2>1 DEF findNextLine
    <3>2. d + i \in CachedEnd(o)
      BY <1>3, <1>6, <1>8, <1>9, <2>2, <3>1, ShiftedLineEnd
    <3> QED
      BY <1>11, <3>2
  <2>3. LineSize(b, k) = k
    BY <2>2 DEF LineSize
  <2> QED
    BY <1>11, <2>1, <2>3 DEF CachedSize, b, k, d
<1> QED
  BY <1>10, <1>11

\* A line bctbx_file_get_nxtline takes from the page read ahead is the line it would read
\* from the file: every call that changes the file drops the page, or only truncates it
\* (vfs.c l. 92, 277).
THEOREM CachedLinesFresh == Spec => []CachedLinesAreFresh
<1>1. Init => LinesInv
  <2> SUFFICES ASSUME Init PROVE LinesInv
    OBVIOUS
  <2>1. 0 \in Sizes /\ \A p \in Pos : ~(p < 0)
    BY FileSizesAssumption DEF Sizes, Pos
  <2>2. Prefix(file, 0)
    BY <2>1 DEF Init, Prefix
  <2> QED
    BY <2>1, <2>2, HandleInit DEF Init, LinesInv, GetFresh
<1> QED
  BY <1>1, LinesStep, FreshLines, PTL DEF Spec

=============================================================================
