------------------------- MODULE VfsEncryptionProofs -------------------------
(***************************************************************************)
(* Theorems about VfsEncryption, for every chunk size, chunk header size,  *)
(* file size and set of bytes.                                             *)
(***************************************************************************)
EXTENDS VfsEncryption, TLAPS

-----------------------------------------------------------------------------
(* Chunk arithmetic.                                                       *)

\* Chunk i holds the positions i * mChunkSize .. (i + 1) * mChunkSize - 1.
LEMMA ChunkBounds ==
  ASSUME NEW x \in Nat
  PROVE  /\ getChunkIndex(x) \in Nat
         /\ getChunkIndex(x) <= x
         /\ getChunkIndex(x) * mChunkSize <= x
         /\ x < (getChunkIndex(x) + 1) * mChunkSize
         /\ x % mChunkSize \in 0 .. (mChunkSize - 1)
         /\ x = getChunkIndex(x) * mChunkSize + (x % mChunkSize)
  BY SizesAssumption DEF getChunkIndex

\* The chunk of a position is the only one whose bounds enclose it.
LEMMA ChunkOf ==
  ASSUME NEW x \in Nat, NEW i \in Nat,
         i * mChunkSize <= x, x < (i + 1) * mChunkSize
  PROVE  getChunkIndex(x) = i
  BY SizesAssumption DEF getChunkIndex

\* Chunk indexes follow the positions.
LEMMA ChunkMonotone ==
  ASSUME NEW x \in Nat, NEW y \in Nat, x <= y
  PROVE  getChunkIndex(x) <= getChunkIndex(y)
  BY SizesAssumption DEF getChunkIndex

\* The chunks start in the order of their indexes.
LEMMA ChunkStarts ==
  ASSUME NEW a \in Nat, NEW b \in Nat, a <= b
  PROVE  a * mChunkSize \in Nat /\ a * mChunkSize <= b * mChunkSize
  BY SizesAssumption

\* A position lies before chunk i exactly when its chunk does.
LEMMA ChunkOrder ==
  ASSUME NEW x \in Nat, NEW i \in Nat
  PROVE  x < i * mChunkSize <=> getChunkIndex(x) < i
<1> DEFINE q == getChunkIndex(x)
<1>1. q \in Nat /\ q * mChunkSize <= x /\ x < (q + 1) * mChunkSize
  BY ChunkBounds
<1> HIDE DEF q
<1>2. ASSUME NEW a \in Nat, NEW b \in Nat, a <= b
      PROVE  a * mChunkSize <= b * mChunkSize
  BY <1>2, SizesAssumption
<1>3. CASE q < i
  BY <1>1, <1>2, <1>3, SizesAssumption DEF q
<1>4. CASE q >= i
  BY <1>1, <1>2, <1>4, SizesAssumption DEF q
<1> QED
  BY <1>1, <1>3, <1>4

\* A chunk that ends where x ends.
LEMMA AlignedEnd ==
  ASSUME NEW x \in Nat \ {0}, x % mChunkSize = 0
  PROVE  (getChunkIndex(x - 1) + 1) * mChunkSize = x
<1> DEFINE q == x \div mChunkSize
<1>1. q \in Nat \ {0} /\ x = q * mChunkSize
  BY SizesAssumption
<1> HIDE DEF q
<1>2. x - 1 \in Nat /\ (q - 1) * mChunkSize <= x - 1 /\ x - 1 < ((q - 1) + 1) * mChunkSize
  BY <1>1, SizesAssumption
<1>3. getChunkIndex(x - 1) = q - 1
  BY <1>1, <1>2, ChunkOf
<1> QED
  BY <1>1, <1>3

\* Quotient and remainder of a number given in that form.
LEMMA QuotientRemainder ==
  ASSUME NEW u \in Nat \ {0}, NEW q \in Nat, NEW r \in 0 .. (u - 1)
  PROVE  /\ (q * u + r) \div u = q
         /\ (q * u + r) % u = r
  OBVIOUS

\* parseHeader finds the size of the plain text back from the size of the raw
\* file (l. 366-378 and l. 481-489 of vfs_encrypted.cc are inverse).
THEOREM RecoveredSize ==
  ASSUME NEW n \in Nat
  PROVE  PlainSize(rawFileSizeGet(n)) = n
<1> DEFINE q == n \div mChunkSize
           r == n % mChunkSize
<1>1. q \in Nat /\ r \in 0 .. (mChunkSize - 1) /\ n = q * mChunkSize + r
  BY SizesAssumption
<1>a. rawFileSizeGet(n) = n + (q + (IF r > 0 THEN 1 ELSE 0)) * ChunkHeaderSize
  BY DEF rawFileSizeGet, ChunkCount
<1> HIDE DEF q, r
<1>2. rawChunkSizeGet \in Nat \ {0} /\ rawChunkSizeGet = mChunkSize + ChunkHeaderSize
  BY SizesAssumption DEF rawChunkSizeGet
<1>3. CASE r = 0
  <2>1. rawFileSizeGet(n) = q * rawChunkSizeGet + 0
    BY <1>1, <1>2, <1>3, <1>a, SizesAssumption
  <2>2. ChunkCount(rawFileSizeGet(n), rawChunkSizeGet) = q
    BY <2>1, <1>1, <1>2, QuotientRemainder DEF ChunkCount
  <2> QED
    BY <2>1, <2>2, <1>1, <1>2, <1>3, SizesAssumption DEF PlainSize
<1>4. CASE r > 0
  <2>1. rawFileSizeGet(n) = q * rawChunkSizeGet + (r + ChunkHeaderSize)
    BY <1>1, <1>2, <1>4, <1>a, SizesAssumption
  <2>2. r + ChunkHeaderSize \in 0 .. (rawChunkSizeGet - 1) /\ r + ChunkHeaderSize > 0
    BY <1>1, <1>2, <1>4, SizesAssumption
  <2>3. ChunkCount(rawFileSizeGet(n), rawChunkSizeGet) = q + 1
    BY <2>1, <2>2, <1>1, <1>2, QuotientRemainder DEF ChunkCount
  <2> QED
    BY <2>1, <2>3, <1>1, <1>2, <1>4, SizesAssumption DEF PlainSize
<1> QED
  BY <1>1, <1>3, <1>4, SizesAssumption

\* With part of a chunk header after the last chunk the estimate is too small.
LEMMA RecoveredSizeFragment ==
  ASSUME NEW n \in Nat, n % mChunkSize = 0, NEW f \in 1 .. ChunkHeaderSize
  PROVE  PlainSize(rawFileSizeGet(n) + f) = n + f - ChunkHeaderSize
<1> DEFINE q == n \div mChunkSize
<1>1. q \in Nat /\ n = q * mChunkSize
  BY SizesAssumption
<1>a. ChunkCount(n, mChunkSize) = q
  <2>1. ~(n % mChunkSize > 0)
    OBVIOUS
  <2>2. ChunkCount(n, mChunkSize) = q + 0
    BY <2>1 DEF ChunkCount
  <2> QED
    BY <2>2, <1>1
<1> HIDE DEF q
<1>2. rawChunkSizeGet \in Nat \ {0} /\ rawChunkSizeGet = mChunkSize + ChunkHeaderSize
  BY SizesAssumption DEF rawChunkSizeGet
<1>3. rawFileSizeGet(n) + f = q * rawChunkSizeGet + f
  <2>1. rawFileSizeGet(n) = n + q * ChunkHeaderSize
    BY <1>a DEF rawFileSizeGet
  <2> QED
    BY <1>1, <1>2, <2>1, SizesAssumption
<1>4. f \in 0 .. (rawChunkSizeGet - 1) /\ f > 0
  BY <1>2, SizesAssumption
<1>5. ChunkCount(rawFileSizeGet(n) + f, rawChunkSizeGet) = q + 1
  <2>1. /\ (q * rawChunkSizeGet + f) \div rawChunkSizeGet = q
        /\ (q * rawChunkSizeGet + f) % rawChunkSizeGet = f
    BY <1>1, <1>2, <1>4, QuotientRemainder
  <2> QED
    BY <2>1, <1>3, <1>4 DEF ChunkCount
<1> QED
  BY <1>1, <1>2, <1>3, <1>5, SizesAssumption DEF PlainSize

-----------------------------------------------------------------------------
(* The range of positions a write touches.                                 *)

\* write() (l. 626): where the rewritten range starts and ends, in bytes and in chunks.
LEMMA WritePlan ==
  ASSUME TypeOK, LayoutInv, mode = "rw",
         NEW off \in Sizes, NEW n \in 0 .. MaxData, Writing(off, n)
  PROVE  /\ WriteStart(off) \in Nat /\ WriteStart(off) <= mFileSize /\ WriteStart(off) <= off
         /\ mFileSize < off => WriteStart(off) = mFileSize
         /\ mFileSize >= off => WriteStart(off) = off
         /\ firstChunk(off) \in Nat /\ lastChunk(off, n) \in Nat
         /\ firstChunk(off) <= lastChunk(off, n) /\ lastChunk(off, n) \in Sizes
         /\ ReadOffset(off) = firstChunk(off) * mChunkSize
         /\ ReadOffset(off) \in Nat /\ ReadOffset(off) <= WriteStart(off)
         /\ WriteStart(off) < (firstChunk(off) + 1) * mChunkSize
         /\ lastChunk(off, n) * mChunkSize < off + n
         /\ off + n <= (lastChunk(off, n) + 1) * mChunkSize
         /\ WriteEnd(off, n) \in Sizes
         /\ off + n <= WriteEnd(off, n)
         /\ WriteEnd(off, n) <= (lastChunk(off, n) + 1) * mChunkSize
         /\ WriteEnd(off, n) > len => WriteEnd(off, n) = off + n
         /\ Appends(off, n) => off + n < mFileSize /\ WriteEnd(off, n) <= len
                                /\ WriteEnd(off, n) = ChunkEnd(lastChunk(off, n))
         /\ ~Appends(off, n) => WriteEnd(off, n) = off + n
<1> USE SizesAssumption DEF TypeOK, LayoutInv, Sizes
<1>1. /\ off \in Nat /\ n \in Nat /\ off + n \in Nat /\ off + n <= MaxSize
      /\ mFileSize \in Nat /\ len \in Nat /\ mFileSize <= len /\ len <= MaxSize
      /\ WriteStart(off) \in Nat /\ WriteStart(off) <= mFileSize /\ WriteStart(off) <= off
      /\ mFileSize < off => WriteStart(off) = mFileSize
      /\ mFileSize >= off => WriteStart(off) = off
      /\ off + n > WriteStart(off)
  BY DEF Writing, WriteStart, Min
<1>2. off + n - 1 \in Nat /\ WriteStart(off) <= off + n - 1
  BY <1>1
<1>3. /\ lastChunk(off, n) \in Nat /\ lastChunk(off, n) <= off + n - 1
      /\ lastChunk(off, n) * mChunkSize <= off + n - 1
      /\ off + n - 1 < (lastChunk(off, n) + 1) * mChunkSize
  BY <1>2, ChunkBounds DEF lastChunk
<1>4. /\ firstChunk(off) \in Nat
      /\ firstChunk(off) * mChunkSize <= WriteStart(off)
      /\ WriteStart(off) < (firstChunk(off) + 1) * mChunkSize
      /\ ReadOffset(off) = firstChunk(off) * mChunkSize
  BY <1>1, ChunkBounds DEF firstChunk, ReadOffset
<1>5. firstChunk(off) <= lastChunk(off, n)
  BY <1>1, <1>2, ChunkMonotone DEF firstChunk, lastChunk
<1>6. ReadOffset(off) \in Nat
  BY <1>4
<1>7. /\ lastChunk(off, n) * mChunkSize < off + n
      /\ off + n <= (lastChunk(off, n) + 1) * mChunkSize
      /\ (lastChunk(off, n) + 1) * mChunkSize \in Nat
  BY <1>1, <1>3
<1>8. CASE Appends(off, n)
  <2>1. off + n < mFileSize
    BY <1>8 DEF Appends
  <2>2. WriteEnd(off, n) = ChunkEnd(lastChunk(off, n))
    BY <1>8 DEF WriteEnd
  <2>3. /\ ChunkEnd(lastChunk(off, n)) \in Nat
        /\ off + n <= ChunkEnd(lastChunk(off, n))
        /\ ChunkEnd(lastChunk(off, n)) <= len
        /\ ChunkEnd(lastChunk(off, n)) <= (lastChunk(off, n) + 1) * mChunkSize
    BY <1>1, <1>7, <2>1 DEF ChunkEnd, Min
  <2> QED
    BY <1>1, <1>3, <1>4, <1>5, <1>6, <1>7, <1>8, <2>1, <2>2, <2>3
<1>9. CASE ~Appends(off, n)
  <2>1. WriteEnd(off, n) = off + n
    BY <1>9 DEF WriteEnd
  <2> QED
    BY <1>1, <1>3, <1>4, <1>5, <1>6, <1>7, <1>9, <2>1
<1> QED
  BY <1>8, <1>9

\* The bytes of the written range are bytes.
LEMMA NewBytes ==
  ASSUME TypeOK, NEW off \in Sizes, NEW n \in 0 .. MaxData,
         NEW data \in [0 .. (n - 1) -> Byte], NEW p \in Pos
  PROVE  /\ NewByte(off, n, data, p) \in Byte \cup {NoByte}
         /\ WriteStart(off) <= p /\ p < off + n => NewByte(off, n, data, p) \in Byte
<1> USE SizesAssumption, BytesAssumption
<1>1. p \in Nat /\ off \in Nat /\ n \in Nat /\ ct[p] \in Byte \cup {NoByte}
  BY DEF TypeOK, Pos, Sizes
<1>2. CASE off <= p /\ p < off + n
  <2>1. p - off \in 0 .. (n - 1)
    BY <1>1, <1>2
  <2> QED
    BY <2>1, <1>2 DEF NewByte
<1>3. CASE ~(off <= p /\ p < off + n) /\ WriteStart(off) <= p /\ p < off
  BY <1>3 DEF NewByte
<1>4. CASE ~(off <= p /\ p < off + n) /\ ~(WriteStart(off) <= p /\ p < off)
  BY <1>1, <1>4 DEF NewByte, Decrypted
<1> QED
  BY <1>2, <1>3, <1>4

-----------------------------------------------------------------------------
(* Each action preserves the invariant.                                    *)

\* The invariant holds before the file exists.
LEMMA InitInv == Init => IInv
<1> SUFFICES ASSUME Init PROVE IInv
  OBVIOUS
<1> USE SizesAssumption, BytesAssumption DEF Init
<1>1. TypeOK
  <2>1. ct \in [Pos -> Byte \cup {NoByte}] /\ may \in [Pos -> SUBSET Byte]
    OBVIOUS
  <2>2. 0 \in Sizes /\ 0 \in 0 .. ChunkHeaderSize /\ 0 \in 0 .. MaxFaults
    BY DEF Sizes
  <2> QED
    BY <2>1, <2>2 DEF TypeOK
<1>2. LayoutInv
  BY DEF LayoutInv
<1>3. CleanInv
  BY DEF CleanInv, Pos
<1>4. AuthenticInv
  BY DEF AuthenticInv, Pos
<1> QED
  BY <1>1, <1>2, <1>3, <1>4 DEF IInv

\* A step that leaves the file and the handle's size alone and makes the handle
\* idle, or closes it.
LEMMA IdleInv ==
  ASSUME IInv, UNCHANGED <<hdr, len, frag, ct, bad, faults, may>>,
         pc' = "idle", target' = 0,
         \/ pc # "ftruncate" /\ torn' = torn
         \/ target % mChunkSize = 0 /\ torn' = torn
         \/ torn' = TRUE,
         \/ UNCHANGED <<mode, mFileSize>>
         \/ mode' = "closed" /\ mFileSize' = 0
  PROVE  IInv'
<1> USE SizesAssumption
<1>1. TypeOK'
  <2>1. torn' \in BOOLEAN
    BY Zenon DEF IInv, TypeOK
  <2> QED
    BY <2>1 DEF IInv, TypeOK, Sizes
<1>2. LayoutInv'
  BY DEF IInv, LayoutInv
<1>3. Rewritten' = {}
  BY DEF Rewritten
<1>4. CleanInv'
  <2> SUFFICES ASSUME Undamaged' PROVE CleanInv!2'
    BY DEF CleanInv
  <2>1. Undamaged /\ Rewritten = {}
    BY DEF Undamaged, Rewritten
  <2>2. bad' \subseteq Rewritten'
    BY <2>1, <1>3 DEF IInv, CleanInv
  <2> QED
    BY <2>1, <2>2 DEF IInv, CleanInv
<1>5. AuthenticInv'
  BY <1>3 DEF IInv, AuthenticInv
<1> QED
  BY <1>1, <1>2, <1>4, <1>5 DEF IInv

\* What parseHeader computes is never more than what is stored, and exactly that
\* for an undamaged file.
LEMMA ParsedSize ==
  ASSUME TypeOK, LayoutInv, hdr # NoHeader, HeaderMatches \/ parsedSize >= 0
  PROVE  /\ parsedSize \in Sizes
         /\ parsedSize <= len
         /\ frag = 0 => parsedSize = len
<1> USE SizesAssumption DEF TypeOK, Sizes
<1>1. len \in Nat /\ hdr \in Nat /\ frag \in 0 .. ChunkHeaderSize
  BY DEF NoHeader
<1>2. rawFileSizeGet(len) \in Int /\ PlainSize(rawFileSizeGet(len)) = len
  BY <1>1, RecoveredSize, ChunkBounds DEF rawFileSizeGet, ChunkCount, getChunkIndex
<1>3. PlainSize(rawFileSizeGet(hdr)) = hdr
  BY <1>1, RecoveredSize
<1>4. CASE frag = 0
  <2>1. ActualRawSize = rawFileSizeGet(len)
    BY <1>2, <1>4 DEF ActualRawSize
  <2>2. parsedSize = len
    BY <2>1, <1>2, <1>3 DEF parsedSize, HeaderMatches
  <2> QED
    BY <2>2, <1>1
<1>5. CASE frag > 0
  <2>1. PlainSize(ActualRawSize) = len + frag - ChunkHeaderSize
    BY <1>1, <1>5, RecoveredSizeFragment DEF ActualRawSize, LayoutInv
  <2>2. parsedSize = len + frag - ChunkHeaderSize
    BY <2>1, <1>3 DEF parsedSize, HeaderMatches
  <2>3. parsedSize >= 0
    BY <1>1, <1>3 DEF parsedSize
  <2> QED
    BY <2>2, <2>3, <1>1, <1>5
<1> QED
  BY <1>1, <1>4, <1>5

\* Opening, with or without recovery, preserves the invariant.
LEMMA OpenInv ==
  ASSUME IInv, NEW m \in {"r", "rw"}, Open(m)
  PROVE  IInv'
<1> USE SizesAssumption
<1>1. /\ mode = "closed" /\ mode' = m /\ pc = "idle" /\ pc' = "idle"
      /\ UNCHANGED <<len, frag, ct, bad, target, faults, torn, may>>
  BY DEF Open, Opened, IInv, LayoutInv
<1>2. /\ mFileSize' \in Sizes /\ mFileSize' <= len
      /\ hdr' \in Sizes
      /\ frag = 0 => mFileSize' = len
  <2>1. CASE hdr = NoHeader /\ hdr' = 0 /\ mFileSize' = 0
    BY <2>1 DEF IInv, LayoutInv, TypeOK, Sizes
  <2>2. CASE OpensAsIs /\ UNCHANGED hdr /\ mFileSize' = parsedSize
    <3>1. hdr # NoHeader /\ (HeaderMatches \/ parsedSize >= 0)
      BY <2>2 DEF OpensAsIs
    <3>2. hdr \in Sizes
      BY <3>1 DEF IInv, TypeOK
    <3> QED
      BY <2>2, <3>1, <3>2, ParsedSize DEF IInv
  <2>3. CASE OpensRecovered /\ hdr' = parsedSize /\ mFileSize' = parsedSize
    <3>1. hdr # NoHeader /\ parsedSize > 0
      BY <2>3 DEF OpensRecovered
    <3>2. CASE HeaderMatches
      BY <2>3, <3>1, <3>2, ParsedSize DEF IInv
    <3>3. CASE ~HeaderMatches
      <4>1. parsedSize \in Int
        BY <3>3, SizesAssumption DEF parsedSize, PlainSize, ActualRawSize, rawFileSizeGet, ChunkCount,
              rawChunkSizeGet, IInv, TypeOK, Sizes
      <4> QED
        BY <2>3, <3>1, <4>1, ParsedSize DEF IInv
    <3> QED
      BY <3>2, <3>3
  <2> QED
    BY <2>1, <2>2, <2>3 DEF Open, Opened
<1>3. TypeOK'
  BY <1>1, <1>2 DEF IInv, TypeOK
<1>4. LayoutInv'
  BY <1>1, <1>2 DEF IInv, LayoutInv, NoHeader, Sizes
<1>5. CleanInv'
  BY <1>1, <1>2 DEF IInv, CleanInv, Undamaged, Rewritten
<1>6. AuthenticInv'
  BY <1>1 DEF IInv, AuthenticInv, Rewritten
<1> QED
  BY <1>3, <1>4, <1>5, <1>6 DEF IInv

\* Closing an idle handle preserves the invariant.
LEMMA CloseInv == ASSUME IInv, Close PROVE IInv'
<1>1. /\ UNCHANGED <<hdr, len, frag, ct, bad, faults, torn, may>>
      /\ pc' = "idle" /\ target' = 0 /\ pc = "idle"
      /\ mode' = "closed" /\ mFileSize' = 0
  BY DEF Close, HandleGone
<1> QED
  BY <1>1, IdleInv

\* A crash between two physical operations preserves the invariant.
LEMMA CrashInv == ASSUME IInv, Crash PROVE IInv'
<1>1. /\ UNCHANGED <<hdr, len, frag, ct, bad, faults, may>>
      /\ pc' = "idle" /\ target' = 0
      /\ mode' = "closed" /\ mFileSize' = 0
  BY DEF Crash, HandleGone
<1>2. torn' = (torn \/ (pc = "ftruncate" /\ target % mChunkSize # 0)) /\ torn \in BOOLEAN
  BY DEF Crash, IInv, TypeOK
<1> QED
  BY <1>1, <1>2, IdleInv

\* An operation that throws before it changes the file preserves the invariant.
LEMMA ThrowInv == ASSUME IInv, Throw, pc # "ftruncate" PROVE IInv'
<1>1. /\ UNCHANGED <<hdr, len, frag, ct, bad, faults, torn, may, mode, mFileSize>>
      /\ pc' = "idle" /\ target' = 0
  BY DEF Throw
<1> QED
  BY <1>1, IdleInv

\* Where the written range meets a chunk: the bytes kept around the data come
\* from a chunk that was decrypted.
LEMMA WrittenAuthentic ==
  ASSUME IInv, mode = "rw", NEW off \in Sizes, NEW n \in 0 .. MaxData,
         NEW data \in [0 .. (n - 1) -> Byte],
         Writing(off, n), WriteAuthentic(off, n),
         NEW p \in Pos, ReadOffset(off) <= p, p < WriteEnd(off, n)
  PROVE  \/ WriteStart(off) <= p /\ p < off + n
         \/ ~(WriteStart(off) <= p /\ p < off + n)
            /\ NewByte(off, n, data, p) = ct[p] /\ ct[p] \in may[p]
<1> USE SizesAssumption
<1>1. p \in Nat /\ len \in Nat /\ mFileSize <= len /\ mFileSize \in Nat /\ off \in Nat /\ n \in Nat
      /\ pc = "idle" /\ Rewritten = {}
  BY DEF IInv, TypeOK, LayoutInv, Pos, Sizes, Writing, Rewritten
<1>2. /\ WriteStart(off) \in Nat /\ WriteStart(off) <= mFileSize /\ WriteStart(off) <= off
      /\ ReadOffset(off) = firstChunk(off) * mChunkSize
      /\ firstChunk(off) \in Nat /\ lastChunk(off, n) \in Nat
      /\ WriteStart(off) < (firstChunk(off) + 1) * mChunkSize
      /\ lastChunk(off, n) * mChunkSize < off + n
      /\ WriteEnd(off, n) <= (lastChunk(off, n) + 1) * mChunkSize
      /\ Appends(off, n) => WriteEnd(off, n) <= len
      /\ ~Appends(off, n) => WriteEnd(off, n) = off + n
      /\ WriteEnd(off, n) \in Nat
  BY WritePlan DEF IInv, Sizes
<1>3. CASE p < WriteStart(off)
  <2>1. Decrypts(firstChunk(off))
    BY <1>1, <1>2, <1>3 DEF WriteAuthentic, Prepends
  <2>2. getChunkIndex(p) = firstChunk(off)
    BY <1>1, <1>2, <1>3, ChunkOf, SMTT(30)
  <2>3. ct[p] \in may[p]
    BY <1>1, <1>2, <1>3, <2>1, <2>2 DEF IInv, AuthenticInv, Decrypts
  <2>4. NewByte(off, n, data, p) = ct[p]
    BY <1>1, <1>2, <1>3, <2>1, <2>2, SMTT(30) DEF NewByte, Decrypted, Decrypts
  <2> QED
    BY <1>1, <1>2, <1>3, <2>3, <2>4
<1>4. CASE p >= off + n
  <2>1. Appends(off, n)
    BY <1>1, <1>2, <1>4
  <2>2. Decrypts(lastChunk(off, n))
    BY <2>1 DEF WriteAuthentic
  <2>3. getChunkIndex(p) = lastChunk(off, n)
    BY <1>1, <1>2, <1>4, ChunkOf, SMTT(30)
  <2>4. ct[p] \in may[p]
    BY <1>1, <1>2, <2>1, <2>2, <2>3 DEF IInv, AuthenticInv, Decrypts
  <2>5. NewByte(off, n, data, p) = ct[p]
    BY <1>1, <1>2, <1>4, <2>2, <2>3 DEF NewByte, Decrypted, Decrypts
  <2> QED
    BY <1>1, <1>2, <1>4, <2>4, <2>5
<1> QED
  BY <1>1, <1>2, <1>3, <1>4

\* A chunk outside the written range keeps its bytes and what is expected there.
LEMMA OutsideRange ==
  ASSUME IInv, mode = "rw", NEW off \in Sizes, NEW n \in 0 .. MaxData,
         NEW data \in [0 .. (n - 1) -> Byte], Writing(off, n),
         NEW p \in Pos, p < ReadOffset(off) \/ p >= WriteEnd(off, n)
  PROVE  Expected(off, n, data)[p] = {}
<1>1. p \in Nat /\ off \in Nat /\ n \in Nat
  BY SizesAssumption DEF Pos, Sizes
<1>2. /\ WriteStart(off) \in Nat /\ ReadOffset(off) \in Nat /\ WriteEnd(off, n) \in Nat
      /\ ReadOffset(off) <= WriteStart(off)
      /\ off + n <= WriteEnd(off, n)
  BY WritePlan, SizesAssumption DEF IInv, Sizes
<1> QED
  BY <1>1, <1>2 DEF Expected

\* A complete write of the chunks preserves the invariant.
LEMMA WriteChunksInv ==
  ASSUME IInv, NEW off \in Sizes, NEW n \in 0 .. MaxData,
         NEW data \in [0 .. (n - 1) -> Byte], WriteChunks(off, n, data)
  PROVE  IInv'
<1> USE SizesAssumption
<1> DEFINE e == WriteEnd(off, n)
           first == firstChunk(off)
           last == lastChunk(off, n)
           start == WriteStart(off)
<1>0. /\ Writing(off, n) /\ WriteAuthentic(off, n) /\ mode = "rw" /\ mode' = "rw"
      /\ pc = "idle" /\ pc' = "writeHeader"
      /\ ct' = Stored(off, n, data, e)
      /\ len' = Max(len, e)
      /\ frag' = IF e > len THEN 0 ELSE frag
      /\ bad' = (bad \ (first .. last)) \cup (IF e < ChunkEnd(last) THEN {last} ELSE {})
      /\ may' = [p \in Pos |-> IF Expected(off, n, data)[p] = {} THEN may[p]
                               ELSE Expected(off, n, data)[p]]
      /\ mFileSize' = Max(mFileSize, off + n)
      /\ UNCHANGED <<hdr, target, faults, torn>>
  BY DEF WriteChunks, Writing
<1>1. /\ len \in Nat /\ len <= MaxSize /\ mFileSize \in Nat /\ mFileSize <= len
      /\ off \in Nat /\ n \in Nat /\ off + n <= MaxSize
      /\ Rewritten = {} /\ Rewritten' = {}
  BY <1>0 DEF IInv, TypeOK, LayoutInv, Sizes, Writing, Rewritten
<1>2. /\ start \in Nat /\ start <= mFileSize /\ start <= off
      /\ first \in Nat /\ last \in Nat /\ first <= last /\ last \in Sizes
      /\ ReadOffset(off) = first * mChunkSize /\ ReadOffset(off) \in Nat
      /\ ReadOffset(off) <= start
      /\ e \in Sizes /\ off + n <= e /\ e <= (last + 1) * mChunkSize
      /\ e > len => e = off + n
      /\ last * mChunkSize < off + n
      /\ Appends(off, n) => off + n < mFileSize /\ e <= len /\ e = ChunkEnd(last)
      /\ ~Appends(off, n) => e = off + n
  BY <1>0, WritePlan DEF IInv
<1>3. /\ len' \in Sizes /\ len <= len' /\ (len' # len => len' = e /\ e = off + n)
      /\ (e > len => len' = e) /\ (e <= len => len' = len)
      /\ mFileSize' \in Sizes /\ mFileSize' <= len'
  BY <1>0, <1>1, <1>2, SMTT(30) DEF Max, Sizes
<1> HIDE DEF e, first, last, start
<1>4. TypeOK'
  <2>1. ct' \in [Pos -> Byte \cup {NoByte}]
    BY <1>0, NewBytes DEF Stored, IInv, TypeOK
  <2>2. may' \in [Pos -> SUBSET Byte]
    <3>1. ASSUME NEW p \in Pos PROVE Expected(off, n, data)[p] \subseteq Byte
      BY NewBytes DEF Expected, IInv
    <3> QED
      BY <3>1, <1>0 DEF IInv, TypeOK
  <2>3. bad' \in SUBSET Sizes
    BY <1>0, <1>2 DEF IInv, TypeOK
  <2>4. frag' \in 0 .. ChunkHeaderSize
    BY <1>0 DEF IInv, TypeOK
  <2> QED
    BY <1>0, <1>3, <2>1, <2>2, <2>3, <2>4 DEF IInv, TypeOK
<1>5. LayoutInv'
  <2>1. frag' > 0 => len' % mChunkSize = 0
    <3>1. CASE e > len
      BY <3>1, <1>0
    <3>2. CASE ~(e > len)
      <4>1. len' = len /\ frag' = frag
        BY <3>2, <1>0, <1>1, <1>2, <1>3 DEF Sizes
      <4> QED
        BY <4>1 DEF IInv, LayoutInv
    <3> QED
      BY <3>1, <3>2
  <2> QED
    BY <2>1, <1>0, <1>1, <1>3 DEF IInv, LayoutInv
<1>6. CleanInv'
  <2> SUFFICES ASSUME Undamaged' PROVE CleanInv!2'
    BY DEF CleanInv
  <2>1. Undamaged
    BY <1>0 DEF Undamaged
  <2>2. frag = 0 /\ bad = {} /\ mFileSize = len /\ \A p \in Pos : ct[p] # NoByte <=> p < len
    BY <2>1, <1>0, <1>1 DEF IInv, CleanInv
  <2>3. mFileSize' = len'
    BY <1>0, <1>1, <1>2, <2>2 DEF Max, Sizes
  <2>4. ChunkEnd(last) <= e
    <3>1. (last + 1) * mChunkSize \in Nat /\ ChunkEnd(last) <= (last + 1) * mChunkSize
          /\ ChunkEnd(last) <= len /\ ChunkEnd(last) \in Nat
      BY <1>1, <1>2 DEF ChunkEnd, Min
    <3>2. CASE Appends(off, n)
      BY <3>2, <1>2, <3>1
    <3>3. CASE (off + n) % mChunkSize = 0 /\ ~Appends(off, n)
      <4>1. (last + 1) * mChunkSize = off + n
        BY <3>3, <1>1, <1>2, AlignedEnd DEF last, lastChunk
      <4> QED
        BY <4>1, <3>1, <3>3, <1>2
    <3>4. CASE off + n >= mFileSize /\ ~Appends(off, n)
      BY <3>4, <3>1, <1>2, <1>1, <2>2
    <3> QED
      BY <3>2, <3>3, <3>4, <1>1 DEF Appends
  <2>5. bad' = {}
    <3>1. ~(e < ChunkEnd(last))
      BY <2>4, <1>1, <1>2 DEF ChunkEnd, Min, Sizes
    <3> QED
      BY <3>1, <2>2, <1>0
  <2>6. ASSUME NEW p \in Pos PROVE ct'[p] # NoByte <=> p < len'
    <3>1. p \in Nat
      BY DEF Pos
    <3>2. CASE ReadOffset(off) <= p /\ p < e
      <4>1. ct'[p] = NewByte(off, n, data, p)
        BY <3>2, <1>0 DEF Stored
      <4>2. p < len'
        BY <3>1, <3>2, <1>2, <1>3, <1>1 DEF Sizes
      <4>3. CASE start <= p /\ p < off + n
        BY <4>1, <4>2, <4>3, NewBytes, BytesAssumption DEF start, IInv
      <4>4. CASE NewByte(off, n, data, p) = ct[p] /\ ct[p] \in may[p]
        BY <4>1, <4>2, <4>4, BytesAssumption DEF IInv, TypeOK
      <4> QED
        BY <4>3, <4>4, <3>2, <1>0, WrittenAuthentic DEF start, e
    <3>3. CASE ~(ReadOffset(off) <= p /\ p < e)
      <4>1. ct'[p] = ct[p]
        BY <3>3, <1>0 DEF Stored
      <4>2. p < len <=> p < len'
        BY <3>1, <3>3, <1>1, <1>2, <1>3 DEF Sizes
      <4> QED
        BY <4>1, <4>2, <2>2
    <3> QED
      BY <3>2, <3>3
  <2> QED
    BY <1>0, <1>1, <2>2, <2>3, <2>5, <2>6 DEF Rewritten
<1>7. AuthenticInv'
  <2> SUFFICES ASSUME NEW p \in Pos, p < len', getChunkIndex(p) \notin bad'
               PROVE  ct'[p] \in may'[p]
    BY <1>1 DEF AuthenticInv
  <2>1. p \in Nat
    BY DEF Pos
  <2>2. CASE ReadOffset(off) <= p /\ p < e
    <3>1. ct'[p] = NewByte(off, n, data, p)
      BY <2>2, <1>0 DEF Stored
    <3>2. CASE start <= p /\ p < off + n
      BY <3>1, <3>2, <1>0 DEF Expected, start
    <3>3. CASE ~(start <= p /\ p < off + n) /\ NewByte(off, n, data, p) = ct[p] /\ ct[p] \in may[p]
      BY <3>1, <3>3, <1>0 DEF Expected, start
    <3> QED
      BY <3>2, <3>3, <2>2, <1>0, WrittenAuthentic DEF start, e
  <2>3. CASE ~(ReadOffset(off) <= p /\ p < e)
    <3>1. ct'[p] = ct[p]
      BY <2>3, <1>0 DEF Stored
    <3>2. may'[p] = may[p]
      <4>1. p < ReadOffset(off) \/ p >= e
        BY <2>1, <2>3, <1>2 DEF Sizes
      <4> QED
        BY <4>1, <1>0, OutsideRange DEF e
    <3>3. p < len
      BY <2>1, <2>3, <1>1, <1>2, <1>3 DEF Sizes
    <3>4. getChunkIndex(p) \notin bad
      <4>1. getChunkIndex(p) \in Nat /\ getChunkIndex(p) * mChunkSize <= p
            /\ p < (getChunkIndex(p) + 1) * mChunkSize
        BY <2>1, ChunkBounds
      <4>2. CASE p < ReadOffset(off)
        <5>1. getChunkIndex(p) < first
          BY <2>1, <4>2, <1>2, ChunkOrder
        <5> QED
          BY <5>1, <4>1, <1>0, <1>2
      <4>3. CASE p >= e
        <5>1. getChunkIndex(p) # last
          <6> SUFFICES ASSUME getChunkIndex(p) = last PROVE FALSE
            OBVIOUS
          <6>1. p < (last + 1) * mChunkSize /\ p < len
            BY <4>1, <3>3
          <6>2. e < ChunkEnd(last)
            BY <6>1, <4>3, <2>1, <1>1, <1>2 DEF ChunkEnd, Min, Sizes
          <6> QED
            BY <6>2, <1>0
        <5>2. getChunkIndex(p) >= last
          <6>1. ~(p < last * mChunkSize)
            BY <4>3, <1>2, <1>1, <2>1 DEF Sizes
          <6> QED
            BY <6>1, <4>1, <2>1, <1>2, ChunkOrder
        <5> QED
          BY <5>1, <5>2, <4>1, <1>0, <1>2
      <4> QED
        BY <4>2, <4>3, <2>1, <2>3, <1>2 DEF Sizes
    <3> QED
      BY <3>1, <3>2, <3>3, <3>4, <1>1 DEF IInv, AuthenticInv
  <2> QED
    BY <2>2, <2>3
<1> QED
  BY <1>4, <1>5, <1>6, <1>7 DEF IInv

\* A write that is cut short preserves the invariant.
LEMMA WriteShortInv ==
  ASSUME IInv, NEW off \in Sizes, NEW n \in 0 .. MaxData,
         NEW data \in [0 .. (n - 1) -> Byte],
         NEW k \in firstChunk(off) .. lastChunk(off, n), NEW rem \in 0 .. (rawChunkSizeGet - 1),
         WriteShort(off, n, data, k, rem)
  PROVE  IInv'
<1> USE SizesAssumption
<1> DEFINE j == Max(0, rem - ChunkHeaderSize)
           e == k * mChunkSize + j
           first == firstChunk(off)
           last == lastChunk(off, n)
           start == WriteStart(off)
<1>0. /\ Writing(off, n) /\ WriteAuthentic(off, n) /\ mode = "rw" /\ pc = "idle"
      /\ e < WriteEnd(off, n)
      /\ ct' = Stored(off, n, data, e)
      /\ len' = Max(len, e)
      /\ frag' = IF rem > 0 /\ j = 0 /\ e = len' THEN Max(rem, IF e = len THEN frag ELSE 0)
                 ELSE IF e > len THEN 0 ELSE frag
      /\ bad' = (bad \ (first .. (k - 1))) \cup (IF rem > 0 THEN {k} ELSE {})
      /\ may' = [p \in Pos |-> may[p] \cup Expected(off, n, data)[p]]
      /\ Fault
      /\ UNCHANGED <<hdr, mode, mFileSize, pc, target, torn>>
  BY DEF WriteShort, Writing
<1>1. /\ len \in Nat /\ len <= MaxSize /\ mFileSize \in Nat /\ mFileSize <= len
      /\ off \in Nat /\ n \in Nat /\ off + n <= MaxSize
      /\ frag \in 0 .. ChunkHeaderSize
      /\ Rewritten = {} /\ Rewritten' = {}
  BY <1>0 DEF IInv, TypeOK, LayoutInv, Sizes, Writing, Rewritten
<1>2. /\ start \in Nat /\ start <= mFileSize /\ start <= off
      /\ first \in Nat /\ last \in Nat /\ first <= last /\ last \in Sizes
      /\ ReadOffset(off) = first * mChunkSize /\ ReadOffset(off) \in Nat
      /\ ReadOffset(off) <= start
      /\ WriteEnd(off, n) \in Sizes
      /\ last * mChunkSize < off + n
  BY <1>0, WritePlan DEF IInv
<1>3. /\ k \in Nat /\ first <= k /\ k <= last /\ k \in Sizes
      /\ rem \in Nat /\ j \in Nat /\ e \in Nat
      /\ k * mChunkSize \in Nat /\ k * mChunkSize <= last * mChunkSize
      /\ rem = 0 => j = 0
      /\ j = 0 => rem <= ChunkHeaderSize
  <2>1. k \in Nat /\ first <= k /\ k <= last /\ k \in Sizes
    BY <1>2 DEF Sizes
  <2>2. /\ rem \in Nat /\ j \in Nat
        /\ rem = 0 => j = 0
        /\ j = 0 => rem <= ChunkHeaderSize
    BY DEF Max, rawChunkSizeGet
  <2>3. k * mChunkSize \in Nat /\ k * mChunkSize <= last * mChunkSize
    <3>1. last \in Nat
      BY <1>2
    <3> HIDE DEF last
    <3> QED
      BY <2>1, <3>1, ChunkStarts
  <2>4. e \in Nat
    BY <2>2, <2>3
  <2> QED
    BY <2>1, <2>2, <2>3, <2>4
<1> HIDE DEF first, last, start, j
<1>4. /\ e \in Sizes /\ len' \in Sizes /\ len <= len'
      /\ (e > len => len' = e) /\ (e <= len => len' = len)
  <2>1. e \in Nat /\ e < WriteEnd(off, n) /\ WriteEnd(off, n) \in Sizes
    BY <1>0, <1>2, <1>3
  <2>2. len' = Max(len, e)
    BY <1>0
  <2> HIDE DEF e
  <2> QED
    BY <2>1, <2>2, <1>1 DEF Max, Sizes
<1>5. TypeOK'
  <2>1. ct' \in [Pos -> Byte \cup {NoByte}]
    BY <1>0, NewBytes DEF Stored, IInv, TypeOK
  <2>2. may' \in [Pos -> SUBSET Byte]
    <3>1. ASSUME NEW p \in Pos PROVE Expected(off, n, data)[p] \subseteq Byte
      BY NewBytes DEF Expected, IInv
    <3> QED
      BY <3>1, <1>0 DEF IInv, TypeOK
  <2>3. bad' \in SUBSET Sizes
    BY <1>0, <1>3 DEF IInv, TypeOK
  <2>4. frag' \in 0 .. ChunkHeaderSize
    BY <1>0, <1>1, <1>3 DEF Max
  <2>5. faults' \in 0 .. MaxFaults
    BY <1>0 DEF Fault, IInv, TypeOK
  <2> QED
    BY <1>0, <1>4, <2>1, <2>2, <2>3, <2>4, <2>5 DEF IInv, TypeOK
<1>6. LayoutInv'
  <2>1. frag' > 0 => len' % mChunkSize = 0
    <3>1. CASE rem > 0 /\ j = 0 /\ e = len'
      <4>1. len' = k * mChunkSize + 0
        BY <3>1, <1>3
      <4>2. 0 \in 0 .. (mChunkSize - 1)
        OBVIOUS
      <4> QED
        BY <4>1, <4>2, <1>3, QuotientRemainder
    <3>2. CASE ~(rem > 0 /\ j = 0 /\ e = len') /\ e > len
      BY <3>2, <1>0
    <3>3. CASE ~(rem > 0 /\ j = 0 /\ e = len') /\ ~(e > len)
      <4>1. len' = len /\ frag' = frag
        BY <3>3, <1>0, <1>1, <1>3, <1>4, SMTT(30)
      <4> QED
        BY <4>1 DEF IInv, LayoutInv
    <3> QED
      BY <3>1, <3>2, <3>3
  <2>2. hdr' # NoHeader
    BY <1>0 DEF IInv, LayoutInv
  <2> QED
    BY <2>1, <2>2, <1>0, <1>1, <1>4 DEF IInv, LayoutInv, Sizes
<1>7. CleanInv'
  BY <1>0 DEF CleanInv, Undamaged, Fault, IInv, TypeOK
<1>8. AuthenticInv'
  <2> SUFFICES ASSUME NEW p \in Pos, p < len', getChunkIndex(p) \notin bad'
               PROVE  ct'[p] \in may'[p]
    BY <1>1 DEF AuthenticInv
  <2>1. p \in Nat /\ getChunkIndex(p) \in Nat
    BY ChunkBounds DEF Pos
  <2>2. may[p] \subseteq may'[p]
    BY <1>0
  <2>3. CASE ReadOffset(off) <= p /\ p < e
    <3>1. ct'[p] = NewByte(off, n, data, p)
      BY <2>3, <1>0 DEF Stored
    <3>2. p < WriteEnd(off, n)
      BY <2>1, <2>3, <1>0, <1>2, <1>3 DEF Sizes
    <3>3. CASE start <= p /\ p < off + n
      BY <3>1, <3>3, <1>0 DEF Expected, start
    <3>4. CASE NewByte(off, n, data, p) = ct[p] /\ ct[p] \in may[p]
      BY <3>1, <3>4, <2>2
    <3> QED
      BY <3>2, <3>3, <3>4, <2>3, <1>0, WrittenAuthentic DEF start
  <2>4. CASE ~(ReadOffset(off) <= p /\ p < e)
    <3>1. ct'[p] = ct[p]
      BY <2>4, <1>0 DEF Stored
    <3>2. p < len
      BY <2>1, <2>4, <1>1, <1>2, <1>3, <1>4
    <3>3. getChunkIndex(p) \notin first .. (k - 1)
      <4>1. CASE p < ReadOffset(off)
        BY <4>1, <2>1, <1>2, <1>3, ChunkOrder
      <4>2. CASE p >= e
        <5>1. ~(p < k * mChunkSize)
          BY <4>2, <2>1, <1>3
        <5> QED
          BY <5>1, <2>1, <1>2, <1>3, ChunkOrder
      <4> QED
        BY <4>1, <4>2, <2>1, <2>4, <1>2, <1>3
    <3>4. getChunkIndex(p) \notin bad
      BY <3>3, <1>0
    <3> QED
      BY <3>1, <3>2, <3>4, <2>2, <1>1 DEF IInv, AuthenticInv
  <2> QED
    BY <2>3, <2>4
<1> QED
  BY <1>5, <1>6, <1>7, <1>8 DEF IInv

\* Writing the file header, or failing to, preserves the invariant.
LEMMA WriteHeaderInv == ASSUME IInv, writeHeader PROVE IInv'
<1> USE SizesAssumption
<1>1. CASE Throw
  BY <1>1, ThrowInv DEF writeHeader
<1>2. CASE ~Throw
  <2>1. /\ pc = "writeHeader" /\ mode = "rw" /\ hdr' = mFileSize /\ pc' = "idle" /\ target' = 0
        /\ UNCHANGED <<len, frag, ct, bad, mode, mFileSize, faults, torn, may>>
    BY <1>2 DEF writeHeader
  <2>2. Rewritten = {} /\ Rewritten' = {}
    BY <2>1 DEF Rewritten
  <2>3. TypeOK'
    BY <2>1 DEF IInv, TypeOK, Sizes
  <2>4. LayoutInv'
    BY <2>1 DEF IInv, LayoutInv, TypeOK, Sizes, NoHeader
  <2>5. CleanInv'
    BY <2>1, <2>2 DEF IInv, CleanInv, Undamaged
  <2>6. AuthenticInv'
    BY <2>1, <2>2 DEF IInv, AuthenticInv
  <2> QED
    BY <2>3, <2>4, <2>5, <2>6 DEF IInv
<1> QED
  BY <1>1, <1>2

\* Rewriting the last chunk of a truncation preserves the invariant.
LEMMA TruncateChunkInv ==
  ASSUME IInv, NEW n \in Sizes, TruncateChunk(n)
  PROVE  IInv'
<1> USE SizesAssumption
<1>1. /\ mode # "closed" /\ pc = "idle" /\ n < mFileSize
      /\ UNCHANGED <<hdr, len, frag, ct, mode, mFileSize, torn, may>>
      /\ n \in Nat /\ Rewritten = {} /\ getChunkIndex(n) \in Sizes
  BY ChunkBounds DEF TruncateChunk, Sizes, Rewritten
<1>2. CASE n % mChunkSize = 0 /\ pc' = "ftruncate" /\ target' = n /\ UNCHANGED <<bad, faults>>
  <2>1. Rewritten' = {}
    BY <1>2 DEF Rewritten
  <2>2. TypeOK' /\ LayoutInv'
    BY <1>1, <1>2 DEF IInv, TypeOK, LayoutInv
  <2>3. CleanInv' /\ AuthenticInv'
    BY <1>1, <1>2, <2>1 DEF IInv, CleanInv, Undamaged, AuthenticInv
  <2> QED
    BY <2>2, <2>3 DEF IInv
<1>3. CASE /\ n % mChunkSize # 0 /\ Decrypts(getChunkIndex(n)) /\ mode = "rw"
           /\ bad' = bad \cup {getChunkIndex(n)}
           /\ pc' = "ftruncate" /\ target' = n /\ UNCHANGED faults
  <2>1. Rewritten' = {getChunkIndex(n)}
    BY <1>3 DEF Rewritten, getChunkIndex
  <2>2. TypeOK' /\ LayoutInv'
    BY <1>1, <1>3 DEF IInv, TypeOK, LayoutInv
  <2>3. CleanInv'
    BY <1>1, <1>3, <2>1 DEF IInv, CleanInv, Undamaged
  <2>4. bad' \ Rewritten' = bad
    BY <1>3, <2>1 DEF Decrypts
  <2>5. AuthenticInv'
    BY <1>1, <2>4 DEF IInv, AuthenticInv
  <2> QED
    BY <2>2, <2>3, <2>5 DEF IInv
<1>4. CASE /\ bad' = bad \cup {getChunkIndex(n)}
           /\ Fault /\ UNCHANGED <<pc, target>>
  <2>1. Rewritten' = {}
    BY <1>1, <1>4 DEF Rewritten
  <2>2. TypeOK' /\ LayoutInv'
    <3>1. faults' \in 0 .. MaxFaults
      BY <1>4 DEF IInv, TypeOK, Fault
    <3>2. TypeOK'
      BY <1>1, <1>4, <3>1 DEF IInv, TypeOK
    <3> QED
      BY <1>1, <1>4, <3>2 DEF IInv, LayoutInv
  <2>3. CleanInv'
    BY <1>4 DEF CleanInv, Undamaged, Fault, IInv, TypeOK
  <2>4. AuthenticInv'
    BY <1>1, <1>4, <2>1 DEF IInv, AuthenticInv
  <2> QED
    BY <2>2, <2>3, <2>4 DEF IInv
<1> QED
  BY <1>2, <1>3, <1>4 DEF TruncateChunk

\* Cutting the raw file, or failing to, preserves the invariant.
LEMMA FtruncateInv == ASSUME IInv, Ftruncate PROVE IInv'
<1> USE SizesAssumption
<1>1. /\ pc = "ftruncate" /\ pc' = "writeHeader" /\ mFileSize' = target
      /\ UNCHANGED <<hdr, mode, target, torn>>
      /\ target \in Nat /\ target \in Sizes /\ target < mFileSize /\ Rewritten' = {}
      /\ mode # "closed"
  BY DEF Ftruncate, IInv, LayoutInv, TypeOK, Sizes, Rewritten
<1>2. CASE /\ mode = "rw" /\ len' = target /\ frag' = 0
           /\ bad' = {i \in bad : i < getChunkIndex(target)}
           /\ ct' = [p \in Pos |-> IF p < target THEN ct[p] ELSE NoByte]
           /\ may' = [p \in Pos |-> IF p < target THEN may[p] ELSE {}]
           /\ UNCHANGED faults
  <2>1. TypeOK' /\ LayoutInv'
    <3>1. ct' \in [Pos -> Byte \cup {NoByte}] /\ may' \in [Pos -> SUBSET Byte]
      BY <1>2 DEF IInv, TypeOK
    <3>2. bad' \in SUBSET Sizes /\ 0 \in 0 .. ChunkHeaderSize
      BY <1>2 DEF IInv, TypeOK
    <3>3. TypeOK'
      BY <1>1, <1>2, <3>1, <3>2 DEF IInv, TypeOK
    <3> QED
      BY <1>1, <1>2, <3>3 DEF IInv, LayoutInv
  <2>2. CleanInv'
    <3> SUFFICES ASSUME Undamaged' PROVE CleanInv!2'
      BY DEF CleanInv
    <3>1. Undamaged
      BY <1>1, <1>2 DEF Undamaged
    <3>2. bad' = {}
      <4>1. bad \subseteq Rewritten
        BY <3>1 DEF IInv, CleanInv
      <4>2. getChunkIndex(target) \in Nat
        BY <1>1, ChunkBounds
      <4> QED
        BY <4>1, <4>2, <1>2 DEF Rewritten
    <3>3. ASSUME NEW p \in Pos PROVE ct'[p] # NoByte <=> p < len'
      <4>1. p \in Nat /\ mFileSize \in Nat /\ len \in Nat /\ mFileSize <= len
        BY <1>2 DEF Pos, IInv, TypeOK, Sizes, LayoutInv
      <4>2. p < target => p < len
        BY <4>1, <1>1
      <4>3. ct[p] # NoByte <=> p < len
        BY <3>1 DEF IInv, CleanInv
      <4> QED
        BY <4>2, <4>3, <1>2
    <3> QED
      BY <1>1, <1>2, <3>2, <3>3
  <2>3. AuthenticInv'
    <3> SUFFICES ASSUME NEW p \in Pos, p < len', getChunkIndex(p) \notin bad'
                 PROVE  ct'[p] \in may'[p]
      BY <1>1 DEF AuthenticInv
    <3>1. p \in Nat /\ p < target /\ mFileSize \in Nat /\ len \in Nat /\ mFileSize <= len
      BY <1>2 DEF Pos, IInv, TypeOK, Sizes, LayoutInv
    <3>2. p < len
      BY <3>1, <1>1
    <3>3. getChunkIndex(p) \in Nat /\ getChunkIndex(target) \in Nat
          /\ getChunkIndex(p) <= getChunkIndex(target)
      BY <3>1, <1>1, ChunkBounds, ChunkMonotone
    <3>4. getChunkIndex(p) \notin bad \ Rewritten
      <4>1. CASE getChunkIndex(p) < getChunkIndex(target)
        BY <4>1, <1>2
      <4>2. CASE getChunkIndex(p) = getChunkIndex(target)
        <5>1. target % mChunkSize # 0
          <6> SUFFICES ASSUME target % mChunkSize = 0 PROVE FALSE
            OBVIOUS
          <6>1. target = getChunkIndex(target) * mChunkSize
            BY <1>1, ChunkBounds
          <6> QED
            BY <6>1, <4>2, <3>1, ChunkBounds
        <5> QED
          BY <5>1, <4>2, <1>1 DEF Rewritten
      <4> QED
        BY <4>1, <4>2, <3>3
    <3> QED
      BY <3>1, <3>2, <3>4, <1>2 DEF IInv, AuthenticInv
  <2> QED
    BY <2>1, <2>2, <2>3 DEF IInv
<1>3. CASE /\ IF mode = "rw" THEN Fault ELSE UNCHANGED faults
           /\ UNCHANGED <<len, frag, bad, ct, may>>
  <2>1. TypeOK' /\ LayoutInv'
    BY <1>1, <1>3 DEF IInv, TypeOK, LayoutInv, Fault, Sizes
  <2>2. CleanInv'
    <3>1. CASE mode = "rw"
      BY <3>1, <1>3 DEF CleanInv, Undamaged, Fault, IInv, TypeOK
    <3>2. CASE mode # "rw"
      <4>1. Rewritten = {}
        BY <3>2, <1>1 DEF Rewritten, IInv, LayoutInv
      <4> QED
        BY <3>2, <4>1, <1>1, <1>3 DEF CleanInv, Undamaged, IInv
    <3> QED
      BY <3>1, <3>2
  <2>3. AuthenticInv'
    BY <1>1, <1>3 DEF IInv, AuthenticInv
  <2> QED
    BY <2>1, <2>2, <2>3 DEF IInv
<1> QED
  BY <1>2, <1>3 DEF Ftruncate

-----------------------------------------------------------------------------
(* The invariant and what follows from it.                                 *)

\* Every step, a crash or a fault included, keeps the inductive invariant.
LEMMA NextInv == IInv /\ [Next]_vars => IInv'
<1> SUFFICES ASSUME IInv, [Next]_vars PROVE IInv'
  OBVIOUS
<1>1. ASSUME NEW m \in {"r", "rw"}, Open(m) PROVE IInv'
  BY <1>1, OpenInv
<1>2. CASE Write
  <2>1. PICK off \in Sizes, n \in 0 .. MaxData :
          \/ \E data \in [0 .. (n - 1) -> Byte] :
               \/ WriteChunks(off, n, data)
               \/ \E k \in firstChunk(off) .. lastChunk(off, n),
                     rem \in 0 .. (rawChunkSizeGet - 1) : WriteShort(off, n, data, k, rem)
          \/ WriteThrows(off, n)
    BY <1>2 DEF Write
  <2>2. CASE WriteThrows(off, n)
    BY <2>2, ThrowInv DEF WriteThrows, Writing
  <2>3. ASSUME NEW data \in [0 .. (n - 1) -> Byte], WriteChunks(off, n, data) PROVE IInv'
    BY <2>3, WriteChunksInv
  <2>4. ASSUME NEW data \in [0 .. (n - 1) -> Byte],
               NEW k \in firstChunk(off) .. lastChunk(off, n),
               NEW rem \in 0 .. (rawChunkSizeGet - 1), WriteShort(off, n, data, k, rem)
        PROVE  IInv'
    BY <2>4, WriteShortInv
  <2> QED
    BY <2>1, <2>2, <2>3, <2>4
<1>3. CASE Truncate
  <2>1. PICK n \in Sizes : TruncateChunk(n) \/ TruncateThrows(n)
    BY <1>3 DEF Truncate
  <2>2. CASE TruncateThrows(n)
    BY <2>2, ThrowInv DEF TruncateThrows
  <2> QED
    BY <2>1, <2>2, TruncateChunkInv
<1>4. CASE UNCHANGED vars
  BY <1>4 DEF vars, IInv, TypeOK, LayoutInv, CleanInv, AuthenticInv, Rewritten, Undamaged
<1> QED
  BY <1>1, <1>2, <1>3, <1>4, FtruncateInv, WriteHeaderInv, CloseInv, CrashInv DEF Next

\* The inductive invariant holds in every reachable state.
THEOREM Invariant == Spec => []IInv
<1>1. IInv /\ [Next]_vars => IInv'
  BY NextInv
<1> QED
  BY InitInv, <1>1, PTL DEF Spec

\* Every variable stays in its type: in particular no operation of
\* vfs_encrypted.cc leaves a size out of range.
THEOREM TypeCorrect == Spec => []TypeOK
<1>1. IInv => TypeOK
  BY DEF IInv
<1> QED
  BY <1>1, Invariant, PTL

\* While the file is undamaged a writable handle knows the size of what is stored.
THEOREM SizeIsKnown == Spec => []SizeKnown
<1>1. IInv => SizeKnown
  BY DEF IInv, CleanInv, SizeKnown
<1> QED
  BY <1>1, Invariant, PTL

\* No failure makes read() return a byte that was not written at that position.
THEOREM ReadsAuthentic == Spec => []ReadsWhatWasWritten
<1>1. IInv => ReadsWhatWasWritten
  <2> SUFFICES ASSUME IInv, Quiet, NEW off \in Pos, NEW n \in 1 .. MaxSize,
                      ~ReadFails(off, n), NEW p \in DOMAIN Read(off, n)
               PROVE  Read(off, n)[p] \in may[p]
    BY DEF ReadsWhatWasWritten
  <2> DEFINE last == getChunkIndex(off + n - 1)
  <2>1. /\ off \in Nat /\ n \in Nat /\ off + n - 1 \in Nat
        /\ len \in Nat /\ len <= MaxSize /\ pc = "idle"
    BY SizesAssumption DEF Pos, IInv, TypeOK, Sizes, Quiet
  <2>2. last \in Nat
    BY <2>1, ChunkBounds
  <2> HIDE DEF last
  <2>3. p \in off .. (Min(off + n, ChunkEnd(last)) - 1) /\ Read(off, n)[p] = Decrypted(p)
    BY DEF Read, last
  <2>4. ChunkEnd(last) <= len /\ ChunkEnd(last) \in Int
    BY <2>1, <2>2, SizesAssumption DEF ChunkEnd, Min
  <2>5. p \in Nat /\ off <= p /\ p <= off + n - 1 /\ p < len
    BY <2>1, <2>3, <2>4 DEF Min
  <2>6. p \in Pos
    BY <2>1, <2>5, SizesAssumption DEF Pos
  <2>7. /\ getChunkIndex(p) \in getChunkIndex(off) .. last
        /\ getChunkIndex(p) * mChunkSize < len
    <3>1. getChunkIndex(off) <= getChunkIndex(p) /\ getChunkIndex(p) <= last
      BY <2>1, <2>5, ChunkMonotone DEF last
    <3>2. getChunkIndex(p) * mChunkSize <= p /\ getChunkIndex(p) \in Nat /\ getChunkIndex(off) \in Nat
      BY <2>1, <2>5, ChunkBounds
    <3> QED
      BY <3>1, <3>2, <2>1, <2>2, <2>5, SizesAssumption
  <2>8. getChunkIndex(p) \notin bad
    BY <2>7 DEF ReadFails, Decrypts, last
  <2> QED
    BY <2>1, <2>3, <2>5, <2>6, <2>8 DEF IInv, AuthenticInv, Decrypted
<1> QED
  BY <1>1, Invariant, PTL

\* Every read of an undamaged file through a writable handle succeeds and is complete.
THEOREM ReadsAll == Spec => []ReadsComplete
<1>1. IInv => ReadsComplete
  <2> SUFFICES ASSUME IInv, Quiet, mode = "rw", Undamaged, NEW off \in Pos, NEW n \in 1 .. MaxSize
               PROVE  /\ ~ReadFails(off, n)
                      /\ DOMAIN Read(off, n) = off .. (Min(off + n, mFileSize) - 1)
    BY DEF ReadsComplete
  <2> DEFINE last == getChunkIndex(off + n - 1)
  <2>1. /\ off \in Nat /\ n \in Nat /\ off + n - 1 \in Nat
        /\ len \in Nat /\ mFileSize = len /\ bad = {}
    BY SizesAssumption DEF Pos, IInv, TypeOK, Sizes, Quiet, CleanInv, Rewritten
  <2>2. last \in Nat /\ off + n - 1 < (last + 1) * mChunkSize
    BY <2>1, ChunkBounds
  <2>3. ~ReadFails(off, n)
    BY <2>1 DEF ReadFails, Decrypts
  <2> HIDE DEF last
  <2>4. Min(off + n, ChunkEnd(last)) = Min(off + n, mFileSize)
    BY <2>1, <2>2, SizesAssumption DEF ChunkEnd, Min
  <2>5. DOMAIN Read(off, n) = off .. (Min(off + n, ChunkEnd(last)) - 1)
    BY DEF Read, last
  <2> QED
    BY <2>3, <2>4, <2>5
<1> QED
  BY <1>1, Invariant, PTL

\* After a crash the file opens again, except for the case the full check of the
\* constructor gets wrong.
THEOREM OpensAgain == Spec => []Reopens
<1>1. IInv => Reopens
  <2> SUFFICES ASSUME IInv, mode = "closed", Undamaged, hdr # NoHeader,
                      ~OpensAsIs, len % mChunkSize # 0 \/ HeaderMatches
               PROVE  OpensRecovered
    BY DEF Reopens
  <2>1. ~HeaderMatches /\ len % mChunkSize # 0
    BY DEF OpensAsIs
  <2>2. len \in Nat /\ frag = 0 /\ bad = {} /\ pc = "idle"
    BY DEF IInv, TypeOK, Sizes, CleanInv, Rewritten, LayoutInv
  <2>3. parsedSize = len
    <3>1. ActualRawSize = rawFileSizeGet(len)
      <4>1. rawFileSizeGet(len) \in Int
        BY <2>2, SizesAssumption DEF rawFileSizeGet, ChunkCount
      <4> QED
        BY <4>1, <2>2 DEF ActualRawSize
    <3> QED
      BY <3>1, <2>1, <2>2, RecoveredSize DEF parsedSize
  <2>4. parsedSize > 0
    BY <2>2, <2>3, <2>1 DEF OpensAsIs
  <2>5. FullCheck(parsedSize)
    <3> SUFFICES ASSUME NEW i \in 1 .. getChunkIndex(len) PROVE i * mChunkSize < len
      BY <2>2, <2>3 DEF FullCheck, Decrypts
    <3> DEFINE q == getChunkIndex(len)
               r == len % mChunkSize
    <3>1. q \in Nat /\ r \in 1 .. (mChunkSize - 1) /\ len = q * mChunkSize + r
      BY <2>1, <2>2, ChunkBounds, SizesAssumption
    <3> HIDE DEF q, r
    <3>2. i \in Nat /\ i <= q
      BY <3>1 DEF q
    <3>3. i * mChunkSize <= q * mChunkSize
      BY <3>1, <3>2, SizesAssumption
    <3> QED
      BY <3>1, <3>2, <3>3, SizesAssumption
  <2> QED
    BY <2>1, <2>4, <2>5 DEF OpensRecovered
<1> QED
  BY <1>1, Invariant, PTL

-----------------------------------------------------------------------------
(* Refinement of PlainFile.                                                *)

\* A completed write of the chunks is the write of the plain file.
LEMMA WriteRefines ==
  ASSUME IInv, Undamaged, NEW off \in Sizes, NEW n \in 0 .. MaxData,
         NEW data \in [0 .. (n - 1) -> Byte], WriteChunks(off, n, data)
  PROVE  Plain!Write(off, data)
<1> USE SizesAssumption
<1> DEFINE e == WriteEnd(off, n)
           start == WriteStart(off)
<1>0. /\ Writing(off, n) /\ mode = "rw" /\ pc = "idle"
      /\ ct' = Stored(off, n, data, e)
      /\ len' = Max(len, e)
      /\ pc' = "writeHeader"
      /\ UNCHANGED <<faults, torn>>
  BY DEF WriteChunks, Writing
<1>1. /\ len \in Nat /\ len <= MaxSize /\ mFileSize = len
      /\ off \in Nat /\ n \in Nat /\ off + n <= MaxSize
      /\ ContentEnd = len /\ ContentEnd' = len'
      /\ \A p \in Pos : ct[p] # NoByte <=> p < len
      /\ bad = {}
  BY <1>0 DEF IInv, TypeOK, CleanInv, Sizes, Writing, ContentEnd, Rewritten
<1>2. /\ start \in Nat /\ start <= off
      /\ len < off => start = len
      /\ len >= off => start = off
      /\ ReadOffset(off) \in Nat /\ ReadOffset(off) <= start
      /\ e \in Nat /\ off + n <= e
      /\ e > len => e = off + n
  BY <1>0, <1>1, WritePlan DEF IInv, Sizes
<1> HIDE DEF e, start
<1>3. len' \in Nat /\ (e > len => len' = e) /\ (e <= len => len' = len)
  BY <1>0, <1>1, <1>2 DEF Max
<1>4. ASSUME NEW p \in Pos
      PROVE  Content'[p] = IF p - off \in DOMAIN data THEN data[p - off]
                           ELSE Plain!Fill(Content, off)[p]
  <2>1. p \in Nat /\ DOMAIN data = 0 .. (n - 1) /\ (p - off \in DOMAIN data <=> off <= p /\ p < off + n)
    BY <1>1 DEF Pos
  <2>2. /\ Content'[p] = IF p < len' THEN ct'[p] ELSE NoByte
        /\ Content[p] = IF p < len THEN ct[p] ELSE NoByte
    BY <1>1 DEF Content
  <2>3. Plain!Fill(Content, off)[p] = IF Content[p] = NoByte /\ p < off THEN Zero ELSE Content[p]
    BY DEF Plain!Fill, Plain!Pos, Pos
  <2>4. ct'[p] = IF ReadOffset(off) <= p /\ p < e THEN NewByte(off, n, data, p) ELSE ct[p]
    BY <1>0 DEF Stored
  <2>5. CASE off <= p /\ p < off + n
    <3>1. NewByte(off, n, data, p) = data[p - off]
      BY <2>5 DEF NewByte
    <3>2. p < len' /\ ReadOffset(off) <= p /\ p < e
      BY <2>1, <2>5, <1>1, <1>2, <1>3
    <3> QED
      BY <3>1, <3>2, <2>1, <2>2, <2>4, <2>5
  <2>6. CASE p < off /\ start <= p
    <3>1. NewByte(off, n, data, p) = Zero
      BY <2>6, <2>1, <1>1 DEF NewByte, start
    <3>2. p < len' /\ ReadOffset(off) <= p /\ p < e /\ ~(p < len)
      BY <2>1, <2>6, <1>1, <1>2, <1>3
    <3> QED
      BY <3>1, <3>2, <2>1, <2>2, <2>3, <2>4, <2>6, <1>1
  <2>7. CASE (p < off /\ p < start) \/ p >= off + n
    <3>1. NewByte(off, n, data, p) = ct[p]
      BY <2>7, <2>1, <1>1, <1>2 DEF NewByte, Decrypted, start
    <3>2. ct'[p] = ct[p]
      BY <3>1, <2>4
    <3>3. p < len' <=> p < len
      BY <2>1, <2>7, <1>1, <1>2, <1>3
    <3>4. p < off => p < len
      BY <2>1, <2>7, <1>1, <1>2
    <3>5. Plain!Fill(Content, off)[p] = Content[p]
      BY <3>4, <2>2, <2>3, <1>1
    <3> QED
      BY <3>2, <3>3, <3>5, <2>1, <2>2, <2>7, <1>1
  <2> QED
    BY <2>1, <2>5, <2>6, <2>7, <1>1, <1>2
<1>5. Content' = [p \in Plain!Pos |-> IF p - off \in DOMAIN data THEN data[p - off]
                                     ELSE Plain!Fill(Content, off)[p]]
  BY <1>4 DEF Content, Plain!Pos, Pos
<1>6. \A i \in DOMAIN data : off + i \in Plain!Pos
  BY <1>1 DEF Plain!Pos
<1>7. UNCHANGED Undamaged
  BY <1>0 DEF Undamaged
<1> QED
  BY <1>5, <1>6, <1>7 DEF Plain!Write

\* Cutting the content at n is the truncation of the plain file.
LEMMA CutRefines ==
  ASSUME IInv, Undamaged, NEW n \in Sizes, n < len, ContentEnd = len,
         ContentEnd' = n, UNCHANGED Undamaged,
         \A p \in Pos : p < n => ct'[p] = ct[p]
  PROVE  Plain!Truncate(n)
<1>1. n \in Nat /\ len \in Nat
  BY SizesAssumption DEF Sizes, IInv, TypeOK
<1>2. ASSUME NEW p \in Pos
      PROVE  Content'[p] = IF p >= n THEN NoByte ELSE Plain!Fill(Content, n)[p]
  <2>1. p \in Nat
    BY DEF Pos
  <2>2. /\ Content'[p] = IF p < n THEN ct'[p] ELSE NoByte
        /\ Content[p] = IF p < len THEN ct[p] ELSE NoByte
    BY DEF Content
  <2>3. Plain!Fill(Content, n)[p] = IF Content[p] = NoByte /\ p < n THEN Zero ELSE Content[p]
    BY DEF Plain!Fill, Plain!Pos, Pos
  <2>4. p < len => ct[p] # NoByte
    BY DEF IInv, CleanInv
  <2> QED
    BY <2>1, <2>2, <2>3, <2>4, <1>1
<1>3. Content' = [p \in Plain!Pos |-> IF p >= n THEN NoByte ELSE Plain!Fill(Content, n)[p]]
  BY <1>2 DEF Content, Plain!Pos, Pos
<1> QED
  BY <1>3 DEF Plain!Truncate

\* A step that keeps the content and the history is a stutter.
LEMMA StutterRefines ==
  ASSUME UNCHANGED <<ct, ContentEnd, faults, torn>>
  PROVE  UNCHANGED Plain!vars
<1>1. Content' = Content
  BY DEF Content
<1>2. Undamaged' = Undamaged
  BY DEF Undamaged
<1> QED
  BY <1>1, <1>2 DEF Plain!vars

\* Every step of the encrypted file is a step of the plain file or a stutter.
LEMMA StepRefines == IInv /\ [Next]_vars => [Plain!Next]_(Plain!vars)
<1> SUFFICES ASSUME IInv, [Next]_vars PROVE [Plain!Next]_(Plain!vars)
  OBVIOUS
<1> USE SizesAssumption
<1>0. ASSUME ~Undamaged' PROVE Plain!Next
  <2>1. Undamaged' = FALSE
    BY <1>0 DEF Undamaged
  <2> QED
    BY <2>1 DEF Plain!Next, Plain!Damage
<1>1. ASSUME NEW m \in {"r", "rw"}, Open(m) PROVE UNCHANGED Plain!vars
  BY <1>1, StutterRefines DEF Open, Opened, ContentEnd
<1>2. ASSUME Throw, pc # "ftruncate" PROVE UNCHANGED Plain!vars
  BY <1>2, StutterRefines DEF Throw, ContentEnd
<1>3. CASE Write
  <2>1. PICK off \in Sizes, n \in 0 .. MaxData :
          \/ \E data \in [0 .. (n - 1) -> Byte] :
               \/ WriteChunks(off, n, data)
               \/ \E k \in firstChunk(off) .. lastChunk(off, n),
                     rem \in 0 .. (rawChunkSizeGet - 1) : WriteShort(off, n, data, k, rem)
          \/ WriteThrows(off, n)
    BY <1>3 DEF Write
  <2>2. CASE WriteThrows(off, n)
    BY <2>2, <1>2 DEF WriteThrows, Writing
  <2>3. ASSUME NEW data \in [0 .. (n - 1) -> Byte], WriteChunks(off, n, data)
        PROVE  Plain!Next
    <3>1. CASE Undamaged
      <4>1. Plain!Write(off, data)
        BY <2>3, <3>1, WriteRefines
      <4>2. data \in Plain!Data /\ off \in 0 .. MaxSize
        BY DEF Plain!Data, Sizes
      <4> QED
        BY <4>1, <4>2 DEF Plain!Next
    <3>2. CASE ~Undamaged
      <4>1. ~Undamaged'
        BY <3>2, <2>3 DEF WriteChunks, Undamaged
      <4> QED
        BY <4>1, <1>0
    <3> QED
      BY <3>1, <3>2
  <2>4. ASSUME NEW data \in [0 .. (n - 1) -> Byte],
               NEW k \in firstChunk(off) .. lastChunk(off, n),
               NEW rem \in 0 .. (rawChunkSizeGet - 1), WriteShort(off, n, data, k, rem)
        PROVE  Plain!Next
    <3>1. ~Undamaged'
      BY <2>4 DEF WriteShort, Fault, Undamaged, IInv, TypeOK
    <3> QED
      BY <3>1, <1>0
  <2> QED
    BY <2>1, <2>2, <2>3, <2>4
<1>4. CASE Truncate
  <2>1. PICK n \in Sizes : TruncateChunk(n) \/ TruncateThrows(n)
    BY <1>4 DEF Truncate
  <2>2. CASE TruncateThrows(n)
    BY <2>2, <1>2 DEF TruncateThrows
  <2>3. CASE TruncateChunk(n) /\ n % mChunkSize = 0
    <3>1. UNCHANGED <<ct, len, faults, torn>> /\ pc = "idle" /\ target' = n
      BY <2>3 DEF TruncateChunk
    <3>2. ContentEnd' = ContentEnd
      BY <3>1, <2>3 DEF ContentEnd
    <3> QED
      BY <3>1, <3>2, StutterRefines
  <2>4. CASE TruncateChunk(n) /\ n % mChunkSize # 0 /\ Undamaged'
    <3>1. /\ mode = "rw" /\ pc = "idle" /\ pc' = "ftruncate" /\ target' = n
          /\ n < mFileSize /\ UNCHANGED <<ct, len, faults, torn>>
      BY <2>4 DEF TruncateChunk, Undamaged, Fault, IInv, TypeOK
    <3>2. Undamaged /\ UNCHANGED Undamaged
      BY <3>1, <2>4 DEF Undamaged
    <3>3. mFileSize = len
      BY <3>1, <3>2 DEF IInv, CleanInv
    <3>4. ContentEnd = len /\ ContentEnd' = n
      BY <3>1, <2>4 DEF ContentEnd
    <3>5. Plain!Truncate(n)
      BY <3>1, <3>2, <3>3, <3>4, CutRefines
    <3> QED
      BY <3>5 DEF Plain!Next, Sizes
  <2> QED
    BY <2>1, <2>2, <2>3, <2>4, <1>0
<1>5. CASE Ftruncate
  <2>1. pc = "ftruncate" /\ pc' = "writeHeader" /\ ContentEnd' = len' /\ UNCHANGED <<torn, mode, target>>
    BY <1>5 DEF Ftruncate, ContentEnd
  <2>2. CASE ~Undamaged'
    BY <2>2, <1>0
  <2>3. CASE Undamaged' /\ mode # "rw"
    <3>1. UNCHANGED <<len, ct, faults>>
      BY <2>3, <1>5 DEF Ftruncate
    <3>2. ContentEnd = len
      BY <2>3, <2>1 DEF ContentEnd, IInv, LayoutInv
    <3> QED
      BY <3>1, <3>2, <2>1, StutterRefines
  <2>4. CASE Undamaged' /\ mode = "rw"
    <3>1. /\ len' = target /\ UNCHANGED faults
          /\ ct' = [p \in Pos |-> IF p < target THEN ct[p] ELSE NoByte]
      BY <2>4, <1>5 DEF Ftruncate, Undamaged, Fault, IInv, TypeOK
    <3>2. Undamaged /\ UNCHANGED Undamaged
      BY <3>1, <2>1, <2>4 DEF Undamaged
    <3>3. target \in Sizes /\ target < len
      BY <3>2, <2>1, <2>4 DEF IInv, TypeOK, LayoutInv, CleanInv
    <3>4. CASE target % mChunkSize = 0
      <4>1. ContentEnd = len
        BY <3>4 DEF ContentEnd
      <4>2. \A p \in Pos : p < target => ct'[p] = ct[p]
        BY <3>1
      <4>3. Plain!Truncate(target)
        BY <4>1, <4>2, <3>1, <3>2, <3>3, <2>1, CutRefines
      <4> QED
        BY <4>3, <3>3 DEF Plain!Next, Sizes
    <3>5. CASE target % mChunkSize # 0
      <4>1. ContentEnd = target
        BY <3>5, <2>1 DEF ContentEnd
      <4>2. Content' = Content
        BY <4>1, <3>1, <2>1 DEF Content
      <4> QED
        BY <4>2, <3>2 DEF Plain!vars
    <3> QED
      BY <3>4, <3>5
  <2> QED
    BY <2>2, <2>3, <2>4
<1>6. CASE writeHeader
  BY <1>6, <1>2, StutterRefines DEF writeHeader, ContentEnd
<1>7. CASE Close
  BY <1>7, StutterRefines DEF Close, HandleGone, ContentEnd
<1>8. CASE Crash
  <2>1. CASE ~Undamaged'
    BY <2>1, <1>0
  <2>2. CASE Undamaged'
    <3>1. ~(pc = "ftruncate" /\ target % mChunkSize # 0) /\ torn' = torn
      BY <2>2, <1>8 DEF Crash, Undamaged, IInv, TypeOK
    <3> QED
      BY <3>1, <1>8, StutterRefines DEF Crash, HandleGone, ContentEnd
  <2> QED
    BY <2>1, <2>2
<1>9. CASE UNCHANGED vars
  BY <1>9, StutterRefines DEF vars, ContentEnd
<1> QED
  BY <1>1, <1>3, <1>4, <1>5, <1>6, <1>7, <1>8, <1>9 DEF Next

\* The encrypted file implements the plain one: until a physical failure
\* or a crash inside a shrinking truncation, write() and truncate() are atomic.
THEOREM Refinement == Spec => ImplementsPlainFile
<1>1. Init => Plain!Init
  BY SizesAssumption DEF Init, Plain!Init, Content, ContentEnd, Undamaged, Plain!Pos, Pos
<1>2. IInv /\ [Next]_vars => [Plain!Next]_(Plain!vars)
  BY StepRefines
<1> QED
  BY <1>1, <1>2, Invariant, PTL DEF Spec, ImplementsPlainFile, Plain!Spec

=============================================================================
