---------------------------- MODULE VfsEncryption ----------------------------
(***************************************************************************)
(* The encrypted file of src/src/vfs/vfs_encrypted.cc: a file header that  *)
(* records the size of the plain text, followed by chunks of mChunkSize    *)
(* bytes, each one encrypted and authenticated on its own and preceded by  *)
(* a chunk header.  One handle, opened and closed any number of times, on  *)
(* a medium whose physical operations may fail or be cut short; the        *)
(* process may crash between any two of them.                              *)
(*                                                                         *)
(* Encryption is abstracted to what it guarantees: a chunk decrypts to the *)
(* bytes that were encrypted if it is stored exactly as it was written and *)
(* fails its integrity check otherwise.  A chunk that does not decrypt     *)
(* is in bad.  Sizes are exact: the length of the raw file and the size    *)
(* in the header decide how the next open treats the file.                 *)
(***************************************************************************)
EXTENDS Integers, FiniteSets

CONSTANTS
  Byte, Zero,       \* the byte values, and the one that fills a gap
  NoByte,           \* content of a position that is not in the file
  MaxSize,          \* bound on the size of the plain text
  MaxData,          \* bound on the bytes of one write
  MaxFaults,        \* bound on faults
  mChunkSize,       \* bytes of plain text in a chunk
  ChunkHeaderSize,  \* bytes a chunk header takes in the raw file
  ReencryptChecks   \* the module authenticates a chunk it is to overwrite
                    \* (the dummy module does, AES256GCM does not)

ASSUME SizesAssumption ==
  /\ MaxSize \in Nat \ {0}
  /\ MaxData \in Nat /\ MaxFaults \in Nat
  /\ mChunkSize \in Nat \ {0}
  /\ ChunkHeaderSize \in Nat \ {0}
  /\ ReencryptChecks \in BOOLEAN

ASSUME BytesAssumption == Zero \in Byte /\ NoByte \notin Byte

VARIABLES
  \* the raw file
  hdr,        \* plain text size in the file header, NoHeader if the file is empty
  len,        \* bytes of plain text whose cipher text is in the file
  frag,       \* bytes of a chunk header without payload at the end of the file
  ct,         \* the plain text of what is stored
  bad,        \* indexes of the chunks that fail their integrity check
  \* the handle
  mode,       \* "closed", "r" (O_RDONLY) or "rw"
  mFileSize,  \* plain text size as the handle believes it to be
  pc,         \* physical step the running operation has still to do
  target,     \* new size, while a truncation is running
  \* history
  faults,     \* physical operations that failed and left the file half changed
  torn,       \* the process crashed inside a shrinking truncation
  may         \* the values a caller may expect at each position

vars == <<hdr, len, frag, ct, bad, mode, mFileSize, pc, target, faults, torn, may>>

NoHeader == -1
Pos == 0 .. (MaxSize - 1)
Sizes == 0 .. MaxSize
Max(a, b) == IF a >= b THEN a ELSE b
Min(a, b) == IF a <= b THEN a ELSE b

-----------------------------------------------------------------------------
(* Layout of the raw file; the file header's own size cancels out of every  *)
(* comparison and is left out.                                             *)

rawChunkSizeGet == mChunkSize + ChunkHeaderSize

getChunkIndex(offset) == offset \div mChunkSize

\* Chunks of a file of n bytes, in units of size u.
ChunkCount(n, u) == (n \div u) + (IF n % u > 0 THEN 1 ELSE 0)

rawFileSizeGet(n) == n + ChunkCount(n, mChunkSize) * ChunkHeaderSize

ActualRawSize == rawFileSizeGet(len) + frag

\* (Mutant) An incomplete last chunk is not counted.
PlainSizeFullChunks(raw) == raw - (raw \div rawChunkSizeGet) * ChunkHeaderSize

\* parseHeader's estimate of the plain text size from the raw size.  A negative
\* value stands for the huge one the unsigned subtraction wraps to.
PlainSize(raw) == raw - ChunkCount(raw, rawChunkSizeGet) * ChunkHeaderSize

\* End of the payload of chunk i in the file.
ChunkEnd(i) == Min(len, (i + 1) * mChunkSize)

\* decryptChunk returns rather than throws.
Decrypts(i) == i * mChunkSize < len /\ i \notin bad

\* The plain text decryption yields at position p: no byte that was ever stored
\* if the chunk is not authentic.
Decrypted(p) == IF getChunkIndex(p) \in bad THEN NoByte ELSE ct[p]

-----------------------------------------------------------------------------
Init ==
  /\ hdr = NoHeader /\ len = 0 /\ frag = 0
  /\ ct = [p \in Pos |-> NoByte]
  /\ bad = {}
  /\ mode = "closed" /\ mFileSize = 0 /\ pc = "idle" /\ target = 0
  /\ faults = 0 /\ torn = FALSE
  /\ may = [p \in Pos |-> {}]

\* An exception leaves the operation; nothing was written.
Throw ==
  /\ pc' = "idle" /\ target' = 0
  /\ UNCHANGED <<hdr, len, frag, ct, bad, mode, mFileSize, faults, torn, may>>

\* A physical operation fails after it has changed the file.
Fault == faults < MaxFaults /\ faults' = faults + 1

-----------------------------------------------------------------------------
(* Opening.                                                                *)

\* (Mutant) The header is trusted.
HeaderTrusted == TRUE

\* The size in the header and the size of the raw file agree.
HeaderMatches == rawFileSizeGet(hdr) = ActualRawSize

\* parseHeader: the size the handle starts with.
parsedSize == IF HeaderMatches THEN hdr ELSE PlainSize(ActualRawSize)

\* The loop of the constructor over the chunks, last one first; chunk 0 is not
\* looked at.  An index after the last chunk reads nothing and throws.
FullCheck(n) == \A i \in 1 .. getChunkIndex(n) : Decrypts(i)

\* The file is opened with no error and no change to the file.
OpensAsIs ==
  /\ hdr # NoHeader
  /\ HeaderMatches \/ parsedSize = 0

\* The file is opened after the header is brought up to date.
OpensRecovered ==
  /\ hdr # NoHeader
  /\ ~HeaderMatches
  /\ parsedSize > 0
  /\ FullCheck(parsedSize)

Opened(m, n) ==
  /\ mode' = m /\ mFileSize' = n
  /\ UNCHANGED <<len, frag, ct, bad, pc, target, faults, torn, may>>

\* The constructor: an empty file gets a header, a mismatch is repaired.
\* Anything else throws and leaves everything as it was.
Open(m) ==
  /\ mode = "closed"
  /\ \/ /\ hdr = NoHeader
        /\ m = "rw"
        /\ hdr' = 0
        /\ Opened(m, 0)
     \/ /\ OpensAsIs
        /\ UNCHANGED hdr
        /\ Opened(m, parsedSize)
     \/ /\ OpensRecovered
        /\ m = "rw"
        /\ hdr' = parsedSize
        /\ Opened(m, parsedSize)

HandleGone ==
  /\ mode' = "closed" /\ mFileSize' = 0 /\ pc' = "idle" /\ target' = 0

Close ==
  /\ mode # "closed" /\ pc = "idle"
  /\ HandleGone
  /\ UNCHANGED <<hdr, len, frag, ct, bad, faults, torn, may>>

\* The process stops between two physical operations.
Crash ==
  /\ mode # "closed" /\ pc # "idle"
  /\ HandleGone
  /\ torn' = (torn \/ (pc = "ftruncate" /\ target % mChunkSize # 0))
  /\ UNCHANGED <<hdr, len, frag, ct, bad, faults, may>>

-----------------------------------------------------------------------------
(* write(data, off): n bytes of data, stored at off .. off + n - 1.         *)

\* (Mutant) A write after the end of the file starts at its offset.
WriteStartAtOffset(off) == off

\* Where writing starts: a write after the end of the file starts at the end.
WriteStart(off) == Min(off, mFileSize)

firstChunk(off) == getChunkIndex(WriteStart(off))

lastChunk(off, n) == getChunkIndex(off + n - 1)

\* Writing starts at a chunk boundary.
ReadOffset(off) == firstChunk(off) * mChunkSize

\* The first chunk is decrypted for the bytes that precede the written ones,
\* the last one for those that follow.
Prepends(off) == ReadOffset(off) < WriteStart(off)
Appends(off, n) == (off + n) % mChunkSize # 0 /\ off + n < mFileSize

\* (Mutant) What follows the written bytes in the last chunk is not kept.
WriteEndAtData(off, n) == off + n

\* End of the plain text that is encrypted again.
WriteEnd(off, n) ==
  IF Appends(off, n) THEN ChunkEnd(lastChunk(off, n)) ELSE off + n

\* Chunks that are read because they are about to be overwritten.
Overwritten(off, n) ==
  {i \in firstChunk(off) .. lastChunk(off, n) :
      /\ ReadOffset(off) < mFileSize
      /\ i * mChunkSize < len \/ (i * mChunkSize = len /\ frag > 0)}

\* (Mutant) A failed integrity check is ignored.
WriteUnchecked(off, n) == TRUE

\* No chunk the write has to look at fails its integrity check.
WriteAuthentic(off, n) ==
  /\ Prepends(off) => Decrypts(firstChunk(off))
  /\ Appends(off, n) => Decrypts(lastChunk(off, n))
  /\ ReencryptChecks => \A i \in Overwritten(off, n) : Decrypts(i)

\* (Mutant) The gap after the end of the file is not filled.
NewByteNoFill(off, n, data, p) ==
  IF off <= p /\ p < off + n THEN data[p - off] ELSE Decrypted(p)

\* The plain text at position p of the chunks that are written.
NewByte(off, n, data, p) ==
  IF off <= p /\ p < off + n THEN data[p - off]
  ELSE IF WriteStart(off) <= p /\ p < off THEN Zero
  ELSE Decrypted(p)

\* The stored bytes once the chunks have been written up to position e.
Stored(off, n, data, e) ==
  [p \in Pos |-> IF ReadOffset(off) <= p /\ p < e THEN NewByte(off, n, data, p)
                 ELSE ct[p]]

\* What a caller may expect to read: the written bytes and the filled gap.
Expected(off, n, data) ==
  [p \in Pos |-> IF WriteStart(off) <= p /\ p < off + n
                 THEN {NewByte(off, n, data, p)} ELSE {}]

\* A write that has something to do.  (With no data and no gap the code
\* encrypts the chunk at off again, or nothing.)
Writing(off, n) ==
  /\ mode # "closed" /\ pc = "idle"
  /\ off + n <= MaxSize
  /\ off + n > WriteStart(off)

\* All chunks reach the file.  The last one is damaged if the file holds more of
\* it than is written: that happens when mFileSize is less than what is stored.
WriteChunks(off, n, data) ==
  LET e == WriteEnd(off, n)
      last == lastChunk(off, n)
  IN
  /\ Writing(off, n) /\ WriteAuthentic(off, n) /\ mode = "rw"
  /\ ct' = Stored(off, n, data, e)
  /\ len' = Max(len, e)
  /\ frag' = IF e > len THEN 0 ELSE frag
  /\ bad' = (bad \ (firstChunk(off) .. last)) \cup (IF e < ChunkEnd(last) THEN {last} ELSE {})
  /\ may' = [p \in Pos |-> IF Expected(off, n, data)[p] = {} THEN may[p]
                           ELSE Expected(off, n, data)[p]]
  /\ mFileSize' = Max(mFileSize, off + n)
  /\ pc' = "writeHeader"
  /\ UNCHANGED <<hdr, mode, target, faults, torn>>

\* The chunks before k reach the file, and rem raw bytes of chunk k; the write
\* throws.  (Nothing at all is written when k is the first chunk and rem is 0.)
WriteShort(off, n, data, k, rem) ==
  LET j == Max(0, rem - ChunkHeaderSize)
      e == k * mChunkSize + j
  IN
  /\ Writing(off, n) /\ WriteAuthentic(off, n) /\ mode = "rw"
  /\ e < WriteEnd(off, n)
  /\ k > firstChunk(off) \/ rem > 0
  /\ ct' = Stored(off, n, data, e)
  /\ len' = Max(len, e)
  /\ frag' = IF rem > 0 /\ j = 0 /\ e = len' THEN Max(rem, IF e = len THEN frag ELSE 0)
             ELSE IF e > len THEN 0 ELSE frag
  /\ bad' = (bad \ (firstChunk(off) .. (k - 1))) \cup (IF rem > 0 THEN {k} ELSE {})
  /\ may' = [p \in Pos |-> may[p] \cup Expected(off, n, data)[p]]
  /\ Fault
  /\ UNCHANGED <<hdr, mode, mFileSize, pc, target, torn>>

\* A chunk does not decrypt, or the file cannot be written at all.
WriteThrows(off, n) ==
  /\ Writing(off, n)
  /\ Throw

\* The header is the last thing an operation writes.  The file stays readable
\* when that fails: the next open finds the mismatch.
writeHeader ==
  /\ pc = "writeHeader"
  /\ \/ /\ mode = "rw"
        /\ hdr' = mFileSize
        /\ pc' = "idle" /\ target' = 0
        /\ UNCHANGED <<len, frag, ct, bad, mode, mFileSize, faults, torn, may>>
     \/ Throw

-----------------------------------------------------------------------------
(* truncate(n), shrinking; growing is a write of no data at n.              *)

\* The chunk that becomes the last one is decrypted, cut, and written over the
\* old one, which is longer: until ftruncate it fails its integrity check.
TruncateChunk(n) ==
  /\ mode # "closed" /\ pc = "idle" /\ n < mFileSize
  /\ \/ /\ n % mChunkSize = 0
        /\ pc' = "ftruncate" /\ target' = n
        /\ UNCHANGED <<bad, faults>>
     \/ /\ n % mChunkSize # 0
        /\ Decrypts(getChunkIndex(n))
        /\ mode = "rw"
        /\ bad' = bad \cup {getChunkIndex(n)}
        /\ \/ /\ pc' = "ftruncate" /\ target' = n
              /\ UNCHANGED faults
           \/ /\ Fault                              \* cut short: throws
              /\ UNCHANGED <<pc, target>>
  /\ UNCHANGED <<hdr, len, frag, ct, mode, mFileSize, torn, may>>

TruncateThrows(n) ==
  /\ mode # "closed" /\ pc = "idle" /\ n < mFileSize
  /\ n % mChunkSize # 0
  /\ Throw

\* The raw file is cut; the result of the call is not looked at.
Ftruncate ==
  /\ pc = "ftruncate"
  /\ mFileSize' = target
  /\ pc' = "writeHeader"
  /\ \/ /\ mode = "rw"
        /\ len' = target /\ frag' = 0
        /\ bad' = {i \in bad : i < getChunkIndex(target)}
        /\ ct' = [p \in Pos |-> IF p < target THEN ct[p] ELSE NoByte]
        /\ may' = [p \in Pos |-> IF p < target THEN may[p] ELSE {}]
        /\ UNCHANGED faults
     \/ /\ IF mode = "rw" THEN Fault ELSE UNCHANGED faults
        /\ UNCHANGED <<len, frag, bad, ct, may>>
  /\ UNCHANGED <<hdr, mode, target, torn>>

-----------------------------------------------------------------------------
Write ==
  \E off \in Sizes, n \in 0 .. MaxData :
    \/ \E data \in [0 .. (n - 1) -> Byte] :
         \/ WriteChunks(off, n, data)
         \/ \E k \in firstChunk(off) .. lastChunk(off, n), rem \in 0 .. (rawChunkSizeGet - 1) :
              WriteShort(off, n, data, k, rem)
    \/ WriteThrows(off, n)

Truncate == \E n \in Sizes : TruncateChunk(n) \/ TruncateThrows(n)

Next ==
  \/ \E m \in {"r", "rw"} : Open(m)
  \/ Write
  \/ Truncate
  \/ Ftruncate
  \/ writeHeader
  \/ Close
  \/ Crash

Spec == Init /\ [][Next]_vars

-----------------------------------------------------------------------------
(* read(off, n), n > 0: no state changes.                                  *)

\* Some chunk of the range, as far as the file goes, fails its integrity check.
ReadFails(off, n) ==
  \E i \in getChunkIndex(off) .. getChunkIndex(off + n - 1) :
    i * mChunkSize < len /\ ~Decrypts(i)

\* Otherwise: the decrypted chunks without what precedes off and what exceeds n
\* bytes.  The size the handle believes in plays no part.
Read(off, n) ==
  [p \in off .. (Min(off + n, ChunkEnd(getChunkIndex(off + n - 1))) - 1) |-> Decrypted(p)]

-----------------------------------------------------------------------------
TypeOK ==
  /\ hdr \in Sizes \cup {NoHeader}
  /\ len \in Sizes
  /\ frag \in 0 .. ChunkHeaderSize
  /\ ct \in [Pos -> Byte \cup {NoByte}]
  /\ bad \in SUBSET Sizes
  /\ mode \in {"closed", "r", "rw"}
  /\ mFileSize \in Sizes
  /\ pc \in {"idle", "ftruncate", "writeHeader"}
  /\ target \in Sizes
  /\ faults \in 0 .. MaxFaults
  /\ torn \in BOOLEAN
  /\ may \in [Pos -> SUBSET Byte]

Undamaged == faults = 0 /\ ~torn
Quiet == mode # "closed" /\ pc = "idle"

\* Whatever failed before, a read returns an error or bytes that were written
\* there: a torn write, a crash or a recovery never makes read() (l. 574) return
\* a byte nobody stored at that position.
ReadsWhatWasWritten ==
  Quiet => \A off \in Pos, n \in 1 .. MaxSize :
    ~ReadFails(off, n) => \A p \in DOMAIN Read(off, n) : Read(off, n)[p] \in may[p]

\* Without damage every read of a writable handle succeeds and returns all there
\* is up to the size the handle reports, also after crashes between the physical steps of write()
\* and after recoveries.
ReadsComplete ==
  Quiet /\ mode = "rw" /\ Undamaged => \A off \in Pos, n \in 1 .. MaxSize :
    /\ ~ReadFails(off, n)
    /\ DOMAIN Read(off, n) = off .. (Min(off + n, mFileSize) - 1)

\* Without damage a writable handle knows the size of what is stored, whatever
\* threw before (write() l. 626, truncate() l. 731, and the constructor).
SizeKnown ==
  mode = "rw" /\ pc # "ftruncate" /\ Undamaged => mFileSize = len

\* An undamaged file can be opened, whichever physical step was the last one
\* before a crash, except when the header is out of date and the plain text
\* fills its last chunk: then the full check (l. 219) starts one chunk too far.
Reopens ==
  mode = "closed" /\ Undamaged /\ hdr # NoHeader =>
    \/ OpensAsIs
    \/ OpensRecovered
    \/ ~HeaderMatches /\ len % mChunkSize = 0

\* The abstract file: what is stored, and, once the last chunk
\* has been rewritten for a truncation, what will be left of it.
ContentEnd == IF pc = "ftruncate" /\ target % mChunkSize # 0 THEN target ELSE len

Content == [p \in Pos |-> IF p < ContentEnd THEN ct[p] ELSE NoByte]

Plain == INSTANCE PlainFile WITH content <- Content, reliable <- Undamaged

\* The encrypted file implements an atomic array of bytes: write() and truncate()
\* of vfs_encrypted.cc, their chunk arithmetic, the recovery and every crash
\* in between are steps of PlainFile.
ImplementsPlainFile == Plain!Spec

-----------------------------------------------------------------------------
(* The inductive invariant behind the theorems of VfsEncryptionProofs.     *)

\* True in every state.
LayoutInv ==
  /\ frag > 0 => len % mChunkSize = 0
  /\ hdr = NoHeader => len = 0 /\ frag = 0 /\ mode = "closed"
  /\ mode = "closed" => pc = "idle"
  /\ mode = "rw" => mFileSize <= len
  /\ pc = "ftruncate" => target < mFileSize /\ (target % mChunkSize # 0 => mode = "rw")

\* The chunk a truncation has rewritten and not yet cut.
Rewritten ==
  IF pc = "ftruncate" /\ target % mChunkSize # 0 THEN {getChunkIndex(target)} ELSE {}

\* True as long as nothing has damaged the file.
CleanInv ==
  Undamaged =>
    /\ frag = 0
    /\ bad \subseteq Rewritten
    /\ mode = "rw" => mFileSize = len
    /\ \A p \in Pos : ct[p] # NoByte <=> p < len

\* What decrypts, or will once a running truncation has cut the file, was
\* written there.
AuthenticInv ==
  \A p \in Pos : p < len /\ getChunkIndex(p) \notin bad \ Rewritten => ct[p] \in may[p]

IInv == TypeOK /\ LayoutInv /\ CleanInv /\ AuthenticInv

-----------------------------------------------------------------------------
(* Stated in the repository, not met by the code.                          *)

\* The comment at l. 476 promises "Recovery from failure between write and header
\* update at last write/truncate": after a crash there the file can be opened.
RecoveryOpens ==
  mode = "closed" /\ Undamaged /\ hdr # NoHeader => OpensAsIs \/ OpensRecovered

\* The same promise for truncate: a crash inside it, with no I/O failure, leaves
\* every chunk of the file readable.
TruncateRecovers == mode = "closed" /\ faults = 0 => bad = {}

=============================================================================
