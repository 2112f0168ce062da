----------------------------- MODULE EvfsOpenProofs -----------------------------
(***************************************************************************)
(* Theorems about EvfsOpen, for every set of values and of keys and for    *)
(* files of any size: the file is not torn and what was written survives a *)
(* stop at any step of a migration, a write or a truncation, but for the   *)
(* cases the properties name; a handle writes with the file's key, and an  *)
(* open for reading only leaves the file as it is.                         *)
(***************************************************************************)
EXTENDS EvfsOpen, SequenceTheorems, TLAPS

-----------------------------------------------------------------------------
(* The inductive invariant.                                                *)

Modules == Suites \cup {NoModule}

SomeKeys == Keys \cup {NoKey}

Chunks == [val : Values, suite : Modules, key : SomeKeys]

\* A header is made with a key, but for the dummy suite's.
Headers ==
  {hd \in [suite : Suites, key : SomeKeys, size : Nat] : hd.suite = "dummy" \/ hd.key # NoKey}
    \cup {NoHeader}

Files == [exists : BOOLEAN, hdr : Headers, data : Seq(Chunks)]

Handles == [mode : {"rdonly", "wronly", "rdwr"}, module : Modules, key : SomeKeys,
            size : Nat, check : BOOLEAN, createFile : BOOLEAN, migrate : BOOLEAN]

Places == {"closed", "callback", "tmp", "copy", "header", "remove", "rename", "open",
           "writeHeader", "raised"}

\* The values the variables take: a wrong key is never kept.
TypeOK ==
  /\ file \in Files /\ tmp \in Files
  /\ pc \in Places /\ h \in Handles
  /\ saved \in Seq(Values) /\ left \in Seq(Values)
  /\ unsized \in BOOLEAN /\ mixed \in BOOLEAN

\* A file that has data is there, a file that is not there has neither header nor data, and
\* outside of the renaming the file holds what was saved; only a header is under two keys.
FileInv ==
  /\ ~file.exists => file = NoFile
  /\ file.data # <<>> => file.exists
  /\ pc # "rename" => Values_of(file) = saved
  /\ mixed => file.hdr # NoHeader

\* The header has the size of what is in the file, but while a write or a truncation has
\* not come to it.
SizeInv ==
  file.hdr # NoHeader /\ ~unsized /\ ~Writing => file.hdr.size = Size(file.data)

\* The object that the callback is given tells what is in the file.
CallbackInv ==
  pc = "callback" => file.exists /\ h = Parsed(file, h.mode)

\* Until the original is removed, a migration reads a plain file that has data, and has
\* a handle that may write, and a module.
MigrationInv ==
  pc \in {"tmp", "copy", "header", "remove"} =>
    /\ h.mode # "rdonly" /\ h.module \in Suites
    /\ file.hdr = NoHeader /\ h.size = Size(file.data) /\ file.data # <<>>

\* The first n chunks of the temporary file are those of the original, encrypted.
Copied(n) ==
  /\ tmp.exists /\ Len(tmp.data) = n
  /\ \A i \in 1 .. n : tmp.data[i] = Chunk(file.data[i].val, h)

CopyInv ==
  /\ pc = "copy" => tmp.hdr = NoHeader /\ 2 * Len(tmp.data) < h.size /\ Copied(Len(tmp.data))
  /\ pc = "header" => tmp.hdr = NoHeader /\ HasKey(h) /\ Copied(Len(file.data))
  /\ pc = "remove" => tmp.hdr = Header(h) /\ Copied(Len(file.data))

\* The temporary file holds the values, complete.
TmpHolds(values) ==
  /\ tmp.exists /\ tmp.hdr # NoHeader /\ tmp.hdr.size = Size(tmp.data)
  /\ Whole(tmp) /\ Values_of(tmp) = values

\* Between the removal and the renaming only the temporary file holds what was saved.
RenameInv ==
  pc = "rename" =>
    /\ h.mode # "rdonly" /\ h.module \in Suites
    /\ file = NoFile /\ tmp.hdr = Header(h) /\ TmpHolds(saved)

\* After a stop there it holds that until the next migration starts.
LeftInv ==
  left # <<>> => pc \notin {"copy", "header", "remove", "rename"} /\ TmpHolds(left)

\* An open handle has a module when the file has a header, and then the header's suite; it
\* has the header's key unless the file is empty or its header is still to be written.
OpenInv ==
  pc \in {"open", "writeHeader"} =>
    /\ file.exists
    /\ h.module = NoModule <=> file.hdr = NoHeader
    /\ h.module # NoModule => file.hdr.suite = h.module
    /\ pc = "open" /\ h.module # NoModule /\ file.data # <<>> => file.hdr.key = h.key
    /\ pc = "writeHeader" => /\ h.module # NoModule /\ h.size = Size(file.data)
                             /\ h.mode # "rdonly"

IInv ==
  /\ TypeOK /\ FileInv /\ NeverTorn /\ SizeInv
  /\ CallbackInv /\ MigrationInv /\ CopyInv /\ RenameInv /\ LeftInv /\ OpenInv

-----------------------------------------------------------------------------
(* Facts about the operators.                                              *)

\* Headers, suites and modules are told apart.
LEMMA Distinct ==
  /\ NoModule \notin Suites /\ "plain" \notin Suites /\ "plain" # NoModule
  /\ \A o : /\ Header(o).suite = o.module /\ Header(o).key = o.key
            /\ Header(o).size = o.size
  /\ \A o : o.module \in Suites => Header(o) # NoHeader
  /\ \A f \in Files :
       f.hdr # NoHeader => /\ f.hdr.suite \in Suites /\ f.hdr.key \in SomeKeys
                           /\ f.hdr.size \in Nat
                           /\ f.hdr.suite = "dummy" \/ f.hdr.key # NoKey
  BY DEF NoModule, Suites, Header, NoHeader, Files, Headers

\* The header that a handle with a key makes.
LEMMA HeaderType ==
  ASSUME NEW o \in Handles, o.module \in Suites, HasKey(o)
  PROVE  Header(o) \in Headers
  BY DEF Header, Headers, HasKey, Handles

\* The values of a file, one per chunk.
LEMMA ValuesType ==
  ASSUME NEW f \in Files
  PROVE  /\ Values_of(f) \in Seq(Values) /\ Len(Values_of(f)) = Len(f.data)
         /\ \A i \in 1 .. Len(f.data) : Values_of(f)[i] = f.data[i].val
         /\ f.data = <<>> <=> Len(f.data) = 0
         /\ Values_of(f) = <<>> <=> f.data = <<>>
<1>1. f.data \in Seq(Chunks) /\ DOMAIN f.data = 1 .. Len(f.data)
  BY DEF Files
<1>2. \A i \in 1 .. Len(f.data) : f.data[i].val \in Values
  <2> SUFFICES ASSUME NEW i \in 1 .. Len(f.data) PROVE f.data[i].val \in Values
    OBVIOUS
  <2>1. f.data[i] \in Chunks
    BY <1>1, ElementOfSeq
  <2> QED
    BY <2>1 DEF Chunks
<1>3. Values_of(f) = [i \in 1 .. Len(f.data) |-> f.data[i].val]
  BY <1>1 DEF Values_of
<1>4. Len(f.data) \in Nat
  BY <1>1
<1> QED
  BY <1>1, <1>2, <1>3, <1>4

\* The size of a file is twice the number of its chunks, or one less.
LEMMA SizeType ==
  ASSUME NEW f \in Files
  PROVE  /\ Size(f.data) \in Nat /\ Len(f.data) \in Nat
         /\ Size(f.data) = 0 <=> f.data = <<>>
         /\ Size(f.data) <= 2 * Len(f.data) /\ 2 * Len(f.data) <= Size(f.data) + 1
         /\ EndsShort(f.data) => Size(f.data) = 2 * Len(f.data) - 1
<1>1. Len(f.data) \in Nat /\ (f.data = <<>> <=> Len(f.data) = 0)
  BY ValuesType DEF Files
<1>2. EndsShort(f.data) => f.data # <<>>
  BY DEF EndsShort
<1>3. /\ EndsShort(f.data) => Size(f.data) = 2 * Len(f.data) - 1
      /\ ~EndsShort(f.data) => Size(f.data) = 2 * Len(f.data)
  BY DEF Size
<1> QED
  BY <1>1, <1>2, <1>3

\* It depends on the values only.
LEMMA SizeOfValues ==
  ASSUME NEW f \in Files, NEW g \in Files, Values_of(f) = Values_of(g)
  PROVE  Size(f.data) = Size(g.data) /\ (EndsShort(f.data) <=> EndsShort(g.data))
<1>1. Len(f.data) = Len(g.data) /\ (f.data = <<>> <=> g.data = <<>>)
  BY ValuesType
<1>2. ASSUME f.data # <<>> PROVE f.data[Len(f.data)].val = g.data[Len(f.data)].val
  <2>1. Len(f.data) \in 1 .. Len(f.data)
    BY <1>2, SizeType, ValuesType
  <2> QED
    BY <1>1, <2>1, ValuesType
<1>3. EndsShort(f.data) <=> EndsShort(g.data)
  BY <1>1, <1>2 DEF EndsShort
<1> QED
  BY <1>1, <1>3 DEF Size

\* The files there are at the start.
LEMMA NoFileFacts ==
  /\ NoFile \in Files /\ EmptyFile \in Files
  /\ NoFile.data = <<>> /\ EmptyFile.data = <<>>
  /\ NoFile.hdr = NoHeader /\ EmptyFile.hdr = NoHeader
  /\ ~NoFile.exists /\ EmptyFile.exists
  /\ Whole(NoFile) /\ Whole(EmptyFile)
  /\ Values_of(NoFile) = <<>> /\ Values_of(EmptyFile) = <<>>
<1>1. <<>> \in Seq(Chunks) /\ DOMAIN <<>> = {}
  OBVIOUS
<1>2. NoHeader \in Headers
  BY DEF Headers
<1>3. NoFile \in Files
  BY <1>1, <1>2 DEF NoFile, Files
<1>4. /\ NoFile.data = <<>> /\ NoFile.hdr = NoHeader /\ ~NoFile.exists
  BY DEF NoFile
<1>5. EmptyFile \in Files
  BY <1>3 DEF EmptyFile, Files
<1>6. EmptyFile.data = <<>> /\ EmptyFile.hdr = NoHeader /\ EmptyFile.exists
  BY <1>3, <1>4 DEF EmptyFile, Files
<1>7. Values_of(NoFile) = <<>> /\ Values_of(EmptyFile) = <<>>
  BY <1>3, <1>4, <1>5, <1>6, ValuesType
<1> QED
  BY <1>1, <1>3, <1>4, <1>5, <1>6, <1>7 DEF Whole

LEMMA NoHandleType == NoHandle \in Handles /\ NoHandle.module = NoModule
  BY DEF NoHandle, Handles, Modules, SomeKeys, NoModule

\* A chunk that a handle makes.
LEMMA ChunkType ==
  ASSUME NEW v \in Values, NEW o \in Handles
  PROVE  /\ Chunk(v, o) \in Chunks
         /\ Chunk(v, o).val = v /\ Chunk(v, o).suite = o.module /\ Chunk(v, o).key = o.key
  BY DEF Chunk, Chunks, Handles

\* The object that parseHeader makes of a file.
LEMMA ParsedType ==
  ASSUME NEW f \in Files, NEW mode \in {"rdonly", "wronly", "rdwr"}
  PROVE  /\ Parsed(f, mode) \in Handles
         /\ Parsed(f, mode).mode = mode /\ Parsed(f, mode).key = NoKey
         /\ Parsed(f, mode).module = parseHeader(f)
         /\ Parsed(f, mode).size = Size(f.data) /\ ~Parsed(f, mode).migrate
         /\ Parsed(f, mode).createFile <=> f.hdr = NoHeader /\ f.data = <<>>
         /\ Parsed(f, mode).check <=> f.hdr # NoHeader /\ f.hdr.size # Size(f.data)
<1>1. Size(f.data) \in Nat /\ parseHeader(f) \in Modules
  BY SizeType, Distinct DEF parseHeader, Modules
<1> QED
  BY <1>1 DEF Parsed, Handles, SomeKeys

\* A whole file opens with its key when its header has its size, and when its last chunk is
\* partial: the full check then passes, which every other size that is wrong fails.
LEMMA WholeOpens ==
  ASSUME NEW f \in Files, Whole(f),
         f.hdr = NoHeader \/ f.hdr.size = Size(f.data) \/ EndsShort(f.data)
  PROVE  Openable(f)
<1> DEFINE p == Parsed(f, "rdwr")
           o == [p EXCEPT !.key = f.hdr.key]
<1>1. /\ p \in Handles /\ p.mode = "rdwr" /\ p.module = parseHeader(f)
      /\ p.size = Size(f.data)
      /\ p.createFile <=> f.hdr = NoHeader /\ f.data = <<>>
      /\ p.check <=> f.hdr # NoHeader /\ f.hdr.size # Size(f.data)
  BY ParsedType
<1> HIDE DEF p
<1>2. /\ o.mode = "rdwr" /\ o.module = parseHeader(f) /\ o.size = Size(f.data)
      /\ o.check <=> f.hdr # NoHeader /\ f.hdr.size # Size(f.data)
      /\ o.key = f.hdr.key
  BY <1>1 DEF Handles
<1>3. SUFFICES Opens(o, f)
  BY DEF Openable, p
<1> HIDE DEF o
<1>4. CASE f.hdr = NoHeader
  BY <1>2, <1>4 DEF Opens, parseHeader
<1>5. CASE f.hdr # NoHeader
  <2>1. /\ o.module = f.hdr.suite /\ o.module \in Suites
        /\ o.module = "dummy" \/ o.key # NoKey
    BY <1>2, <1>5, Distinct DEF parseHeader
  <2>2. checkIntegrity(o, f) /\ HasKey(o)
    BY <1>2, <2>1 DEF checkIntegrity, DummyTagMatches, AesTagMatches, HasKey
  <2>3. ASSUME o.check PROVE FullCheck(o, f)
    <3>1. Size(f.data) = 2 * Len(f.data) - 1 /\ Len(f.data) \in Nat
      BY <1>2, <1>5, <2>3, SizeType
    <3>2. SUFFICES ASSUME NEW i \in 2 .. (o.size \div 2 + 1)
                   PROVE  i <= Len(f.data) /\ f.data[i].suite = o.module /\ f.data[i].key = o.key
      BY DEF FullCheck
    <3>3. i \in 1 .. Len(f.data)
      <4>1. ASSUME NEW n \in Nat PROVE (2 * n - 1) \div 2 + 1 = n
        OBVIOUS
      <4>2. o.size = 2 * Len(f.data) - 1
        BY <1>2, <3>1
      <4>3. i \in 2 .. Len(f.data)
        BY <3>1, <4>1, <4>2
      <4> QED
        BY <3>1, <4>3
    <3>4. DOMAIN f.data = 1 .. Len(f.data)
      BY DEF Files
    <3>5. f.data[i].suite = f.hdr.suite /\ f.data[i].key = f.hdr.key
      BY <1>5, <3>3, <3>4 DEF Whole
    <3>6. i <= Len(f.data)
      BY <3>3
    <3> QED
      BY <1>2, <2>1, <3>5, <3>6
  <2> QED
    BY <1>2, <2>2, <2>3 DEF Opens
<1> QED
  BY <1>4, <1>5

-----------------------------------------------------------------------------
(* The steps.                                                              *)

LEMMA OpenInit == Init => IInv
<1> SUFFICES ASSUME Init PROVE IInv
  OBVIOUS
<1>1. TypeOK
  <2>1. <<>> \in Seq(Values)
    OBVIOUS
  <2> QED
    BY <2>1, NoFileFacts, NoHandleType DEF Init, TypeOK, Places
<1>2. FileInv /\ NeverTorn /\ SizeInv
  BY NoFileFacts DEF Init, FileInv, NeverTorn, SizeInv, Rekeying, Writing
<1> QED
  BY <1>1, <1>2
  DEF Init, IInv, CallbackInv, MigrationInv, CopyInv, RenameInv, LeftInv, OpenInv

\* The object and the place are in no file: NeverTorn and SizeInv only ask whether a write
\* or a truncation is on its way.
LEMMA NotWriting ==
  ASSUME IInv, ~Writing, ~Writing', UNCHANGED <<file, unsized, mixed>>
  PROVE  NeverTorn' /\ SizeInv'
  BY DEF IInv, NeverTorn, SizeInv, Rekeying, Whole

\* What is left stays, when the temporary file does and no migration starts.
LEMMA LeftStays ==
  ASSUME IInv, UNCHANGED <<tmp, left>>, pc' \notin {"copy", "header", "remove", "rename"}
  PROVE  LeftInv'
  BY DEF IInv, LeftInv, TmpHolds, Whole, Values_of

\* A call that ends with an exception, and a close, leave the files as they are.
LEMMA ThrowInv ==
  ASSUME IInv, Throw, pc \in {"callback", "copy", "header", "open"}
  PROVE  IInv'
<1>1. pc' = "closed" /\ h' = NoHandle /\ UNCHANGED <<file, tmp, saved, left, unsized, mixed>>
  BY DEF Throw, Stop, history
<1>2. TypeOK' /\ FileInv'
  BY <1>1, NoHandleType DEF IInv, TypeOK, FileInv, Places, Values_of
<1>3. NeverTorn' /\ SizeInv'
  BY <1>1, NotWriting DEF Writing
<1>4. LeftInv'
  BY <1>1, LeftStays
<1> QED
  BY <1>1, <1>2, <1>3, <1>4
  DEF IInv, CallbackInv, MigrationInv, CopyInv, RenameInv, OpenInv

\* The process stops: what only the temporary file holds is left there, a header that is not
\* written is noted.
LEMMA CrashInv ==
  ASSUME IInv, Crash
  PROVE  IInv'
<1>1. pc # "closed" /\ pc' = "closed" /\ h' = NoHandle /\ UNCHANGED <<file, tmp>>
  BY DEF Crash, Stop
<1>2. /\ saved' \in Seq(Values) /\ left' \in Seq(Values)
      /\ Values_of(file) = saved'
      /\ left' # <<>> => TmpHolds(left')
  <2>1. CASE pc = "rename"
    BY <2>1, NoFileFacts DEF Crash, IInv, TypeOK, RenameInv
  <2>2. CASE pc # "rename"
    BY <2>2 DEF Crash, IInv, TypeOK, FileInv, LeftInv
  <2> QED
    BY <2>1, <2>2
<1>3. /\ unsized' \in BOOLEAN /\ mixed' \in BOOLEAN
      /\ ~unsized' => ~unsized
      /\ ~unsized' /\ Writing /\ file.hdr # NoHeader => file.hdr.size = Size(file.data)
      /\ ~mixed' => ~mixed /\ ~Rekeying
      /\ mixed' => mixed \/ Rekeying
  BY DEF Crash, IInv, TypeOK
<1>4. TypeOK'
  BY <1>1, <1>2, <1>3, NoHandleType DEF IInv, TypeOK, Places
<1>5. FileInv'
  BY <1>1, <1>2, <1>3 DEF IInv, FileInv, Values_of, Rekeying
<1>6. NeverTorn'
  BY <1>1, <1>3 DEF IInv, NeverTorn, Rekeying, Writing, Whole
<1>7. SizeInv'
  BY <1>1, <1>3 DEF IInv, SizeInv, Writing
<1>8. LeftInv'
  BY <1>1, <1>2 DEF LeftInv, TmpHolds, Whole, Values_of
<1> QED
  BY <1>1, <1>4, <1>5, <1>6, <1>7, <1>8
  DEF IInv, CallbackInv, MigrationInv, CopyInv, RenameInv, OpenInv

LEMMA bcOpenInv ==
  ASSUME IInv, NEW mode \in {"rdonly", "wronly", "rdwr"}, NEW creat \in BOOLEAN,
         bcOpen(mode, creat)
  PROVE  IInv'
<1>1. /\ file' \in Files /\ file'.exists /\ file'.data = file.data /\ file'.hdr = file.hdr
      /\ file.exists => file' = file
  BY NoFileFacts DEF bcOpen, IInv, TypeOK, FileInv
<1>2. /\ pc = "closed" /\ pc' = "callback" /\ h' = Parsed(file, mode)
      /\ UNCHANGED <<tmp, saved, left, unsized, mixed>>
  BY DEF bcOpen, history
<1>3. Parsed(file, mode) = Parsed(file', mode)
  BY <1>1 DEF Parsed, parseHeader
<1>4. h' \in Handles /\ h'.mode = mode
  BY <1>2, ParsedType DEF IInv, TypeOK
<1>5. TypeOK'
  BY <1>1, <1>2, <1>4 DEF IInv, TypeOK, Places
<1>6. FileInv'
  BY <1>1, <1>2 DEF IInv, FileInv, Values_of
<1>7. NeverTorn' /\ SizeInv'
  BY <1>1, <1>2 DEF IInv, NeverTorn, SizeInv, Rekeying, Writing, Whole
<1>8. CallbackInv'
  BY <1>1, <1>2, <1>3, <1>4 DEF CallbackInv
<1>9. LeftInv'
  BY <1>2, LeftStays
<1> QED
  BY <1>2, <1>5, <1>6, <1>7, <1>8, <1>9
  DEF IInv, MigrationInv, CopyInv, RenameInv, OpenInv

\* What the settings of the callback make of the object: an encrypted file keeps its module,
\* a plain one with data gets one only to be migrated, which takes a handle that may write.
LEMMA Settings ==
  ASSUME NEW o \in Handles, o.size > 0 \/ o.createFile \/ o.module # NoModule, ~o.migrate,
         NEW suite \in Suites \cup {"plain", "keep"},
         NEW key \in Keys \cup {NoKey, BadKey},
         ~(suite # "keep" /\ SuiteThrows(o, suite)),
         NEW o1, o1 = IF suite = "keep" THEN o ELSE encryptionSuiteSet(o, suite),
         ~(key # NoKey /\ SecretThrows(o1, key)),
         NEW o2, o2 = IF key = NoKey THEN o1 ELSE secretMaterialSet(o1, key)
  PROVE  /\ o2 \in Handles
         /\ o2.mode = o.mode /\ o2.size = o.size
         /\ o2.createFile = o.createFile /\ o2.check = o.check
         /\ o.module # NoModule => o2.module = o.module /\ ~o2.migrate
         /\ o2.migrate => o2.module \in Suites /\ o.module = NoModule /\ o.size > 0
                          /\ o.mode # "rdonly"
         /\ o.module = NoModule /\ o.size > 0 /\ ~o2.migrate => o2.module = NoModule
<1>1. /\ o1 \in Handles
      /\ o1.mode = o.mode /\ o1.size = o.size
      /\ o1.createFile = o.createFile /\ o1.check = o.check
      /\ o1.key = o.key
      /\ o.module # NoModule => o1.module = o.module /\ ~o1.migrate
      /\ o1.migrate => o1.module \in Suites /\ o.module = NoModule /\ o.size > 0
                       /\ o.mode # "rdonly"
      /\ o.module = NoModule /\ o.size > 0 /\ ~o1.migrate => o1.module = NoModule
  <2>1. CASE o1 = o
    <3>1. o.module = NoModule /\ o.size > 0 /\ ~o1.migrate => o1.module = NoModule
      BY <2>1
    <3> QED
      BY <2>1, <3>1
  <2>2. CASE /\ suite # "keep" /\ o.module = NoModule /\ o.size = 0
             /\ o1 = [o EXCEPT !.module = IF suite = "plain" THEN NoModule ELSE suite]
    BY <2>2 DEF Handles, Modules
  <2>3. CASE /\ suite \in Suites /\ o.module = NoModule /\ o.size > 0 /\ o.mode # "rdonly"
             /\ o1 = [o EXCEPT !.module = suite, !.migrate = TRUE]
    BY <2>3, Distinct DEF Handles, Modules
  <2>4. o.module # NoModule => encryptionSuiteGet(o) # "plain"
    BY Distinct DEF encryptionSuiteGet, Handles, Modules
  <2>5. suite # "keep" /\ suite # "plain" => suite \in Suites
    OBVIOUS
  <2>6. ~(o.module = NoModule /\ o.size = 0) => o.module # NoModule \/ o.size > 0
    BY DEF Handles
  <2> QED
    BY <2>1, <2>2, <2>3, <2>4, <2>5, <2>6 DEF encryptionSuiteSet
<1>2. o2 = o1 \/ (key \in Keys /\ o2 = [o1 EXCEPT !.key = key])
  BY EvfsOpenAssumption DEF secretMaterialSet, SecretThrows, setModuleSecretMaterial
<1> QED
  BY <1>1, <1>2 DEF Handles, SomeKeys

LEMMA CallbackStep ==
  ASSUME IInv, NEW suite \in Suites \cup {"plain", "keep"},
         NEW key \in Keys \cup {NoKey, BadKey}, Callback(suite, key)
  PROVE  IInv'
<1> DEFINE o1 == IF suite = "keep" THEN h ELSE encryptionSuiteSet(h, suite)
           o2 == IF key = NoKey THEN o1 ELSE secretMaterialSet(o1, key)
           throws == \/ suite # "keep" /\ SuiteThrows(h, suite)
                     \/ key # NoKey /\ SecretThrows(o1, key)
<1>1. /\ pc = "callback" /\ h \in Handles /\ file \in Files /\ file.exists
      /\ h = Parsed(file, h.mode) /\ h.mode \in {"rdonly", "wronly", "rdwr"}
  BY DEF Callback, IInv, TypeOK, CallbackInv, Handles
<1>2. /\ h.module = parseHeader(file) /\ h.size = Size(file.data) /\ ~h.migrate
      /\ h.createFile <=> file.hdr = NoHeader /\ file.data = <<>>
      /\ h.check <=> file.hdr # NoHeader /\ file.hdr.size # Size(file.data)
  BY <1>1, ParsedType
<1>3. /\ h.module = NoModule <=> file.hdr = NoHeader
      /\ file.hdr # NoHeader => h.module = file.hdr.suite
      /\ h.size = 0 <=> file.data = <<>>
      /\ h.size \in Nat /\ h.module \in Modules
  BY <1>1, <1>2, Distinct, SizeType DEF parseHeader, Handles
<1>4. CASE Throw
  BY <1>1, <1>4, ThrowInv
<1>5. ASSUME ~throws
      PROVE  /\ o2 \in Handles
             /\ o2.mode = h.mode /\ o2.size = h.size
             /\ o2.createFile = h.createFile /\ o2.check = h.check
             /\ h.module # NoModule => o2.module = h.module /\ ~o2.migrate
             /\ o2.migrate => o2.module \in Suites /\ h.module = NoModule /\ h.size > 0
                              /\ h.mode # "rdonly"
             /\ h.module = NoModule /\ h.size > 0 /\ ~o2.migrate => o2.module = NoModule
  <2>1. h.size > 0 \/ h.createFile \/ h.module # NoModule
    BY <1>2, <1>3
  <2>2. /\ ~(suite # "keep" /\ SuiteThrows(h, suite))
        /\ ~(key # NoKey /\ SecretThrows(o1, key))
    BY <1>5
  <2>3. /\ o1 = IF suite = "keep" THEN h ELSE encryptionSuiteSet(h, suite)
        /\ o2 = IF key = NoKey THEN o1 ELSE secretMaterialSet(o1, key)
    OBVIOUS
  <2>4. h \in Handles /\ ~h.migrate
    BY <1>1, <1>2
  <2> HIDE DEF o1, o2
  <2> QED
    BY <2>1, <2>2, <2>3, <2>4, Settings
<1>6. CASE /\ ~throws /\ o2.migrate /\ h' = o2 /\ pc' = "tmp"
           /\ UNCHANGED <<file, tmp, history>>
  <2> HIDE DEF o1, o2, throws
  <2>1. UNCHANGED <<file, tmp, saved, left, unsized, mixed>>
    BY <1>6 DEF history
  <2>2. TypeOK' /\ FileInv'
    BY <1>1, <1>5, <1>6, <2>1 DEF IInv, TypeOK, FileInv, Places, Values_of
  <2>3. NeverTorn' /\ SizeInv'
    BY <1>1, <1>6, <2>1, NotWriting DEF Writing
  <2>4. MigrationInv'
    BY <1>2, <1>3, <1>5, <1>6, <2>1 DEF MigrationInv
  <2>5. LeftInv'
    BY <1>6, <2>1, LeftStays
  <2> QED
    BY <1>6, <2>2, <2>3, <2>4, <2>5 DEF IInv, CallbackInv, CopyInv, RenameInv, OpenInv
<1>7. CASE /\ ~throws /\ ~o2.migrate /\ Opens(o2, file)
           /\ h' = o2 /\ pc' = "open"
           /\ IF HeaderAtOpen(o2)
              THEN file' = [file EXCEPT !.hdr = Header(o2)] /\ unsized' = FALSE
              ELSE UNCHANGED <<file, unsized>>
           /\ UNCHANGED <<tmp, saved, left, mixed>>
  <2> HIDE DEF o1, o2, throws
  <2>1. /\ o2 \in Handles /\ o2.module \in Modules /\ o2.size = Size(file.data)
        /\ o2.createFile <=> file.hdr = NoHeader /\ file.data = <<>>
        /\ file.hdr # NoHeader => o2.module = file.hdr.suite
        /\ file.hdr = NoHeader /\ file.data # <<>> => o2.module = NoModule
        /\ o2.size > 0 <=> file.data # <<>>
    BY <1>2, <1>3, <1>5, <1>7 DEF Handles
  <2>2. o2.module # NoModule /\ file.data # <<>> => file.hdr # NoHeader /\ file.hdr.key = o2.key
    BY <1>7, <2>1 DEF Opens, checkIntegrity, DummyTagMatches, AesTagMatches
  <2>3. CASE HeaderAtOpen(o2)
    <3>1. o2.module \in Suites /\ HasKey(o2)
      BY <1>7, <2>1, <2>3 DEF HeaderAtOpen, Opens, Modules
    <3>2. Header(o2) \in Headers /\ Header(o2) # NoHeader
      BY <2>1, <3>1, HeaderType, Distinct
    <3>3. /\ file' \in Files /\ file'.exists /\ file'.data = file.data
          /\ file'.hdr = Header(o2)
      BY <1>1, <1>7, <2>3, <3>2 DEF Files
    <3>4. TypeOK' /\ FileInv'
      BY <1>1, <1>7, <2>1, <2>3, <3>2, <3>3 DEF IInv, TypeOK, FileInv, Places, Values_of
    <3>5. file.data # <<>> => file.hdr # NoHeader /\ Header(o2).suite = file.hdr.suite
                              /\ Header(o2).key = file.hdr.key
      BY <2>1, <2>2, <3>1, Distinct
    <3>6. ~mixed => Whole(file)
      BY <1>1 DEF IInv, NeverTorn, Rekeying, Writing
    <3>7. ~mixed => Whole(file')
      <4>1. CASE file.data = <<>>
        BY <3>3, <4>1 DEF Whole
      <4>2. CASE file.data # <<>>
        BY <3>2, <3>3, <3>5, <3>6, <4>2 DEF Whole
      <4> QED
        BY <4>1, <4>2
    <3>8. NeverTorn'
      BY <1>7, <3>7 DEF NeverTorn, Rekeying, Writing
    <3>9. SizeInv'
      BY <2>1, <3>3, Distinct DEF SizeInv
    <3>10. OpenInv'
      BY <1>7, <3>1, <3>2, <3>3, Distinct DEF OpenInv
    <3>11. LeftInv'
      BY <1>7, LeftStays
    <3> QED
      BY <1>7, <3>4, <3>8, <3>9, <3>10, <3>11
      DEF IInv, CallbackInv, MigrationInv, CopyInv, RenameInv
  <2>4. CASE ~HeaderAtOpen(o2)
    <3>1. UNCHANGED <<file, unsized, tmp, saved, left, mixed>>
      BY <1>7, <2>4
    <3>2. TypeOK' /\ FileInv'
      BY <1>1, <1>7, <2>1, <3>1 DEF IInv, TypeOK, FileInv, Places, Values_of
    <3>3. NeverTorn' /\ SizeInv'
      BY <1>1, <1>7, <3>1, NotWriting DEF Writing
    <3>4. o2.module = NoModule <=> file.hdr = NoHeader
      BY <1>1, <2>1, <2>4, Distinct DEF HeaderAtOpen
    <3>5. OpenInv'
      BY <1>1, <1>7, <2>1, <2>2, <3>1, <3>4 DEF OpenInv
    <3>6. LeftInv'
      BY <1>7, LeftStays
    <3> QED
      BY <1>7, <3>2, <3>3, <3>5, <3>6
      DEF IInv, CallbackInv, MigrationInv, CopyInv, RenameInv
  <2> QED
    BY <2>3, <2>4
<1> QED
  BY <1>4, <1>6, <1>7 DEF Callback

-----------------------------------------------------------------------------
(* The migration.                                                          *)

\* As long as the original is there it holds what was saved, whatever is in the copy.
LEMMA OriginalHolds ==
  ASSUME IInv, pc \in {"tmp", "copy", "header", "remove"}
  PROVE  /\ file \in Files /\ file.exists /\ Whole(file) /\ Values_of(file) = saved
         /\ file.hdr = NoHeader /\ ~mixed
         /\ h \in Handles /\ h.size \in Nat /\ h.size = Size(file.data)
         /\ h.size <= 2 * Len(file.data) /\ 2 * Len(file.data) <= h.size + 1
         /\ Len(file.data) \in Nat /\ h.size > 0
         /\ tmp \in Files /\ Len(tmp.data) \in Nat
<1>1. /\ file \in Files /\ h \in Handles /\ tmp \in Files /\ h.size = Size(file.data)
      /\ file.hdr = NoHeader /\ ~mixed /\ file.data # <<>> /\ file.exists
      /\ Values_of(file) = saved
  BY DEF IInv, TypeOK, FileInv, MigrationInv
<1>2. Whole(file)
  BY <1>1 DEF IInv, NeverTorn, Rekeying
<1> QED
  BY <1>1, <1>2, SizeType DEF Handles

\* A step of the migration that only changes the copy.
LEMMA CopyStep ==
  ASSUME IInv, pc \in {"tmp", "copy", "header"}, tmp' \in Files, left' = <<>>,
         pc' \in {"copy", "header", "remove"}, UNCHANGED <<file, h, saved, unsized, mixed>>,
         CopyInv'
  PROVE  IInv'
<1>1. TypeOK' /\ FileInv'
  BY OriginalHolds DEF IInv, TypeOK, FileInv, Places, Values_of
<1>2. NeverTorn' /\ SizeInv'
  BY NotWriting DEF Writing
<1>3. MigrationInv'
  BY DEF IInv, MigrationInv
<1>4. LeftInv'
  BY DEF LeftInv
<1> QED
  BY <1>1, <1>2, <1>3, <1>4 DEF IInv, CallbackInv, RenameInv, OpenInv

LEMMA CreateTmpInv == IInv /\ CreateTmp => IInv'
<1> SUFFICES ASSUME IInv, CreateTmp PROVE IInv'
  OBVIOUS
<1>1. /\ pc = "tmp" /\ pc' = "copy" /\ tmp' = EmptyFile /\ left' = <<>>
      /\ UNCHANGED <<file, h, saved, unsized, mixed>>
  BY DEF CreateTmp
<1>2. h'.size > 0
  BY <1>1, OriginalHolds
<1>3. tmp' \in Files /\ tmp'.exists /\ tmp'.hdr = NoHeader /\ Len(tmp'.data) = 0
  BY <1>1, NoFileFacts
<1>4. CopyInv'
  BY <1>1, <1>2, <1>3 DEF CopyInv, Copied
<1> QED
  BY <1>1, <1>3, <1>4, CopyStep

\* The copy grows by the chunk behind its last one.
LEMMA CopyChunkInv == IInv /\ CopyChunk => IInv'
<1> SUFFICES ASSUME IInv, CopyChunk PROVE IInv'
  OBVIOUS
<1> PICK n \in Nat : n = Len(tmp.data) + 1
  BY OriginalHolds DEF CopyChunk
<1> DEFINE c == Chunk(file.data[n].val, h)
<1>1. /\ pc = "copy" /\ HasKey(h)
      /\ tmp' = [tmp EXCEPT !.data = Append(@, c)]
      /\ pc' = (IF 2 * n < h.size THEN "copy" ELSE "header")
      /\ UNCHANGED <<file, h, saved, left, unsized, mixed>>
  BY DEF CopyChunk, history
<1>2. /\ tmp.hdr = NoHeader /\ Copied(n - 1) /\ tmp \in Files
      /\ n \in 1 .. Len(file.data)
      /\ 2 * n < h.size \/ n = Len(file.data)
  <2>1. 2 * (n - 1) < h.size /\ n \in Nat /\ n >= 1 /\ tmp.hdr = NoHeader /\ Copied(n - 1)
    BY <1>1, OriginalHolds DEF IInv, CopyInv
  <2> QED
    BY <1>1, <2>1, OriginalHolds
<1>3. c \in Chunks
  <2>1. file.data[n] \in Chunks
    BY <1>1, <1>2, OriginalHolds, ElementOfSeq DEF Files
  <2> QED
    BY <2>1, OriginalHolds, <1>1, ChunkType DEF Chunks
<1> HIDE DEF c
<1>4. /\ tmp' \in Files /\ tmp'.exists = tmp.exists /\ tmp'.hdr = NoHeader
      /\ tmp'.data = Append(tmp.data, c)
  <2>1. tmp.data \in Seq(Chunks) /\ Append(tmp.data, c) \in Seq(Chunks)
    BY <1>2, <1>3 DEF Files
  <2> QED
    BY <1>1, <1>2, <2>1 DEF Files
<1>5. /\ Len(tmp'.data) = n
      /\ \A i \in 1 .. n : tmp'.data[i] = IF i = n THEN c ELSE tmp.data[i]
  BY <1>2, <1>3, <1>4 DEF Files
<1>6. Copied(n)'
  <2>1. tmp'.exists
    BY <1>2, <1>4 DEF Copied
  <2>2. ASSUME NEW i \in 1 .. n PROVE tmp'.data[i] = Chunk(file'.data[i].val, h')
    BY <1>1, <1>2, <1>5 DEF Copied, c
  <2> QED
    BY <1>5, <2>1, <2>2 DEF Copied
<1>7. CopyInv'
  <2>1. HasKey(h') /\ file' = file /\ h' = h
    BY <1>1
  <2>2. CASE 2 * n < h.size
    BY <1>1, <1>4, <1>5, <1>6, <2>1, <2>2 DEF CopyInv
  <2>3. CASE ~(2 * n < h.size)
    BY <1>1, <1>2, <1>4, <1>6, <2>1, <2>3 DEF CopyInv
  <2> QED
    BY <2>2, <2>3
<1>8. left' = <<>>
  BY <1>1 DEF IInv, LeftInv
<1> QED
  BY <1>1, <1>4, <1>7, <1>8, CopyStep

LEMMA WriteTmpHeaderInv == IInv /\ WriteTmpHeader => IInv'
<1> SUFFICES ASSUME IInv, WriteTmpHeader PROVE IInv'
  OBVIOUS
<1>1. /\ pc = "header" /\ pc' = "remove" /\ tmp' = [tmp EXCEPT !.hdr = Header(h)]
      /\ UNCHANGED <<file, h, saved, left, unsized, mixed>>
  BY DEF WriteTmpHeader, history
<1>2. Header(h) \in Headers
  BY <1>1, HeaderType DEF IInv, MigrationInv, CopyInv, TypeOK
<1>3. /\ tmp' \in Files /\ tmp'.exists = tmp.exists /\ tmp'.hdr = Header(h)
      /\ tmp'.data = tmp.data
  BY <1>1, <1>2 DEF IInv, TypeOK, Files
<1>4. CopyInv'
  BY <1>1, <1>3 DEF IInv, CopyInv, Copied, Header, Chunk
<1>5. left' = <<>>
  BY <1>1 DEF IInv, LeftInv
<1> QED
  BY <1>1, <1>3, <1>4, <1>5, CopyStep

\* The complete copy holds what the original holds, under its own size.
LEMMA CopyHolds ==
  ASSUME IInv, pc = "remove"
  PROVE  tmp.hdr = Header(h) /\ TmpHolds(saved)
<1>1. /\ tmp \in Files /\ file \in Files /\ tmp.exists /\ tmp.hdr = Header(h)
      /\ Len(tmp.data) = Len(file.data)
      /\ \A i \in 1 .. Len(file.data) : tmp.data[i] = Chunk(file.data[i].val, h)
      /\ Values_of(file) = saved /\ tmp.hdr # NoHeader
      /\ h.size = Size(file.data)
  BY OriginalHolds, Distinct DEF IInv, CopyInv, Copied, MigrationInv
<1>2. DOMAIN tmp.data = 1 .. Len(file.data) /\ DOMAIN file.data = 1 .. Len(file.data)
  BY <1>1 DEF Files
<1>3. ASSUME NEW i \in 1 .. Len(file.data)
      PROVE  /\ tmp.data[i].val = file.data[i].val
             /\ tmp.data[i].suite = h.module /\ tmp.data[i].key = h.key
  <2>1. tmp.data[i] = Chunk(file.data[i].val, h)
    BY <1>1
  <2> QED
    BY <2>1 DEF Chunk
<1>4. Whole(tmp)
  BY <1>1, <1>2, <1>3, Distinct DEF Whole
<1>5. Values_of(tmp) = Values_of(file)
  BY <1>2, <1>3 DEF Values_of
<1>6. tmp.hdr.size = Size(tmp.data)
  BY <1>1, <1>5, SizeOfValues, Distinct
<1> QED
  BY <1>1, <1>4, <1>5, <1>6 DEF TmpHolds

LEMMA RemoveOriginalInv == IInv /\ RemoveOriginal => IInv'
<1> SUFFICES ASSUME IInv, RemoveOriginal PROVE IInv'
  OBVIOUS
<1>1. /\ pc = "remove" /\ pc' = "rename" /\ file' = NoFile
      /\ UNCHANGED <<tmp, h, saved, left, unsized, mixed>>
  BY DEF RemoveOriginal, history
<1>2. RenameInv'
  BY <1>1, CopyHolds DEF IInv, RenameInv, MigrationInv, TmpHolds, Whole, Values_of
<1>3. TypeOK' /\ FileInv'
  BY <1>1, OriginalHolds, NoFileFacts DEF IInv, TypeOK, FileInv, Places
<1>4. NeverTorn' /\ SizeInv'
  BY <1>1, NoFileFacts DEF NeverTorn, SizeInv, Rekeying
<1>5. LeftInv'
  BY <1>1 DEF IInv, LeftInv
<1> QED
  BY <1>1, <1>2, <1>3, <1>4, <1>5 DEF IInv, CallbackInv, MigrationInv, CopyInv, OpenInv

LEMMA RenameTmpInv == IInv /\ RenameTmp => IInv'
<1> SUFFICES ASSUME IInv, RenameTmp PROVE IInv'
  OBVIOUS
<1>1. /\ pc = "rename" /\ pc' = "open" /\ file' = tmp /\ tmp' = NoFile
      /\ h' = [h EXCEPT !.migrate = FALSE]
      /\ UNCHANGED <<saved, left, unsized, mixed>>
  BY DEF RenameTmp, history
<1>2. /\ h' \in Handles /\ h'.module = h.module /\ h'.key = h.key /\ h'.size = h.size
  BY <1>1 DEF IInv, TypeOK, Handles
<1>3. /\ tmp.hdr = Header(h) /\ TmpHolds(saved) /\ h.module \in Suites
  BY <1>1 DEF IInv, RenameInv
<1>4. /\ file'.exists /\ file'.hdr = Header(h) /\ file'.hdr # NoHeader
      /\ file'.hdr.size = Size(file'.data)
      /\ Whole(file') /\ Values_of(file') = saved'
  BY <1>1, <1>3 DEF TmpHolds
<1>5. TypeOK'
  BY <1>1, <1>2, NoFileFacts DEF IInv, TypeOK, Places
<1>6. FileInv'
  BY <1>1, <1>4 DEF FileInv, Values_of
<1>7. NeverTorn' /\ SizeInv'
  BY <1>1, <1>4 DEF NeverTorn, SizeInv, Rekeying, Writing, Whole
<1>8. OpenInv'
  BY <1>1, <1>2, <1>3, <1>4, Distinct DEF OpenInv
<1>9. LeftInv'
  BY <1>1 DEF IInv, LeftInv
<1> QED
  BY <1>1, <1>5, <1>6, <1>7, <1>8, <1>9
  DEF IInv, CallbackInv, MigrationInv, CopyInv, RenameInv

-----------------------------------------------------------------------------
(* The open file.                                                          *)

\* The chunks of a file that is open or being written are those the handle makes, unless
\* it was under two keys before.
LEMMA OpenChunks ==
  ASSUME IInv, pc \in {"open", "writeHeader"}, ~mixed
  PROVE  \A i \in 1 .. Len(file.data) :
            /\ file.data[i].suite = h.module
            /\ h.module # NoModule => file.data[i].key = h.key
<1>1. DOMAIN file.data = 1 .. Len(file.data) /\ file \in Files
  BY DEF IInv, TypeOK, Files
<1>2. CASE Rekeying
  BY <1>1, <1>2 DEF IInv, NeverTorn
<1>3. CASE ~Rekeying
  <2>1. Whole(file)
    BY <1>3 DEF IInv, NeverTorn
  <2> SUFFICES ASSUME NEW i \in 1 .. Len(file.data)
               PROVE  /\ file.data[i].suite = h.module
                      /\ h.module # NoModule => file.data[i].key = h.key
    OBVIOUS
  <2>2. file.data # <<>>
    BY <1>1, ValuesType
  <2>3. /\ h.module = NoModule <=> file.hdr = NoHeader
        /\ h.module # NoModule => file.hdr.suite = h.module
    BY DEF IInv, OpenInv
  <2>4. h.module # NoModule => file.hdr.key = h.key
    <3>1. CASE pc = "open"
      BY <2>2, <3>1 DEF IInv, OpenInv
    <3>2. CASE pc = "writeHeader"
      BY <1>3, <2>2, <2>3, <3>2 DEF Rekeying, Writing
    <3> QED
      BY <3>1, <3>2
  <2> QED
    BY <1>1, <2>1, <2>3, <2>4 DEF Whole
<1> QED
  BY <1>2, <1>3

LEMMA SizeOfChunks ==
  ASSUME NEW d \in Seq(Chunks)
  PROVE  Size(d) \in Nat
<1>1. Len(d) \in Nat /\ (d # <<>> => Len(d) > 0)
  OBVIOUS
<1> QED
  BY <1>1 DEF Size, EndsShort

\* A change of the chunks of the open file: a plain one stays plain, an encrypted one is
\* without its header then.
LEMMA ChunksStep ==
  ASSUME IInv, pc = "open", h.mode # "rdonly", NEW d \in Seq(Chunks),
         file' = [file EXCEPT !.data = d],
         IF h.module = NoModule THEN UNCHANGED <<pc, h>>
         ELSE pc' = "writeHeader" /\ h' = [h EXCEPT !.size = Size(d)],
         saved' = Values_of(file'), UNCHANGED <<tmp, left, unsized, mixed>>,
         ~mixed => \A i \in 1 .. Len(d) : /\ d[i].suite = h.module
                                          /\ h.module # NoModule => d[i].key = h.key
  PROVE  IInv'
<1>1. /\ file \in Files /\ h \in Handles /\ file.exists
      /\ h.module = NoModule <=> file.hdr = NoHeader
      /\ h.module # NoModule => file.hdr.suite = h.module
      /\ Size(d) \in Nat
  BY SizeOfChunks DEF IInv, TypeOK, OpenInv
<1>2. /\ file' \in Files /\ file'.exists /\ file'.data = d /\ file'.hdr = file.hdr
      /\ DOMAIN d = 1 .. Len(d)
  BY <1>1 DEF Files
<1>3. /\ h' \in Handles /\ h'.module = h.module /\ h'.key = h.key
      /\ h'.mode = h.mode
      /\ h.module # NoModule => h'.size = Size(file'.data) /\ pc' = "writeHeader"
      /\ h.module = NoModule => pc' = "open"
  BY <1>1, <1>2 DEF Handles
<1>4. TypeOK'
  BY <1>2, <1>3, ValuesType DEF IInv, TypeOK, Places
<1>5. FileInv'
  BY <1>2 DEF IInv, FileInv, Values_of
<1>6. NeverTorn'
  <2> SUFFICES ASSUME ~mixed
               PROVE  IF Rekeying'
                      THEN \A i \in DOMAIN d : d[i].suite = h'.module /\ d[i].key = h'.key
                      ELSE Whole(file')
    BY <1>2 DEF NeverTorn, Whole
  <2>1. \A i \in DOMAIN d : /\ d[i].suite = h.module
                            /\ h.module # NoModule => d[i].key = h.key
    BY <1>2
  <2>2. CASE Rekeying'
    BY <1>1, <1>2, <1>3, <2>1, <2>2 DEF Rekeying
  <2>3. ASSUME ~Rekeying' PROVE Whole(file')
    <3>1. ASSUME h.module # NoModule PROVE d = <<>> \/ file.hdr.key = h.key
      BY <1>1, <1>2, <1>3, <2>3, <3>1 DEF Rekeying, Writing
    <3>2. ASSUME NEW i \in DOMAIN d
          PROVE  IF file.hdr = NoHeader THEN d[i].suite = NoModule
                 ELSE d[i].suite = file.hdr.suite /\ d[i].key = file.hdr.key
      <4>1. d # <<>>
        BY <3>2
      <4> QED
        BY <1>1, <2>1, <3>1, <3>2, <4>1
    <3> QED
      BY <1>2, <3>2 DEF Whole
  <2> QED
    BY <2>2, <2>3
<1>7. SizeInv'
  BY <1>1, <1>2, <1>3 DEF SizeInv, Writing
<1>8. OpenInv'
  BY <1>1, <1>2, <1>3 DEF OpenInv
<1>9. pc' \in {"open", "writeHeader"}
  BY <1>3
<1>10. LeftInv'
  BY <1>9, LeftStays
<1> QED
  BY <1>4, <1>5, <1>6, <1>7, <1>8, <1>9, <1>10
  DEF IInv, CallbackInv, MigrationInv, CopyInv, RenameInv

LEMMA WriteChunkInv ==
  ASSUME IInv, NEW i \in 1 .. MaxChunks, NEW v \in Values, WriteChunk(i, v)
  PROVE  IInv'
<1> DEFINE c == Chunk(v, h)
           d == Put(file.data, i, c)
<1>1. /\ file \in Files /\ h \in Handles
      /\ file.data \in Seq(Chunks) /\ Len(file.data) \in Nat /\ i \in Nat \ {0}
      /\ pc = "open" /\ h.mode # "rdonly" /\ i <= Len(file.data) + 1
      /\ file' = [file EXCEPT !.data = d] /\ saved' = Values_of(file')
      /\ IF h.module = NoModule THEN UNCHANGED <<pc, h>>
         ELSE pc' = "writeHeader" /\ h' = [h EXCEPT !.size = Size(d)]
      /\ UNCHANGED <<tmp, left, unsized, mixed>>
  BY EvfsOpenAssumption DEF WriteChunk, Fits, IInv, TypeOK, Files
<1>2. c \in Chunks /\ c.suite = h.module /\ c.key = h.key
  BY <1>1, ChunkType
<1> HIDE DEF c
<1>3. /\ d \in Seq(Chunks) /\ Len(d) \in Nat
      /\ \A j \in 1 .. Len(d) : d[j] = c \/ (j \in 1 .. Len(file.data) /\ d[j] = file.data[j])
  BY <1>1, <1>2 DEF Put
<1> HIDE DEF d
<1>4. ~mixed => \A j \in 1 .. Len(d) : /\ d[j].suite = h.module
                                       /\ h.module # NoModule => d[j].key = h.key
  BY <1>1, <1>2, <1>3, OpenChunks
<1> QED
  BY <1>1, <1>3, <1>4, ChunksStep

LEMMA TruncateInv ==
  ASSUME IInv, NEW n \in 0 .. (MaxChunks - 1), Truncate(n)
  PROVE  IInv'
<1> DEFINE d == SubSeq(file.data, 1, n)
<1>1. /\ file \in Files /\ h \in Handles
      /\ file.data \in Seq(Chunks) /\ Len(file.data) \in Nat /\ n \in Nat
      /\ pc = "open" /\ h.mode # "rdonly" /\ n < Len(file.data)
      /\ file' = [file EXCEPT !.data = d] /\ saved' = Values_of(file')
      /\ IF h.module = NoModule THEN UNCHANGED <<pc, h>>
         ELSE pc' = "writeHeader" /\ h' = [h EXCEPT !.size = Size(d)]
      /\ UNCHANGED <<tmp, left, unsized, mixed>>
  BY EvfsOpenAssumption DEF Truncate, IInv, TypeOK, Files
<1>2. d \in Seq(Chunks) /\ Len(d) = n /\ \A j \in 1 .. Len(d) : d[j] = file.data[j]
  BY <1>1
<1> HIDE DEF d
<1>3. ~mixed => \A j \in 1 .. Len(d) : /\ d[j].suite = h.module
                                       /\ h.module # NoModule => d[j].key = h.key
  BY <1>1, <1>2, OpenChunks
<1> QED
  BY <1>1, <1>2, <1>3, ChunksStep

LEMMA writeHeaderInv == IInv /\ writeHeader => IInv'
<1> SUFFICES ASSUME IInv, writeHeader PROVE IInv'
  OBVIOUS
<1>1. /\ pc = "writeHeader" /\ pc' = "open" /\ HasKey(h)
      /\ file' = [file EXCEPT !.hdr = Header(h)] /\ unsized' = FALSE
      /\ UNCHANGED <<tmp, h, saved, left, mixed>>
  BY DEF writeHeader
<1>2. /\ file \in Files /\ h \in Handles /\ h.module \in Suites /\ file.exists
      /\ h.size = Size(file.data)
  BY <1>1 DEF IInv, TypeOK, OpenInv, Handles, Modules
<1>3. Header(h) \in Headers /\ Header(h) # NoHeader
  BY <1>1, <1>2, HeaderType, Distinct
<1>4. /\ file' \in Files /\ file'.exists /\ file'.data = file.data
      /\ file'.hdr = Header(h)
  BY <1>1, <1>2, <1>3 DEF Files
<1>5. TypeOK' /\ FileInv'
  BY <1>1, <1>3, <1>4 DEF IInv, TypeOK, FileInv, Places, Values_of
<1>6. ASSUME ~mixed PROVE Whole(file')
  <2>1. DOMAIN file.data = 1 .. Len(file.data) /\ h.module # NoModule
    BY <1>2, Distinct DEF Files
  <2>2. \A i \in DOMAIN file.data : file.data[i].suite = h.module /\ file.data[i].key = h.key
    BY <1>1, <1>6, <2>1, OpenChunks
  <2> QED
    BY <1>3, <1>4, <2>2, Distinct DEF Whole
<1>7. NeverTorn' /\ SizeInv'
  <2>1. NeverTorn'
    BY <1>1, <1>6 DEF NeverTorn, Rekeying, Writing
  <2> QED
    BY <1>1, <1>2, <1>4, <2>1, Distinct DEF SizeInv
<1>8. OpenInv'
  BY <1>1, <1>2, <1>3, <1>4, Distinct DEF OpenInv
<1>9. LeftInv'
  BY <1>1, LeftStays
<1> QED
  BY <1>1, <1>5, <1>7, <1>8, <1>9
  DEF IInv, CallbackInv, MigrationInv, CopyInv, RenameInv

LEMMA RaisesInv ==
  ASSUME IInv, WriteRaises \/ ReadRaises
  PROVE  IInv'
<1>1. /\ pc \in {"open", "writeHeader"} /\ pc' = "raised"
      /\ UNCHANGED <<file, tmp, h, saved, left, unsized, mixed>>
  BY DEF WriteRaises, ReadRaises, history
<1>2. TypeOK' /\ FileInv'
  BY <1>1 DEF IInv, TypeOK, FileInv, Places, Values_of
<1>3. Rekeying' <=> Rekeying
  <2>1. pc = "open" => ~Rekeying'
    BY <1>1 DEF IInv, OpenInv, Rekeying
  <2> QED
    BY <1>1, <2>1 DEF Rekeying, Writing
<1>4. NeverTorn' /\ SizeInv'
  BY <1>1, <1>3 DEF IInv, NeverTorn, SizeInv, Writing, Whole
<1>5. LeftInv'
  BY <1>1, LeftStays
<1> QED
  BY <1>1, <1>2, <1>4, <1>5
  DEF IInv, CallbackInv, MigrationInv, CopyInv, RenameInv, OpenInv

LEMMA WritePlainInv ==
  ASSUME IInv, NEW values \in SeqOf(Values, MaxChunks), WritePlain(values)
  PROVE  IInv'
<1>1. values \in Seq(Values) /\ DOMAIN values = 1 .. Len(values)
  <2>1. PICK m \in 0 .. MaxChunks : values \in [1 .. m -> Values]
    BY DEF SeqOf
  <2> QED
    BY <2>1, EvfsOpenAssumption
<1> DEFINE d == [i \in DOMAIN values |-> Chunk(values[i], NoHandle)]
<1>2. /\ pc = "closed" /\ file' = [exists |-> TRUE, hdr |-> NoHeader, data |-> d]
      /\ saved' = values /\ UNCHANGED <<tmp, pc, h, left, unsized, mixed>>
  BY DEF WritePlain
<1>3. \A i \in 1 .. Len(values) : values[i] \in Values
  BY <1>1, ElementOfSeq
<1>4. \A i \in 1 .. Len(values) :
         d[i] \in Chunks /\ d[i].val = values[i] /\ d[i].suite = NoModule
  BY <1>1, <1>3, ChunkType, NoHandleType DEF NoHandle
<1>5. d \in Seq(Chunks) /\ DOMAIN d = 1 .. Len(values)
  BY <1>1, <1>4
<1> HIDE DEF d
<1>6. file' \in Files /\ file'.exists /\ file'.data = d /\ file'.hdr = NoHeader
  BY <1>2, <1>5 DEF Files, Headers
<1>7. Whole(file')
  BY <1>4, <1>5, <1>6 DEF Whole
<1>8. Values_of(file') = values
  <2>1. Values_of(file') = [i \in 1 .. Len(values) |-> values[i]]
    BY <1>4, <1>5, <1>6 DEF Values_of
  <2> QED
    BY <1>1, <2>1
<1>9. ~mixed
  BY DEF WritePlain, IInv, FileInv
<1>10. TypeOK' /\ FileInv'
  BY <1>1, <1>2, <1>6, <1>8, <1>9 DEF IInv, TypeOK, FileInv, Values_of
<1>11. NeverTorn' /\ SizeInv'
  BY <1>2, <1>6, <1>7 DEF NeverTorn, SizeInv, Rekeying, Whole
<1>12. LeftInv'
  BY <1>2, LeftStays
<1> QED
  BY <1>2, <1>10, <1>11, <1>12
  DEF IInv, CallbackInv, MigrationInv, CopyInv, RenameInv, OpenInv

-----------------------------------------------------------------------------
(* The specification.                                                      *)

LEMMA OpenNext == IInv /\ [Next]_vars => IInv'
<1> SUFFICES ASSUME IInv, [Next]_vars PROVE IInv'
  OBVIOUS
<1>1. CASE UNCHANGED vars
  BY <1>1 DEF vars, IInv, TypeOK, FileInv, NeverTorn, SizeInv, CallbackInv, MigrationInv,
              CopyInv, Copied, RenameInv, LeftInv, OpenInv, TmpHolds, Rekeying, Writing,
              Whole, Values_of
<1>2. bcClose \/ MigrationThrows => Throw /\ pc \in {"callback", "copy", "header", "open"}
  BY DEF bcClose, MigrationThrows
<1> QED
  BY <1>1, <1>2, ThrowInv, CrashInv, bcOpenInv, CallbackStep, CreateTmpInv, CopyChunkInv,
     WriteTmpHeaderInv, RemoveOriginalInv, RenameTmpInv, WriteChunkInv, TruncateInv,
     writeHeaderInv, RaisesInv, WritePlainInv
  DEF Next

\* The invariant holds in every reachable state.
LEMMA OpenInvariant == Spec => []IInv
  BY OpenInit, OpenNext, PTL DEF Spec

\* Wherever the process stops during an open, a migration, a write or a truncation, the
\* file under its name is not a mixture of plain and encrypted chunks or of two keys,
\* unless it was empty and its first chunk was written under a key other than its header's.
THEOREM NeverTornHolds == Spec => []NeverTorn
<1>1. IInv => NeverTorn
  BY DEF IInv
<1> QED
  BY <1>1, OpenInvariant, PTL

\* What the application has written is at every moment complete in the file or in the
\* temporary file of a migration, and that one opens with its key, but in the three cases
\* that DataSurvives names.
THEOREM DataSurvivesHolds == Spec => []DataSurvives
<1>1. IInv => DataSurvives
  <2> SUFFICES ASSUME IInv PROVE DataSurvives
    OBVIOUS
  <2>1. \A values : TmpHolds(values) => Openable(tmp)
    BY WholeOpens DEF IInv, TypeOK, TmpHolds
  <2>2. left # <<>> => /\ tmp.exists /\ Whole(tmp) /\ Values_of(tmp) = left
                       /\ Openable(tmp)
    BY <2>1 DEF IInv, LeftInv, TmpHolds
  <2>3. ASSUME ~mixed, saved # <<>>
        PROVE  \/ Rekeying /\ Values_of(file) = saved
               \/ \E c \in {file, tmp} :
                     /\ c.exists /\ Whole(c) /\ Values_of(c) = saved
                     /\ Openable(c) \/ ((unsized \/ Writing) /\ ~EndsShort(c.data))
    <3>1. CASE pc = "rename"
      BY <2>1, <3>1 DEF IInv, RenameInv, TmpHolds
    <3>2. CASE pc # "rename"
      <4>1. Values_of(file) = saved /\ file.exists /\ file \in Files
        BY <2>3, <3>2, ValuesType DEF IInv, TypeOK, FileInv
      <4>2. CASE Rekeying
        BY <4>1, <4>2
      <4>3. ASSUME ~Rekeying
            PROVE  Whole(file) /\ (Openable(file) \/ ((unsized \/ Writing) /\ ~EndsShort(file.data)))
        <5>1. Whole(file)
          BY <2>3, <4>3 DEF IInv, NeverTorn
        <5>2. \/ file.hdr = NoHeader \/ file.hdr.size = Size(file.data)
              \/ unsized \/ Writing
          BY DEF IInv, SizeInv
        <5> QED
          BY <4>1, <5>1, <5>2, WholeOpens
      <4> QED
        BY <4>1, <4>2, <4>3
    <3> QED
      BY <3>1, <3>2
  <2> QED
    BY <2>2, <2>3 DEF DataSurvives
<1> QED
  BY <1>1, OpenInvariant, PTL

\* A handle on an encrypted file that has data has the suite and the key of the file.
THEOREM KeyOfTheFileHolds == Spec => []KeyOfTheFile
<1>1. IInv => KeyOfTheFile
  BY DEF IInv, OpenInv, KeyOfTheFile, Header
<1> QED
  BY <1>1, OpenInvariant, PTL

\* A handle for reading only never makes bcOpen create, migrate or give a header to the
\* file.
THEOREM ReadOnlyKeepsHolds == Spec => ReadOnlyKeeps
<1> DEFINE Keeps == pc # "closed" /\ h.mode = "rdonly" => file' = file
<1>1. IInv /\ [Next]_vars => [Keeps]_vars
  <2> SUFFICES ASSUME IInv, Next, pc # "closed", h.mode = "rdonly" PROVE file' = file
    OBVIOUS
  <2>1. ASSUME NEW suite \in Suites \cup {"plain", "keep"},
               NEW key \in Keys \cup {NoKey, BadKey}, Callback(suite, key)
        PROVE  file' = file
    BY <2>1
    DEF Callback, Throw, Stop, Opens, HeaderAtOpen, encryptionSuiteSet, secretMaterialSet,
        setModuleSecretMaterial, IInv, TypeOK, Handles
  <2> QED
    BY <2>1
    DEF Next, IInv, MigrationInv, RenameInv, OpenInv, bcOpen, CreateTmp, CopyChunk, MigrationThrows,
        Throw, Stop, WriteTmpHeader, RemoveOriginal, RenameTmp, WriteChunk, Truncate,
        writeHeader, WriteRaises, ReadRaises, bcClose, WritePlain, Crash
<1> QED
  BY <1>1, OpenInvariant, PTL DEF Spec, ReadOnlyKeeps

=============================================================================
