------------------------------- MODULE EvfsOpen -------------------------------
(***************************************************************************)
(* Opening a file through the encrypted VFS (src/src/vfs/vfs_encrypted.cc):  *)
(* bcOpen, the constructor of VfsEncryption, the settings that the open     *)
(* callback makes, and the migration of an existing plain file, which       *)
(* copies it to a temporary file and puts that one in its place.  Every     *)
(* system call is a step and the process may stop after any of them.        *)
(*                                                                         *)
(* A file is a header, with the size of what is in the file, and a sequence *)
(* of chunks, each with its plain value and the key it is encrypted with.   *)
(* Sizes are counted in half chunks, so that the last chunk may be a partial *)
(* one.  A write is of one chunk; short writes, failing truncations and what *)
(* happens inside a chunk are the subject of VfsEncryption.  std::remove and *)
(* std::rename are taken to succeed: the code does not look at their results. *)
(***************************************************************************)
EXTENDS Integers, Sequences, SequencesExt

CONSTANTS
  Values,      \* what a chunk may hold
  Short,       \* those of them that fill half a chunk
  Keys,        \* secret materials of the right length
  NoKey,       \* no secret material
  BadKey,      \* secret material of a wrong length
  MaxChunks    \* bound on the chunks of the file

ASSUME EvfsOpenAssumption ==
  /\ Short \subseteq Values
  /\ NoKey \notin Keys /\ BadKey \notin Keys /\ NoKey # BadKey
  /\ MaxChunks \in Nat \ {0}

Suites == {"dummy", "aes256gcm128_sha256"}

VARIABLES
  file,    \* the file under its name
  tmp,     \* the file named with ".evfs_tmp" behind it
  pc,      \* "closed", "open", or where the open call, the write or the truncation is
  h,       \* the VfsEncryption object
  saved,   \* (history) the values the application has put in the file
  left,    \* (history) values that only a temporary file holds, which a migration left
           \* that stopped between the removal and the renaming
  unsized, \* (history) a write or a truncation stopped before the header, and no header
           \* has been written since
  mixed    \* (history) one stopped when the header was still under another key

history == <<saved, left, unsized, mixed>>

vars == <<file, tmp, pc, h, saved, left, unsized, mixed>>

\* No header: a plain file, or one that is not complete yet.
NoHeader == [suite |-> "plain", key |-> NoKey, size |-> 0]

NoFile == [exists |-> FALSE, hdr |-> NoHeader, data |-> <<>>]
EmptyFile == [NoFile EXCEPT !.exists = TRUE]

\* No encryption module (m_module == nullptr).
NoModule == "none"
NoHandle == [mode |-> "rdonly", module |-> NoModule, key |-> NoKey, size |-> 0,
             check |-> FALSE, createFile |-> FALSE, migrate |-> FALSE]

Values_of(c) == [i \in DOMAIN c.data |-> c.data[i].val]

\* Chunks of which the last one is partial.
EndsShort(d) == d # <<>> /\ d[Len(d)].val \in Short

\* The size of what chunks hold, in half chunks: only the last one may be partial.
Size(d) == IF EndsShort(d) THEN 2 * Len(d) - 1 ELSE 2 * Len(d)

Init ==
  /\ file = NoFile /\ tmp = NoFile
  /\ pc = "closed" /\ h = NoHandle
  /\ saved = <<>> /\ left = <<>> /\ unsized = FALSE /\ mixed = FALSE

-----------------------------------------------------------------------------
(* The encryption modules.                                                 *)

\* A chunk as encryptChunk of the AES module makes it, a plain one without module.
\* Nothing of the old chunk is reused, so re-encryption makes the same.
Chunk(v, o) == [val |-> v, suite |-> o.module, key |-> o.key]

\* The AES module throws without a master key; the dummy one does not look.
HasKey(o) == o.module = "dummy" \/ o.key # NoKey

\* The file header that writeHeader makes with getModuleFileHeader: the size of the object
\* is in it, and its integrity tag is keyed with the secret material.
Header(o) == [suite |-> o.module, key |-> o.key, size |-> o.size]

\* The dummy module re-encrypts a chunk only when the one it replaces is authentic.
Reencrypts(c, o) == o.module = "dummy" => c.suite = "dummy" /\ c.key = o.key

\* Whether the tag in the header is the one the key gives: the AES module has to have a
\* key, the dummy one computes the tag with whatever it has.
AesTagMatches(o, c) == o.key # NoKey /\ c.hdr.key = o.key

DummyTagMatches(o, c) == c.hdr.key = o.key

\* (Mutant) The tag is not compared.
checkIntegrityAny(o, c) == HasKey(o)

\* checkIntegrity of the module in use.
checkIntegrity(o, c) ==
  IF o.module = "dummy" THEN DummyTagMatches(o, c) ELSE AesTagMatches(o, c)

\* The result of setModuleSecretMaterial: the length has to match.
setModuleSecretMaterial(o, k) == [o EXCEPT !.key = k]

-----------------------------------------------------------------------------
(* The open call.                                                          *)

\* parseHeader: without the magic number the file is plain, and its raw size is its size.
\* The module of an encrypted file has no key yet.
parseHeader(f) == IF f.hdr = NoHeader THEN NoModule ELSE f.hdr.suite

\* The object before the callback.  A size in the header that the raw file contradicts is
\* replaced by the one the raw file has, and asks for a full check.
Parsed(c, mode) ==
  [mode |-> mode, module |-> parseHeader(c), key |-> NoKey, size |-> Size(c.data),
   check |-> c.hdr # NoHeader /\ c.hdr.size # Size(c.data),
   createFile |-> c.hdr = NoHeader /\ c.data = <<>>, migrate |-> FALSE]

\* bcOpen, up to the call of the callback: the file is opened with the standard VFS (not
\* only for writing), which may create it; an empty one is a file to create.
bcOpen(mode, creat) ==
  /\ pc = "closed"
  /\ file.exists \/ creat
  /\ file' = IF file.exists THEN file ELSE EmptyFile
  /\ h' = Parsed(file, mode)
  /\ pc' = "callback"
  /\ UNCHANGED <<tmp, history>>

\* encryptionSuiteGet; "unset" when there is no module and no size.
encryptionSuiteGet(o) ==
  IF o.module # NoModule THEN o.module ELSE IF o.size > 0 THEN "plain" ELSE "unset"

\* (Mutant) A file open for reading only is migrated too.
encryptionSuiteSetAnyMode(o, suite) ==
  LET module == IF suite = "plain" THEN NoModule ELSE suite IN
  IF o.module = NoModule THEN [o EXCEPT !.module = module, !.migrate = o.size > 0]
  ELSE o

\* The object after encryptionSuiteSet: a file to create gets the module (none for
\* "plain"), an existing plain one is marked for migration unless it is read-only.
encryptionSuiteSet(o, suite) ==
  LET module == IF suite = "plain" THEN NoModule ELSE suite IN
  IF o.module = NoModule /\ o.size = 0 THEN [o EXCEPT !.module = module]
  ELSE IF encryptionSuiteGet(o) = "plain" /\ suite # "plain" /\ o.mode # "rdonly"
       THEN [o EXCEPT !.module = module, !.migrate = TRUE]
       ELSE o

\* It throws when the file has another suite.
SuiteThrows(o, suite) ==
  o.module # NoModule /\ encryptionSuiteGet(o) # suite

\* secretMaterialSet ignores the key of a plain file open for reading only; it throws when
\* there is no module otherwise, and when the length is wrong.
secretMaterialSet(o, k) == IF o.module = NoModule THEN o ELSE setModuleSecretMaterial(o, k)

SecretThrows(o, k) ==
  IF o.module = NoModule THEN ~(o.size > 0 /\ o.mode = "rdonly") ELSE k = BadKey

\* The full check decrypts the chunks from the one the size falls in down to the second:
\* one that is not there, as behind a last chunk that is full, is not authentic, and the
\* first chunk is not looked at.
FullCheck(o, c) ==
  \A i \in 2 .. (o.size \div 2 + 1) :
     i <= Len(c.data) /\ c.data[i].suite = o.module /\ c.data[i].key = o.key

\* Whether the constructor writes the header: of a file to create, and of one with data
\* after a full check.
HeaderAtOpen(o) == o.module # NoModule /\ (o.createFile \/ (o.size > 0 /\ o.check))

\* What the constructor does when the callback is back and no migration is asked for: a
\* plain file is left alone, the header of one that has data is checked, and one that is
\* to get a header needs a key and a handle that can write it.
Opens(o, c) ==
  \/ o.module = NoModule
  \/ /\ o.size > 0 => checkIntegrity(o, c) /\ (o.check => FullCheck(o, c))
     /\ HeaderAtOpen(o) => HasKey(o) /\ o.mode # "rdonly"

\* The end of a call or of the process: the file is closed.
Stop ==
  /\ pc' = "closed" /\ h' = NoHandle
  /\ UNCHANGED <<file, tmp>>

\* An exception: bcOpen closes the file and returns an error.
Throw == Stop /\ UNCHANGED history

\* The callback sets a suite (or leaves it, "keep") and a key (or none), and the
\* constructor goes on.
Callback(suite, key) ==
  /\ pc = "callback"
  /\ LET o1 == IF suite = "keep" THEN h ELSE encryptionSuiteSet(h, suite)
         o2 == IF key = NoKey THEN o1 ELSE secretMaterialSet(o1, key)
         throws == \/ suite # "keep" /\ SuiteThrows(h, suite)
                   \/ key # NoKey /\ SecretThrows(o1, key)
     IN \/ throws /\ Throw
        \/ /\ ~throws /\ o2.migrate
           /\ h' = o2 /\ pc' = "tmp"
           /\ UNCHANGED <<file, tmp, history>>
        \/ /\ ~throws /\ ~o2.migrate
           /\ IF Opens(o2, file)
              THEN /\ h' = o2 /\ pc' = "open"
                   /\ IF HeaderAtOpen(o2)
                      THEN file' = [file EXCEPT !.hdr = Header(o2)] /\ unsized' = FALSE
                      ELSE UNCHANGED <<file, unsized>>
                   /\ UNCHANGED <<tmp, saved, left, mixed>>
              ELSE Throw

-----------------------------------------------------------------------------
(* The migration of a plain file.                                          *)

\* A temporary file left from an earlier attempt is removed, a new one is created.
CreateTmp ==
  /\ pc = "tmp"
  /\ tmp' = EmptyFile /\ pc' = "copy"
  /\ left' = <<>>
  /\ UNCHANGED <<file, h, saved, unsized, mixed>>

\* (Mutant) The original is removed when the chunks are copied, before there is a header.
CopyChunkOnly ==
  /\ pc = "copy" /\ HasKey(h)
  /\ LET n == Len(tmp.data) + 1 IN
     /\ tmp' = [tmp EXCEPT !.data = Append(@, Chunk(file.data[n].val, h))]
     /\ pc' = IF 2 * n < h.size THEN "copy" ELSE "remove"
  /\ UNCHANGED <<file, h, history>>

\* (Mutant) The last chunk, when it is not the first, is left out.
CopyChunkShort ==
  /\ pc = "copy" /\ HasKey(h)
  /\ LET n == Len(tmp.data) + 1 IN
     /\ tmp' = [tmp EXCEPT !.data = Append(@, Chunk(file.data[n].val, h))]
     /\ pc' = IF 2 * n + 2 < h.size THEN "copy" ELSE "header"
  /\ UNCHANGED <<file, h, history>>

\* One chunk is read, encrypted and written to the temporary file.
CopyChunk ==
  /\ pc = "copy" /\ HasKey(h)
  /\ LET n == Len(tmp.data) + 1 IN
     /\ tmp' = [tmp EXCEPT !.data = Append(@, Chunk(file.data[n].val, h))]
     /\ pc' = IF 2 * n < h.size THEN "copy" ELSE "header"
  /\ UNCHANGED <<file, h, history>>

\* A read or a write of the copy fails, or there is no key, or the header cannot be
\* written: the original stays, and so does the temporary file.
MigrationThrows ==
  /\ pc \in {"copy", "header"}
  /\ Throw

\* The header makes the copy complete.
WriteTmpHeader ==
  /\ pc = "header"
  /\ tmp' = [tmp EXCEPT !.hdr = Header(h)] /\ pc' = "remove"
  /\ UNCHANGED <<file, h, history>>

\* The original is removed.
RemoveOriginal ==
  /\ pc = "remove"
  /\ file' = NoFile /\ pc' = "rename"
  /\ UNCHANGED <<tmp, h, history>>

\* The copy takes its name, and is opened again.
RenameTmp ==
  /\ pc = "rename"
  /\ file' = tmp /\ tmp' = NoFile
  /\ pc' = "open" /\ h' = [h EXCEPT !.migrate = FALSE]
  /\ UNCHANGED history

-----------------------------------------------------------------------------
(* The open file.                                                          *)

\* Where in a file a write of a value may go: over a chunk or behind the last one, a
\* partial chunk at the end only, and behind a partial chunk nothing.
Fits(d, i, v) ==
  /\ i <= Len(d) + 1
  /\ i = Len(d) + 1 => ~EndsShort(d)
  /\ v \in Short => i = Len(d) + 1 \/ (i = Len(d) /\ EndsShort(d))

\* The chunks after a write.
Put(d, i, c) == IF i <= Len(d) THEN [d EXCEPT ![i] = c] ELSE Append(d, c)

\* The application writes a chunk: the file has other chunks, what it holds is saved.  An
\* encrypted one still has its old header, the object has the new size.
WriteChunk(i, v) ==
  /\ pc = "open" /\ h.mode # "rdonly"
  /\ Fits(file.data, i, v)
  /\ h.module = NoModule \/ HasKey(h)
  /\ i <= Len(file.data) => Reencrypts(file.data[i], h)
  /\ LET d == Put(file.data, i, Chunk(v, h)) IN
     /\ file' = [file EXCEPT !.data = d]
     /\ IF h.module = NoModule
        THEN UNCHANGED <<pc, h>>
        ELSE pc' = "writeHeader" /\ h' = [h EXCEPT !.size = Size(d)]
  /\ saved' = Values_of(file')
  /\ UNCHANGED <<tmp, left, unsized, mixed>>

\* A truncation to n chunks, down to the truncation of the physical file; nothing happens
\* when the size is the same.
Truncate(n) ==
  /\ pc = "open" /\ h.mode # "rdonly" /\ n < Len(file.data)
  /\ LET d == SubSeq(file.data, 1, n) IN
     /\ file' = [file EXCEPT !.data = d]
     /\ IF h.module = NoModule
        THEN UNCHANGED <<pc, h>>
        ELSE pc' = "writeHeader" /\ h' = [h EXCEPT !.size = Size(d)]
  /\ saved' = Values_of(file')
  /\ UNCHANGED <<tmp, left, unsized, mixed>>

\* The header, at the end of a write or a truncation.
writeHeader ==
  /\ pc = "writeHeader" /\ HasKey(h)
  /\ file' = [file EXCEPT !.hdr = Header(h)] /\ pc' = "open"
  /\ unsized' = FALSE
  /\ UNCHANGED <<tmp, h, saved, left, mixed>>

\* The write or the truncation of the physical file or the write of the header fails, or
\* there is no key: bcWrite and bcTruncate do not catch what VfsEncryption throws.
WriteRaises ==
  /\ pc \in {"open", "writeHeader"}
  /\ pc' = "raised"
  /\ UNCHANGED <<file, tmp, h, history>>

\* A read of a plain file fails: its negative result becomes the size of a vector, and
\* that is not an exception bcRead catches.
ReadRaises ==
  /\ pc = "open" /\ h.module = NoModule
  /\ pc' = "raised"
  /\ UNCHANGED <<file, tmp, h, history>>

bcClose == pc = "open" /\ Throw

-----------------------------------------------------------------------------
(* Around it.                                                              *)

\* The application writes a plain file through the standard VFS.
WritePlain(values) ==
  /\ pc = "closed" /\ file.hdr = NoHeader
  /\ \A i \in 1 .. Len(values) : values[i] \in Short => i = Len(values)
  /\ file' = [exists |-> TRUE, hdr |-> NoHeader,
              data |-> [i \in DOMAIN values |-> Chunk(values[i], NoHandle)]]
  /\ saved' = values
  /\ UNCHANGED <<tmp, pc, h, left, unsized, mixed>>

\* The chunks of a write or a truncation may be there without their header.
Writing == pc \in {"writeHeader", "raised"}

\* The first chunks of a file that was empty when it was opened, under a header with
\* another key: that of a file without data is not checked.
Rekeying ==
  Writing /\ file.data # <<>> /\ file.hdr # NoHeader /\ file.hdr.key # h.key

\* The process stops.
Crash ==
  /\ pc # "closed" /\ Stop
  /\ IF pc = "rename" THEN left' = saved /\ saved' = <<>> ELSE UNCHANGED <<left, saved>>
  /\ unsized' = (unsized \/ (/\ Writing /\ file.hdr # NoHeader
                            /\ file.hdr.size # Size(file.data)))
  /\ mixed' = (mixed \/ Rekeying)

Next ==
  \/ \E mode \in {"rdonly", "wronly", "rdwr"}, creat \in BOOLEAN : bcOpen(mode, creat)
  \/ \E suite \in Suites \cup {"plain", "keep"}, key \in Keys \cup {NoKey, BadKey} :
        Callback(suite, key)
  \/ CreateTmp \/ CopyChunk \/ MigrationThrows \/ WriteTmpHeader \/ RemoveOriginal
  \/ RenameTmp
  \/ \E i \in 1..MaxChunks, v \in Values : WriteChunk(i, v)
  \/ \E n \in 0..(MaxChunks - 1) : Truncate(n)
  \/ writeHeader \/ WriteRaises \/ ReadRaises \/ bcClose
  \/ \E values \in SeqOf(Values, MaxChunks) : WritePlain(values)
  \/ Crash

Spec == Init /\ [][Next]_vars

-----------------------------------------------------------------------------
(* Properties.                                                             *)

\* A file whose chunks are all in clear and that has no header, or that are all encrypted
\* with the suite and the key of the header.
Whole(c) ==
  \A i \in DOMAIN c.data :
     IF c.hdr = NoHeader THEN c.data[i].suite = NoModule
     ELSE c.data[i].suite = c.hdr.suite /\ c.data[i].key = c.hdr.key

\* Wherever the process stops during an open, a migration, a write or a truncation, the
\* file under its name is not a mixture: it is all plain without a header or all encrypted
\* under its header's key, so that the next open can tell which.  The code has one hole:
\* the key of a file without data is not checked at open, so between the first chunk
\* written to it and its header the file is under two keys, and stays so when the process
\* stops there.
NeverTorn ==
  ~mixed =>
    IF Rekeying
    THEN \A i \in DOMAIN file.data : file.data[i].suite = h.module /\ file.data[i].key = h.key
    ELSE Whole(file)

\* Whether a file opens for an application that has its key.
Openable(c) == Opens([Parsed(c, "rdwr") EXCEPT !.key = c.hdr.key], c)

\* What the application has written is never lost: at every moment the file, or the
\* temporary file of a migration, holds all of it and opens with its key.  Where the code
\* does less, it is said: a stop between the removal and the renaming leaves the data in
\* the temporary file only, until a later migration starts; a file that ends with a full
\* chunk is complete but refused after a stop between the chunks and the header; and
\* under a header with another key (see NeverTorn) the data are lost.
DataSurvives ==
  /\ ~mixed /\ saved # <<>> =>
       \/ Rekeying /\ Values_of(file) = saved
       \/ \E c \in {file, tmp} :
             /\ c.exists /\ Whole(c) /\ Values_of(c) = saved
             /\ Openable(c) \/ ((unsized \/ Writing) /\ ~EndsShort(c.data))
  /\ left # <<>> => tmp.exists /\ Whole(tmp) /\ Values_of(tmp) = left /\ Openable(tmp)

\* A handle on an encrypted file that has data writes with the suite and the key the file
\* was encrypted with, whatever the callback gave (checkIntegrity, encryptionSuiteSet).
KeyOfTheFile ==
  pc = "open" /\ file.data # <<>> /\ file.hdr # NoHeader
     => h.module = file.hdr.suite /\ h.key = file.hdr.key

\* A plain file on which the callback asks for an encryption suite is not changed by an
\* open for reading only: nothing is migrated and no header is written.
ReadOnlyKeeps ==
  [][pc # "closed" /\ h.mode = "rdonly" => file' = file]_vars

=============================================================================
