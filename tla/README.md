# Verification of bctoolbox in TLA+

bctoolbox is the utility library of the Belledonne Communications programs
(belle-sip, mediastreamer2, liblinphone).  This directory holds TLA+ models of
the parts of it that carry their own control logic, the configurations that
model-check them with TLC, and theorems about them that TLAPS proves.  Paths
below are relative to the repository (`src/vfs/vfs.c`, `include/bctoolbox/...`);
`l.` numbers are lines of the file named.

`PROJECT.json` lists the components, the runs, the source lines every
definition models, the hazards the properties are for, the findings and the
theorems.

## 1. The system

| Component | State it keeps | Operations | What is hard about it |
|---|---|---|---|
| Encrypted file, `vfs/vfs_encrypted.cc` | header with the plain size; chunks, each encrypted on its own; per handle `mFileSize`, access mode, module | open (parse, check, recover, create, migrate), read, write, truncate, close | one call is several physical writes; a crash or a short write between any two; size arithmetic in two units |
| Encryption modules, `vfs/vfs_encryption_module_*.cc` | keys, chunk and file headers | encrypt, re-encrypt, decrypt a chunk; header integrity | fails by exception in the middle of a write |
| File handle, `vfs/vfs.c` | position; page of printed bytes; page of bytes read ahead | open, write, write2, fprintf, read, read2, get_nxtline, seek, truncate, sync, size, close | two caches that every call must flush or drop at the right place |
| Standard VFS, `vfs/vfs_standard.c` | a file descriptor | the system calls | short and failing writes |
| Logger core, `logging/logging.c` | handlers, log thread id, list of stored messages and its mutex | logv, flush, set_log_thread_id | every thread calls it; messages change hands between threads; abort on a fatal one |
| Log domains and levels, `logging/logging.c` | list of domains, masks, thread-specific masks | set and get level, lazy creation | double-checked creation, lists read without a lock |
| Log file, `logging/logging.c` | `FILE`, size, limit | write, reopen, rotate | failing step of a rotation, size accounting |
| Log tags, `logging/log-tags.cc` | per-thread stacks of values by tag, cached list | push, pop, copy, paste | cached view of the stacks |
| List, map, `containers/` | nodes | the usual ones | removal while iterating |
| TLS, `crypto/mbedtls.c`, `crypto/openssl.c` | configuration, context, saved callbacks and profiles | set up, handshake, read, write, close, free | objects owned by one and borrowed by another, two backends |
| Crypto contexts, `crypto/*` | incremental AES-GCM, RNG, DHM, ECDH | start, process, finish | protocol of calls |
| Portability, `utils/port.c` | threads, condition variable for Windows, address lists | wrappers, time arithmetic, address sorting | signal and wait, normalisation at limits |
| Test runner, `tester.c` | suites, running children, results | select, run, run in parallel, report | processes that end in any order |
| Parser, parameter strings, conversion, exceptions, vconnect | little or none | adapters | data rather than control |

How they meet: a caller opens a `bctbx_vfs_file_t` over a VFS.  Its calls go
through `vfs.c`, which keeps the two pages, to the function table of the VFS.
The encrypted VFS implements that table on top of a second handle of the
standard VFS and an encryption module.  Everything logs: `bctbx_logv` is
entered by any thread, and hands the message to the handlers itself or leaves
it for the log thread.  TLS calls back into the caller for its I/O.

The properties that make each part correct:

* Encrypted file: it behaves as an array of bytes; a read returns what was
  written or an error; the size is that of what is stored; after a crash at any
  point it can be opened and shows the old or the new content.
* File handle: the two pages are invisible, that is, a printed byte is in the file for
  every later call, and a line from the read-ahead page is the line in the file.
* Logger: every message reaches once every handler its domain concerns, each
  thread's in its order, and none waits for ever.
* Opening through the encrypted VFS: wherever the process stops, the file is
  wholly plain or wholly encrypted under one key, and what was written exists
  somewhere complete.
* TLS and certificates: what a context points to is alive; key material is that
  of the session; the two libraries show callers the same.
* Crypto wrappers: what one party makes the other can read, and nothing else.
* Log files, tags and domains: no message lost or out of order across rotations;
  a tag shows the last value pushed; a level set takes effect.
* Containers and portability: a list is a sequence, an iterator a caller holds is
  valid, memory is freed once and by its owner, a signal is not lost, an arithmetic
  result is the number it stands for.
* Test runner: every suite is run, counted and reported, and the run ends.

## 2. The modules

| Module | What it is |
|---|---|
| `PlainFile` | abstract: an array of bytes with atomic writes and truncations |
| `VfsEncryption` | the encrypted file; `VfsEncryptionProofs` its theorems, `MCVfsEncryption` its instance for TLC |
| `EvfsOpen` | opening through the encrypted VFS, the callback, migration; `EvfsOpenProofs` its theorems, `MCEvfsOpen` its instance |
| `Stream` | abstract: a `PlainFile` with a position and no cache |
| `VfsFile` | the handle of `vfs.c` over the standard VFS; `VfsFileProofs` its theorems, `MCVfsFile` its instance |
| `Logger` | the logger core with its threads; `LoggerProofs` its theorems, `MCLogger` its instance |
| `LogFile`, `LogTags`, `LogDomains` | the file handler with its rotation, the tags, domains and levels |
| `SslMbedtls`, `SslOpenssl` | TLS configuration and contexts in each backend; `MCTls` drives either with the same callers; `TlsProofs` its theorems |
| `CertMbedtls`, `CertOpenssl` | signing keys, certificates, verification flags in each backend |
| `GcmMbedtls`, `GcmOpenssl`, `AesGcmFile` | incremental AES-GCM in each backend, and the transfer of files that `crypto.c` builds on either |
| `KeyWrap` | AES key wrap with padding |
| `CodecMbedtls`, `CodecOpenssl` | base64, digests and key derivation by their sizes |
| `DhmAgreement`, `EccKeys` | Diffie-Hellman contexts of two parties; ECDH and EdDSA contexts and the conversions between them |
| `MCCrypto` | the previous five lines composed: one part in each behaviour, with properties that compare the libraries; `CryptoProofs` its theorems |
| `List`, `Map`, `AddrInfo`, `WinCond`, `PortDirs`, `PortValues` | the containers and the parts of `port.c` that have control of their own |
| `MCUtilities` | these six and the three log modules, one part in each behaviour; `UtilitiesProofs` the theorems about the former, `LogProofs` about the latter |
| `Tester` | the test runner and its processes; `MCTester` its instance |

Where several independent parts share a run, the variable `part` is chosen at
the start and the others stay in an initial state: the run is the union of the
parts' state graphs, not their product.

### VfsEncryption

The raw file is five variables: the size in the header (`hdr`), how many bytes
of plain text have their cipher text in the file (`len`), the bytes of a cut
chunk header at its end (`frag`), the plain text of what is stored (`ct`), and
which chunks fail their integrity check (`bad`).  The handle has its mode, its
`mFileSize` and a program counter for the physical step that is still due.
Encryption is what it guarantees: a chunk decrypts to what was encrypted if it
is stored as it was written, otherwise decryption throws.  The arithmetic of
sizes is kept exactly; the constant size of the file header cancels out of it.

| Action | Code |
|---|---|
| `Open` | the constructor: create (l. 246), open as it is, or check all chunks and update the header (l. 217) |
| `WriteChunks`, then `writeHeader` | `write`: decrypt what the first and last chunk keep, encrypt, one physical write; then the header |
| `WriteShort` | the physical write is cut after some chunks and part of another one; `write` throws |
| `WriteThrows`, `TruncateThrows` | a chunk does not decrypt, or nothing could be written |
| `TruncateChunk`, `Ftruncate`, `writeHeader` | the three physical steps of a shrinking `truncate`; growing is a write of no data at the new size (l. 740) |
| `Close`, `Crash` | destructor; the process stops between two physical steps.  A crash inside a physical write is `WriteShort` followed by `Close` |
| `Read` | an operator: it changes nothing |

`may` is a history variable: the values a caller may expect at a position.
`faults` counts the physical operations that failed half-way, `torn` says that
a crash hit a shrinking truncation after its last chunk was rewritten.

### VfsFile

`file` is what the standard VFS holds; `offset`, `fPage`, `fSize`,
`fPageOffset`, `gPage`, `gSize`, `gPageOffset` are the fields of the handle.
There is one action per function of `vfs.h`.  All of them flush first, and the
flush may write any prefix of the page: `bctbx_file_flush` takes a short write
for success (l. 155) and drops the rest, which `faults` counts.  Calls that do
no more than flush, or fail after it, are the action `bctbx_file_flush`; a call
whose flush fails changes nothing.  `bctbx_file_fprintf` has the three paths of the code (into the
page, page and text in one write, text alone) and the ignored failure of its
own flush (l. 264).  After a read that is shorter than asked, what follows in
the caller's buffer is anything (`LinesRead`).

### Logger

A step is one access to shared state or one call of a handler.  `bctbx_logv`
reads `log_thread_id` twice (l. 551 and l. 563), and `Route` is the second time.
A thread that flushes holds the detached list in `todo` and calls one handler
at a time, so flushes interleave.  `mutex` says that the mutex of the list
exists: `bctbx_set_log_thread_id(0)` destroys it (l. 396), and a thread that
stores after that may lose its message.  Where the critical sections are three
lines long they are one step.

### EvfsOpen

A file is a sequence of chunks with the suite and key each is encrypted with,
and a header with the size, or none.  Sizes are counted in half chunks, so that
the last chunk may be a partial one and the header may contradict the raw size.
`bcOpen` parses the header, `Callback` is any choice the application makes of
suite and key with the rest of the constructor (the integrity check, the full
check, the header it writes), and the migration is one action per system call
(`CreateTmp`, `CopyChunk`, `WriteTmpHeader`, `RemoveOriginal`, `RenameTmp`).  A
write is `WriteChunk` and then `writeHeader`, a truncation `Truncate` and then
`writeHeader`; `Crash` is possible after every step, between these two as well,
and an exception that nobody catches leaves the handle where it was
(`WriteRaises`).  The history variables are `saved`, what the application has
written; `left`, what only a temporary file holds after a stop between the
removal and the renaming; `unsized` and `mixed`, that a write stopped before
its header, or when the header was still under another key.  What happens
inside a chunk and writes that are cut are the subject of `VfsEncryption`.

### TLS and certificates

`cfg` is the wrapper, `lib` the objects of the library, `ctx` the contexts.
Pointers are names, and `"dangling"` is the value of one whose target was freed;
OpenSSL's objects are counted, and callback data has the number of set-ups it
was given to, for each of them frees it.  There is one action per function of `crypto.h`.
A handshake stops with any code of the I/O callback, or completes and gives the
session a number, which stands for its key material and peer certificate.  The
rules callers keep are in the comments of the two modules.  Certificates are
records; a text is what parsing finds in it, in order, blocks that do not parse
included; generation has one outcome for each call that can fail.

### Crypto wrappers

Ciphers and hashes are ideal: a unit of cipher text is the key, the place in
the key stream and the unit it hides, so a unit decrypts only under its key at
its place; encrypting a block for the first time gives a number never seen
before; a digest is what was hashed and how many bytes of it were copied.  The
control around them (blocks, padding, counters, lengths, which context is
freed when) is that of the code.

### Log files, tags and domains

`LogFile`: files have numbers, `names` says which file is under which name, and a
rotation is the loop of renames of the code, each of which may fail.  `LogTags`:
stacks with counts and the cached list, against `pushed`, the plain stack a caller
has in mind; `overlaid` says how much of it was there before the last paste.
`LogDomains`: one step per access to the list of domains or its mutex, and the
creation of the logger without one; levels are set for a name or for `NULL`, for
all threads or for one, and `asked` and `asked_null` keep what was asked for.

### Containers and portability

`List` has nodes on a heap with both pointers, against the sequences `content`.
`Map` has iterator objects that are deleted.  `AddrInfo` marks each node with the
allocator that made it and the one that freed it.  `WinCond` has the three calls of
the wait as three steps, with consumers and a producer, since the repository has
no caller.  `PortDirs` has a file system with symbolic links and directories that
cannot be changed.  `PortValues` has the arithmetic of C (division towards zero).

### Tester

`bc_tester_parse_args`, `bc_tester_start`, `bc_tester_register_suites` and the
parallel loop are the actions of the parent (`Launch`, `Wait`, `Reap`, `Count`,
`Finish`; `RunOnWindows` for the other branch), `ChildExits`, `ChildCrashes` and
`ExecFails` those of the processes.  A signal may end a process before its
report, while it writes it (`all_complete_message_handler`, l. 425), or after it, on
its way out of `main`.  A process ends with any number of failures
of the tests it selected, and an exit status is a number up to `ExitMax` (255).

## 3. The runs

Except for `encrypted_open` and `tls` the runs have `CHECK_DEADLOCK FALSE`: a
library stops when its callers stop, and the bounded histories end.

| Run | Shows |
|---|---|
| `encrypted_file` | `TypeOK`, `ReadsWhatWasWritten`, `ReadsComplete`, `SizeKnown`, `Reopens`, and the refinement `ImplementsPlainFile` |
| `recovery_opens` (violation) | after a crash between a write and the header update, a file whose size is a multiple of the chunk size no longer opens |
| `truncate_recovers` (violation) | after a crash inside a truncation the last chunk cannot be read, and the next open does not see it |
| `encrypted_open` | `NeverTorn`, `DataSurvives`, `KeyOfTheFile`, `ReadOnlyKeeps`, with stops between any two system calls |
| `file_handle` | `TypeOK`, `CachedLinesAreFresh` and the refinement `ImplementsStream` |
| `line_from_file` (violation) | a line near the end of a file takes characters from what the buffer held before, or comes from a page read before a truncation |
| `logger` | `OutputInOrder`, `NothingLost` and, under fairness, `StoredIsOutput` |
| `tls` | `LifetimesKept`, `SessionData`, `ConfigAsAsked`, `CodesComeBack`, for both backends |
| `crypto` | `FileTransfer`, `UnwrapGivesWrapped`, `SameSecret`, `CurveKeysAgree`, `CodecsAgree`, `GeneratedPair`, `LoadedKept`, `BackendsAgree`, `FlagsFollow` |
| `wrapped_keys_unwrap` (violation) | `mbedtls.cc` wraps a text whose size is a multiple of 8, as every AES key has, and refuses to unwrap it |
| `utilities` | `ListIsSequence`, `MapIterators`, `AddressesFreed`, `WakeupKept`, `TreeRemoved`, `ValuesConvert`, `LogFilesKept`, `TagsRestored`, `LevelsTakeEffect` |
| `tester` | `VerdictCounts` and, under fairness, `RunEnds` |

Each violation run checks one statement of a comment or a header, quoted in
`PROJECT.json` under `findings`.  The passing properties say what the code does
keep, and name the case in which it does not:

* `Reopens`: the one case in which a file does not open again (`recovery_opens`).
* `NeverTorn`: the key of a file without data is not checked (`vfs_encrypted.cc`
  l. 214), so between the first chunk and its header such a file is under two
  keys, and stays so when the process stops there (`mixed`).
* `DataSurvives`: a file with a full last chunk that waits for its header is
  complete and refused by an open; a stop between the removal and the renaming
  leaves the data in the temporary file until a later migration starts (`left`);
  and under `mixed` nothing is said.
* `CachedLinesAreFresh`: the one call that does not drop the page.
* `NothingLost` and `OutputInOrder`: the one window (`raced`) in which the log
  thread leaves, and for the order a fatal message of another thread.
* `StoredIsOutput` is about the handlers the domain of the message concerns.
* `LifetimesKept`: with OpenSSL, callback data is freed twice, or under a context
  that has it, only when several set-ups were given it.
* `SameSecret`: a mixed pair of libraries and a secret that starts with zeros,
  which `openssl.c` does not pad.
* `BackendsAgree`: a buffer of size 0, where it says what each library answers.
* `LogFilesKept`: the rename that failed; and messages are lost, not reordered,
  while there is no stream.
* `TagsRestored`: a tag that has gone back to what was there before a paste.
* `LevelsTakeEffect`: a mutex made again while a thread had it (`raced`); a level for
  `NULL` reaches names without a domain only, unless the logger was made twice (`remade`).
* `ValuesConvert`: comparison of a time with exactly one second of nanoseconds.
* `VerdictCounts`: the reports removed after a failed `exec`, and what the
  summary shows of a process that crashed.
* `RunEnds`: a negative `--parallel-max` and, on Windows, a run of some suites only.

Other disagreements met while modelling, which have no run of their own:

* `set_flags` (`vfs.c` l. 48) drops what follows a `b`, so `"rb+"` opens as `"r"`;
* "Recovery from failure between write and header update" (`vfs_encrypted.cc`
  l. 476) does not hold for a file that had no data and a header under another key: the
  first chunk is under the new key, the header under the old one, and no key
  reads it;
* after a stop between `std::remove` and `std::rename` the data is in
  `.evfs_tmp`; an open for writing creates an empty file, and the next migration
  under that name removes the temporary one first (l. 166);
* a stored message goes to every handler, whatever its domain (`logging.c`
  l. 520; comment at l. 115, `logging.h` l. 104);
* a fatal message makes a thread flush that is not the log thread (`logging.c`
  l. 589, `logging.h` l. 140);
* a thread's level for `NULL` is set in the default domain only (`logging.c`
  l. 312, l. 867, cleared at l. 885) where `logging.h` l. 154-155 says it "applies to
  all domains";
* pasting tags keeps those that were there under the pasted ones, where
  `log-tags.cc` l. 97 says they "will be lost" and `logging.h` l. 201 that the pasted
  ones "remain until the thread exits": a pop takes them away;
* freeing a TLS wrapper around a configuration of the caller frees the cipher
  suites that configuration points to (`mbedtls.c`);
* the data of a client certificate callback hangs on the `SSL_CTX` and is freed by
  each context set up on it (`openssl.c` l. 772-773): two contexts on one
  configuration free it twice.  A second set-up of one context reads the `SSL` it has
  just freed (l. 1522-1523), which is undefined: the model sets a context up once;
* for a buffer of size 0 `bctbx_x509_certificate_get_der` of `mbedtls.c` (l. 238-239)
  subtracts 1 in `size_t` and copies the certificate, `openssl.c` (l. 326) refuses;
* failures of the library while a DHM secret is computed are not reported
  (`mbedtls.c` l. 777 and l. 783): the key is then what was in the buffer;
* a log file with `max_size` 0 is rotated on reopening (`logging.h` l. 89);
* a suite whose process crashed after its report (`tester.c` l. 430) is shown with
  its own results in the summary, while all its tests count as failed;
* a process of the test runner on Windows gets the program's name twice and runs
  no tests (`tester.c` l. 752).

Bounds.

* `encrypted_file`: chunks of two bytes, chunk headers of two bytes so that a
  header can be cut, files of up to four bytes: every combination of one or two
  chunks, whole or partial, with writes of up to two bytes that start
  before, at and after the end and cross a boundary.  One fault; any number of
  crashes, opens and operations.  Two byte values, one of them the fill byte.
  `ReencryptChecks` is `FALSE`, as in AES256GCM; with `TRUE`, as in the dummy
  module, more writes throw.  The theorems cover both.
* `encrypted_open`: two keys, a key of a wrong length and none, two values of which one
  fills half a chunk, files of two chunks: a migration can stop between chunks, the last
  chunk is full or not, and a size in the header can be wrong by a half, one or two chunks.
* `file_handle`: files of three bytes, pages that hold two, writes of up to two
  bytes, so that text fits, fills the page exactly, and does not fit.
  `'\n'`, `'\r'` and one other character.  One short write or lost page.
* `logger`: the log thread with one message and another thread with two, in two
  domains or without one, a handler for every domain and one for a single one,
  three calls of `bctbx_set_log_thread_id`: the log thread starts, stops and
  starts again while messages are on their way.
* `tls`: with OpenSSL two contexts (symmetric), since references and callback data
  are shared between them; with mbedtls one context, two configurations one
  after the other, two sessions, so that a second handshake can show data of the first.
  One list of SRTP profiles for each, with an unknown profile among the known ones.
* `crypto`: files of five units in blocks of two, so that the last chunk is not a
  block, and two files, so that a context can be left over; texts of 1, 7, 8, 9, 16
  and 17 bytes around one and two half blocks; three secrets, so that one is replaced
  after it was used; both curves for ECDH, one for EdDSA; three generated keys; PEM buffers of no size, one too
  small, exact and one larger; a `size_t` that ends at 7 (`SizeMax`), above the length of every
  certificate.
* `utilities`: four nodes and three values in two lists; three pairs under two keys,
  two iterators; two addresses of either family; two consumers and three items; trees of
  depth three with links to a directory above, beside and to nothing; two
  nanoseconds in a millisecond and three milliseconds in a second, so that every carry happens
  (these stand for 10^6 and 10^3); limits of no and two units for log files, messages of one and two, four of them, one
  file taken away; two threads with two values of two tags pushed, so that a paste can be over
  another value; two threads that set three levels, in one named domain and in the default one.
* `tester`: three suites, one heavier than all processes together, one with more tests
  than `ExitMax` counts (2 for 255); arrays that grow by 2 (for 10); three
  options; a report of an earlier run of one suite (`Leftover`).

Fairness.  `FairSpec` of `Logger` assumes weak fairness of the steps of each
thread inside the logger (the scheduler runs it, handlers return, the mutex is
held for a few instructions) and of the log thread's calls of
`bctbx_logv_flush`: a program that sets a log thread is to call it from that
thread's loop (`include/bctoolbox/logging.h`).  Nothing makes a thread log.
`Fairness` of `Tester` assumes it of the parent's loop, which polls without
blocking, and of the processes: a test ends (`tester.c` l. 1053, "we let all
suites finish normally").  The other runs check safety only.

## 4. The proofs

TLC looks at files of four bytes, two contexts, three secrets.  The theorems hold for every
size, every number of threads, contexts, messages, keys and texts.  Every safety property of
the passing runs is a theorem, except `TreeRemoved` and `VerdictCounts`.

`VfsEncryptionProofs` rests on lemmas about `\div` and `%`: where a chunk starts and
ends, that the recomputed size is right (`RecoveredSize`; `RecoveredSizeFragment` for a file
that ends inside a chunk header), and which chunks a write touches (`WritePlan`).
The invariant `IInv` adds to the types

* `LayoutInv`: a cut header only follows whole chunks; the handle never
  believes in more than is stored; a running truncation shrinks;
* `CleanInv`: as long as nothing was torn there is no cut header, no unreadable
  chunk except the one a running truncation has rewritten, and the size is known;
* `AuthenticInv`: what decrypts was written there.

`AuthenticInv` is what makes the read property inductive: a chunk a truncation
has rewritten does not decrypt now and will once the file is cut, so its bytes
have to be accounted for in advance.  From `IInv` follow `TypeCorrect`, `SizeIsKnown`,
`ReadsAuthentic`, `ReadsAll`, `OpensAgain`, and `Refinement`: every step is a
step of `PlainFile` or a stutter.  In the mapping the content changes when the
chunks of a write reach the file, and when the last chunk of a truncation is
rewritten or, at a boundary, when the file is cut.

`VfsFileProofs`: `HandleInv` adds to the types that the printed page lies
within the bounds and, as long as nothing was lost, ends at the position.  That
is what makes `StreamRefinement` work: the abstract content is the file with
the page laid over it (`Content`), so a flush is a stutter, and text joins the
page exactly where the stream writes it.  `CachedLinesFresh` needs `LinesInv` besides:
a page read ahead holds the bytes the file has there, or the file has since been cut
(`cut`), and files have no holes; then the first line end in the page is the
first one in the file.

`EvfsOpenProofs`: `NeverTorn` alone is not inductive, because the file that is renamed over
the original was written step by step before.  `CopyInv` says what the temporary
file holds before each system call of a migration, `MigrationInv` that the original is
still the plain file being copied, and `RenameInv` what is left between removal and
renaming; `CallbackInv` and `OpenInv` tie the handle to the file.  `FileInv` says that
only the last chunk is partial, `SizeInv` that the header has the size of the chunks unless
a write or truncation is between the two or stopped there, and `LeftInv` follows a
temporary file that was left.  That a complete file opens for a caller with its key is
`WholeOpens`, where the full check meets a last chunk that is full.
`ReadOnlyKeepsHolds` is an action property from the same invariant.

`LoggerProofs`: a message is in one of four places, and `KeptInv` follows it from
`own` (its thread's) to the list, to the `todo` of a thread that flushes, to `output`, per handler
(`GivenInv`).  Order is five statements (`OrderInv`): what is pending is in
order, what a thread still has in hand is later than what it has pending, and the same
for what each handler was given.  They hold as long as no other thread logs a fatal
message and the log thread did not leave at the wrong moment (`raced`).

`TlsProofs` proves one invariant for each backend.  `MInv`: a context that is set up is
on the wrapper's configuration, whose mind about key material has not changed, so that a
profile never appears without its keys.  `OInv`: an `SSL_CTX` has as many
references as contexts on it, and one more for an owner (`ORefs`, by the cardinality
lemmas of the library).  `OCallbacks`: data that one set-up was given belongs to one
context and is alive as long as that has it (`OOwned`); data that several were given is what
`LifetimesKept` excepts.

`CryptoProofs` has an invariant for each part of `MCCrypto`.  `DhmInv`: a key is made from the
present value of the party and the one it has of its peer.  `EccInv`: public keys are those of
the secret keys once made or converted, and are of their curve.  `FlagsInv`: the flags of the
library are the images of those asked for, and no two flags have one bit.  `CertInv`: what
was loaded is embedded in the chain, in order, and the generated certificate stays at its front.
`BackendsHold` compares the answers of the two libraries for every size up to `SizeMax`.
`SampleInv` is a type: `CodecsHold` is about arithmetic (three bytes to four characters).
`WrapInv` says that the text on its way is the one of a trace of wrapping steps
(`Trace`), or one that was changed.  `UnwrapHolds` is a fact about two loops of any length.
No induction theorem that takes a predicate can be used, so such facts are
shown by the least (`LeastNumber`) or greatest (`GreatestNumber`) turn that would break
them: `Iterates` gives the values of a loop, `UnwrapUndoes` the turn from which on unwrapping
has undone wrapping, and `MovedFails` that registers that differ once differ to the end.

For `FileHolds` (last part of `CryptoProofs`) the invariant is in three parts.  `SenderInv`: the sender's context has the
cipher text of what it took (`GoodAt`), or lost a chunk and has too little
(`BehindAt`).  `RecvInv`: the receiver's context has what was read of the text on its way, and the
verdict is the comparison of the tag with that text (`Judged`).  `FileType`: a stream is at a block
boundary until its last chunk.  That is where the two libraries agree:
`Processed` shows that a chunk after whole blocks adds the same text, up to padding, in
either, and `ChunkPadded` that padding chunk by chunk is padding once.

`UtilitiesProofs` has an invariant for each part of `MCUtilities` but the directories.
`ListInv`: each of the two lists is a sequence of nodes without repetition that both pointers
follow (`IsList`, `TwoLists`); it is shown for every function of `list.c` from lemmas about one
cut (`UnlinkIs`), one insertion (`InsertIs`) and one concatenation (`ConcatIs`), and the
loops by the least turn that would break it.  `MapInv`: the pairs are in order and what an iterator in use
points to is in the map.  `AddrInv`: the nodes of a result are all those made and not freed;
`FreeAll` follows the loop that cuts a result into runs of one owner.  `CondInv` adds to
`WakeupKept` where each consumer is.  `ValuesInv` has the types, and `ValuesHold` is arithmetic
with the division of C.

`LogProofs`: `DomainInv` has the mutex (`MutexInv`: a thread between its look and the end of a
creation has it), and that a name has one domain whose mask is the one last set; `NullInv`
the same for `NULL` until the logger is made again.  `TagInv`: the stack with counts
encodes the plain stack (`Encodes`), and the list of a thread that is not marked is the one of its
stacks.  `FilesInv`: the files under the names, the one of the stream and the free ones are
different files, the numbers of messages grow from file to file, and the counted size is that of the
file; a rotation (`Rotated`) moves names, not messages.

Assumptions: only the named `ASSUME`s of the modules.  The sizes are natural
numbers, and positive where the code divides by them or a file or text is not empty; the fill byte is
a byte, the marker for no byte is none; the set of contexts is finite and no callback
data is called "none" (`TlsAssumption`); texts are sequences of blocks, directories
have two files (`CryptoAssumption`, which is the bound of `parse_path` in the model), and
`SizeMax` is a number; nodes of lists are finitely many numbers but 0, the names of threads and
domains are none of the values that stand for none, a millisecond and a second are not nothing,
and messages have a greatest length (the five assumptions of `MCUtilities`).

Only model-checked:

* liveness (`StoredIsOutput`, `RunEnds`), which is outside TLAPS as used here;
* `TreeRemoved`: what a removal leaves is computed by functions that recurse over trees of
  paths and links, and its statement needs induction over data;
* `VerdictCounts`: it sums the reports of processes with folds over sequences that are
  filtered (`SelectSeq`), about which the provers know nothing;
* the four violations, by their counterexamples.

## 5. What is not modelled

* Encrypted files: two handles on one file, a header write that is cut (it is
  one step here), writes of no bytes that encrypt a chunk again, reads of no
  bytes, the chunk size a callback sets; in `EvfsOpen`, `std::remove` and
  `std::rename` succeed.
* Handles: `O_APPEND` (modes `a` and `a+`), the default VFS, text that holds
  the character 0x04, which the code uses as its mark.
* Logger: handlers added or removed while threads log, allocation failures, the
  C++ stream in front of it.
* TLS: cipher suite strings, verification modes of OpenSSL, what the libraries
  exchange.  Crypto: the algorithms, random generators.
* Portability: threads, processes, pipes, sockets and shared memory, which are
  one call of the system each.
* Test runner: CUnit, resource paths, leak detection, colours.
* Virtual sockets (a table of function pointers), the parser (belr), parameter
  strings, character conversion (iconv), exceptions and backtraces: adapters and
  text without control of their own.

## 6. Plan

Done, in the order of what a failure costs: data in files, the logger every
thread shares, migration and keys, TLS and the crypto wrappers, log files, tags and
domains, containers and portability, the test runner.

Theorems about them: all safety properties but two.  Left: the counts of `Tester` for
any number of processes, after writing the filters of its summary as functions; what a removal
leaves of a tree of any depth; handlers that are added and removed while threads log, once the code
has a rule for it.
