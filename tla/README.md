# A TLA+ model of the sevenzip package

This directory holds TLA+ modules that model the Go package `sevenzip` (reading
and writing 7z archives), TLC configurations that check them on small instances,
and TLAPS proofs that hold for every value of the constants. `PROJECT.json` maps
every definition to the lines it models and lists the runs, mutants, findings,
hazards and theorems.

## 1. Inventory

| Component | Source | State | Operations | Interacts with |
|---|---|---|---|---|
| Reader pool | `internal/pool/pool.go` | LRU list of folder readers keyed by offset | `Get`, `Put`, `Close` | file readers, `ReleasePool` |
| File readers | `reader.go` (`File.Open`, `fileReader`), `struct.go` (`folderReadCloser`) | reader in use, bytes left; position of a folder reader | `Open`, `Read`, `Close`, `Seek` | pool, coder graph |
| Archive writer | `writer.go` | files, folders, current file, spool channel, coordinator's map and sequence number | `CreateHeader`, `Write`, `Close` of a file, coordinator, `Writer.Close` | spool, header encoding, output file |
| Header encoding | `write_struct.go`, `write_types.go` | none | `write*` | writer |
| Header decoding | `types.go` | none | `read*` | `Reader.init` |
| Archive container | `writer.go`, `reader.go`, `struct.go` | the file: signature header, start header, body, packed header, metadata | `Writer.Close`, `Reader.init`, `folderReader` | all of the above |
| AES | `internal/aes7z` | shared coder properties, key cache, IV and key of each reader | `NewReader`, `Password`, `calculateKey`, `Read` | coder graph |
| Coder graph | `struct.go`, `register.go` | inputs and outputs of the coders of a folder | `folderReader`, `coderReader` | decoders |
| fs.FS view | `reader.go` | sorted list of entries | `Open`, `ReadDir` | file readers |
| Volumes, signature | `reader.go` | open volume files | `openReader`, `findSignature`, `ReadCloser.Close` | `Reader.init` |
| Spool | `spool.go` | buffer or temporary file | `Write`, `Reader`, `Close` | writer, coordinator |
| Filters | `internal/delta`, `bra`, `bcj2` | partial blocks | `Read` | coder graph |
| Decoder wrappers | `internal/lzma`, `lzma2`, `zstd`, ... | third-party decoders, some pooled | `Read`, `Close` | coder graph |

What is hard: goroutines share folder readers through the pool; in the concurrent
mode goroutines finish files in any order while one coordinator writes them in the
order of creation, through a bounded channel that `Writer.Close` closes; every
stage may fail; `Close` must leave no half-written file that looks like an archive;
the reader and the writer of the header are separate programs that must agree on
every optional section, count and bit; readers of an encrypted folder share its
properties and a cache; filters keep state across reads of any length; decoders are
taken from and put back into pools that all folders share; a directory is found by
two binary searches that must agree with the order of a sort. The full list, at the lines, is under `hazards`.

What makes each part correct: a handle reads exactly its own file, in order, and
sees end-of-file only at its end (file readers); a reader is used by one goroutine
at a time (pool); a nil `Close` means that every file reads back (writer); decoding
inverts encoding, up to the resolution of file times (header); only finished
archives open (container); every reader has its folder's key and IV (AES); an
accepted folder is a tree of coders and a pooled decoder has one owner (coder graph);
whatever the sizes of the reads, a filter delivers the stream that was encoded and
ends where it ends (filters); no volume stays open or is closed twice, and the search
finds the archive a look at the whole file finds (volumes); a directory lists each
child once, and what it lists opens (fs.FS).

## 2. Modules

| Module | Models | State and actions |
|---|---|---|
| `FileStreams` | the promise of `File.Open`: independent cursors | abstract specification |
| `PooledReader` | pool, file readers, folder readers of one folder | `OpenHit`/`OpenMiss` (`Open` up to `pool.Get`), `NewFolderReader`, `SeekOK`/`SeekFails`, `ReadMore`/`ReadAtEnd`, `CloseAtEOF`/`ClosePut`, `ReleasePool` |
| `Layout` | `FileFolderAndSize`, `folderOffset`, offsets of files | operators |
| `ArchiveWriter` | the writer, its goroutines and the coordinator | one action per call or, in the concurrent mode, per part of `fileWriter.Close` and of `Writer.Close` between two synchronisations |
| `HeaderFormat`, `HeaderWriter`, `HeaderReader` | ids, `write*`, `read*` | operators on token sequences |
| `Archive` | `Writer.Close` to `Reader.init` and back to the files | `Create`, the five stages of `Close`, `Crash`, `Truncate`, `Open` |
| `AesReader` | `aes7z.NewReader`, `Password`, `calculateKey`, key cache | one action per part between accesses to shared memory |
| `ByteStream` | the promise of a decoder's `Read`: a stream in pieces | abstract specification |
| `Branch` | the converters of `internal/bra` (`arm`, `arm64`, `ppc`, `sparc`, `bcj`) | operators on bytes and words |
| `FilterReader` | `Read` of `delta`, `bra`, `aes7z` and `bcj2` behind `LimitReadCloser` | `Read`, `LimitEOF`, `ReadFails`, one disjunct per filter |
| `CoderGraph` | `folderReader`, `coderReader`, the wrappers' constructors and `Close`, the shared `sync.Pool`s | `Start`, `Make*` and their failures per coder, `Finish`, `Close` |
| `FileList` | `toValidName`, `initFileList`, `openLookup`, `openReadDir`; `sort.Slice` and `sort.Search` as they behave | operators on paths |
| `ReadCloser` | `OpenReader`, volumes, `findSignature`, `NewReader`, `Reader.Open`, `ReadDir`, `Close` | one action per step of `openReader` that may fail, `InitReader`, `NewReader`, `Open`, `ReadDir`, `Close` |
| `PooledReader_proofs`, `ArchiveWriter_proofs`, `AesReader_proofs`, `CoderGraph_proofs`, `ReadCloser_proofs` | theorems about the module of the name | |
| `ArchiveWriter_roundtrip` | the theorem that what was written is read back | |
| `FileList_proofs` | what the operators of `FileList` return, for `ReadCloser_proofs` | lemmas |
| `SequenceLemmas` | facts on sequences, flattening, ascending sequences and recursion that the proofs share | lemmas |

`ArchiveWriter` and `HeaderReader` extend `Layout`, so both use the reader's own way
to find a file; `Archive` composes `HeaderWriter` and `HeaderReader`; `FilterReader`
composes the converters of `Branch` with the buffering around them and is shown to
implement `ByteStream`; `ReadCloser` opens what `FileList` lists. The `MC*` modules
give the constants values for TLC.

How data is abstracted. `PooledReader` identifies a folder's byte with its position,
so a range of positions tells which bytes a caller got. `ArchiveWriter` counts
compressed output in chunks and names each chunk after its folder. The header is a
sequence of tokens, natural numbers: a byte, a checksum, a file time or a character
of a name is one token; flag vectors are really packed, `ByteBits` to a token, and
variable-length numbers really are a first byte and up to `NumberBits` more, of
`NumberBits` bits each (8 in the code). Absent sections are `Nil`. CRC-32, LZMA2 and AES are external: a
hash, a shift with an end mark, and a shift by a key over padded blocks.
They keep what the code relies on: checksums detect changes, decompression stops at
the end mark and fails without one, a wrong key gives other bytes.

In `Branch` and `FilterReader` a byte has four bits and a word four bytes, with the
masks and shifts of the code scaled to that; carries and the ranges of branch targets
stay. The range coder of `bcj2` is abstracted to what its two ends must agree on: the
coded bits and the probability each was coded under. In `CoderGraph` methods are
grouped by what their constructor and their `Close` do. `ReadCloser` has one cell for
a byte, and one for all of a start header. A path of `FileList` is the sequence of its
elements, which are numbers in the order of the strings.

Undefined or unchecked behaviour. A send on a closed channel is the state `panic`
of a file writer, an index out of range in a malformed folder the phase `panic` of a
folder reader, the failed type assertion of `Reader.Open` an outcome, and the endless
loop of a delta filter the result `hang`. Index panics of the header decoder on malformed headers are not
modelled: it is only given what the writer wrote, prefixes of it, and what a wrong
password makes of it.

## 3. Runs

Deadlock is checked except where the system really may stop (everything has been
opened, read or closed), that is, in all runs but those of `PooledReader`.

| Run | Shows |
|---|---|
| `pooled_reader` | types, the index property of the pool, exclusive use, cursors, no backward seeks, refinement of `FileStreams` |
| `pooled_reader_leak` | *violation*: a reader put at a pooled offset is neither kept nor closed, and `ReleasePool` misses it |
| `archive_writer` | all three modes, two files and a directory: types, round trip, order of the body, spools closed; after failures and with files closed too late, of what is not touched by them |
| `archive_writer_live` | concurrent mode, three files: round trip and order of the body, only a late `Close` sends on the closed channel; `Close` returns; a blocked send completes, or panics once `Writer.Close` has closed the channel |
| `archive_writer_implicit` | *violation*: `CreateHeader` does not close the current file in the concurrent mode |
| `archive` | header and contents round-trip; finished archives open; a wrong password is rejected; an interrupted or truncated file does not open, or as an archive that one of its members is |
| `archive_directories` | *violation*: an archive of directories only cannot be opened |
| `aes_reader` | keys and cache are right under concurrent opens; long passwords leave the IV alone |
| `aes_reader_reopen` | *violation*: a short password overwrites the stored IV, so a second open of the folder has a wrong IV |
| `filters` | what a filter buffers is what comes next, the stream arrives whole (refinement of `ByteStream`), reading ends |
| `coder_graph` | accepted folders are trees, the two sizes of a folder agree, pooled decoders have one owner, a successful `Close` returns them all |
| `read_closer` | handles closed once, the archive found, lookups agree with the list, directories complete, what is listed opens by its listed name |

Bounds.

* `pooled_reader`: two handles, four readers over the whole behaviour, four files of
  a folder of four bytes (one of them longer than the folder), a pool of two. Two
  handles and a full pool make every hand-over, eviction and duplicate happen; the
  theorems remove the bound.
* `archive_writer`: two files and a directory in all three modes, one `Write` of one unit
  each (`MaxUnits`), a spool that spills at its second chunk (`SpoolCap`) and every kind
  of failure (`Faults`): setting up a folder, a `Write` in the middle (the compressor,
  the cipher, the output file, creating or writing the spool's temporary file), the last
  write of a folder, an unnoticed spill, a copy, the header. Callers may close a file
  before, while and after `Writer.Close` runs. The channel has one slot, so that two
  files fill it and the second blocks. The live run has three files in the concurrent
  mode, no `Write`, and failures of a folder's last write and of copies: one folder may
  be with the coordinator, whose copy fails, one in the channel and one blocked. The
  theorems remove all of these bounds.
* `archive`: three entries, contents of 0 to 2 bytes, two flags to a byte so that
  three entries need two bytes, ticks of two time units so that times are rounded;
  archives of at most `MaxCutFiles` entries are truncated, at every position. One of the
  contents is itself an archive behind other bytes, with a signature that is none in
  front of it, so that the search of the body finds candidates of both kinds.
  `MaxCount` and `Word` stand for the limits 2^32 - 1 and 2^64. Numbers have four-bit
  bytes (`NumberBits`); headers use their three shortest forms, and the assumption
  `Uint64RoundTrip` of `MCArchive` has TLC check that reading inverts writing for all
  65536 values, so for every form.
* `aes_reader`: three opens of three folders, a cache of one entry, so that keys are
  shared, evicted and derived twice; one folder has too many cycles.
* `filters`: streams of up to 11 bytes of four bits, read in pieces of 1, 3 and 6, so
  shorter and longer than a word; branches at both ends of their ranges, instructions
  that only look like branches, tails too short to convert; inputs 3 or 4 bytes short
  or failing; delta distances 1, 2, 3 and the one that wraps to 0; a buffer of four
  bytes for `bcj2`.
* `coder_graph`: two concurrent readers of a folder, three decoders; every way to bind
  up to three coders of one or two inputs, out-of-range and repeated indexes included,
  and chains and forks of all methods. The theorems remove the bounds.
* `read_closer`: contents of up to seven cells over three symbols, a signature of two
  cells and chunks of two, so that it falls on every side of a chunk's border, and a
  limit of two chunks; three volumes with and without gaps; up to three members out of
  thirteen names: nested, rooted, with `.` and `..`, with a slash or a backslash at the
  end or inside, one a prefix of another, one that sorts before `.`, and repeated.

Exceptions. Some properties name the cases in which the code does not do what they say
and claim the rest. All of these behaviours are in the models.

* `RoundTrip`: `SpillLost` (a spill that fails is not noticed). `Claimed` leaves out the
  files behind one whose set-up or `Close` failed, and all files of a folder in which a
  `Write` failed: in the solid mode they share the broken stream, and the caller was
  told. `InTime` leaves out the files from the first on that its caller had not closed
  when it called `Writer.Close`, except the current one, which `Writer.Close` closes.
* `NoSendOnClosedChannel`, `SpoolsReleased`: the same late files (`late`). They do panic
  in the model, and in the code: `fileWriter.Close` returns at once for a file that
  another goroutine is closing (`writer.go:272`), and `Writer.Close` waits for nobody
  else before `close(w.spools)`.
* `UnfinishedRejected`: before the signature is written, bytes 0 to 31 are zero, so the
  reader searches the body, and a member stored as it is may be an archive. The property
  says that nothing but such a member opens, and nothing at all once the signature is
  there or if the archive is encrypted.
* `Sound` and `Stalls` (`DeliversStream`, `BufferedIsNext`, `Ends`): a delta distance of
  256 loops, delta does not report the end of its input, `bcj2` loses a byte that comes
  together with `io.EOF`.
* `PackedCounted` (`AcceptedIsTree`, `SizesAgree`, `CloseReleases`): one packed stream and
  several inputs without a bind pair.
* `Excepted` and `Misnamed` (`ListedOpens`): members called `.` or `..`; empty files, for
  which `Reader.Open` panics; and files that `ReadDir` lists by another name than their
  path has: `headerFileInfo.Name` is `path.Base` of the raw name, in which a backslash
  is an ordinary character and `..` is not resolved. A member `a\b` is the file `a/b` and
  listed in `a` as `a\b`, so a walk of the tree looks for `a/a\b`, which does not exist.

Fairness (`ArchiveWriter!FairSpec`): weak fairness of each goroutine inside
`fileWriter.Close`, of the coordinator and of `Writer.Close` once called, which is
what the Go scheduler gives to runnable goroutines. Callers owe nothing: nobody has
to create, write or close. The coordinator exits only after the channel was closed, and
then a blocked send panics, which is why `SendsComplete` allows that end.
`FilterReader!Spec` assumes weak fairness of the reads: a caller like `io.Copy` reads
until it is told to stop. Nothing is assumed about how much a read returns.

Every property of a passing run has a mutant, a changed definition next to the
original (comments `Mutant:`), under which TLC finds the property violated.

## 4. Proofs

`PooledReader_proofs` proves, for every number of handles, files, readers and every
pool size, that `PooledReader!Spec` keeps `TypeOK`, `PoolIndexesPositions`,
`ExclusiveReaders`, `ReaderAtCursor` and `NeverSeeksBackwards`, and that it
implements `FileStreams!Spec`. It uses the assumptions on the constants named in
`PooledReader` and no others.

None of these invariants is inductive alone. The proof is about their conjunction
`Inv`, with `HandlesBound` (what an idle, a creating and a holding handle has in
`file`, `rc` and `n`). `ReaderAtCursor` after `SeekOK` needs that the reader is not
past the file, which is `NeverSeeksBackwards` after `OpenHit`, which needs that the
key of an entry is its reader's position (`PoolIndexesPositions`), which survives
the steps of other handles because their readers are not in the pool
(`ExclusiveReaders`). One lemma per action shows that `Inv` is kept; lemmas on
`RemoveAt` and on the list after a push say what happens to the entries. The
refinement theorem shows that each step is a step of `FileStreams` or changes none
of its variables, given `Inv`.

`CoderGraph_proofs` proves, for every folder that `readFolder` may return and any
number of readers and decoders, `TypeOK`, `DecodersExclusive`, `AcceptedIsTree`,
`SizesAgree` and the action property `CloseReleases`. The assumption on folders is what `readFolder` computes (`first`, `out`,
the number of bind pairs), not that they are well formed. The invariant `Inv` adds
`Wired` (an input of a coder that was made reads its packed stream or the earlier
coder its first bind pair names; the others read nothing yet), `Accepted`,
`NewUnbuilt` and `PooledHave`. The tree follows from `Wired` by counting (`TreeOf`):
each input that is not packed has a first bind pair of its own and there are as many
bind pairs as such inputs, so each pair is one input's and names an earlier output,
none names the last, and by counting again no two name the same. The running sums of
the coders' inputs, which divide the inputs among the coders, are handled by smallest
counterexamples. `DecodersExclusive` needs that `Close` puts back exactly decoders its
wrappers forget. `CloseReleases` follows from the tree: each coder but the last is read
by a later one, so `Close` is called on all of them, and a `Close` that succeeds at the
last coder succeeded at all its inputs (`TreeInduction`). `Called` and `CloseOk` are
recursive; that they have a solution is shown by giving one: the function that is true
everywhere, and the largest set of coders that is closed under inputs and in which no
decoder refuses to close.

`ArchiveWriter_proofs` proves `TypeOK`, `NoSendOnClosedChannel`, `BodyInOrder` and
`SpoolsReleased`, for any number of files, any channel size, spool capacity and faults.
Nothing is assumed about the callers: they may write and close when they like, also
after `Writer.Close`. The invariant adds:

* `CloseStages`: the channel is closed only in the stages behind `close(w.spools)`.
* `Belated`: once `Writer.Close` was called, every file not closed is late, or is the
  current one while `Writer.Close` waits for it. Together they give
  `NoSendOnClosedChannel`: the current file is past its send before the channel is closed.
* `Folded`, `Owned`, `SentWhenClosed`: in the concurrent mode folders and file writers
  belong to each other one to one, and a folder is with the coordinator (copied, in its
  map or in the channel) exactly if its file writer is past its send.
* `Coordinated`: outside its drain loop the coordinator's next number is not in its map,
  and it exits only with the channel closed and empty. So at the end nothing it was sent
  is left: a smallest number not yet copied would be in the map.
* `SpoolsOf`, `ErrorsReported`: spools of copied folders are closed; a failed file was
  reported. So a folder before the first late one was sent, and hence copied.

`BodyInOrder` is kept because a copy appends exactly the chunks of the next folder,
whose counts nobody changes after its send.

`ArchiveWriter_roundtrip` proves `RoundTrip`, under no further assumption: after a
`Writer.Close` that reports no error, the reader's arithmetic on the header (folder,
offset and size of each file, `Layout`) finds every file that the property claims with
the bytes that were written to it, whatever else failed or was late. The invariant
`RoundInv` adds to that of `ArchiveWriter_proofs`:

* `Books`: which files are in which folder and in which order, the number of the
  stream that a file of the list gets, and that a folder's content is what was written
  to its files, one after the other.
* `Finished`: a closed file's size is that of what was written to it, and its folder is
  closed, except in the solid mode.
* `Sequential`: without the coordinator the output is, at every moment, the chunks of
  the folders in order, torn ones by what reached the file (`Emitted` adds what
  `countWriter` counts), and only the last file created is open.
* `Ending`: the header has a folder for each of `w.folders` and is written only when no
  copy failed. It describes those folders as they are that no late file has (`Settled`,
  `Describes`). A late file may still change its own folder and size behind the header,
  and nothing else (`TouchesOwn`, `DescribedLate`), and every folder before it is settled
  (`SettledFirst`), which is enough for the offsets of the files claimed.

The reader's side is a set of lemmas on `Layout` for any list of sizes: the running
totals of the folders' sizes say where a folder starts (`Totals`), those within a folder
where a file starts (`FileOffsets`), and the part of a flattened sequence between two
totals is the element between them.

`AesReader_proofs` proves `KeyOfFolder`, `CacheBounded` and `LongPasswordKeepsIV` for any
number of opens, folders, salts, passwords and any size of the cache. Opens of a folder
append the password behind its shared salt (`bytes.NewBuffer(salt)`), so a goroutine may
hash what another is writing. `SharedHolds` says why that is harmless: whoever hashes
from the shared properties finds the password there, and the others write the same one.
`SaltStays` and `LongUnwritten` say what is never overwritten: the salt, and the IV when
the password does not fit. (A password that fits does overwrite it: `aes_reader_reopen`.)

`ReadCloser_proofs` has three parts, all for any scenario, of any number of volumes.

* `HandlesClosed`. The invariant says which handles are open: those of the first
  volumes, as many as `files` lists, while somebody owns them, and none otherwise; and
  that the volumes end at the first missing one.
* `FindsArchive`, for any sizes of chunk, limit and signature. The offsets found are
  ascending and are exactly the signatures up to the limit (`OffsetsAre`): a signature
  starts in the chunk of its quotient, which is read past its end by the length of the
  signature, and the first chunk that meets the end of the reader has the rest. The
  loop over ascending offsets then stops at the first that is good (`LocatedExplains`).
  With the chunks read without the overlap the proof fails where it should.
* The fs.FS view: `TypeOK`, `LookupAgrees`, `PagesComplete` and `ListedOpens`. `ViewInv`
  says that the list is that of the members once it is made, that an open directory is
  one of it, and that the pages seen are its first entries. What the list is comes from
  `FileList_proofs`: `path.Clean` leaves `.` nowhere and `..` only in front, so
  `toValidName` gives `.`, `..` or a plain path, on which `split` is injective and
  `fileEntryLess` a strict total order; sorting a finite set by such an order has a
  unique result (`InOrderSorts`); bisection finds the border of an upward closed set
  (`SearchIs`); and the predicates of `openLookup` and `openReadDir` are upward closed
  in that order. A directory's children, defined from the members alone, are then the
  names whose `split` has it first (`ChildrenAre`). A file is listed by the base of its
  raw name; where that is the last element of its path (no `Misnamed`), joining it to the
  directory gives the path back, and `LookupAgrees` finds it.

How recursion is proved about. The provers cannot instantiate the induction theorems of
the library, so `SequenceLemmas` proves induction over `0 .. N` for a set (`Induct`) and
the existence of the solution of a recursion over `0 .. N` (`RecursionExists`) from
smallest counterexamples. `FileList` states `path.Clean`, the entries of the members and
bisection as recursive functions, and sorting by the rank of each element, because
`SortSeq` is implemented outside TLA+ and has no definition to reason about.

Assumptions. Besides the types of the constants, the theorems use what is named in the
modules: a signature and a search limit that are not empty, the limit a multiple of the
chunk; members whose names are sequences of elements. All of them are evaluated by TLC
in the runs.

Only model-checked, and why:

* liveness (`CloseReturns`, `SendsComplete`, `Ends`): out of the prover's reach;
* `Faithful`, `FinishedOpens`, `UnfinishedRejected` of `Archive`: `HeaderReader` and the
  checksum are recursive operators, with which no theorem can be stated;
* `TypeOK`, `BufferedIsNext`, `DeliversStream` of `FilterReader`: the reference encodings
  of AES and `bcj2` are recursive operators.

## 5. Findings

Four statements of the repository's comments do not hold of the code; each is a
`violation` run (section 3) with the quoted line under `findings`.

## 6. Not modelled, and the plan

Not modelled: the `Read`s of the decoder wrappers and the third-party decoders behind
them (`Archive` has LZMA2 as an external codec), the range coder's arithmetic in
`bcj2`, the `sync.Pool`s of spool buffers and compressors, formatting and error texts,
the `fs.FileInfo` accessors and file modes beyond "is a directory", callers that go on
using a file reader whose `Close` failed, `CreateHeader` called concurrently with or after
`Writer.Close`, two goroutines that write the same file, a second `Close` of a
`ReadCloser`, and index panics of the header decoder on malformed headers.

Left out where no verdict rests on it: `readCoder` fails on a single short `Read` of a
method or its properties (`types.go:272`, `types.go:301`); a `bufio.Reader` gives one at
the end of its 4096 bytes, so in longer plain headers, which this writer does not write
(its plain block is short, and the header proper is compressed), and the models read
whole. Times outside about 1678 to 2262 wrap in `time.Unix(0, ...)` (`types.go:662`);
those of `Archive` are small. Elements of a path are compared as numbers, not byte by
byte: both are total orders.
