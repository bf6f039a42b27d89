---------------------------- MODULE PooledReader ----------------------------
(***************************************************************************)
(* Reading the files of one folder through the pool of folder readers      *)
(* (internal/pool/pool.go, fileReader and File.Open in reader.go,          *)
(* folderReadCloser in struct.go).                                         *)
(*                                                                         *)
(* A folder reader decodes the folder forwards only.  File.Open takes the  *)
(* pooled reader closest before the file, or starts a new one, and seeks   *)
(* it forward; fileReader.Close gives a reader that is not at the end of   *)
(* the folder back to the pool.  Handles are goroutines calling Open, Read *)
(* and Close; each step is what one critical section of the pool, or one   *)
(* call on a reader the goroutine alone holds, does.                       *)
(*                                                                         *)
(* Folders share nothing but the read-only archive, so one is modelled.    *)
(***************************************************************************)
EXTENDS Integers, FiniteSets, SequencesExt

CONSTANTS Handles,     \* goroutines that open files of the folder
          Files,       \* the folder's non-empty files
          Offset,      \* File.offset
          Size,        \* File.UncompressedSize
          FolderSize,  \* folder.unpackSize()
          NumCPU,      \* runtime.NumCPU(), the size of a pool
          Rcs,         \* identities of the folder readers that may be created
          NoRc,        \* nil
          NoFile,      \* of a handle outside Open .. Close
          Faults       \* whether creating, decoding and closing may fail

ASSUME HandlesAssumption == Handles # {}
ASSUME FilesAssumption ==
    Offset \in [Files -> Nat] /\ Size \in [Files -> Nat] /\ NoFile \notin Files
ASSUME SizesAssumption == FolderSize \in Nat /\ NumCPU \in Nat
ASSUME RcsAssumption == NoRc \notin Rcs
ASSUME FaultsAssumption == Faults \in BOOLEAN

\* A folder with a single file gets the no-op pool, whose Put closes the reader
\* at once: that is a pool of size 0.
PoolSize == IF Cardinality(Files) > 1 THEN NumCPU ELSE 0

VARIABLES pool,   \* evictList with items: entries [key, rc], most recent first
          st,     \* of each folder reader: "none" (not created), "open", "closed"
          pos,    \* its WriteCounter: folder bytes decoded so far
          pc,     \* of each handle: "idle", "new", "seek" (inside Open), "open"
          file,   \* the file being opened or read
          rc,     \* fileReader.rc
          n,      \* fileReader.n: bytes of the file still to deliver
          ret     \* the last return: [h, res, from, to], folder bytes from .. to - 1

vars == <<pool, st, pos, pc, file, rc, n, ret>>

Entry == [key : Nat, rc : Rcs]

TypeOK ==
    /\ pool \in Seq(Entry)
    /\ st \in [Rcs -> {"none", "open", "closed"}]
    /\ pos \in [Rcs -> 0 .. FolderSize]
    /\ pc \in [Handles -> {"idle", "new", "seek", "open"}]
    /\ file \in [Handles -> Files \cup {NoFile}]
    /\ rc \in [Handles -> Rcs \cup {NoRc}]
    /\ n \in [Handles -> Nat]
    /\ ret \in [h : Handles, res : {"ok", "eof", "err", "errSeekBackwards"},
                from : Nat, to : Nat]

Return(h, res, from, to) == [h |-> h, res |-> res, from |-> from, to |-> to]

Init ==
    /\ pool = <<>>
    /\ st = [r \in Rcs |-> "none"]
    /\ pos = [r \in Rcs |-> 0]
    /\ pc = [h \in Handles |-> "idle"]
    /\ file = [h \in Handles |-> NoFile]
    /\ rc = [h \in Handles |-> NoRc]
    /\ n = [h \in Handles |-> 0]
    /\ \E h \in Handles : ret = Return(h, "ok", 0, 0)

\* The call of handle h returns an error or has closed it: the fileReader, if
\* there was one, is garbage.
HandleGone(h) ==
    /\ pc' = [pc EXCEPT ![h] = "idle"]
    /\ file' = [file EXCEPT ![h] = NoFile]
    /\ rc' = [rc EXCEPT ![h] = NoRc]
    /\ n' = [n EXCEPT ![h] = 0]

-----------------------------------------------------------------------------
(* pool.Get and pool.Put, each under the pool's mutex.                     *)

\* Mutant: the search forgets to compare with the offset.
CandidatesAll(off) == 1 .. Len(pool)

\* The entries Get may return: the one at the offset and those before it.
Candidates(off) == {i \in 1 .. Len(pool) : pool[i].key <= off}

\* Get returns the exact key, or else the greatest key below the offset.
IsClosest(i, off) ==
    /\ i \in Candidates(off)
    /\ \A j \in Candidates(off) : pool[j].key <= pool[i].key

\* Mutant: Put does not look for the offset first.
PooledNever(off) == FALSE

\* Put finds the offset in the items map already.
Pooled(off) == \E i \in 1 .. Len(pool) : pool[i].key = off

\* The list after PushFront of reader r under key off.
Pushed(off, r) == <<[key |-> off, rc |-> r]>> \o pool

-----------------------------------------------------------------------------
(* File.Open                                                               *)

\* Mutant: Get returns the reader and leaves it in the pool.
OpenHitKeeps(h, f) ==
    /\ pc[h] = "idle"
    /\ \E i \in 1 .. Len(pool) :
          /\ IsClosest(i, Offset[f])
          /\ rc' = [rc EXCEPT ![h] = pool[i].rc]
    /\ pc' = [pc EXCEPT ![h] = "seek"]
    /\ file' = [file EXCEPT ![h] = f]
    /\ UNCHANGED <<pool, st, pos, n, ret>>

\* Open up to and including pool.Get, when it finds a reader.
OpenHit(h, f) ==
    /\ pc[h] = "idle"
    /\ \E i \in 1 .. Len(pool) :
          /\ IsClosest(i, Offset[f])
          /\ rc' = [rc EXCEPT ![h] = pool[i].rc]
          /\ pool' = RemoveAt(pool, i)
    /\ pc' = [pc EXCEPT ![h] = "seek"]
    /\ file' = [file EXCEPT ![h] = f]
    /\ UNCHANGED <<st, pos, n, ret>>

\* Open up to and including pool.Get, when no pooled reader is at or before the file.
OpenMiss(h, f) ==
    /\ pc[h] = "idle"
    /\ Candidates(Offset[f]) = {}
    /\ pc' = [pc EXCEPT ![h] = "new"]
    /\ file' = [file EXCEPT ![h] = f]
    /\ UNCHANGED <<pool, st, pos, rc, n, ret>>

\* folderReader builds a new reader, at the start of the folder.
NewFolderReader(h) ==
    /\ pc[h] = "new"
    /\ \E r \in Rcs :
          /\ st[r] = "none"
          /\ st' = [st EXCEPT ![r] = "open"]
          /\ pos' = [pos EXCEPT ![r] = 0]
          /\ rc' = [rc EXCEPT ![h] = r]
    /\ pc' = [pc EXCEPT ![h] = "seek"]
    /\ UNCHANGED <<pool, file, n, ret>>

\* folderReader fails: Open returns a ReadError.
NewFolderReaderFails(h) ==
    /\ pc[h] = "new"
    /\ Faults
    /\ HandleGone(h)
    /\ ret' = Return(h, "err", 0, 0)
    /\ UNCHANGED <<pool, st, pos>>

\* Mutant: Open uses the reader where it stands.
SeekOKSkipped(h) ==
    /\ pc[h] = "seek"
    /\ n' = [n EXCEPT ![h] = Size[file[h]]]
    /\ pc' = [pc EXCEPT ![h] = "open"]
    /\ ret' = Return(h, "ok", 0, 0)
    /\ UNCHANGED <<pool, st, pos, file, rc>>

\* rc.Seek(offset, io.SeekStart) succeeds: the bytes up to the offset are
\* decoded and discarded, and Open returns a fileReader.
SeekOK(h) ==
    /\ pc[h] = "seek"
    /\ pos[rc[h]] <= Offset[file[h]]
    /\ Offset[file[h]] <= FolderSize
    /\ pos' = [pos EXCEPT ![rc[h]] = Offset[file[h]]]
    /\ n' = [n EXCEPT ![h] = Size[file[h]]]
    /\ pc' = [pc EXCEPT ![h] = "open"]
    /\ ret' = Return(h, "ok", 0, 0)
    /\ UNCHANGED <<pool, st, file, rc>>

\* Seek refuses to go backwards.  As in every failure of Seek, Open returns the
\* error and drops the reader: it is neither closed nor given to the pool.
SeekBackwards(h) ==
    /\ Offset[file[h]] < pos[rc[h]]
    /\ ret' = Return(h, "errSeekBackwards", 0, 0)
    /\ UNCHANGED pos

\* Seek refuses to go past the folder's end.
SeekPastEnd(h) ==
    /\ pos[rc[h]] <= Offset[file[h]]
    /\ FolderSize < Offset[file[h]]
    /\ ret' = Return(h, "err", 0, 0)
    /\ UNCHANGED pos

\* Decoding fails after some of the bytes to skip.
SeekDecodeError(h) ==
    /\ Faults
    /\ Offset[file[h]] <= FolderSize
    /\ \E p \in pos[rc[h]] .. Offset[file[h]] - 1 : pos' = [pos EXCEPT ![rc[h]] = p]
    /\ ret' = Return(h, "err", 0, 0)

SeekFails(h) ==
    /\ pc[h] = "seek"
    /\ SeekBackwards(h) \/ SeekPastEnd(h) \/ SeekDecodeError(h)
    /\ HandleGone(h)
    /\ UNCHANGED <<pool, st>>

-----------------------------------------------------------------------------
(* fileReader.Read and fileReader.Close                                    *)

\* Mutant: p is not cut to what is left of the file.
ReadCountsUncut(h) == {k \in 0 .. FolderSize : pos[rc[h]] + k <= FolderSize}

\* How many bytes rc.Read(p) may return: p is cut to what is left of the file,
\* and the last decoder's output to the folder's size.
ReadCounts(h) == {k \in 0 .. n[h] : pos[rc[h]] + k <= FolderSize}

\* The error rc.Read may return with k bytes: io.EOF at the end of the folder,
\* or earlier when the packed data is cut short, or any other failure.
ReadErrors(h, k) ==
    {"nil"} \cup (IF pos[rc[h]] + k = FolderSize THEN {"EOF"} ELSE {})
            \cup (IF Faults THEN {"EOF", "fail"} ELSE {})

\* Mutant: the decoder's io.EOF is passed on as it is.
ReadResultPlain(h, k, e) ==
    CASE e = "nil" -> "ok" [] e = "EOF" -> "eof" [] OTHER -> "err"

\* What fileReader.Read makes of it: io.EOF only once the file is complete,
\* io.ErrUnexpectedEOF (a ReadError) before.
ReadResult(h, k, e) ==
    CASE e = "nil" -> "ok"
      [] e = "EOF" /\ n[h] - k <= 0 -> "eof"
      [] OTHER -> "err"

ReadMore(h) ==
    /\ pc[h] = "open"
    /\ n[h] > 0
    /\ \E k \in ReadCounts(h) :
          /\ pos' = [pos EXCEPT ![rc[h]] = @ + k]
          /\ n' = [n EXCEPT ![h] = @ - k]
          /\ \E e \in ReadErrors(h, k) :
                ret' = Return(h, ReadResult(h, k, e), pos[rc[h]], pos[rc[h]] + k)
    /\ UNCHANGED <<pool, st, pc, file, rc>>

\* Nothing is left of the file: io.EOF without touching the reader.
ReadAtEnd(h) ==
    /\ pc[h] = "open"
    /\ n[h] = 0
    /\ LET end == Offset[file[h]] + Size[file[h]] IN ret' = Return(h, "eof", end, end)
    /\ UNCHANGED <<pool, st, pos, pc, file, rc, n>>

\* Closing a decoder may be refused.
CloseResults == IF Faults THEN {"ok", "err"} ELSE {"ok"}

\* Close of a reader at the end of the folder: the reader itself is closed.
CloseAtEOF(h) ==
    /\ pc[h] = "open"
    /\ pos[rc[h]] = FolderSize
    /\ st' = [st EXCEPT ![rc[h]] = "closed"]
    /\ \E r \in CloseResults : ret' = Return(h, r, 0, 0)
    /\ HandleGone(h)
    /\ UNCHANGED <<pool, pos>>

\* Close before the end of the folder: pool.Put.  A reader whose offset is
\* already pooled is not kept (and not closed); a pool over its size closes its
\* oldest reader.  The caller drops the handle whatever Close returned.
ClosePut(h) ==
    LET off  == pos[rc[h]]
        list == Pushed(off, rc[h])
    IN  /\ pc[h] = "open"
        /\ off # FolderSize
        /\ \/ /\ Pooled(off)
              /\ ret' = Return(h, "ok", 0, 0)
              /\ UNCHANGED <<pool, st>>
           \/ /\ ~Pooled(off)
              /\ Len(list) <= PoolSize
              /\ pool' = list
              /\ ret' = Return(h, "ok", 0, 0)
              /\ UNCHANGED st
           \/ /\ ~Pooled(off)
              /\ Len(list) > PoolSize
              /\ pool' = RemoveAt(list, Len(list))
              /\ st' = [st EXCEPT ![list[Len(list)].rc] = "closed"]
              /\ \E r \in CloseResults : ret' = Return(h, r, 0, 0)
        /\ HandleGone(h)
        /\ UNCHANGED pos

-----------------------------------------------------------------------------
\* Reader.ReleasePool (also the first thing ReadCloser.Close does): pool.Close
\* closes every pooled reader, at any time, and leaves an empty usable pool.
ReleasePool ==
    /\ pool # <<>>
    /\ pool' = <<>>
    /\ st' = [r \in Rcs |-> IF \E i \in 1 .. Len(pool) : pool[i].rc = r
                            THEN "closed" ELSE st[r]]
    /\ UNCHANGED <<pos, pc, file, rc, n, ret>>

Next ==
    \/ \E h \in Handles :
          \/ \E f \in Files : OpenHit(h, f) \/ OpenMiss(h, f)
          \/ NewFolderReader(h)
          \/ NewFolderReaderFails(h)
          \/ SeekOK(h)
          \/ SeekFails(h)
          \/ ReadMore(h)
          \/ ReadAtEnd(h)
          \/ CloseAtEOF(h)
          \/ ClosePut(h)
    \/ ReleasePool

Spec == Init /\ [][Next]_vars

-----------------------------------------------------------------------------
(* Properties                                                              *)

\* Handle h holds a folder reader.
Holds(h) == pc[h] \in {"seek", "open"}

\* The pool is an index of live readers by where they are: entry keys are
\* distinct, each is the position its reader really is at, short of the
\* folder's end, and there are never more than PoolSize of them.
PoolIndexesPositions ==
    /\ Len(pool) <= PoolSize
    /\ \A i \in 1 .. Len(pool) :
          /\ st[pool[i].rc] = "open"
          /\ pool[i].key = pos[pool[i].rc]
          /\ pool[i].key < FolderSize
    /\ \A i, j \in 1 .. Len(pool) : i # j => pool[i].key # pool[j].key

\* A folder reader is used by one goroutine at a time: no two open handles, and
\* no handle and the pool, share one, and a held reader has not been closed
\* (by an eviction or by a ReleasePool running at the same time).
ExclusiveReaders ==
    \A h \in Handles : Holds(h) =>
       /\ st[rc[h]] = "open"
       /\ \A g \in Handles : Holds(g) /\ g # h => rc[g] # rc[h]
       /\ \A i \in 1 .. Len(pool) : pool[i].rc # rc[h]

\* An open handle's reader stands exactly where the handle's next byte is, so
\* what Read returns is the file's own content however the reader got there.
ReaderAtCursor ==
    \A h \in Handles : pc[h] = "open" =>
        pos[rc[h]] + n[h] = Offset[file[h]] + Size[file[h]]

\* The reader Get hands to Open is never past the file: Open cannot fail with
\* errSeekBackwards.
NeverSeeksBackwards ==
    /\ \A h \in Handles : pc[h] = "seek" => pos[rc[h]] <= Offset[file[h]]
    /\ ret.res # "errSeekBackwards"

\* The refinement mapping: a handle inside Open is "opening", and has read what
\* is no longer left of its file.
AbsState == [h \in Handles |-> IF pc[h] \in {"new", "seek"} THEN "opening" ELSE pc[h]]
AbsRead  == [h \in Handles |-> IF pc[h] = "open" THEN Size[file[h]] - n[h] ELSE 0]

Streams == INSTANCE FileStreams WITH state <- AbsState, read <- AbsRead

\* Pooled folder reading implements independent cursors over the files: each Read
\* returns the next bytes of the handle's own file, and io.EOF only at its end,
\* whatever readers the handles pass to each other through the pool.
FileStreamsSpec == Streams!Spec

\* "ReleasePool closes the folder readers that were kept for reuse [...] a
\* Reader created by NewReader (which has no Close) should call ReleasePool when
\* it is done" (reader.go:603): with every file closed and the pool released, no
\* folder reader is left open.
NoReaderOutlivesRelease ==
    (\A h \in Handles : pc[h] = "idle") /\ pool = <<>>
        => \A r \in Rcs : st[r] # "open"
=============================================================================
