--------------------------- MODULE ArchiveWriter ---------------------------
(***************************************************************************)
(* Writing an archive (writer.go): CreateHeader, fileWriter, the spool     *)
(* coordinator and Writer.Close, in the sequential, the solid and the      *)
(* concurrent mode.                                                        *)
(*                                                                         *)
(* Jobs are the files to add.  In the concurrent mode every job has a      *)
(* goroutine of its own and fileWriter.Close is split at its channel send; *)
(* in the other modes one goroutine makes all the calls, so each is one    *)
(* step.  Compressed output is counted in chunks: the archive body is the  *)
(* sequence of the folder numbers of the chunks written to it, and a       *)
(* folder's content is the sequence of the jobs of the units fed to its    *)
(* compressor.                                                             *)
(***************************************************************************)
EXTENDS Integers, FiniteSets, SequencesExt, Layout

CONSTANTS Jobs,         \* files and directories to be added
          Dirs,         \* the directories among them
          Options,      \* the WriterOptions tried: records [solid, concurrency]
          Slots,        \* capacity of w.spools (2 per unit of concurrency in the code)
          SpoolCap,     \* chunks a spool buffers before it spills (4 MiB in the code)
          MaxUnits,     \* bound: Write calls per file
          NoJob,        \* nil
          Faults        \* what may fail, see FaultKinds

ASSUME JobsAssumption == Dirs \subseteq Jobs /\ NoJob \notin Jobs
ASSUME OptionsAssumption == Options \subseteq [solid : BOOLEAN, concurrency : Nat]
\* Setting up a folder, a write of the compressor, its last one, writing a spool's
\* buffer to its file, copying a spool to the archive, writing the header.
FaultKinds == {"setup", "write", "compress", "spill", "copy", "header"}

ASSUME BoundsAssumption ==
    /\ MaxUnits \in Nat /\ SpoolCap \in Nat
    /\ Slots \in Nat \ {0} /\ Faults \subseteq FaultKinds

VARIABLES opt,      \* w.solid, w.concurrency
          files,    \* w.files: jobs in the order of CreateHeader
          folders,  \* w.folders: [files, data, n (compCount), kept (in the spool), closed,
                    \*  spool, torn (a write of the compressor failed)]
          current,  \* w.current
          active,   \* w.activeFold: its number, 0 for nil
          pc,       \* of each job's fileWriter
          fold,     \* fileWriter.fold: folder number, 0 for nil
          written,  \* fileWriter.uncompSize
          size,     \* fileInfo.uncompSize, set at the end of fileWriter.Close
          chan,     \* w.spools, oldest first
          chClosed, \* close(w.spools) was called
          coord,    \* the coordinator: [at, map, seq, err]
          wpc,      \* where Writer.Close is, and in the end what it returned
          out,      \* archive body written so far: folder number of each chunk
          hdr,      \* the header written: [si, files]
          failed,   \* some call returned an error
          late      \* files their callers had not closed when they called Writer.Close,
                    \*  the current one excepted if Writer.Close closes it

writerVars == <<opt, files, folders, current, active>>
fileVars == <<pc, fold, written, size>>
coordVars == <<chan, chClosed, coord>>
vars == <<writerVars, fileVars, coordVars, wpc, out, hdr, failed, late>>

NoHeader == [si |-> [pack |-> <<>>, packed |-> <<>>, unpack |-> <<>>,
                     streams |-> <<>>, size |-> <<>>],
             files |-> <<>>]

\* NewWriter starts the coordinator in this mode only.
Concurrent == opt.concurrency > 1 /\ ~opt.solid

\* Where a fileWriter is: open; inside Close, before fold.Close, the send and the
\* publication of the sizes; closed, with or without an error.
FilePcs == {"none", "open", "folding", "sending", "publishing", "done", "error", "panic"}
\* Writer.Close: not called, then before each of its stages, then its result.
WriterPcs == {"open", "current", "closing", "spools", "coordDone", "header",
              "signature", "ok", "err"}

SpoolStates == {"none", "open", "file", "closed"}

\* The fields of Writer, fileWriter and the coordinator are of their types: the
\* channel never holds more than its capacity, and a spool no more than was counted.
TypeOK ==
    /\ opt \in Options
    /\ files \in Seq(Jobs)
    /\ folders \in Seq([files : Seq(Jobs), data : Seq(Jobs), n : Nat, kept : Nat,
                        closed : BOOLEAN, spool : SpoolStates, torn : BOOLEAN])
    /\ \A k \in 1 .. Len(folders) : folders[k].kept <= folders[k].n
    /\ current \in Jobs \cup {NoJob}
    /\ active \in 0 .. Len(folders)
    /\ pc \in [Jobs -> FilePcs]
    /\ fold \in [Jobs -> 0 .. Len(folders)]
    /\ written \in [Jobs -> 0 .. MaxUnits]
    /\ size \in [Jobs -> 0 .. MaxUnits]
    /\ chan \in Seq(1 .. Len(folders)) /\ Len(chan) <= Slots
    /\ chClosed \in BOOLEAN
    /\ coord \in [at : {"recv", "drain", "exit", "gone"}, err : BOOLEAN,
                  map : SUBSET (1 .. Len(folders)), seq : 1 .. Len(folders) + 1]
    /\ wpc \in WriterPcs
    /\ out \in Seq(1 .. Len(folders))
    /\ failed \in BOOLEAN
    /\ late \subseteq Jobs

Init ==
    /\ opt \in Options
    /\ files = <<>> /\ folders = <<>>
    /\ current = NoJob /\ active = 0
    /\ pc = [j \in Jobs |-> "none"]
    /\ fold = [j \in Jobs |-> 0]
    /\ written = [j \in Jobs |-> 0]
    /\ size = [j \in Jobs |-> 0]
    /\ chan = <<>> /\ chClosed = FALSE
    /\ coord = [at |-> IF Concurrent THEN "recv" ELSE "gone", err |-> FALSE,
                map |-> {}, seq |-> 1]
    /\ wpc = "open"
    /\ out = <<>> /\ hdr = NoHeader
    /\ failed = FALSE
    /\ late = {}

-----------------------------------------------------------------------------
(* The compressor of a folder, writing to the archive or to the spool.     *)

(***************************************************************************)
(* spoolWriter.Write of k chunks of folder fo, with no error: they stay in *)
(* the buffer up to SpoolCap; above, the buffer goes to a temporary file,  *)
(* where an error of writing it goes unnoticed, and the chunks behind it.  *)
(* Without a spool they go to the archive.                                 *)
(***************************************************************************)
SpoolWrites(fo, k) ==
    LET spills == k > 0 /\ fo.spool = "open" /\ fo.n + k > SpoolCap
        moved  == IF spills /\ "spill" \in Faults THEN 0 .. fo.kept ELSE {fo.kept}
    IN  {[fo EXCEPT !.n = @ + k, !.kept = m + k, !.spool = IF spills THEN "file" ELSE @] :
            m \in moved}

(***************************************************************************)
(* What a write of a chunk that fails leaves of fo: as it was, when there  *)
(* is no temporary file to be had; with a part of the chunk, which counts  *)
(* as one; or without, after the buffer went to the temporary file.        *)
(***************************************************************************)
SpoolFails(fo) ==
    {fo} \cup SpoolWrites(fo, 1)
    \cup { [g EXCEPT !.n = fo.n, !.kept = @ - 1] : g \in SpoolWrites(fo, 1) }

\* What k chunks of folder f add to the archive body at once: a spool keeps them.
Direct(f, k) == IF Concurrent THEN <<>> ELSE [i \in 1 .. k |-> f]

\* Mutant: countWriter counts what it is given, although nothing was written.
EmittedNothing(f, fo) == <<>>

\* What a failing write that leaves folder f as fo adds to the archive body: what
\* countWriter counted.
Emitted(f, fo) == Direct(f, fo.n - folders[f].n)

\* folderWriter.Close: idempotent; the compressor flushes a last chunk.
CloseFold(fs, f) ==
    IF f = 0 \/ fs[f].closed THEN fs
    ELSE [fs EXCEPT ![f].closed = TRUE, ![f].n = @ + 1, ![f].kept = @ + 1]
FlushFold(fs, f) ==
    IF f = 0 \/ fs[f].closed THEN <<>> ELSE Direct(f, 1)

\* folderWriter.Close fails; the folder counts as closed all the same.
CloseFoldFails(f) ==
    /\ ~folders[f].closed
    /\ \E fo \in SpoolFails(folders[f]) :
          /\ folders' = [folders EXCEPT ![f] = [fo EXCEPT !.closed = TRUE, !.torn = TRUE]]
          /\ out' = out \o Emitted(f, fo)

-----------------------------------------------------------------------------
(* CreateHeader, under w.mu.                                               *)

\* Only the strictly sequential modes close the current file.
ClosesCurrent == current # NoJob /\ ~Concurrent
ImplicitlyClosed(j) == ClosesCurrent /\ j = current /\ pc[j] = "open"

\* The folder an implicit close of the current file closes.
CurrentFold == IF ClosesCurrent /\ pc[current] = "open" /\ ~opt.solid THEN fold[current] ELSE 0

\* What the implicit close does to the fileWriters, before job j's is created.
AfterImplicitClose(j, p) ==
    /\ pc' = [i \in Jobs |-> IF i = j THEN p
                             ELSE IF ImplicitlyClosed(i) THEN "done" ELSE pc[i]]
    /\ size' = [i \in Jobs |-> IF ImplicitlyClosed(i) THEN written[i] ELSE size[i]]

NewFolder(j) ==
    [files |-> <<j>>, data |-> <<>>, n |-> 0, kept |-> 0, closed |-> FALSE,
     spool |-> IF Concurrent THEN "open" ELSE "none", torn |-> FALSE]

CreateDir(j) ==
    /\ j \in Dirs
    /\ pc[j] = "none" /\ wpc = "open"
    /\ AfterImplicitClose(j, "open")
    /\ folders' = CloseFold(folders, CurrentFold)
    /\ out' = out \o FlushFold(folders, CurrentFold)
    /\ files' = Append(files, j)
    /\ current' = j
    /\ UNCHANGED <<opt, active, fold, written, coordVars, wpc, hdr, failed, late>>

\* A file goes to the active folder in the solid mode, to a new one otherwise.
CreateFile(j) ==
    LET fresh   == active = 0 \/ ~opt.solid
        closing == CloseFold(folders, CurrentFold)
        prev    == IF fresh /\ active # 0 /\ ~Concurrent THEN active ELSE 0
        ready   == CloseFold(closing, prev)
    IN  /\ j \in Jobs \ Dirs
        /\ pc[j] = "none" /\ wpc = "open"
        /\ AfterImplicitClose(j, "open")
        /\ out' = out \o FlushFold(folders, CurrentFold) \o FlushFold(closing, prev)
        /\ folders' = IF fresh THEN Append(ready, NewFolder(j))
                      ELSE [ready EXCEPT ![active].files = Append(@, j)]
        /\ active' = IF fresh THEN Len(folders) + 1 ELSE active
        /\ fold' = [fold EXCEPT ![j] = active']
        /\ files' = Append(files, j)
        /\ current' = j
        /\ UNCHANGED <<opt, written, coordVars, wpc, hdr, failed, late>>

\* The implicit close of the current file fails: nothing is added.
CreateFails(j) ==
    /\ "compress" \in Faults
    /\ pc[j] = "none" /\ wpc = "open"
    /\ CurrentFold # 0
    /\ CloseFoldFails(CurrentFold)
    /\ pc' = [pc EXCEPT ![current] = "error"]
    /\ failed' = TRUE
    /\ UNCHANGED <<opt, files, current, active, fold, written, size, coordVars, wpc, hdr, late>>

\* The random source, the cipher or the compressor of a new folder fails: the file
\* stays in w.files although it has no folder and no fileWriter.
SetupFails(j) ==
    /\ "setup" \in Faults
    /\ j \in Jobs \ Dirs
    /\ pc[j] = "none" /\ wpc = "open"
    /\ active = 0 \/ ~opt.solid
    /\ AfterImplicitClose(j, "error")
    /\ folders' = CloseFold(folders, CurrentFold)
    /\ out' = out \o FlushFold(folders, CurrentFold)
    /\ files' = Append(files, j)
    /\ failed' = TRUE
    /\ UNCHANGED <<opt, current, active, fold, written, coordVars, wpc, hdr, late>>

-----------------------------------------------------------------------------
(* fileWriter.  In the concurrent mode its goroutine may write and close   *)
(* it whatever has become of Writer.Close (wpc); in the others there is    *)
(* one goroutine, and no call after Writer.Close.                          *)

Writable(j) == pc[j] = "open" /\ (Concurrent \/ wpc = "open")

\* One unit goes to the compressor, which may or may not emit a chunk.  (The
\* writer of a directory discards its input.)
Write(j) ==
    /\ Writable(j)
    /\ written[j] < MaxUnits
    /\ fold[j] # 0
    /\ written' = [written EXCEPT ![j] = @ + 1]
    /\ \E k \in {0, 1} :
          /\ \E fo \in SpoolWrites(folders[fold[j]], k) :
                folders' = [folders EXCEPT ![fold[j]] = [fo EXCEPT !.data = Append(@, j)]]
          /\ out' = out \o Direct(fold[j], k)
    /\ UNCHANGED <<opt, files, current, active, pc, fold, size, coordVars, wpc, hdr, failed, late>>

\* The compressor takes the unit or not and fails to write a chunk; the caller may go
\* on.  Bound: MaxUnits, for a folder's chunks that come without a unit, too.
WriteFails(j) ==
    LET f == fold[j]
    IN  /\ "write" \in Faults
        /\ Writable(j) /\ f # 0
        /\ \E u \in {0, 1} : \E fo \in SpoolFails(folders[f]) :
              /\ written[j] + u <= MaxUnits
              /\ u = 1 \/ fo.n <= MaxUnits
              /\ written' = [written EXCEPT ![j] = @ + u]
              /\ folders' = [folders EXCEPT ![f] =
                    [fo EXCEPT !.torn = TRUE, !.data = @ \o [i \in 1 .. u |-> j]]]
              /\ out' = out \o Emitted(f, fo)
        /\ failed' = TRUE
        /\ UNCHANGED <<opt, files, current, active, pc, fold, size, coordVars, wpc, hdr, late>>

\* fileWriter.Close in the sequential and solid modes, with no error.  A solid
\* folder stays open.
CloseFileNow(j) ==
    LET f == IF opt.solid THEN 0 ELSE fold[j]
    IN  /\ ~Concurrent
        /\ pc[j] = "open" /\ wpc = "open"
        /\ pc' = [pc EXCEPT ![j] = "done"]
        /\ folders' = CloseFold(folders, f)
        /\ out' = out \o FlushFold(folders, f)
        /\ size' = [size EXCEPT ![j] = written[j]]
        /\ UNCHANGED <<opt, files, current, active, fold, written, coordVars, wpc, hdr, failed, late>>

\* Compressing the rest of the folder fails: Close returns before the sizes are set.
FoldCloseFails(j) ==
    /\ "compress" \in Faults
    /\ ~opt.solid /\ fold[j] # 0
    /\ IF Concurrent THEN pc[j] = "folding" ELSE pc[j] = "open" /\ wpc = "open"
    /\ CloseFoldFails(fold[j])
    /\ pc' = [pc EXCEPT ![j] = "error"]
    /\ failed' = TRUE
    /\ UNCHANGED <<opt, files, current, active, fold, written, size, coordVars, wpc, hdr, late>>

\* Concurrent mode: Close sets the closed flag ...
FileClose(j) ==
    /\ Concurrent
    /\ pc[j] = "open"
    /\ pc' = [pc EXCEPT ![j] = IF fold[j] = 0 THEN "publishing" ELSE "folding"]
    /\ UNCHANGED <<writerVars, fold, written, size, coordVars, wpc, out, hdr, failed, late>>

\* ... closes the folder ...
FileCloseFold(j) ==
    /\ pc[j] = "folding"
    /\ ~folders[fold[j]].closed
    /\ pc' = [pc EXCEPT ![j] = "sending"]
    /\ \E fo \in SpoolWrites(folders[fold[j]], 1) :
          folders' = [folders EXCEPT ![fold[j]] = [fo EXCEPT !.closed = TRUE]]
    /\ UNCHANGED <<opt, files, current, active, fold, written, size, coordVars, wpc, out, hdr, failed, late>>

\* Mutant: the channel has no bound.
FileSendUnbounded(j) ==
    /\ pc[j] = "sending"
    /\ ~chClosed
    /\ chan' = Append(chan, fold[j])
    /\ pc' = [pc EXCEPT ![j] = "publishing"]
    /\ UNCHANGED <<writerVars, fold, written, size, chClosed, coord, wpc, out, hdr, failed, late>>

\* ... hands it to the coordinator, blocking while the channel is full (a send on
\* a closed channel panics) ...
FileSend(j) ==
    /\ pc[j] = "sending"
    /\ \/ /\ ~chClosed
          /\ Len(chan) < Slots
          /\ chan' = Append(chan, fold[j])
          /\ pc' = [pc EXCEPT ![j] = "publishing"]
       \/ /\ chClosed
          /\ pc' = [pc EXCEPT ![j] = "panic"]
          /\ UNCHANGED chan
    /\ UNCHANGED <<writerVars, fold, written, size, chClosed, coord, wpc, out, hdr, failed, late>>

\* ... and publishes the file's size and checksum for the header.
FilePublish(j) ==
    /\ pc[j] = "publishing"
    /\ pc' = [pc EXCEPT ![j] = "done"]
    /\ size' = [size EXCEPT ![j] = written[j]]
    /\ UNCHANGED <<writerVars, fold, written, coordVars, wpc, out, hdr, failed, late>>

-----------------------------------------------------------------------------
(* The coordinator goroutine.                                              *)

\* Mutant: the coordinator stops receiving after a failed copy.
CoordReceiveUntilError ==
    /\ coord.at = "recv" /\ ~coord.err
    /\ chan # <<>>
    /\ coord' = [coord EXCEPT !.map = @ \cup {Head(chan)}, !.at = "drain"]
    /\ chan' = Tail(chan)
    /\ UNCHANGED <<writerVars, fileVars, chClosed, wpc, out, hdr, failed, late>>

CoordReceive ==
    /\ coord.at = "recv"
    /\ chan # <<>>
    /\ coord' = [coord EXCEPT !.map = @ \cup {Head(chan)}, !.at = "drain"]
    /\ chan' = Tail(chan)
    /\ UNCHANGED <<writerVars, fileVars, chClosed, wpc, out, hdr, failed, late>>

\* Mutant: folders are copied in the order they arrive.
CoordCopyAny ==
    /\ coord.at = "drain"
    /\ \E s \in coord.map :
          /\ out' = out \o [i \in 1 .. folders[s].kept |-> s]
          /\ coord' = [coord EXCEPT !.map = @ \ {s}, !.seq = @ + 1]
          /\ folders' = [folders EXCEPT ![s].spool = "closed"]
    /\ UNCHANGED <<opt, files, current, active, fileVars, chan, chClosed, wpc, hdr, failed, late>>

\* Mutant: the spool is not closed after the copy.
CoordCopyLeaks ==
    LET s == coord.seq
    IN  /\ coord.at = "drain"
        /\ s \in coord.map
        /\ out' = out \o [i \in 1 .. folders[s].kept |-> s]
        /\ coord' = [coord EXCEPT !.map = @ \ {s}, !.seq = s + 1]
        /\ UNCHANGED <<writerVars, fileVars, chan, chClosed, wpc, hdr, failed, late>>

\* The next folder in sequence is there: its spool is copied, unless a copy
\* failed before, and closed.  A failing copy leaves a part of it in the archive.
CoordCopy ==
    LET s == coord.seq
    IN  /\ coord.at = "drain"
        /\ s \in coord.map
        /\ \E ok \in IF "copy" \in Faults THEN BOOLEAN ELSE {TRUE} :
              LET copied == IF coord.err THEN 0 ELSE IF ok THEN folders[s].kept ELSE folders[s].kept - 1
              IN  /\ out' = out \o [i \in 1 .. copied |-> s]
                  /\ coord' = [coord EXCEPT !.map = @ \ {s}, !.seq = s + 1, !.err = @ \/ ~ok]
        /\ folders' = [folders EXCEPT ![s].spool = "closed"]
        /\ UNCHANGED <<opt, files, current, active, fileVars, chan, chClosed, wpc, hdr, failed, late>>

\* The next folder in sequence is not there yet.
CoordWait ==
    /\ coord.at = "drain"
    /\ coord.seq \notin coord.map
    /\ coord' = [coord EXCEPT !.at = "recv"]
    /\ UNCHANGED <<writerVars, fileVars, chan, chClosed, wpc, out, hdr, failed, late>>

\* The channel is closed and empty: the result is offered on coordDone.
CoordExit ==
    /\ coord.at = "recv"
    /\ chan = <<>> /\ chClosed
    /\ coord' = [coord EXCEPT !.at = "exit"]
    /\ UNCHANGED <<writerVars, fileVars, chan, chClosed, wpc, out, hdr, failed, late>>

-----------------------------------------------------------------------------
(* Writer.Close                                                            *)

\* A fileWriter whose Close has not returned and may be on its way.
Unfinished == {"open", "folding", "sending", "publishing"}

\* Nothing waits for the goroutines that still write or close their files.
CloseCalled ==
    /\ wpc = "open"
    /\ wpc' = "current"
    /\ late' = IF Concurrent THEN {j \in Jobs : pc[j] \in Unfinished} ELSE {}
    /\ UNCHANGED <<writerVars, fileVars, coordVars, out, hdr, failed>>

\* w.current.Close() and, in the solid mode, w.activeFold.Close().
CloseCurrentNow ==
    LET f == IF opt.solid THEN active ELSE CurrentFold
    IN  /\ wpc = "current"
        /\ ~Concurrent
        /\ AfterImplicitClose(NoJob, "done")
        /\ folders' = CloseFold(folders, f)
        /\ out' = out \o FlushFold(folders, f)
        /\ active' = IF opt.solid THEN 0 ELSE active
        /\ wpc' = "header"
        /\ UNCHANGED <<opt, files, current, fold, written, coordVars, hdr, failed, late>>

\* Closing the last folder fails: Close returns the error.
CloseCurrentFails ==
    /\ "compress" \in Faults
    /\ wpc = "current"
    /\ ~Concurrent
    /\ LET f == IF opt.solid THEN active ELSE CurrentFold
       IN  f # 0 /\ CloseFoldFails(f)
    /\ wpc' = "err"
    /\ failed' = TRUE
    /\ UNCHANGED <<opt, files, current, active, fileVars, coordVars, hdr, late>>

\* Mutant: the current fileWriter's Close is started and not waited for.
CloseCurrentAsync ==
    /\ wpc = "current"
    /\ Concurrent
    /\ IF current # NoJob /\ pc[current] = "open"
       THEN /\ pc' = [pc EXCEPT ![current] = IF fold[current] = 0 THEN "publishing" ELSE "folding"]
            /\ late' = late \ {current}
       ELSE UNCHANGED <<pc, late>>
    /\ wpc' = "spools"
    /\ UNCHANGED <<writerVars, fold, written, size, coordVars, out, hdr, failed>>

\* Concurrent mode: the current fileWriter's Close runs if nobody called it before,
\* and returns at once, without an error, if somebody did ...
CloseCurrent ==
    /\ wpc = "current"
    /\ Concurrent
    /\ IF current # NoJob /\ pc[current] = "open"
       THEN /\ pc' = [pc EXCEPT ![current] = IF fold[current] = 0 THEN "publishing" ELSE "folding"]
            /\ late' = late \ {current}
            /\ wpc' = "closing"
       ELSE wpc' = "spools" /\ UNCHANGED <<pc, late>>
    /\ UNCHANGED <<writerVars, fold, written, size, coordVars, out, hdr, failed>>

\* ... and Writer.Close returns its error, if any, at once.
CloseCurrentReturns ==
    /\ wpc = "closing"
    /\ \/ pc[current] = "done" /\ wpc' = "spools"
       \/ pc[current] = "error" /\ wpc' = "err"
    /\ UNCHANGED <<writerVars, fileVars, coordVars, out, hdr, failed, late>>

\* Mutant: Close does not wait for the coordinator.
CloseSpoolsNoJoin ==
    /\ wpc = "spools"
    /\ chClosed' = TRUE
    /\ wpc' = "header"
    /\ UNCHANGED <<writerVars, fileVars, chan, coord, out, hdr, failed, late>>

\* Mutant: the channel is not closed.
CloseSpoolsForgets ==
    /\ wpc = "spools"
    /\ wpc' = "coordDone"
    /\ UNCHANGED <<writerVars, fileVars, coordVars, out, hdr, failed, late>>

CloseSpools ==
    /\ wpc = "spools"
    /\ chClosed' = TRUE
    /\ wpc' = "coordDone"
    /\ UNCHANGED <<writerVars, fileVars, chan, coord, out, hdr, failed, late>>

\* <-w.coordDone, an unbuffered channel.
CloseJoins ==
    /\ wpc = "coordDone"
    /\ coord.at = "exit"
    /\ coord' = [coord EXCEPT !.at = "gone"]
    /\ wpc' = IF coord.err THEN "err" ELSE "header"
    /\ failed' = (failed \/ coord.err)
    /\ UNCHANGED <<writerVars, fileVars, chan, chClosed, out, hdr, late>>

\* The streamsInfo built from w.folders and the sizes published by now.
HeaderStreams ==
    LET sizes(k) == [i \in 1 .. Len(folders[k].files) |-> size[folders[k].files[i]]]
        each(op(_)) == [k \in 1 .. Len(folders) |-> op(k)]
    IN  [pack    |-> each(LAMBDA k : folders[k].n),
         packed  |-> each(LAMBDA k : 1),
         unpack  |-> each(LAMBDA k : PrefixSum(sizes(k), Len(sizes(k)))),
         streams |-> each(LAMBDA k : Len(folders[k].files)),
         size    |-> FlattenSeq(each(LAMBDA k : sizes(k)))]

\* The header is written after the body.
CloseHeader ==
    /\ wpc = "header"
    /\ hdr' = [si |-> HeaderStreams, files |-> files]
    /\ wpc' = "signature"
    /\ UNCHANGED <<writerVars, fileVars, coordVars, out, failed, late>>

\* The signature and start headers at offset 0 come last: they make it an archive.
CloseSignature ==
    /\ wpc = "signature"
    /\ wpc' = "ok"
    /\ UNCHANGED <<writerVars, fileVars, coordVars, out, hdr, failed, late>>

\* Seeking or writing fails in one of these stages.
CloseWriteFails ==
    /\ "header" \in Faults
    /\ wpc \in {"header", "signature"}
    /\ wpc' = "err"
    /\ failed' = TRUE
    /\ UNCHANGED <<writerVars, fileVars, coordVars, out, hdr, late>>

-----------------------------------------------------------------------------
FileSteps(j) == FileCloseFold(j) \/ FileSend(j) \/ FilePublish(j)

CoordSteps == CoordReceive \/ CoordCopy \/ CoordWait \/ CoordExit

CloseSteps ==
    \/ CloseCurrentNow \/ CloseCurrentFails \/ CloseCurrent \/ CloseCurrentReturns
    \/ CloseSpools \/ CloseJoins \/ CloseHeader \/ CloseSignature \/ CloseWriteFails

Next ==
    \/ \E j \in Jobs :
          \/ CreateDir(j) \/ CreateFile(j) \/ CreateFails(j) \/ SetupFails(j)
          \/ Write(j) \/ WriteFails(j) \/ CloseFileNow(j) \/ FileClose(j)
          \/ FoldCloseFails(j) \/ FileCloseFold(j) \/ FileSend(j) \/ FilePublish(j)
    \/ CoordSteps
    \/ CloseCalled
    \/ CloseSteps

Spec == Init /\ [][Next]_vars

\* Goroutines that can run do: the coordinator, a Close once it was called.
\* Nothing makes the callers create, write or close.
Fairness == /\ \A j \in Jobs : WF_vars(FileSteps(j))
            /\ WF_vars(CoordSteps)
            /\ WF_vars(CloseSteps)

FairSpec == Spec /\ Fairness

-----------------------------------------------------------------------------
(* Properties                                                              *)

\* The number of the p-th of the files fs among those with a stream.
StreamNumber(fs, p) == Cardinality({q \in 1 .. p : fs[q] \notin Dirs})

\* n elements of s after the first from, or as many as there are.
Part(s, from, n) == SubSeq(s, from + 1, Min({from + n, Len(s)}))

\* n times x.
Copies(n, x) == [i \in 1 .. n |-> x]

\* The reader finds the p-th file of the header: its folder's packed bytes are whole
\* and where the header says, and its part of the folder's content is what was written.
Readable(p) ==
    LET si   == hdr.si
        i    == StreamNumber(hdr.files, p)
        k    == FileFolder(si, i)
        from == FolderOffset(si, k)
        off  == FileOffset(si, i)
        j    == hdr.files[p]
    IN  /\ Part(out, from, si.pack[k]) = Copies(folders[k].n, k)
        /\ folders[k].closed
        /\ Part(folders[k].data, off, FileSize(si, i)) = Copies(written[j], j)

\* A spill lost buffered chunks without an error: the header counts chunks that
\* are not there.
SpillLost == \E k \in 1 .. Len(folders) : folders[k].kept # folders[k].n

\* The p-th file of the header can be claimed: calls of no file up to it failed while
\* adding or closing it, and no Write of a file of its folder did, which takes
\* the folder's other files with it (they share the stream).
Claimed(p) ==
    /\ hdr.files[p] \notin Dirs
    /\ \A q \in 1 .. p : pc[hdr.files[q]] # "error"
    /\ ~folders[fold[hdr.files[p]]].torn

\* No file up to the p-th was still open or being closed by its caller when Writer.Close
\* was called.
InTime(p) == \A q \in 1 .. p : hdr.files[q] \in Dirs \/ hdr.files[q] \notin late

\* What was written is read back: when Writer.Close returns nil, every file reads
\* as exactly the bytes its fileWriter was given, whatever order the goroutines
\* finished in; after calls that failed, and with files closed too late, so do
\* those of before (Claimed, InTime).  A spill that lost chunks breaks this (SpillLost).
RoundTrip ==
    wpc = "ok" /\ ~SpillLost =>
        /\ Len(hdr.files) = Cardinality({j \in Jobs : pc[j] # "none"})
        /\ \A p \in 1 .. Len(hdr.files) : Claimed(p) /\ InTime(p) => Readable(p)

\* Concurrent mode: the body is always the whole spools of the folders before
\* writeSeq, in the order of CreateHeader, whatever order they were finished in.
BodyInOrder ==
    Concurrent /\ ~coord.err =>
        out = FlattenSeq([k \in 1 .. coord.seq - 1 |-> [x \in 1 .. folders[k].kept |-> k]])

\* A fileWriter.Close that sends on the channel after Writer.Close closed it was too
\* late: its caller had not returned from it, and it was not the one Writer.Close
\* closes and waits for.  (Those do panic: Writer.Close waits for nobody else.)
NoSendOnClosedChannel == \A j \in Jobs : pc[j] = "panic" => j \in late

\* When Writer.Close returns nil and nothing failed, the spools of the folders before
\* the first that was closed too late have been closed: no temporary file is left.
SpoolsReleased ==
    wpc = "ok" /\ ~failed =>
        \A k \in 1 .. Len(folders) :
            (\A j \in late : fold[j] = 0 \/ fold[j] > k)
            => folders[k].spool \notin {"open", "file"}

\* Writer.Close returns, also after a failed copy.
CloseReturns == wpc # "open" ~> wpc \in {"ok", "err"}

\* A goroutine blocked on the full channel gets on: the coordinator never stops
\* receiving, also after a failed copy, until the channel is closed.
SendsComplete ==
    \A j \in Jobs : pc[j] = "sending" ~> pc[j] = "done" \/ (chClosed /\ pc[j] = "panic")

\* "If another file is currently being written, it will be implicitly closed"
\* (writer.go:361): a nil Close means a readable archive, although callers left files
\* open.  (None is closed while or after Writer.Close runs, but by Writer.Close.)
ImplicitCloseSuffices ==
    wpc = "ok" /\ ~SpillLost /\ (\A j \in late : pc[j] = "open") =>
        \A p \in 1 .. Len(hdr.files) : Claimed(p) => Readable(p)
=============================================================================
