------------------------ MODULE ArchiveWriter_proofs ------------------------
(***************************************************************************)
(* The writer's goroutines and their coordinator, for any number of files, *)
(* any options, capacities and faults.                                     *)
(***************************************************************************)
EXTENDS ArchiveWriter, SequenceLemmas

Recs == [files : Seq(Jobs), data : Seq(Jobs), n : Nat, kept : Nat,
         closed : BOOLEAN, spool : SpoolStates, torn : BOOLEAN]

\* Folder k was given to the coordinator.
Sent(k) == k < coord.seq \/ k \in coord.map \/ \E i \in 1 .. Len(chan) : chan[i] = k

\* A folder belongs to a fileWriter that was created.
Folded ==
    \A j \in Jobs : /\ pc[j] = "none" => fold[j] = 0
                    /\ pc[j] \in {"folding", "sending"} => fold[j] # 0

\* Writer.Close closes the channel in the concurrent mode, and the only fileWriter.Close
\* it waits for before is the current one's.
CloseStages ==
    /\ chClosed => wpc \in {"coordDone", "header", "signature", "ok", "err"}
    /\ \A j \in Jobs : /\ pc[j] = "panic" => chClosed
                       /\ pc[j] \in {"folding", "sending"} => Concurrent

\* Once Writer.Close was called, the other files not closed are late.
Belated ==
    Concurrent /\ wpc # "open" =>
        \A j \in Jobs : pc[j] \in Unfinished => j \in late \/ (wpc = "closing" /\ j = current)

\* The coordinator stops receiving and exits only with nothing left to copy.
Coordinated ==
    IF Concurrent
    THEN /\ coord.at # "drain" => coord.seq \notin coord.map
         /\ coord.at \in {"exit", "gone"} => chClosed /\ chan = <<>>
         /\ wpc \in {"header", "signature", "ok"} => coord.at = "gone"
    ELSE coord.at = "gone"

\* Concurrent mode: every folder has one fileWriter, ...
Owned ==
    Concurrent =>
        /\ \A i, j \in Jobs : fold[i] = fold[j] /\ fold[i] # 0 => i = j
        /\ \A k \in 1 .. Len(folders) : \E j \in Jobs : fold[j] = k

\* ... which gave it to the coordinator if and only if it is past its send.
SentWhenClosed ==
    Concurrent =>
        \A j \in Jobs : fold[j] # 0 =>
            (Sent(fold[j]) <=> pc[j] \in {"publishing", "done"})

\* The coordinator closed the spools of the folders before writeSeq; the other
\* modes have no spools.
SpoolsOf ==
    \A k \in 1 .. Len(folders) :
        IF Concurrent THEN k < coord.seq => folders[k].spool = "closed"
        ELSE folders[k].spool = "none"

\* A fileWriter that failed was reported.
ErrorsReported == \A j \in Jobs : pc[j] = "error" => failed

\* What is invariant about the goroutines, and about the folders.
Control == /\ NoSendOnClosedChannel
           /\ Folded
           /\ CloseStages
           /\ Coordinated
           /\ Owned
           /\ SentWhenClosed
           /\ Belated
           /\ ErrorsReported

\* The inductive invariant.
Inv == /\ TypeOK
       /\ Control
       /\ SpoolsOf
       /\ BodyInOrder

\* Folders are of their type, and no spool has more than was counted.
FoldersOK(fs) == fs \in Seq(Recs) /\ \A k \in 1 .. Len(fs) : fs[k].kept <= fs[k].n

-----------------------------------------------------------------------------
(* The folders.                                                            *)

\* The folders as TypeOK has them.
LEMMA FolderTypes ==
    ASSUME TypeOK
    PROVE  /\ FoldersOK(folders) /\ Len(folders) \in Nat
           /\ \A k \in 1 .. Len(folders) : folders[k] \in Recs /\ folders[k].kept <= folders[k].n
<1>1. folders \in Seq(Recs)
  BY DEF TypeOK, Recs
<1>2. \A k \in 1 .. Len(folders) : folders[k].kept <= folders[k].n
  BY DEF TypeOK
<1>3. Len(folders) \in Nat /\ \A k \in 1 .. Len(folders) : folders[k] \in Recs
  BY <1>1, LenProperties, ElementOfSeq
<1> QED BY <1>1, <1>2, <1>3 DEF FoldersOK

\* Replacing one folder.
LEMMA ReplaceFolder ==
    ASSUME NEW fs, FoldersOK(fs), NEW f \in 1 .. Len(fs), NEW r \in Recs, r.kept <= r.n,
           NEW gs, gs = [fs EXCEPT ![f] = r]
    PROVE  /\ FoldersOK(gs) /\ Len(gs) = Len(fs)
           /\ \A k \in 1 .. Len(fs) : gs[k] = IF k = f THEN r ELSE fs[k]
<1>1. fs \in Seq(Recs)
  BY DEF FoldersOK
<1>2. /\ gs \in Seq(Recs) /\ Len(gs) = Len(fs)
      /\ \A k \in 1 .. Len(fs) : gs[k] = IF k = f THEN r ELSE fs[k]
  BY <1>1, ExceptSeq
<1> QED BY <1>2 DEF FoldersOK

\* A folder whose compressor flushes a last chunk.
LEMMA ClosedRecord ==
    ASSUME NEW o \in Recs, o.kept <= o.n
    PROVE  LET r == [o EXCEPT !.closed = TRUE, !.n = @ + 1, !.kept = @ + 1]
           IN  r \in Recs /\ r.kept <= r.n /\ r.spool = o.spool
<1> DEFINE r == [o EXCEPT !.closed = TRUE, !.n = @ + 1, !.kept = @ + 1]
<1>1. o.kept \in Nat /\ o.n \in Nat
  BY DEF Recs
<1>2. r.kept = o.kept + 1
  BY DEF Recs
<1>3. r.n = o.n + 1
  BY DEF Recs
<1>4. r.spool = o.spool
  BY DEF Recs
<1>5. r \in Recs
  <2>1. PICK x \in Nat, y \in Nat : x = o.n + 1 /\ y = o.kept + 1
    BY <1>1
  <2>2. [o EXCEPT !.closed = TRUE, !.n = x, !.kept = y] \in Recs
    BY DEF Recs
  <2> QED BY <2>1, <2>2
<1> QED BY <1>1, <1>2, <1>3, <1>4, <1>5

\* folderWriter.Close leaves the spools as they are.
LEMMA CloseFoldProperties ==
    ASSUME NEW fs, FoldersOK(fs), NEW f \in 0 .. Len(fs)
    PROVE  /\ FoldersOK(CloseFold(fs, f))
           /\ Len(CloseFold(fs, f)) = Len(fs)
           /\ \A k \in 1 .. Len(fs) : CloseFold(fs, f)[k].spool = fs[k].spool
<1>1. CASE f = 0 \/ fs[f].closed
  BY <1>1 DEF CloseFold
<1>2. CASE ~(f = 0 \/ fs[f].closed)
  <2> DEFINE r == [fs[f] EXCEPT !.closed = TRUE, !.n = @ + 1, !.kept = @ + 1]
  <2>1. f \in 1 .. Len(fs) /\ fs[f] \in Recs /\ fs[f].kept <= fs[f].n
    BY <1>2 DEF FoldersOK
  <2>2. r \in Recs /\ r.kept <= r.n /\ r.spool = fs[f].spool
    BY <2>1, ClosedRecord
  <2>3. CloseFold(fs, f) = [fs EXCEPT ![f] = r]
    BY <1>2, <2>1 DEF CloseFold, Recs
  <2>4. \A k \in 1 .. Len(fs) : CloseFold(fs, f)[k] = IF k = f THEN r ELSE fs[k]
    BY <2>1, <2>2, <2>3, ReplaceFolder
  <2> HIDE DEF r
  <2>5. FoldersOK(CloseFold(fs, f)) /\ Len(CloseFold(fs, f)) = Len(fs)
    BY <2>1, <2>2, <2>3, ReplaceFolder, Zenon
  <2> QED BY <2>1, <2>2, <2>4, <2>5
<1> QED BY <1>1, <1>2

\* A write keeps its chunks, behind what the spool still has.
LEMMA SpoolWritesProperties ==
    ASSUME NEW r \in Recs, r.kept <= r.n, NEW k \in {0, 1}, NEW g \in SpoolWrites(r, k)
    PROVE  /\ g \in Recs /\ g.kept <= g.n
           /\ r.spool = "none" => g.spool = "none"
<1> DEFINE spills == k > 0 /\ r.spool = "open" /\ r.n + k > SpoolCap
<1>1. PICK m : /\ m \in IF spills /\ "spill" \in Faults THEN 0 .. r.kept ELSE {r.kept}
               /\ g = [r EXCEPT !.n = @ + k, !.kept = m + k, !.spool = IF spills THEN "file" ELSE @]
  BY DEF SpoolWrites
<1>2. m \in Nat /\ m <= r.kept
  BY <1>1 DEF Recs
<1>3. g = [files |-> r.files, data |-> r.data, n |-> r.n + k, kept |-> m + k,
           closed |-> r.closed, spool |-> IF spills THEN "file" ELSE r.spool, torn |-> r.torn]
  BY <1>1 DEF Recs
<1>4. r.kept \in Nat /\ r.n \in Nat
  BY DEF Recs
<1>5. g \in Recs
  BY <1>2, <1>3, <1>4 DEF Recs, SpoolStates
<1>6. g.kept <= g.n
  BY <1>2, <1>3, <1>4
<1>7. r.spool = "none" => g.spool = "none"
  BY <1>3
<1> QED BY <1>5, <1>6, <1>7

\* So does a write that fails, which keeps at most a part of its chunk.
LEMMA SpoolFailsProperties ==
    ASSUME NEW r \in Recs, r.kept <= r.n, NEW g \in SpoolFails(r)
    PROVE  /\ g \in Recs /\ g.kept <= g.n
           /\ r.spool = "none" => g.spool = "none"
           /\ g.n - r.n \in {0, 1}
<1>1. CASE g = r
  BY <1>1 DEF Recs
<1>2. CASE g \in SpoolWrites(r, 1)
  <2>1. g.n = r.n + 1 /\ r.n \in Nat
    BY <1>2 DEF SpoolWrites, Recs
  <2>2. /\ g \in Recs /\ g.kept <= g.n
        /\ r.spool = "none" => g.spool = "none"
    BY <1>2, SpoolWritesProperties
  <2> QED BY <2>1, <2>2
<1>3. CASE \E h \in SpoolWrites(r, 1) : g = [h EXCEPT !.n = r.n, !.kept = @ - 1]
  <2>1. PICK h \in SpoolWrites(r, 1) : g = [h EXCEPT !.n = r.n, !.kept = @ - 1]
    BY <1>3
  <2> DEFINE spills == 1 > 0 /\ r.spool = "open" /\ r.n + 1 > SpoolCap
  <2>2. PICK m : /\ m \in IF spills /\ "spill" \in Faults THEN 0 .. r.kept ELSE {r.kept}
                 /\ h = [r EXCEPT !.n = @ + 1, !.kept = m + 1, !.spool = IF spills THEN "file" ELSE @]
    BY <2>1 DEF SpoolWrites
  <2>3. m \in Nat /\ m <= r.kept /\ r.kept \in Nat /\ r.n \in Nat
    BY <2>2 DEF Recs
  <2>4. (m + 1) - 1 = m
    BY <2>3
  <2>5. h = [files |-> r.files, data |-> r.data, n |-> r.n + 1, kept |-> m + 1,
             closed |-> r.closed, spool |-> IF spills THEN "file" ELSE r.spool, torn |-> r.torn]
    BY <2>2 DEF Recs
  <2> HIDE DEF spills
  <2>6. g = [files |-> r.files, data |-> r.data, n |-> r.n, kept |-> m,
             closed |-> r.closed, spool |-> IF spills THEN "file" ELSE r.spool, torn |-> r.torn]
    BY <2>1, <2>4, <2>5
  <2>7. g \in Recs
    BY <2>3, <2>6 DEF Recs, SpoolStates
  <2>8. r.spool = "none" => g.spool = "none"
    BY <2>2, <2>6 DEF spills
  <2>9. g.n = r.n /\ g.kept = m
    BY <2>6
  <2> QED BY <2>3, <2>7, <2>8, <2>9
<1> QED BY <1>1, <1>2, <1>3 DEF SpoolFails

-----------------------------------------------------------------------------
\* Steps that neither copy a spool nor change a folder or the body.
LEMMA FoldersStay ==
    ASSUME SpoolsOf, BodyInOrder, UNCHANGED <<opt, folders, out>>,
           coord'.seq = coord.seq, coord'.err = coord.err
    PROVE  SpoolsOf' /\ BodyInOrder'
BY DEF SpoolsOf, BodyInOrder, Concurrent

\* A Close that starts.
LEMMA FileCloseInv ==
    ASSUME Inv, NEW j \in Jobs, FileClose(j)
    PROVE  Inv'
<1> USE DEF Inv, Control, FileClose, writerVars, fileVars, coordVars, Concurrent
<1>1. TypeOK'
  BY DEF TypeOK, FilePcs, WriterPcs
<1>2. NoSendOnClosedChannel' /\ Folded' /\ ErrorsReported'
  BY DEF NoSendOnClosedChannel, Folded, ErrorsReported, TypeOK
<1>3. CloseStages' /\ Belated' /\ Coordinated'
  BY DEF CloseStages, Belated, Unfinished, Coordinated, TypeOK
<1>4. Owned' /\ SentWhenClosed'
  <2>1. Owned'
    BY DEF Owned, TypeOK
  <2>2. SentWhenClosed'
    BY DEF SentWhenClosed, Sent, TypeOK
  <2> QED BY <2>1, <2>2
<1>5. SpoolsOf' /\ BodyInOrder'
  BY FoldersStay DEF TypeOK
<1> QED BY <1>1, <1>2, <1>3, <1>4, <1>5

\* A send on the closed channel.
LEMMA FilePanicInv ==
    ASSUME Inv, NEW j \in Jobs, FileSend(j), chClosed
    PROVE  Inv'
<1> USE DEF Inv, Control, FileSend, writerVars, fileVars, coordVars, Concurrent
<1>0. pc[j] = "sending" /\ pc' = [pc EXCEPT ![j] = "panic"] /\ UNCHANGED chan
  OBVIOUS
<1>1. TypeOK'
  BY <1>0 DEF TypeOK, FilePcs
<1>2. NoSendOnClosedChannel'
  <2>1. j \in late
    BY <1>0 DEF CloseStages, Belated, Unfinished
  <2> QED BY <1>0, <2>1 DEF NoSendOnClosedChannel, TypeOK
<1>3. Folded'
  BY <1>0 DEF Folded, TypeOK
<1>4. CloseStages' /\ Belated'
  BY <1>0 DEF CloseStages, Belated, Unfinished, TypeOK
<1>5. Coordinated' /\ Owned'
  BY DEF Coordinated, Owned, TypeOK
<1>6. SentWhenClosed'
  BY <1>0 DEF SentWhenClosed, Sent, TypeOK
<1>7. ErrorsReported'
  BY <1>0 DEF ErrorsReported, TypeOK
<1>8. SpoolsOf' /\ BodyInOrder'
  BY FoldersStay DEF TypeOK
<1> QED BY <1>1, <1>2, <1>3, <1>4, <1>5, <1>6, <1>7, <1>8

\* A send: the folder is from now on the coordinator's.
LEMMA FileSendInv ==
    ASSUME Inv, NEW j \in Jobs, FileSend(j), ~chClosed
    PROVE  Inv'
<1> USE DEF Inv, Control, FileSend, writerVars, fileVars, coordVars, Concurrent
<1>0. /\ ~chClosed /\ Len(chan) < Slots /\ chan' = Append(chan, fold[j])
      /\ pc' = [pc EXCEPT ![j] = "publishing"]
  OBVIOUS
<1>1. TypeOK'
  <2>1. chan \in Seq(1 .. Len(folders)) /\ fold[j] \in 1 .. Len(folders)
    BY DEF TypeOK, Folded
  <2>2. chan' \in Seq(1 .. Len(folders)) /\ Len(chan') = Len(chan) + 1 /\ Len(chan) \in Nat
    BY <1>0, <2>1, AppendProperties
  <2>3. Len(chan') <= Slots
    BY <1>0, <2>2, BoundsAssumption
  <2>4. pc' \in [Jobs -> FilePcs]
    BY <1>0 DEF TypeOK, FilePcs
  <2> QED BY <2>2, <2>3, <2>4 DEF TypeOK
<1>2. NoSendOnClosedChannel'
  BY <1>0 DEF NoSendOnClosedChannel, TypeOK
<1>3. Folded'
  BY <1>1 DEF Folded, TypeOK
<1>4. CloseStages'
  BY <1>1 DEF CloseStages, TypeOK
<1>5. Coordinated'
  BY <1>1 DEF Coordinated, TypeOK
<1>6. Owned'
  BY <1>1 DEF Owned, TypeOK
<1>7. SentWhenClosed'
  <2> SUFFICES ASSUME Concurrent, NEW i \in Jobs, fold[i] # 0
               PROVE  Sent(fold[i])' <=> pc'[i] \in {"publishing", "done"}
    BY DEF SentWhenClosed
  <2>1. chan \in Seq(1 .. Len(folders)) /\ fold[j] \in 1 .. Len(folders)
    BY DEF TypeOK, Folded
  <2>2. /\ Len(chan') = Len(chan) + 1 /\ chan'[Len(chan) + 1] = fold[j] /\ Len(chan) \in Nat
        /\ \A m \in 1 .. Len(chan) : chan'[m] = chan[m]
    BY <1>0, <2>1, AppendProperties
  <2>3. Sent(fold[i])' <=> Sent(fold[i]) \/ fold[i] = fold[j]
    BY <2>2 DEF Sent
  <2>4. CASE i = j
    BY <1>0, <2>3, <2>4 DEF TypeOK
  <2>5. CASE i # j
    <3>1. pc'[i] = pc[i] /\ fold[i] # fold[j]
      BY <1>0, <2>5 DEF Owned, TypeOK
    <3> QED BY <2>3, <3>1 DEF SentWhenClosed
  <2> QED BY <2>4, <2>5
<1>8. Belated'
  BY <1>1 DEF Belated, Unfinished, TypeOK
<1>9. ErrorsReported'
  BY <1>1 DEF ErrorsReported, TypeOK
<1>10. SpoolsOf' /\ BodyInOrder'
  BY FoldersStay DEF TypeOK
<1> QED BY <1>1, <1>2, <1>3, <1>4, <1>5, <1>6, <1>7, <1>8, <1>9, <1>10

\* A Close that ends.
LEMMA FilePublishInv ==
    ASSUME Inv, NEW j \in Jobs, FilePublish(j)
    PROVE  Inv'
<1> USE DEF Inv, Control, FilePublish, writerVars, fileVars, coordVars, Concurrent
<1>1. TypeOK'
  BY DEF TypeOK, FilePcs, WriterPcs
<1>2. NoSendOnClosedChannel' /\ Folded' /\ ErrorsReported'
  BY DEF NoSendOnClosedChannel, Folded, ErrorsReported, TypeOK
<1>3. CloseStages' /\ Belated' /\ Coordinated'
  BY DEF CloseStages, Belated, Unfinished, Coordinated, TypeOK
<1>4. Owned' /\ SentWhenClosed'
  <2>1. Owned'
    BY DEF Owned, TypeOK
  <2>2. SentWhenClosed'
    BY DEF SentWhenClosed, Sent, TypeOK
  <2> QED BY <2>1, <2>2
<1>5. SpoolsOf' /\ BodyInOrder'
  BY FoldersStay DEF TypeOK
<1> QED BY <1>1, <1>2, <1>3, <1>4, <1>5

\* Receiving moves a folder from the channel to the coordinator's map.
LEMMA CoordReceiveInv ==
    ASSUME Inv, CoordReceive
    PROVE  Inv'
<1> USE DEF Inv, Control, CoordReceive, writerVars, fileVars, coordVars, Concurrent
<1>0. /\ chan \in Seq(1 .. Len(folders)) /\ Len(chan) \in Nat /\ Len(chan) >= 1
      /\ Head(chan) = chan[1] /\ chan[1] \in 1 .. Len(folders)
      /\ chan' \in Seq(1 .. Len(folders)) /\ Len(chan') = Len(chan) - 1
      /\ \A m \in 1 .. Len(chan) - 1 : chan'[m] = chan[m + 1]
  <2>1. chan \in Seq(1 .. Len(folders)) /\ chan # <<>> /\ chan' = Tail(chan)
    BY DEF TypeOK
  <2> QED BY ONLY <2>1, HeadTailProperties, LenProperties, ElementOfSeq, EmptySeq
<1>1. TypeOK'
  <2>1. coord' \in [at : {"recv", "drain", "exit", "gone"}, err : BOOLEAN,
                    map : SUBSET (1 .. Len(folders)), seq : 1 .. Len(folders) + 1]
    BY <1>0 DEF TypeOK
  <2>2. Len(chan') <= Slots
    <3>1. Len(chan) <= Slots
      BY DEF TypeOK
    <3> QED BY <1>0, <3>1, BoundsAssumption
  <2> QED BY <1>0, <2>1, <2>2 DEF TypeOK
<1>2. NoSendOnClosedChannel'
  BY <1>1 DEF NoSendOnClosedChannel, TypeOK
<1>3. Folded'
  BY <1>1 DEF Folded, TypeOK
<1>4. CloseStages'
  BY <1>1 DEF CloseStages, TypeOK
<1>5. Coordinated'
  BY <1>1 DEF Coordinated, TypeOK
<1>6. Owned'
  BY <1>1 DEF Owned, TypeOK
<1>7. SentWhenClosed'
  <2>1. ASSUME NEW k \in 1 .. Len(folders)
        PROVE  Sent(k)' <=> Sent(k)
    <3>1. coord'.seq = coord.seq /\ coord'.map = coord.map \cup {chan[1]}
      BY <1>0 DEF TypeOK
    <3>2. (\E m \in 1 .. Len(chan) : chan[m] = k) <=>
            k = chan[1] \/ \E m \in 1 .. Len(chan') : chan'[m] = k
      <4>1. ASSUME NEW m \in 1 .. Len(chan), m # 1
            PROVE  m - 1 \in 1 .. Len(chan') /\ chan[m] = chan'[m - 1]
        BY <1>0, <4>1
      <4>2. ASSUME NEW m \in 1 .. Len(chan')
            PROVE  m + 1 \in 1 .. Len(chan) /\ chan'[m] = chan[m + 1]
        BY <1>0
      <4>3. ASSUME NEW m \in 1 .. Len(chan), chan[m] = k
            PROVE  k = chan[1] \/ \E l \in 1 .. Len(chan') : chan'[l] = k
        BY <4>1, <4>3
      <4>4. ASSUME NEW m \in 1 .. Len(chan'), chan'[m] = k
            PROVE  \E l \in 1 .. Len(chan) : chan[l] = k
        BY <4>2, <4>4
      <4>5. 1 \in 1 .. Len(chan)
        BY <1>0
      <4> QED BY <4>3, <4>4, <4>5
    <3> QED BY <3>1, <3>2 DEF Sent
  <2>2. \A i \in Jobs : fold[i] # 0 => fold[i] \in 1 .. Len(folders)
    BY DEF TypeOK
  <2> QED BY <2>1, <2>2 DEF SentWhenClosed
<1>8. Belated'
  BY <1>1 DEF Belated, Unfinished, TypeOK
<1>9. ErrorsReported'
  BY <1>1 DEF ErrorsReported, TypeOK
<1>10. SpoolsOf' /\ BodyInOrder'
  BY FoldersStay DEF TypeOK
<1> QED BY <1>1, <1>2, <1>3, <1>4, <1>5, <1>6, <1>7, <1>8, <1>9, <1>10

\* Going back to receive.
LEMMA CoordWaitInv ==
    ASSUME Inv, CoordWait
    PROVE  Inv'
<1> USE DEF Inv, Control, CoordWait, writerVars, fileVars, coordVars, Concurrent
<1>1. TypeOK'
  BY DEF TypeOK, FilePcs, WriterPcs
<1>2. NoSendOnClosedChannel' /\ Folded' /\ ErrorsReported'
  BY DEF NoSendOnClosedChannel, Folded, ErrorsReported, TypeOK
<1>3. CloseStages' /\ Belated' /\ Coordinated'
  BY DEF CloseStages, Belated, Unfinished, Coordinated, TypeOK
<1>4. Owned' /\ SentWhenClosed'
  BY DEF Owned, SentWhenClosed, Sent, TypeOK
<1>5. SpoolsOf' /\ BodyInOrder'
  BY FoldersStay DEF TypeOK
<1> QED BY <1>1, <1>2, <1>3, <1>4, <1>5

\* Exiting with nothing left to copy.
LEMMA CoordExitInv ==
    ASSUME Inv, CoordExit
    PROVE  Inv'
<1> USE DEF Inv, Control, CoordExit, writerVars, fileVars, coordVars, Concurrent
<1>1. TypeOK'
  BY DEF TypeOK, FilePcs, WriterPcs
<1>2. NoSendOnClosedChannel' /\ Folded' /\ ErrorsReported'
  BY DEF NoSendOnClosedChannel, Folded, ErrorsReported, TypeOK
<1>3. CloseStages' /\ Belated' /\ Coordinated'
  BY DEF CloseStages, Belated, Unfinished, Coordinated, TypeOK
<1>4. Owned' /\ SentWhenClosed'
  BY DEF Owned, SentWhenClosed, Sent, TypeOK
<1>5. SpoolsOf' /\ BodyInOrder'
  BY FoldersStay DEF TypeOK
<1> QED BY <1>1, <1>2, <1>3, <1>4, <1>5

\* Writer.Close starts.
LEMMA CloseCalledInv ==
    ASSUME Inv, CloseCalled
    PROVE  Inv'
<1> USE DEF Inv, Control, CloseCalled, writerVars, fileVars, coordVars, Concurrent
<1>1. TypeOK'
  BY DEF TypeOK, FilePcs, WriterPcs
<1>2. NoSendOnClosedChannel' /\ Folded' /\ ErrorsReported'
  BY DEF NoSendOnClosedChannel, Folded, ErrorsReported, CloseStages, TypeOK
<1>3. CloseStages' /\ Belated' /\ Coordinated'
  BY DEF CloseStages, Belated, Unfinished, Coordinated, TypeOK
<1>4. Owned' /\ SentWhenClosed'
  BY DEF Owned, SentWhenClosed, Sent, TypeOK
<1>5. SpoolsOf' /\ BodyInOrder'
  BY FoldersStay DEF TypeOK
<1> QED BY <1>1, <1>2, <1>3, <1>4, <1>5

\* Writer.Close starts to close the current file.
LEMMA CloseCurrentInv ==
    ASSUME Inv, CloseCurrent
    PROVE  Inv'
<1> USE DEF Inv, Control, CloseCurrent, writerVars, fileVars, coordVars, Concurrent
<1>1. TypeOK'
  BY DEF TypeOK, FilePcs, WriterPcs
<1>2. NoSendOnClosedChannel'
  BY <1>1 DEF NoSendOnClosedChannel, TypeOK
<1>3. Folded'
  BY <1>1 DEF Folded, TypeOK
<1>4. CloseStages'
  BY <1>1 DEF CloseStages, TypeOK
<1>5. Coordinated'
  BY <1>1 DEF Coordinated, TypeOK
<1>6. Owned'
  BY <1>1 DEF Owned, TypeOK
<1>7. SentWhenClosed'
  BY <1>1 DEF SentWhenClosed, TypeOK, Sent
<1>8. Belated'
  BY <1>1, JobsAssumption DEF Belated, Unfinished, TypeOK
<1>9. ErrorsReported'
  BY <1>1 DEF ErrorsReported, TypeOK
<1>10. SpoolsOf' /\ BodyInOrder'
  BY FoldersStay DEF TypeOK
<1> QED BY <1>1, <1>2, <1>3, <1>4, <1>5, <1>6, <1>7, <1>8, <1>9, <1>10

\* The current file's Close has returned.
LEMMA CloseCurrentReturnsInv ==
    ASSUME Inv, CloseCurrentReturns
    PROVE  Inv'
<1> USE DEF Inv, Control, CloseCurrentReturns, writerVars, fileVars, coordVars, Concurrent
<1>1. TypeOK'
  BY DEF TypeOK, FilePcs, WriterPcs
<1>2. NoSendOnClosedChannel' /\ Folded' /\ ErrorsReported'
  BY DEF NoSendOnClosedChannel, Folded, ErrorsReported, TypeOK
<1>3. CloseStages' /\ Belated' /\ Coordinated'
  BY DEF CloseStages, Belated, Unfinished, Coordinated, TypeOK
<1>4. Owned' /\ SentWhenClosed'
  BY DEF Owned, SentWhenClosed, Sent, TypeOK
<1>5. SpoolsOf' /\ BodyInOrder'
  BY FoldersStay DEF TypeOK
<1> QED BY <1>1, <1>2, <1>3, <1>4, <1>5

\* Closing the channel.
LEMMA CloseSpoolsInv ==
    ASSUME Inv, CloseSpools
    PROVE  Inv'
<1> USE DEF Inv, Control, CloseSpools, writerVars, fileVars, coordVars, Concurrent
<1>1. TypeOK'
  BY DEF TypeOK, FilePcs, WriterPcs
<1>2. NoSendOnClosedChannel' /\ Folded' /\ ErrorsReported'
  BY DEF NoSendOnClosedChannel, Folded, ErrorsReported, TypeOK
<1>3. CloseStages' /\ Belated' /\ Coordinated'
  BY DEF CloseStages, Belated, Unfinished, Coordinated, TypeOK
<1>4. Owned' /\ SentWhenClosed'
  BY DEF Owned, SentWhenClosed, Sent, TypeOK
<1>5. SpoolsOf' /\ BodyInOrder'
  BY FoldersStay DEF TypeOK
<1> QED BY <1>1, <1>2, <1>3, <1>4, <1>5

\* Writer.Close gets the coordinator's result.
LEMMA CloseJoinsInv ==
    ASSUME Inv, CloseJoins
    PROVE  Inv'
<1> USE DEF Inv, Control, CloseJoins, writerVars, fileVars, coordVars, Concurrent
<1>1. TypeOK'
  BY DEF TypeOK, FilePcs, WriterPcs
<1>2. NoSendOnClosedChannel' /\ Folded' /\ ErrorsReported'
  BY DEF NoSendOnClosedChannel, Folded, ErrorsReported, TypeOK
<1>3. CloseStages' /\ Belated' /\ Coordinated'
  BY DEF CloseStages, Belated, Unfinished, Coordinated, TypeOK
<1>4. Owned' /\ SentWhenClosed'
  BY DEF Owned, SentWhenClosed, Sent, TypeOK
<1>5. SpoolsOf' /\ BodyInOrder'
  BY FoldersStay DEF TypeOK
<1> QED BY <1>1, <1>2, <1>3, <1>4, <1>5

\* Writing the header.
LEMMA CloseHeaderInv ==
    ASSUME Inv, CloseHeader
    PROVE  Inv'
<1> USE DEF Inv, Control, CloseHeader, writerVars, fileVars, coordVars, Concurrent
<1>1. TypeOK'
  BY DEF TypeOK, FilePcs, WriterPcs
<1>2. NoSendOnClosedChannel' /\ Folded' /\ ErrorsReported'
  BY DEF NoSendOnClosedChannel, Folded, ErrorsReported, TypeOK
<1>3. CloseStages' /\ Belated' /\ Coordinated'
  BY DEF CloseStages, Belated, Unfinished, Coordinated, TypeOK
<1>4. Owned' /\ SentWhenClosed'
  BY DEF Owned, SentWhenClosed, Sent, TypeOK
<1>5. SpoolsOf' /\ BodyInOrder'
  BY FoldersStay DEF TypeOK
<1> QED BY <1>1, <1>2, <1>3, <1>4, <1>5

\* Writing the signature header.
LEMMA CloseSignatureInv ==
    ASSUME Inv, CloseSignature
    PROVE  Inv'
<1> USE DEF Inv, Control, CloseSignature, writerVars, fileVars, coordVars, Concurrent
<1>1. TypeOK'
  BY DEF TypeOK, FilePcs, WriterPcs
<1>2. NoSendOnClosedChannel' /\ Folded' /\ ErrorsReported'
  BY DEF NoSendOnClosedChannel, Folded, ErrorsReported, TypeOK
<1>3. CloseStages' /\ Belated' /\ Coordinated'
  BY DEF CloseStages, Belated, Unfinished, Coordinated, TypeOK
<1>4. Owned' /\ SentWhenClosed'
  BY DEF Owned, SentWhenClosed, Sent, TypeOK
<1>5. SpoolsOf' /\ BodyInOrder'
  BY FoldersStay DEF TypeOK
<1> QED BY <1>1, <1>2, <1>3, <1>4, <1>5

\* A failing write ends Writer.Close.
LEMMA CloseWriteFailsInv ==
    ASSUME Inv, CloseWriteFails
    PROVE  Inv'
<1> USE DEF Inv, Control, CloseWriteFails, writerVars, fileVars, coordVars, Concurrent
<1>1. TypeOK'
  BY DEF TypeOK, FilePcs, WriterPcs
<1>2. NoSendOnClosedChannel' /\ Folded' /\ ErrorsReported'
  BY DEF NoSendOnClosedChannel, Folded, ErrorsReported, TypeOK
<1>3. CloseStages' /\ Belated' /\ Coordinated'
  BY DEF CloseStages, Belated, Unfinished, Coordinated, TypeOK
<1>4. Owned' /\ SentWhenClosed'
  BY DEF Owned, SentWhenClosed, Sent, TypeOK
<1>5. SpoolsOf' /\ BodyInOrder'
  BY FoldersStay DEF TypeOK
<1> QED BY <1>1, <1>2, <1>3, <1>4, <1>5

-----------------------------------------------------------------------------
(* Steps that change a folder.                                             *)

\* Longer sequences of folders do no harm to sequences of folder numbers.
LEMMA MoreNumbers ==
    ASSUME NEW m \in Nat, NEW n \in Nat, m <= n, NEW s \in Seq(1 .. m)
    PROVE  s \in Seq(1 .. n)
<1>1. 1 .. m \subseteq 1 .. n
  OBVIOUS
<1> QED BY <1>1

\* The flushed chunk is one of the folder closed; a spool keeps it.
LEMMA FlushFoldProperties ==
    ASSUME NEW fs, Len(fs) \in Nat, NEW f \in 0 .. Len(fs)
    PROVE  /\ FlushFold(fs, f) \in Seq(1 .. Len(fs))
           /\ Concurrent => FlushFold(fs, f) = <<>>
<1>1. CASE f = 0 \/ fs[f].closed \/ Concurrent
  <2>1. FlushFold(fs, f) = <<>>
    BY <1>1 DEF FlushFold, Direct
  <2> QED BY <2>1, EmptySeq
<1>2. CASE ~(f = 0 \/ fs[f].closed \/ Concurrent)
  <2>1. FlushFold(fs, f) = [i \in 1 .. 1 |-> f] /\ f \in 1 .. Len(fs)
    BY <1>2 DEF FlushFold, Direct
  <2>2. [i \in 1 .. 1 |-> f] \in Seq(1 .. Len(fs))
    BY <2>1
  <2> QED BY <1>2, <2>1, <2>2
<1> QED BY <1>1, <1>2

\* What a write adds to the body.
LEMMA DirectProperties ==
    ASSUME NEW n \in Nat, NEW f \in 1 .. n, NEW k \in Nat
    PROVE  /\ Direct(f, k) \in Seq(1 .. n)
           /\ Concurrent => Direct(f, k) = <<>>
<1>1. [i \in 1 .. k |-> f] \in Seq(1 .. n)
  OBVIOUS
<1>2. <<>> \in Seq(1 .. n)
  BY EmptySeq
<1> QED BY <1>1, <1>2 DEF Direct

\* The body grows by folder numbers.
LEMMA BodyType ==
    ASSUME NEW n, NEW s \in Seq(1 .. n), NEW t \in Seq(1 .. n)
    PROVE  s \o t \in Seq(1 .. n) /\ (t = <<>> => s \o t = s)
BY ConcatProperties

\* What a failing write adds to the body.
LEMMA EmittedProperties ==
    ASSUME TypeOK, NEW f \in 1 .. Len(folders), NEW fo, fo.n - folders[f].n \in {0, 1}
    PROVE  /\ Emitted(f, fo) \in Seq(1 .. Len(folders))
           /\ Concurrent => Emitted(f, fo) = <<>>
<1>1. PICK k \in Nat : k = fo.n - folders[f].n
  OBVIOUS
<1>2. Emitted(f, fo) = Direct(f, k) /\ Len(folders) \in Nat
  BY <1>1, FolderTypes DEF Emitted
<1> QED BY <1>2, DirectProperties

\* Steps that leave the folders before writeSeq alone.
LEMMA BodyStays ==
    ASSUME TypeOK, SpoolsOf, BodyInOrder, opt' = opt, coord' = coord,
           Len(folders') \in Nat, Len(folders') >= Len(folders),
           Concurrent => out' = out,
           Concurrent => \A k \in 1 .. Len(folders) : k < coord.seq =>
               folders'[k].kept = folders[k].kept /\ folders'[k].spool = folders[k].spool,
           ~Concurrent => \A k \in 1 .. Len(folders') : folders'[k].spool = "none"
    PROVE  SpoolsOf' /\ BodyInOrder'
<1>1. Concurrent' <=> Concurrent
  BY DEF Concurrent
<1>2. coord.seq \in Nat /\ coord.seq <= Len(folders) + 1 /\ Len(folders) \in Nat
  BY DEF TypeOK
<1>3. SpoolsOf'
  BY <1>1, <1>2 DEF SpoolsOf
<1>4. ASSUME Concurrent, ~coord.err
      PROVE  out' = FlattenSeq([k \in 1 .. coord.seq - 1 |-> [x \in 1 .. folders'[k].kept |-> k]])
  <2>1. \A k \in 1 .. coord.seq - 1 : folders'[k].kept = folders[k].kept
    BY <1>2, <1>4
  <2>2. [k \in 1 .. coord.seq - 1 |-> [x \in 1 .. folders'[k].kept |-> k]]
          = [k \in 1 .. coord.seq - 1 |-> [x \in 1 .. folders[k].kept |-> k]]
    BY <2>1
  <2> QED BY <1>4, <2>2 DEF BodyInOrder
<1>5. BodyInOrder'
  BY <1>1, <1>4 DEF BodyInOrder
<1> QED BY <1>3, <1>5

\* Steps that replace folders by folders and nothing of the coordinator.
LEMMA TypesStay ==
    ASSUME TypeOK, FoldersOK(folders'), Len(folders') = Len(folders),
           UNCHANGED <<opt, fold, chan, chClosed, coord, late>>,
           files' \in Seq(Jobs), current' \in Jobs \cup {NoJob}, active' \in 0 .. Len(folders),
           pc' \in [Jobs -> FilePcs], written' \in [Jobs -> 0 .. MaxUnits],
           size' \in [Jobs -> 0 .. MaxUnits], wpc' \in WriterPcs,
           out' \in Seq(1 .. Len(folders)), failed' \in BOOLEAN
    PROVE  TypeOK'
<1>1. /\ folders' \in Seq([files : Seq(Jobs), data : Seq(Jobs), n : Nat, kept : Nat,
                          closed : BOOLEAN, spool : SpoolStates, torn : BOOLEAN])
      /\ \A k \in 1 .. Len(folders') : folders'[k].kept <= folders'[k].n
  BY DEF FoldersOK, Recs
<1>2. Len(chan') <= Slots
  BY DEF TypeOK
<1> QED BY <1>1, <1>2 DEF TypeOK

\* Calls before Writer.Close: of the goroutines'
\* state only that of files changes that the coordinator never sees.
LEMMA CallersStep ==
    ASSUME TypeOK, Control, wpc = "open", Len(folders') = Len(folders),
           UNCHANGED <<opt, fold, chan, chClosed, coord, wpc, late>>,
           failed => failed',
           \A i \in Jobs :
               \/ pc'[i] = pc[i]
               \/ /\ pc'[i] \in {"open", "done", "error"}
                  /\ pc'[i] = "error" => failed'
                  /\ Concurrent => fold[i] = 0
    PROVE  Control'
<1> USE DEF Control
<1>1. Concurrent' <=> Concurrent
  BY DEF Concurrent
<1>2. NoSendOnClosedChannel'
  BY DEF NoSendOnClosedChannel
<1>3. Folded'
  BY DEF Folded
<1>4. CloseStages'
  BY <1>1 DEF CloseStages
<1>5. Coordinated'
  BY <1>1 DEF Coordinated
<1>6. Owned'
  BY <1>1 DEF Owned
<1>7. SentWhenClosed'
  BY <1>1 DEF SentWhenClosed, Sent
<1>8. Belated'
  BY <1>1 DEF Belated, Unfinished
<1>9. ErrorsReported'
  BY DEF ErrorsReported
<1> QED BY <1>2, <1>3, <1>4, <1>5, <1>6, <1>7, <1>8, <1>9

\* Writes, at any time: nothing of the goroutines' state changes.
LEMMA ControlStays ==
    ASSUME TypeOK, Control, Len(folders') = Len(folders),
           UNCHANGED <<opt, pc, fold, current, chan, chClosed, coord, wpc, late>>,
           failed => failed'
    PROVE  Control'
<1> USE DEF Control
<1>1. Concurrent' <=> Concurrent
  BY DEF Concurrent
<1>2. NoSendOnClosedChannel' /\ Folded' /\ ErrorsReported'
  BY DEF NoSendOnClosedChannel, Folded, ErrorsReported
<1>3. CloseStages' /\ Belated'
  BY <1>1 DEF CloseStages, Belated, Unfinished
<1>4. Coordinated' /\ Owned' /\ SentWhenClosed'
  BY <1>1 DEF Coordinated, Owned, SentWhenClosed, Sent
<1> QED BY <1>2, <1>3, <1>4

\* The implicit close: no file's in the concurrent mode.
LEMMA ImplicitClose ==
    ASSUME TypeOK, NEW j, NEW p \in FilePcs, AfterImplicitClose(j, p)
    PROVE  /\ pc' \in [Jobs -> FilePcs] /\ size' \in [Jobs -> 0 .. MaxUnits]
           /\ \A i \in Jobs :
                 /\ i = j => pc'[i] = p
                 /\ i # j => \/ pc'[i] = pc[i]
                             \/ pc'[i] = "done" /\ ~Concurrent
           /\ CurrentFold \in 0 .. Len(folders)
           /\ Concurrent => CurrentFold = 0
<1>1. pc' \in [Jobs -> FilePcs]
  BY DEF TypeOK, FilePcs, AfterImplicitClose
<1>2. size' \in [Jobs -> 0 .. MaxUnits]
  BY DEF TypeOK, AfterImplicitClose
<1>3. \A i \in Jobs : pc'[i] = IF i = j THEN p ELSE IF ImplicitlyClosed(i) THEN "done" ELSE pc[i]
  BY DEF AfterImplicitClose
<1>4. \A i : ImplicitlyClosed(i) => ~Concurrent
  BY DEF ImplicitlyClosed, ClosesCurrent
<1>5. CurrentFold \in 0 .. Len(folders) /\ (Concurrent => CurrentFold = 0)
  BY DEF CurrentFold, ClosesCurrent, TypeOK
<1> QED BY <1>1, <1>2, <1>3, <1>4, <1>5

-----------------------------------------------------------------------------
\* What Inv says of the folders, for the lemmas above.
LEMMA InvParts == Inv => TypeOK /\ Control /\ SpoolsOf /\ BodyInOrder
BY DEF Inv

\* A step that closes folder f, if any, of another mode than the concurrent one.
LEMMA CloseStep ==
    ASSUME Inv, NEW f \in 0 .. Len(folders), Concurrent => f = 0,
           folders' = CloseFold(folders, f), out' = out \o FlushFold(folders, f),
           opt' = opt, coord' = coord
    PROVE  /\ FoldersOK(folders') /\ Len(folders') = Len(folders)
           /\ out' \in Seq(1 .. Len(folders))
           /\ SpoolsOf' /\ BodyInOrder'
<1>1. /\ TypeOK /\ SpoolsOf /\ BodyInOrder
      /\ FoldersOK(folders) /\ Len(folders) \in Nat
  BY InvParts, FolderTypes
<1>2. /\ FoldersOK(folders') /\ Len(folders') = Len(folders)
      /\ \A k \in 1 .. Len(folders) : folders'[k].spool = folders[k].spool
  BY <1>1, CloseFoldProperties
<1>3. /\ FlushFold(folders, f) \in Seq(1 .. Len(folders))
      /\ Concurrent => FlushFold(folders, f) = <<>>
  BY <1>1, FlushFoldProperties
<1>4. out \in Seq(1 .. Len(folders))
  BY <1>1 DEF TypeOK
<1>5. out' \in Seq(1 .. Len(folders)) /\ (Concurrent => out' = out)
  BY <1>3, <1>4, BodyType
<1>6. Concurrent => folders' = folders
  BY DEF CloseFold
<1>7. SpoolsOf' /\ BodyInOrder'
  <2>1. ~Concurrent => \A k \in 1 .. Len(folders') : folders'[k].spool = "none"
    BY <1>1, <1>2 DEF SpoolsOf
  <2> QED BY <1>1, <1>2, <1>5, <1>6, <2>1, BodyStays
<1> QED BY <1>2, <1>5, <1>7

\* A directory.
LEMMA CreateDirInv ==
    ASSUME Inv, NEW j \in Jobs, CreateDir(j)
    PROVE  Inv'
<1>1. TypeOK /\ Control
  BY InvParts
<1>2. /\ pc[j] = "none" /\ wpc = "open" /\ AfterImplicitClose(j, "open")
      /\ folders' = CloseFold(folders, CurrentFold)
      /\ out' = out \o FlushFold(folders, CurrentFold)
      /\ files' = Append(files, j) /\ current' = j
      /\ UNCHANGED <<opt, active, fold, written, chan, chClosed, coord, wpc, hdr, failed, late>>
  BY DEF CreateDir, coordVars
<1>3. /\ pc' \in [Jobs -> FilePcs] /\ size' \in [Jobs -> 0 .. MaxUnits]
      /\ \A i \in Jobs :
            /\ i = j => pc'[i] = "open"
            /\ i # j => pc'[i] = pc[i] \/ (pc'[i] = "done" /\ ~Concurrent)
      /\ CurrentFold \in 0 .. Len(folders)
      /\ Concurrent => CurrentFold = 0
  <2>1. "open" \in FilePcs
    BY DEF FilePcs
  <2> QED BY <1>1, <1>2, <2>1, ImplicitClose
<1>4. /\ FoldersOK(folders') /\ Len(folders') = Len(folders)
      /\ out' \in Seq(1 .. Len(folders))
      /\ SpoolsOf' /\ BodyInOrder'
  BY <1>2, <1>3, CloseStep
<1>5. TypeOK'
  <2>1. files' \in Seq(Jobs)
    BY <1>1, <1>2, AppendProperties DEF TypeOK
  <2>2. /\ current' \in Jobs \cup {NoJob} /\ active' \in 0 .. Len(folders)
        /\ written' \in [Jobs -> 0 .. MaxUnits] /\ wpc' \in WriterPcs /\ failed' \in BOOLEAN
    BY <1>1, <1>2 DEF TypeOK
  <2> QED BY <1>1, <1>2, <1>3, <1>4, <2>1, <2>2, TypesStay
<1>6. Control'
  <2>1. fold[j] = 0
    BY <1>1, <1>2 DEF Control, Folded
  <2> QED BY <1>1, <1>2, <1>3, <1>4, <2>1, CallersStep
<1> QED BY <1>4, <1>5, <1>6 DEF Inv

\* A file whose folder cannot be set up.
LEMMA SetupFailsInv ==
    ASSUME Inv, NEW j \in Jobs, SetupFails(j)
    PROVE  Inv'
<1>1. TypeOK /\ Control
  BY InvParts
<1>2. /\ pc[j] = "none" /\ wpc = "open" /\ AfterImplicitClose(j, "error")
      /\ folders' = CloseFold(folders, CurrentFold)
      /\ out' = out \o FlushFold(folders, CurrentFold)
      /\ files' = Append(files, j) /\ failed' = TRUE
      /\ UNCHANGED <<opt, current, active, fold, written, chan, chClosed, coord, wpc, hdr, late>>
  BY DEF SetupFails, coordVars
<1>3. /\ pc' \in [Jobs -> FilePcs] /\ size' \in [Jobs -> 0 .. MaxUnits]
      /\ \A i \in Jobs :
            /\ i = j => pc'[i] = "error"
            /\ i # j => pc'[i] = pc[i] \/ (pc'[i] = "done" /\ ~Concurrent)
      /\ CurrentFold \in 0 .. Len(folders)
      /\ Concurrent => CurrentFold = 0
  <2>1. "error" \in FilePcs
    BY DEF FilePcs
  <2> QED BY <1>1, <1>2, <2>1, ImplicitClose
<1>4. /\ FoldersOK(folders') /\ Len(folders') = Len(folders)
      /\ out' \in Seq(1 .. Len(folders))
      /\ SpoolsOf' /\ BodyInOrder'
  BY <1>2, <1>3, CloseStep
<1>5. TypeOK'
  <2>1. files' \in Seq(Jobs)
    BY <1>1, <1>2, AppendProperties DEF TypeOK
  <2>2. /\ current' \in Jobs \cup {NoJob} /\ active' \in 0 .. Len(folders)
        /\ written' \in [Jobs -> 0 .. MaxUnits] /\ wpc' \in WriterPcs /\ failed' \in BOOLEAN
    BY <1>1, <1>2 DEF TypeOK
  <2> QED BY <1>1, <1>2, <1>3, <1>4, <2>1, <2>2, TypesStay
<1>6. Control'
  <2>1. fold[j] = 0
    BY <1>1, <1>2 DEF Control, Folded
  <2> QED BY <1>1, <1>2, <1>3, <1>4, <2>1, CallersStep
<1> QED BY <1>4, <1>5, <1>6 DEF Inv

\* A file closed in the sequential or the solid mode.
LEMMA CloseFileNowInv ==
    ASSUME Inv, NEW j \in Jobs, CloseFileNow(j)
    PROVE  Inv'
<1> DEFINE f == IF opt.solid THEN 0 ELSE fold[j]
<1>1. TypeOK /\ Control
  BY InvParts
<1>2. /\ ~Concurrent /\ wpc = "open"
      /\ pc' = [pc EXCEPT ![j] = "done"] /\ size' = [size EXCEPT ![j] = written[j]]
      /\ folders' = CloseFold(folders, f) /\ out' = out \o FlushFold(folders, f)
      /\ UNCHANGED <<opt, files, current, active, fold, written, chan, chClosed, coord, wpc, hdr, failed, late>>
  BY DEF CloseFileNow, coordVars
<1>3. f \in 0 .. Len(folders)
  BY <1>1 DEF TypeOK
<1> HIDE DEF f
<1>4. /\ FoldersOK(folders') /\ Len(folders') = Len(folders)
      /\ out' \in Seq(1 .. Len(folders))
      /\ SpoolsOf' /\ BodyInOrder'
  BY <1>2, <1>3, CloseStep
<1>5. TypeOK'
  <2>1. pc' \in [Jobs -> FilePcs] /\ size' \in [Jobs -> 0 .. MaxUnits]
    BY <1>1, <1>2 DEF TypeOK, FilePcs
  <2>2. /\ files' \in Seq(Jobs) /\ current' \in Jobs \cup {NoJob} /\ active' \in 0 .. Len(folders)
        /\ written' \in [Jobs -> 0 .. MaxUnits] /\ wpc' \in WriterPcs /\ failed' \in BOOLEAN
    BY <1>1, <1>2 DEF TypeOK
  <2> QED BY <1>1, <1>2, <1>4, <2>1, <2>2, TypesStay
<1>6. Control'
  <2>1. \A i \in Jobs : pc'[i] = pc[i] \/ pc'[i] = "done"
    BY <1>1, <1>2 DEF TypeOK
  <2> QED BY <1>1, <1>2, <1>4, <2>1, CallersStep
<1> QED BY <1>4, <1>5, <1>6 DEF Inv

\* Writer.Close closes the last file and the last folder.
LEMMA CloseCurrentNowInv ==
    ASSUME Inv, CloseCurrentNow
    PROVE  Inv'
<1> DEFINE f == IF opt.solid THEN active ELSE CurrentFold
<1>1. TypeOK /\ Control
  BY InvParts
<1>2. /\ ~Concurrent /\ wpc = "current" /\ wpc' = "header"
      /\ AfterImplicitClose(NoJob, "done")
      /\ folders' = CloseFold(folders, f) /\ out' = out \o FlushFold(folders, f)
      /\ active' = IF opt.solid THEN 0 ELSE active
      /\ UNCHANGED <<opt, files, current, fold, written, chan, chClosed, coord, hdr, failed, late>>
  BY DEF CloseCurrentNow, coordVars
<1>3. /\ pc' \in [Jobs -> FilePcs] /\ size' \in [Jobs -> 0 .. MaxUnits]
      /\ \A i \in Jobs : pc'[i] = pc[i] \/ pc'[i] = "done"
      /\ CurrentFold \in 0 .. Len(folders)
  <2>1. "done" \in FilePcs
    BY DEF FilePcs
  <2> QED BY <1>1, <1>2, <2>1, ImplicitClose
<1>4. f \in 0 .. Len(folders)
  BY <1>1, <1>3 DEF TypeOK
<1> HIDE DEF f
<1>5. /\ FoldersOK(folders') /\ Len(folders') = Len(folders)
      /\ out' \in Seq(1 .. Len(folders))
      /\ SpoolsOf' /\ BodyInOrder'
  BY <1>2, <1>4, CloseStep
<1>6. TypeOK'
  <2>1. /\ files' \in Seq(Jobs) /\ current' \in Jobs \cup {NoJob}
        /\ written' \in [Jobs -> 0 .. MaxUnits] /\ failed' \in BOOLEAN
    BY <1>1, <1>2 DEF TypeOK
  <2>2. active' \in 0 .. Len(folders)
    BY <1>1, <1>2 DEF TypeOK
  <2>3. wpc' \in WriterPcs
    BY <1>2 DEF WriterPcs
  <2> QED BY <1>1, <1>2, <1>3, <1>5, <2>1, <2>2, <2>3, TypesStay
<1>7. Control'
  <2> USE DEF Control
  <2>1. ~Concurrent'
    BY <1>2 DEF Concurrent
  <2>2. NoSendOnClosedChannel' /\ Folded'
    BY <1>1, <1>2, <1>3 DEF NoSendOnClosedChannel, Folded
  <2>3. CloseStages'
    BY <1>1, <1>2, <1>3 DEF CloseStages
  <2>4. Coordinated' /\ Owned' /\ SentWhenClosed' /\ Belated'
    BY <1>1, <1>2, <2>1 DEF Coordinated, Owned, SentWhenClosed, Belated, Unfinished
  <2>5. ErrorsReported'
    BY <1>1, <1>2, <1>3 DEF ErrorsReported
  <2> QED BY <2>2, <2>3, <2>4, <2>5
<1> QED BY <1>5, <1>6, <1>7 DEF Inv

-----------------------------------------------------------------------------
\* A step that replaces a folder the coordinator has not been given.
LEMMA FolderStep ==
    ASSUME Inv, NEW f \in 1 .. Len(folders), NEW r \in Recs, r.kept <= r.n,
           folders[f].spool = "none" => r.spool = "none",
           folders' = [folders EXCEPT ![f] = r],
           Concurrent => f >= coord.seq, Concurrent => out' = out,
           opt' = opt, coord' = coord
    PROVE  /\ FoldersOK(folders') /\ Len(folders') = Len(folders)
           /\ SpoolsOf' /\ BodyInOrder'
<1>1. /\ TypeOK /\ SpoolsOf /\ BodyInOrder
      /\ FoldersOK(folders) /\ Len(folders) \in Nat /\ coord.seq \in Nat
  <2>1. TypeOK /\ SpoolsOf /\ BodyInOrder
    BY InvParts
  <2>2. coord.seq \in Nat
    BY <2>1 DEF TypeOK
  <2> QED BY <2>1, <2>2, FolderTypes
<1>2. /\ FoldersOK(folders') /\ Len(folders') = Len(folders)
      /\ \A k \in 1 .. Len(folders) : folders'[k] = IF k = f THEN r ELSE folders[k]
  <2>1. PICK fs, gs : fs = folders /\ gs = folders'
    OBVIOUS
  <2>2. FoldersOK(fs) /\ f \in 1 .. Len(fs) /\ gs = [fs EXCEPT ![f] = r]
    BY <1>1, <2>1
  <2>3. FoldersOK(gs) /\ Len(gs) = Len(fs)
    BY ONLY <2>2, r \in Recs, r.kept <= r.n, ReplaceFolder
  <2>4. \A k \in 1 .. Len(fs) : gs[k] = IF k = f THEN r ELSE fs[k]
    BY ONLY <2>2, r \in Recs, r.kept <= r.n, ReplaceFolder
  <2> QED BY <2>1, <2>3, <2>4
<1>3. ~Concurrent => \A k \in 1 .. Len(folders') : folders'[k].spool = "none"
  BY <1>1, <1>2 DEF SpoolsOf
<1>4. Concurrent => \A k \in 1 .. Len(folders) : k < coord.seq => folders'[k] = folders[k]
  BY <1>1, <1>2
<1> QED BY <1>1, <1>2, <1>3, <1>4, BodyStays

\* A folder whose compressor fails is closed, with or without its last chunk.
LEMMA FailStep ==
    ASSUME Inv, NEW f \in 1 .. Len(folders), CloseFoldFails(f),
           Concurrent => f >= coord.seq, UNCHANGED <<opt, coord>>
    PROVE  /\ FoldersOK(folders') /\ Len(folders') = Len(folders)
           /\ out' \in Seq(1 .. Len(folders))
           /\ SpoolsOf' /\ BodyInOrder'
<1>1. PICK o \in Recs : o = folders[f] /\ o.kept <= o.n
  BY InvParts, FolderTypes
<1>2. PICK fo \in SpoolFails(folders[f]) :
         /\ folders' = [folders EXCEPT ![f] = [fo EXCEPT !.closed = TRUE, !.torn = TRUE]]
         /\ out' = out \o Emitted(f, fo)
  BY DEF CloseFoldFails
<1>3. /\ fo \in Recs /\ fo.kept <= fo.n
      /\ o.spool = "none" => fo.spool = "none"
      /\ fo.n - o.n \in {0, 1}
  BY <1>1, <1>2, SpoolFailsProperties
<1>4. [fo EXCEPT !.closed = TRUE, !.torn = TRUE] \in Recs
  BY <1>3 DEF Recs
<1>5. PICK r \in Recs : r = [fo EXCEPT !.closed = TRUE, !.torn = TRUE]
  BY <1>4
<1>6. r.kept = fo.kept /\ r.n = fo.n /\ r.spool = fo.spool
  BY <1>3, <1>5 DEF Recs
<1>7. out' \in Seq(1 .. Len(folders)) /\ (Concurrent => out' = out)
  <2>1. /\ Emitted(f, fo) \in Seq(1 .. Len(folders))
        /\ Concurrent => Emitted(f, fo) = <<>>
    BY <1>1, <1>3, InvParts, EmittedProperties
  <2>2. out \in Seq(1 .. Len(folders))
    BY InvParts DEF TypeOK
  <2> QED BY <1>2, <2>1, <2>2, BodyType
<1>8. folders' = [folders EXCEPT ![f] = r]
  BY <1>2, <1>5
<1> QED BY <1>1, <1>3, <1>6, <1>7, <1>8, FolderStep

\* The implicit close fails.
LEMMA CreateFailsInv ==
    ASSUME Inv, NEW j \in Jobs, CreateFails(j)
    PROVE  Inv'
<1>1. TypeOK /\ Control
  BY InvParts
<1>2. /\ wpc = "open" /\ CurrentFold # 0 /\ failed' = TRUE
      /\ pc' = [pc EXCEPT ![current] = "error"]
      /\ CloseFoldFails(CurrentFold)
      /\ UNCHANGED <<opt, files, current, active, fold, written, size, chan, chClosed, coord, wpc, hdr, late>>
  BY DEF CreateFails, coordVars
<1>3. ~Concurrent /\ CurrentFold \in 1 .. Len(folders)
  BY <1>1, <1>2, JobsAssumption DEF CurrentFold, ClosesCurrent, TypeOK
<1>4. /\ FoldersOK(folders') /\ Len(folders') = Len(folders)
      /\ out' \in Seq(1 .. Len(folders))
      /\ SpoolsOf' /\ BodyInOrder'
  BY <1>2, <1>3, FailStep
<1>5. TypeOK'
  <2>1. pc' \in [Jobs -> FilePcs]
    BY <1>1, <1>2 DEF TypeOK, FilePcs
  <2>2. /\ files' \in Seq(Jobs) /\ current' \in Jobs \cup {NoJob} /\ active' \in 0 .. Len(folders)
        /\ written' \in [Jobs -> 0 .. MaxUnits] /\ size' \in [Jobs -> 0 .. MaxUnits]
        /\ wpc' \in WriterPcs /\ failed' \in BOOLEAN
    BY <1>1, <1>2 DEF TypeOK
  <2> QED BY <1>1, <1>2, <1>4, <2>1, <2>2, TypesStay
<1>6. Control'
  <2>1. \A i \in Jobs : pc'[i] = pc[i] \/ pc'[i] = "error"
    BY <1>1, <1>2 DEF TypeOK
  <2> QED BY <1>1, <1>2, <1>3, <1>4, <2>1, CallersStep
<1> QED BY <1>4, <1>5, <1>6 DEF Inv

\* Writer.Close fails to close the last folder.
LEMMA CloseCurrentFailsInv ==
    ASSUME Inv, CloseCurrentFails
    PROVE  Inv'
<1> DEFINE f == IF opt.solid THEN active ELSE CurrentFold
<1>1. TypeOK /\ Control
  BY InvParts
<1>2. /\ ~Concurrent /\ f # 0 /\ failed' = TRUE /\ wpc = "current" /\ wpc' = "err"
      /\ CloseFoldFails(f)
      /\ UNCHANGED <<opt, files, current, active, pc, fold, written, size, chan, chClosed, coord, hdr, late>>
  BY DEF CloseCurrentFails, coordVars, fileVars
<1>3. f \in 1 .. Len(folders)
  BY <1>1, <1>2, JobsAssumption DEF CurrentFold, ClosesCurrent, TypeOK
<1> HIDE DEF f
<1>4. /\ FoldersOK(folders') /\ Len(folders') = Len(folders)
      /\ out' \in Seq(1 .. Len(folders))
      /\ SpoolsOf' /\ BodyInOrder'
  BY <1>2, <1>3, FailStep
<1>5. TypeOK'
  <2>2. /\ files' \in Seq(Jobs) /\ current' \in Jobs \cup {NoJob} /\ active' \in 0 .. Len(folders)
        /\ pc' \in [Jobs -> FilePcs]
        /\ written' \in [Jobs -> 0 .. MaxUnits] /\ size' \in [Jobs -> 0 .. MaxUnits]
        /\ wpc' \in WriterPcs /\ failed' \in BOOLEAN
    BY <1>1, <1>2 DEF TypeOK, WriterPcs
  <2> QED BY <1>1, <1>2, <1>4, <2>2, TypesStay
<1>6. Control'
  <2> USE DEF Control
  <2>1. ~Concurrent'
    BY <1>2 DEF Concurrent
  <2>2. NoSendOnClosedChannel' /\ Folded' /\ ErrorsReported'
    BY <1>1, <1>2 DEF NoSendOnClosedChannel, Folded, ErrorsReported
  <2>3. CloseStages'
    BY <1>1, <1>2 DEF CloseStages
  <2>4. Coordinated' /\ Owned' /\ SentWhenClosed' /\ Belated'
    BY <1>1, <1>2, <2>1 DEF Coordinated, Owned, SentWhenClosed, Belated, Unfinished
  <2> QED BY <2>2, <2>3, <2>4
<1> QED BY <1>4, <1>5, <1>6 DEF Inv

\* The folder of a fileWriter that has not sent it is not before writeSeq.
LEMMA NotSent ==
    ASSUME TypeOK, Control, NEW j \in Jobs, pc[j] \in {"open", "folding"}, fold[j] # 0
    PROVE  fold[j] \in 1 .. Len(folders) /\ (Concurrent => fold[j] >= coord.seq)
<1>1. fold[j] \in 1 .. Len(folders) /\ coord.seq \in Nat /\ Len(folders) \in Nat
  BY DEF TypeOK
<1>2. Concurrent => ~(fold[j] < coord.seq)
  BY DEF Control, SentWhenClosed, Sent
<1> QED BY <1>1, <1>2

\* A folder that cannot be compressed.
LEMMA FoldCloseFailsInv ==
    ASSUME Inv, NEW j \in Jobs, FoldCloseFails(j)
    PROVE  Inv'
<1>1. TypeOK /\ Control
  BY InvParts
<1>2. /\ fold[j] # 0 /\ failed' = TRUE
      /\ pc[j] \in {"open", "folding"} /\ (Concurrent => pc[j] = "folding")
      /\ ~Concurrent => wpc = "open"
      /\ pc' = [pc EXCEPT ![j] = "error"]
      /\ CloseFoldFails(fold[j])
      /\ UNCHANGED <<opt, files, current, active, fold, written, size, chan, chClosed, coord, wpc, hdr, late>>
  BY DEF FoldCloseFails, coordVars
<1>3. fold[j] \in 1 .. Len(folders) /\ (Concurrent => fold[j] >= coord.seq)
  BY <1>1, <1>2, NotSent
<1>4. /\ FoldersOK(folders') /\ Len(folders') = Len(folders)
      /\ out' \in Seq(1 .. Len(folders))
      /\ SpoolsOf' /\ BodyInOrder'
  BY <1>2, <1>3, FailStep
<1>5. TypeOK'
  <2>1. pc' \in [Jobs -> FilePcs]
    BY <1>1, <1>2 DEF TypeOK, FilePcs
  <2>2. /\ files' \in Seq(Jobs) /\ current' \in Jobs \cup {NoJob} /\ active' \in 0 .. Len(folders)
        /\ written' \in [Jobs -> 0 .. MaxUnits] /\ size' \in [Jobs -> 0 .. MaxUnits]
        /\ wpc' \in WriterPcs /\ failed' \in BOOLEAN
    BY <1>1, <1>2 DEF TypeOK
  <2> QED BY <1>1, <1>2, <1>4, <2>1, <2>2, TypesStay
<1>6. Control'
  <2> USE DEF Control
  <2>1. Concurrent' <=> Concurrent
    BY <1>2 DEF Concurrent
  <2>2. \A i \in Jobs : pc'[i] = IF i = j THEN "error" ELSE pc[i]
    BY <1>1, <1>2 DEF TypeOK
  <2>3. NoSendOnClosedChannel' /\ Folded' /\ ErrorsReported'
    BY <1>1, <1>2, <2>2 DEF NoSendOnClosedChannel, Folded, ErrorsReported
  <2>4. CloseStages' /\ Belated'
    BY <1>1, <1>2, <2>1, <2>2 DEF CloseStages, Belated, Unfinished
  <2>5. Coordinated' /\ Owned'
    BY <1>1, <1>2, <1>4, <2>1 DEF Coordinated, Owned
  <2>6. SentWhenClosed'
    BY <1>1, <1>2, <2>1, <2>2 DEF SentWhenClosed, Sent
  <2> QED BY <2>3, <2>4, <2>5, <2>6
<1> QED BY <1>4, <1>5, <1>6 DEF Inv

\* A write adds to a folder that its fileWriter has not sent.
LEMMA WriteInv ==
    ASSUME Inv, NEW j \in Jobs, Write(j)
    PROVE  Inv'
<1>1. TypeOK /\ Control
  BY InvParts
<1>2. /\ pc[j] = "open" /\ written[j] < MaxUnits /\ fold[j] # 0
      /\ written' = [written EXCEPT ![j] = @ + 1]
      /\ UNCHANGED <<opt, files, current, active, pc, fold, size, chan, chClosed, coord, wpc, hdr, failed, late>>
  BY DEF Write, Writable, coordVars
<1>3. PICK k \in {0, 1} :
         /\ \E fo \in SpoolWrites(folders[fold[j]], k) :
               folders' = [folders EXCEPT ![fold[j]] = [fo EXCEPT !.data = Append(@, j)]]
         /\ out' = out \o Direct(fold[j], k)
  BY DEF Write
<1>4. PICK fo \in SpoolWrites(folders[fold[j]], k) :
         folders' = [folders EXCEPT ![fold[j]] = [fo EXCEPT !.data = Append(@, j)]]
  BY <1>3
<1>5. fold[j] \in 1 .. Len(folders) /\ (Concurrent => fold[j] >= coord.seq) /\ Len(folders) \in Nat
  BY <1>1, <1>2, NotSent, FolderTypes
<1>6. /\ fo \in Recs /\ fo.kept <= fo.n
      /\ folders[fold[j]].spool = "none" => fo.spool = "none"
  <2>1. folders[fold[j]] \in Recs /\ folders[fold[j]].kept <= folders[fold[j]].n
    BY <1>1, <1>5, FolderTypes
  <2> QED BY <2>1, SpoolWritesProperties
<1>7. PICK r \in Recs : /\ r = [fo EXCEPT !.data = Append(@, j)]
                        /\ r.kept = fo.kept /\ r.n = fo.n /\ r.spool = fo.spool
  <2>1. fo.data \in Seq(Jobs)
    BY <1>6 DEF Recs
  <2>2. PICK d \in Seq(Jobs) : d = Append(fo.data, j)
    BY <2>1, AppendProperties
  <2>3. [fo EXCEPT !.data = d] \in Recs
    BY <1>6 DEF Recs
  <2>4. PICK r \in Recs : r = [fo EXCEPT !.data = d]
    BY <2>3
  <2>5. r.kept = fo.kept /\ r.n = fo.n /\ r.spool = fo.spool
    BY <1>6, <2>4 DEF Recs
  <2> QED BY <2>2, <2>4, <2>5
<1>8. out' \in Seq(1 .. Len(folders)) /\ (Concurrent => out' = out)
  <2>1. out \in Seq(1 .. Len(folders)) /\ k \in Nat
    BY <1>1 DEF TypeOK
  <2>2. /\ Direct(fold[j], k) \in Seq(1 .. Len(folders))
        /\ Concurrent => Direct(fold[j], k) = <<>>
    BY <1>5, <2>1, DirectProperties
  <2> QED BY <1>3, <2>1, <2>2, BodyType
<1>9. FoldersOK(folders') /\ Len(folders') = Len(folders) /\ SpoolsOf' /\ BodyInOrder'
  BY <1>2, <1>4, <1>5, <1>6, <1>7, <1>8, FolderStep
<1>10. TypeOK'
  <2>1. written' \in [Jobs -> 0 .. MaxUnits]
    <3>1. written[j] \in 0 .. MaxUnits /\ MaxUnits \in Nat
      BY <1>1, BoundsAssumption DEF TypeOK
    <3>2. written[j] + 1 \in 0 .. MaxUnits
      BY <1>2, <3>1
    <3> QED BY <1>1, <1>2, <3>2 DEF TypeOK
  <2>2. /\ files' \in Seq(Jobs) /\ current' \in Jobs \cup {NoJob} /\ active' \in 0 .. Len(folders)
        /\ pc' \in [Jobs -> FilePcs] /\ size' \in [Jobs -> 0 .. MaxUnits]
        /\ wpc' \in WriterPcs /\ failed' \in BOOLEAN
    BY <1>1, <1>2 DEF TypeOK
  <2> QED BY <1>1, <1>2, <1>8, <1>9, <2>1, <2>2, TypesStay
<1>11. Control'
  BY <1>1, <1>2, <1>9, ControlStays
<1> QED BY <1>9, <1>10, <1>11 DEF Inv

\* A failing write adds at most a part of a chunk to a folder that its fileWriter
\* has not sent.
LEMMA WriteFailsInv ==
    ASSUME Inv, NEW j \in Jobs, WriteFails(j)
    PROVE  Inv'
<1>1. TypeOK /\ Control
  BY InvParts
<1>2. /\ pc[j] = "open" /\ fold[j] # 0 /\ failed' = TRUE
      /\ UNCHANGED <<opt, files, current, active, pc, fold, size, chan, chClosed, coord, wpc, hdr, late>>
  BY DEF WriteFails, Writable, coordVars
<1>3. PICK u \in {0, 1}, fo \in SpoolFails(folders[fold[j]]) :
         /\ written[j] + u <= MaxUnits
         /\ written' = [written EXCEPT ![j] = @ + u]
         /\ folders' = [folders EXCEPT ![fold[j]] =
               [fo EXCEPT !.torn = TRUE, !.data = @ \o [i \in 1 .. u |-> j]]]
         /\ out' = out \o Emitted(fold[j], fo)
  BY DEF WriteFails
<1>4. fold[j] \in 1 .. Len(folders) /\ (Concurrent => fold[j] >= coord.seq) /\ Len(folders) \in Nat
  BY <1>1, <1>2, NotSent, FolderTypes
<1>5. /\ fo \in Recs /\ fo.kept <= fo.n
      /\ folders[fold[j]].spool = "none" => fo.spool = "none"
      /\ fo.n - folders[fold[j]].n \in {0, 1}
  <2>1. folders[fold[j]] \in Recs /\ folders[fold[j]].kept <= folders[fold[j]].n
    BY <1>1, <1>4, FolderTypes
  <2> QED BY <2>1, SpoolFailsProperties
<1>6. PICK r \in Recs : /\ r = [fo EXCEPT !.torn = TRUE, !.data = @ \o [i \in 1 .. u |-> j]]
                        /\ r.kept = fo.kept /\ r.n = fo.n /\ r.spool = fo.spool
  <2>1. fo.data \in Seq(Jobs) /\ [i \in 1 .. u |-> j] \in Seq(Jobs)
    BY <1>5 DEF Recs
  <2>2. PICK d \in Seq(Jobs) : d = fo.data \o [i \in 1 .. u |-> j]
    BY <2>1, ConcatProperties
  <2>3. [fo EXCEPT !.torn = TRUE, !.data = d] \in Recs
    BY <1>5 DEF Recs
  <2>4. PICK r \in Recs : r = [fo EXCEPT !.torn = TRUE, !.data = d]
    BY <2>3
  <2>5. r.kept = fo.kept /\ r.n = fo.n /\ r.spool = fo.spool
    BY <1>5, <2>4 DEF Recs
  <2> QED BY <2>2, <2>4, <2>5
<1>7. out' \in Seq(1 .. Len(folders)) /\ (Concurrent => out' = out)
  <2>1. /\ Emitted(fold[j], fo) \in Seq(1 .. Len(folders))
        /\ Concurrent => Emitted(fold[j], fo) = <<>>
    BY <1>1, <1>4, <1>5, EmittedProperties
  <2>2. out \in Seq(1 .. Len(folders))
    BY <1>1 DEF TypeOK
  <2> QED BY <1>3, <2>1, <2>2, BodyType
<1>8. FoldersOK(folders') /\ Len(folders') = Len(folders) /\ SpoolsOf' /\ BodyInOrder'
  BY <1>2, <1>3, <1>4, <1>5, <1>6, <1>7, FolderStep
<1>9. TypeOK'
  <2>1. written' \in [Jobs -> 0 .. MaxUnits]
    <3>1. written[j] \in 0 .. MaxUnits /\ MaxUnits \in Nat
      BY <1>1, BoundsAssumption DEF TypeOK
    <3>2. written[j] + u \in 0 .. MaxUnits
      BY <1>3, <3>1
    <3> QED BY <1>1, <1>3, <3>2 DEF TypeOK
  <2>2. /\ files' \in Seq(Jobs) /\ current' \in Jobs \cup {NoJob} /\ active' \in 0 .. Len(folders)
        /\ pc' \in [Jobs -> FilePcs] /\ size' \in [Jobs -> 0 .. MaxUnits]
        /\ wpc' \in WriterPcs /\ failed' \in BOOLEAN
    BY <1>1, <1>2 DEF TypeOK
  <2> QED BY <1>1, <1>2, <1>7, <1>8, <2>1, <2>2, TypesStay
<1>10. Control'
  BY <1>1, <1>2, <1>8, ControlStays
<1> QED BY <1>8, <1>9, <1>10 DEF Inv

\* fold.Close inside fileWriter.Close.
LEMMA FileCloseFoldInv ==
    ASSUME Inv, NEW j \in Jobs, FileCloseFold(j)
    PROVE  Inv'
<1>1. TypeOK /\ Control
  BY InvParts
<1>2. /\ pc[j] = "folding" /\ pc' = [pc EXCEPT ![j] = "sending"]
      /\ UNCHANGED <<opt, files, current, active, fold, written, size, chan, chClosed, coord, wpc, out, hdr, failed, late>>
  BY DEF FileCloseFold, coordVars
<1>3. PICK fo \in SpoolWrites(folders[fold[j]], 1) :
         folders' = [folders EXCEPT ![fold[j]] = [fo EXCEPT !.closed = TRUE]]
  BY DEF FileCloseFold
<1>4. fold[j] # 0
  BY <1>1, <1>2 DEF Control, Folded
<1>5. fold[j] \in 1 .. Len(folders) /\ (Concurrent => fold[j] >= coord.seq)
  BY <1>1, <1>2, <1>4, NotSent
<1>6. /\ fo \in Recs /\ fo.kept <= fo.n
      /\ folders[fold[j]].spool = "none" => fo.spool = "none"
  <2>1. folders[fold[j]] \in Recs /\ folders[fold[j]].kept <= folders[fold[j]].n
    BY <1>1, <1>5, FolderTypes
  <2> QED BY <2>1, SpoolWritesProperties
<1>7. PICK r \in Recs : /\ r = [fo EXCEPT !.closed = TRUE]
                        /\ r.kept = fo.kept /\ r.n = fo.n /\ r.spool = fo.spool
  <2>1. [fo EXCEPT !.closed = TRUE] \in Recs
    BY <1>6 DEF Recs
  <2>2. PICK r \in Recs : r = [fo EXCEPT !.closed = TRUE]
    BY <2>1
  <2>3. r.kept = fo.kept /\ r.n = fo.n /\ r.spool = fo.spool
    BY <1>6, <2>2 DEF Recs
  <2> QED BY <2>2, <2>3
<1>8. FoldersOK(folders') /\ Len(folders') = Len(folders) /\ SpoolsOf' /\ BodyInOrder'
  BY <1>2, <1>3, <1>5, <1>6, <1>7, FolderStep
<1>9. TypeOK'
  <2>1. pc' \in [Jobs -> FilePcs]
    BY <1>1, <1>2 DEF TypeOK, FilePcs
  <2>2. /\ files' \in Seq(Jobs) /\ current' \in Jobs \cup {NoJob} /\ active' \in 0 .. Len(folders)
        /\ written' \in [Jobs -> 0 .. MaxUnits] /\ size' \in [Jobs -> 0 .. MaxUnits]
        /\ wpc' \in WriterPcs /\ failed' \in BOOLEAN /\ out' \in Seq(1 .. Len(folders))
    BY <1>1, <1>2 DEF TypeOK
  <2> QED BY <1>1, <1>2, <1>8, <2>1, <2>2, TypesStay
<1>10. Control'
  <2> USE DEF Control
  <2>1. Concurrent' <=> Concurrent
    BY <1>2 DEF Concurrent
  <2>2. \A i \in Jobs : pc'[i] = IF i = j THEN "sending" ELSE pc[i]
    BY <1>1, <1>2 DEF TypeOK
  <2>3. NoSendOnClosedChannel' /\ Folded' /\ ErrorsReported'
    BY <1>1, <1>2, <1>4, <2>2 DEF NoSendOnClosedChannel, Folded, ErrorsReported
  <2>4. CloseStages' /\ Belated'
    BY <1>1, <1>2, <2>1, <2>2 DEF CloseStages, Belated, Unfinished
  <2>5. Coordinated' /\ Owned'
    BY <1>1, <1>2, <1>8, <2>1 DEF Coordinated, Owned
  <2>6. SentWhenClosed'
    BY <1>1, <1>2, <2>1, <2>2 DEF SentWhenClosed, Sent
  <2> QED BY <2>3, <2>4, <2>5, <2>6
<1> QED BY <1>8, <1>9, <1>10 DEF Inv

-----------------------------------------------------------------------------
\* A new folder behind the others.
LEMMA AppendFolder ==
    ASSUME NEW fs, FoldersOK(fs), NEW r \in Recs, r.kept <= r.n,
           NEW gs, gs = Append(fs, r)
    PROVE  /\ FoldersOK(gs) /\ Len(gs) = Len(fs) + 1
           /\ \A k \in 1 .. Len(fs) : gs[k] = fs[k]
           /\ gs[Len(fs) + 1] = r
<1>1. fs \in Seq(Recs) /\ Len(fs) \in Nat
  BY LenProperties DEF FoldersOK
<1>2. /\ gs \in Seq(Recs) /\ Len(gs) = Len(fs) + 1
      /\ \A k \in 1 .. Len(fs) : gs[k] = fs[k]
      /\ gs[Len(fs) + 1] = r
  BY <1>1, AppendProperties
<1> QED BY <1>1, <1>2 DEF FoldersOK

\* The folders after CreateFile: one more, or one with one more file.
LEMMA CreateFileFolders ==
    ASSUME Inv, NEW j \in Jobs, CreateFile(j)
    PROVE  /\ FoldersOK(folders') /\ out' \in Seq(1 .. Len(folders))
           /\ Len(folders') = Len(folders) + IF active = 0 \/ ~opt.solid THEN 1 ELSE 0
           /\ ~Concurrent => \A k \in 1 .. Len(folders') : folders'[k].spool = "none"
           /\ Concurrent => /\ out' = out
                            /\ \A k \in 1 .. Len(folders) : folders'[k] = folders[k]
           /\ CurrentFold \in 0 .. Len(folders)
<1> DEFINE fresh == active = 0 \/ ~opt.solid
           closing == CloseFold(folders, CurrentFold)
           prev == IF fresh /\ active # 0 /\ ~Concurrent THEN active ELSE 0
           ready == CloseFold(closing, prev)
           n == Len(folders)
<1>1. /\ TypeOK /\ SpoolsOf /\ FoldersOK(folders) /\ n \in Nat
      /\ out \in Seq(1 .. n)
  <2>1. TypeOK /\ SpoolsOf
    BY InvParts
  <2>2. out \in Seq(1 .. n)
    BY <2>1 DEF TypeOK
  <2> QED BY <2>1, <2>2, FolderTypes
<1>2. /\ AfterImplicitClose(j, "open")
      /\ out' = out \o FlushFold(folders, CurrentFold) \o FlushFold(closing, prev)
      /\ folders' = IF fresh THEN Append(ready, NewFolder(j))
                    ELSE [ready EXCEPT ![active].files = Append(@, j)]
  BY DEF CreateFile
<1>3. CurrentFold \in 0 .. n /\ (Concurrent => CurrentFold = 0)
  <2>1. "open" \in FilePcs
    BY DEF FilePcs
  <2> QED BY <1>1, <1>2, <2>1, ImplicitClose
<1>4. /\ FoldersOK(closing) /\ Len(closing) = n
      /\ \A k \in 1 .. n : closing[k].spool = folders[k].spool
  BY <1>1, <1>3, CloseFoldProperties
<1>5. prev \in 0 .. n /\ (Concurrent => prev = 0)
  BY <1>1 DEF TypeOK
<1>6. Concurrent => closing = folders /\ ready = closing
  BY <1>3, <1>5 DEF CloseFold
<1>7. /\ FlushFold(folders, CurrentFold) \in Seq(1 .. n)
      /\ Concurrent => FlushFold(folders, CurrentFold) = <<>>
  BY <1>1, <1>3, FlushFoldProperties
<1>8. active \in 0 .. n
  BY <1>1 DEF TypeOK
<1> HIDE DEF closing, prev
<1>9. /\ FlushFold(closing, prev) \in Seq(1 .. n)
      /\ Concurrent => FlushFold(closing, prev) = <<>>
  <2>1. Len(closing) \in Nat /\ prev \in 0 .. Len(closing)
    BY <1>1, <1>4, <1>5
  <2> QED BY <1>4, <2>1, FlushFoldProperties
<1>10. out' \in Seq(1 .. n) /\ (Concurrent => out' = out)
  <2>1. PICK o \in Seq(1 .. n) : /\ o = out \o FlushFold(folders, CurrentFold)
                                 /\ Concurrent => o = out
    BY <1>1, <1>7, BodyType
  <2>2. o \o FlushFold(closing, prev) \in Seq(1 .. n)
    BY <1>9, <2>1, BodyType
  <2>3. Concurrent => o \o FlushFold(closing, prev) = o
    BY <1>9, <2>1, BodyType
  <2> QED BY <1>2, <2>1, <2>2, <2>3
<1>11. /\ FoldersOK(ready) /\ Len(ready) = n
       /\ \A k \in 1 .. n : ready[k].spool = folders[k].spool
  <2>1. PICK fs : fs = closing
    OBVIOUS
  <2>2. FoldersOK(fs) /\ prev \in 0 .. Len(fs)
    BY <1>4, <1>5, <2>1
  <2>3. FoldersOK(CloseFold(fs, prev)) /\ Len(CloseFold(fs, prev)) = Len(fs)
    BY <2>2, CloseFoldProperties
  <2>4. \A k \in 1 .. Len(fs) : CloseFold(fs, prev)[k].spool = fs[k].spool
    BY <2>2, CloseFoldProperties
  <2> QED BY <1>4, <2>1, <2>3, <2>4
<1> HIDE DEF ready
<1>12. CASE fresh
  <2>1. PICK r \in Recs : /\ r = NewFolder(j) /\ r.kept <= r.n
                          /\ ~Concurrent => r.spool = "none"
    <3>1. NewFolder(j) \in Recs
      <4>1. <<j>> \in Seq(Jobs) /\ <<>> \in Seq(Jobs)
        BY EmptySeq
      <4> QED BY <4>1 DEF NewFolder, Recs, SpoolStates
    <3> QED BY <3>1 DEF NewFolder
  <2>2. PICK fs, gs : fs = ready /\ gs = folders' /\ gs = Append(fs, r) /\ FoldersOK(fs)
    BY <1>2, <1>11, <1>12, <2>1
  <2>3. gs = Append(fs, r) /\ FoldersOK(fs) /\ r.kept <= r.n
    BY <2>1, <2>2
  <2>4. FoldersOK(gs)
    BY ONLY <2>3, r \in Recs, AppendFolder
  <2>5. Len(gs) = Len(fs) + 1 /\ gs[Len(fs) + 1] = r
    BY ONLY <2>3, r \in Recs, AppendFolder
  <2>6. \A k \in 1 .. Len(fs) : gs[k] = fs[k]
    BY ONLY <2>3, r \in Recs, AppendFolder
  <2>7. /\ FoldersOK(folders') /\ Len(folders') = n + 1 /\ folders'[n + 1] = r
        /\ \A k \in 1 .. n : folders'[k] = ready[k]
    BY <1>11, <2>2, <2>4, <2>6, <2>5
  <2>8. ~Concurrent => \A k \in 1 .. n + 1 : folders'[k].spool = "none"
    BY <1>1, <1>11, <2>1, <2>7 DEF SpoolsOf
  <2>9. Concurrent => \A k \in 1 .. n : folders'[k] = folders[k]
    BY <1>6, <2>7
  <2> QED BY <1>3, <1>10, <1>12, <2>7, <2>8, <2>9
<1>13. CASE ~fresh
  <2>1. active \in 1 .. n /\ ~Concurrent
    BY <1>8, <1>13 DEF Concurrent
  <2>2. PICK o \in Recs : o = ready[active] /\ o.kept <= o.n
    BY <1>11, <2>1, ElementOfSeq DEF FoldersOK
  <2>3. PICK d \in Seq(Jobs) : d = Append(o.files, j)
    <3>1. o.files \in Seq(Jobs)
      BY DEF Recs
    <3> QED BY <3>1, AppendProperties
  <2>4. PICK r \in Recs : /\ r = [o EXCEPT !.files = d]
                          /\ r.kept = o.kept /\ r.n = o.n /\ r.spool = o.spool
    <3>1. [o EXCEPT !.files = d] \in Recs
      BY DEF Recs
    <3>2. PICK r \in Recs : r = [o EXCEPT !.files = d]
      BY <3>1
    <3>3. r.kept = o.kept /\ r.n = o.n /\ r.spool = o.spool
      BY <3>2 DEF Recs
    <3> QED BY <3>2, <3>3
  <2>5. PICK fs, gs, a : fs = ready /\ gs = folders' /\ a = active /\ gs = [fs EXCEPT ![a] = r]
    BY <1>2, <1>13, <2>2, <2>3, <2>4
  <2>6. FoldersOK(fs) /\ a \in 1 .. Len(fs) /\ r.kept <= r.n /\ gs = [fs EXCEPT ![a] = r]
    BY <1>11, <2>1, <2>2, <2>4, <2>5
  <2>7. FoldersOK(gs) /\ Len(gs) = Len(fs)
    BY ONLY <2>6, r \in Recs, ReplaceFolder
  <2>8. \A k \in 1 .. Len(fs) : gs[k] = IF k = a THEN r ELSE fs[k]
    BY ONLY <2>6, r \in Recs, ReplaceFolder
  <2>9. \A k \in 1 .. n : folders'[k].spool = "none"
    BY <1>1, <1>11, <2>1, <2>2, <2>4, <2>5, <2>8 DEF SpoolsOf
  <2>10. FoldersOK(folders') /\ Len(folders') = n
    BY <1>11, <2>5, <2>7
  <2> QED BY <1>1, <1>3, <1>10, <1>13, <2>1, <2>9, <2>10
<1> QED BY <1>12, <1>13

\* A file.
LEMMA CreateFileInv ==
    ASSUME Inv, NEW j \in Jobs, CreateFile(j)
    PROVE  Inv'
<1> DEFINE n == Len(folders)
           fresh == active = 0 \/ ~opt.solid
<1>1. TypeOK /\ Control /\ SpoolsOf /\ BodyInOrder
  BY InvParts
<1>2. /\ pc[j] = "none" /\ wpc = "open" /\ AfterImplicitClose(j, "open")
      /\ active' = IF fresh THEN n + 1 ELSE active
      /\ fold' = [fold EXCEPT ![j] = active']
      /\ files' = Append(files, j) /\ current' = j
      /\ UNCHANGED <<opt, written, chan, chClosed, coord, wpc, hdr, failed, late>>
  BY DEF CreateFile, coordVars
<1>3. /\ FoldersOK(folders') /\ out' \in Seq(1 .. n)
      /\ Len(folders') = n + IF fresh THEN 1 ELSE 0
      /\ ~Concurrent => \A k \in 1 .. Len(folders') : folders'[k].spool = "none"
      /\ Concurrent => /\ out' = out
                       /\ \A k \in 1 .. n : folders'[k] = folders[k]
  BY CreateFileFolders
<1>4. /\ n \in Nat /\ Len(folders') \in Nat /\ n <= Len(folders')
      /\ active \in 0 .. n /\ active' \in 0 .. Len(folders')
      /\ coord.seq \in 1 .. n + 1 /\ coord.map \subseteq 1 .. n
      /\ chan \in Seq(1 .. n) /\ \A i \in Jobs : fold[i] \in 0 .. n
  <2>1. /\ n \in Nat /\ active \in 0 .. n
        /\ coord.seq \in 1 .. n + 1 /\ coord.map \subseteq 1 .. n
        /\ chan \in Seq(1 .. n) /\ \A i \in Jobs : fold[i] \in 0 .. n
    BY <1>1 DEF TypeOK
  <2>2. /\ Len(folders') = n + IF fresh THEN 1 ELSE 0
        /\ active' = IF fresh THEN n + 1 ELSE active
    BY <1>2, <1>3
  <2> HIDE DEF n, fresh
  <2> QED BY ONLY <2>1, <2>2
<1>5. /\ pc' \in [Jobs -> FilePcs] /\ size' \in [Jobs -> 0 .. MaxUnits]
      /\ pc'[j] = "open"
      /\ \A i \in Jobs : i # j => pc'[i] = pc[i] \/ (pc'[i] = "done" /\ ~Concurrent)
  <2>1. "open" \in FilePcs
    BY DEF FilePcs
  <2> QED BY <1>1, <1>2, <2>1, ImplicitClose
<1>6. SpoolsOf' /\ BodyInOrder'
  BY <1>1, <1>2, <1>3, <1>4, BodyStays
<1>7. TypeOK'
  <2>1. /\ folders' \in Seq([files : Seq(Jobs), data : Seq(Jobs), n : Nat, kept : Nat,
                            closed : BOOLEAN, spool : SpoolStates, torn : BOOLEAN])
        /\ \A k \in 1 .. Len(folders') : folders'[k].kept <= folders'[k].n
    BY <1>3 DEF FoldersOK, Recs
  <2>2. Len(chan') <= Slots
    BY <1>1, <1>2 DEF TypeOK
  <2>3. files' \in Seq(Jobs)
    BY <1>1, <1>2, AppendProperties DEF TypeOK
  <2>4. chan' \in Seq(1 .. Len(folders')) /\ out' \in Seq(1 .. Len(folders'))
    BY <1>2, <1>3, <1>4, MoreNumbers
  <2>5. fold' \in [Jobs -> 0 .. Len(folders')]
    BY <1>1, <1>2, <1>4 DEF TypeOK
  <2>6. coord' \in [at : {"recv", "drain", "exit", "gone"}, err : BOOLEAN,
                    map : SUBSET (1 .. Len(folders')), seq : 1 .. Len(folders') + 1]
    <3>1. coord \in [at : {"recv", "drain", "exit", "gone"}, err : BOOLEAN,
                      map : SUBSET (1 .. n), seq : 1 .. n + 1]
      BY <1>1 DEF TypeOK
    <3>2. SUBSET (1 .. n) \subseteq SUBSET (1 .. Len(folders')) /\ 1 .. n + 1 \subseteq 1 .. Len(folders') + 1
      BY <1>4
    <3>3. coord' = coord
      BY <1>2
    <3> HIDE DEF n
    <3> QED BY ONLY <3>1, <3>2, <3>3
  <2>7. /\ opt' \in Options /\ current' \in Jobs \cup {NoJob}
        /\ written' \in [Jobs -> 0 .. MaxUnits] /\ chClosed' \in BOOLEAN
        /\ wpc' \in WriterPcs /\ failed' \in BOOLEAN /\ late' \subseteq Jobs
    BY <1>1, <1>2 DEF TypeOK
  <2> QED BY <1>4, <1>5, <2>1, <2>2, <2>3, <2>4, <2>5, <2>6, <2>7 DEF TypeOK
<1>8. Control'
  <2> USE DEF Control
  <2>1. Concurrent' <=> Concurrent
    BY <1>2 DEF Concurrent
  <2>2. \A i \in Jobs : fold'[i] = IF i = j THEN active' ELSE fold[i]
    BY <1>1, <1>2 DEF TypeOK
  <2>3. fold[j] = 0 /\ (Concurrent => active' = n + 1 /\ Len(folders') = n + 1)
    BY <1>1, <1>2, <1>3 DEF Folded, Concurrent
  <2>4. NoSendOnClosedChannel' /\ ErrorsReported'
    BY <1>1, <1>2, <1>5 DEF NoSendOnClosedChannel, ErrorsReported
  <2>5. Folded'
    BY <1>1, <1>5, <2>2 DEF Folded
  <2>6. CloseStages' /\ Belated'
    BY <1>1, <1>2, <1>5, <2>1 DEF CloseStages, Belated, Unfinished
  <2>7. Coordinated'
    BY <1>1, <1>2, <2>1 DEF Coordinated
  <2>8. Owned'
    <3> SUFFICES ASSUME Concurrent
                 PROVE  /\ \A i, k \in Jobs : fold'[i] = fold'[k] /\ fold'[i] # 0 => i = k
                        /\ \A k \in 1 .. Len(folders') : \E i \in Jobs : fold'[i] = k
      BY <2>1 DEF Owned
    <3>1. \A i, k \in Jobs : fold'[i] = fold'[k] /\ fold'[i] # 0 => i = k
      BY <1>1, <1>4, <2>2, <2>3 DEF Owned
    <3>2. ASSUME NEW k \in 1 .. n + 1 PROVE \E i \in Jobs : fold'[i] = k
      <4>1. CASE k = n + 1
        BY <2>2, <2>3, <4>1
      <4>2. CASE k # n + 1
        <5>1. k \in 1 .. n
          BY <1>4, <4>2
        <5>2. PICK i \in Jobs : fold[i] = k
          BY <1>1, <5>1 DEF Owned
        <5> QED BY <2>2, <2>3, <5>1, <5>2
      <4> QED BY <4>1, <4>2
    <3> QED BY <2>3, <3>1, <3>2
  <2>9. SentWhenClosed'
    <3> SUFFICES ASSUME Concurrent, NEW i \in Jobs, fold'[i] # 0
                 PROVE  Sent(fold'[i]) <=> pc'[i] \in {"publishing", "done"}
      BY <1>2, <2>1 DEF SentWhenClosed, Sent
    <3>1. CASE i = j
      <4>1. ~Sent(n + 1)
        BY <1>4, ElementOfSeq DEF Sent
      <4> QED BY <1>5, <2>2, <2>3, <3>1, <4>1
    <3>2. CASE i # j
      BY <1>1, <1>5, <2>2, <3>2 DEF SentWhenClosed
    <3> QED BY <3>1, <3>2
  <2> QED BY <2>4, <2>5, <2>6, <2>7, <2>8, <2>9
<1> QED BY <1>6, <1>7, <1>8 DEF Inv

-----------------------------------------------------------------------------
\* c chunks of a folder, none if c is negative.
LEMMA ChunksType ==
    ASSUME NEW n \in Nat, NEW s \in 1 .. n, NEW c \in Int
    PROVE  [i \in 1 .. c |-> s] \in Seq(1 .. n)
<1>1. CASE c \in Nat
  BY <1>1
<1>2. CASE c \notin Nat
  <2>1. [i \in 1 .. c |-> s] = <<>>
    BY <1>2
  <2> QED BY <2>1, EmptySeq
<1> QED BY <1>1, <1>2

\* The body with the next folder's chunks.
LEMMA BodyGrows ==
    ASSUME NEW K, NEW s \in Nat, s > 0, K[s] \in Nat
    PROVE  FlattenSeq([k \in 1 .. s |-> [x \in 1 .. K[k] |-> k]])
             = FlattenSeq([k \in 1 .. s - 1 |-> [x \in 1 .. K[k] |-> k]]) \o [x \in 1 .. K[s] |-> s]
<1> DEFINE new == [k \in 1 .. s |-> [x \in 1 .. K[k] |-> k]]
           old == [k \in 1 .. s - 1 |-> [x \in 1 .. K[k] |-> k]]
           next == [x \in 1 .. K[s] |-> s]
<1>1. s - 1 \in Nat
  OBVIOUS
<1>2. /\ Len(new) = s /\ Len(old) = s - 1 /\ new[s] = next
      /\ \A i \in 1 .. s - 1 : old[i] = new[i]
  BY <1>1
<1>3. next \in Seq(Nat)
  OBVIOUS
<1>4. s = 1 => old = <<>>
  OBVIOUS
<1> HIDE DEF new, old, next
<1>5. CASE s = 1
  <2>1. FlattenSeq(new) = next
    BY <1>2, <1>5, FlattenOne
  <2>2. FlattenSeq(old) = old
    BY <1>2, <1>5, FlattenEmpty
  <2>3. FlattenSeq(old) \o next = next
    BY <1>3, <1>4, <1>5, <2>2, ConcatEmptySeq
  <2> QED BY <2>1, <2>3 DEF new, old, next
<1>6. CASE s # 1
  <2>1. s - 1 # 0 /\ Len(new) = (s - 1) + 1 /\ (s - 1) + 1 = s
    BY <1>2, <1>6
  <2>2. FlattenSeq(new) = FlattenSeq(old) \o new[(s - 1) + 1]
    BY <1>1, <1>2, <2>1, FlattenMore
  <2>3. FlattenSeq(new) = FlattenSeq(old) \o next
    BY <1>2, <2>1, <2>2
  <2> QED BY <2>3 DEF new, old, next
<1> QED BY <1>5, <1>6

\* The coordinator copies and closes the spool of the folder at writeSeq.
LEMMA CoordCopyInv ==
    ASSUME Inv, CoordCopy
    PROVE  Inv'
<1> DEFINE s == coord.seq
           n == Len(folders)
<1>1. TypeOK /\ Control /\ SpoolsOf /\ BodyInOrder
  BY InvParts
<1>2. /\ coord.at = "drain" /\ s \in coord.map
      /\ folders' = [folders EXCEPT ![s].spool = "closed"]
      /\ UNCHANGED <<opt, files, current, active, pc, fold, written, size, chan, chClosed, wpc, hdr, failed, late>>
  BY DEF CoordCopy, fileVars
<1>3. PICK ok \in BOOLEAN :
         /\ out' = out \o [i \in 1 .. IF coord.err THEN 0 ELSE IF ok THEN folders[s].kept ELSE folders[s].kept - 1 |-> s]
         /\ coord' = [coord EXCEPT !.map = @ \ {s}, !.seq = s + 1, !.err = @ \/ ~ok]
  <2>1. (IF "copy" \in Faults THEN BOOLEAN ELSE {TRUE}) \subseteq BOOLEAN
    OBVIOUS
  <2> QED BY <2>1 DEF CoordCopy
<1>4. /\ Concurrent /\ (Concurrent' <=> Concurrent)
      /\ n \in Nat /\ s \in 1 .. n /\ folders[s] \in Recs /\ folders[s].kept \in Nat
  <2>1. Concurrent /\ (Concurrent' <=> Concurrent)
    BY <1>1, <1>2 DEF Control, Coordinated, Concurrent
  <2>2. s \in 1 .. n
    BY <1>1, <1>2 DEF TypeOK
  <2>3. n \in Nat /\ folders[s] \in Recs
    BY <1>1, <2>2, FolderTypes
  <2>4. folders[s].kept \in Nat
    BY <2>3 DEF Recs
  <2> QED BY <2>1, <2>2, <2>3, <2>4
<1>5. /\ coord'.map = coord.map \ {s} /\ coord'.seq = s + 1 /\ coord'.at = "drain"
      /\ coord'.err = (coord.err \/ ~ok)
      /\ coord' \in [at : {"recv", "drain", "exit", "gone"}, err : BOOLEAN,
                     map : SUBSET (1 .. n), seq : 1 .. n + 1]
  <2>1. coord \in [at : {"recv", "drain", "exit", "gone"}, err : BOOLEAN,
                   map : SUBSET (1 .. n), seq : 1 .. n + 1]
    BY <1>1 DEF TypeOK
  <2>2. /\ coord.err \in BOOLEAN /\ coord.at = "drain"
        /\ coord.map \ {s} \in SUBSET (1 .. n) /\ s + 1 \in 1 .. n + 1
    BY <1>2, <1>4, <2>1
  <2>3. coord' = [at |-> "drain", err |-> coord.err \/ ~ok, map |-> coord.map \ {s}, seq |-> s + 1]
    BY <1>3, <2>1, <2>2
  <2> QED BY <2>1, <2>2, <2>3
<1>6. /\ FoldersOK(folders') /\ Len(folders') = n
      /\ folders'[s].spool = "closed" /\ folders'[s].kept = folders[s].kept
      /\ \A k \in 1 .. n : k # s => folders'[k] = folders[k]
  <2>0. PICK fs, gs, f : fs = folders /\ gs = folders' /\ f = s
    OBVIOUS
  <2>1. PICK o \in Recs : o = folders[s] /\ o.kept <= o.n
    BY <1>1, <1>4, FolderTypes
  <2>2. [o EXCEPT !.spool = "closed"] \in Recs
    BY DEF Recs, SpoolStates
  <2>3. PICK r \in Recs : r = [o EXCEPT !.spool = "closed"]
    BY <2>2
  <2>4. r.spool = "closed" /\ r.kept = o.kept /\ r.kept <= r.n
    BY <2>1, <2>3 DEF Recs
  <2>5. gs = [fs EXCEPT ![f] = r] /\ FoldersOK(fs) /\ f \in 1 .. Len(fs)
    BY <1>1, <1>2, <1>4, <2>0, <2>1, <2>3, FolderTypes
  <2>6. FoldersOK(gs) /\ Len(gs) = Len(fs)
    BY ONLY <2>4, <2>5, r \in Recs, ReplaceFolder
  <2>7. \A k \in 1 .. Len(fs) : gs[k] = IF k = f THEN r ELSE fs[k]
    BY ONLY <2>4, <2>5, r \in Recs, ReplaceFolder
  <2> QED BY <1>4, <2>0, <2>1, <2>4, <2>6, <2>7
<1>7. out' \in Seq(1 .. n)
  <2> DEFINE c == IF coord.err THEN 0 ELSE IF ok THEN folders[s].kept ELSE folders[s].kept - 1
  <2>1. c \in Int
    BY <1>4
  <2>2. out \in Seq(1 .. n) /\ out' = out \o [i \in 1 .. c |-> s]
    BY <1>1, <1>3 DEF TypeOK
  <2> HIDE DEF c
  <2>3. [i \in 1 .. c |-> s] \in Seq(1 .. n)
    BY <1>4, <2>1, ChunksType
  <2> QED BY <2>2, <2>3, BodyType
<1>8. TypeOK'
  <2>1. /\ folders' \in Seq([files : Seq(Jobs), data : Seq(Jobs), n : Nat, kept : Nat,
                            closed : BOOLEAN, spool : SpoolStates, torn : BOOLEAN])
        /\ \A k \in 1 .. Len(folders') : folders'[k].kept <= folders'[k].n
    BY <1>6 DEF FoldersOK, Recs
  <2>2. Len(chan') <= Slots
    BY <1>1, <1>2 DEF TypeOK
  <2> QED BY <1>1, <1>2, <1>5, <1>6, <1>7, <2>1, <2>2 DEF TypeOK
<1>9. Control'
  <2> USE DEF Control
  <2>1. NoSendOnClosedChannel' /\ Folded' /\ ErrorsReported'
    BY <1>1, <1>2 DEF NoSendOnClosedChannel, Folded, ErrorsReported
  <2>2. CloseStages' /\ Belated' /\ Owned'
    BY <1>1, <1>2, <1>4, <1>6 DEF CloseStages, Belated, Unfinished, Owned
  <2>3. Coordinated'
    BY <1>1, <1>2, <1>4, <1>5 DEF Coordinated
  <2>4. SentWhenClosed'
    <3>1. ASSUME NEW k \in 1 .. n
          PROVE  Sent(k)' <=> Sent(k)
      BY <1>2, <1>4, <1>5 DEF Sent
    <3>2. \A i \in Jobs : fold[i] # 0 => fold[i] \in 1 .. n
      BY <1>1 DEF TypeOK
    <3> QED BY <1>1, <1>2, <1>4, <3>1, <3>2 DEF SentWhenClosed
  <2> QED BY <2>1, <2>2, <2>3, <2>4
<1>10. SpoolsOf'
  BY <1>1, <1>4, <1>5, <1>6 DEF SpoolsOf
<1>11. BodyInOrder'
  <2> SUFFICES ASSUME ~coord.err, ok
               PROVE  out' = FlattenSeq([k \in 1 .. s |-> [x \in 1 .. folders'[k].kept |-> k]])
    <3>1. coord'.seq - 1 = s
      BY <1>4, <1>5
    <3> QED BY <1>5, <3>1 DEF BodyInOrder
  <2> DEFINE K == [k \in 1 .. n |-> folders[k].kept]
             old == [k \in 1 .. s - 1 |-> [x \in 1 .. K[k] |-> k]]
             new == [k \in 1 .. s |-> [x \in 1 .. K[k] |-> k]]
  <2>1. /\ \A k \in 1 .. s : K[k] = folders'[k].kept
        /\ \A k \in 1 .. s - 1 : K[k] = folders[k].kept
        /\ K[s] = folders[s].kept /\ s \in Nat /\ s > 0
    BY <1>4, <1>6
  <2> HIDE DEF K
  <2>2. old = [k \in 1 .. s - 1 |-> [x \in 1 .. folders[k].kept |-> k]]
    BY <2>1
  <2>3. new = [k \in 1 .. s |-> [x \in 1 .. folders'[k].kept |-> k]]
    BY <2>1
  <2>4. out = FlattenSeq(old) /\ out' = out \o [x \in 1 .. K[s] |-> s]
    BY <1>1, <1>3, <1>4, <2>1, <2>2 DEF BodyInOrder
  <2>5. FlattenSeq(new) = FlattenSeq(old) \o [x \in 1 .. K[s] |-> s]
    BY <1>4, <2>1, BodyGrows
  <2> HIDE DEF old, new
  <2> QED BY <2>3, <2>4, <2>5
<1> QED BY <1>8, <1>9, <1>10, <1>11 DEF Inv

-----------------------------------------------------------------------------
\* The initial state satisfies the invariant.
LEMMA InitInv == Init => Inv
<1> SUFFICES ASSUME Init PROVE Inv
  OBVIOUS
<1> USE DEF Init
<1>1. TypeOK
  <2>1. /\ files \in Seq(Jobs) /\ Len(folders) = 0 /\ Len(chan) = 0
        /\ folders \in Seq([files : Seq(Jobs), data : Seq(Jobs), n : Nat, kept : Nat,
                            closed : BOOLEAN, spool : SpoolStates, torn : BOOLEAN])
        /\ chan \in Seq(1 .. Len(folders)) /\ out \in Seq(1 .. Len(folders))
    BY EmptySeq
  <2>2. Slots \in Nat
    BY BoundsAssumption
  <2>3. /\ pc \in [Jobs -> FilePcs] /\ fold \in [Jobs -> 0 .. Len(folders)]
        /\ written \in [Jobs -> 0 .. MaxUnits] /\ size \in [Jobs -> 0 .. MaxUnits]
        /\ wpc \in WriterPcs /\ current \in Jobs \cup {NoJob}
    BY <2>1, BoundsAssumption DEF FilePcs, WriterPcs
  <2>4. coord \in [at : {"recv", "drain", "exit", "gone"}, err : BOOLEAN,
                   map : SUBSET (1 .. Len(folders)), seq : 1 .. Len(folders) + 1]
    BY <2>1
  <2>5. /\ opt \in Options /\ active = 0 /\ chClosed \in BOOLEAN /\ failed \in BOOLEAN
        /\ late \subseteq Jobs
    OBVIOUS
  <2> QED BY ONLY <2>1, <2>2, <2>3, <2>4, <2>5 DEF TypeOK
<1>2. Control
  BY DEF Control, NoSendOnClosedChannel, Folded, CloseStages, Coordinated, Owned,
         SentWhenClosed, Belated, Unfinished, ErrorsReported
<1>3. SpoolsOf
  BY DEF SpoolsOf
<1>4. BodyInOrder
  <2>1. [k \in 1 .. coord.seq - 1 |-> [x \in 1 .. folders[k].kept |-> k]] = <<>>
    OBVIOUS
  <2>2. FlattenSeq(<<>>) = <<>>
    BY FlattenEmpty
  <2> QED BY <2>1, <2>2 DEF BodyInOrder
<1> QED BY <1>1, <1>2, <1>3, <1>4 DEF Inv

\* Every step preserves the invariant.
LEMMA NextInv == Inv /\ [Next]_vars => Inv'
<1> SUFFICES ASSUME Inv, [Next]_vars PROVE Inv'
  OBVIOUS
<1>1. CASE UNCHANGED vars
  <2>1. UNCHANGED <<opt, files, folders, current, active, pc, fold, written, size,
                    chan, chClosed, coord, wpc, out, failed, late>>
    BY <1>1 DEF vars, writerVars, fileVars, coordVars
  <2>2. TypeOK'
    BY <2>1 DEF Inv, TypeOK
  <2>3. Control'
    BY <2>1 DEF Inv, Control, NoSendOnClosedChannel, Folded, CloseStages, Coordinated, Owned,
                SentWhenClosed, Sent, Belated, Unfinished, ErrorsReported, Concurrent
  <2>4. SpoolsOf' /\ BodyInOrder'
    BY <2>1, FoldersStay DEF Inv
  <2> QED BY <2>2, <2>3, <2>4 DEF Inv
<1>2. ASSUME NEW j \in Jobs,
             \/ CreateDir(j) \/ CreateFile(j) \/ CreateFails(j) \/ SetupFails(j)
             \/ Write(j) \/ WriteFails(j) \/ CloseFileNow(j) \/ FileClose(j)
             \/ FoldCloseFails(j) \/ FileCloseFold(j) \/ FileSend(j) \/ FilePublish(j)
      PROVE  Inv'
  BY <1>2, CreateDirInv, CreateFileInv, CreateFailsInv, SetupFailsInv, WriteInv, WriteFailsInv, CloseFileNowInv,
     FileCloseInv, FoldCloseFailsInv, FileCloseFoldInv, FileSendInv, FilePanicInv, FilePublishInv
<1>3. CASE CoordSteps
  BY <1>3, CoordReceiveInv, CoordCopyInv, CoordWaitInv, CoordExitInv DEF CoordSteps
<1>4. CASE CloseSteps \/ CloseCalled
  BY <1>4, CloseCalledInv, CloseCurrentNowInv, CloseCurrentFailsInv, CloseCurrentInv,
     CloseCurrentReturnsInv, CloseSpoolsInv, CloseJoinsInv, CloseHeaderInv, CloseSignatureInv,
     CloseWriteFailsInv DEF CloseSteps
<1> QED BY <1>1, <1>2, <1>3, <1>4 DEF Next

\* The invariant implies that the spools before the first folder that was closed too
\* late were released: the coordinator was gone only when the next folder in
\* sequence was not sent, and only a late file's is not when nothing failed.
LEMMA InvReleases ==
    ASSUME Inv
    PROVE  SpoolsReleased
<1>1. TypeOK /\ Control /\ SpoolsOf
  BY InvParts
<1> SUFFICES ASSUME wpc = "ok", ~failed, NEW k \in 1 .. Len(folders),
                    \A j \in late : fold[j] = 0 \/ fold[j] > k
             PROVE  folders[k].spool \notin {"open", "file"}
  BY DEF SpoolsReleased
<1>2. CASE ~Concurrent
  BY <1>1, <1>2 DEF SpoolsOf
<1>3. CASE Concurrent
  <2>1. coord.seq \notin coord.map /\ chan = <<>>
    BY <1>1, <1>3 DEF Control, Coordinated
  <2>2. coord.seq \in 1 .. Len(folders) + 1 /\ Len(folders) \in Nat /\ Len(chan) = 0
    BY <1>1, <2>1 DEF TypeOK
  <2>3. ASSUME NEW i \in 1 .. Len(folders), i <= k
        PROVE  Sent(i)
    <3>1. PICK j \in Jobs : fold[j] = i
      BY <1>1, <1>3 DEF Control, Owned
    <3>2. j \notin late
      BY <2>2, <2>3, <3>1
    <3>3. pc[j] \notin {"none", "open", "folding", "sending", "error", "panic"}
      BY <1>1, <1>3, <3>1, <3>2 DEF Control, Folded, Belated, Unfinished, ErrorsReported,
                                    NoSendOnClosedChannel
    <3>4. pc[j] \in {"publishing", "done"}
      BY <1>1, <3>3 DEF TypeOK, FilePcs
    <3> QED BY <1>1, <1>3, <3>1, <3>4 DEF Control, SentWhenClosed
  <2>4. k < coord.seq
    <3>1. ASSUME coord.seq <= k PROVE FALSE
      <4>1. coord.seq \in 1 .. Len(folders) /\ ~(coord.seq < coord.seq)
        BY <2>2, <3>1
      <4> QED BY <2>1, <2>2, <2>3, <3>1, <4>1 DEF Sent
    <3> QED BY <2>2, <3>1
  <2> QED BY <1>1, <1>3, <2>4 DEF SpoolsOf
<1> QED BY <1>2, <1>3

-----------------------------------------------------------------------------
\* Writer, fileWriter and coordinator stay within their types in every mode: the
\* channel within its capacity, every folder number one of a folder.
THEOREM TypeCorrect == Spec => []TypeOK
<1>1. Inv => TypeOK
  BY DEF Inv
<1> QED BY InitInv, NextInv, <1>1, PTL DEF Spec

\* Only a fileWriter.Close that its caller had not finished when Writer.Close was
\* called, and that Writer.Close did not run itself, ever sends on the closed channel.
THEOREM NoPanic == Spec => []NoSendOnClosedChannel
<1>1. Inv => NoSendOnClosedChannel
  BY DEF Inv, Control
<1> QED BY InitInv, NextInv, <1>1, PTL DEF Spec

\* In the concurrent mode the archive body is at all times the whole spools of the
\* folders before writeSeq in the order of CreateHeader, unless a copy failed.
THEOREM BodyOrdered == Spec => []BodyInOrder
<1>1. Inv => BodyInOrder
  BY DEF Inv
<1> QED BY InitInv, NextInv, <1>1, PTL DEF Spec

\* A Writer.Close that returns nil after no failure leaves no spool, and so no temporary
\* file, of a folder before the first that was closed too late.
THEOREM NoSpoolLeft == Spec => []SpoolsReleased
<1>1. Inv => SpoolsReleased
  BY InvReleases
<1> QED BY InitInv, NextInv, <1>1, PTL DEF Spec
=============================================================================
