------------------------- MODULE ReadCloser_proofs -------------------------
(***************************************************************************)
(* However OpenReader, its volumes and Close end, the file handles are     *)
(* closed once or owned by an open ReadCloser, for any number of volumes   *)
(* and any contents.                                                       *)
(*                                                                         *)
(* The search in chunks finds the archive that a look at the whole reader  *)
(* finds, for any sizes of chunk, limit and signature.                     *)
(*                                                                         *)
(* The lookups, the pages of a directory and what can be opened agree with *)
(* the members, for any members, names and counts.                         *)
(***************************************************************************)
EXTENDS ReadCloser, FileList_proofs

\* The files are the first volumes, in order.
FilesInOrder ==
    /\ Len(files) \in 0 .. MaxVolume
    /\ files \in Seq(Nat)
    /\ \A i \in 1 .. Len(files) : files[i] = i
    /\ \A i \in 1 .. Len(files) : i \in DOMAIN disk.volumes

\* The call that opens the archive, or the ReadCloser it returned, has files.
Owned == status \in {"volumes", "init", "open"}

\* What is open is what files lists, as long as there is an owner; before and
\* after, nothing is.
HandlesOwned ==
    /\ handles \in [Volumes -> {"none", "open", "closed"}]
    /\ Owned => \A v \in Volumes : handles[v] = "open" <=> v <= Len(files)
    /\ ~Owned => \A v \in Volumes : handles[v] # "open"
    /\ status = "idle" => files = <<>>

\* How far the volumes have come: only the names of volumes go on to the next,
\* and they end at the first that is missing.
VolumesSoFar ==
    /\ Owned => Len(files) >= 1
    /\ status = "volumes" => disk.multi
    /\ status \in {"init", "open"} =>
          IF disk.multi THEN Len(files) + 1 \notin DOMAIN disk.volumes ELSE Len(files) = 1

\* The inductive invariant.
Inv == /\ disk \in Scenarios
       /\ FilesInOrder
       /\ HandlesOwned
       /\ VolumesSoFar

-----------------------------------------------------------------------------
\* Closing the files closes each open handle once.
LEMMA CloseAll ==
    ASSUME Inv, Owned
    PROVE  /\ Closed(handles, files) \in [Volumes -> {"none", "open", "closed"}]
           /\ \A v \in Volumes : Closed(handles, files)[v] # "open"
<1>1. MaxVolume \in Nat /\ Len(files) \in 0 .. MaxVolume
  BY MaxVolumeAssumption DEF Inv, FilesInOrder
<1>2. DOMAIN files = 1 .. Len(files)
  BY DEF Inv, FilesInOrder
<1>3. ASSUME NEW v \in Volumes
      PROVE  Closed(handles, files)[v] \in {"none", "closed"}
  <2>1. (\E i \in DOMAIN files : files[i] = v) <=> v <= Len(files)
    BY <1>1, <1>2 DEF Inv, FilesInOrder, Volumes
  <2>2. handles[v] \in {"none", "open", "closed"} /\ (handles[v] = "open" <=> v <= Len(files))
    BY DEF Inv, HandlesOwned
  <2>3. Closed(handles, files)[v] =
          IF \E i \in DOMAIN files : files[i] = v
          THEN IF handles[v] = "open" THEN "closed" ELSE "twice" ELSE handles[v]
    BY DEF Closed
  <2> QED BY <2>1, <2>2, <2>3
<1>4. Closed(handles, files) \in [Volumes -> {"none", "closed"}]
  BY <1>3 DEF Closed
<1> QED BY <1>4

\* Opening the next volume, which exists, and adding it to files.
LEMMA AppendVolume ==
    ASSUME Inv, Owned, Len(files) + 1 \in DOMAIN disk.volumes
    PROVE  /\ Len(files) + 1 \in Volumes
           /\ Append(files, Len(files) + 1) \in Seq(Nat)
           /\ Len(Append(files, Len(files) + 1)) = Len(files) + 1
           /\ \A i \in 1 .. Len(files) + 1 : Append(files, Len(files) + 1)[i] = i
<1>1. MaxVolume \in Nat /\ Len(files) \in Nat /\ files \in Seq(Nat)
      /\ \A i \in 1 .. Len(files) : files[i] = i
  BY MaxVolumeAssumption DEF Inv, FilesInOrder
<1>2. Len(files) + 1 \in Volumes
  BY ScenariosAssumption DEF Inv, Volumes
<1>3. Len(files) + 1 \in Nat
  BY <1>1
<1>4. /\ Append(files, Len(files) + 1) \in Seq(Nat)
      /\ Len(Append(files, Len(files) + 1)) = Len(files) + 1
      /\ \A i \in 1 .. Len(files) : Append(files, Len(files) + 1)[i] = files[i]
      /\ Append(files, Len(files) + 1)[Len(files) + 1] = Len(files) + 1
  BY <1>1, <1>3, AppendProperties
<1>5. \A i \in 1 .. Len(files) + 1 : i \in 1 .. Len(files) \/ i = Len(files) + 1
  BY <1>1
<1> QED BY <1>1, <1>2, <1>4, <1>5

\* Nothing is open before OpenReader.
LEMMA InitInv == Init => Inv
<1> SUFFICES ASSUME Init PROVE Inv
  OBVIOUS
<1>1. FilesInOrder
  BY MaxVolumeAssumption DEF Init, FilesInOrder
<1>2. HandlesOwned /\ VolumesSoFar
  BY DEF Init, HandlesOwned, VolumesSoFar, Owned
<1> QED BY <1>1, <1>2 DEF Init, Inv

\* Steps that end without an owner, once everything is closed.
LEMMA GivesUp ==
    ASSUME Inv, disk' = disk, files' = files,
           status' \notin {"volumes", "init", "open", "idle"},
           handles' \in [Volumes -> {"none", "open", "closed"}],
           \A v \in Volumes : handles'[v] # "open"
    PROVE  Inv'
<1>1. FilesInOrder'
  BY DEF Inv, FilesInOrder
<1>2. HandlesOwned' /\ VolumesSoFar'
  BY DEF HandlesOwned, VolumesSoFar, Owned
<1> QED BY <1>1, <1>2 DEF Inv

\* Steps of a reader that has no files, and of the fs.FS view.
LEMMA Untouched ==
    ASSUME Inv, disk' = disk, files' = files, handles' = handles,
           status' = status \/ (status = "idle" /\ status' \notin {"volumes", "init", "open", "idle"})
    PROVE  Inv'
<1>1. FilesInOrder'
  BY DEF Inv, FilesInOrder
<1>2. HandlesOwned' /\ VolumesSoFar'
  BY DEF Inv, HandlesOwned, VolumesSoFar, Owned
<1> QED BY <1>1, <1>2 DEF Inv

\* The first file is kept, or closed again when its Stat fails.
LEMMA OpenFirstInv ==
    ASSUME Inv, OpenFirst
    PROVE  Inv'
<1>1. status = "idle" /\ files = <<>> /\ disk' = disk /\ 1 \in DOMAIN disk.volumes
      /\ disk \in Scenarios
  BY DEF OpenFirst, Inv, HandlesOwned
<1>2. MaxVolume \in Nat /\ 1 \in Volumes
  BY <1>1, MaxVolumeAssumption, ScenariosAssumption DEF Volumes
<1>3. \A v \in Volumes : handles[v] \in {"none", "closed"}
  BY <1>1 DEF Inv, HandlesOwned, Owned
<1>4. handles \in [Volumes -> {"none", "open", "closed"}]
  BY DEF Inv, HandlesOwned
<1>5. CASE status' = "error" /\ handles' = Closed(Opened(1), <<1>>) /\ files' = files
  <2>1. \A v \in Volumes : (\E i \in DOMAIN <<1>> : <<1>>[i] = v) <=> v = 1
    OBVIOUS
  <2>2. Opened(1)[1] = "open" /\ \A v \in Volumes : v # 1 => Opened(1)[v] = handles[v]
    BY <1>2, <1>4 DEF Opened
  <2>3. handles' \in [Volumes -> {"none", "closed"}]
    BY <1>3, <1>5, <2>1, <2>2 DEF Closed
  <2> QED BY <1>1, <1>5, <2>3, GivesUp
<1>6. CASE /\ status' = IF disk.multi THEN "volumes" ELSE "init"
           /\ handles' = Opened(1) /\ files' = <<1>>
  <2>1. Len(<<1>>) = 1 /\ <<1>> \in Seq(Nat) /\ <<1>>[1] = 1
    OBVIOUS
  <2>2. FilesInOrder'
    <3>1. \A i \in 1 .. 1 : i = 1
      OBVIOUS
    <3>2. 1 \in 0 .. MaxVolume
      BY <1>2 DEF Volumes
    <3> QED BY <1>1, <1>6, <2>1, <3>1, <3>2 DEF FilesInOrder
  <2>3. HandlesOwned'
    <3>1. handles' \in [Volumes -> {"none", "open", "closed"}]
      BY <1>4, <1>6 DEF Opened
    <3>2. \A v \in Volumes : handles'[v] = "open" <=> v = 1
      BY <1>2, <1>3, <1>4, <1>6 DEF Opened
    <3>3. \A v \in Volumes : v = 1 <=> v <= 1
      BY <1>2 DEF Volumes
    <3> QED BY <1>6, <2>1, <3>1, <3>2, <3>3 DEF HandlesOwned, Owned
  <2>4. VolumesSoFar'
    BY <1>1, <1>6, <2>1 DEF VolumesSoFar, Owned
  <2> QED BY <1>1, <2>2, <2>3, <2>4 DEF Inv
<1> QED BY <1>5, <1>6 DEF OpenFirst

\* When a volume fails, it and all before it are closed.
LEMMA VolumeFailsInv ==
    ASSUME Inv, VolumeFails
    PROVE  Inv'
<1>1. Owned /\ disk' = disk /\ files' = files /\ status' = "error"
  BY DEF VolumeFails, Owned
<1>2. CASE handles' = Closed(handles, files)
  BY <1>1, <1>2, CloseAll, GivesUp
<1>3. CASE /\ Len(files) + 1 \in DOMAIN disk.volumes
           /\ handles' = Closed(Opened(Len(files) + 1), Append(files, Len(files) + 1))
  <2> DEFINE n == Len(files) + 1
             fs == Append(files, n)
  <2>1. n \in Volumes /\ Len(files) \in Nat /\ MaxVolume \in Nat
    BY <1>1, <1>3, AppendVolume, MaxVolumeAssumption DEF Inv, FilesInOrder
  <2>2. fs \in Seq(Nat) /\ Len(fs) = n /\ \A i \in 1 .. n : fs[i] = i
    BY <1>1, <1>3, AppendVolume
  <2>3. DOMAIN fs = 1 .. n
    BY <2>2
  <2> HIDE DEF fs
  <2>4. \A v \in Volumes : (\E i \in DOMAIN fs : fs[i] = v) <=> v <= n
    BY <2>1, <2>2, <2>3 DEF Volumes
  <2>5. handles \in [Volumes -> {"none", "open", "closed"}]
        /\ \A v \in Volumes : handles[v] = "open" <=> v <= Len(files)
    BY <1>1 DEF Inv, HandlesOwned
  <2>6. \A v \in Volumes : Opened(n)[v] \in {"none", "open", "closed"}
                           /\ (Opened(n)[v] = "open" <=> v <= n)
    <3> SUFFICES ASSUME NEW v \in Volumes
                 PROVE  Opened(n)[v] \in {"none", "open", "closed"} /\ (Opened(n)[v] = "open" <=> v <= n)
      OBVIOUS
    <3>1. v <= n <=> v = n \/ v <= Len(files)
      BY <2>1 DEF Volumes
    <3>2. Opened(n)[v] = IF v = n THEN "open" ELSE handles[v]
      BY <2>1, <2>5 DEF Opened
    <3> QED BY <2>5, <3>1, <3>2
  <2>7. \A v \in Volumes : handles'[v] \in {"none", "closed"}
    <3>1. \A v \in Volumes : handles'[v] =
             IF \E i \in DOMAIN fs : fs[i] = v
             THEN IF Opened(n)[v] = "open" THEN "closed" ELSE "twice" ELSE Opened(n)[v]
      BY <1>3 DEF Closed, fs
    <3> QED BY <2>4, <2>6, <3>1
  <2>8. handles' \in [Volumes -> {"none", "closed"}]
    BY <1>3, <2>7 DEF Closed
  <2> QED BY <1>1, <2>8, GivesUp
<1> QED BY <1>2, <1>3 DEF VolumeFails

\* The next volume joins the files.
LEMMA VolumeOpenedInv ==
    ASSUME Inv, VolumeOpened
    PROVE  Inv'
<1> DEFINE n == Len(files) + 1
<1>1. Owned /\ status = "volumes" /\ status' = status /\ disk' = disk
      /\ n \in DOMAIN disk.volumes /\ files' = Append(files, n) /\ handles' = Opened(n)
  BY DEF VolumeOpened, Owned
<1>2. n \in Volumes /\ Len(files) \in Nat /\ MaxVolume \in Nat
  BY <1>1, AppendVolume, MaxVolumeAssumption DEF Inv, FilesInOrder
<1>3. files' \in Seq(Nat) /\ Len(files') = n /\ \A i \in 1 .. n : files'[i] = i
  BY <1>1, AppendVolume
<1>4. FilesInOrder'
  <2>1. \A i \in 1 .. n : i \in DOMAIN disk.volumes
    <3>1. \A i \in 1 .. n : i \in 1 .. Len(files) \/ i = n
      BY <1>2
    <3> QED BY <3>1, <1>1 DEF Inv, FilesInOrder
  <2>2. n \in 0 .. MaxVolume
    BY <1>2 DEF Volumes
  <2> QED BY <1>1, <1>3, <2>1, <2>2 DEF FilesInOrder
<1>5. HandlesOwned'
  <2>1. handles \in [Volumes -> {"none", "open", "closed"}]
        /\ \A v \in Volumes : handles[v] = "open" <=> v <= Len(files)
    BY <1>1 DEF Inv, HandlesOwned
  <2>2. handles' \in [Volumes -> {"none", "open", "closed"}]
    BY <1>1, <2>1 DEF Opened
  <2>3. ASSUME NEW v \in Volumes PROVE handles'[v] = "open" <=> v <= n
    <3>1. v <= n <=> v = n \/ v <= Len(files)
      BY <1>2 DEF Volumes
    <3>2. handles'[v] = IF v = n THEN "open" ELSE handles[v]
      BY <1>1, <1>2, <2>1 DEF Opened
    <3> QED BY <2>1, <3>1, <3>2
  <2> QED BY <1>1, <1>3, <2>2, <2>3 DEF HandlesOwned, Owned
<1>6. VolumesSoFar'
  BY <1>1, <1>2, <1>3 DEF Inv, VolumesSoFar, Owned
<1> QED BY <1>1, <1>4, <1>5, <1>6 DEF Inv

\* The first missing volume ends them.
LEMMA VolumesEndInv ==
    ASSUME Inv, VolumesEnd
    PROVE  Inv'
<1>1. status = "volumes" /\ status' = "init" /\ disk' = disk /\ files' = files /\ handles' = handles
      /\ Len(files) + 1 \notin DOMAIN disk.volumes
  BY DEF VolumesEnd
<1>2. FilesInOrder'
  BY <1>1 DEF Inv, FilesInOrder
<1>3. HandlesOwned' /\ VolumesSoFar'
  BY <1>1 DEF Inv, HandlesOwned, VolumesSoFar, Owned
<1> QED BY <1>1, <1>2, <1>3 DEF Inv

\* The candidate loop of init ends in one of four ways.
LEMMA LocatedStatus ==
    ASSUME NEW r, NEW size
    PROVE  Located(r, size).status \in {"found", "errFormat", "errChecksum", "unexpectedEOF"}
BY DEF Located, CandidateLoop

\* init keeps the files or closes all of them.
LEMMA InitReaderInv ==
    ASSUME Inv, InitReader
    PROVE  Inv'
<1>1. status = "init" /\ Owned /\ disk' = disk /\ files' = files
  BY DEF InitReader, Owned
<1>2. PICK result \in {Located(reader', Len(reader'))} :
         \/ result.status = "found" /\ status' = "open" /\ handles' = handles
         \/ /\ status' \in {"error", result.status} \ {"found"}
            /\ handles' = Closed(handles, files)
  BY DEF InitReader
<1>3. CASE status' = "open" /\ handles' = handles
  <2>1. FilesInOrder'
    BY <1>1 DEF Inv, FilesInOrder
  <2>2. HandlesOwned' /\ VolumesSoFar'
    BY <1>1, <1>3 DEF Inv, HandlesOwned, VolumesSoFar, Owned
  <2> QED BY <1>1, <2>1, <2>2 DEF Inv
<1>4. CASE status' \in {"error", result.status} \ {"found"} /\ handles' = Closed(handles, files)
  <2>1. status' \in {"error", "errFormat", "errChecksum", "unexpectedEOF"}
    BY <1>4, <1>2, LocatedStatus
  <2> QED BY <1>1, <1>4, <2>1, CloseAll, GivesUp
<1> QED BY <1>2, <1>3, <1>4

\* A reader of the caller opens no file.
LEMMA NewReaderInv ==
    ASSUME Inv, NewReader
    PROVE  Inv'
<1>1. status = "idle" /\ disk' = disk /\ files' = files /\ handles' = handles
  BY DEF NewReader
<1>2. status' \in {"reading", "error", "errFormat", "errChecksum", "unexpectedEOF"}
  BY LocatedStatus DEF NewReader
<1> QED BY <1>1, <1>2, Untouched

\* Every step keeps the invariant.
THEOREM Invariance == Spec => []Inv
<1>1. Inv /\ [Next]_vars => Inv'
  <2> SUFFICES ASSUME Inv, [Next]_vars PROVE Inv'
    OBVIOUS
  <2>1. CASE OpenFails \/ NewReaderNegative
    BY <2>1, Untouched DEF OpenFails, NewReaderNegative
  <2>2. CASE OpenFirst
    BY <2>2, OpenFirstInv
  <2>3. CASE VolumeFails
    BY <2>3, VolumeFailsInv
  <2>4. CASE VolumeOpened
    BY <2>4, VolumeOpenedInv
  <2>5. CASE VolumesEnd
    BY <2>5, VolumesEndInv
  <2>6. CASE InitReader
    BY <2>6, InitReaderInv
  <2>7. CASE NewReader
    BY <2>7, NewReaderInv
  <2>8. ASSUME NEW name \in Queries, Open(name) PROVE Inv'
    BY <2>8, Untouched DEF Open, opening
  <2>9. ASSUME NEW count \in Counts, ReadDir(count) PROVE Inv'
    BY <2>9, Untouched DEF ReadDir, opening
  <2>10. CASE Close
    <3>1. Owned /\ disk' = disk /\ files' = files /\ status' = "closed"
          /\ handles' = Closed(handles, files)
      BY <2>10 DEF Close, Owned
    <3> QED BY <3>1, CloseAll, GivesUp
  <2>11. CASE UNCHANGED vars
    BY <2>11, Untouched DEF vars
  <2> QED BY <2>1, <2>2, <2>3, <2>4, <2>5, <2>6, <2>7, <2>8, <2>9, <2>10, <2>11 DEF Next
<1> QED BY <1>1, InitInv, PTL DEF Spec

\* No handle is closed twice, none stays open without an owner, and an open
\* ReadCloser has exactly the consecutive volumes.
THEOREM HandlesAreClosed == Spec => []HandlesClosed
<1>1. Inv => HandlesClosed
  <2> SUFFICES ASSUME Inv PROVE HandlesClosed
    OBVIOUS
  <2>1. \A v \in Volumes : handles[v] # "twice"
    BY DEF Inv, HandlesOwned
  <2>2. status \notin {"volumes", "init", "open"} => \A v \in Volumes : handles[v] # "open"
    BY DEF Inv, HandlesOwned, Owned
  <2>3. ASSUME status = "open"
        PROVE  { v \in Volumes : handles[v] = "open" } = Wanted
    <3>1. Owned /\ Len(files) \in Nat /\ Len(files) >= 1 /\ MaxVolume \in Nat
      BY <2>3, MaxVolumeAssumption DEF Owned, Inv, FilesInOrder, VolumesSoFar
    <3>2. ASSUME NEW v \in Volumes
          PROVE  v <= Len(files) <=> (\A u \in 1 .. v : u \in DOMAIN disk.volumes) /\ (v = 1 \/ disk.multi)
      <4>1. v \in Nat /\ v >= 1 /\ v \in 1 .. v
        BY <3>1 DEF Volumes
      <4>2. \A i \in 1 .. Len(files) : i \in DOMAIN disk.volumes
        BY DEF Inv, FilesInOrder
      <4>3. IF disk.multi THEN Len(files) + 1 \notin DOMAIN disk.volumes ELSE Len(files) = 1
        BY <2>3 DEF Inv, VolumesSoFar
      <4>4. ASSUME v <= Len(files)
            PROVE  (\A u \in 1 .. v : u \in DOMAIN disk.volumes) /\ (v = 1 \/ disk.multi)
        <5>1. \A u \in 1 .. v : u \in 1 .. Len(files)
          BY <3>1, <4>1, <4>4
        <5>2. Len(files) = 1 => v = 1
          BY <3>1, <4>1, <4>4
        <5> QED BY <4>2, <4>3, <5>1, <5>2
      <4>5. ASSUME ~(v <= Len(files)), \A u \in 1 .. v : u \in DOMAIN disk.volumes, v = 1 \/ disk.multi
            PROVE  FALSE
        <5>1. Len(files) + 1 \in 1 .. v /\ v # 1
          BY <3>1, <4>1, <4>5
        <5> QED BY <4>3, <4>5, <5>1
      <4> QED BY <4>4, <4>5
    <3>3. \A v \in Volumes : handles[v] = "open" <=> v <= Len(files)
      BY <3>1 DEF Inv, HandlesOwned
    <3> QED BY <3>2, <3>3 DEF Wanted
  <2> QED BY <2>1, <2>2, <2>3 DEF HandlesClosed
<1> QED BY <1>1, Invariance, PTL

-----------------------------------------------------------------------------
(* The search for the signature.                                           *)

\* Where the archive may start: what FindsArchive says about the whole reader.
All(r) == { p \in Matches(r, 0, Len(r)) : p <= SearchLimit }
Eligible(r) == IF 0 \in All(r) THEN {0} ELSE All(r)

\* The signature is at p.
SignatureAt(r, p) == \A i \in DOMAIN Signature : r[p + i] = Signature[i]

\* The smaller of two numbers, and the smallest of a set of naturals.
LEMMA MinOfTwo ==
    ASSUME NEW a \in Int, NEW b \in Int
    PROVE  Min({a, b}) = IF a <= b THEN a ELSE b
<1> DEFINE c == IF a <= b THEN a ELSE b
<1>1. c \in {a, b} /\ \A y \in {a, b} : c =< y
  OBVIOUS
<1>2. Min({a, b}) \in {a, b} /\ \A y \in {a, b} : Min({a, b}) =< y
  BY <1>1 DEF Min
<1> QED BY <1>2

\* A non-empty set of numbers has its minimum.
LEMMA MinOfNaturals ==
    ASSUME NEW S, S \subseteq Nat, S # {}
    PROVE  Min(S) \in S /\ \A y \in S : Min(S) <= y
<1>1. \E x \in S : \A y \in S : x =< y
  BY Smallest
<1> QED BY <1>1 DEF Min

\* The sizes of the search are positive numbers.
LEMMA SearchConstants ==
    /\ ChunkSize \in Nat /\ ChunkSize >= 1
    /\ Len(Signature) \in Nat /\ Len(Signature) >= 1
    /\ SearchLimit \in Nat
    /\ \E k \in Nat : k >= 1 /\ SearchLimit = k * ChunkSize
<1>1. ChunkSize \in Nat /\ ChunkSize >= 1 /\ SearchLimit \in Nat /\ SearchLimit >= 1
      /\ SearchLimit % ChunkSize = 0
  BY ChunkAssumption
<1>2. Len(Signature) \in Nat /\ Len(Signature) >= 1
  BY SignatureAssumption, LenProperties
<1> DEFINE k == SearchLimit \div ChunkSize
<1>3. k \in Nat /\ SearchLimit = (k * ChunkSize) + (SearchLimit % ChunkSize)
  BY <1>1
<1>4. k >= 1
  BY <1>1, <1>3
<1>5. SearchLimit = k * ChunkSize
  BY <1>1, <1>3
<1> HIDE DEF k
<1>6. \E j \in Nat : j >= 1 /\ SearchLimit = j * ChunkSize
  BY ONLY <1>3, <1>4, <1>5
<1> QED BY <1>1, <1>2, <1>6

\* The last multiple of c up to x.
LEMMA Multiple ==
    ASSUME NEW x \in Nat, NEW c \in Nat, c >= 1
    PROVE  \E k \in Nat : k * c <= x /\ x < k * c + c
<1> DEFINE k == x \div c
           m == x % c
<1>1. k \in Nat /\ m \in Nat /\ m < c
  OBVIOUS
<1>2. x = (k * c) + m
  OBVIOUS
<1> HIDE DEF k, m
<1>3. PICK d \in Nat : d = k * c
  BY <1>1
<1>4. d <= x /\ x < d + c
  BY ONLY <1>1, <1>2, <1>3, c \in Nat
<1> QED BY ONLY <1>1, <1>3, <1>4

\* Where a chunk ends.
LEMMA ChunkEndIs ==
    ASSUME NEW r \in Seq(Nat), NEW offset \in Nat
    PROVE  ChunkEnd(r, offset) = IF offset + ChunkSize + Len(Signature) <= Len(r)
                                 THEN offset + ChunkSize + Len(Signature) ELSE Len(r)
<1>1. offset + ChunkSize + Len(Signature) \in Int /\ Len(r) \in Int
  BY SearchConstants, LenProperties
<1> QED BY <1>1, MinOfTwo DEF ChunkEnd

\* The matches of a chunk are the signatures that start in it or right behind it.
LEMMA MatchesAre ==
    ASSUME NEW r \in Seq(Nat), NEW offset \in Nat, NEW p
    PROVE  p \in Matches(r, offset, ChunkEnd(r, offset)) <=>
             /\ p \in Nat /\ offset <= p /\ p <= offset + ChunkSize
             /\ p + Len(Signature) <= Len(r) /\ SignatureAt(r, p)
<1>1. ChunkSize \in Nat /\ Len(Signature) \in Nat /\ Len(r) \in Nat
  BY SearchConstants, LenProperties
<1>2. p \in offset .. (ChunkEnd(r, offset) - Len(Signature)) <=>
         p \in Nat /\ offset <= p /\ p <= offset + ChunkSize /\ p + Len(Signature) <= Len(r)
  <2>1. PICK e \in Int : e = ChunkEnd(r, offset)
    BY <1>1, ChunkEndIs
  <2>2. e = IF offset + ChunkSize + Len(Signature) <= Len(r)
            THEN offset + ChunkSize + Len(Signature) ELSE Len(r)
    BY <2>1, ChunkEndIs
  <2>3. p \in offset .. (e - Len(Signature)) <=>
           p \in Nat /\ offset <= p /\ p <= offset + ChunkSize /\ p + Len(Signature) <= Len(r)
    BY ONLY <1>1, <2>2, offset \in Nat, e \in Int
  <2> QED BY <2>1, <2>3
<1> QED BY <1>2 DEF Matches, SignatureAt

\* Numbers sorted in the order the search finds them.
LEMMA NumbersSorted ==
    ASSUME NEW M, M \subseteq Nat, IsFiniteSet(M)
    PROVE  /\ Ascends(InOrder(M, { p \in M \X M : p[1] < p[2] }))
           /\ \A x : Has(InOrder(M, { p \in M \X M : p[1] < p[2] }), x) <=> x \in M
<1> DEFINE less == { p \in M \X M : p[1] < p[2] }
           s == InOrder(M, less)
<1>1. \A x, y \in M : <<x, y>> \in less <=> x < y
  OBVIOUS
<1> HIDE DEF less
<1>2. Orders(less, M)
  <2>1. \A x \in M : <<x, x>> \notin less
    BY <1>1
  <2>2. \A x, y, z \in M : <<x, y>> \in less /\ <<y, z>> \in less => <<x, z>> \in less
    BY <1>1
  <2>3. \A x, y \in M : x # y => <<x, y>> \in less \/ <<y, x>> \in less
    BY <1>1
  <2> QED BY <2>1, <2>2, <2>3 DEF Orders
<1>3. SortedAs(s, M, less)
  BY <1>2, InOrderSorts
<1> HIDE DEF s
<1>4. s \in Seq(M) /\ s \in Seq(Nat) /\ Len(s) \in Nat /\ \A i \in 1 .. Len(s) : s[i] \in M
  <2>1. s \in Seq(M)
    BY <1>3 DEF SortedAs
  <2>2. Len(s) \in Nat /\ \A i \in 1 .. Len(s) : s[i] \in M
    BY <2>1, ElementOfSeq, LenProperties
  <2>3. s \in [1 .. Len(s) -> Nat]
    <3>1. s \in [1 .. Len(s) -> M]
      BY <2>1, LenProperties
    <3> QED BY <3>1
  <2>4. s \in Seq(Nat)
    BY <2>2, <2>3
  <2> QED BY <2>1, <2>2, <2>4
<1>5. \A x : Has(s, x) <=> x \in M
  BY <1>3, <1>4 DEF Has, SortedAs
<1>6. \A i, j \in 1 .. Len(s) : i <= j => s[i] <= s[j]
  <2>1. \A i, j \in 1 .. Len(s) : i < j => s[i] < s[j]
    BY <1>1, <1>3, <1>4 DEF SortedAs
  <2>2. \A i \in 1 .. Len(s) : s[i] \in Nat
    BY <1>4
  <2> QED BY <1>4, <2>1, <2>2
<1> QED BY <1>4, <1>5, <1>6 DEF Ascends, s, less

\* The parts of Offsets: what is found in a chunk, the last chunk, all of them.
FoundAt(r, offset) ==
    LET matches == Matches(r, offset, ChunkEnd(r, offset))
    IN  InOrder(matches, { p \in matches \X matches : p[1] < p[2] })
LastChunk(r) ==
    Min({ o \in 0 .. SearchLimit :
            o % ChunkSize = 0 /\ o + ChunkSize + Len(Signature) > Len(r) }
        \cup {SearchLimit - ChunkSize})
Chunks(r) == [ i \in 1 .. (LastChunk(r) \div ChunkSize + 1) |-> FoundAt(r, (i - 1) * ChunkSize) ]

\* findSignature in these terms.
LEMMA OffsetsDef ==
    ASSUME NEW r
    PROVE  Offsets(r) = IF 0 \in Matches(r, 0, ChunkEnd(r, 0)) THEN <<0>> ELSE FlattenSeq(Chunks(r))
BY DEF Offsets, Chunks, LastChunk, FoundAt

\* The chunk q is the last: the earlier ones are read whole, and it meets the end
\* of the reader or the limit.
LEMMA LastChunkIs ==
    ASSUME NEW r \in Seq(Nat)
    PROVE  \E q \in Nat :
              /\ LastChunk(r) \div ChunkSize = q
              /\ q * ChunkSize + ChunkSize <= SearchLimit
              /\ \/ q * ChunkSize + ChunkSize = SearchLimit
                 \/ q * ChunkSize + ChunkSize + Len(Signature) > Len(r)
<1> DEFINE S == { o \in 0 .. SearchLimit :
                    o % ChunkSize = 0 /\ o + ChunkSize + Len(Signature) > Len(r) }
           T == S \cup {SearchLimit - ChunkSize}
           e == LastChunk(r)
<1>1. /\ ChunkSize \in Nat /\ ChunkSize >= 1 /\ SearchLimit \in Nat
      /\ Len(Signature) \in Nat /\ Len(r) \in Nat
  BY SearchConstants, LenProperties
<1>2. PICK k \in Nat : k >= 1 /\ SearchLimit = k * ChunkSize
  BY SearchConstants
<1>3. k - 1 \in Nat /\ SearchLimit - ChunkSize = (k - 1) * ChunkSize /\ SearchLimit - ChunkSize \in Nat
  <2>1. k - 1 \in Nat
    BY <1>2
  <2>2. k * ChunkSize - ChunkSize = (k - 1) * ChunkSize
    BY <1>1
  <2>3. (k - 1) * ChunkSize \in Nat
    BY <1>1, <2>1
  <2> QED BY <1>2, <2>1, <2>2, <2>3
<1>4. e \in T /\ \A y \in T : e <= y
  <2>1. T \subseteq Nat /\ T # {}
    BY <1>1, <1>3
  <2> HIDE DEF S
  <2>2. e = Min(T)
    BY DEF LastChunk, S
  <2> HIDE DEF T
  <2> QED BY <2>1, <2>2, MinOfNaturals
<1>5. PICK q \in Nat : e = q * ChunkSize /\ (e = SearchLimit - ChunkSize \/ e \in S)
  <2>1. CASE e = SearchLimit - ChunkSize
    BY <1>3, <2>1
  <2>2. CASE e \in S
    <3>1. e \in Nat /\ e % ChunkSize = 0
      BY <1>1, <2>2
    <3>2. e \div ChunkSize \in Nat /\ e = (e \div ChunkSize) * ChunkSize + (e % ChunkSize)
      BY <1>1, <3>1
    <3>3. e = (e \div ChunkSize) * ChunkSize
      BY <1>1, <3>1, <3>2
    <3> QED BY <2>2, <3>2, <3>3
  <2> QED BY <1>4, <2>1, <2>2
<1>6. e \div ChunkSize = q
  BY <1>1, <1>5
<1>7. e \in Nat /\ e <= SearchLimit - ChunkSize
  BY <1>1, <1>3, <1>4
<1>8. e = SearchLimit - ChunkSize \/ e + ChunkSize + Len(Signature) > Len(r)
  BY <1>5
<1> HIDE DEF e, S, T
<1>9. /\ e + ChunkSize <= SearchLimit
      /\ e + ChunkSize = SearchLimit \/ e + ChunkSize + Len(Signature) > Len(r)
  BY <1>1, <1>7, <1>8
<1> QED BY <1>5, <1>6, <1>9 DEF e

\* What one chunk finds, in ascending order.
LEMMA FoundIs ==
    ASSUME NEW r \in Seq(Nat), NEW offset \in Nat
    PROVE  /\ Ascends(FoundAt(r, offset))
           /\ \A x : Has(FoundAt(r, offset), x) <=> x \in Matches(r, offset, ChunkEnd(r, offset))
<1> DEFINE M == Matches(r, offset, ChunkEnd(r, offset))
<1>1. Len(r) \in Nat /\ Len(Signature) \in Nat
  BY SearchConstants, LenProperties
<1>2. M \in SUBSET Nat /\ \A p \in M : p <= Len(r)
  BY <1>1, MatchesAre
<1>3. IsFiniteSet(M)
  BY <1>1, <1>2, FS_BoundedSetOfNaturals
<1> QED BY <1>2, <1>3, NumbersSorted DEF FoundAt

\* The chunks together find what a look at the whole reader finds, in order.
LEMMA OffsetsAre ==
    ASSUME NEW r \in Seq(Nat)
    PROVE  /\ Ascends(Offsets(r))
           /\ \A x : Has(Offsets(r), x) <=> x \in Eligible(r)
<1>1. /\ ChunkSize \in Nat /\ ChunkSize >= 1 /\ SearchLimit \in Nat
      /\ Len(Signature) \in Nat /\ Len(r) \in Nat
  BY SearchConstants, LenProperties
<1>2. ASSUME NEW x
      PROVE  x \in All(r) <=> /\ x \in Nat /\ x <= SearchLimit
                              /\ x + Len(Signature) <= Len(r) /\ SignatureAt(r, x)
  <2>1. x \in 0 .. (Len(r) - Len(Signature)) <=> x \in Nat /\ x + Len(Signature) <= Len(r)
    BY <1>1
  <2> QED BY <2>1 DEF All, Matches, SignatureAt
<1>3. 0 \in Matches(r, 0, ChunkEnd(r, 0)) <=> 0 \in All(r)
  <2>1. 0 \in Nat /\ 0 <= 0 /\ 0 <= 0 + ChunkSize /\ 0 <= SearchLimit
    BY <1>1
  <2> QED BY <1>2, <2>1, MatchesAre
<1>4. CASE 0 \in All(r)
  <2>1. Offsets(r) = <<0>> /\ Eligible(r) = {0}
    BY <1>3, <1>4, OffsetsDef DEF Eligible
  <2>2. <<0>> \in Seq(Nat) /\ Len(<<0>>) = 1 /\ <<0>>[1] = 0 /\ \A i \in 1 .. 1 : i = 1
    OBVIOUS
  <2> QED BY <2>1, <2>2 DEF Ascends, Has
<1>5. CASE 0 \notin All(r)
  <2> DEFINE s == Chunks(r)
  <2>1. Offsets(r) = FlattenSeq(s) /\ Eligible(r) = All(r)
    BY <1>3, <1>5, OffsetsDef DEF Eligible
  <2>2. PICK q \in Nat :
              /\ LastChunk(r) \div ChunkSize = q
              /\ q * ChunkSize + ChunkSize <= SearchLimit
              /\ \/ q * ChunkSize + ChunkSize = SearchLimit
                 \/ q * ChunkSize + ChunkSize + Len(Signature) > Len(r)
    BY LastChunkIs
  <2>3. s = [ i \in 1 .. q + 1 |-> FoundAt(r, (i - 1) * ChunkSize) ]
    BY <2>2 DEF Chunks
  <2> HIDE DEF s
  <2>4. ASSUME NEW i \in 1 .. q + 1
        PROVE  /\ (i - 1) * ChunkSize \in Nat
               /\ s[i] = FoundAt(r, (i - 1) * ChunkSize)
               /\ Ascends(s[i])
               /\ \A x : Has(s[i], x) <=>
                    /\ x \in Nat /\ (i - 1) * ChunkSize <= x /\ x <= (i - 1) * ChunkSize + ChunkSize
                    /\ x + Len(Signature) <= Len(r) /\ SignatureAt(r, x)
    <3>1. PICK o \in Nat : o = (i - 1) * ChunkSize
      BY <1>1, <2>2
    <3>2. s[i] = FoundAt(r, o)
      BY <2>3, <3>1
    <3>3. /\ Ascends(FoundAt(r, o))
          /\ \A x : Has(FoundAt(r, o), x) <=> x \in Matches(r, o, ChunkEnd(r, o))
      BY FoundIs
    <3> QED BY <3>1, <3>2, <3>3, MatchesAre
  <2>5. s \in Seq(Seq(Nat)) /\ Len(s) = q + 1
    <3>1. \A i \in 1 .. q + 1 : s[i] \in Seq(Nat)
      BY <2>4 DEF Ascends
    <3>2. s \in [1 .. q + 1 -> Seq(Nat)]
      BY <2>3, <3>1
    <3> QED BY <2>2, <3>2
  <2>6. \A i, j \in 1 .. q + 1 : \A x, y \in Nat : i < j /\ Has(s[i], x) /\ Has(s[j], y) => x <= y
    <3> TAKE i, j \in 1 .. q + 1
    <3> TAKE x, y \in Nat
    <3> HAVE i < j /\ Has(s[i], x) /\ Has(s[j], y)
    <3>1. PICK a \in Nat : a = (i - 1) * ChunkSize
      BY <2>4
    <3>2. PICK b \in Nat : b = (j - 1) * ChunkSize
      BY <2>4
    <3>3. a + ChunkSize <= b
      <4>1. i - 1 \in Nat /\ j - 1 \in Nat /\ i - 1 < j - 1
        BY <2>2
      <4> QED BY <1>1, <3>1, <3>2, <4>1
    <3>4. x <= a + ChunkSize /\ b <= y
      BY <2>4, <3>1, <3>2
    <3> QED BY <1>1, <3>3, <3>4
  <2>7. /\ Ascends(FlattenSeq(s))
        /\ \A x : Has(FlattenSeq(s), x) <=> \E i \in 1 .. q + 1 : Has(s[i], x)
    BY <2>4, <2>5, <2>6, FlattenAscends
  <2>8. ASSUME NEW x, NEW i \in 1 .. q + 1, Has(s[i], x)
        PROVE  x \in All(r)
    <3>1. PICK a \in Nat : a = (i - 1) * ChunkSize
      BY <2>4
    <3>2. PICK b \in Nat : b = q * ChunkSize /\ b + ChunkSize <= SearchLimit
      BY <1>1, <2>2
    <3>3. a <= b
      <4>1. i - 1 \in Nat /\ i - 1 <= q
        BY <2>2
      <4> QED BY <1>1, <3>1, <3>2, <4>1
    <3>4. x \in Nat /\ x <= a + ChunkSize /\ x + Len(Signature) <= Len(r) /\ SignatureAt(r, x)
      BY <2>4, <2>8, <3>1
    <3>5. x <= SearchLimit
      BY <1>1, <3>2, <3>3, <3>4
    <3> QED BY <1>2, <3>4, <3>5
  <2>9. ASSUME NEW x, x \in All(r)
        PROVE  \E i \in 1 .. q + 1 : Has(s[i], x)
    <3>1. x \in Nat /\ x <= SearchLimit /\ x + Len(Signature) <= Len(r) /\ SignatureAt(r, x)
      BY <1>2, <2>9
    <3>2. PICK k \in Nat : k * ChunkSize <= x /\ x < k * ChunkSize + ChunkSize
      BY ONLY <1>1, <3>1, Multiple
    <3>3. PICK b \in Nat : b = q * ChunkSize
      BY <1>1
    <3>4. CASE k <= q
      <4>1. k + 1 \in 1 .. q + 1 /\ (k + 1) - 1 = k
        BY <3>4
      <4>2. PICK a \in Nat : a = k * ChunkSize
        BY <1>1
      <4>3. a <= x /\ x <= a + ChunkSize
        BY <1>1, <3>1, <3>2, <4>2
      <4>4. Has(s[k + 1], x)
        BY <2>4, <3>1, <4>1, <4>2, <4>3
      <4> QED BY <4>1, <4>4
    <3>5. CASE ~(k <= q)
      <4>1. b + ChunkSize <= x
        <5>1. q * ChunkSize + ChunkSize <= k * ChunkSize
          BY <1>1, <3>5
        <5> QED BY <1>1, <3>1, <3>2, <3>3, <5>1
      <4>2. x = b + ChunkSize
        BY <1>1, <2>2, <3>1, <3>3, <4>1
      <4>3. q + 1 \in 1 .. q + 1 /\ (q + 1) - 1 = q
        BY <2>2
      <4>4. b <= x /\ x <= b + ChunkSize
        BY <1>1, <4>2
      <4>5. Has(s[q + 1], x)
        BY <2>4, <3>1, <3>3, <4>3, <4>4
      <4> QED BY <4>3, <4>5
    <3> QED BY <3>4, <3>5
  <2> QED BY <2>1, <2>7, <2>8, <2>9
<1> QED BY <1>4, <1>5

-----------------------------------------------------------------------------
(* The candidate loop.                                                     *)

Starts(r, p) == Readable(p, Len(r)) /\ Good(r, p)

\* The result and where it found the archive are what the whole reader says.
Explains(result, at, r) ==
    /\ result = "found" => /\ at \in Eligible(r) /\ Starts(r, at)
                           /\ \A p \in Eligible(r) : p < at => ~Starts(r, p)
    /\ result = "errFormat" => All(r) = {}
    /\ result = "errChecksum" => Eligible(r) # {} /\ \A p \in Eligible(r) : ~Starts(r, p)
    /\ result = "unexpectedEOF" => Eligible(r) # {}

\* The loop over ascending candidates ends at the first archive, if the size it
\* is told is not more than what there is.
LEMMA LocatedExplains ==
    ASSUME NEW r \in Seq(Nat), NEW size \in 0 .. Len(r)
    PROVE  Explains(Located(r, size).status, Located(r, size).at, r)
<1> DEFINE o == Offsets(r)
           ends == { i \in DOMAIN o : EndsLoop(r, size, o[i]) }
           p == o[Min(ends)]
           res == Located(r, size)
<1>1. Ascends(o) /\ \A x : Has(o, x) <=> x \in Eligible(r)
  BY OffsetsAre
<1>2. res = CASE o = <<>> -> [status |-> "errFormat", at |-> NoStart]
              [] o # <<>> /\ ends = {} -> [status |-> "errChecksum", at |-> NoStart]
              [] OTHER -> IF Readable(p, size)
                          THEN [status |-> "found", at |-> p]
                          ELSE [status |-> "unexpectedEOF", at |-> NoStart]
  BY DEF Located, CandidateLoop
<1> HIDE DEF o, res
<1>3. /\ o \in Seq(Nat) /\ Len(o) \in Nat /\ DOMAIN o = 1 .. Len(o)
      /\ \A i \in 1 .. Len(o) : o[i] \in Nat
  <2>1. o \in Seq(Nat)
    BY <1>1 DEF Ascends
  <2> QED BY <2>1, ElementOfSeq, LenProperties
<1>4. Len(r) \in Nat /\ size \in Nat /\ size <= Len(r) /\ Len(Signature) \in Nat
  BY SearchConstants, LenProperties
<1>5. \A x \in Nat : Readable(x, size) => Readable(x, Len(r))
  BY <1>4 DEF Readable
<1>6. \A x \in Eligible(r) : \E i \in 1 .. Len(o) : o[i] = x
  BY <1>1 DEF Has
<1>7. \A i \in 1 .. Len(o) : o[i] \in Eligible(r)
  BY <1>1 DEF Has
<1>8. CASE o = <<>>
  <2>1. res.status = "errFormat"
    BY <1>2, <1>8
  <2>2. Eligible(r) = {}
    <3>1. Len(o) = 0
      BY <1>8
    <3> QED BY <1>6, <3>1
  <2>3. All(r) = {}
    BY <2>2 DEF Eligible
  <2> QED BY <2>1, <2>3 DEF Explains, res
<1>9. CASE o # <<>> /\ ends = {}
  <2>1. res.status = "errChecksum"
    BY <1>2, <1>9
  <2>2. 1 \in 1 .. Len(o)
    BY <1>3, <1>9, EmptySeq
  <2>3. \A x \in Eligible(r) : ~Good(r, x)
    BY <1>3, <1>6, <1>9 DEF EndsLoop
  <2> QED BY <1>7, <2>1, <2>2, <2>3 DEF Explains, Starts, res
<1>10. CASE o # <<>> /\ ends # {}
  <2> DEFINE m == Min(ends)
  <2>1. m \in ends /\ \A i \in ends : m <= i
    <3>1. ends \subseteq Nat
      BY <1>3
    <3> HIDE DEF ends
    <3> QED BY <1>10, <3>1, MinOfNaturals
  <2> HIDE DEF m
  <2>2. m \in 1 .. Len(o) /\ EndsLoop(r, size, o[m]) /\ p = o[m]
    BY <1>3, <2>1 DEF m
  <2>3. p \in Nat /\ p \in Eligible(r)
    BY <1>3, <1>7, <2>2
  <2>4. CASE ~Readable(p, size)
    <3>1. res.status = "unexpectedEOF"
      BY <1>2, <1>10, <2>4
    <3> QED BY <2>3, <3>1 DEF Explains, res
  <2>5. CASE Readable(p, size)
    <3>1. res.status = "found" /\ res.at = p
      BY <1>2, <1>10, <2>5
    <3>2. Starts(r, p)
      BY <1>5, <2>2, <2>3, <2>5 DEF EndsLoop, Starts
    <3>3. ASSUME NEW x \in Eligible(r), x < p
          PROVE  ~Starts(r, x)
      <4>1. PICK i \in 1 .. Len(o) : o[i] = x
        BY <1>6
      <4>2. ~(m <= i)
        <5>1. m <= i => o[m] <= o[i]
          BY <1>1, <2>2 DEF Ascends
        <5> QED BY <1>3, <2>2, <3>3, <4>1, <5>1
      <4>3. i \notin ends
        BY <2>1, <4>2
      <4>4. ~Good(r, x)
        BY <1>3, <4>1, <4>3 DEF EndsLoop
      <4> QED BY <4>4 DEF Starts
    <3> HIDE DEF p
    <3> QED BY <2>3, <3>1, <3>2, <3>3 DEF Explains, res
  <2> QED BY <2>4, <2>5
<1> QED BY <1>8, <1>9, <1>10

\* What FindsArchive says of a status.
LEMMA FindsIff ==
    FindsArchive <=> /\ Usable => Explains("found", start, reader)
                     /\ status # "found" => Explains(status, start, reader)
BY DEF FindsArchive, Usable, Explains, Starts, Eligible, All

\* The volumes together are one sequence of cells.
LEMMA MultiReaderType ==
    ASSUME Inv
    PROVE  MultiReader(files) \in Seq(Nat)
<1> DEFINE s == [ i \in DOMAIN files |-> disk.volumes[files[i]] ]
<1>1. /\ Len(files) \in Nat /\ DOMAIN files = 1 .. Len(files)
      /\ \A i \in 1 .. Len(files) : files[i] = i /\ i \in DOMAIN disk.volumes
  BY LenProperties DEF Inv, FilesInOrder
<1>2. \A v \in DOMAIN disk.volumes : disk.volumes[v] \in Seq(Nat)
  BY ScenariosAssumption DEF Inv
<1>3. s \in [1 .. Len(files) -> Seq(Nat)]
  BY <1>1, <1>2
<1>4. s \in Seq(Seq(Nat))
  BY <1>1, <1>3
<1> HIDE DEF s
<1>5. FlattenSeq(s) \in Seq(Nat)
  BY <1>4, FlattenType
<1> QED BY <1>5 DEF MultiReader, s

\* A step that ends in a state for which FindsArchive claims nothing.
LEMMA NothingClaimed ==
    ASSUME status' \in {"idle", "volumes", "init", "closed", "error", "errNegativeSize"}
    PROVE  FindsArchive'
BY DEF FindsArchive, Usable

\* A step of the search: its result and the place are those of Located.
LEMMA SearchFinds ==
    ASSUME reader' \in Seq(Nat), NEW size \in 0 .. Len(reader'),
           NEW result, result = Located(reader', size),
           \/ result.status = "found" /\ Usable' /\ start' = result.at
           \/ status' \in {"error", result.status} \ {"found"}
    PROVE  FindsArchive'
<1>1. PICK r : r = reader'
  OBVIOUS
<1>2. Explains(result.status, result.at, r)
  BY <1>1, LocatedExplains
<1>3. result.status \in {"found", "errFormat", "errChecksum", "unexpectedEOF"}
  BY LocatedStatus
<1>4. CASE result.status = "found" /\ Usable' /\ start' = result.at
  <2>1. Explains("found", start, reader)'
    BY <1>1, <1>2, <1>4
  <2>2. Explains(status, start, reader)'
    BY <1>4 DEF Explains, Usable
  <2> QED BY <2>1, <2>2, FindsIff, PTL
<1>5. CASE status' \in {"error", result.status} \ {"found"}
  <2>1. CASE status' = "error"
    BY <2>1, NothingClaimed
  <2>2. CASE status' = result.status
    <3>1. result.status # "found" /\ ~Usable'
      BY <1>3, <1>5, <2>2 DEF Usable
    <3>2. Explains(status, start, reader)'
      BY <1>1, <1>2, <2>2, <3>1 DEF Explains
    <3> QED BY <3>1, <3>2, FindsIff, PTL
  <2> QED BY <1>5, <2>1, <2>2
<1> QED BY <1>4, <1>5

\* The chunked search and the candidate loop find the archive a look at the whole
\* reader finds, for every content, signature and chunk size; and the errors of
\* init say why there is none.
THEOREM ArchiveFound == Spec => []FindsArchive
<1>1. Init => FindsArchive
  BY DEF Init, FindsArchive, Usable
<1>2. Inv /\ FindsArchive /\ [Next]_vars => FindsArchive'
  <2> SUFFICES ASSUME Inv, FindsArchive, [Next]_vars PROVE FindsArchive'
    OBVIOUS
  <2>1. CASE OpenFails \/ OpenFirst \/ VolumeFails \/ VolumesEnd \/ NewReaderNegative \/ Close
    BY <2>1, NothingClaimed
       DEF OpenFails, OpenFirst, VolumeFails, VolumesEnd, NewReaderNegative, Close
  <2>2. CASE VolumeOpened
    BY <2>2, NothingClaimed DEF VolumeOpened
  <2>3. CASE InitReader
    <3>1. reader' \in Seq(Nat)
      BY <2>3, MultiReaderType DEF InitReader
    <3>2. Len(reader') \in 0 .. Len(reader')
      BY <3>1, LenProperties
    <3>3. PICK result \in {Located(reader', Len(reader'))} :
            \/ result.status = "found" /\ status' = "open" /\ start' = result.at
            \/ status' \in {"error", result.status} \ {"found"}
      BY <2>3 DEF InitReader
    <3>4. \/ result.status = "found" /\ Usable' /\ start' = result.at
          \/ status' \in {"error", result.status} \ {"found"}
      BY <3>3 DEF Usable
    <3> QED BY <3>1, <3>2, <3>3, <3>4, SearchFinds
  <2>4. CASE NewReader
    <3>1. reader' \in Seq(Nat)
      BY <2>4, ScenariosAssumption DEF NewReader, Inv
    <3>2. PICK size \in 0 .. Len(reader') : \E result \in {Located(reader', size)} :
            \/ result.status = "found" /\ status' = "reading" /\ start' = result.at
            \/ status' \in {"error", result.status} \ {"found"}
      BY <2>4 DEF NewReader
    <3>3. PICK result \in {Located(reader', size)} :
            \/ result.status = "found" /\ status' = "reading" /\ start' = result.at
            \/ status' \in {"error", result.status} \ {"found"}
      BY <3>2
    <3>4. \/ result.status = "found" /\ Usable' /\ start' = result.at
          \/ status' \in {"error", result.status} \ {"found"}
      BY <3>3 DEF Usable
    <3> QED BY <3>1, <3>3, <3>4, SearchFinds
  <2>5. CASE UNCHANGED <<status, reader, start>>
    BY <2>5 DEF FindsArchive, Usable
  <2>6. ASSUME NEW name \in Queries, Open(name) PROVE FindsArchive'
    BY <2>5, <2>6 DEF Open, opening
  <2>7. ASSUME NEW count \in Counts, ReadDir(count) PROVE FindsArchive'
    BY <2>5, <2>7 DEF ReadDir, opening
  <2>8. CASE UNCHANGED vars
    BY <2>5, <2>8 DEF vars
  <2> QED BY <2>1, <2>2, <2>3, <2>4, <2>6, <2>7, <2>8 DEF Next
<1> QED BY <1>1, <1>2, Invariance, PTL DEF Spec

-----------------------------------------------------------------------------
(* The fs.FS view.                                                         *)

\* The entries of an open directory, and how far ReadDir has come in them.
OpenDirs == [name : Seq(Nat), files : Seq(Entries), offset : Nat, seen : Seq(Entries), eof : BOOLEAN]
DirSoFar ==
    /\ dir \in OpenDirs
    /\ dir.offset <= Len(dir.files) /\ Len(dir.seen) = dir.offset
    /\ \A m \in 1 .. dir.offset : dir.seen[m] = dir.files[m]
    /\ dir.eof => dir.offset = Len(dir.files) /\ dir # NoDir

\* The file list is that of the members once there is one, and an open directory
\* is one of it.
ViewInv ==
    /\ once \in BOOLEAN
    /\ once => FileListOf(fileList, disk.members)
    /\ dir # NoDir => /\ once
                      /\ ListsDir(dir.files, fileList, dir.name)
                      /\ ValidPath(dir.name)
    /\ DirSoFar

\* No directory is open: nothing listed, nothing seen.
LEMMA NoDirType == NoDir \in OpenDirs /\ Len(NoDir.files) = 0 /\ Len(NoDir.seen) = 0 /\ NoDir.offset = 0
                   /\ ~NoDir.eof
<1>1. << >> \in Seq(Nat) /\ << >> \in Seq(Entries) /\ Len(<< >>) = 0
  BY EmptySeq
<1> QED BY <1>1 DEF NoDir, OpenDirs

\* There is no file list before the first Open.
LEMMA InitView == Init => ViewInv
<1> SUFFICES ASSUME Init PROVE ViewInv
  OBVIOUS
<1>1. dir = NoDir /\ once = FALSE
  BY DEF Init
<1>2. DirSoFar
  BY <1>1, NoDirType DEF DirSoFar
<1> QED BY <1>1, <1>2 DEF ViewInv

\* Steps that leave the view alone.
LEMMA ViewUntouched ==
    ASSUME ViewInv, disk' = disk, UNCHANGED view
    PROVE  ViewInv'
BY DEF ViewInv, DirSoFar, view

\* Open makes the file list once, and opens a directory of it.
LEMMA OpenView ==
    ASSUME Inv, ViewInv, NEW name \in Queries, Open(name)
    PROVE  ViewInv'
<1>1. fileList' = FileList /\ once' = TRUE /\ disk' = disk
  BY DEF Open
<1>2. disk.members \in Seq(Members)
  BY ScenariosAssumption DEF Inv
<1>3. FileListOf(fileList', disk.members)
  <2>1. CASE once
    BY <1>1, <2>1 DEF FileList, ViewInv
  <2>2. CASE ~once
    BY <1>1, <1>2, <2>2, NewFileListIs DEF FileList
  <2> QED BY <2>1, <2>2
<1>4. CASE OpenOutcome(fileList', name) = "dir"
  <2> DEFINE fs == openReadDir(fileList', name)
  <2>1. name \in Seq(Nat)
    BY CallsAssumption
  <2>2. ListsDir(fs, fileList', name)
    <3>1. PICK list : list = fileList'
      OBVIOUS
    <3>2. ListsDir(openReadDir(list, name), list, name)
      BY <1>3, <2>1, <3>1, ReadDirIs
    <3> QED BY <3>1, <3>2
  <2>3. ValidPath(name)
    BY <1>4 DEF OpenOutcome, Outcome
  <2>4. dir' = [NoDir EXCEPT !.name = name, !.files = fs]
    BY <1>4 DEF Open
  <2> HIDE DEF fs
  <2>5. fs \in Seq(Entries) /\ Len(fs) \in Nat
    <3>1. fs \in Seq(Entries)
      BY <2>2 DEF ListsDir
    <3> QED BY <3>1, LenProperties
  <2>6. /\ dir' \in OpenDirs /\ dir'.name = name /\ dir'.files = fs /\ dir'.offset = 0
        /\ dir'.seen = << >> /\ dir'.eof = FALSE
    BY <2>1, <2>4, <2>5, NoDirType DEF NoDir, OpenDirs
  <2>7. DirSoFar'
    BY <2>5, <2>6, EmptySeq DEF DirSoFar
  <2> QED BY <1>1, <1>3, <2>2, <2>3, <2>6, <2>7 DEF ViewInv
<1>5. CASE OpenOutcome(fileList', name) # "dir"
  <2>1. dir' = dir
    BY <1>5 DEF Open
  <2>2. DirSoFar'
    BY <2>1 DEF ViewInv, DirSoFar
  <2>3. dir # NoDir => fileList' = fileList
    BY <1>1 DEF ViewInv, FileList
  <2> QED BY <1>1, <1>3, <2>1, <2>2, <2>3 DEF ViewInv
<1> QED BY <1>4, <1>5

\* The number of entries on the next page.
LEMMA PageIs ==
    ASSUME ViewInv, NEW count \in Int
    PROVE  /\ Page(count) \in Nat /\ dir.offset + Page(count) <= Len(dir.files)
           /\ Page(count) = 0 => dir.offset = Len(dir.files)
<1>1. PICK o \in Nat, l \in Nat : o = dir.offset /\ l = Len(dir.files) /\ o <= l
  <2>1. dir.offset \in Nat /\ dir.files \in Seq(Entries) /\ dir.offset <= Len(dir.files)
    BY DEF ViewInv, DirSoFar, OpenDirs
  <2> QED BY <2>1, LenProperties
<1>2. Page(count) = IF count > 0 THEN Min({l - o, count}) ELSE l - o
  BY <1>1 DEF Page
<1>3. Min({l - o, count}) = IF l - o <= count THEN l - o ELSE count
  BY MinOfTwo
<1>4. PICK q : q = Page(count)
  OBVIOUS
<1>5. q = IF count > 0 THEN (IF l - o <= count THEN l - o ELSE count) ELSE l - o
  BY <1>2, <1>3, <1>4
<1>6. q \in Nat /\ o + q <= l /\ (q = 0 => o = l)
  BY ONLY <1>1, <1>5, count \in Int
<1> QED BY <1>1, <1>4, <1>6

\* ReadDir goes on by its page, or reports the end, or stays where it is.
LEMMA ReadDirView ==
    ASSUME ViewInv, NEW count \in Counts, ReadDir(count)
    PROVE  ViewInv'
<1> DEFINE n == Page(count)
           page == SubSeq(dir.files, dir.offset + 1, Min({dir.offset + n, Len(dir.files)}))
<1>1. count \in Int
  BY CallsAssumption
<1>2. n \in Nat /\ dir.offset + n <= Len(dir.files) /\ (n = 0 => dir.offset = Len(dir.files))
  BY <1>1, PageIs
<1>3. dir # NoDir /\ disk' = disk /\ fileList' = fileList /\ once' = once
  BY DEF ReadDir
<1>4. /\ dir.offset \in Nat /\ dir.files \in Seq(Entries) /\ dir.seen \in Seq(Entries)
      /\ Len(dir.files) \in Nat /\ dir \in OpenDirs
      /\ Len(dir.seen) = dir.offset /\ \A m \in 1 .. dir.offset : dir.seen[m] = dir.files[m]
  <2>1. dir.offset \in Nat /\ dir.files \in Seq(Entries) /\ dir.seen \in Seq(Entries)
    BY DEF ViewInv, DirSoFar, OpenDirs
  <2> QED BY <2>1, LenProperties DEF ViewInv, DirSoFar
<1>5. CASE n = 0
  <2>1. dir' = [dir EXCEPT !.eof = @ \/ count > 0]
    BY <1>5 DEF ReadDir
  <2>2. /\ dir' \in OpenDirs /\ dir'.name = dir.name /\ dir'.files = dir.files
        /\ dir'.offset = dir.offset /\ dir'.seen = dir.seen /\ (dir'.eof = (dir.eof \/ count > 0))
    BY <1>1, <1>4, <2>1 DEF OpenDirs
  <2>3. dir'.eof => dir' # NoDir
    BY NoDirType
  <2>4. DirSoFar'
    BY <1>2, <1>4, <1>5, <2>2, <2>3 DEF DirSoFar
  <2> QED BY <1>3, <2>2, <2>4 DEF ViewInv
<1>6. CASE dir' = dir
  BY <1>3, <1>6 DEF ViewInv, DirSoFar
<1>7. CASE n # 0 /\ dir' = [dir EXCEPT !.offset = @ + n, !.seen = @ \o page]
  <2>1. PICK o \in Nat, q \in Nat, l \in Nat :
          o = dir.offset /\ q = n /\ l = Len(dir.files) /\ o + q <= l
    BY <1>2, <1>4
  <2>2. PICK fs \in Seq(Entries), sn \in Seq(Entries) : fs = dir.files /\ sn = dir.seen
    BY <1>4
  <2>3. page = SubSeq(fs, o + 1, o + q)
    <3>1. PICK t \in Nat : t = o + q /\ t <= l
      BY <2>1
    <3>2. Min({t, l}) = t
      BY ONLY <3>1, t \in Nat, l \in Nat, MinOfTwo
    <3> QED BY <2>1, <2>2, <3>1, <3>2
  <2>4. page \in Seq(Entries) /\ Len(page) = q /\ \A m \in 1 .. q : page[m] = fs[o + m]
    <3>1. o \in Nat /\ q \in Nat /\ fs \in Seq(Entries) /\ o + q <= Len(fs)
      BY <2>1, <2>2
    <3>2. /\ SubSeq(fs, o + 1, o + q) \in Seq(Entries) /\ Len(SubSeq(fs, o + 1, o + q)) = q
          /\ \A m \in 1 .. q : SubSeq(fs, o + 1, o + q)[m] = fs[o + m]
      BY ONLY <3>1, PartIs
    <3> QED BY <2>3, <3>2
  <2> HIDE DEF page, n
  <2>5. PICK pg \in Seq(Entries) : pg = page
    BY <2>4
  <2>6. /\ sn \o pg \in Seq(Entries) /\ Len(sn \o pg) = o + q
        /\ \A m \in 1 .. o + q : (sn \o pg)[m] = IF m <= o THEN sn[m] ELSE pg[m - o]
    <3>1. Len(sn) = o /\ Len(pg) = q
      BY <1>4, <2>1, <2>2, <2>4, <2>5
    <3> QED BY <3>1, ConcatProperties
  <2>7. ASSUME NEW m \in 1 .. o + q PROVE (sn \o pg)[m] = fs[m]
    <3>1. CASE m <= o
      <4>1. m \in 1 .. o
        BY <3>1
      <4>2. sn[m] = fs[m]
        BY <1>4, <2>1, <2>2, <4>1
      <4> QED BY <2>6, <3>1, <4>2
    <3>2. CASE ~(m <= o)
      <4>1. m - o \in 1 .. q /\ o + (m - o) = m
        BY <3>2
      <4>2. pg[m - o] = fs[m]
        BY <2>4, <2>5, <4>1
      <4> QED BY <2>6, <3>2, <4>2
    <3> QED BY <3>1, <3>2
  <2>8. dir' = [dir EXCEPT !.offset = o + q, !.seen = sn \o pg]
    BY <1>7, <2>1, <2>2, <2>5
  <2>9. /\ dir' \in OpenDirs /\ dir'.name = dir.name /\ dir'.files = dir.files
        /\ dir'.offset = o + q /\ dir'.seen = sn \o pg /\ dir'.eof = dir.eof
    <3>1. o + q \in Nat
      OBVIOUS
    <3> QED BY <1>4, <2>6, <2>8, <3>1 DEF OpenDirs
  <2>10. ~dir.eof /\ dir'.offset <= Len(dir'.files)
    <3>1. o # l
      BY <1>7, <2>1
    <3> QED BY <2>1, <2>9, <3>1 DEF ViewInv, DirSoFar
  <2>11. DirSoFar'
    BY <2>2, <2>6, <2>7, <2>9, <2>10 DEF DirSoFar
  <2> QED BY <1>3, <2>9, <2>11 DEF ViewInv
<1> QED BY <1>2, <1>5, <1>6, <1>7 DEF ReadDir

\* What TypeOK says of status and start.
StatusesAndStart == status \in Statuses /\ start \in {NoStart} \cup 0 .. SearchLimit

\* The file list stays that of the members, and the open directory one of the list,
\* with its pages in a row from the first entry on.
THEOREM ViewInvariance == Spec => [](Inv /\ ViewInv)
<1>1. Inv /\ ViewInv /\ [Next]_vars => ViewInv'
  <2> SUFFICES ASSUME Inv, ViewInv, [Next]_vars PROVE ViewInv'
    OBVIOUS
  <2>1. CASE OpenFails \/ OpenFirst \/ VolumeFails \/ VolumeOpened \/ VolumesEnd
    BY <2>1, ViewUntouched DEF OpenFails, OpenFirst, VolumeFails, VolumeOpened, VolumesEnd
  <2>2. CASE InitReader \/ NewReader \/ NewReaderNegative \/ Close
    BY <2>2, ViewUntouched DEF InitReader, NewReader, NewReaderNegative, Close
  <2>3. ASSUME NEW name \in Queries, Open(name) PROVE ViewInv'
    BY <2>3, OpenView
  <2>4. ASSUME NEW count \in Counts, ReadDir(count) PROVE ViewInv'
    BY <2>4, ReadDirView
  <2>5. CASE UNCHANGED vars
    BY <2>5, ViewUntouched DEF vars, view
  <2> QED BY <2>1, <2>2, <2>3, <2>4, <2>5 DEF Next
<1> QED BY <1>1, InitView, Invariance, PTL DEF Spec

\* The search returns an offset within its limit, or none.
LEMMA LocatedAt ==
    ASSUME NEW r \in Seq(Nat), NEW size \in 0 .. Len(r), Located(r, size).status = "found"
    PROVE  Located(r, size).at \in 0 .. SearchLimit
<1>1. Located(r, size).at \in Eligible(r)
  BY LocatedExplains DEF Explains
<1>2. \A p \in Eligible(r) : p \in Nat /\ p <= SearchLimit
  <2>1. SearchLimit \in Nat /\ Len(r) \in Nat /\ Len(Signature) \in Nat
    BY SearchConstants, LenProperties
  <2>2. \A p \in All(r) : p \in Nat /\ p <= SearchLimit
    BY <2>1 DEF All, Matches
  <2> QED BY <2>1, <2>2 DEF Eligible
<1> QED BY <1>1, <1>2, SearchConstants

\* A step ends in one of the statuses, and the archive starts within the limit.
LEMMA StatusStep ==
    ASSUME Inv, StatusesAndStart, [Next]_vars
    PROVE  StatusesAndStart'
<1>1. CASE OpenFails \/ OpenFirst \/ VolumeFails \/ VolumeOpened \/ VolumesEnd
  BY <1>1 DEF StatusesAndStart, Statuses, OpenFails, OpenFirst, VolumeFails, VolumeOpened, VolumesEnd
<1>2. CASE NewReaderNegative \/ Close
  BY <1>2 DEF StatusesAndStart, Statuses, NewReaderNegative, Close
<1>3. ASSUME reader' \in Seq(Nat), NEW size \in 0 .. Len(reader'),
             NEW result, result = Located(reader', size),
             \/ result.status = "found" /\ status' \in {"open", "reading"} /\ start' = result.at
             \/ status' \in {"error", result.status} \ {"found"} /\ start' = start
      PROVE  StatusesAndStart'
  <2>1. result.status \in {"found", "errFormat", "errChecksum", "unexpectedEOF"}
    BY <1>3, LocatedStatus
  <2>2. status' \in Statuses
    BY <1>3, <2>1 DEF Statuses
  <2>3. result.status = "found" => result.at \in 0 .. SearchLimit
    <3>1. PICK r : r = reader'
      OBVIOUS
    <3> QED BY <1>3, <3>1, LocatedAt
  <2>4. start' \in {NoStart} \cup 0 .. SearchLimit
    BY <1>3, <2>3 DEF StatusesAndStart
  <2> QED BY <2>2, <2>4 DEF StatusesAndStart
<1>4. CASE InitReader
  <2>1. reader' \in Seq(Nat)
    BY <1>4, MultiReaderType DEF InitReader
  <2>2. Len(reader') \in 0 .. Len(reader')
    BY <2>1, LenProperties
  <2>3. PICK result \in {Located(reader', Len(reader'))} :
          \/ result.status = "found" /\ status' = "open" /\ start' = result.at
          \/ status' \in {"error", result.status} \ {"found"} /\ start' = start
    BY <1>4 DEF InitReader
  <2> QED BY <1>3, <2>1, <2>2, <2>3
<1>5. CASE NewReader
  <2>1. reader' \in Seq(Nat)
    BY <1>5, ScenariosAssumption DEF NewReader, Inv
  <2>2. PICK size \in 0 .. Len(reader') : \E result \in {Located(reader', size)} :
          \/ result.status = "found" /\ status' = "reading" /\ start' = result.at
          \/ status' \in {"error", result.status} \ {"found"} /\ start' = start
    BY <1>5 DEF NewReader
  <2> QED BY <1>3, <2>1, <2>2
<1>6. ASSUME NEW name \in Queries, Open(name) PROVE StatusesAndStart'
  BY <1>6 DEF StatusesAndStart, Open, opening
<1>7. ASSUME NEW count \in Counts, ReadDir(count) PROVE StatusesAndStart'
  BY <1>7 DEF StatusesAndStart, ReadDir, opening
<1>8. CASE UNCHANGED vars
  BY <1>8 DEF StatusesAndStart, vars
<1> QED BY <1>1, <1>2, <1>4, <1>5, <1>6, <1>7, <1>8 DEF Next

\* The state is well-formed; an open directory's offset stays within its entries,
\* whatever counts ReadDir is given.
THEOREM TypeCorrect == Spec => []TypeOK
<1>1. Init => StatusesAndStart
  BY DEF Init, StatusesAndStart, Statuses
<1>2. Inv /\ ViewInv /\ StatusesAndStart => TypeOK
  <2> SUFFICES ASSUME Inv, ViewInv, StatusesAndStart PROVE TypeOK
    OBVIOUS
  <2>1. \A v \in Volumes : handles[v] \in {"none", "open", "closed", "twice"}
    BY DEF Inv, HandlesOwned
  <2>2. files = [ i \in 1 .. Len(files) |-> i ] /\ Len(files) <= MaxVolume
    <3>1. /\ files \in Seq(Nat) /\ Len(files) \in 0 .. MaxVolume
          /\ \A i \in 1 .. Len(files) : files[i] = i
      BY DEF Inv, FilesInOrder
    <3>2. files \in [1 .. Len(files) -> Nat]
      BY <3>1, LenProperties
    <3> QED BY <3>1, <3>2, MaxVolumeAssumption
  <2>3. dir.offset \in 0 .. Len(dir.files)
    <3>1. dir.offset \in Nat /\ dir.files \in Seq(Entries) /\ dir.offset <= Len(dir.files)
      BY DEF ViewInv, DirSoFar, OpenDirs
    <3> QED BY <3>1, LenProperties
  <2> QED BY <2>1, <2>2, <2>3 DEF TypeOK, StatusesAndStart, ViewInv
<1> QED BY <1>1, <1>2, StatusStep, ViewInvariance, PTL DEF Spec

\* The binary search of openLookup finds exactly what the file list has, for every
\* archive and every name: it searches by the order initFileList sorted by.
THEOREM LookupsAgree == Spec => []LookupAgrees
<1>1. ViewInv => LookupAgrees
  <2> SUFFICES ASSUME ViewInv, once, NEW name \in Queries \ {Root}
               PROVE  openLookup(fileList, name) = { e \in ToSet(fileList) : e.name = name }
    BY DEF LookupAgrees
  <2>1. FileListOf(fileList, disk.members) /\ name \in Seq(Nat) /\ name # Root
    BY CallsAssumption DEF ViewInv
  <2> QED BY <2>1, LookupIs
<1> QED BY <1>1, ViewInvariance, PTL

-----------------------------------------------------------------------------
\* The children of a directory are the names whose first part it is.
LEMMA ChildrenAre ==
    ASSUME disk.members \in Seq(Members), NEW d \in Seq(Nat), d # <<>>, NEW x
    PROVE  x \in Children(d) <=> Named(disk.members, x) /\ split(x).dir = d
<1> DEFINE members == disk.members
<1>1. Len(members) \in Nat /\ DOMAIN members = 1 .. Len(members)
  BY LenProperties
<1>2. Len(d) \in Nat /\ Len(d) >= 1
  BY LenProperties, EmptySeq
<1>d. PICK depth \in Nat : depth = IF d = Root THEN 0 ELSE Len(d)
  BY <1>2
<1>3. x \in Children(d) <=>
        \E i \in 1 .. Len(members) :
            LET n == NameOf(members, i)
            IN  /\ n # <<>> /\ Len(n) > depth /\ SubSeq(n, 1, depth) = SubSeq(d, 1, depth)
                /\ x = SubSeq(n, 1, depth + 1)
  BY <1>1, <1>d DEF Children, NameOf
<1>4. ASSUME NEW i \in 1 .. Len(members), NameOf(members, i) # <<>>
      PROVE  Valid(NameOf(members, i)) /\ NameOf(members, i) \in Seq(Nat)
             /\ Len(NameOf(members, i)) \in Nat /\ Len(NameOf(members, i)) >= 1
  BY <1>4, NameOfMember, ValidType
<1>5. ASSUME x \in Children(d)
      PROVE  Named(members, x) /\ split(x).dir = d
  <2>1. PICK i \in 1 .. Len(members) :
            LET n == NameOf(members, i)
            IN  /\ n # <<>> /\ Len(n) > depth /\ SubSeq(n, 1, depth) = SubSeq(d, 1, depth)
                /\ x = SubSeq(n, 1, depth + 1)
    BY <1>3, <1>5
  <2>2. PICK n \in Seq(Nat) : n = NameOf(members, i)
    BY <1>4, <2>1
  <2>3. /\ Len(n) \in Nat /\ n # <<>> /\ Len(n) > depth /\ x = SubSeq(n, 1, depth + 1)
        /\ SubSeq(n, 1, depth) = SubSeq(d, 1, depth)
    BY <2>1, <2>2, LenProperties
  <2>4. x \in Seq(Nat) /\ Len(x) = depth + 1 /\ \A j \in 1 .. depth + 1 : x[j] = n[j]
    <3>1. PICK k \in Nat : k = depth + 1 /\ k <= Len(n)
      BY <1>2, <2>3
    <3>2. x = SubSeq(n, 1, k)
      BY <2>3, <3>1
    <3>3. /\ SubSeq(n, 1, k) \in Seq(Nat) /\ Len(SubSeq(n, 1, k)) = k
          /\ \A j \in 1 .. k : SubSeq(n, 1, k)[j] = n[j]
      BY <2>3, <3>1, SMT
    <3> QED BY <3>1, <3>2, <3>3
  <2>5. Named(members, x)
    <3>1. CASE depth + 1 = Len(n)
      <4>1. x = n
        BY <2>4, <3>1, SeqEqual
      <4> QED BY <2>2, <2>3, <4>1 DEF Named
    <3>2. CASE depth + 1 # Len(n)
      <4>1. depth + 1 \in 1 .. Len(n) - 1
        BY <1>2, <2>3, <3>2
      <4>2. x \in Parents(n)
        BY <2>3, <4>1 DEF Parents
      <4> QED BY <2>2, <2>3, <4>2 DEF Named
    <3> QED BY <3>1, <3>2
  <2>6. x # <<>>
    BY <1>2, <2>4, EmptySeq
  <2>7. CASE d = Root
    <3>1. Len(x) = 1
      BY <1>d, <2>4, <2>7
    <3> QED BY <2>4, <2>5, <2>6, <2>7, <3>1, SplitParts
  <2>8. CASE d # Root
    <3>1. depth = Len(d) /\ Len(x) # 1 /\ Len(x) - 1 = Len(d)
      BY <1>2, <1>d, <2>4, <2>8
    <3>2. \A j \in 1 .. Len(d) : n[j] = d[j]
      <4>1. PICK k \in Nat : k = Len(d) /\ k <= Len(n)
        BY <1>2, <2>3, <3>1
      <4>2. SubSeq(n, 1, k) = SubSeq(d, 1, k)
        BY <2>3, <3>1, <4>1
      <4>3. \A j \in 1 .. k : SubSeq(n, 1, k)[j] = n[j]
        BY <2>3, <4>1, SMT
      <4>4. \A j \in 1 .. k : SubSeq(d, 1, k)[j] = d[j]
        BY <4>1, SMT
      <4> QED BY <4>1, <4>2, <4>3, <4>4
    <3>3. split(x).dir \in Seq(Nat) /\ Len(split(x).dir) = Len(d)
          /\ \A j \in 1 .. Len(d) : split(x).dir[j] = x[j]
      <4>1. x \in Seq(Nat) /\ x # <<>> /\ Len(x) # 1
        BY <2>4, <2>6, <3>1
      <4>2. /\ split(x).dir \in Seq(Nat) /\ Len(split(x).dir) = Len(x) - 1
            /\ \A j \in 1 .. Len(x) - 1 : split(x).dir[j] = x[j]
        BY ONLY <4>1, SplitParts
      <4> QED BY <3>1, <4>2
    <3>4. \A j \in 1 .. Len(d) : j \in 1 .. depth + 1
      BY <1>2, <3>1
    <3>5. \A j \in 1 .. Len(d) : split(x).dir[j] = d[j]
      BY <2>4, <3>2, <3>3, <3>4
    <3>6. split(x).dir = d
      BY <3>3, <3>5, SeqEqual
    <3> QED BY <2>5, <3>6
  <2> QED BY <2>7, <2>8
<1>6. ASSUME Named(members, x), split(x).dir = d
      PROVE  x \in Children(d)
  <2>1. PICK i \in 1 .. Len(members) :
          /\ NameOf(members, i) # <<>>
          /\ x = NameOf(members, i) \/ x \in Parents(NameOf(members, i))
    BY <1>6 DEF Named
  <2>2. PICK n \in Seq(Nat) : n = NameOf(members, i) /\ Valid(n)
    BY <1>4, <2>1
  <2>3. Len(n) \in Nat /\ n # <<>> /\ Len(n) >= 1
    BY <2>2, ValidType
  <2>4. Valid(x) /\ x \in Seq(Nat) /\ x # <<>> /\ Len(x) \in Nat /\ Len(x) >= 1
    <3>1. Valid(x)
      BY <2>1, <2>2, ParentsValid DEF Valid
    <3> QED BY <3>1, ValidType
  <2>5. PICK k \in Nat : k >= 1 /\ k <= Len(n) /\ x = SubSeq(n, 1, k)
    <3>1. CASE x = n
      <4>1. PICK k \in Nat : k = Len(n)
        BY <2>3
      <4>2. /\ SubSeq(n, 1, k) \in Seq(Nat) /\ Len(SubSeq(n, 1, k)) = k
            /\ \A j \in 1 .. k : SubSeq(n, 1, k)[j] = n[j]
        BY <2>3, <4>1, SMT
      <4>3. SubSeq(n, 1, k) = n
        BY <4>1, <4>2, SeqEqual
      <4> QED BY <2>3, <3>1, <4>1, <4>3
    <3>2. CASE x \in Parents(n)
      <4>1. PICK k \in 1 .. (Len(n) - 1) : x = SubSeq(n, 1, k)
        BY <3>2 DEF Parents
      <4>2. k \in Nat /\ k >= 1 /\ k <= Len(n)
        BY <2>3
      <4> QED BY <4>1, <4>2
    <3> QED BY <2>1, <2>2, <3>1, <3>2
  <2>6. Len(x) = k /\ \A j \in 1 .. k : x[j] = n[j]
    BY <2>3, <2>5, SMT
  <2>7. depth = k - 1
    <3>1. CASE Len(x) = 1
      BY <1>6, <1>d, <2>4, <2>6, <3>1, SplitParts
    <3>2. CASE Len(x) # 1
      <4>1. Len(d) = k - 1 /\ \A j \in 1 .. k - 1 : d[j] = x[j]
        BY <1>6, <2>4, <2>6, <3>2, SplitParts
      <4>2. Plain(x)
        BY <2>4, <3>2, SpecialNames DEF Valid
      <4>3. 1 \in 1 .. k - 1 /\ 1 \in 1 .. k
        BY <2>5, <2>6, <3>2
      <4>4. d[1] # Dot
        BY <2>6, <4>1, <4>2, <4>3 DEF Plain
      <4>5. d # Root
        BY <4>4, SpecialNames
      <4> QED BY <1>d, <4>1, <4>5
    <3> QED BY <3>1, <3>2
  <2>8. SubSeq(n, 1, depth) = SubSeq(d, 1, depth)
    <3>1. depth <= Len(n) /\ depth <= Len(d)
      BY <1>2, <1>d, <2>3, <2>5, <2>7
    <3>2. \A j \in 1 .. depth : n[j] = d[j]
      <4>1. CASE Len(x) = 1
        <5>1. depth = 0
          BY <2>6, <2>7, <4>1
        <5> QED BY <5>1
      <4>2. CASE Len(x) # 1
        <5>1. \A j \in 1 .. k - 1 : d[j] = x[j]
          BY <1>6, <2>4, <2>6, <4>2, SplitParts
        <5>2. \A j \in 1 .. k - 1 : j \in 1 .. k
          BY <2>5
        <5> QED BY <2>6, <2>7, <5>1, <5>2
      <4> QED BY <4>1, <4>2
    <3>3. /\ SubSeq(n, 1, depth) \in Seq(Nat) /\ Len(SubSeq(n, 1, depth)) = depth
          /\ \A j \in 1 .. depth : SubSeq(n, 1, depth)[j] = n[j]
      BY <1>2, <2>3, <3>1, SMT
    <3>4. /\ SubSeq(d, 1, depth) \in Seq(Nat) /\ Len(SubSeq(d, 1, depth)) = depth
          /\ \A j \in 1 .. depth : SubSeq(d, 1, depth)[j] = d[j]
      BY <1>2, <3>1, SMT
    <3> QED BY <3>2, <3>3, <3>4, SeqEqual
  <2>9. Len(n) > depth /\ x = SubSeq(n, 1, depth + 1)
    BY <2>3, <2>5, <2>7
  <2> QED BY <1>3, <2>2, <2>3, <2>8, <2>9
<1> QED BY <1>5, <1>6

\* When ReadDir reports io.EOF, the pages held every child of the directory once,
\* whatever the members, the directory and the counts: the entries of the directory
\* are those openReadDir cut out of the sorted list, and the pages follow each other.
THEOREM DirectoriesComplete == Spec => []PagesComplete
<1>1. Inv /\ ViewInv => PagesComplete
  <2> SUFFICES ASSUME Inv, ViewInv PROVE PagesComplete
    OBVIOUS
  <2> DEFINE names == [ i \in DOMAIN dir.seen |-> dir.seen[i].name ]
  <2>1. PICK fs \in Seq(Entries), sn \in Seq(Entries), o \in Nat, l \in Nat :
          fs = dir.files /\ sn = dir.seen /\ o = dir.offset /\ l = Len(fs)
    <3>1. dir.files \in Seq(Entries) /\ dir.seen \in Seq(Entries) /\ dir.offset \in Nat
      BY DEF ViewInv, DirSoFar, OpenDirs
    <3> QED BY <3>1, LenProperties
  <2>2. o <= l /\ DOMAIN sn = 1 .. o /\ \A m \in 1 .. o : sn[m] = fs[m]
    <3>1. o <= l /\ Len(sn) = o /\ \A m \in 1 .. o : sn[m] = fs[m]
      BY <2>1 DEF ViewInv, DirSoFar
    <3> QED BY <3>1, LenProperties
  <2>3. \A m \in 1 .. o : m \in 1 .. l
    BY <2>2
  <2>4. DOMAIN names = 1 .. o /\ \A m \in 1 .. o : names[m] = fs[m].name
    BY <2>1, <2>2
  <2>5. \A m, k \in 1 .. l : fs[m].name = fs[k].name => m = k
    <3>1. CASE dir = NoDir
      BY <2>1, <3>1, NoDirType
    <3>2. CASE dir # NoDir
      BY <2>1, <3>2 DEF ViewInv, ListsDir
    <3> QED BY <3>1, <3>2
  <2>6. PICK ns : ns = names
    OBVIOUS
  <2> HIDE DEF names
  <2>7. IsInjective(ns)
    BY <2>3, <2>4, <2>5, <2>6 DEF IsInjective
  <2>8. ASSUME dir.eof PROVE ToSet(ns) = Children(dir.name)
    <3>1. PICK d \in Seq(Nat) : d = dir.name
      BY DEF ViewInv, DirSoFar, OpenDirs
    <3>2. PICK list \in Seq(Entries) : list = fileList
      BY <2>8 DEF ViewInv, DirSoFar, FileListOf
    <3>3. o = l /\ ListsDir(fs, list, d) /\ ValidPath(d) /\ FileListOf(list, disk.members)
      BY <2>1, <2>8, <3>1, <3>2 DEF ViewInv, DirSoFar
    <3>4. d # <<>>
      BY <3>3, SpecialNames DEF ValidPath
    <3>5. disk.members \in Seq(Members)
      BY ScenariosAssumption DEF Inv
    <3>6. \A x : x \in Children(d) <=> Named(disk.members, x) /\ split(x).dir = d
      BY <3>4, <3>5, ChildrenAre
    <3>7. \A x : x \in ToSet(ns) <=> \E m \in 1 .. l : x = fs[m].name
      BY <2>4, <2>6, <3>3 DEF ToSet
    <3>8. ASSUME NEW m \in 1 .. l PROVE fs[m].name \in Children(d)
      <4>1. PICK k \in 1 .. Len(list) : fs[m] = list[k] /\ split(list[k].name).dir = d
        BY <2>1, <3>3 DEF ListsDir
      <4>2. Named(disk.members, list[k].name)
        BY <3>3 DEF FileListOf
      <4> QED BY <3>6, <4>1, <4>2
    <3>9. ASSUME NEW x \in Children(d) PROVE \E m \in 1 .. l : x = fs[m].name
      <4>1. Named(disk.members, x) /\ split(x).dir = d
        BY <3>6
      <4>2. PICK k \in 1 .. Len(list) : list[k].name = x
        BY <3>3, <4>1 DEF FileListOf
      <4>3. PICK m \in 1 .. l : fs[m] = list[k]
        BY <2>1, <3>3, <4>1, <4>2 DEF ListsDir
      <4> QED BY <4>2, <4>3
    <3>10. \A x : x \in ToSet(ns) <=> x \in Children(d)
      BY <3>7, <3>8, <3>9
    <3> QED BY <3>1, <3>10
  <2> QED BY <2>6, <2>7, <2>8 DEF PagesComplete, names
<1> QED BY <1>1, ViewInvariance, PTL

\* A name is put together again from its directory and its last element.
LEMMA JoinSplit ==
    ASSUME NEW n, Plain(n)
    PROVE  Join(split(n).dir, split(n).elem) = n
<1>1. n \in Seq(Nat) /\ n # <<>> /\ Len(n) \in Nat /\ Len(n) >= 1
  BY ValidType DEF Valid
<1>2. PICK d \in Seq(Nat), e \in Nat : d = split(n).dir /\ e = split(n).elem /\ e = n[Len(n)]
  BY <1>1, SplitParts
<1>3. CASE Len(n) = 1
  <2>1. d = Root
    BY <1>1, <1>2, <1>3, SplitParts
  <2>2. Join(d, e) = <<e>>
    <3>1. CleanStep(<<>>, e, FALSE) = <<e>>
      <4>1. e # Dot /\ e # DotDot
        <5>1. 1 \in 1 .. Len(n)
          BY <1>1
        <5> QED BY <1>2, <1>3, <5>1 DEF Plain
      <4>2. CleanStep(<<>>, e, FALSE) = Append(<<>>, e)
        BY <4>1 DEF CleanStep
      <4>3. Append(<<>>, e) = <<e>>
        BY <1>2
      <4> QED BY <4>2, <4>3
    <3>2. <<e>> # <<>>
      OBVIOUS
    <3> QED BY <2>1, <3>1, <3>2 DEF Join
  <2>3. <<e>> \in Seq(Nat) /\ Len(<<e>>) = 1 /\ <<e>>[1] = e
    OBVIOUS
  <2>4. \A i \in 1 .. 1 : i = 1
    OBVIOUS
  <2>5. \A i \in 1 .. 1 : <<e>>[i] = n[i]
    BY <1>2, <1>3, <2>3, <2>4
  <2>6. <<e>> = n
    BY <1>1, <1>3, <2>3, <2>5, SeqEqual
  <2> QED BY <1>2, <2>2, <2>6
<1>4. CASE Len(n) # 1
  <2>1. PICK k \in Nat : k = Len(n) - 1 /\ k >= 1 /\ Len(n) = k + 1
    <3>1. PICK l \in Nat : l = Len(n)
      BY <1>1
    <3>2. l - 1 \in Nat /\ l - 1 >= 1 /\ l = (l - 1) + 1
      <4>1. l >= 1 /\ l # 1
        BY <1>1, <1>4, <3>1
      <4> QED BY ONLY <4>1, l \in Nat
    <3> QED BY <3>1, <3>2
  <2>2. Len(d) = k /\ \A i \in 1 .. k : d[i] = n[i]
    BY <1>1, <1>2, <1>4, <2>1, SplitParts
  <2>3. d # Root
    <3>1. 1 \in 1 .. k /\ 1 \in 1 .. Len(n)
      BY <2>1
    <3>2. d[1] # Dot
      BY <2>2, <3>1 DEF Plain
    <3> QED BY <3>2, SpecialNames
  <2>4. Join(d, e) = Append(d, e)
    <3>1. e # Dot /\ e # DotDot
      <4>1. Len(n) \in 1 .. Len(n)
        BY <1>1
      <4> QED BY <1>2, <4>1 DEF Plain
    <3>2. CleanStep(d, e, FALSE) = Append(d, e)
      BY <3>1 DEF CleanStep
    <3>3. Append(d, e) # <<>>
      BY <1>2, AppendProperties, EmptySeq
    <3> QED BY <2>3, <3>2, <3>3 DEF Join
  <2>5. /\ Append(d, e) \in Seq(Nat) /\ Len(Append(d, e)) = k + 1
        /\ Append(d, e)[k + 1] = e /\ \A i \in 1 .. k : Append(d, e)[i] = d[i]
    BY <2>2, AppendProperties
  <2>6. ASSUME NEW i \in 1 .. k + 1 PROVE Append(d, e)[i] = n[i]
    <3>1. CASE i = k + 1
      BY <1>2, <2>1, <2>5, <3>1
    <3>2. CASE i # k + 1
      <4>1. i \in 1 .. k
        BY <3>2
      <4> QED BY <2>2, <2>5, <4>1
    <3> QED BY <3>1, <3>2
  <2>7. Append(d, e) = n
    BY <1>1, <2>1, <2>5, <2>6, SeqEqual
  <2> QED BY <1>2, <2>4, <2>7
<1> QED BY <1>3, <1>4

\* What ReadDir listed can be opened by the name WalkDir makes of it, as the kind it
\* was listed as, for every archive; the exceptions are those of Excepted and Misnamed.
THEOREM ListedCanBeOpened == Spec => []ListedOpens
<1>1. Inv /\ ViewInv => ListedOpens
  <2> SUFFICES ASSUME Inv, ViewInv, NEW i \in DOMAIN dir.seen,
                      ~Excepted(dir.seen[i]), ~Misnamed(dir.seen[i])
               PROVE  OpensListed(dir.seen[i])
    BY DEF ListedOpens
  <2>1. PICK e \in Entries : e = dir.seen[i] /\ ~Excepted(e) /\ ~Misnamed(e)
    <3>1. dir.seen \in Seq(Entries)
      BY DEF ViewInv, DirSoFar, OpenDirs
    <3>2. dir.seen[i] \in Entries
      BY <3>1, LenProperties, ElementOfSeq
    <3> QED BY <3>2
  <2>2. dir # NoDir /\ \E m \in 1 .. Len(dir.files) : e = dir.files[m]
    <3>1. dir.seen \in Seq(Entries) /\ dir.files \in Seq(Entries) /\ dir.offset \in Nat
      BY DEF ViewInv, DirSoFar, OpenDirs
    <3>2. Len(dir.seen) = dir.offset /\ dir.offset <= Len(dir.files) /\ Len(dir.files) \in Nat
      BY <3>1, LenProperties DEF ViewInv, DirSoFar
    <3>3. i \in 1 .. dir.offset
      BY <3>1, <3>2, LenProperties
    <3>4. e = dir.files[i]
      BY <2>1, <3>3 DEF ViewInv, DirSoFar
    <3>5. i \in 1 .. Len(dir.files)
      BY <3>1, <3>2, <3>3
    <3>6. dir # NoDir
      BY <3>1, <3>2, <3>3, NoDirType
    <3> QED BY <3>4, <3>5, <3>6
  <2>3. PICK list : list = fileList /\ FileListOf(list, disk.members)
    BY <2>2 DEF ViewInv
  <2>4. PICK k \in 1 .. Len(list) : e = list[k] /\ split(list[k].name).dir = dir.name
    BY <2>2, <2>3 DEF ViewInv, ListsDir
  <2>5. Valid(e.name) /\ (e.file \in 1 .. Len(disk.members) \/ (e.isDir /\ Plain(e.name)))
    BY <2>3, <2>4 DEF FileListOf
  <2>6. Plain(e.name)
    <3>1. CASE e.file \in 1 .. Len(disk.members)
      <4>1. e.file # NoMember
        BY <3>1 DEF NoMember
      <4>2. e.name \notin {Root, <<DotDot>>}
        BY <2>1, <4>1 DEF Excepted
      <4> QED BY <2>5, <4>2 DEF Valid
    <3>2. CASE e.isDir /\ Plain(e.name)
      BY <3>2
    <3> QED BY <2>5, <3>1, <3>2
  <2>7. Join(dir.name, DirEntryName(e)) = e.name
    <3>1. DirEntryName(e) = split(e.name).elem
      BY <2>1 DEF Misnamed, DirEntryName
    <3> QED BY <2>4, <2>6, <3>1, JoinSplit
  <2>8. e.name \in Seq(Nat) /\ e.name # <<>> /\ DOMAIN e.name = 1 .. Len(e.name) /\ e.name # Root
    <3>1. e.name \in Seq(Nat) /\ e.name # <<>> /\ Len(e.name) \in Nat /\ Len(e.name) >= 1
      BY <2>5, ValidType
    <3>2. e.name[1] # Dot
      <4>1. 1 \in 1 .. Len(e.name)
        BY <3>1
      <4> QED BY <2>6, <4>1 DEF Plain
    <3> QED BY <3>1, <3>2, LenProperties, SpecialNames
  <2>9. ValidPath(e.name)
    BY <2>6, <2>8 DEF ValidPath, Plain
  <2>10. openLookup(list, e.name) = {e}
    <3>1. openLookup(list, e.name) = { x \in ToSet(list) : x.name = e.name }
      BY <2>3, <2>8, LookupIs
    <3>2. /\ DOMAIN list = 1 .. Len(list)
          /\ \A a, b \in 1 .. Len(list) : list[a].name = list[b].name => a = b
      BY <2>3, FileListNames
    <3>3. \A x : x \in ToSet(list) /\ x.name = e.name <=> x = e
      BY <2>4, <3>2 DEF ToSet
    <3> QED BY <3>1, <3>3
  <2>11. Outcome(e.name, {e}) = IF e.isDir THEN "dir" ELSE "file"
    <3>1. {e} # {} /\ (\E x \in {e} : x.isDir) = e.isDir
      BY DEF Entries
    <3>2. ~e.isDir => ~disk.members[e.file].empty
      BY <2>1 DEF Excepted
    <3>3. CASE e.isDir
      BY <2>9, <3>3 DEF Outcome
    <3>4. CASE ~e.isDir
      BY <2>9, <3>2, <3>4 DEF Outcome
    <3> QED BY <3>3, <3>4
  <2> QED BY <2>1, <2>3, <2>7, <2>10, <2>11 DEF OpenOutcome, OpensListed
<1> QED BY <1>1, ViewInvariance, PTL
=============================================================================
