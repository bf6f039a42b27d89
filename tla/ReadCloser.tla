----------------------------- MODULE ReadCloser -----------------------------
(***************************************************************************)
(* Opening an archive by name or from a reader, its volumes, the search    *)
(* for the signature, the fs.FS methods of Reader and Close (reader.go).   *)
(*                                                                         *)
(* A byte is one cell: the cells of Signature, GoodHeader for the rest of  *)
(* the signature header and a start header whose CRC matches (32 bytes in  *)
(* the code), anything else for other data.  The sizes of the search are   *)
(* parameters.  What Reader.init does behind the start header is module    *)
(* Archive's subject; here it succeeds or fails.                           *)
(***************************************************************************)
EXTENDS FileList

CONSTANTS
    Scenarios,     \* what may be on disk: volumes, name ending, members
    MaxVolume,     \* volumes are numbered 1 .. MaxVolume
    Signature,     \* the cells of the signature
    GoodHeader,    \* the cell behind a signature that starts an archive
    ChunkSize,     \* bytes the search advances by (4096)
    SearchLimit,   \* bytes the search covers (1 MiB), a multiple of ChunkSize
    Queries,       \* names given to Reader.Open
    Counts         \* counts given to ReadDir

ASSUME ChunkAssumption ==
    /\ ChunkSize \in Nat \ {0} /\ SearchLimit \in Nat \ {0}
    /\ SearchLimit % ChunkSize = 0
ASSUME SignatureAssumption == Signature \in Seq(Nat) /\ Len(Signature) > 0
ASSUME ScenariosAssumption ==
    \A s \in Scenarios :
        /\ DOMAIN s.volumes \subseteq 1 .. MaxVolume
        /\ \A v \in DOMAIN s.volumes : s.volumes[v] \in Seq(Nat)
        /\ s.members \in Seq(Members)
ASSUME MaxVolumeAssumption == MaxVolume \in Nat
ASSUME CallsAssumption == Queries \subseteq Seq(Nat) /\ Counts \subseteq Int

VARIABLES
    disk,      \* the scenario
    status,    \* where the call of OpenReader is, and what became of it
    handles,   \* what became of the file handle of each volume
    files,     \* openReader's files, later ReadCloser.f: volume numbers
    reader,    \* the cells behind Reader.r
    start,     \* where the archive starts in reader (Reader.start less 32)
    fileList,  \* Reader.fileList, <<>> until the first Open
    once,      \* Reader.fileListOnce
    dir        \* the open directory

vars == <<disk, status, handles, files, reader, start, fileList, once, dir>>
opening == <<status, handles, files, reader, start>>
view == <<fileList, once, dir>>

Volumes == 1 .. MaxVolume
NoDir == [name |-> <<>>, files |-> <<>>, offset |-> 0, seen |-> <<>>, eof |-> FALSE]
NoStart == -1

Init ==
    /\ disk \in Scenarios
    /\ status = "idle"
    /\ handles = [ v \in Volumes |-> "none" ]
    /\ files = <<>>
    /\ reader = <<>>
    /\ start = NoStart
    /\ fileList = <<>>
    /\ once = FALSE
    /\ dir = NoDir
-----------------------------------------------------------------------------
(* openReader *)

\* Close of every file of fs; closing one twice shows in its state.
Closed(hs, fs) ==
    [ v \in Volumes |->
        IF \E i \in DOMAIN fs : fs[i] = v
        THEN IF hs[v] = "open" THEN "closed" ELSE "twice"
        ELSE hs[v] ]

Opened(v) == [handles EXCEPT ![v] = "open"]

\* The first file cannot be opened.
OpenFails ==
    /\ status = "idle"
    /\ status' = "error"
    /\ UNCHANGED <<disk, handles, files, reader, start, view>>

\* The first file: opened, but Stat fails and closes it, or kept.
OpenFirst ==
    /\ status = "idle"
    /\ 1 \in DOMAIN disk.volumes
    /\ \/ /\ status' = "error"
          /\ handles' = Closed(Opened(1), <<1>>)
          /\ UNCHANGED files
       \/ /\ status' = IF disk.multi THEN "volumes" ELSE "init"
          /\ handles' = Opened(1)
          /\ files' = <<1>>
    /\ UNCHANGED <<disk, reader, start, view>>

\* Mutant: a volume is added to files only after its Stat.
VolumeFailsUnlisted ==
    /\ status = "volumes"
    /\ status' = "error"
    /\ \/ handles' = Closed(handles, files)
       \/ LET v == Len(files) + 1
          IN  /\ v \in DOMAIN disk.volumes
              /\ handles' = Closed(Opened(v), files)
    /\ UNCHANGED <<disk, files, reader, start, view>>

\* Volume n cannot be opened for another reason than that it does not exist, or
\* its Stat fails: everything opened so far is closed.
VolumeFails ==
    /\ status = "volumes"
    /\ status' = "error"
    /\ \/ handles' = Closed(handles, files)
       \/ LET v == Len(files) + 1
          IN  /\ v \in DOMAIN disk.volumes
              /\ handles' = Closed(Opened(v), Append(files, v))
    /\ UNCHANGED <<disk, files, reader, start, view>>

VolumeOpened ==
    /\ status = "volumes"
    /\ LET v == Len(files) + 1
       IN  /\ v \in DOMAIN disk.volumes
           /\ files' = Append(files, v)
           /\ handles' = Opened(v)
    /\ UNCHANGED <<disk, status, reader, start, view>>

\* The next volume does not exist: the volumes are complete.
VolumesEnd ==
    /\ status = "volumes"
    /\ Len(files) + 1 \notin DOMAIN disk.volumes
    /\ status' = "init"
    /\ UNCHANGED <<disk, handles, files, reader, start, view>>

\* NewMultiReaderAt over the section readers of the volumes.
MultiReader(fs) == FlattenSeq([ i \in DOMAIN fs |-> disk.volumes[fs[i]] ])
-----------------------------------------------------------------------------
(* findSignature and the candidate loop of init *)

\* Mutant: the chunks do not overlap.
ChunkEndExact(r, offset) == Min({offset + ChunkSize, Len(r)})

\* One behind the last byte ReadAt puts into the chunk at offset.
ChunkEnd(r, offset) == Min({offset + ChunkSize + Len(Signature), Len(r)})

\* Where Signature starts in the cells [from, to) of r.
Matches(r, from, to) ==
    { p \in from .. (to - Len(Signature)) :
        \A i \in DOMAIN Signature : r[p + i] = Signature[i] }

(***************************************************************************)
(* The offsets findSignature returns, in its order.  The chunk at offset   *)
(* is read past its end by the length of the signature, so the signature   *)
(* at the very border is found in both chunks.  A match at 0 ends the      *)
(* search, as does the chunk that meets the end of the reader.             *)
(***************************************************************************)
Offsets(r) ==
    LET Found(offset) ==
            LET matches == Matches(r, offset, ChunkEnd(r, offset))
            IN  InOrder(matches, { p \in matches \X matches : p[1] < p[2] })
        last == { o \in 0 .. SearchLimit :
                    o % ChunkSize = 0
                    /\ o + ChunkSize + Len(Signature) > Len(r) }
        end  == Min(last \cup {SearchLimit - ChunkSize})
    IN  IF 0 \in Matches(r, 0, ChunkEnd(r, 0)) THEN <<0>>
        ELSE FlattenSeq([ i \in 1 .. (end \div ChunkSize + 1) |-> Found((i - 1) * ChunkSize) ])

\* A candidate ends the loop when it cannot be read within size or its CRC matches.
Readable(p, size) == p + Len(Signature) < size
Good(r, p) == r[p + Len(Signature) + 1] = GoodHeader
EndsLoop(r, size, p) == ~Readable(p, size) \/ Good(r, p)

\* The candidate loop of init over the offsets o: its error, or "found" and where.
CandidateLoop(r, size, o) ==
    LET ends == { i \in DOMAIN o : EndsLoop(r, size, o[i]) }
        p    == o[Min(ends)]
    IN  CASE o = <<>> -> [status |-> "errFormat", at |-> NoStart]
          [] o # <<>> /\ ends = {} -> [status |-> "errChecksum", at |-> NoStart]
          [] OTHER -> IF Readable(p, size)
                      THEN [status |-> "found", at |-> p]
                      ELSE [status |-> "unexpectedEOF", at |-> NoStart]

Located(r, size) == CandidateLoop(r, size, Offsets(r))

(***************************************************************************)
(* OpenReaderWithPassword after openReader: init finds the archive and     *)
(* parses its header, or it fails, for what it found (the result of        *)
(* Located) or for a read error or a bad header ("error"); then every file *)
(* is closed.                                                              *)
(***************************************************************************)
InitReader ==
    /\ status = "init"
    /\ reader' = MultiReader(files)
    /\ \E result \in {Located(reader', Len(reader'))} :
        \/ /\ result.status = "found"
           /\ status' = "open"
           /\ start' = result.at
           /\ UNCHANGED handles
        \/ /\ status' \in {"error", result.status} \ {"found"}
           /\ handles' = Closed(handles, files)
           /\ UNCHANGED start
    /\ UNCHANGED <<disk, files, view>>

\* NewReaderWithPassword: the caller's reader, here the first volume, and the
\* size the caller says it has.  Nothing is opened, so nothing is closed.
NewReader ==
    /\ status = "idle"
    /\ 1 \in DOMAIN disk.volumes
    /\ reader' = disk.volumes[1]
    /\ \E size \in 0 .. Len(reader') :
        \E result \in {Located(reader', size)} :
            \/ /\ result.status = "found"
               /\ status' = "reading"
               /\ start' = result.at
            \/ /\ status' \in {"error", result.status} \ {"found"}
               /\ UNCHANGED start
    /\ UNCHANGED <<disk, handles, files, view>>

\* A negative size is refused before anything is read.
NewReaderNegative ==
    /\ status = "idle"
    /\ status' = "errNegativeSize"
    /\ UNCHANGED <<disk, handles, files, reader, start, view>>
-----------------------------------------------------------------------------
(* fs.FS *)

\* initFileList, under sync.Once.
FileList == IF once THEN fileList ELSE NewFileList(disk.members)

\* What Reader.Open makes of a name and the entry it looked up: an error, a
\* directory, a file, or the panic of the type assertion for a member without
\* data, which File.Open answers with an io.NopCloser.
Outcome(name, entry) ==
    CASE ~ValidPath(name) -> "ErrInvalid"
      [] ValidPath(name) /\ entry = {} -> "ErrNotExist"
      [] ValidPath(name) /\ (\E e \in entry : e.isDir) -> "dir"
      [] OTHER -> IF \E e \in entry : disk.members[e.file].empty THEN "panic" ELSE "file"

OpenOutcome(list, name) == Outcome(name, openLookup(list, name))

Usable == status \in {"open", "reading"}

\* Reader.Open.  A directory stays open for ReadDir; a file's reader is module
\* PooledReader's subject.
Open(name) ==
    /\ Usable
    /\ fileList' = FileList
    /\ once' = TRUE
    /\ dir' = IF OpenOutcome(fileList', name) = "dir"
              THEN [NoDir EXCEPT !.name = name, !.files = openReadDir(fileList', name)]
              ELSE dir
    /\ UNCHANGED <<disk, opening>>

\* Mutant: a short last page advances by the whole count.
PageWhole(count) == IF count > 0 THEN count ELSE Len(dir.files) - dir.offset

\* The number of entries ReadDir returns.
Page(count) ==
    LET n == Len(dir.files) - dir.offset
    IN  IF count > 0 THEN Min({n, count}) ELSE n

\* openDir.ReadDir: the next page; io.EOF behind the last one for a positive
\* count; an error, and no progress, when the page holds a duplicate.
ReadDir(count) ==
    /\ Usable /\ dir # NoDir
    /\ LET n    == Page(count)
           page == SubSeq(dir.files, dir.offset + 1, Min({dir.offset + n, Len(dir.files)}))
       IN  CASE n = 0 -> dir' = [dir EXCEPT !.eof = @ \/ count > 0]
             [] n > 0 /\ (\E i \in DOMAIN page : page[i].isDup) -> UNCHANGED dir
             [] OTHER -> dir' = [dir EXCEPT !.offset = @ + n, !.seen = @ \o page]
    /\ UNCHANGED <<disk, opening, fileList, once>>

\* ReadCloser.Close: the pools, then every file, whatever the others returned.
Close ==
    /\ status = "open"
    /\ status' = "closed"
    /\ handles' = Closed(handles, files)
    /\ UNCHANGED <<disk, files, reader, start, view>>

Next ==
    \/ OpenFails \/ OpenFirst
    \/ VolumeFails \/ VolumeOpened \/ VolumesEnd
    \/ InitReader
    \/ NewReader \/ NewReaderNegative
    \/ \E name \in Queries : Open(name)
    \/ \E count \in Counts : ReadDir(count)
    \/ Close

Spec == Init /\ [][Next]_vars
-----------------------------------------------------------------------------
(* Properties *)

Statuses == {"idle", "volumes", "init", "open", "reading", "closed", "error", "errFormat",
             "errChecksum", "unexpectedEOF", "errNegativeSize"}

(***************************************************************************)
(* The state is well-formed: files are the volumes from the first on, and  *)
(* an open directory's offset (openDir.offset) stays within its entries,   *)
(* or the next ReadDir would slice with a negative length.                 *)
(***************************************************************************)
TypeOK ==
    /\ status \in Statuses
    /\ \A v \in Volumes : handles[v] \in {"none", "open", "closed", "twice"}
    /\ files = [ i \in 1 .. Len(files) |-> i ] /\ Len(files) <= MaxVolume
    /\ start \in {NoStart} \cup 0 .. SearchLimit
    /\ once \in BOOLEAN
    /\ dir.offset \in 0 .. Len(dir.files)

\* The volumes OpenReader should open: the first file, and for ".001" each next
\* number up to the first that does not exist.
Wanted ==
    { v \in Volumes :
        /\ \A u \in 1 .. v : u \in DOMAIN disk.volumes
        /\ v = 1 \/ disk.multi }

(***************************************************************************)
(* However OpenReader and Close end, no file is closed twice, none stays   *)
(* open without a ReadCloser that owns it, and an open ReadCloser has all  *)
(* consecutive volumes (openReader, OpenReaderWithPassword, Close).        *)
(***************************************************************************)
HandlesClosed ==
    /\ \A v \in Volumes : handles[v] # "twice"
    /\ status \notin {"volumes", "init", "open"} => \A v \in Volumes : handles[v] # "open"
    /\ status = "open" => { v \in Volumes : handles[v] = "open" } = Wanted

(***************************************************************************)
(* The chunked search of findSignature and the candidate loop of init find *)
(* what a look at the whole reader finds: the archive starts at the first  *)
(* signature up to searchLimit whose start header matches, unless the      *)
(* reader begins with a signature, which must then be the one; the errors  *)
(* say why there is none.                                                  *)
(***************************************************************************)
FindsArchive ==
    LET all       == { p \in Matches(reader, 0, Len(reader)) : p <= SearchLimit }
        eligible  == IF 0 \in all THEN {0} ELSE all
        Starts(p) == Readable(p, Len(reader)) /\ Good(reader, p)
    IN  /\ Usable =>
            /\ start \in eligible /\ Starts(start)
            /\ \A p \in eligible : p < start => ~Starts(p)
        /\ status = "errFormat" => all = {}
        /\ status = "errChecksum" => eligible # {} /\ \A p \in eligible : ~Starts(p)
        /\ status = "unexpectedEOF" => eligible # {}

(***************************************************************************)
(* The binary search of openLookup returns the entry of a name exactly if  *)
(* the file list has one: the order it searches by is the order            *)
(* initFileList sorted by.                                                 *)
(***************************************************************************)
LookupAgrees ==
    once => \A name \in Queries \ {Root} :
                openLookup(fileList, name) = { e \in ToSet(fileList) : e.name = name }

\* The names directory d should list: every prefix of a member's name one element
\* longer than d.
Children(d) ==
    LET names == { toValidName(disk.members[i].name) : i \in DOMAIN disk.members } \ {<<>>}
        depth == IF d = Root THEN 0 ELSE Len(d)
    IN  { SubSeq(n, 1, depth + 1) : n \in
            { n \in names : Len(n) > depth /\ SubSeq(n, 1, depth) = SubSeq(d, 1, depth) } }

(***************************************************************************)
(* When ReadDir reports io.EOF, the pages it returned before held every    *)
(* child of the directory once: the members in it and the directories      *)
(* implied by members further down.                                        *)
(***************************************************************************)
PagesComplete ==
    LET names == [ i \in DOMAIN dir.seen |-> dir.seen[i].name ]
    IN  /\ IsInjective(names)
        /\ dir.eof => ToSet(names) = Children(dir.name)

\* DirEntry.Name of a listed entry: the base of the raw name for a file
\* (headerFileInfo), the last element of the list's name for a directory.
DirEntryName(e) ==
    IF e.isDir THEN split(e.name).elem ELSE Base(disk.members[e.file].name)

\* What Open makes of the path fs.WalkDir joins for an entry of the open directory.
OpensListed(e) ==
    OpenOutcome(fileList, Join(dir.name, DirEntryName(e))) = (IF e.isDir THEN "dir" ELSE "file")

\* Entries whose listing Open does not honour: a member called "." or "..", and
\* a file without data, for which Open panics.
Excepted(e) ==
    \/ e.name \in {Root, <<DotDot>>} /\ e.file # NoMember
    \/ ~e.isDir /\ disk.members[e.file].empty

\* Files whose raw name does not end, behind its last slash, in the last element of
\* its valid name: it has a backslash there, or "." or "..".
\* (A member a\b is the file a/b and listed in the directory a as "a\b"; a member a/b/..
\* is the file a and listed as "..".  Neither opens by the name it was listed by.)
Misnamed(e) == ~e.isDir /\ DirEntryName(e) # split(e.name).elem

(***************************************************************************)
(* What ReadDir listed can be opened by the name it was listed by, as the  *)
(* kind of file it was listed as (what fs.WalkDir relies on), with the     *)
(* exceptions above.                                                       *)
(***************************************************************************)
ListedOpens ==
    \A i \in DOMAIN dir.seen :
        LET e == dir.seen[i] IN Excepted(e) \/ Misnamed(e) \/ OpensListed(e)
=============================================================================
