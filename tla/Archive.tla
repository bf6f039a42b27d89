------------------------------ MODULE Archive ------------------------------
(***************************************************************************)
(* An archive from Writer.Close to Reader.init and back to the files: the  *)
(* header Close builds and writes in stages, the encoded header around it, *)
(* the order that makes an interrupted Close harmless, and what the reader *)
(* makes of the result.                                                    *)
(*                                                                         *)
(* One goroutine writes here, each file in one step; ArchiveWriter has the *)
(* interleavings.  The disk begins with the bytes NewWriter reserves, two  *)
(* tokens for the signatureHeader and three for the startHeader.  A member *)
(* may be an archive itself: its tokens are data like any other until the  *)
(* reader, searching for a signature, comes across them.                   *)
(***************************************************************************)
EXTENDS HeaderWriter, HeaderReader, FiniteSets

CONSTANTS FileHeaders,  \* FileHeaders given to CreateHeader
          Contents,     \* contents written to the files
          Options,      \* [solid, password]
          Passwords,    \* passwords given to the reader
          NoPassword,   \* the empty password
          Signature,    \* the token of the six bytes an archive begins with
          MaxFiles,     \* bound: CreateHeader calls
          MaxCutFiles   \* bound: files in an archive that gets truncated

ASSUME ArchiveAssumption ==
    /\ MaxFiles \in Nat /\ MaxCutFiles \in Nat
    /\ NoPassword \in Nat /\ Passwords \subseteq Nat
    /\ Signature \in 1 .. Word - 2
    /\ Options \subseteq [solid : BOOLEAN, password : Nat]

VARIABLES opt,    \* w.solid, w.password
          added,  \* w.files with their contents: [fh, data]
          pc,     \* where Writer.Close is; what happened to the archive since
          disk,   \* the tokens of the file
          local,  \* Close's local variables headerOffset and startHdr
          got     \* what NewReaderWithPassword returned: [ok, start, end, password, si, files]

vars == <<opt, added, pc, disk, local, got>>

\* signatureHeader: the signature and the checksum of the startHeader.
SigLen == 2
\* startHeader: offset, size and checksum of the header.
NoStart == <<0, 0, 0>>
Reserved == SigLen + Len(NoStart)
NotOpened == [ok |-> FALSE, start |-> 0, end |-> 0, password |-> 0, si |-> Nil, files |-> <<>>]

-----------------------------------------------------------------------------
(* Codecs outside the repository, as the code uses them.                   *)

\* CRC-32, 0 for no bytes: a hash of the halves.
RECURSIVE Checksum(_)
Checksum(s) ==
    LET m == Len(s) \div 2
    IN  CASE s = <<>>   -> 0
          [] Len(s) = 1 -> s[1] + 1
          [] OTHER      -> (31 * Checksum(SubSeq(s, 1, m)) + 17 * Checksum(SubSeq(s, m + 1, Len(s)))
                            + Len(s)) % 65521

\* LZMA2: a stream with an end mark; bytes after the mark are not looked at.  Data
\* that holds an archive is compressed already and goes into uncompressed chunks.
Stored == Word - 1
Compress(s) ==
    IF Signature \in ToSet(s) THEN <<Stored, Len(s)>> \o s \o <<0>>
    ELSE [i \in DOMAIN s |-> s[i] + 1] \o <<0>>
Decompress(s) ==
    LET marks == {i \in DOMAIN s : s[i] = 0}
    IN  IF Len(s) > 2 /\ s[1] = Stored
        THEN Bind(Take(s[2], SubSeq(s, 3, Len(s))), LAMBDA plain, e : Ret(plain, <<>>))
        ELSE IF marks = {} THEN Fail
        ELSE Ret([i \in 1 .. Min(marks) - 1 |-> s[i] - 1], <<>>)

\* AES-CBC with a key derived from password and salt.
Key(password, salt) == password * 7 + salt
Cipher(s, key) == [i \in DOMAIN s |-> (s[i] + key) % Word]
Block == 4
Salt == 3

\* aesWriter: the last block is padded with zeros.
Encrypt(s) ==
    LET pad == (Block - (Len(s) % Block)) % Block
    IN  Cipher(s \o [i \in 1 .. pad |-> 0], Key(opt.password, Salt))

-----------------------------------------------------------------------------
(* Writing                                                                 *)

Encrypts == opt.password # NoPassword

aesCoder == [id |-> <<6, 241, 7, 1>>, in |-> 1, out |-> 1, properties |-> <<Salt>>]
lzma2Coder == [id |-> <<33>>, in |-> 1, out |-> 1, properties |-> <<18>>]

\* What a folder's bytes become, and the folder that describes them.
Packed(plain) == IF Encrypts THEN Encrypt(Compress(plain)) ELSE Compress(plain)
FolderOf(plain) ==
    LET coder == IF Encrypts THEN <<aesCoder, lzma2Coder>> ELSE <<lzma2Coder>>
    IN  [in |-> Len(coder), out |-> Len(coder), packedStreams |-> 1, coder |-> coder,
         bindPair |-> IF Encrypts THEN <<[in |-> 1, out |-> 0]>> ELSE <<>>,
         packed |-> <<0>>,
         size |-> IF Encrypts THEN <<Len(Compress(plain)), Len(plain)>> ELSE <<Len(plain)>>]

\* w.folders: the files of each, all in one in the solid mode.
Folders(files) ==
    LET streams == SelectSeq(files, LAMBDA e : ~e.fh.isEmptyStream)
    IN  IF opt.solid /\ streams # <<>> THEN <<streams>>
        ELSE [k \in DOMAIN streams |-> <<streams[k]>>]

Plain(folder) == FlattenSeq([i \in DOMAIN folder |-> folder[i].data])

\* A streamsInfo over packed streams that begin at position.
StreamsInfoOf(position, plains, digest, subStreamsInfo) ==
    [packInfo |-> [position |-> position, streams |-> Len(plains), digest |-> <<>>,
                   size |-> [k \in DOMAIN plains |-> Len(Packed(plains[k]))]],
     unpackInfo |-> [folder |-> [k \in DOMAIN plains |-> FolderOf(plains[k])],
                     digest |-> digest],
     subStreamsInfo |-> subStreamsInfo]

\* The header Close builds.  There is always a subStreamsInfo, unless no file was added.
HeaderOf(files) ==
    LET fo     == Folders(files)
        stream == FlattenSeq(fo)
        sub    == [streams |-> [k \in DOMAIN fo |-> Len(fo[k])],
                   size    |-> [i \in DOMAIN stream |-> stream[i].fh.size],
                   digest  |-> [i \in DOMAIN stream |-> stream[i].fh.crc]]
    IN  IF files = <<>> THEN [streamsInfo |-> Nil, filesInfo |-> Nil]
        ELSE [streamsInfo |-> StreamsInfoOf(0, [k \in DOMAIN fo |-> Plain(fo[k])], <<>>, sub),
              filesInfo |-> [file |-> [i \in DOMAIN files |-> files[i].fh]]]

HeaderBytes == <<idHeader>> \o WriteHeader(HeaderOf(added))

\* The encoded header's own metadata.
MetadataBytes ==
    <<idEncodedHeader>>
    \o WriteStreamsInfo(StreamsInfoOf(local.headerOffset, <<HeaderBytes>>,
                                      <<Checksum(HeaderBytes)>>, Nil))

Init ==
    /\ opt \in Options
    /\ added = <<>>
    /\ pc = "open"
    /\ disk = [i \in 1 .. Reserved |-> 0]
    /\ local = [headerOffset |-> 0, startHdr |-> NoStart]
    /\ got = NotOpened

\* CreateHeader, Write and Close of one file.  In the solid mode the folder reaches
\* the disk when Writer.Close closes it.
Create(fh, data) ==
    LET dir   == IsDir(fh)
        entry == [fh   |-> [fh EXCEPT !.isEmptyStream = dir, !.isEmptyFile = FALSE,
                                      !.size = Len(data), !.crc = Checksum(data)],
                  data |-> data]
    IN  /\ pc = "open"
        /\ Len(added) < MaxFiles
        /\ dir => data = <<>>
        /\ added' = Append(added, entry)
        /\ disk' = IF dir \/ opt.solid THEN disk ELSE disk \o Packed(data)
        /\ UNCHANGED <<opt, pc, local, got>>

\* Writer.Close: the solid folder ...
CloseFolder ==
    /\ pc = "open"
    /\ pc' = "header"
    /\ disk' = IF opt.solid
               THEN disk \o FlattenSeq([k \in DOMAIN Folders(added) |->
                                            Packed(Plain(Folders(added)[k]))])
               ELSE disk
    /\ UNCHANGED <<opt, added, local, got>>

\* ... the packed header ...
CloseHeader ==
    /\ pc = "header"
    /\ pc' = "metadata"
    /\ local' = [local EXCEPT !.headerOffset = Len(disk) - Reserved]
    /\ disk' = disk \o Packed(HeaderBytes)
    /\ UNCHANGED <<opt, added, got>>

\* ... its metadata, at which the startHeader will point ...
CloseMetadata ==
    /\ pc = "metadata"
    /\ pc' = "signature"
    /\ local' = [local EXCEPT !.startHdr = <<Len(disk) - Reserved, Len(MetadataBytes),
                                             Checksum(MetadataBytes)>>]
    /\ disk' = disk \o MetadataBytes
    /\ UNCHANGED <<opt, added, got>>

\* What signatureHeader and the reader take the checksum of.
StartCRC(start) == Checksum(start)

\* ... and, back at the beginning, the two headers that make it an archive.
CloseSignature ==
    /\ pc = "signature"
    /\ pc' = "start"
    /\ disk' = <<Signature, StartCRC(local.startHdr)>> \o SubSeq(disk, SigLen + 1, Len(disk))
    /\ UNCHANGED <<opt, added, local, got>>

CloseStart ==
    /\ pc = "start"
    /\ pc' = "closed"
    /\ disk' = SubSeq(disk, 1, SigLen) \o local.startHdr \o SubSeq(disk, Reserved + 1, Len(disk))
    /\ UNCHANGED <<opt, added, local, got>>

\* The program dies, or Close returns an error, between two writes or, at the end of
\* the body, in the middle of one.
Crash ==
    /\ pc \in {"open", "header", "metadata", "signature", "start"}
    /\ pc' = "crashed"
    /\ \/ UNCHANGED disk
       \/ /\ pc = "signature" /\ Len(added) <= MaxCutFiles
          /\ \E n \in Reserved .. Len(disk) - 1 : disk' = SubSeq(disk, 1, n)
    /\ UNCHANGED <<opt, added, local, got>>

\* The tail of the archive is lost.
Truncate ==
    /\ pc = "closed"
    /\ Len(added) <= MaxCutFiles
    /\ pc' = "truncated"
    /\ \E n \in 0 .. Len(disk) - 1 : disk' = SubSeq(disk, 1, n)
    /\ UNCHANGED <<opt, added, local, got>>

-----------------------------------------------------------------------------
(* Reading                                                                 *)

\* A section of a stream, cut short where the stream ends.
SectionReader(data, offset, size) == SubSeq(data, offset + 1, Min({offset + size, Len(data)}))

\* coderReader: the registered decompressor, limited to the coder's size.
CoderReader(c, size, in, password) ==
    Bind(CASE c.id = lzma2Coder.id -> Decompress(in)
           [] c.id = aesCoder.id   -> Ret(Cipher(in, Word - Key(password, c.properties[1])), <<>>)
           [] OTHER                -> Fail,
         LAMBDA plain, e : Ret(SectionReader(plain, 0, size), <<>>))

\* The packed streams of folder k as inputs of its coders.
PackedInputs(si, data, k) ==
    LET f      == si.unpackInfo.folder[k]
        before == SumSeq([i \in 1 .. k - 1 |-> Len(si.unpackInfo.folder[i].packed)])
        start  == si.packInfo.position + FolderOffset(LayoutOf(si), k)
        size(i) == si.packInfo.size[before + i]
        stream(i) == SectionReader(data, start + MapThenSumSet(size, 1 .. i - 1), size(i))
    IN  [input \in ToSet(f.packed) |-> stream(Max({i \in DOMAIN f.packed : f.packed[i] = input}))]

\* folderReader: every coder reads packed streams and outputs of coders before it;
\* the folder's bytes are the only output that none reads.  (Coders with one input,
\* which is all the writer makes.)
FolderBytes(si, data, k, password) ==
    LET f  == si.unpackInfo.folder[k]
        in == PackedInputs(si, data, k)
        feeds(j)   == {f.bindPair[p].out : p \in {q \in DOMAIN f.bindPair : f.bindPair[q].in = j}}
        unbound(n) == {i \in 0 .. n - 1 : \A p \in DOMAIN f.bindPair : f.bindPair[p].out # i}
        coder(i, outs) ==
            LET j   == i - 1
                src == IF j \in DOMAIN in THEN in[j] ELSE outs[(CHOOSE o \in feeds(j) : TRUE) + 1]
            IN  Require(f.coder[i].in = 1 /\ f.coder[i].out = 1
                        /\ (j \in DOMAIN in \/ \E o \in feeds(j) : o < Len(outs)),
                        CoderReader(f.coder[i], f.size[i], src, password))
        all == FoldLeft(LAMBDA acc, i : Bind(acc, LAMBDA outs, e :
                            Bind(coder(i, outs), LAMBDA o, d : Ret(Append(outs, o), <<>>))),
                        Ret(<<>>, <<>>), [i \in DOMAIN f.coder |-> i])
    IN  Bind(all, LAMBDA outs, e :
            Require(Cardinality(unbound(f.out)) = 1, Ret(outs[Max(unbound(f.out)) + 1], <<>>)))

\* The header an encoded header's metadata leads to.  The checksum is of the bytes
\* the parser consumed.
DecodeHeader(si, data, password) ==
    Require(Len(si.unpackInfo.folder) = 1,
        Bind(FolderBytes(si, data, 1, password), LAMBDA bytes, e :
        Bind(ReadEncodedHeader(bytes), LAMBDA h, rest :
        LET crc == IF si.unpackInfo.digest # <<>> THEN si.unpackInfo.digest[1] ELSE 0
        IN  Require(crc # 0 => Checksum(SubSeq(bytes, 1, Len(bytes) - Len(rest))) = crc,
                    Ret(h, <<>>)))))

\* Mutant: a signature at the beginning does not end the search.
CandidatesAll(d) == { p \in 0 .. Len(d) - 1 : d[p + 1] = Signature }

\* findSignature: the offsets of signatures, all within searchLimit here; one at the
\* beginning is the only one.  ReadCloser has the search in chunks.
Candidates(d) ==
    LET all == { p \in 0 .. Len(d) - 1 : d[p + 1] = Signature }
    IN  IF 0 \in all THEN {0} ELSE all

\* The candidate loop of init: the first candidate that cannot be read or whose
\* startHeader has the checksum of its signatureHeader ends it.
Located(d) ==
    LET Readable(p) == p + Reserved <= Len(d)
        Start(p)    == SectionReader(d, p + SigLen, Reserved - SigLen)
        ends == { p \in Candidates(d) : Readable(p) => d[p + SigLen] = StartCRC(Start(p)) }
    IN  Require(ends # {},
            LET p == Min(ends)
            IN  Require(Readable(p), Ret([at |-> p + Reserved, hdr |-> Start(p)], <<>>)))

\* Reader.init of the file d: the header of the archive, and where its streams are.
InitHeader(d, password) ==
    Bind(Located(d), LAMBDA start, none :
    LET end  == start.at + start.hdr[1]
        data == SectionReader(d, start.at, start.hdr[1])
        meta == SectionReader(d, end, start.hdr[2])
        whole(v, rest) == Require(rest = <<>> /\ Checksum(meta) = start.hdr[3], Ret(v, rest))
    IN  Bind(Bind(Num(meta), LAMBDA id, s :
             CASE id = idHeader        -> Bind(ReadHeader(s), whole)
               [] id = idEncodedHeader -> Bind(Bind(ReadStreamsInfo(s), whole), LAMBDA si, e :
                                               DecodeHeader(si, data, password))
               [] OTHER                -> Fail),
        LAMBDA h, e : Ret([header |-> h, start |-> start.at, end |-> end], <<>>)))

\* The File entries: a directory's name gets its slash, a file with a stream its
\* folder and its offset in it.
FilesOf(h) ==
    IF h.filesInfo = Nil THEN <<>>
    ELSE LET files == h.filesInfo.file
             si    == LayoutOf(h.streamsInfo)
             name(fh) == IF IsDir(fh) /\ (fh.name = <<>> \/ Last(fh.name) # Slash)
                         THEN Append(fh.name, Slash) ELSE fh.name
             place(i) == LET j == StreamRank(files, i)
                         IN  IF files[i].isEmptyStream \/ files[i].isEmptyFile
                             THEN [folder |-> 0, offset |-> 0]
                             ELSE [folder |-> FileFolder(si, j), offset |-> FileOffset(si, j)]
         IN  [i \in DOMAIN files |->
                [fh |-> [files[i] EXCEPT !.name = name(files[i])], at |-> place(i)]]

Open(password) ==
    /\ pc \in {"closed", "crashed", "truncated"}
    /\ \E h \in {InitHeader(disk, password)} :
          got' = IF h.ok THEN [ok |-> TRUE, start |-> h.v.start, end |-> h.v.end,
                               password |-> password, si |-> h.v.header.streamsInfo,
                               files |-> FilesOf(h.v.header)]
                 ELSE [NotOpened EXCEPT !.password = password]
    /\ pc' = [closed |-> "opened", crashed |-> "damaged", truncated |-> "damaged"][pc]
    /\ UNCHANGED <<opt, added, disk, local>>

\* What reading file i to its end gives.
FileBytes(i) ==
    LET f == got.files[i]
        bytes == FolderBytes(got.si, SectionReader(disk, got.start, got.end - got.start), f.at.folder, got.password)
    IN  IF f.fh.isEmptyStream \/ ~bytes.ok THEN <<>>
        ELSE SectionReader(bytes.v, f.at.offset, f.fh.size)

-----------------------------------------------------------------------------
Next ==
    \/ \E fh \in FileHeaders, data \in Contents : Create(fh, data)
    \/ CloseFolder \/ CloseHeader \/ CloseMetadata \/ CloseSignature \/ CloseStart
    \/ Crash
    \/ Truncate
    \/ \E password \in Passwords : Open(password)

Spec == Init /\ [][Next]_vars

-----------------------------------------------------------------------------
(* Properties                                                              *)

RightPassword == opt.password \in {NoPassword, got.password}

\* What a FileHeader is after a round trip: times rounded down to a tick (the
\* smallest unit of a file time), a directory's name with its slash.
Rounded(t) == IF t = NoTime THEN NoTime ELSE (t \div Tick) * Tick
Restored(fh) ==
    [fh EXCEPT !.created = Rounded(@), !.accessed = Rounded(@), !.modified = Rounded(@),
               !.name = IF IsDir(fh) /\ (@ = <<>> \/ Last(@) # Slash) THEN Append(@, Slash) ELSE @]

\* What the reader lists is what was added, in the same order: names, times,
\* attributes, sizes and checksums; and every file reads as the bytes that were
\* written to it, in the solid and non-solid mode, encrypted or not.
Faithful ==
    pc = "opened" /\ got.ok =>
        /\ Len(got.files) = Len(added)
        /\ \A i \in DOMAIN added :
              /\ got.files[i].fh = Restored(added[i].fh)
              /\ FileBytes(i) = added[i].data

\* An archive Close finished opens with its password, if it has no file at all or a
\* file with a stream.
FinishedOpens ==
    pc = "opened" /\ RightPassword
    /\ (added = <<>> \/ \E i \in DOMAIN added : ~added[i].fh.isEmptyStream) => got.ok

\* A member, or the end of one behind other bytes, is an archive of these files.
IsMember(files, password) ==
    \E i \in DOMAIN added : \E n \in DOMAIN added[i].data :
        \E h \in {InitHeader(SubSeq(added[i].data, n, Len(added[i].data)), password)} :
            h.ok /\ FilesOf(h.v.header) = files

(***************************************************************************)
(* An archive whose Close was interrupted after any number of writes, one  *)
(* that lost its tail, and an encrypted one with a wrong password do not   *)
(* open as what they are.  As long as Close has not written the signature, *)
(* the reader searches the body and may find an archive that a member of   *)
(* an unencrypted one is: then that opens; once it has, nothing does.      *)
(***************************************************************************)
UnfinishedRejected ==
    /\ pc = "opened" /\ ~RightPassword => ~got.ok
    /\ pc = "damaged" /\ got.ok =>
          /\ disk[1] # Signature
          /\ ~Encrypts
          /\ IsMember(got.files, got.password)

\* Close "guarantees that parsers (including the underlying reader in this package)
\* can accurately map individual files" (writer.go:629): whatever was added, the
\* finished archive opens.
EveryFinishedOpens == pc = "opened" /\ RightPassword => got.ok
=============================================================================
