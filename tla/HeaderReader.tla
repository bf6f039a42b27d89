---------------------------- MODULE HeaderReader ----------------------------
(***************************************************************************)
(* Decoding a header: types.go.                                            *)
(*                                                                         *)
(* A parser takes the tokens that are left and returns a result: ok, the   *)
(* value v and the tokens left after it.  The first error ends the parse.  *)
(***************************************************************************)
EXTENDS HeaderFormat, Layout

Fail == [ok |-> FALSE, v |-> <<>>, rest |-> <<>>]
Ret(v, s) == [ok |-> TRUE, v |-> v, rest |-> s]
Bind(r, F(_, _)) == IF r.ok THEN F(r.v, r.rest) ELSE Fail
Require(b, r) == IF b THEN r ELSE Fail

\* ReadByte, and binary.Read of a scalar.
Num(s) == IF s = <<>> THEN Fail ELSE Ret(Head(s), Tail(s))

\* n bytes at once (io.ReadFull; io.CopyN to io.Discard).
Take(n, s) == IF n > Len(s) THEN Fail ELSE Ret(SubSeq(s, 1, n), SubSeq(s, n + 1, Len(s)))

\* readUint64: as many bytes follow as the first has leading ones, lowest first; the
\* rest of the first byte is shifted above them, unless nothing is left of it.
ReadUint64(s) ==
    Bind(Num(s), LAMBDA b, s1 :
    LET l == Max({k \in 0 .. NumberBits : b >= 2 ^ NumberBits - 2 ^ (NumberBits - k)})
        high == IF l < NumberBits - 1 THEN b % 2 ^ (NumberBits - l) ELSE 0
    IN  Bind(Take(l, s1), LAMBDA low, s2 :
        Ret(high * 2 ^ (NumberBits * l)
            + MapThenSumSet(LAMBDA i : low[i] * 2 ^ (NumberBits * (i - 1)), 1 .. l), s2)))

Expect(id, s) == IF s # <<>> /\ Head(s) = id THEN Ret(id, Tail(s)) ELSE Fail

\* A section that is there if its id comes next, read by P; default otherwise.
Section(id, s, P(_), default) ==
    IF s # <<>> /\ Head(s) = id THEN P(Tail(s)) ELSE Ret(default, s)

\* P for every element of xs in turn, the results in a sequence.
ForEach(xs, s, P(_, _)) ==
    FoldLeft(LAMBDA acc, x : Bind(acc, LAMBDA vs, s1 :
                             Bind(P(x, s1), LAMBDA v, s2 : Ret(Append(vs, v), s2))),
             Ret(<<>>, s), xs)

Times(n, s, P(_)) == ForEach([i \in 1 .. n |-> i], s, LAMBDA i, t : P(t))

\* checkUint64
CheckUint64(v, nonZero) == v <= MaxCount /\ (nonZero => v # 0)

ReadUint64Bounded(s, nonZero) ==
    Bind(ReadUint64(s), LAMBDA v, s1 : Require(CheckUint64(v, nonZero), Ret(v, s1)))

ReadBool(s, count) ==
    Require(CheckUint64(count, TRUE),
        Bind(Take((count + ByteBits - 1) \div ByteBits, s), LAMBDA bytes, s1 :
        Ret([i \in 1 .. count |->
                Bit(bytes[(i - 1) \div ByteBits + 1], ByteBits - 1 - ((i - 1) % ByteBits))], s1)))

ReadOptionalBool(s, count) ==
    Require(CheckUint64(count, TRUE),
        Bind(Num(s), LAMBDA all, s1 :
        IF all = 0 THEN ReadBool(s1, count) ELSE Ret([i \in 1 .. count |-> TRUE], s1)))

ReadSizes(s, count) == Require(CheckUint64(count, TRUE), Times(count, s, ReadUint64))

\* One value for each defined entry, 0 for the others.
ReadDefined(s, defined) ==
    ForEach(defined, s, LAMBDA d, t : IF d THEN Num(t) ELSE Ret(0, t))

ReadCRC(s, count) == Bind(ReadOptionalBool(s, count), LAMBDA d, s1 : ReadDefined(s1, d))

ReadPackInfo(s) ==
    Bind(ReadUint64(s), LAMBDA position, s1 :
    Bind(ReadUint64Bounded(s1, TRUE), LAMBDA streams, s2 :
    Bind(Section(idSize, s2, LAMBDA t : ReadSizes(t, streams), <<>>), LAMBDA size, s3 :
    Bind(Section(idCRC, s3, LAMBDA t : ReadCRC(t, streams), <<>>), LAMBDA digest, s4 :
    Bind(Expect(idEnd, s4), LAMBDA e, s5 :
    Ret([position |-> position, streams |-> streams, size |-> size, digest |-> digest], s5))))))

ReadCoder(s) ==
    Bind(Num(s), LAMBDA v, s1 :
    Bind(Take(v % 16, s1), LAMBDA id, s2 :
    Bind(IF Bit(v, 4) THEN Times(2, s2, LAMBDA t : ReadUint64Bounded(t, TRUE))
                      ELSE Ret(<<1, 1>>, s2), LAMBDA io, s3 :
    Bind(IF Bit(v, 5) THEN Bind(ReadUint64Bounded(s3, TRUE), LAMBDA n, t : Take(n, t))
                      ELSE Ret(<<>>, s3), LAMBDA properties, s4 :
    Ret([id |-> id, in |-> io[1], out |-> io[2], properties |-> properties], s4)))))

ReadBindPair(s) ==
    Bind(Times(2, s, LAMBDA t : ReadUint64Bounded(t, FALSE)), LAMBDA p, s1 :
    Ret([in |-> p[1], out |-> p[2]], s1))

\* The inputs no bind pair feeds, in order: the packed streams if there is only one.
UnboundInputs(in, bindPair) ==
    SelectSeq([i \in 1 .. in |-> i - 1],
              LAMBDA i : \A p \in DOMAIN bindPair : bindPair[p].in # i)

ReadFolder(s) ==
    Bind(ReadUint64Bounded(s, TRUE), LAMBDA coders, s1 :
    Bind(Times(coders, s1, ReadCoder), LAMBDA coder, s2 :
    LET in  == SumSeq([i \in DOMAIN coder |-> coder[i].in])
        out == SumSeq([i \in DOMAIN coder |-> coder[i].out])
        packedStreams == in - (out - 1)
    IN  Require(CheckUint64(in, TRUE) /\ CheckUint64(out, TRUE) /\ in >= out,
            Bind(Times(out - 1, s2, ReadBindPair), LAMBDA bindPair, s3 :
            Bind(IF packedStreams = 1 THEN Ret(UnboundInputs(in, bindPair), s3)
                 ELSE Times(packedStreams, s3, ReadUint64), LAMBDA packed, s4 :
            Ret([in |-> in, out |-> out, packedStreams |-> packedStreams, coder |-> coder,
                 bindPair |-> bindPair, packed |-> packed, size |-> <<>>], s4))))))

\* The folders, their sizes in a second pass, their digests.
ReadUnpackInfo(s) ==
    Bind(Expect(idFolder, s), LAMBDA e, s1 :
    Bind(ReadUint64Bounded(s1, TRUE), LAMBDA folders, s2 :
    Bind(Expect(0, s2), LAMBDA external, s3 :
    Bind(Times(folders, s3, ReadFolder), LAMBDA folder, s4 :
    Bind(Expect(idCodersUnpackSize, s4), LAMBDA f, s5 :
    Bind(ForEach(folder, s5, LAMBDA fo, t : Times(fo.out, t, ReadUint64)), LAMBDA size, s6 :
    Bind(Section(idCRC, s6, LAMBDA t : ReadCRC(t, folders), <<>>), LAMBDA digest, s7 :
    Bind(Expect(idEnd, s7), LAMBDA g, s8 :
    Ret([folder |-> [i \in DOMAIN folder |-> [folder[i] EXCEPT !.size = size[i]]],
         digest |-> digest], s8)))))))))

\* folder.unpackSize: the size of the last output no bind pair consumes.
UnpackSize(f) ==
    LET unbound == {i \in DOMAIN f.size : \A p \in DOMAIN f.bindPair : f.bindPair[p].out # i - 1}
    IN  IF f.size = <<>> THEN 0
        ELSE f.size[IF unbound # {} THEN Max(unbound) ELSE Len(f.size)]

\* Mutant: the last file of a folder gets the folder's whole size.
FolderFileSizesWhole(f, streams, s) ==
    IF streams = 0 THEN Ret(<<>>, s)
    ELSE Bind(Times(streams - 1, s, ReadUint64), LAMBDA sizes, s1 :
         Ret(Append(sizes, UnpackSize(f)), s1))

\* The sizes of a folder's files: all but the last are stored, the last is what is
\* left of the folder, in uint64 arithmetic.
FolderFileSizes(f, streams, s) ==
    IF streams = 0 THEN Ret(<<>>, s)
    ELSE Bind(Times(streams - 1, s, ReadUint64), LAMBDA sizes, s1 :
         Ret(Append(sizes, (UnpackSize(f) - SumSeq(sizes)) % Word), s1))

ReadSubStreamsInfo(s, folder) ==
    Bind(Section(idNumUnpackStream, s, LAMBDA t : Times(Len(folder), t, ReadUint64),
                 [k \in DOMAIN folder |-> 1]), LAMBDA streams, s1 :
    LET files == SumSeq(streams)
    IN  Require(CheckUint64(files, FALSE),
            Bind(Section(idSize, s1, LAMBDA t :
                         ForEach([k \in DOMAIN folder |-> k], t, LAMBDA k, u :
                                 FolderFileSizes(folder[k], streams[k], u)), <<>>),
                 LAMBDA size, s2 :
            Bind(Section(idCRC, s2, LAMBDA t : ReadCRC(t, files), <<>>), LAMBDA digest, s3 :
            Bind(Expect(idEnd, s3), LAMBDA e, s4 :
            Ret([streams |-> streams, size |-> FlattenSeq(size), digest |-> digest], s4))))))

ReadStreamsInfo(s) ==
    Bind(Section(idPackInfo, s, ReadPackInfo, Nil), LAMBDA packInfo, s1 :
    Bind(Section(idUnpackInfo, s1, ReadUnpackInfo, Nil), LAMBDA unpackInfo, s2 :
    Bind(Section(idSubStreamsInfo, s2,
                 LAMBDA t : Require(unpackInfo # Nil, ReadSubStreamsInfo(t, unpackInfo.folder)),
                 Nil), LAMBDA subStreamsInfo, s3 :
    Bind(Expect(idEnd, s3), LAMBDA e, s4 :
    Ret([packInfo |-> packInfo, unpackInfo |-> unpackInfo,
         subStreamsInfo |-> subStreamsInfo], s4)))))

-----------------------------------------------------------------------------
(* The properties of the files.                                            *)

NewFileHeader == [name |-> <<>>, created |-> NoTime, accessed |-> NoTime, modified |-> NoTime,
                  attr |-> 0, crc |-> 0, size |-> 0, isEmptyStream |-> FALSE, isEmptyFile |-> FALSE]

\* A flag vector, "not external", a value for each flag set.
ReadOptionalValues(s, count) ==
    Bind(ReadOptionalBool(s, count), LAMBDA defined, s1 :
    Bind(Expect(0, s1), LAMBDA external, s2 :
    Bind(ReadDefined(s2, defined), LAMBDA vals, s3 :
    Ret([i \in 1 .. count |-> [set |-> defined[i], val |-> vals[i]]], s3))))

ReadTimes(s, count) ==
    Bind(ReadOptionalValues(s, count), LAMBDA vals, s1 :
    Ret([i \in 1 .. count |-> IF vals[i].set THEN (vals[i].val - Epoch) * Tick ELSE NoTime], s1))

ReadAttributes(s, count) ==
    Bind(ReadOptionalValues(s, count), LAMBDA vals, s1 : Ret([i \in 1 .. count |-> vals[i].val], s1))

\* splitNull: the pieces a zero ends, and the last piece if it is not empty.
SplitNull(s) ==
    LET nulls == SetToSortSeq({i \in DOMAIN s : s[i] = 0}, <)
        after(k) == IF k = 0 THEN 1 ELSE nulls[k] + 1
        tail == SubSeq(s, after(Len(nulls)), Len(s))
    IN  [k \in DOMAIN nulls |-> SubSeq(s, after(k - 1), nulls[k] - 1)]
        \o (IF tail = <<>> THEN <<>> ELSE <<tail>>)

\* length counts the "not external" byte; a short read only shows in the number of names.
ReadNames(s, count, length) ==
    Require(CheckUint64(count, TRUE),
        Bind(Expect(0, s), LAMBDA external, s1 :
        LET n     == Min({length - 1, Len(s1)})
            names == SplitNull(SubSeq(s1, 1, n))
        IN  Require(Len(names) = count, Ret(names, SubSeq(s1, n + 1, Len(s1))))))

\* readFilesInfo's isEmptyFile flags, one for each empty stream.
EmptyRank(files, i) == Count(SubSeq(files, 1, i), LAMBDA fh : fh.isEmptyStream)

\* One property of the files, its tokens read and its value stored.  f is the pair
\* of the files and emptyStreams.
ReadProperty(property, length, s, f) ==
    LET n == Len(f.file)
        set(r, Upd(_, _)) ==
            Bind(r, LAMBDA v, s1 :
                 Ret([f EXCEPT !.file = [i \in 1 .. n |-> Upd(f.file[i], v[i])]], s1))
    IN  CASE property = idEmptyStream ->
               Bind(set(ReadBool(s, n), LAMBDA fh, b : [fh EXCEPT !.isEmptyStream = b]),
                    LAMBDA g, s1 : Ret([g EXCEPT !.empty = @ + EmptyRank(g.file, n)], s1))
          [] property = idEmptyFile ->
               Bind(ReadBool(s, f.empty), LAMBDA v, s1 :
                    Ret([f EXCEPT !.file = [i \in 1 .. n |->
                            IF f.file[i].isEmptyStream
                            THEN [f.file[i] EXCEPT !.isEmptyFile = v[EmptyRank(f.file, i)]]
                            ELSE f.file[i]]], s1))
          [] property = idCTime -> set(ReadTimes(s, n), LAMBDA fh, t : [fh EXCEPT !.created = t])
          [] property = idATime -> set(ReadTimes(s, n), LAMBDA fh, t : [fh EXCEPT !.accessed = t])
          [] property = idMTime -> set(ReadTimes(s, n), LAMBDA fh, t : [fh EXCEPT !.modified = t])
          [] property = idName ->
               set(ReadNames(s, n, length), LAMBDA fh, x : [fh EXCEPT !.name = x])
          [] property = idWinAttributes ->
               set(ReadAttributes(s, n), LAMBDA fh, a : [fh EXCEPT !.attr = a])
          [] property = idDummy -> Bind(Take(length, s), LAMBDA x, s1 : Ret(f, s1))
          [] OTHER -> Fail

RECURSIVE ReadProperties(_, _)
ReadProperties(s, f) ==
    IF s # <<>> /\ Head(s) = idEnd THEN Ret(f.file, Tail(s))
    ELSE LET id     == Num(s)
             length == IF id.ok THEN ReadUint64(id.rest) ELSE Fail
             next   == IF length.ok THEN ReadProperty(id.v, length.v, length.rest, f) ELSE Fail
         IN  IF next.ok THEN ReadProperties(next.rest, next.v) ELSE Fail

ReadFilesInfo(s) ==
    Bind(ReadUint64Bounded(s, TRUE), LAMBDA n, s1 :
    Bind(ReadProperties(s1, [file |-> [i \in 1 .. n |-> NewFileHeader], empty |-> 0]),
         LAMBDA files, s2 : Ret([file |-> files], s2)))

-----------------------------------------------------------------------------
(* The header                                                              *)

\* The parts of a streamsInfo that place the files (see Layout).  Without
\* subStreamsInfo every file is the only one of the first folder.
LayoutOf(si) ==
    LET fo == si.unpackInfo.folder
    IN  [pack    |-> si.packInfo.size,
         packed  |-> [k \in DOMAIN fo |-> fo[k].packedStreams],
         unpack  |-> [k \in DOMAIN fo |-> fo[k].size[Len(fo[k].coder)]],
         streams |-> IF si.subStreamsInfo = Nil THEN <<1>> ELSE si.subStreamsInfo.streams,
         size    |-> IF si.subStreamsInfo = Nil THEN <<>> ELSE si.subStreamsInfo.size]

\* FileFolderAndSize's checksum: the folder's for the only file of a folder, if any.
FileCRC(si, j) ==
    LET k    == FileFolder(LayoutOf(si), j)
        only == LayoutOf(si).streams[k] = 1
    IN  IF only /\ si.unpackInfo.digest # <<>> THEN si.unpackInfo.digest[k]
        ELSE IF si.subStreamsInfo # Nil /\ si.subStreamsInfo.digest # <<>>
             THEN si.subStreamsInfo.digest[j]
             ELSE 0

\* How many of the first i files have a stream.
StreamRank(files, i) == Count(SubSeq(files, 1, i), LAMBDA fh : ~fh.isEmptyStream)

\* The sizes and checksums of the files with a stream.
WithSizes(files, si) ==
    [i \in DOMAIN files |->
        LET j == StreamRank(files, i)
        IN  IF files[i].isEmptyStream THEN files[i]
            ELSE [files[i] EXCEPT !.size = FileSize(LayoutOf(si), j), !.crc = FileCRC(si, j)]]

ReadHeader(s) ==
    Bind(Section(idMainStreamsInfo, s, ReadStreamsInfo, Nil), LAMBDA si, s1 :
    Bind(Section(idFilesInfo, s1, ReadFilesInfo, Nil), LAMBDA fi, s2 :
    Bind(Expect(idEnd, s2), LAMBDA e, s3 :
    Ret([streamsInfo |-> si,
         filesInfo |-> IF si = Nil \/ fi = Nil THEN fi
                       ELSE [file |-> WithSizes(fi.file, si)]], s3))))

ReadEncodedHeader(s) == Bind(Expect(idHeader, s), LAMBDA e, s1 : ReadHeader(s1))
=============================================================================
