---------------------------- MODULE HeaderWriter ----------------------------
(* Encoding a header: write_types.go and write_struct.go.                  *)
EXTENDS HeaderFormat, FiniteSetsExt

Optional(present, tokens) == IF present THEN tokens ELSE <<>>

\* The values of vals whose flag in defined is set.
Only(vals, defined) ==
    FlattenSeq([i \in DOMAIN vals |-> Optional(defined[i], <<vals[i]>>)])

All(s) == [i \in DOMAIN s |-> TRUE]

\* writeUint64: l ones at the top of the first byte say that l bytes follow, lowest
\* first; the bits left in the first byte are the number's highest.
WriteUint64(v) ==
    LET l == Min({k \in 0 .. NumberBits :
                    k = NumberBits \/ v < 2 ^ ((NumberBits - 1) * (k + 1))})
    IN  <<(2 ^ NumberBits - 2 ^ (NumberBits - l)) + v \div 2 ^ (NumberBits * l)>>
        \o [i \in 1 .. l |-> (v \div 2 ^ (NumberBits * (i - 1))) % 2 ^ NumberBits]

WriteUint64s(vs) == FlattenSeq([i \in DOMAIN vs |-> WriteUint64(vs[i])])

\* Mutant: the last, partly filled byte is lost.
WriteBoolNoTail(flags) ==
    [b \in 1 .. Len(flags) \div ByteBits |->
        MapThenSumSet(LAMBDA i : 2 ^ (ByteBits - i),
                      {i \in 1 .. ByteBits : flags[(b - 1) * ByteBits + i]})]

\* The first flag of a byte is its highest bit; the last byte is padded.
WriteBool(flags) ==
    LET set(b, i) == (b - 1) * ByteBits + i \in {k \in DOMAIN flags : flags[k]}
    IN  [b \in 1 .. (Len(flags) + ByteBits - 1) \div ByteBits |->
            MapThenSumSet(LAMBDA i : 2 ^ (ByteBits - i), {i \in 1 .. ByteBits : set(b, i)})]

WriteOptionalBool(flags) ==
    IF \A i \in DOMAIN flags : flags[i] THEN <<1>> ELSE <<0>> \o WriteBool(flags)

WriteCRC(crcs, defined) == WriteOptionalBool(defined) \o Only(crcs, defined)

\* The digests section every part writes: all defined, absent if there are none.
WriteDigests(crcs) == Optional(crcs # <<>>, <<idCRC>> \o WriteCRC(crcs, All(crcs)))

WritePackInfo(p) ==
    WriteUint64s(<<p.position, p.streams>>)
    \o Optional(p.size # <<>>, <<idSize>> \o WriteUint64s(p.size))
    \o WriteDigests(p.digest)
    \o <<idEnd>>

\* The flags byte: the length of the id, 16 for stream counts, 32 for properties.
WriteCoder(c) ==
    LET complex == c.in # 1 \/ c.out # 1
        props   == c.properties # <<>>
    IN  <<(Len(c.id) % 16) + (IF complex THEN 16 ELSE 0) + (IF props THEN 32 ELSE 0)>>
        \o c.id
        \o Optional(complex, WriteUint64s(<<c.in, c.out>>))
        \o Optional(props, WriteUint64(Len(c.properties)) \o c.properties)

WriteFolder(f) ==
    WriteUint64(Len(f.coder))
    \o FlattenSeq([i \in DOMAIN f.coder |-> WriteCoder(f.coder[i])])
    \o FlattenSeq([i \in DOMAIN f.bindPair |->
                        WriteUint64s(<<f.bindPair[i].in, f.bindPair[i].out>>)])
    \o Optional(f.packedStreams > 1, WriteUint64s(f.packed))

WriteUnpackInfo(u) ==
    <<idFolder>> \o WriteUint64(Len(u.folder)) \o <<0>>
    \o FlattenSeq([i \in DOMAIN u.folder |-> WriteFolder(u.folder[i])])
    \o <<idCodersUnpackSize>>
    \o FlattenSeq([i \in DOMAIN u.folder |-> WriteUint64s(u.folder[i].size)])
    \o WriteDigests(u.digest)
    \o <<idEnd>>

\* The sizes of all files of a folder but its last.
LeadingSizes(s, k) ==
    LET before == SumSeq(SubSeq(s.streams, 1, k - 1))
    IN  SubSeq(s.size, before + 1, before + s.streams[k] - 1)

WriteSubStreamsInfo(s) ==
    Optional(\E k \in DOMAIN s.streams : s.streams[k] # 1,
             <<idNumUnpackStream>> \o WriteUint64s(s.streams))
    \o Optional(s.size # <<>> /\ \E k \in DOMAIN s.streams : s.streams[k] > 1,
                <<idSize>> \o FlattenSeq([k \in DOMAIN s.streams |->
                                                WriteUint64s(LeadingSizes(s, k))]))
    \o WriteDigests(s.digest)
    \o <<idEnd>>

WriteStreamsInfo(si) ==
    Optional(si.packInfo # Nil, <<idPackInfo>> \o WritePackInfo(si.packInfo))
    \o Optional(si.unpackInfo # Nil, <<idUnpackInfo>> \o WriteUnpackInfo(si.unpackInfo))
    \o Optional(si.subStreamsInfo # Nil,
                <<idSubStreamsInfo>> \o WriteSubStreamsInfo(si.subStreamsInfo))
    \o <<idEnd>>

\* timeToFiletime, which rounds down to a tick.
FiletimeOf(t) == IF t = NoTime THEN 0 ELSE t \div Tick + Epoch

\* A property of the files: its id, its length and its tokens.
Property(id, tokens) == <<id>> \o WriteUint64(Len(tokens)) \o tokens

\* writeTimeProp and the attributes of writeFilesInfo: the values other than zero,
\* unless all are zero, each as its code.  The 0 is "not external".
WriteNonZero(id, vals, codes) ==
    LET defined == [i \in DOMAIN vals |-> vals[i] # 0]
    IN  Optional(\E i \in DOMAIN vals : defined[i],
                 Property(id, WriteOptionalBool(defined) \o <<0>>
                              \o Only(codes, defined)))

WriteFilesInfo(files) ==
    LET each(F(_)) == [i \in DOMAIN files |-> F(files[i])]
        empty == SelectSeq(files, LAMBDA fh : fh.isEmptyStream)
        emptyFile == [i \in DOMAIN empty |-> empty[i].isEmptyFile]
    IN  WriteUint64(Len(files))
        \o Optional(empty # <<>>,
                    Property(idEmptyStream, WriteBool(each(LAMBDA fh : fh.isEmptyStream))))
        \o Optional(\E i \in DOMAIN empty : emptyFile[i],
                    Property(idEmptyFile, WriteBool(emptyFile)))
        \o WriteNonZero(idCTime, each(LAMBDA fh : fh.created),
                        each(LAMBDA fh : FiletimeOf(fh.created)))
        \o WriteNonZero(idATime, each(LAMBDA fh : fh.accessed),
                        each(LAMBDA fh : FiletimeOf(fh.accessed)))
        \o WriteNonZero(idMTime, each(LAMBDA fh : fh.modified),
                        each(LAMBDA fh : FiletimeOf(fh.modified)))
        \o Property(idName, <<0>> \o FlattenSeq(each(LAMBDA fh : fh.name \o <<0>>)))
        \o WriteNonZero(idWinAttributes, each(LAMBDA fh : fh.attr),
                        each(LAMBDA fh : fh.attr))
        \o <<idEnd>>

WriteHeader(h) ==
    Optional(h.streamsInfo # Nil, <<idMainStreamsInfo>> \o WriteStreamsInfo(h.streamsInfo))
    \o Optional(h.filesInfo # Nil, <<idFilesInfo>> \o WriteFilesInfo(h.filesInfo.file))
    \o <<idEnd>>
=============================================================================
