----------------------------- MODULE MCArchive -----------------------------
EXTENDS Archive, TLC

\* A plain file; a POSIX file whose MS-DOS bits say directory, with a time off the
\* tick; a directory by its attributes and one by its name.
Named(name, attr) == [NewFileHeader EXCEPT !.name = name, !.attr = attr]
MCFileHeaders ==
    {Named(<<97>>, 0),
     [Named(<<98, 98>>, 256 + 16) EXCEPT !.modified = 5, !.accessed = 2],
     [Named(<<99>>, 16) EXCEPT !.created = 4],
     Named(<<100, Slash>>, 0)}

\* Two directories and a file.
MCDirectories == {Named(<<99>>, 16), Named(<<100, Slash>>, 0), Named(<<97>>, 0)}

\* An archive of one file with a plain header, and what only looks like an archive.
NestedData == <<7>>
NestedFile == [Named(<<110>>, 0) EXCEPT !.size = Len(NestedData), !.crc = Checksum(NestedData)]
NestedFolder ==
    [in |-> 1, out |-> 1, packedStreams |-> 1, coder |-> <<lzma2Coder>>, bindPair |-> <<>>,
     packed |-> <<0>>, size |-> <<Len(NestedData)>>]
NestedStreams ==
    [packInfo |-> [position |-> 0, streams |-> 1, digest |-> <<>>,
                   size |-> <<Len(Compress(NestedData))>>],
     unpackInfo |-> [folder |-> <<NestedFolder>>, digest |-> <<>>],
     subStreamsInfo |-> [streams |-> <<1>>, size |-> <<Len(NestedData)>>,
                         digest |-> <<Checksum(NestedData)>>]]
NestedHeader ==
    <<idHeader>> \o WriteHeader([streamsInfo |-> NestedStreams,
                                 filesInfo |-> [file |-> <<NestedFile>>]])
NestedStart == <<Len(Compress(NestedData)), Len(NestedHeader), Checksum(NestedHeader)>>
Nested ==
    <<Signature, StartCRC(NestedStart)>> \o NestedStart \o Compress(NestedData) \o NestedHeader
NotNested == <<Signature, 7>>

\* A self-extracting file: something in front of the archive, a signature included.
MCContents == {<<>>, <<7>>, <<7, 8>>, NotNested \o NoStart \o Nested}

\* readUint64 inverts writeUint64 ("the exact inverse", write_types.go:15), in every
\* form: no header of these bounds has a number of the longest ones.
ASSUME Uint64RoundTrip == \A v \in 0 .. Word - 1 : ReadUint64(WriteUint64(v)) = Ret(v, <<>>)

MCOptions == [solid : BOOLEAN, password : {0, 1}]
=============================================================================
