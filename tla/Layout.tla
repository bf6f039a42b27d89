------------------------------- MODULE Layout -------------------------------
(***************************************************************************)
(* How the reader maps the files of a header to bytes of the archive       *)
(* (streamsInfo in struct.go, Reader.init in reader.go).                   *)
(*                                                                         *)
(* A streamsInfo is a record: pack, the sizes of the packed streams;       *)
(* packed, how many of them each folder has; unpack, each folder's         *)
(* unpacked size; streams, how many files each folder has; size, the size  *)
(* of every file with a stream, folder after folder.  Folders and files    *)
(* with a stream are numbered from 1.                                      *)
(***************************************************************************)
EXTENDS Integers, SequencesExt

\* The running totals of s: s[1] + ... + s[k] for every k up to its length.
Totals(s) == LET sum[k \in 0 .. Len(s)] == IF k = 0 THEN 0 ELSE sum[k - 1] + s[k]
             IN  sum
PrefixSum(s, k) == Totals(s)[k]

\* FileFolderAndSize's folder: the first one whose running total of streams
\* covers the file; the range loop ends on the last folder when there is none.
FileFolder(si, j) ==
    LET covering == {k \in 1 .. Len(si.streams) : j <= PrefixSum(si.streams, k)}
    IN  IF covering # {} THEN Min(covering) ELSE Len(si.streams)

\* FileFolderAndSize's size: the folder's for the only file of a folder.
FileSize(si, j) ==
    LET k == FileFolder(si, j)
    IN  IF si.streams[k] = 1 THEN si.unpack[k] ELSE si.size[j]

\* File.offset as Reader.init assigns it to the first j files: each begins where the
\* file before it ends, and at 0 when that one is of another folder.
FileOffsets(si, j) ==
    LET offset[i \in 1 .. j] ==
            IF i = 1 \/ FileFolder(si, i - 1) # FileFolder(si, i) THEN 0
            ELSE offset[i - 1] + FileSize(si, i - 1)
    IN  offset
FileOffset(si, j) == FileOffsets(si, j)[j]

\* folderOffset: where the folder's packed streams begin, after the signature
\* header and the packInfo position.
FolderOffset(si, k) == PrefixSum(si.pack, PrefixSum(si.packed, k - 1))
=============================================================================
