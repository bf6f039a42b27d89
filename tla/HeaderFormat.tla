---------------------------- MODULE HeaderFormat ----------------------------
(***************************************************************************)
(* What the two sides of the 7z header share: the section ids of types.go  *)
(* and the constants that scale the format down.                           *)
(*                                                                         *)
(* A header is a sequence of tokens, all natural numbers.  A token stands  *)
(* for a byte, a checksum, a file time, an attribute word or a character   *)
(* of a name.  Variable-length numbers are sequences of bytes of           *)
(* NumberBits bits, so that their forms change at small values.            *)
(***************************************************************************)
EXTENDS Integers, SequencesExt

CONSTANTS ByteBits,    \* booleans packed in a byte (8)
          NumberBits,  \* bits of a byte of a variable-length number (8)
          MaxCount,    \* the largest count checkUint64 accepts (2^32 - 1)
          Word,        \* one more than the largest uint64 (2^64)
          Tick         \* time units in a unit of a file time (100 ns)

ASSUME FormatAssumption ==
    /\ ByteBits \in Nat \ {0} /\ Tick \in Nat \ {0}
    /\ NumberBits \in Nat \ {0} /\ Word = 2 ^ (NumberBits * NumberBits)
    /\ MaxCount \in Nat /\ MaxCount < Word

idEnd == 0
idHeader == 1
idMainStreamsInfo == 4
idFilesInfo == 5
idPackInfo == 6
idUnpackInfo == 7
idSubStreamsInfo == 8
idSize == 9
idCRC == 10
idFolder == 11
idCodersUnpackSize == 12
idNumUnpackStream == 13
idEmptyStream == 14
idEmptyFile == 15
idName == 17
idCTime == 18
idATime == 19
idMTime == 20
idWinAttributes == 21
idEncodedHeader == 23
idDummy == 25

Nil == [nil |-> TRUE]   \* a nil pointer to a section

NoTime == 0             \* time.Time{}
Epoch == 1              \* file time of the first representable instant

\* A bit of a number, counted from 0.
Bit(v, i) == (v \div 2 ^ i) % 2 = 1

Count(s, P(_)) == Len(SelectSeq(s, P))
SumSeq(s) == FoldLeft(+, 0, s)

\* FileHeader.Mode().IsDir(): the POSIX attributes if there are any, the MS-DOS
\* ones otherwise, or a name ending in a slash.  Attribute bits: 4 is msdosDir, 8
\* stands for 0xf0000000, 9 for sIFDIR.
Slash == 47
IsDir(fh) ==
    \/ IF Bit(fh.attr, 8) THEN Bit(fh.attr, 9) ELSE Bit(fh.attr, 4)
    \/ fh.name # <<>> /\ Last(fh.name) = Slash
=============================================================================
