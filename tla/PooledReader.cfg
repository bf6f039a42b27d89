SPECIFICATION Spec
CONSTANTS
  Handles = {h1, h2}
  Rcs = {r1, r2, r3, r4}
  f1 = f1
  f2 = f2
  f3 = f3
  f4 = f4
  Files = {f1, f2, f3, f4}
  Offset <- MCOffset
  Size <- MCSize
  FolderSize = 4
  NumCPU = 2
  Faults = TRUE
  NoRc = NoRc
  NoFile = NoFile
SYMMETRY Symmetry
INVARIANTS TypeOK PoolIndexesPositions ExclusiveReaders ReaderAtCursor NeverSeeksBackwards
PROPERTY FileStreamsSpec
