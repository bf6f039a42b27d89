SPECIFICATION Spec
CONSTANTS
  Handles = {h1, h2}
  Rcs = {r1, r2}
  f1 = f1
  f2 = f2
  f3 = f3
  f4 = f4
  Files = {f1, f2}
  Offset <- MCTwoOffset
  Size <- MCTwoSize
  FolderSize = 3
  NumCPU = 2
  Faults = FALSE
  NoRc = NoRc
  NoFile = NoFile
SYMMETRY Symmetry
INVARIANT NoReaderOutlivesRelease
