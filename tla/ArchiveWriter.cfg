SPECIFICATION Spec
CONSTANTS
  Jobs = {a, b, c}
  Dirs = {c}
  Options <- MCOptions
  MaxUnits = 1
  Slots = 1
  SpoolCap = 1
  NoJob = NoJob
  Faults = {"setup", "write", "compress", "spill", "copy", "header"}
SYMMETRY Symmetry
INVARIANTS TypeOK RoundTrip BodyInOrder SpoolsReleased
CHECK_DEADLOCK FALSE
