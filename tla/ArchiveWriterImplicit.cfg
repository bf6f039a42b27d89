SPECIFICATION Spec
CONSTANTS
  Jobs = {a, b}
  Dirs = {}
  Options <- MCConcurrent
  MaxUnits = 1
  Slots = 2
  SpoolCap = 1
  NoJob = NoJob
  Faults = {}
INVARIANT ImplicitCloseSuffices
CHECK_DEADLOCK FALSE
