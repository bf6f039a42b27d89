SPECIFICATION FairSpec
CONSTANTS
  Jobs = {a, b, c}
  Dirs = {}
  Options <- MCConcurrent
  MaxUnits = 0
  Slots = 1
  SpoolCap = 1
  NoJob = NoJob
  Faults = {"compress", "copy"}
INVARIANTS RoundTrip BodyInOrder NoSendOnClosedChannel
PROPERTIES CloseReturns SendsComplete
CHECK_DEADLOCK FALSE
