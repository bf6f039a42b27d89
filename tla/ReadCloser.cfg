SPECIFICATION Spec
CONSTANTS
  Scenarios <- MCScenarios
  MaxVolume = 4
  Signature <- MCSignature
  GoodHeader <- MCGoodHeader
  ChunkSize = 2
  SearchLimit = 4
  Queries <- MCQueries
  Counts <- MCCounts
INVARIANTS TypeOK HandlesClosed FindsArchive LookupAgrees PagesComplete ListedOpens
CHECK_DEADLOCK FALSE
