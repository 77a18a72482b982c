SPECIFICATION StreamsSpec
CONSTANTS
  SliceTicks = 3
  MillisliceSize = 5
  Overlap = 2
  IdModulus = 2
  Buffers <- Addresses
  NoBuffer = NoBuffer
  Precommit = 2
  MaxRetries = 1
  Patient = TRUE
  MaxSlices = 4
  MaxRuns = 2
  MaxLost = 1
  MaxUnread = 2
  TornRuns = 1
  RawRoom = 6
  LongClaim = 3
  MaxFrags = 2
  MaxWords = 7
  MaxFiles = 3
  MaxCrtRuns = 2
  Second = 2
  Roll = 11
  RollSeconds = 6
  alarmDeltaT = 1
  rolloverThreshold = 1
  MaxLag = 2
  FirstTick = 1
  LastTick = 25
INVARIANTS MillislicesRight StampsInSync
PROPERTIES FailureReported FilesReadOut
CHECK_DEADLOCK FALSE
