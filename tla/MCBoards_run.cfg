SPECIFICATION PartsSpec
CONSTANTS
  GroupSize = 2
  WordCap = 2
  MaxWordsPerFrag = 2
  FragCap = 1
  MetricTSMax = 2
  ThrowException = FALSE
  UIntMax = 9
  Kinds <- DataKinds
  ZeroTimes <- Timed
  PacketMax = 2
  MaxWords = 2
  MaxRuns = 2
  RetryCount = 1
  SyncTries = 2
  MaxSettings = 1
  HardwareConfigs <- SomeConfigs
  FEMBCount = 2
  MaxTries = 2
  MaxRetries = 2
  MaxEndpoints = 2
  MaxCommands = 4
  HeaderUnits = 2
  SliceUnits = 3
  NumSlices = 2
  Precommit = 1
  MaxUnits = 9
  MaxStarts = 2
  MaxTrials = 2
  HlsMask = {1}
  MaxRceStarts = 2
  MaxRefusals = 1
  MaxUnasked = 1
  TSpan = 1
  HitThreshold = 1
  HoldOff = 1
  QueueSize = 2
  Channels = {1, 2, 3}
  Beyond = {3}
  MaxTime = 3
  MaxSets = 3
  MaxMuonRuns = 2
  Aggregation = 2
  NTimesRetry = 2
  MaxHitsPerSet = 2
  MaxHits = 4
  MaxCalls = 3
  PreScale = 2
  MinNTriggers = 1
  MaxNTriggers = 1
  MaxEvents = 3
  Configurations <- Usually
  Links = {1, 2}
  NumFrames = 4
  FramesPerMsg = 2
  HeaderBytes = 80
  WIBs = {0, 4}
  Listed = {10, 16, 53, 106}
  WindowMsgs = 2
  KeepsWaveforms = {"penn"}
  SearchWindow = 1
  SSPThreshold = 2
  SSPs = {1, 2}
  LastTime = 3
  MaxFragments = 2
  MaxTriggers = 2
INVARIANTS TSCountMatches LeftoversKeptApart BringUpRight RegistersRight ConfiguredOrGone RefusalHolds OneMoreKept TriggersAreWindows HitsPassedOn SuspendedAndWhole BoardFollows FramesRight SparsifiedRight
CHECK_DEADLOCK FALSE
