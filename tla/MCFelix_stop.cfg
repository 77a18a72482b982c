SPECIFICATION PartsSpec
CONSTANTS
  l1 = l1
  Threads <- OneLink
  Garbage <- AnyFlag
  TickDist = 2
  FramesPerMsg = 2
  TimeWindow = 1
  WindowOffset = 1
  Margin = 3
  QueueCap = 4
  RequestCap = 1
  TriggerTimes <- Times
  MaxMsgs = 5
  MaxRequests = 1
  MaxRuns = 2
  f1 = f1
  f2 = f2
  Lanes = 2
  Width = 8
  TapExponent = 4
  Taps <- FourTaps
  Factor = 3
  AccLimit = 1
  Spread = 0
  FramesInMsg = 2
  ClocksPerTick = 2
  Registers <- Samples
  MaxHitMsgs = 5
  Finders <- OneFinder
  MsgsPerSet = 2
  HitsInMsg = {0, 1}
  MaxSetMsgs = 6
INVARIANTS HitsTrue SetsWhole
PROPERTY NothingHangs
CHECK_DEADLOCK FALSE
