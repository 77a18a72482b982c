SPECIFICATION ModesSpec
CONSTANTS
  l1 = l1
  Threads <- OneLink
  Garbage <- Clear
  TickDist = 2
  FramesPerMsg = 2
  TimeWindow = 1
  WindowOffset = 1
  Margin = 3
  QueueCap = 5
  RequestCap = 1
  TriggerTimes <- Times
  MaxMsgs = 7
  MaxRequests = 2
  MaxRuns = 1
  HostTick = 2
  NumLinks = 2
  FramesPerMessage = 2
  WindowFrames = 1
  OffsetFrames = 1
  SpareMessages = 2
  LinkRoom = 4
  LinkMessages <- FiveAndThree
  MaxEvents = 2
  MaxHostRuns = 1
  CardLinks = {1, 2}
  RingBlocks = 4
  BlockThreshold = 2
  MarginBlocks = 1
  DispatchRoom = 1
  ChunkParts = 2
  MaxBlocks = 6
INVARIANTS WindowCovered SharedInOrder QuietBetweenTriggers EventsCoherent ChunksIntact
CHECK_DEADLOCK FALSE
