SPECIFICATION PartsSpec
CONSTANTS
  t1 = t1
  t2 = t2
  Threads <- BothThreads
  Garbage <- AnyFlag
  MaxRounds = 3
  HoldOff = 2
  Prescale = 2
  QueueSize = 2
  Times = {1, 2, 4}
  MaxDecisions = 3
  MaxStarts = 2
  ItemRoom = 2
  MaxHits = 2
  HitCounts = {0, 1, 2}
  EndMessages = 2
  AnyStamp = {0, 9}
  MaxMessages = 3
  RingSize = 2
  WireRoom = 1
  MaxFrames = 5
  MaxRceRuns = 2
  MaxReceivers = 2
  RequestCap = 2
  TriggerTimes <- Requests
  MaxRequests = 2
  PreTrig = 3
  PostTrig = 1
  WriteDelay = 1
  Latency = 1
  Offset = 1
  Coincidence = 2
  Channels <- TwoChannels
  PacketTimes <- DataTimes
  Disorder = 1
  MaxPackets = 4
  MaxRuns = 2
INVARIANTS HitsComplete FramesAccounted PacketsRight AnsweredInOrder
PROPERTIES ImplementsThreadPool TriggersJustified NobodyHangs
CHECK_DEADLOCK FALSE
