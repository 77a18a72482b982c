SPECIFICATION SspSpec
CONSTANTS
  RequestCap = 1
  TriggerTimes = {3, 5}
  MaxRequests = 1
  PreTrig = 3
  PostTrig = 1
  WriteDelay = 1
  Latency = 1
  Offset = 1
  Coincidence = 2
  Channels = {1, 2}
  PacketTimes = {8, 9, 12, 15}
  Disorder = 1
  MaxPackets = 4
  MaxRuns = 1
INVARIANTS OverlapRefused
CHECK_DEADLOCK FALSE
