SPECIFICATION FairSpec
CONSTANTS
  GroupSize = 1
  WordCap = 2
  MaxWordsPerFrag = 2
  FragCap = 2
  MetricTSMax = 2
  ThrowException = TRUE
  UIntMax = 9
  Kinds <- AllKinds
  ZeroTimes <- TimedOrNot
  PacketMax = 2
  MaxWords = 3
  MaxRuns = 1

PROPERTY StopReturns
CHECK_DEADLOCK FALSE
