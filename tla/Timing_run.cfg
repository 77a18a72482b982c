SPECIFICATION FairSpec
CONSTANTS
  Marks = {"SpillStart"}
  MaxCounter = 1
  WarnLevel = 1
  MaxEvents = 2
  MaxRuns = 2
INVARIANTS Drained StampsFollowMarks EnabledAsTold
PROPERTIES ImplementsOrderedDelivery AskedIsDone
CHECK_DEADLOCK FALSE
