SPECIFICATION FairSpec
CONSTANTS
  Marks = {"SpillStart"}
  MaxCounter = 1
  WarnLevel = 1
  MaxEvents = 1
  MaxRuns = 2
INVARIANT ReleasedByThisRun
CHECK_DEADLOCK FALSE
