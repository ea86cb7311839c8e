SPECIFICATION FairSpec
CONSTANTS
  Execution = {e1, e2}
  NoLock = NoLock
  LockTtl = 2
  Budget <- DefaultBudget
  UnreliableReplies = TRUE
  MaxClock = 6
PROPERTIES LeaseLostOnlyByRightfulMeans EveryExecutionEnds LeftoverLeaseClears
CHECK_DEADLOCK FALSE
