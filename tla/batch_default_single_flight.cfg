SPECIFICATION Spec
CONSTANTS
  Execution = {e1, e2}
  NoLock = NoLock
  LockTtl = 2
  Budget <- DefaultBudget
  UnreliableReplies = TRUE
  MaxClock = 6
INVARIANT SingleFlight
CHECK_DEADLOCK FALSE
