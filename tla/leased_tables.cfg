SPECIFICATION LeasedSpec
CONSTANTS
  Execution = {e1, e2}
  NoLock = NoLock
  LockTtl = 4
  Budget <- ShortBudget
  UnreliableReplies = TRUE
  MaxClock = 10
  Candle = {1}
  Price = {1}
  Fast <- Smoothing
  Slow <- Smoothing
  Wilder <- Smoothing
  MaxDouble = 1
  MaxPower = 1
  NoRun = NoRun
INVARIANTS TypeOK SingleFlight LeaseInv GlueRunsExclude
PROPERTIES ImplementsSingleFlight TablesFollowTheLease
SYMMETRY ExecutionSymmetry
CHECK_DEADLOCK FALSE
