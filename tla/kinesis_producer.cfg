SPECIFICATION FairSpec
CONSTANTS
  Key = {k1, k2, k3}
  MaxCandle = 1
  HostClock = {"right"}
  BatchSize = 2
  MaxAttempts = 2
  MaxFaults = 1
INVARIANTS TypeOK MarkedWereAccepted NothingDropped CopiesBoundedByFaults
PROPERTY LatestClosedIsPublished
CHECK_DEADLOCK FALSE
