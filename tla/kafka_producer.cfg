SPECIFICATION FairSpec
CONSTANTS
  Key = {k1}
  MaxCandle = 2
  HostClock = {"late", "right", "early"}
  MaxFaults = 2
INVARIANTS TypeOK MarkedIsSettledOrUnderway CopiesBoundedByRestarts TopicInMarketOrder
PROPERTY LatestIsDelivered
CHECK_DEADLOCK FALSE
