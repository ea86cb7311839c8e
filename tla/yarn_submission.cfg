SPECIFICATION FairSpec
CONSTANTS
  Slot = {s1, s2}
  Request = {"market_streaming_submit", "raw_up", "raw_stop", "market_batch_pipeline"}
  AppId = {1, 2}
  YarnOnPath = TRUE
  MaxFaults = 1
  Idle = Idle
  NoApp = NoApp
INVARIANTS TypeOK OneCopyUnlessRaced BatchAppsAreAwaited
PROPERTY ScriptsGetThrough
CHECK_DEADLOCK FALSE
