SPECIFICATION Spec
CONSTANTS
  Slot = {s1, s2}
  Request = {"market_streaming_submit", "raw_up", "raw_stop", "market_batch_pipeline"}
  AppId = {1, 2}
  YarnOnPath = FALSE
  MaxFaults = 0
  Idle = Idle
  NoApp = NoApp
INVARIANT OneCopyUnlessRaced
CHECK_DEADLOCK FALSE
