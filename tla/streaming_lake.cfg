SPECIFICATION FairSpec
CONSTANTS
  Event = {1, 3}
  Payload = {"closed", "corrupt", "null"}
  Delay = 1
  MaxMessages = 2
  MaxCrashes = 2
  MaxRetries = 1
INVARIANTS TypeOK RawExactlyOnce BronzeOnePerEvent MissingFromBronzeIsLate RejectedReachErrorSink
PROPERTY EveryMessageIsSettled
CHECK_DEADLOCK FALSE
