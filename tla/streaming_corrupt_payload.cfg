SPECIFICATION Spec
CONSTANTS
  Event = {1}
  Payload = {"closed", "corrupt"}
  Delay = 1
  MaxMessages = 2
  MaxCrashes = 0
  MaxRetries = 0
INVARIANTS UndecodableIsRejected
CHECK_DEADLOCK FALSE
