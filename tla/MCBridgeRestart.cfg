SPECIFICATION BridgeSpec
CONSTANTS
  MaxSocket = 2
  MaxCall = 2
  MaxRestarts = 1
  BridgeTimeout = 1
  timeoutMs <- MCtimeoutMs
  NeedsPairing = FALSE
CHECK_DEADLOCK FALSE
INVARIANTS
  OwnAnswer
