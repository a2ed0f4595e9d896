SPECIFICATION FairBridgeSpec
CONSTANTS
  MaxSocket = 2
  MaxCall = 2
  MaxRestarts = 1
  BridgeTimeout = 1
  timeoutMs <- MCtimeoutMs
  NeedsPairing = TRUE
CHECK_DEADLOCK FALSE
INVARIANTS
  BridgeTypeOK
  OneClient
  PendingOnClient
  
PROPERTIES
  CallsEnd
  ZombieIsDropped
  ImplementsChannel
