CONSTANTS
  t1 = t1
  t2 = t2
  t3 = t3
  write = write
  read = read
  Session = {1, 2}
  NoSession = 0
  NoSocket = 0
  MaxCalls = 2
  Approval = {a1}
  NoApproval = NoApproval
  Unused = Unused
  Gone = Gone
  Attempt = {t1, t2, t3}
  Deed <- MCDeed
  Reads = {read}
SPECIFICATION FairGatewaySpec
INVARIANTS GatewayTypeOK NoOverlap  RightsEndWithSession 
PROPERTIES ImplementsMutex QueuedCallsEnd
CHECK_DEADLOCK FALSE
