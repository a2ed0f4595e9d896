SPECIFICATION Spec
CONSTANTS
  MaxTx = 3
  Doc = {d1}
  NoDoc = NoDoc
  Call = {c1, c2}
  MaxOperations <- TwoThenOne
  SerialCalls = TRUE
  TimelyCalls = TRUE
  LeaveExpired = TRUE
INVARIANTS
  OneHolder
  UnresolvedIsLocked
  RolledBackIsClean
PROPERTIES
  ReverseOrder
  ImplementsDocumentLock
CHECK_DEADLOCK FALSE
