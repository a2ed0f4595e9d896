SPECIFICATION Spec
CONSTANTS
  MaxTx = 3
  Doc = {d1}
  NoDoc = NoDoc
  Call = {c1}
  MaxOperations <- TwoThenOne
  SerialCalls = TRUE
  TimelyCalls = TRUE
  LeaveExpired = FALSE
INVARIANT
  OneHolder
CHECK_DEADLOCK FALSE
