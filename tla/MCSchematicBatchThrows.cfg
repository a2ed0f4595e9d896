SPECIFICATION BatchSpec
CONSTANTS
  MaxTx = 1
  Doc = {d1}
  NoDoc = NoDoc
  Call = {c1}
  MaxOperations <- OneBatch
  SerialCalls = TRUE
  TimelyCalls = TRUE
  LeaveExpired = FALSE
  MaxPrim = 6
  Existing = 1
  MaxBatch = 2
  Faults = {}
  MaxFaults = 0
  MaxBatches = 2
  TouchOnce = TRUE
INVARIANT
  FailureIsUndone
CHECK_DEADLOCK FALSE
