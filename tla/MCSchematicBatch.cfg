SPECIFICATION BatchSpec
CONSTANTS
  MaxTx = 1
  Doc = {d1}
  NoDoc = NoDoc
  Call = {c1}
  MaxOperations <- OneBatch
  SerialCalls = TRUE
  TimelyCalls = TRUE
  LeaveExpired = FALSE
  MaxPrim = 6
  Existing = 1
  MaxBatch = 2
  Faults = {"refused", "lost", "late", "unseen"}
  MaxFaults = 2
  MaxBatches = 2
  TouchOnce = TRUE
INVARIANTS
  
  TracesAreLocked
  CommittedIsApplied
PROPERTIES
  RollbackRestores
  BatchAnswers
CHECK_DEADLOCK FALSE
