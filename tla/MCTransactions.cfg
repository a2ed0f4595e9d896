SPECIFICATION FairSpec
CONSTANTS
  MaxTx = 2
  Doc = {d1}
  NoDoc = NoDoc
  Call = {c1, c2}
  MaxOperations <- TwoThenOne
  SerialCalls = FALSE
  TimelyCalls = FALSE
  LeaveExpired = FALSE
INVARIANTS
  TypeOK
  LockRefersToHolder
  SettledWhenJudged
  CommitIsJudged
  
PROPERTIES
  CommittedIsFinal
  TransitStatesEnd
CHECK_DEADLOCK FALSE
