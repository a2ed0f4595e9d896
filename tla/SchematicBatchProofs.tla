------------------------ MODULE SchematicBatchProofs ------------------------
(***************************************************************************)
(* The batch and its tools use the transaction manager only through its    *)
(* actions: every behaviour of SchematicBatch is, for the manager, one of  *)
(* Transactions.  What TransactionsProofs proves of the manager therefore  *)
(* holds of batches, whatever bridge calls fail and however many there are.*)
(* On it rest the theorems about the document: where the batch is fits     *)
(* what the manager does (ControlInv), and what the document shows fits    *)
(* what the manager remembers (DocInv).                                    *)
(***************************************************************************)
EXTENDS SchematicBatch, TransactionsProofs, FiniteSetTheorems, SequenceTheorems

\* A batch that is under way has a transaction.
HasSession == step # "ready" => session \in Tx

\* What a step of the batch is for the manager.
Manages ==
  \/ UNCHANGED managerVars
  \/ Refused
  \/ Resume(client)
  \/ StartModifyOrDelete(client, session)
  \/ StartCreate(client, session)
  \/ StartValidate(client, session)
  \/ StartRollback(client, session)
  \/ RollbackNothing(session)
  \/ Commit(session)

\* A step of the batch under way, which keeps its transaction.
KeepsSession == Manages /\ session' = session

-----------------------------------------------------------------------------
(* The client of the batch and the manager's calls.                        *)

LEMMA ClientIsCall == client \in Call /\ Call = {client}
  BY OneClient DEF client

LEMMA ClientIsOrderly == Orderly
  BY OneClient DEF Orderly

\* A call the manager refuses has swept, as a call to get does.
LEMMA RefusedIsGet ==
  ASSUME TypeOK, Refused
  PROVE  [Next]_vars
<1>1. CASE Stale # {}
  BY <1>1 DEF Refused, Get, Next
<1>2. CASE Stale = {}
  <2>1. StateNow = state /\ CompleteNow = rollbackComplete /\ LockNow = activeByDocument
    BY <1>2 DEF TypeOK, StateNow, CompleteNow, LockNow, StaleOn
  <2> QED BY <2>1 DEF Refused, Sweep, vars, txVars, callVars
<1> QED BY <1>1, <1>2

LEMMA UnchangedIsStutter == UNCHANGED managerVars => [Next]_vars
  BY DEF managerVars, vars

LEMMA ManagesIsNext ==
  ASSUME TypeOK, session \in Tx, Manages
  PROVE  [Next]_vars
BY ClientIsCall, RefusedIsGet, UnchangedIsStutter DEF Manages, Next, Client

-----------------------------------------------------------------------------
(* What the steps of the batch are for the manager.                        *)

LEMMA SettlesManages ==
  /\ \A s : Then(s) => KeepsSession
  /\ \A comp \in {"not-needed", "restored"} : Undone(comp) => KeepsSession
  /\ Fails => KeepsSession
  /\ Succeeds => KeepsSession
  /\ IsRefused(Refused) => KeepsSession
  /\ IsRefused(UNCHANGED managerVars) => KeepsSession
  /\ IsRefused(ReserveRefused(client)) => KeepsSession
BY DEF KeepsSession, Manages, Resume, Then, Go, Undone, Fails, Succeeds, IsRefused, ToRollback, Proceed

LEMMA CreateManages == CreateStep => KeepsSession /\ step # "ready"
<1>1. BeforeCreate => KeepsSession /\ step # "ready"
  BY SettlesManages DEF BeforeCreate, KeepsSession, Manages
<1>2. ApplyCreate => KeepsSession /\ step # "ready"
  BY SettlesManages DEF ApplyCreate
<1>3. PollCreated => KeepsSession /\ step # "ready"
  BY SettlesManages DEF PollCreated, KeepsSession, Manages, Go
<1>4. ReadCreated => KeepsSession /\ step # "ready"
  BY SettlesManages DEF ReadCreated
<1>5. ReconcileCreate => KeepsSession /\ step # "ready"
  BY SettlesManages DEF ReconcileCreate, KeepsSession, Manages, Go
<1>6. CreatedExists => KeepsSession /\ step # "ready"
  BY SettlesManages DEF CreatedExists
<1>7. RemoveCreated => KeepsSession /\ step # "ready"
  BY SettlesManages DEF RemoveCreated
<1>8. CreatedIsGone => KeepsSession /\ step # "ready"
  BY SettlesManages DEF CreatedIsGone
<1> QED BY <1>1, <1>2, <1>3, <1>4, <1>5, <1>6, <1>7, <1>8 DEF CreateStep

LEMMA ModifyManages == ModifyStep => KeepsSession /\ step # "ready"
<1>1. ApplyModify => KeepsSession /\ step # "ready"
  BY SettlesManages DEF ApplyModify
<1>2. ReadModified => KeepsSession /\ step # "ready"
  BY SettlesManages DEF ReadModified
<1>3. CompareModified => KeepsSession /\ step # "ready"
  BY SettlesManages DEF CompareModified
<1>4. RestoreModified => KeepsSession /\ step # "ready"
  BY SettlesManages DEF RestoreModified
<1>5. VerifyModified => KeepsSession /\ step # "ready"
  BY SettlesManages DEF VerifyModified
<1> QED BY <1>1, <1>2, <1>3, <1>4, <1>5 DEF ModifyStep

LEMMA DeleteManages == DeleteStep => KeepsSession /\ step # "ready"
<1>1. ApplyDelete => KeepsSession /\ step # "ready"
  BY SettlesManages DEF ApplyDelete
<1>2. ReadDeleted => KeepsSession /\ step # "ready"
  BY SettlesManages DEF ReadDeleted
<1>3. StillExists => KeepsSession /\ step # "ready"
  BY SettlesManages DEF StillExists
<1>4. CompareDeleted => KeepsSession /\ step # "ready"
  BY SettlesManages DEF CompareDeleted
<1>5. RecreateDeleted => KeepsSession /\ step # "ready"
  BY SettlesManages DEF RecreateDeleted
<1> QED BY <1>1, <1>2, <1>3, <1>4, <1>5 DEF DeleteStep

LEMMA OthersManage ==
  RollbackStep \/ BeforeModifyOrDelete \/ CaptureBefore \/ BatchEnds \/ Judge \/ CommitBatch
    => KeepsSession /\ step # "ready"
<1>1. RollbackStep => KeepsSession /\ step # "ready"
  BY DEF RollbackStep, RollbackBegins, Undo, VerifyUndone, RollbackEnds, Go, Answer,
         KeepsSession, Manages, Resume
<1>2. BeforeModifyOrDelete \/ CaptureBefore => KeepsSession /\ step # "ready"
  BY SettlesManages DEF BeforeModifyOrDelete, CaptureBefore, Go, KeepsSession, Manages, Resume
<1>3. BatchEnds \/ Judge \/ CommitBatch => KeepsSession /\ step # "ready"
  BY DEF BatchEnds, Judge, CommitBatch, Go, Answer, KeepsSession, Manages, Resume
<1> QED BY <1>1, <1>2, <1>3

LEMMA BatchStepManages == BatchStep => KeepsSession /\ step # "ready"
BY CreateManages, ModifyManages, DeleteManages, OthersManage DEF BatchStep

-----------------------------------------------------------------------------
(* The tools, time and late calls.                                         *)

LEMMA ToolIsNext ==
  ASSUME TypeOK, HasSession, ToolStep
  PROVE  [Next]_vars /\ HasSession'
<1>1. CASE ToolStatus
  BY <1>1 DEF ToolStatus, Next, HasSession, clientVars
<1>2. ASSUME NEW t \in Tx, BatchOnOwned(t) PROVE [Next]_vars /\ HasSession'
  BY <1>2, RefusedIsGet DEF BatchOnOwned, Take, HasSession
<1>3. ASSUME NEW t \in Tx, ToolValidate(t) PROVE [Next]_vars /\ HasSession'
  BY <1>3, ClientIsCall DEF ToolValidate, Take, Next, Client, HasSession
<1>4. ASSUME NEW t \in Tx, ToolCommit(t) PROVE [Next]_vars /\ HasSession'
  BY <1>4 DEF ToolCommit, Take, Next, Client, HasSession
<1>5. ASSUME NEW t \in Tx, ToolRollback(t) PROVE [Next]_vars /\ HasSession'
  BY <1>5, UnchangedIsStutter DEF ToolRollback, Take, HasSession
<1>6. ASSUME NEW t \in Tx, Time(t) PROVE [Next]_vars /\ HasSession'
  BY <1>6 DEF Time, Next, Client, HasSession, clientVars
<1>7. ASSUME NEW t \in Tx, NEW d \in Doc, BatchOnNew(t, d) PROVE [Next]_vars /\ HasSession'
  BY <1>7 DEF BatchOnNew, Take, Next, Client, HasSession
<1>8. ASSUME NEW t \in Tx, NEW d \in Doc, ToolBegin(t, d) PROVE [Next]_vars /\ HasSession'
  BY <1>8 DEF ToolBegin, Next, Client, HasSession, clientVars
<1> QED BY <1>1, <1>2, <1>3, <1>4, <1>5, <1>6, <1>7, <1>8 DEF ToolStep

LEMMA BatchNextIsNext ==
  ASSUME TypeOK, HasSession, [BatchNext]_allVars
  PROVE  [Next]_vars /\ HasSession'
<1>1. CASE ToolStep
  BY <1>1, ToolIsNext
<1>2. CASE BatchStep
  BY <1>2, BatchStepManages, ManagesIsNext DEF HasSession, KeepsSession
<1>3. CASE TakesEffect
  BY <1>3, UnchangedIsStutter DEF TakesEffect, HasSession, clientVars
<1>4. CASE UNCHANGED allVars
  BY <1>4, UnchangedIsStutter DEF allVars, HasSession, clientVars
<1> QED BY <1>1, <1>2, <1>3, <1>4 DEF BatchNext

-----------------------------------------------------------------------------

\* A batch implements the manager's specification: its hooks, its polling and
\* its rollbacks never take the manager where its own methods could not.
THEOREM BatchImplementsManager == BatchSpec => Spec
<1>1. BatchInit => Init /\ HasSession
  BY DEF BatchInit, HasSession
<1>2. Init => IInv
  BY InitInvariant
<1>3. IInv /\ HasSession /\ [BatchNext]_allVars => [Next]_vars /\ HasSession'
  BY BatchNextIsNext DEF IInv
<1>4. IInv /\ [Next]_vars => IInv'
  BY NextInvariant
<1> QED BY <1>1, <1>2, <1>3, <1>4, PTL DEF BatchSpec, Spec

\* Batches never leave a lock nobody can release (LockRefersToHolder), commit
\* what their gates judged and nothing else (CommitIsJudged), and rollbacks
\* that failed can be retried for every failed operation (FailedIsCandidate).
THEOREM BatchKeepsManagerInvariant == BatchSpec => []IInv
BY BatchImplementsManager, Invariant, PTL

\* No rollback, late answer or deadline of a batch changes what is committed.
THEOREM BatchCommitIsFinal == BatchSpec => CommittedIsFinal
BY BatchImplementsManager, CommitIsFinal, PTL
-----------------------------------------------------------------------------
(***************************************************************************)
(* Where the batch is, and its call to the manager with it.                *)
(***************************************************************************)
CreateSteps == {"create", "poll", "read", "reconcile", "exists", "remove", "gone"}
ModifySteps == {"modify", "after", "compare", "restore", "verify"}
DeleteSteps == {"delete", "deleted", "still", "current", "recreate"}
WriteSteps  == CreateSteps \cup ModifySteps \cup DeleteSteps
UndoSteps   == {"undo", "undone"}
IdleSteps   == {"ready", "next", "rollback", "commit"}
BusySteps   == WriteSteps \cup UndoSteps \cup {"before", "judge"}

\* The steps before the target of a create is found.
SearchSteps == {"create", "poll", "reconcile"}

CallFits ==
  /\ step \in IdleSteps \cup BusySteps
  /\ step \in IdleSteps => pc[client] = "idle"
  /\ step = "before" => pc[client] = "snapshot"
  /\ step = "judge" => pc[client] = "validating"
  /\ step \in UndoSteps => pc[client] = "rolling"
  /\ step \in WriteSteps => pc[client] = "applying" /\ todo[client] = {Len(details[session])}
  /\ step \in BusySteps => callTx[client] = session
  /\ step # "ready" => session \in Tx /\ state[session] # "none" /\ answer # "committed"

\* The batch has come to operation at of its plan, which is in flight during
\* its steps.
PlanFits ==
  /\ plan \in Plans \cup {<<>>}
  /\ at \in 1..Len(plan) + 1
  /\ step \in WriteSteps \cup {"before"} => at <= Len(plan)
  /\ step = "before" => Todo.kind # "create"
  /\ step \in CreateSteps => Todo.kind = "create" /\ Op.kind = "create"
  /\ step \in ModifySteps => Todo.kind = "modify" /\ Op.kind = "modify" /\ Op.target = Todo.id
  /\ step \in DeleteSteps => Todo.kind = "delete" /\ Op.kind = "delete" /\ Op.target = Todo.id
  /\ step \in SearchSteps => Op.target = NoPrim
  /\ step \in CreateSteps \ SearchSteps => Op.target \in Prim

\* Gates and rollbacks are those of the session; a transaction without an
\* operation may have expired.  One that can still be committed has no
\* operation that failed, unless its batch is about to roll it back.
TxFits(t) ==
  /\ state[t] = "validating" => t = session /\ step = "judge"
  /\ state[t] = "rolling-back" => t = session /\ step \in UndoSteps
  /\ state[t] \in {"none", "expired"} => details[t] = <<>>
  /\ state[t] \in Open \cup {"validating"} /\ ~(t = session /\ step = "rollback") =>
       \A i \in DOMAIN operations[t] :
         \/ operations[t][i].state = "applied"
         \/ t = session /\ step \in WriteSteps /\ i = Len(operations[t])

\* The session has no lock that its rollback could take from another one.
ExpiredIsUnlocked ==
  step # "ready" /\ state[session] = "expired" => activeByDocument[document[session]] = NoTx

\* What a rollback has to undo was written.
TodoIsWritten ==
  step \in UndoSteps =>
    \A i \in todo[client] : operations[session][i].state \in {"applied", "failed"}

EditorTypes ==
  /\ doc \in [Prim -> Content]
  /\ fresh \in Existing..MaxPrim
  /\ \A w \in late : w[2].id \in Prim \cup {NoPrim} /\ w[2].content \in Content
  /\ faults \in [Fault -> 0..MaxFaults]

LogTypes ==
  /\ details \in [Tx -> Seq(Detail)]
  /\ \A t \in Tx : Len(details[t]) = Len(operations[t])

ClientTypes ==
  /\ session \in Tx \cup {NoTx}
  /\ managed \in BOOLEAN
  /\ known \subseteq Prim
  /\ batches \in 0..MaxBatches

\* All but the editor and the other transactions.
SessionFits == /\ LogTypes /\ ClientTypes /\ CallFits /\ PlanFits /\ TodoIsWritten
               /\ session \in Tx => TxFits(session)

ControlInv == /\ EditorTypes /\ SessionFits /\ ExpiredIsUnlocked
              /\ \A t \in Tx : TxFits(t)

-----------------------------------------------------------------------------
(***************************************************************************)
(* The document, read and written by calls that fail as they say.          *)
(***************************************************************************)
Live(t, i)    == operations[t][i].state \in {"pending", "applied", "failed"}
Settled(t, i) == operations[t][i].state \in {"rolled-back", "cancelled"}

\* The editor gives identifiers in turn, and creates go to new ones.
NewOnes ==
  /\ \A p \in Prim : p > fresh => doc[p] = Gone
  /\ \A p \in Prim : \A u \in Tx : doc[p] = Made(u) => p > Existing

\* What the manager's operations remember of the document.
RememberedAs(t, o) ==
  IF o.kind = "create"
    THEN /\ o.before = Gone
         /\ \/ o.target = NoPrim
            \/ o.target \in Existing + 1 .. fresh /\ doc[o.target] \in {Made(t), Gone}
    ELSE /\ o.target \in 1..Existing
         /\ \/ \E p \in 1..Existing : o.before = Original(p)
            \/ \E u \in Tx : o.before = Changed(u)
Remembered == \A t \in Tx : \A i \in DOMAIN details[t] : RememberedAs(t, details[t][i])

\* What was in the document when a create began, and what is new since.
KnownFits ==
  /\ step \in SearchSteps => known \subseteq Listed
  /\ step = "create" => known = Listed
  /\ step \in SearchSteps => \A p \in Listed \ known : doc[p] = Made(session)

\* What a transaction made is the target of one of its operations, or of a
\* create that has yet to find it, or could not.
MadeIsOwned ==
  \A t \in Tx : state[t] # "committed" => \A p \in Prim : doc[p] = Made(t) =>
    \E i \in DOMAIN details[t] :
      /\ details[t][i].kind = "create" /\ Live(t, i)
      /\ \/ details[t][i].target = p
         \/ details[t][i].target = NoPrim /\ operations[t][i].state = "failed"
         \/ /\ t = session /\ step \in SearchSteps /\ i = Len(details[t]) /\ p \notin known

\* What an undo has just restored is what it verifies.
UndoneFits ==
  step = "undone" => \A i \in todo[client] : HighestLeft(client, i) =>
    IF details[session][i].kind = "delete" THEN \A p \in known : p > Existing
                                           ELSE known = {details[session][i].target}

DocumentInv == /\ NewOnes /\ Remembered /\ KnownFits /\ MadeIsOwned /\ UndoneFits

\* The batch that began its transaction and has met no failure.
OnTrack == {"next", "before", "create", "poll", "read", "modify", "after",
            "delete", "deleted", "judge", "commit"}
DoneAs(i) ==
  LET o == details[session][i] IN
  /\ operations[session][i].state = "applied"
  /\ o.kind = plan[i].kind
  /\ o.kind # "create" => o.target = plan[i].id
  /\ plan[i].kind = "modify" => doc[plan[i].id] = Changed(session)
  /\ plan[i].kind = "delete" => doc[plan[i].id] = Gone
  /\ plan[i].kind = "create" => o.target \in Prim /\ doc[o.target] = Made(session)

InProgress ==
  managed /\ step \in OnTrack =>
    /\ plan \in Plans
    /\ step \in {"judge", "commit"} => at = Len(plan) + 1
    /\ Len(details[session]) = IF step \in WriteSteps THEN at ELSE at - 1
    /\ \A i \in 1..at - 1 : DoneAs(i)
    /\ \A i, j \in DOMAIN details[session] :
         /\ i # j
         /\ details[session][i].kind = "create" /\ details[session][j].kind = "create"
         /\ details[session][i].target = details[session][j].target
         => details[session][i].target = NoPrim
    /\ step \in SearchSteps =>
         \A i \in 1..at - 1 : plan[i].kind = "create" => details[session][i].target \in known
    /\ step = "after" => doc[Todo.id] = Changed(session)

\* Only a batch that began its transaction commits it.
CommitIsManaged == step = "commit" => managed

DocInv == Dependable => late = {} /\ CommitIsManaged /\ DocumentInv /\ InProgress
-----------------------------------------------------------------------------
(***************************************************************************)
(* The lock.  A batch may roll back a transaction that expired meanwhile,  *)
(* which the manager's clients of discipline do not; it takes no lock then *)
(* because the batch has had its transaction since it was open, and lost   *)
(* the lock with it.                                                       *)
(***************************************************************************)

\* The manager moves nobody but the session, save for the sweep.
LEMMA OthersKeep ==
  ASSUME IInv, callTx[client] \in {session, NoTx}, session \in Tx, Manages, NEW t \in Tx, t # session
  PROVE  /\ state'[t] \in {state[t], StateNow[t]}
         /\ operations'[t] = operations[t]
<1>0. TypeOK
  BY DEF IInv
<1>1. StateNow \in [Tx -> TransactionState \cup {"none"}]
  BY <1>0, SweepStates
<1>2. pc[client] # "idle" => callTx[client] \in {session, NoTx}
  OBVIOUS
<1>3. CASE UNCHANGED managerVars
  BY <1>3 DEF managerVars, txVars
<1>4. CASE Refused
  BY <1>4 DEF Refused, Sweep
<1>5. CASE StartModifyOrDelete(client, session) \/ StartCreate(client, session)
             \/ StartValidate(client, session) \/ StartRollback(client, session)
  BY <1>0, <1>1, <1>5
     DEF StartModifyOrDelete, Sweep, StartCreate, reserveOperation, StartValidate, StartRollback, TypeOK
<1>6. CASE RollbackNothing(session) \/ Commit(session)
  BY <1>0, <1>1, <1>6 DEF RollbackNothing, finalizeRollback, Commit, TypeOK
<1>7. CASE Resume(client)
  <2>1. callTx[client] # t
    BY TxIsNotNoTx
  <2>2. CASE Reserve(client) \/ ReserveRefused(client)
               \/ \E passed \in BOOLEAN : FinishValidate(client, passed)
    BY <1>0, <2>1, <2>2 DEF Reserve, reserveOperation, ReserveRefused, FinishValidate, txVars, TypeOK
  <2>3. CASE Applied(client) \/ \E comp \in {"not-needed", "restored"} : Compensated(client, comp)
    BY <1>0, <2>1, <2>3 DEF Applied, Compensated, SetOperation, TypeOK
  <2>4. CASE failTransaction(client)
    BY <1>0, <2>1, <2>4 DEF failTransaction, SetOperation, TypeOK
  <2>5. CASE \E restored \in BOOLEAN : RestoreOperation(client, restored)
    BY <1>0, <2>1, <2>5 DEF RestoreOperation, SetOperation, TypeOK
  <2>6. CASE FinishRollback(client)
    BY <1>0, <2>1, <2>6 DEF FinishRollback, finalizeRollback, TypeOK
  <2> QED BY <1>7, <2>2, <2>3, <2>4, <2>5, <2>6 DEF Resume
<1> QED BY <1>3, <1>4, <1>5, <1>6, <1>7 DEF Manages

\* A transaction that expires owned its lock until then, and the sweep that
\* finds it frees it.
LEMMA ExpiredHasNoLock ==
  ASSUME IInv, DInv, NEW t \in Tx, StateNow[t] = "expired",
         state[t] = "expired" => activeByDocument[document[t]] = NoTx
  PROVE  LockNow[document[t]] = NoTx
<1>1. CASE t \notin Stale
  <2>1. state[t] = "expired"
    BY <1>1 DEF StateNow
  <2>2. document[t] \in Doc
    BY <2>1 DEF DInv, HolderIsLocked
  <2> QED BY <2>1, <2>2, Swept
<1>2. CASE t \in Stale
  <2>1. document[t] \in Doc /\ activeByDocument[document[t]] = t
    BY <1>2, StaleIsIdle
  <2>2. \A u \in StaleOn(document[t]) : u = t
    BY <2>1, StaleIsIdle DEF StaleOn
  <2>3. Candidates(t) = {}
    BY <1>2 DEF StateNow
  <2>4. Relocked(document[t]) = {}
    BY <2>2, <2>3 DEF Relocked
  <2>5. t \in StaleOn(document[t])
    BY <1>2 DEF StaleOn
  <2> QED BY <2>1, <2>4, <2>5 DEF LockNow
<1> QED BY <1>1, <1>2

\* Only the sweep makes a transaction expired, and only an open one.
LEMMA ExpiresFromOpen ==
  ASSUME TypeOK, [Next]_vars, NEW t \in Tx, state'[t] = "expired"
  PROVE  state[t] \in Open \cup {"expired"}
<1>1. \/ StateNow[t] = state[t]
      \/ state[t] \in Open /\ StateNow[t] \in {"failed", "expired"}
  BY SweepStates
<1>2. StateNow \in [Tx -> TransactionState \cup {"none"}]
  BY SweepStates
<1>3. ASSUME NEW u \in Tx, Client(u) PROVE state'[t] # "expired" \/ state'[t] \in {state[t], StateNow[t]}
  BY <1>2, <1>3 DEF Client, Begin, Deadline, Commit, RollbackNothing, finalizeRollback, StartModifyOrDelete,
     Sweep, StartCreate, reserveOperation, StartValidate, StartRollback
<1>4. ASSUME NEW c \in Call, Resume(c) PROVE state'[t] # "expired" \/ state'[t] = state[t]
  BY <1>4 DEF Resume, Reserve, reserveOperation, ReserveRefused, txVars, Applied, Compensated,
     failTransaction, FinishValidate, RestoreOperation, FinishRollback, finalizeRollback, TypeOK
<1>5. CASE Get \/ UNCHANGED vars
  BY <1>1, <1>5 DEF Get, Sweep, vars, txVars
<1> QED BY <1>1, <1>3, <1>4, <1>5 DEF Next

LEMMA SessionsCall ==
  ASSUME DInv, CallFits
  PROVE  callTx[client] \in {session, NoTx}
BY ClientIsCall DEF CallFits, DInv, CallersFit, OneCallEach

\* A batch that rolls an expired transaction back takes no lock.
LEMMA BatchSparesLocks ==
  ASSUME IInv, DInv, CallFits, ExpiredIsUnlocked, [BatchNext]_allVars
  PROVE  SparesLocks
<1> SUFFICES ASSUME NEW t \in Tx, RollbackNothing(t), StateNow[t] = "expired"
             PROVE  LockNow[document[t]] = NoTx
  BY DEF SparesLocks
<1>0. TypeOK
  BY DEF IInv
<1>2. StateNow \in [Tx -> TransactionState \cup {"none"}]
  BY <1>0, SweepStates
<1>4a. state'[t] = "rolled-back"
  BY <1>2 DEF RollbackNothing, finalizeRollback
<1>4b. state[t] # "rolled-back"
  BY <1>0, SweepStates DEF Open
<1>1. state'[t] = "rolled-back" /\ state[t] # "rolled-back"
  BY <1>4a, <1>4b
<1>3. CASE BatchStep
  <2>1. step # "ready" /\ Manages /\ session \in Tx
    BY <1>3, BatchStepManages DEF KeepsSession, CallFits
  <2>2. t = session
    BY <1>1, <2>1, OthersKeep, SessionsCall
  <2> QED BY <2>1, <2>2, ExpiredHasNoLock DEF ExpiredIsUnlocked
<1>4. CASE ToolStep
  BY <1>0, <1>1, <1>2, <1>4
     DEF ToolStep, ToolStatus, Get, Sweep, BatchOnOwned, Refused, ToolValidate, StartValidate,
         ToolCommit, Commit, ToolRollback, managerVars, txVars, Time, Deadline, BatchOnNew, ToolBegin, Begin
<1>5. CASE TakesEffect \/ UNCHANGED allVars
  BY <1>1, <1>5 DEF TakesEffect, allVars, managerVars, txVars
<1> QED BY <1>3, <1>4, <1>5 DEF BatchNext

\* Under way, a batch gives locks up but takes none.
LEMMA BatchStepFrees ==
  ASSUME IInv, DInv, CallFits, ExpiredIsUnlocked, BatchStep
  PROVE  FreesLocks
<1>1. SparesLocks
  BY BatchSparesLocks DEF BatchNext
<1>2. Manages /\ session \in Tx /\ state[session] # "none"
  BY BatchStepManages DEF KeepsSession, CallFits
<1>3. CASE UNCHANGED managerVars
  BY <1>3 DEF managerVars, txVars, FreesLocks
<1>4. CASE Refused
  BY <1>4, Swept DEF Refused, Sweep, FreesLocks
<1>5. CASE Resume(client)
  BY <1>5, ClientIsCall, ClientIsOrderly, ResumeFrees
<1>6. CASE \/ StartModifyOrDelete(client, session)
           \/ StartCreate(client, session)
           \/ StartValidate(client, session)
           \/ StartRollback(client, session)
           \/ RollbackNothing(session)
           \/ Commit(session)
  <2>1. Client(session)
    BY <1>6, ClientIsCall DEF Client
  <2>2. \A d \in Doc : ~Begin(session, d)
    BY <1>2 DEF Begin
  <2> QED BY <1>1, <1>2, <2>1, <2>2, ClientIsOrderly, ClientFrees
<1> QED BY <1>2, <1>3, <1>4, <1>5, <1>6 DEF Manages

\* The manager's invariants hold under batches.
LEMMA BatchKeepsManaged ==
  ASSUME IInv, DInv, CallFits, ExpiredIsUnlocked, [BatchNext]_allVars
  PROVE  [Next]_vars /\ SparesLocks /\ IInv' /\ DInv'
<1>1. [Next]_vars
  BY BatchNextIsNext DEF HasSession, CallFits, IInv
<1>2. SparesLocks
  BY BatchSparesLocks
<1> QED BY <1>1, <1>2, NextInvariant, NextDisciplined, ClientIsOrderly
-----------------------------------------------------------------------------
(***************************************************************************)
(* The types, and how the operations of a transaction and what the batch   *)
(* remembers of them grow together.                                        *)
(***************************************************************************)
LEMMA PlanOperation ==
  ASSUME plan \in Plans \cup {<<>>}
  PROVE  /\ Len(plan) \in 0..MaxBatch /\ DOMAIN plan = 1..Len(plan)
         /\ plan # <<>> => plan \in Plans
         /\ \A i \in 1..Len(plan) : /\ plan[i].kind \in {"create", "modify", "delete"}
                                    /\ plan[i].id \in 0..Existing
                                    /\ plan[i].id = NoPrim <=> plan[i].kind = "create"
         /\ \A i, j \in 1..Len(plan) : i # j /\ plan[i].id = plan[j].id => plan[i].id = NoPrim
<1>1. CASE plan = <<>>
  BY <1>1, DocumentAssumption
<1>2. CASE plan \in Plans
  <2>1. PICK n \in 1..MaxBatch : plan \in [1..n -> [kind : {"create", "modify", "delete"}, id : 0..Existing]]
    BY <1>2 DEF Plans
  <2>2. Len(plan) = n /\ DOMAIN plan = 1..n
    BY <2>1, DocumentAssumption
  <2>3. /\ \A i \in DOMAIN plan : plan[i].id = NoPrim <=> plan[i].kind = "create"
        /\ \A i, j \in DOMAIN plan : i # j /\ plan[i].id = plan[j].id => plan[i].id = NoPrim
    BY <1>2 DEF Plans
  <2> QED BY <1>2, <2>1, <2>2, <2>3, DocumentAssumption
<1> QED BY <1>1, <1>2

\* The operation in flight is the last one, with what is remembered of it.
LEMMA LastOperation ==
  ASSUME TypeOK, LogTypes, CallFits, IInv, step \in WriteSteps
  PROVE  /\ session \in Tx /\ details[session] \in Seq(Detail) /\ operations[session] \in Seq(Operation)
         /\ Len(operations[session]) = Len(details[session])
         /\ Len(details[session]) \in DOMAIN details[session]
         /\ Len(details[session]) \in DOMAIN operations[session]
         /\ operations[session][Len(details[session])].state = "pending"
         /\ Op \in Detail
<1>1. session \in Tx /\ pc[client] = "applying" /\ callTx[client] = session
      /\ todo[client] = {Len(details[session])}
  BY DEF CallFits, WriteSteps, CreateSteps, ModifySteps, DeleteSteps, BusySteps
<1>2. details[session] \in Seq(Detail) /\ operations[session] \in Seq(Operation)
      /\ Len(operations[session]) = Len(details[session])
  BY <1>1 DEF LogTypes, TypeOK
<1>3. Len(details[session]) \in DOMAIN operations[session]
      /\ operations[session][Len(details[session])].state = "pending"
  BY <1>1, ClientIsCall DEF IInv, CallsOK, ApplyingCalls
<1>4. DOMAIN operations[session] = 1..Len(operations[session])
      /\ DOMAIN details[session] = 1..Len(details[session])
  BY <1>2
<1>5. Len(details[session]) \in DOMAIN details[session]
  BY <1>2, <1>3, <1>4
<1>6. Op \in Detail
  BY <1>2, <1>5 DEF Op
<1> QED BY <1>1, <1>2, <1>3, <1>5, <1>6

LEMMA ContentTypes ==
  /\ Gone \in Content
  /\ \A t \in Tx : Made(t) \in Content /\ Changed(t) \in Content
  /\ Unknown \notin Content
  /\ \A t \in Tx : Made(t) # Gone /\ Changed(t) # Gone
  /\ \A t, u \in Tx : Made(t) # Changed(u)
  /\ \A p \in 1..Existing : Original(p) \in Content /\ Original(p) # Gone
  /\ \A p \in 1..Existing, t \in Tx : Original(p) # Made(t) /\ Original(p) # Changed(t)
BY DEF Content, Gone, Made, Changed, Unknown, Original

\* A write of a known content keeps the editor's types.
Writable(w) == w.id \in Prim \cup {NoPrim} /\ w.content \in Content

LEMMA FaultTypes ==
  ASSUME EditorTypes, NEW k, GoesWrong(k)
  PROVE  faults' \in [Fault -> 0..MaxFaults]
<1>1. k \in Fault
  BY DocumentAssumption DEF GoesWrong
<1>2. \A f \in Fault : faults[f] \in 0..MaxFaults
  BY DEF EditorTypes
<1>3. /\ faults["refused"] \in Nat /\ faults["lost"] \in Nat
      /\ faults["late"] \in Nat /\ faults["unseen"] \in Nat
  BY <1>2, DocumentAssumption DEF Fault
<1>4. k = "refused" \/ k = "lost" \/ k = "late" \/ k = "unseen"
  BY <1>1 DEF Fault
<1>5. faults[k] + 1 \in 0..MaxFaults
  BY <1>3, <1>4, DocumentAssumption DEF GoesWrong
<1> QED BY <1>1, <1>5 DEF GoesWrong, EditorTypes

LEMMA CarriedOutTypes ==
  ASSUME EditorTypes, NEW w, w.content \in Content, CarriedOut(w)
  PROVE  doc' \in [Prim -> Content] /\ fresh' \in Existing..MaxPrim
BY DocumentAssumption DEF EditorTypes, CarriedOut, Prim

LEMMA WriteTypes ==
  ASSUME EditorTypes, NEW w, Writable(w), NEW answered, Write(w, answered)
  PROVE  EditorTypes'
<1>1. CASE UNCHANGED <<doc, fresh>>
  <2>1. faults' \in [Fault -> 0..MaxFaults]
    BY <1>1, FaultTypes DEF Write, EditorTypes, editorVars
  <2>2. \A v \in late' : v[2].id \in Prim \cup {NoPrim} /\ v[2].content \in Content
    BY <1>1 DEF Write, EditorTypes, Writable, editorVars
  <2> QED BY <1>1, <2>1, <2>2 DEF EditorTypes
<1>2. CASE CarriedOut(w) /\ late' = late
  <2>1. faults' \in [Fault -> 0..MaxFaults]
    BY FaultTypes DEF Write, EditorTypes, editorVars
  <2>2. doc' \in [Prim -> Content] /\ fresh' \in Existing..MaxPrim
    BY <1>2, CarriedOutTypes DEF Writable
  <2> QED BY <1>2, <2>1, <2>2 DEF EditorTypes
<1> QED BY <1>1, <1>2 DEF Write, editorVars

LEMMA ReadTypes ==
  ASSUME EditorTypes
  PROVE  /\ \A p, x : getPrimitiveSnapshot(p, x) => EditorTypes'
         /\ \A ids : listPrimitiveIds(ids) => EditorTypes'
         /\ listFails => EditorTypes'
         /\ UNCHANGED editorVars => EditorTypes'
BY FaultTypes DEF getPrimitiveSnapshot, listPrimitiveIds, listFails, EditorTypes, editorVars

LEMMA TakesEffectTypes ==
  ASSUME EditorTypes, TakesEffect
  PROVE  EditorTypes'
<1>1. PICK w \in late : /\ late' = late \ {w}
                        /\ IF Possible(w[2]) THEN CarriedOut(w[2]) ELSE UNCHANGED <<doc, fresh>>
                        /\ faults' = faults
  BY DEF TakesEffect
<1>2. w[2].content \in Content
  BY DEF EditorTypes
<1>3. doc' \in [Prim -> Content] /\ fresh' \in Existing..MaxPrim
  BY <1>1, <1>2, CarriedOutTypes DEF EditorTypes
<1> QED BY <1>1, <1>3 DEF EditorTypes

\* What the steps of a batch write.
LEMMA BatchWrites ==
  ASSUME TypeOK, LogTypes, session \in Tx
  PROVE  /\ Writable(Create(Made(session)))
         /\ \A d \in Detail : /\ Writable(Modify(d.target, Changed(session)))
                              /\ Writable(Modify(d.target, d.before))
                              /\ Writable(Delete(d.target))
                              /\ Writable(Create(d.before))
                              /\ Writable(InverseOf(d))
<1>1. \A d \in Detail : d.target \in Prim \cup {NoPrim} /\ d.before \in Content
                        /\ d.kind \in {"create", "modify", "delete"}
  BY DEF Detail
<1>2. \A d \in Detail : /\ Writable(Modify(d.target, Changed(session)))
                        /\ Writable(Modify(d.target, d.before))
                        /\ Writable(Delete(d.target))
                        /\ Writable(Create(d.before))
  BY <1>1, ContentTypes DEF Writable, Modify, Delete, Create
<1>3. \A d \in Detail : InverseOf(d) \in {Delete(d.target), Modify(d.target, d.before), Create(d.before)}
  BY <1>1, Zenon DEF InverseOf
<1> QED BY <1>2, <1>3, ContentTypes DEF Writable, Create

\* What a rollback has to undo are operations of its transaction.
LEMMA TodoIsLogged ==
  ASSUME IInv, LogTypes, CallFits, step \in UndoSteps, NEW i \in todo[client]
  PROVE  /\ session \in Tx /\ pc[client] = "rolling" /\ callTx[client] = session
         /\ i \in DOMAIN operations[session] /\ i \in DOMAIN details[session]
         /\ details[session][i] \in Detail
<1>1. session \in Tx /\ pc[client] = "rolling" /\ callTx[client] = session
  BY DEF CallFits, UndoSteps, BusySteps
<1>2. i \in DOMAIN operations[session]
  BY <1>1, ClientIsCall DEF IInv, CallsOK, RollingCalls
<1>3. details[session] \in Seq(Detail) /\ operations[session] \in Seq(Operation)
      /\ Len(details[session]) = Len(operations[session])
  BY <1>1 DEF IInv, TypeOK, LogTypes
<1>4. DOMAIN operations[session] = DOMAIN details[session]
  BY <1>3
<1>5. details[session][i] \in Detail
  BY <1>2, <1>3, <1>4
<1> QED BY <1>1, <1>2, <1>4, <1>5

LEMMA BatchEditorTypes ==
  ASSUME IInv, LogTypes, CallFits, EditorTypes, BatchStep
  PROVE  EditorTypes'
<1>0. TypeOK
  BY DEF IInv
<1>1. session \in Tx
  BY BatchStepManages DEF CallFits
<1>2. step \in WriteSteps => Op \in Detail
  BY <1>0, LastOperation
<1>3. CASE BeforeCreate \/ PollCreated
  BY <1>3, ReadTypes DEF BeforeCreate, PollCreated
<1>3a. CASE ReconcileCreate
  BY <1>3a, ReadTypes DEF ReconcileCreate
<1>4. CASE ApplyCreate
  BY <1>0, <1>1, <1>4, BatchWrites, WriteTypes DEF ApplyCreate
<1>5. CASE ReadCreated \/ CreatedExists \/ CreatedIsGone
  BY <1>5, ReadTypes DEF ReadCreated, CreatedExists, CreatedIsGone, Reads
<1>6. CASE ReadModified \/ CompareModified \/ VerifyModified
  BY <1>6, ReadTypes DEF ReadModified, CompareModified, VerifyModified, Reads
<1>7. CASE ReadDeleted \/ StillExists \/ CompareDeleted
  BY <1>7, ReadTypes DEF ReadDeleted, StillExists, CompareDeleted, Reads
<1>8. CASE RemoveCreated \/ ApplyModify \/ RestoreModified \/ ApplyDelete \/ RecreateDeleted
  <2>1. Op \in Detail
    BY <1>2, <1>8 DEF RemoveCreated, ApplyModify, RestoreModified, ApplyDelete, RecreateDeleted,
                      WriteSteps, CreateSteps, ModifySteps, DeleteSteps
  <2>2. PICK w, answered : Writable(w) /\ Write(w, answered)
    BY <1>0, <1>1, <1>8, <2>1, BatchWrites
       DEF RemoveCreated, ApplyModify, RestoreModified, ApplyDelete, RecreateDeleted
  <2> QED BY <2>2, WriteTypes
<1>9. CASE Undo
  <2>1. PICK i \in todo[client], answered \in BOOLEAN : Write(InverseOf(details[session][i]), answered)
    BY <1>9 DEF Undo
  <2>2. details[session][i] \in Detail
    BY <1>9, <2>1, TodoIsLogged DEF Undo, UndoSteps
  <2> QED BY <1>0, <1>1, <2>1, <2>2, BatchWrites, WriteTypes
<1>10. CASE VerifyUndone \/ CaptureBefore
  BY <1>10, ReadTypes DEF VerifyUndone, CaptureBefore
<1>11. CASE RollbackBegins \/ RollbackEnds \/ BeforeModifyOrDelete \/ BatchEnds \/ Judge \/ CommitBatch
  BY <1>11, ReadTypes DEF RollbackBegins, RollbackEnds, BeforeModifyOrDelete, BatchEnds, Judge, CommitBatch
<1> QED BY <1>3, <1>3a, <1>4, <1>5, <1>6, <1>7, <1>8, <1>9, <1>10, <1>11
        DEF BatchStep, CreateStep, ModifyStep, DeleteStep, RollbackStep

LEMMA ToolsEditNothing == ToolStep => UNCHANGED <<editorVars, details>>
BY DEF ToolStep, ToolStatus, BatchOnOwned, ToolValidate, ToolCommit, ToolRollback, Time, BatchOnNew, ToolBegin

LEMMA NextEditorTypes ==
  ASSUME IInv, LogTypes, CallFits, EditorTypes, [BatchNext]_allVars
  PROVE  EditorTypes'
<1>1. CASE ToolStep \/ UNCHANGED allVars
  BY <1>1, ToolsEditNothing, ReadTypes DEF allVars
<1> QED BY <1>1, BatchEditorTypes, TakesEffectTypes DEF BatchNext
-----------------------------------------------------------------------------
(***************************************************************************)
(* The shapes of the steps: all that is said of the batch and the manager, *)
(* whatever the document answers.                                          *)
(***************************************************************************)

\* The operation in flight goes on, and may have found its primitive.
Within(S) ==
  /\ step \in S /\ step' \in S
  /\ UNCHANGED <<managerVars, details, session, managed, plan, at, known, answer, batches>>
Finds ==
  /\ step \in SearchSteps /\ step' \in CreateSteps \ SearchSteps
  /\ \E p \in Prim : Found(p)
  /\ UNCHANGED <<managerVars, session, managed, plan, at, known, answer, batches>>
GoesOn == Within(SearchSteps) \/ Within(CreateSteps \ SearchSteps) \/ Within(ModifySteps)
          \/ Within(DeleteSteps) \/ Finds

\* It has its outcome.
Settles == /\ step \in WriteSteps
           /\ Succeeds \/ Fails \/ \E comp \in {"not-needed", "restored"} : Undone(comp)

\* An operation is reserved, or it is not.
Reserves ==
  \/ /\ step = "next" /\ at <= Len(plan) /\ Todo.kind = "create"
     /\ StartCreate(client, session)
     /\ Log([kind |-> "create", target |-> NoPrim, before |-> Gone])
     /\ step' = "create" /\ known' \in {Listed, {}}
     /\ UNCHANGED <<session, managed, plan, at, answer, batches>>
  \/ /\ step = "before"
     /\ Reserve(client)
     /\ \E x \in Content : Log([kind |-> Todo.kind, target |-> Todo.id, before |-> x])
     /\ Go(Todo.kind)
IsRejected ==
  \/ step = "next" /\ (IsRefused(Refused) \/ IsRefused(UNCHANGED managerVars))
  \/ step = "before" /\ IsRefused(ReserveRefused(client))

\* One new primitive is a primitive.
LEMMA FindIsFound ==
  ASSUME NEW ids \in {Listed, {}}, Identified(ids), Find(ids)
  PROVE  \E p \in ids \ known : p \in Prim /\ ids \ known = {p} /\ Found(p)
<1>1. ids \subseteq Prim /\ Prim \in SUBSET (1..MaxPrim)
  BY DEF Listed, Prim
<1>2. IsFiniteSet(ids \ known)
  <2>1. IsFiniteSet(1..MaxPrim)
    BY DocumentAssumption, FS_Interval
  <2> QED BY <1>1, <2>1, FS_Subset
<1>3. PICK p : ids \ known = {p}
  BY <1>2, FS_Singleton DEF Identified
<1>4. (CHOOSE q \in ids \ known : TRUE) = p
  BY <1>3
<1> QED BY <1>1, <1>3, <1>4 DEF Find

LEMMA CreateShapes == CreateStep => GoesOn \/ Settles \/ Reserves \/ IsRejected
<1> USE DEF WriteSteps, CreateSteps, SearchSteps
<1>1. BeforeCreate => Reserves \/ IsRejected
  BY DEF BeforeCreate, Reserves, IsRejected
<1>2. ApplyCreate => GoesOn
  BY DEF ApplyCreate, Then, Go, GoesOn, Within
<1>3. ASSUME PollCreated PROVE GoesOn
  <2>1. CASE \E ids \in {Listed, {}} : Identified(ids) /\ Find(ids) /\ Go("read") /\ UNCHANGED managerVars
    BY <1>3, <2>1, FindIsFound DEF PollCreated, Go, GoesOn, Finds
  <2>2. CASE Then("reconcile")
    BY <1>3, <2>2 DEF PollCreated, Then, Go, GoesOn, Within
  <2> QED BY <1>3, <2>1, <2>2 DEF PollCreated
<1>4. ReadCreated => GoesOn \/ Settles
  BY DEF ReadCreated, Then, Go, GoesOn, Within, Settles
<1>5. ASSUME ReconcileCreate PROVE GoesOn \/ Settles
  <2>1. CASE \E ids \in {Listed, {}} : Identified(ids) /\ Find(ids) /\ Go("exists") /\ UNCHANGED managerVars
    BY <1>5, <2>1, FindIsFound DEF ReconcileCreate, Go, GoesOn, Finds
  <2>2. CASE Fails \/ Undone("not-needed")
    BY <1>5, <2>2 DEF ReconcileCreate, Settles
  <2> QED BY <1>5, <2>1, <2>2 DEF ReconcileCreate
<1>6. CreatedExists => GoesOn \/ Settles
  BY DEF CreatedExists, Then, Go, GoesOn, Within, Settles
<1>7. RemoveCreated => GoesOn \/ Settles
  BY DEF RemoveCreated, Then, Go, GoesOn, Within, Settles
<1>8. CreatedIsGone => GoesOn \/ Settles
  BY DEF CreatedIsGone, Settles
<1> QED BY <1>1, <1>2, <1>3, <1>4, <1>5, <1>6, <1>7, <1>8 DEF CreateStep

LEMMA ModifyShapes == ModifyStep => GoesOn \/ Settles
<1> USE DEF WriteSteps, ModifySteps, GoesOn, Within, Settles, Then, Go
<1>1. ApplyModify => GoesOn
  BY DEF ApplyModify
<1>2. ReadModified => GoesOn \/ Settles
  BY DEF ReadModified
<1>3. CompareModified => GoesOn \/ Settles
  BY DEF CompareModified
<1>4. RestoreModified => GoesOn \/ Settles
  BY DEF RestoreModified
<1>5. VerifyModified => GoesOn \/ Settles
  BY DEF VerifyModified
<1> QED BY <1>1, <1>2, <1>3, <1>4, <1>5 DEF ModifyStep

LEMMA DeleteShapes == DeleteStep => GoesOn \/ Settles
<1> USE DEF WriteSteps, DeleteSteps, GoesOn, Within, Settles, Then, Go
<1>1. ApplyDelete => GoesOn
  BY DEF ApplyDelete
<1>2. ReadDeleted => GoesOn \/ Settles
  BY DEF ReadDeleted
<1>3. StillExists => GoesOn \/ Settles
  BY DEF StillExists
<1>4. CompareDeleted => GoesOn \/ Settles
  BY DEF CompareDeleted
<1>5. RecreateDeleted => GoesOn \/ Settles
  BY DEF RecreateDeleted
<1> QED BY <1>1, <1>2, <1>3, <1>4, <1>5 DEF DeleteStep

LEMMA CaptureShapes == CaptureBefore => Reserves \/ IsRejected
BY DEF CaptureBefore, Reserves, IsRejected

LEMMA BatchShapes ==
  BatchStep => GoesOn \/ Settles \/ Reserves \/ IsRejected \/ BeforeModifyOrDelete
               \/ RollbackStep \/ BatchEnds \/ Judge \/ CommitBatch
BY CreateShapes, ModifyShapes, DeleteShapes, CaptureShapes DEF BatchStep
-----------------------------------------------------------------------------
(***************************************************************************)
(* What each shape makes of the session.                                   *)
(***************************************************************************)
LEMMA LoggedEffect ==
  ASSUME IInv, LogTypes, session \in Tx, session' = session, NEW d \in Detail, Log(d),
         operations'[session] = Append(operations[session], PendingOperation),
         \A t \in Tx : t # session => operations'[t] = operations[t]
  PROVE  /\ LogTypes'
         /\ Len(details'[session]) = Len(details[session]) + 1
         /\ DOMAIN details'[session] = DOMAIN details[session] \cup {Len(details[session]) + 1}
         /\ details'[session][Len(details[session]) + 1] = d
         /\ Op' = d
         /\ \A i \in DOMAIN details[session] : details'[session][i] = details[session][i]
         /\ \A t \in Tx : t # session => details'[t] = details[t]
<1>1. details[session] \in Seq(Detail) /\ operations[session] \in Seq(Operation)
      /\ Len(details[session]) = Len(operations[session]) /\ PendingOperation \in Operation
  BY DEF LogTypes, IInv, TypeOK, PendingOperation, Operation
<1>2. details'[session] = Append(details[session], d)
      /\ \A t \in Tx : t # session => details'[t] = details[t]
  BY DEF Log, LogTypes
<1>3. /\ Len(details'[session]) = Len(details[session]) + 1
      /\ DOMAIN details'[session] = DOMAIN details[session] \cup {Len(details[session]) + 1}
      /\ details'[session][Len(details[session]) + 1] = d
      /\ \A i \in DOMAIN details[session] : details'[session][i] = details[session][i]
      /\ details'[session] \in Seq(Detail)
  BY <1>1, <1>2
<1>4. Len(operations'[session]) = Len(operations[session]) + 1
  BY <1>1
<1>5. LogTypes'
  <2>1. details' \in [Tx -> Seq(Detail)]
    BY <1>2, <1>3 DEF LogTypes, Log
  <2>2. \A t \in Tx : Len(details'[t]) = Len(operations'[t])
    BY <1>1, <1>2, <1>3, <1>4 DEF LogTypes
  <2> QED BY <2>1, <2>2 DEF LogTypes
<1>6. Op' = d
  BY <1>3 DEF Op
<1> QED BY <1>2, <1>3, <1>5, <1>6

LEMMA FoundEffect ==
  ASSUME IInv, LogTypes, session \in Tx, session' = session, NEW p \in Prim, Found(p),
         NEW n, n = Len(details[session]), n \in DOMAIN details[session]
  PROVE  /\ details' \in [Tx -> Seq(Detail)]
         /\ \A t \in Tx : Len(details'[t]) = Len(details[t])
         /\ \A t \in Tx : t # session => details'[t] = details[t]
         /\ DOMAIN details'[session] = DOMAIN details[session]
         /\ \A i \in DOMAIN details[session] : i # n => details'[session][i] = details[session][i]
         /\ details'[session][n].target = p
         /\ details'[session][n].kind = details[session][n].kind
         /\ details'[session][n].before = details[session][n].before
<1> DEFINE o == details[session][n]
           e == [o EXCEPT !.target = p]
           s == [details[session] EXCEPT ![n] = e]
<1>1. details[session] \in Seq(Detail) /\ o \in Detail
  BY DEF LogTypes
<1>2. e \in Detail /\ e.target = p /\ e.kind = o.kind /\ e.before = o.before
  BY <1>1 DEF Detail
<1>3. details' = [details EXCEPT ![session] = s]
  BY DEF Found
<1> HIDE DEF e
<1>4. /\ s \in Seq(Detail) /\ Len(s) = Len(details[session]) /\ DOMAIN s = DOMAIN details[session]
      /\ s[n] = e /\ \A i \in DOMAIN details[session] : i # n => s[i] = details[session][i]
  BY <1>1, <1>2
<1> HIDE DEF s
<1>5. details'[session] = s /\ \A t \in Tx : t # session => details'[t] = details[t]
  BY <1>3 DEF LogTypes
<1>6. details' \in [Tx -> Seq(Detail)]
  BY <1>3, <1>4 DEF LogTypes
<1> QED BY <1>2, <1>4, <1>5, <1>6

LEMMA WithinFits ==
  ASSUME IInv, SessionFits,
         NEW S \in {SearchSteps, CreateSteps \ SearchSteps, ModifySteps, DeleteSteps}, Within(S)
  PROVE  SessionFits'
<1>1. session \in Tx /\ step \in WriteSteps /\ step' \in WriteSteps
  BY DEF SessionFits, CallFits, Within, SearchSteps, CreateSteps, ModifySteps, DeleteSteps, WriteSteps,
         BusySteps, IdleSteps
<1>2. /\ UNCHANGED <<state, operations, details, session, managed, plan, at, known, answer, batches>>
      /\ UNCHANGED <<pc, callTx, todo>>
  BY DEF Within, managerVars, txVars, callVars
<1>3. Op' = Op /\ Todo' = Todo
  BY <1>2 DEF Op, Todo
<1>4. LogTypes' /\ ClientTypes'
  BY <1>2 DEF SessionFits, LogTypes, ClientTypes
<1>5. CallFits'
  BY <1>1, <1>2 DEF SessionFits, CallFits, WriteSteps, CreateSteps, ModifySteps, DeleteSteps,
                    BusySteps, IdleSteps, UndoSteps
<1>6. PlanFits'
  BY <1>1, <1>2, <1>3 DEF SessionFits, PlanFits, Within, WriteSteps, SearchSteps, CreateSteps, ModifySteps, DeleteSteps
<1>7. TodoIsWritten'
  BY <1>1 DEF TodoIsWritten, WriteSteps, CreateSteps, ModifySteps, DeleteSteps, UndoSteps
<1>8. TxFits(session)'
  BY <1>1, <1>2 DEF SessionFits, TxFits, WriteSteps, CreateSteps, ModifySteps, DeleteSteps, UndoSteps
<1> QED BY <1>4, <1>5, <1>6, <1>7, <1>8, <1>2 DEF SessionFits

LEMMA FindsFits ==
  ASSUME IInv, SessionFits, Finds
  PROVE  SessionFits'
<1>0. TypeOK
  BY DEF IInv
<1>1. session \in Tx /\ step \in WriteSteps /\ step' \in WriteSteps
  BY DEF SessionFits, CallFits, Finds, SearchSteps, CreateSteps, WriteSteps, BusySteps, IdleSteps
<1>2. /\ UNCHANGED <<state, operations, session, managed, plan, at, known, answer, batches>>
      /\ UNCHANGED <<pc, callTx, todo>>
  BY DEF Finds, managerVars, txVars, callVars
<1>3. PICK p \in Prim : Found(p)
  BY DEF Finds
<1>4. Len(details[session]) \in DOMAIN details[session]
  BY <1>0, <1>1, LastOperation DEF SessionFits
<1>5. /\ details' \in [Tx -> Seq(Detail)]
      /\ \A t \in Tx : Len(details'[t]) = Len(details[t])
      /\ details'[session][Len(details[session])].target = p
      /\ details'[session][Len(details[session])].kind = details[session][Len(details[session])].kind
  BY <1>1, <1>2, <1>3, <1>4, FoundEffect DEF SessionFits
<1>6. Op'.target = p /\ Op'.kind = Op.kind /\ Todo' = Todo
  BY <1>1, <1>2, <1>5 DEF Op, Todo
<1>7. LogTypes' /\ ClientTypes'
  BY <1>2, <1>5 DEF SessionFits, LogTypes, ClientTypes
<1>8. CallFits'
  BY <1>1, <1>2, <1>5 DEF SessionFits, CallFits, WriteSteps, CreateSteps, ModifySteps, DeleteSteps,
                    BusySteps, IdleSteps, UndoSteps
<1>9. PlanFits'
  BY <1>1, <1>2, <1>6 DEF SessionFits, PlanFits, Finds, WriteSteps, SearchSteps, CreateSteps, ModifySteps, DeleteSteps
<1>10. TodoIsWritten'
  BY <1>1 DEF TodoIsWritten, WriteSteps, CreateSteps, ModifySteps, DeleteSteps, UndoSteps
<1>11. TxFits(session)'
  <2>1. state[session] \notin {"none", "expired"}
    BY <1>1, <1>4 DEF SessionFits, TxFits
  <2> QED BY <1>1, <1>2, <2>1 DEF SessionFits, TxFits, WriteSteps, CreateSteps, ModifySteps, DeleteSteps, UndoSteps
<1> QED BY <1>7, <1>8, <1>9, <1>10, <1>11, <1>2 DEF SessionFits

\* The effect of an outcome.
LEMMA OutcomeEffect ==
  ASSUME IInv, SessionFits, step \in WriteSteps,
         NEW i \in todo[client],
         NEW to \in {"applied", "cancelled", "failed"},
         NEW comp \in {"undefined", "not-needed", "restored", "failed"},
         SetOperation(callTx[client], i, to, comp)
  PROVE  /\ i = Len(details[session]) /\ i \in DOMAIN operations[session]
         /\ \A t \in Tx : DOMAIN operations'[t] = DOMAIN operations[t]
         /\ \A t \in Tx : Len(operations'[t]) = Len(operations[t])
         /\ \A t \in Tx : t # session => operations'[t] = operations[t]
         /\ \A j \in DOMAIN operations[session] :
              operations'[session][j] = IF j = i THEN [state |-> to, compensation |-> comp]
                                                 ELSE operations[session][j]
<1>0. TypeOK
  BY DEF IInv
<1>1. session \in Tx /\ callTx[client] = session /\ todo[client] = {Len(details[session])}
  BY DEF SessionFits, CallFits, WriteSteps, CreateSteps, ModifySteps, DeleteSteps, BusySteps, IdleSteps
<1>2. i = Len(details[session]) /\ i \in DOMAIN operations[session]
  BY <1>0, <1>1, LastOperation DEF SessionFits
<1> QED BY <1>0, <1>1, <1>2, SetOperationEffect

\* Steps at which a write is in flight, once for all.
LEMMA WriteIsBusy ==
  /\ WriteSteps \cap IdleSteps = {} /\ WriteSteps \cap UndoSteps = {} /\ UndoSteps \cap IdleSteps = {}
  /\ BusySteps \cap IdleSteps = {}
  /\ WriteSteps \subseteq BusySteps /\ UndoSteps \subseteq BusySteps
  /\ \A s \in WriteSteps \cup UndoSteps : s \notin {"ready", "before", "judge", "next", "rollback", "commit"}
  /\ \A s \in {"before", "judge"} : s \in BusySteps /\ s \notin IdleSteps
BY DEF WriteSteps, CreateSteps, ModifySteps, DeleteSteps, IdleSteps, UndoSteps, BusySteps

LEMMA StepClasses ==
  /\ SearchSteps \subseteq CreateSteps
  /\ WriteSteps = CreateSteps \cup ModifySteps \cup DeleteSteps
  /\ CreateSteps \cap ModifySteps = {} /\ CreateSteps \cap DeleteSteps = {} /\ ModifySteps \cap DeleteSteps = {}
  /\ "create" \in SearchSteps /\ "modify" \in ModifySteps /\ "delete" \in DeleteSteps
BY DEF WriteSteps, CreateSteps, ModifySteps, DeleteSteps, SearchSteps

\* In short: the batch is at an idle step, or hands over to its rollback.
LEMMA IdlePlan ==
  ASSUME PlanFits, plan' = plan, step' \in IdleSteps, at' \in 1..Len(plan) + 1
  PROVE  PlanFits'
BY WriteIsBusy, StepClasses DEF PlanFits, IdleSteps

LEMMA SettlesFits ==
  ASSUME Orderly, IInv, IInv', DInv, SessionFits, Settles
  PROVE  SessionFits'
<1>0. TypeOK /\ TypeOK'
  BY DEF IInv
<1>1. session \in Tx /\ callTx[client] = session /\ pc[client] = "applying" /\ step \in WriteSteps
      /\ state[session] # "none" /\ answer # "committed"
  BY WriteIsBusy DEF SessionFits, CallFits, Settles
<1>2. PICK i \in todo[client], to \in {"applied", "cancelled", "failed"},
           comp \in {"undefined", "not-needed", "restored", "failed"} :
        /\ SetOperation(callTx[client], i, to, comp)
        /\ Return(client)
        /\ UNCHANGED <<details, session, managed, plan, answer, batches>> /\ known' = {}
        /\ \/ to = "applied" /\ step' = "next" /\ at' = at + 1 /\ state' = state
           \/ /\ to # "applied" /\ step' = "rollback" /\ at' = at
              /\ state' = state \/ state' = [state EXCEPT ![callTx[client]] = "failed"]
  <2>1. CASE Succeeds
    <3>1. PICK i \in todo[client] : SetOperation(callTx[client], i, "applied", operations[callTx[client]][i].compensation)
      BY <2>1 DEF Succeeds, Applied
    <3>2. operations[callTx[client]][i].compensation \in {"undefined", "not-needed", "restored", "failed"}
      <4>1. i \in DOMAIN operations[callTx[client]] /\ operations[callTx[client]] \in Seq(Operation)
        BY <1>0, <1>1, ClientIsCall DEF IInv, CallsOK, ApplyingCalls, TypeOK
      <4>2. operations[callTx[client]][i] \in Operation
        BY <4>1
      <4> QED BY <4>2 DEF Operation
    <3> QED BY <2>1, <3>1, <3>2 DEF Succeeds, Applied, Proceed
  <2>2. CASE Fails
    BY <2>2 DEF Fails, failTransaction, ToRollback
  <2>3. CASE \E comp \in {"not-needed", "restored"} : Undone(comp)
    BY <2>3 DEF Undone, Compensated, ToRollback
  <2> QED BY <2>1, <2>2, <2>3 DEF Settles
<1>3. /\ i = Len(details[session]) /\ i \in DOMAIN operations[session]
      /\ \A t \in Tx : DOMAIN operations'[t] = DOMAIN operations[t]
      /\ \A t \in Tx : Len(operations'[t]) = Len(operations[t])
      /\ \A j \in DOMAIN operations[session] :
           operations'[session][j] = IF j = i THEN [state |-> to, compensation |-> comp]
                                              ELSE operations[session][j]
  BY <1>1, <1>2, OutcomeEffect
<1>4. LogTypes' /\ ClientTypes'
  BY <1>2, <1>3 DEF SessionFits, LogTypes, ClientTypes
<1>5. pc'[client] = "idle"
  BY <1>0, <1>2, ClientIsCall DEF Return, TypeOK
<1>6. CallFits'
  <2>1. state'[session] # "none"
    BY <1>0, <1>1, <1>2 DEF TypeOK
  <2>2. step' \in {"next", "rollback"} /\ session' = session /\ answer' = answer
    BY <1>2
  <2> QED BY <1>1, <1>5, <2>1, <2>2, WriteIsBusy DEF CallFits, IdleSteps
<1>7. PlanFits'
  <2>1. at \in 1..Len(plan) /\ plan \in Plans \cup {<<>>}
    BY <1>1, PlanOperation DEF SessionFits, PlanFits
  <2>2. step' \in IdleSteps /\ at' \in 1..Len(plan) + 1
    BY <1>2, <2>1, PlanOperation DEF IdleSteps
  <2> QED BY <1>2, <2>2, IdlePlan DEF SessionFits
<1>8. TodoIsWritten'
  BY <1>2 DEF TodoIsWritten, UndoSteps
<1>9. TxFits(session)'
  <2>1. state[session] \in Open
    BY <1>1, ClientIsCall DEF DInv, CallersFit, CallersStay
  <2>2. state'[session] \in Open \/ (state'[session] = "failed" /\ step' = "rollback")
    BY <1>0, <1>1, <1>2, <2>1 DEF TypeOK
  <2>3. step' = "next" => \A j \in DOMAIN operations'[session] : operations'[session][j].state = "applied"
    <3>1. \A j \in DOMAIN operations[session] : operations[session][j].state = "applied" \/ j = i
      BY <1>1, <1>3, <2>1, WriteIsBusy DEF SessionFits, TxFits, LogTypes
    <3>2. DOMAIN operations'[session] = DOMAIN operations[session]
      BY <1>1, <1>3
    <3>3. step' = "next" => to = "applied"
      BY <1>2
    <3> QED BY <1>3, <3>1, <3>2, <3>3
  <2>4. step' \in {"next", "rollback"} /\ session' = session
    BY <1>2
  <2> QED BY <2>2, <2>3, <2>4 DEF TxFits, Open
<1> QED BY <1>2, <1>4, <1>6, <1>7, <1>8, <1>9 DEF SessionFits

\* A reservation, whether or not something was read for it before.
LEMMA ReservesEffect ==
  ASSUME IInv, IInv', DInv, SessionFits, Reserves
  PROVE  /\ step \in {"next", "before"} /\ session \in Tx
         /\ UNCHANGED <<session, managed, plan, at, answer, batches>> /\ known' \subseteq Prim
         /\ at \in 1..Len(plan)
         /\ step' = Todo.kind /\ Todo' = Todo
         /\ \E x \in Content : /\ Log([kind |-> Todo.kind, target |-> Todo.id, before |-> x])
                               /\ Todo.kind = "create" => x = Gone
         /\ [kind : {Todo.kind}, target : {Todo.id}, before : Content] \subseteq Detail
         /\ operations'[session] = Append(operations[session], PendingOperation)
         /\ \A t \in Tx : t # session => operations'[t] = operations[t]
         /\ pc'[client] = "applying" /\ callTx'[client] = session
         /\ todo'[client] = {Len(operations[session]) + 1}
         /\ state[session] \in Open /\ state'[session] = "active"
<1>0. TypeOK
  BY DEF IInv
<1>1. step \in {"next", "before"} /\ session \in Tx /\ (step = "before" => callTx[client] = session)
  BY WriteIsBusy DEF Reserves, SessionFits, CallFits
<1>2. UNCHANGED <<session, managed, plan, at, answer, batches>> /\ known' \subseteq Prim
  BY DEF Reserves, Go, SessionFits, ClientTypes, Listed
<1>3. at \in 1..Len(plan) /\ plan \in Plans \cup {<<>>}
  BY PlanOperation DEF Reserves, SessionFits, PlanFits
<1>4. /\ Todo.kind \in {"create", "modify", "delete"} /\ Todo.id \in 0..Existing
      /\ Todo.id = NoPrim <=> Todo.kind = "create"
  BY <1>3, PlanOperation DEF Todo
<1>5. step' = Todo.kind /\ Todo' = Todo
  BY <1>2 DEF Reserves, Go, Todo
<1>6. \E x \in Content : /\ Log([kind |-> Todo.kind, target |-> Todo.id, before |-> x])
                         /\ Todo.kind = "create" => x = Gone
  <2>1. step = "before" => Todo.kind # "create"
    BY DEF SessionFits, PlanFits
  <2> QED BY <1>4, <2>1, ContentTypes DEF Reserves
<1>7. [kind : {Todo.kind}, target : {Todo.id}, before : Content] \subseteq Detail
  BY <1>4, DocumentAssumption DEF Detail, Prim, NoPrim
<1>8. PICK s \in {state, StateNow} : reserveOperation(s, client, session)
  BY <1>1 DEF Reserves, StartCreate, Reserve
<1>9. s \in [Tx -> TransactionState \cup {"none"}]
  BY <1>0, SweepStates DEF TypeOK
<1>10. state[session] \in Open
  BY <1>1, <1>8, Swept DEF reserveOperation
<1>11. /\ operations'[session] = Append(operations[session], PendingOperation)
       /\ \A t \in Tx : t # session => operations'[t] = operations[t]
  BY <1>0, <1>1, <1>8 DEF reserveOperation, TypeOK
<1>12. /\ pc'[client] = "applying" /\ callTx'[client] = session
       /\ todo'[client] = {Len(operations[session]) + 1}
  BY <1>0, <1>8, ClientIsCall, EnterIs DEF reserveOperation
<1>13. state'[session] = "active"
  BY <1>1, <1>8, <1>9 DEF reserveOperation
<1> QED BY <1>1, <1>2, <1>3, <1>5, <1>6, <1>7, <1>10, <1>11, <1>12, <1>13

LEMMA ReservesFits ==
  ASSUME IInv, IInv', DInv, SessionFits, Reserves
  PROVE  SessionFits'
<1>0. TypeOK /\ TypeOK'
  BY DEF IInv
<1>1. /\ step \in {"next", "before"} /\ session \in Tx
      /\ UNCHANGED <<session, managed, plan, at, answer, batches>> /\ known' \subseteq Prim
      /\ at \in 1..Len(plan)
      /\ step' = Todo.kind /\ Todo' = Todo
      /\ operations'[session] = Append(operations[session], PendingOperation)
      /\ \A t \in Tx : t # session => operations'[t] = operations[t]
      /\ pc'[client] = "applying" /\ callTx'[client] = session
      /\ todo'[client] = {Len(operations[session]) + 1}
      /\ state[session] \in Open /\ state'[session] = "active"
  BY ReservesEffect
<1>2. PICK x \in Content : Log([kind |-> Todo.kind, target |-> Todo.id, before |-> x])
  BY ReservesEffect
<1>3. PICK d \in Detail : Log(d) /\ d.kind = Todo.kind /\ d.target = Todo.id
  BY <1>2, ReservesEffect
<1>4. /\ LogTypes'
      /\ Len(details'[session]) = Len(details[session]) + 1
      /\ Op' = d
  BY <1>1, <1>3, LoggedEffect DEF SessionFits
<1>5. /\ Todo.kind \in {"create", "modify", "delete"}
      /\ Todo.id = NoPrim <=> Todo.kind = "create"
  BY <1>1, PlanOperation DEF Todo, SessionFits, PlanFits
<1>6. step' \in WriteSteps /\ answer # "committed"
  BY <1>1, <1>5, StepClasses DEF SessionFits, CallFits
<1>7. ClientTypes'
  BY <1>1 DEF SessionFits, ClientTypes
<1>8. CallFits'
  <2>1. Len(operations[session]) = Len(details[session])
    BY <1>1 DEF SessionFits, LogTypes
  <2>2. todo'[client] = {Len(details'[session])}
    BY <1>1, <1>4, <2>1
  <2> QED BY <1>1, <1>6, <2>2, WriteIsBusy DEF CallFits
<1>9. PlanFits'
  BY <1>1, <1>3, <1>4, <1>5, <1>6, StepClasses, WriteIsBusy DEF SessionFits, PlanFits, SearchSteps
<1>10. TodoIsWritten'
  BY <1>6, WriteIsBusy DEF TodoIsWritten
<1>11. TxFits(session)'
  <2>1. operations[session] \in Seq(Operation) /\ PendingOperation \in Operation
    BY <1>0, <1>1 DEF TypeOK, PendingOperation, Operation
  <2>2. \A i \in DOMAIN operations[session] : operations[session][i].state = "applied"
    BY <1>1, WriteIsBusy DEF SessionFits, TxFits
  <2>3. \A i \in DOMAIN operations'[session] :
          operations'[session][i].state = "applied" \/ i = Len(operations'[session])
    BY <1>1, <2>1, <2>2
  <2> QED BY <1>1, <1>6, <2>3 DEF TxFits
<1> QED BY <1>1, <1>4, <1>7, <1>8, <1>9, <1>10, <1>11 DEF SessionFits

\* A transaction that expires in a sweep has no operation.
LEMMA NothingExpires ==
  ASSUME IInv, LogTypes, NEW t \in Tx, TxFits(t), StateNow[t] = "expired",
         t = session => step \notin WriteSteps \cup {"rollback"}
  PROVE  details[t] = <<>>
<1>1. CASE t \notin Stale
  BY <1>1 DEF StateNow, TxFits
<1>2. CASE t \in Stale
  <2>1. state[t] \in Open /\ Candidates(t) = {}
    BY <1>2 DEF StateNow, Stale
  <2>2. \A i \in DOMAIN operations[t] : operations[t][i].state = "applied"
    BY <2>1 DEF TxFits
  <2>3. DOMAIN operations[t] = {}
    BY <2>1, <2>2 DEF Candidates, Unresolved
  <2>4. operations[t] \in Seq(Operation) /\ details[t] \in Seq(Detail) /\ Len(details[t]) = Len(operations[t])
    BY DEF IInv, TypeOK, LogTypes
  <2>5. DOMAIN operations[t] = 1..Len(operations[t]) /\ Len(operations[t]) \in Nat
    BY <2>4
  <2>6. Len(operations[t]) = 0
    <3>1. 1 \notin 1..Len(operations[t])
      BY <2>3, <2>5
    <3> QED BY <2>5, <3>1
  <2> QED BY <2>4, <2>6
<1> QED BY <1>1, <1>2

\* Between the operations of a batch its transaction is in no transit state.
LEMMA IdleState ==
  ASSUME IInv, DInv, SessionFits, step \in IdleSteps \cup {"before"}, session \in Tx
  PROVE  /\ state[session] \notin {"validating", "rolling-back"}
         /\ StateNow[session] \notin {"validating", "rolling-back"}
         /\ StateNow[session] \in Open => state[session] = StateNow[session]
         /\ StateNow[session] = "none" <=> state[session] = "none"
<1>1. state[session] \notin {"validating", "rolling-back"}
  BY WriteIsBusy DEF SessionFits, TxFits, IdleSteps
<1> QED BY <1>1, Swept, SweepStates DEF IInv

\* The batch comes to an idle step.
LEMMA IdleFits ==
  ASSUME SessionFits, LogTypes', ClientTypes', session \in Tx, UNCHANGED <<session, plan>>,
         step' \in IdleSteps, at' \in {1, at}, pc'[client] = "idle",
         step' # "ready" => state'[session] # "none" /\ answer' # "committed",
         TxFits(session)'
  PROVE  SessionFits'
<1>1. CallFits'
  BY WriteIsBusy DEF CallFits, IdleSteps
<1>2. at' \in 1..Len(plan) + 1
  BY PlanOperation DEF SessionFits, PlanFits
<1>3. PlanFits'
  BY <1>2, IdlePlan DEF SessionFits
<1>4. TodoIsWritten'
  BY WriteIsBusy DEF TodoIsWritten
<1> QED BY <1>1, <1>3, <1>4 DEF SessionFits

\* Nothing is written, only swept.
LEMMA SweptFits ==
  ASSUME IInv, DInv, SessionFits, session \in Tx, step \in {"next", "before"}, UNCHANGED <<operations, details, session>>,
         state'[session] \in {state[session], StateNow[session]},
         step' \in IdleSteps
  PROVE  TxFits(session)'
<1>1. state'[session] \notin {"validating", "rolling-back"} /\ state[session] # "none"
      /\ (state'[session] \in Open => state[session] \in Open)
      /\ state'[session] # "none"
  BY IdleState DEF IdleSteps, SessionFits, CallFits
<1>2. state'[session] = "expired" => details[session] = <<>>
  BY NothingExpires, WriteIsBusy DEF SessionFits, TxFits
<1>3. state[session] \in Open => \A i \in DOMAIN operations[session] : operations[session][i].state = "applied"
  BY WriteIsBusy DEF SessionFits, TxFits
<1> QED BY <1>1, <1>2, <1>3 DEF TxFits

LEMMA RejectedFits ==
  ASSUME IInv, DInv, SessionFits, IsRejected
  PROVE  SessionFits'
<1>0. TypeOK
  BY DEF IInv
<1>1. /\ step \in {"next", "before"} /\ session \in Tx /\ answer # "committed" /\ state[session] # "none"
      /\ step = "next" => pc[client] = "idle"
  BY WriteIsBusy DEF IsRejected, SessionFits, CallFits, IdleSteps
<1>2. /\ UNCHANGED <<operations, details, session, plan, at, managed, answer, batches>>
      /\ known' = {} /\ step' = "rollback"
      /\ state'[session] \in {state[session], StateNow[session]}
      /\ step = "next" => pc' = pc
      /\ step = "before" => Return(client)
  BY DEF IsRejected, IsRefused, Refused, Sweep, ReserveRefused, ToRollback, managerVars, txVars, callVars
<1>3. pc'[client] = "idle"
  BY <1>0, <1>1, <1>2, ClientIsCall DEF Return, TypeOK
<1>4. LogTypes' /\ ClientTypes'
  BY <1>2 DEF SessionFits, LogTypes, ClientTypes
<1>5. step' \in IdleSteps
  BY <1>2 DEF IdleSteps
<1>6. TxFits(session)'
  BY <1>1, <1>2, <1>5, SweptFits
<1>7. state'[session] # "none"
  BY <1>1, <1>2, IdleState DEF IdleSteps
<1> QED BY <1>1, <1>2, <1>3, <1>4, <1>5, <1>6, <1>7, IdleFits

LEMMA BeforeModifyOrDeleteFits ==
  ASSUME IInv, DInv, SessionFits, BeforeModifyOrDelete
  PROVE  SessionFits'
<1>0. TypeOK
  BY DEF IInv
<1>1. /\ step = "next" /\ session \in Tx /\ answer # "committed" /\ state[session] # "none"
      /\ at <= Len(plan) /\ Todo.kind # "create"
  BY DEF BeforeModifyOrDelete, SessionFits, CallFits
<1>2. CASE IsRefused(Refused)
  BY <1>1, <1>2, RejectedFits DEF IsRejected
<1>3. CASE StartModifyOrDelete(client, session) /\ Go("before") /\ UNCHANGED details
  <2>1. /\ UNCHANGED <<operations, details, session, plan, at, managed, known, answer, batches>>
        /\ step' = "before" /\ state' = StateNow /\ StateNow[session] \in Open
        /\ Enter(client, session, "snapshot", {})
    BY <1>3 DEF StartModifyOrDelete, Sweep, Go
  <2>2. pc'[client] = "snapshot" /\ callTx'[client] = session
    BY <1>0, <2>1, ClientIsCall, EnterIs
  <2>3. state[session] = state'[session] /\ state[session] \in Open
    BY <1>1, <2>1, Swept
  <2>4. LogTypes' /\ ClientTypes'
    BY <2>1 DEF SessionFits, LogTypes, ClientTypes
  <2>5. CallFits'
    BY <1>1, <2>1, <2>2, <2>3, WriteIsBusy DEF CallFits
  <2>6. Todo' = Todo
    BY <2>1 DEF Todo
  <2>7. PlanFits'
    BY <1>1, <2>1, <2>6, WriteIsBusy, StepClasses DEF SessionFits, PlanFits
  <2>8. TodoIsWritten'
    BY <2>1 DEF TodoIsWritten, UndoSteps
  <2>9. TxFits(session)'
    BY <1>1, <2>1, <2>3, WriteIsBusy DEF SessionFits, TxFits, Open
  <2> QED BY <1>1, <2>1, <2>4, <2>5, <2>7, <2>8, <2>9 DEF SessionFits
<1> QED BY <1>2, <1>3 DEF BeforeModifyOrDelete

LEMMA RollbackBeginsFits ==
  ASSUME IInv, DInv, SessionFits, RollbackBegins
  PROVE  SessionFits'
<1>0. TypeOK
  BY DEF IInv
<1>1. /\ step = "rollback" /\ session \in Tx /\ answer # "committed" /\ state[session] # "none"
      /\ step \in IdleSteps /\ pc[client] = "idle"
  BY DEF RollbackBegins, SessionFits, CallFits, IdleSteps
<1>2. UNCHANGED <<operations, details, session, plan, managed, batches>>
  BY DEF RollbackBegins, RollbackNothing, StartRollback, Refused, Answer, Go
<1>3. StateNow \in [Tx -> TransactionState \cup {"none"}]
  BY <1>0, SweepStates
<1>4. CASE RollbackNothing(session) /\ Answer("rolled back")
  <2>1. step' = "ready" /\ at' = 1 /\ known' = {} /\ pc' = pc /\ state'[session] = "rolled-back"
    BY <1>1, <1>3, <1>4 DEF RollbackNothing, finalizeRollback, Answer, callVars
  <2>2. LogTypes' /\ ClientTypes' /\ step' \in IdleSteps
    BY <1>2, <2>1 DEF SessionFits, LogTypes, ClientTypes, IdleSteps
  <2>3. TxFits(session)'
    BY <2>1, <1>2 DEF TxFits, Open
  <2> QED BY <1>1, <1>2, <2>1, <2>2, <2>3, IdleFits
<1>5. CASE StartRollback(client, session) /\ Go("undo")
  <2>1. /\ UNCHANGED <<at, known, answer>> /\ step' = "undo" /\ state'[session] = "rolling-back"
        /\ Enter(client, session, "rolling", Candidates(session))
    BY <1>1, <1>3, <1>5 DEF StartRollback, Go
  <2>2. pc'[client] = "rolling" /\ callTx'[client] = session /\ todo'[client] = Candidates(session)
    BY <1>0, <2>1, ClientIsCall, EnterIs
  <2>3. LogTypes' /\ ClientTypes'
    BY <1>2, <2>1 DEF SessionFits, LogTypes, ClientTypes
  <2>4. CallFits'
    BY <1>1, <1>2, <2>1, <2>2 DEF CallFits, UndoSteps, BusySteps, WriteSteps, CreateSteps, ModifySteps,
                                  DeleteSteps, IdleSteps
  <2>5. PlanFits'
    BY <1>2, <2>1, WriteIsBusy, StepClasses DEF SessionFits, PlanFits, UndoSteps
  <2>6. TodoIsWritten'
    BY <1>2, <2>2 DEF TodoIsWritten, Candidates, Unresolved
  <2>7. TxFits(session)'
    BY <1>2, <2>1 DEF TxFits, UndoSteps, Open
  <2> QED BY <1>1, <1>2, <2>3, <2>4, <2>5, <2>6, <2>7 DEF SessionFits
<1>6. CASE /\ StateNow[session] \notin {"active", "validated", "failed", "expired"}
           /\ Refused
           /\ Answer("not rolled back")
  <2>1. step' = "ready" /\ at' = 1 /\ known' = {} /\ pc' = pc /\ state'[session] = StateNow[session]
    BY <1>6 DEF Refused, Sweep, Answer, callVars
  <2>2. LogTypes' /\ ClientTypes' /\ step' \in IdleSteps
    BY <1>2, <2>1 DEF SessionFits, LogTypes, ClientTypes, IdleSteps
  <2>3. StateNow[session] \notin {"validating", "rolling-back", "none"}
    BY <1>1, IdleState
  <2>4. TxFits(session)'
    BY <1>2, <1>6, <2>1, <2>3 DEF TxFits, Open
  <2> QED BY <1>1, <1>2, <2>1, <2>2, <2>4, IdleFits
<1> QED BY <1>4, <1>5, <1>6 DEF RollbackBegins

\* The restore of operation i, as far as calls and operations go.
LEMMA RestoreEffect ==
  ASSUME IInv, DInv, SessionFits, step \in UndoSteps, NEW restored \in BOOLEAN,
         RestoreOperation(client, restored)
  PROVE  /\ session \in Tx /\ state[session] = "rolling-back" /\ UNCHANGED <<state, pc, callTx>>
         /\ \E i \in todo[client] :
              /\ HighestLeft(client, i)
              /\ i \in DOMAIN operations[session]
              /\ todo'[client] = todo[client] \ {i}
              /\ clean'[client] = (clean[client] /\ restored)
              /\ \A t \in Tx : DOMAIN operations'[t] = DOMAIN operations[t]
              /\ \A t \in Tx : Len(operations'[t]) = Len(operations[t])
              /\ \A t \in Tx : t # session => operations'[t] = operations[t]
              /\ \A j \in DOMAIN operations[session] : j # i => operations'[session][j] = operations[session][j]
              /\ operations'[session][i] =
                   IF restored THEN [state |-> "rolled-back", compensation |-> "restored"]
                               ELSE [state |-> "failed", compensation |-> "failed"]
<1>0. TypeOK
  BY DEF IInv
<1>1. session \in Tx /\ pc[client] = "rolling" /\ callTx[client] = session
  BY WriteIsBusy DEF SessionFits, CallFits
<1>2. state[session] = "rolling-back" /\ UNCHANGED <<state, pc, callTx>>
  BY <1>1, ClientIsCall DEF DInv, CallersFit, CallersStay, RestoreOperation
<1>3. PICK i \in todo[client] :
        /\ HighestLeft(client, i)
        /\ IF restored THEN SetOperation(session, i, "rolled-back", "restored")
                       ELSE SetOperation(session, i, "failed", "failed")
        /\ todo' = [todo EXCEPT ![client] = @ \ {i}]
  BY <1>1 DEF RestoreOperation
<1>4. i \in DOMAIN operations[session]
  BY TodoIsLogged DEF SessionFits
<1>5. todo'[client] = todo[client] \ {i}
  BY <1>0, <1>3, ClientIsCall DEF TypeOK
<1>6. clean'[client] = (clean[client] /\ restored)
  BY <1>0, ClientIsCall, Zenon DEF RestoreOperation, TypeOK
<1>7. CASE restored
  BY <1>0, <1>1, <1>2, <1>3, <1>4, <1>5, <1>6, <1>7, SetOperationEffect
<1>8. CASE ~restored
  BY <1>0, <1>1, <1>2, <1>3, <1>4, <1>5, <1>6, <1>8, SetOperationEffect
<1> QED BY <1>7, <1>8

LEMMA RestoreFits ==
  ASSUME IInv, DInv, SessionFits, step \in UndoSteps, NEW restored \in BOOLEAN,
         RestoreOperation(client, restored), step' = "undo",
         UNCHANGED <<details, session, managed, plan, at, answer, batches>>, known' \subseteq Prim
  PROVE  SessionFits'
<1>1. /\ session \in Tx /\ state[session] = "rolling-back" /\ UNCHANGED <<state, pc, callTx>>
  BY RestoreEffect
<1>2. PICK i \in todo[client] :
        /\ todo'[client] = todo[client] \ {i}
        /\ \A t \in Tx : Len(operations'[t]) = Len(operations[t])
        /\ \A j \in DOMAIN operations[session] : j # i => operations'[session][j] = operations[session][j]
  BY RestoreEffect
<1>3. LogTypes' /\ ClientTypes'
  BY <1>2 DEF SessionFits, LogTypes, ClientTypes
<1>4. /\ step' \in UndoSteps /\ step # "ready" /\ step' # "before" /\ step' # "judge"
      /\ step' \notin IdleSteps /\ step' \notin WriteSteps /\ step' \in BusySteps
  BY WriteIsBusy DEF UndoSteps
<1>5. CallFits'
  BY <1>1, <1>4, WriteIsBusy DEF SessionFits, CallFits
<1>6. PlanFits'
  BY <1>4, StepClasses DEF SessionFits, PlanFits
<1>7. TodoIsWritten'
  <2>1. \A j \in todo[client] : j \in DOMAIN operations[session]
    BY TodoIsLogged DEF SessionFits
  <2> QED BY <1>2, <2>1 DEF TodoIsWritten, SessionFits
<1>8. TxFits(session)'
  BY <1>1, <1>4 DEF TxFits, Open
<1> QED BY <1>3, <1>5, <1>6, <1>7, <1>8 DEF SessionFits

LEMMA UndoFits ==
  ASSUME IInv, DInv, SessionFits, EditorTypes, Undo
  PROVE  SessionFits'
<1>0. step \in UndoSteps /\ step = "undo"
  BY DEF Undo, UndoSteps
<1>1. PICK i \in todo[client] :
        \/ /\ Write(InverseOf(details[session][i]), TRUE)
           /\ known' = IF details[session][i].kind = "delete" THEN {fresh'} ELSE {details[session][i].target}
           /\ step' = "undone"
           /\ UNCHANGED <<managerVars, session, managed, plan, at, answer, batches>>
        \/ RestoreOperation(client, FALSE) /\ Go("undo")
  BY DEF Undo
<1>2. UNCHANGED details
  BY DEF Undo
<1>3. CASE RestoreOperation(client, FALSE) /\ Go("undo")
  <2>1. known' \subseteq Prim
    BY <1>3 DEF Go, SessionFits, ClientTypes
  <2> QED BY <1>0, <1>2, <1>3, <2>1, RestoreFits DEF Go
<1>4. CASE /\ Write(InverseOf(details[session][i]), TRUE)
           /\ known' = IF details[session][i].kind = "delete" THEN {fresh'} ELSE {details[session][i].target}
           /\ step' = "undone"
           /\ UNCHANGED <<managerVars, session, managed, plan, at, answer, batches>>
  <2>1. session \in Tx /\ details[session][i] \in Detail /\ state[session] = "rolling-back"
    BY <1>0, TodoIsLogged, ClientIsCall DEF SessionFits, DInv, CallersFit, CallersStay
  <2>2. known' \subseteq Prim
    <3> DEFINE o == details[session][i]
    <3>1. o.kind \in {"create", "modify", "delete"}
      BY <2>1 DEF Detail
    <3>2. Possible(InverseOf(o)) /\ CarriedOut(InverseOf(o))
      BY <1>4 DEF Write
    <3>3. CASE o.kind = "delete"
      <4>1. InverseOf(o) = Create(o.before)
        BY <3>3 DEF InverseOf
      <4>2. fresh < MaxPrim /\ fresh' = fresh + 1
        BY <3>2, <4>1 DEF CarriedOut, Create
      <4>3. fresh' \in Prim
        BY <4>2, DocumentAssumption DEF EditorTypes, Prim
      <4> QED BY <1>4, <3>3, <4>3
    <3>4. CASE o.kind # "delete"
      <4>1. InverseOf(o) = Delete(o.target) \/ InverseOf(o) = Modify(o.target, o.before)
        BY <3>1, <3>4, Zenon DEF InverseOf
      <4>2. o.target \in Prim
        BY <3>2, <4>1 DEF Possible, Present, Delete, Modify
      <4> QED BY <1>4, <3>4, <4>2
    <3> QED BY <3>3, <3>4
  <2>3. UNCHANGED <<state, operations, pc, callTx, todo>>
    BY <1>4 DEF managerVars, txVars, callVars
  <2>4. LogTypes' /\ ClientTypes'
    BY <1>2, <1>4, <2>2, <2>3 DEF SessionFits, LogTypes, ClientTypes
  <2>5. /\ step' \in UndoSteps /\ step' \notin IdleSteps /\ step' \notin WriteSteps /\ step' \in BusySteps
        /\ step' # "before" /\ step' # "judge" /\ step \in UndoSteps /\ step \in BusySteps
    BY <1>0, <1>4, WriteIsBusy DEF UndoSteps
  <2>6. CallFits'
    BY <1>0, <1>4, <2>3, <2>5 DEF SessionFits, CallFits
  <2>7. PlanFits'
    BY <1>4, <2>5, StepClasses DEF SessionFits, PlanFits
  <2>8. TodoIsWritten'
    BY <1>4, <2>3, <2>5 DEF TodoIsWritten, SessionFits
  <2>9. TxFits(session)'
    BY <1>4, <2>1, <2>3, <2>5 DEF TxFits, Open
  <2> QED BY <1>4, <2>4, <2>6, <2>7, <2>8, <2>9 DEF SessionFits
<1> QED BY <1>1, <1>3, <1>4

LEMMA VerifyUndoneFits ==
  ASSUME IInv, DInv, SessionFits, VerifyUndone
  PROVE  SessionFits'
<1>1. PICK restored \in BOOLEAN : RestoreOperation(client, restored)
  BY DEF VerifyUndone
<1>2. step \in UndoSteps
  BY DEF VerifyUndone, UndoSteps
<1> QED BY <1>1, <1>2, RestoreFits DEF VerifyUndone

LEMMA RollbackEndsFits ==
  ASSUME IInv, DInv, SessionFits, RollbackEnds
  PROVE  SessionFits'
<1>0. TypeOK
  BY DEF IInv
<1>1. session \in Tx /\ callTx[client] = session
  BY WriteIsBusy DEF RollbackEnds, SessionFits, CallFits, UndoSteps
<1>2. /\ UNCHANGED <<operations, details, session, plan, managed, batches>>
      /\ step' = "ready" /\ at' = 1 /\ known' = {} /\ Return(client)
      /\ state' = [state EXCEPT ![session] = IF clean[client] THEN "rolled-back" ELSE "failed"]
  BY <1>1 DEF RollbackEnds, FinishRollback, finalizeRollback, Answer
<1>3. pc'[client] = "idle" /\ state'[session] \in {"rolled-back", "failed"}
  BY <1>0, <1>1, <1>2, ClientIsCall DEF Return, TypeOK
<1>4. LogTypes' /\ ClientTypes' /\ step' \in IdleSteps
  BY <1>2 DEF SessionFits, LogTypes, ClientTypes, IdleSteps
<1>5. TxFits(session)'
  BY <1>2, <1>3 DEF TxFits, Open
<1> QED BY <1>1, <1>2, <1>3, <1>4, <1>5, IdleFits

LEMMA BatchEndsFits ==
  ASSUME IInv, DInv, SessionFits, BatchEnds
  PROVE  SessionFits'
<1>0. TypeOK
  BY DEF IInv
<1>1. /\ step = "next" /\ session \in Tx /\ answer # "committed" /\ state[session] # "none"
      /\ pc[client] = "idle"
  BY DEF BatchEnds, SessionFits, CallFits, IdleSteps
<1>2. UNCHANGED <<operations, details, session, plan, managed, batches>>
  BY DEF BatchEnds, StartValidate, Refused, Answer, Go
<1>3. CASE Refused /\ (Answer("applied") \/ Answer("threw"))
  <2>1. step' = "ready" /\ at' = 1 /\ known' = {} /\ pc' = pc /\ state'[session] = StateNow[session]
    BY <1>3 DEF Refused, Sweep, Answer, callVars
  <2>2. LogTypes' /\ ClientTypes' /\ step' \in IdleSteps
    BY <1>2, <2>1 DEF SessionFits, LogTypes, ClientTypes, IdleSteps
  <2>3. TxFits(session)'
    BY <1>1, <1>2, <2>1, <2>2, SweptFits
  <2> QED BY <1>1, <1>2, <2>1, <2>2, <2>3, IdleFits
<1>4. CASE StartValidate(client, session) /\ Go("judge")
  <2>1. /\ UNCHANGED <<at, known, answer>> /\ step' = "judge"
        /\ state' = [StateNow EXCEPT ![session] = "validating"] /\ StateNow[session] \in Open
        /\ Enter(client, session, "validating", {})
    BY <1>4 DEF StartValidate, Go
  <2>2. pc'[client] = "validating" /\ callTx'[client] = session
    BY <1>0, <2>1, ClientIsCall, EnterIs
  <2>3. state'[session] = "validating" /\ state[session] \in Open
    BY <1>0, <1>1, <2>1, Swept, SweepStates
  <2>4. LogTypes' /\ ClientTypes'
    BY <1>2, <2>1 DEF SessionFits, LogTypes, ClientTypes
  <2>5. CallFits'
    BY <1>1, <1>2, <2>1, <2>2, <2>3, WriteIsBusy DEF CallFits
  <2>6. PlanFits'
    BY <1>2, <2>1, WriteIsBusy, StepClasses DEF SessionFits, PlanFits
  <2>7. TodoIsWritten'
    BY <2>1 DEF TodoIsWritten, UndoSteps
  <2>8. TxFits(session)'
    BY <1>1, <1>2, <2>1, <2>3, WriteIsBusy DEF SessionFits, TxFits
  <2> QED BY <1>1, <1>2, <2>4, <2>5, <2>6, <2>7, <2>8 DEF SessionFits
<1> QED BY <1>3, <1>4 DEF BatchEnds

LEMMA JudgeFits ==
  ASSUME IInv, DInv, SessionFits, Judge
  PROVE  SessionFits'
<1>0. TypeOK
  BY DEF IInv
<1>1. /\ step = "judge" /\ session \in Tx /\ answer # "committed"
      /\ callTx[client] = session /\ pc[client] = "validating"
  BY WriteIsBusy DEF Judge, SessionFits, CallFits
<1>2. state[session] = "validating"
  BY <1>1, ClientIsCall DEF IInv, CallsOK, ValidatingCalls
<1>3. PICK passed \in BOOLEAN :
        /\ FinishValidate(client, passed)
        /\ IF managed /\ passed THEN Go("commit") ELSE Answer(IF managed THEN "threw" ELSE "none")
  BY DEF Judge
<1>4. /\ UNCHANGED <<operations, details, session, plan, managed, batches>>
      /\ \/ step' = "commit" /\ at' = at /\ answer' = answer /\ known' = known
         \/ step' = "ready" /\ at' = 1 /\ known' = {}
      /\ Return(client)
      /\ \E s \in Open : state' = [state EXCEPT ![session] = s]
  BY <1>1, <1>3 DEF Judge, FinishValidate, Answer, Go, Open
<1>5. pc'[client] = "idle" /\ state'[session] \in Open
  BY <1>0, <1>1, <1>4, ClientIsCall DEF Return, TypeOK
<1>6. LogTypes' /\ ClientTypes' /\ step' \in IdleSteps
  BY <1>4 DEF SessionFits, LogTypes, ClientTypes, IdleSteps
<1>7. TxFits(session)'
  BY <1>1, <1>2, <1>4, <1>5, WriteIsBusy DEF SessionFits, TxFits, Open
<1>8. answer' # "committed" \/ step' = "ready"
  BY <1>1, <1>4
<1> QED BY <1>1, <1>4, <1>5, <1>6, <1>7, <1>8, IdleFits DEF Open

LEMMA CommitBatchFits ==
  ASSUME IInv, DInv, SessionFits, CommitBatch
  PROVE  SessionFits'
<1>0. TypeOK
  BY DEF IInv
<1>1. /\ step = "commit" /\ step \in IdleSteps /\ session \in Tx /\ pc[client] = "idle" /\ state[session] # "none"
  BY DEF CommitBatch, SessionFits, CallFits, IdleSteps
<1>2. /\ UNCHANGED <<operations, details, session, plan, managed, batches>>
      /\ step' = "ready" /\ at' = 1 /\ known' = {} /\ pc' = pc
      /\ state' = [StateNow EXCEPT ![session] = "committed"] \/ state' = StateNow
  BY DEF CommitBatch, Commit, Refused, Sweep, Answer, callVars
<1>3. state'[session] \in {"committed", StateNow[session]}
  BY <1>0, <1>1, <1>2, SweepStates
<1>4. LogTypes' /\ ClientTypes' /\ step' \in IdleSteps
  BY <1>2 DEF SessionFits, LogTypes, ClientTypes, IdleSteps
<1>5. StateNow[session] = "expired" => details[session] = <<>>
  BY <1>1, NothingExpires, WriteIsBusy DEF SessionFits
<1>6. StateNow[session] \notin {"validating", "rolling-back", "none"}
      /\ (StateNow[session] \in Open => state[session] \in Open)
  BY <1>1, IdleState
<1>7. state[session] \in Open => \A i \in DOMAIN operations[session] : operations[session][i].state = "applied"
  BY <1>1, WriteIsBusy DEF SessionFits, TxFits
<1>8. TxFits(session)'
  BY <1>2, <1>3, <1>5, <1>6, <1>7 DEF TxFits, Open
<1> QED BY <1>1, <1>2, <1>4, <1>8, IdleFits

LEMMA BatchStepFits ==
  ASSUME IInv, IInv', DInv, EditorTypes, SessionFits, BatchStep
  PROVE  SessionFits'
<1>1. CASE GoesOn
  BY <1>1, WithinFits, FindsFits DEF GoesOn
<1>2. CASE RollbackStep
  BY <1>2, RollbackBeginsFits, UndoFits, VerifyUndoneFits, RollbackEndsFits DEF RollbackStep
<1> QED BY <1>1, <1>2, BatchShapes, SettlesFits, ReservesFits, RejectedFits, BeforeModifyOrDeleteFits,
           BatchEndsFits, JudgeFits, CommitBatchFits, ClientIsOrderly

-----------------------------------------------------------------------------
(***************************************************************************)
(* The other transactions, and the tools.                                  *)
(***************************************************************************)

\* A transaction nothing runs for is only swept.
LEMMA OthersFit ==
  ASSUME IInv, DInv, LogTypes, NEW t \in Tx, TxFits(t), t # session \/ step = "ready",
         operations'[t] = operations[t], details'[t] = details[t],
         state'[t] \in {state[t], StateNow[t]}
  PROVE  TxFits(t)'
<1>1. state[t] \notin {"validating", "rolling-back"}
  BY DEF TxFits, UndoSteps
<1>2. /\ state'[t] \notin {"validating", "rolling-back"}
      /\ state'[t] \in Open => state[t] \in Open
      /\ state'[t] = "none" => state[t] = "none"
  BY <1>1, Swept, SweepStates DEF IInv
<1>3. state'[t] = "expired" => details[t] = <<>>
  BY NothingExpires, WriteIsBusy DEF TxFits
<1>4. state[t] \in Open => \A i \in DOMAIN operations[t] : operations[t][i].state = "applied"
  BY WriteIsBusy DEF TxFits
<1> QED BY <1>1, <1>2, <1>3, <1>4 DEF TxFits

\* What a step of the batch remembers is of its own transaction.
LEMMA BatchLogs ==
  ASSUME LogTypes, session \in Tx, BatchStep, NEW t \in Tx, t # session
  PROVE  details'[t] = details[t]
<1>1. CASE GoesOn
  BY <1>1 DEF GoesOn, Within, Finds, Found, LogTypes
<1>2. CASE Settles
  BY <1>2 DEF Settles, Succeeds, Fails, Undone
<1>3. CASE Reserves
  BY <1>3 DEF Reserves, Log, LogTypes
<1>4. CASE IsRejected \/ BeforeModifyOrDelete
  BY <1>4 DEF IsRejected, IsRefused, BeforeModifyOrDelete
<1>5. CASE RollbackStep \/ BatchEnds \/ Judge \/ CommitBatch
  BY <1>5 DEF RollbackStep, RollbackBegins, Undo, VerifyUndone, RollbackEnds, BatchEnds, Judge, CommitBatch
<1> QED BY <1>1, <1>2, <1>3, <1>4, <1>5, BatchShapes

\* The lock of the session is not given away when it expires.
LEMMA StaysUnlocked ==
  ASSUME IInv, IInv', DInv, ControlInv, BatchStep
  PROVE  ExpiredIsUnlocked'
<1> SUFFICES ASSUME step' # "ready", state'[session'] = "expired"
             PROVE  activeByDocument'[document'[session']] = NoTx
  BY DEF ExpiredIsUnlocked
<1>0. TypeOK /\ TypeOK' /\ session \in Tx /\ session' = session /\ step # "ready" /\ Manages
  BY BatchStepManages DEF IInv, KeepsSession, ControlInv, SessionFits, CallFits
<1>1. FreesLocks
  BY BatchStepFrees DEF ControlInv, SessionFits
<1>2. state[session] \in Open \cup {"expired"}
  BY <1>0, ExpiresFromOpen, ManagesIsNext
<1>3. document[session] \in Doc
  BY <1>0, <1>2 DEF DInv, HolderIsLocked, Open
<1>4. activeByDocument'[document[session]] \in {activeByDocument[document[session]], NoTx}
      /\ document' = document
  BY <1>1, <1>3 DEF FreesLocks
<1>5. CASE state[session] = "expired"
  BY <1>0, <1>4, <1>5 DEF ControlInv, ExpiredIsUnlocked
<1>6. CASE state[session] \in Open
  <2>1. activeByDocument[document[session]] = session
    BY <1>0, <1>6 DEF DInv, HolderIsLocked, holdsDocumentLock, HoldsIn, Open
  <2>2. activeByDocument'[document[session]] # session
    BY <1>0, <1>3, <1>4, TxIsNotNoTx DEF IInv, LockRefersToHolder, holdsDocumentLock, HoldsIn
  <2> QED BY <1>0, <1>4, <2>1, <2>2
<1> QED BY <1>2, <1>5, <1>6

LEMMA BatchStepControl ==
  ASSUME IInv, IInv', DInv, ControlInv, BatchStep
  PROVE  ControlInv'
<1>1. EditorTypes' /\ SessionFits' /\ ExpiredIsUnlocked'
  BY BatchEditorTypes, BatchStepFits, StaysUnlocked DEF ControlInv, SessionFits
<1>2. session \in Tx /\ session' = session /\ Manages /\ callTx[client] \in {session, NoTx}
  BY BatchStepManages, SessionsCall DEF KeepsSession, ControlInv, SessionFits, CallFits
<1>3. ASSUME NEW t \in Tx PROVE TxFits(t)'
  <2>1. CASE t = session
    BY <1>1, <1>2, <2>1 DEF SessionFits
  <2>2. CASE t # session
    BY <1>2, <2>2, OthersKeep, BatchLogs, OthersFit DEF ControlInv, SessionFits
  <2> QED BY <2>1, <2>2
<1> QED BY <1>1, <1>3 DEF ControlInv

\* Nothing the invariant speaks of moves, but for the document.
LEMMA QuietControl ==
  ASSUME ControlInv, EditorTypes', UNCHANGED <<details, clientVars>>,
         UNCHANGED <<state, document, operations, activeByDocument, pc, callTx, todo>>
  PROVE  ControlInv'
<1>1. UNCHANGED <<session, managed, plan, at, step, known, answer, batches>>
  BY DEF clientVars
<1>2. Op' = Op /\ Todo' = Todo
  BY <1>1 DEF Op, Todo
<1>3. LogTypes' /\ ClientTypes'
  BY <1>1 DEF ControlInv, SessionFits, LogTypes, ClientTypes
<1>4. CallFits' /\ TodoIsWritten'
  BY <1>1 DEF ControlInv, SessionFits, CallFits, TodoIsWritten
<1>5. PlanFits'
  BY <1>1, <1>2 DEF ControlInv, SessionFits, PlanFits
<1>6. \A t \in Tx : TxFits(t)'
  BY <1>1 DEF ControlInv, TxFits
<1>7. ExpiredIsUnlocked'
  BY <1>1 DEF ControlInv, ExpiredIsUnlocked
<1> QED BY <1>1, <1>3, <1>4, <1>5, <1>6, <1>7 DEF ControlInv, SessionFits

\* A tool is called when nothing runs; it may begin with transaction u.
LEMMA ToolsFit ==
  ASSUME ControlInv, step = "ready", EditorTypes', UNCHANGED <<operations, details>>,
         session' \in Tx \cup {NoTx}, managed' \in BOOLEAN, known' \subseteq Prim, batches' \in 0..MaxBatches,
         plan' \in Plans \cup {<<>>}, at' \in 1..Len(plan') + 1,
         \/ step' = "judge" /\ pc'[client] = "validating" /\ callTx'[client] = session'
         \/ step' \in IdleSteps /\ pc'[client] = "idle",
         step' # "ready" => session' \in Tx /\ state'[session'] \notin {"none", "expired"} /\ answer' # "committed",
         \A t \in Tx : TxFits(t)'
  PROVE  ControlInv'
<1>1. LogTypes' /\ ClientTypes'
  BY DEF ControlInv, SessionFits, LogTypes, ClientTypes
<1>2. CallFits'
  BY WriteIsBusy DEF CallFits
<1>3. PlanFits'
  BY WriteIsBusy, StepClasses DEF PlanFits, IdleSteps
<1>4. TodoIsWritten'
  BY WriteIsBusy DEF TodoIsWritten, IdleSteps
<1>5. ExpiredIsUnlocked'
  BY DEF ExpiredIsUnlocked
<1> QED BY <1>1, <1>2, <1>3, <1>4, <1>5 DEF ControlInv, SessionFits

\* When nothing runs, everything written has its outcome.
LEMMA NothingRuns ==
  ASSUME ControlInv, step = "ready"
  PROVE  /\ pc[client] = "idle"
         /\ \A t \in Tx : /\ state[t] \notin {"validating", "rolling-back"}
                          /\ state[t] \in Open =>
                               \A i \in DOMAIN operations[t] : operations[t][i].state = "applied"
BY WriteIsBusy DEF ControlInv, SessionFits, CallFits, TxFits, IdleSteps, UndoSteps

\* A new transaction.
LEMMA BeginsFit ==
  ASSUME IInv, DInv, ControlInv, step = "ready", NEW t \in Tx, NEW d \in Doc, Begin(t, d),
         UNCHANGED <<operations, details>>, step' # "rollback"
  PROVE  /\ state'[t] = "active" /\ pc' = pc
         /\ \A u \in Tx : TxFits(u)'
<1>0. TypeOK /\ LogTypes
  BY DEF IInv, ControlInv, SessionFits
<1>1. state[t] = "none" /\ state' = [StateNow EXCEPT ![t] = "active"] /\ pc' = pc
  BY DEF Begin, callVars
<1>2. state'[t] = "active" /\ \A u \in Tx : u # t => state'[u] = StateNow[u]
  BY <1>0, <1>1, SweepStates
<1>3. details[t] = <<>>
  BY <1>1 DEF ControlInv, TxFits
<1>4. Len(operations[t]) = 0 /\ operations[t] \in Seq(Operation)
  BY <1>0, <1>3 DEF LogTypes, TypeOK
<1>5. DOMAIN operations[t] = {}
  BY <1>4
<1>6. TxFits(t)'
  BY <1>2, <1>5 DEF TxFits, Open
<1>7. ASSUME NEW u \in Tx, u # t PROVE TxFits(u)'
  BY <1>0, <1>2, <1>7, OthersFit DEF ControlInv
<1> QED BY <1>1, <1>2, <1>6, <1>7

LEMMA ToolControl ==
  ASSUME IInv, DInv, ControlInv, ToolStep
  PROVE  ControlInv'
<1>0. TypeOK /\ EditorTypes' /\ UNCHANGED <<editorVars, details>>
  BY ToolsEditNothing, ReadTypes DEF IInv, ControlInv
<1>1. /\ session \in Tx \cup {NoTx} /\ managed \in BOOLEAN /\ known \subseteq Prim /\ batches \in 0..MaxBatches
      /\ plan \in Plans \cup {<<>>} /\ at \in 1..Len(plan) + 1
      /\ answer \in {answer} /\ LogTypes
  BY DEF ControlInv, SessionFits, ClientTypes, PlanFits
<1>a. /\ \A p \in Plans : Len(p) \in Nat /\ 1 \in 1..Len(p) + 1
      /\ <<>> \in Plans \cup {<<>>} /\ 1 \in 1..Len(<<>>) + 1
  <2>1. ASSUME NEW p \in Plans PROVE Len(p) \in Nat
    <3>1. PICK n \in 1..MaxBatch : p \in [1..n -> [kind : {"create", "modify", "delete"}, id : 0..Existing]]
      BY DEF Plans
    <3>2. Len(p) = n
      BY <3>1, DocumentAssumption
    <3> QED BY <3>2, DocumentAssumption
  <2> QED BY <2>1
<1>b. "ready" \in IdleSteps /\ "next" \in IdleSteps /\ "rollback" \in IdleSteps
  BY DEF IdleSteps
<1>2. CASE ToolStatus
  <2>1. step = "ready" /\ step' = "ready" /\ state' = StateNow /\ UNCHANGED <<operations, clientVars, pc>>
    BY <1>2 DEF ToolStatus, Get, Sweep, clientVars, callVars
  <2>2. \A t \in Tx : TxFits(t)'
    BY <1>0, <1>1, <2>1, OthersFit DEF ControlInv
  <2> QED BY <1>0, <1>1, <1>b, <2>1, <2>2, ToolsFit, NothingRuns DEF clientVars
<1>3. ASSUME NEW t \in Tx, BatchOnOwned(t) PROVE ControlInv'
  <2>1. PICK p \in Plans : /\ step = "ready" /\ state[t] # "none" /\ StateNow[t] # "expired"
                           /\ batches < MaxBatches /\ batches' = batches + 1
                           /\ Refused /\ Take(t, FALSE, p, "next")
    BY <1>3 DEF BatchOnOwned, Usable, Idle
  <2>2. state' = StateNow /\ UNCHANGED <<operations, pc>>
    BY <2>1 DEF Refused, Sweep, callVars
  <2>3. \A u \in Tx : TxFits(u)'
    <3>1. \A u \in Tx : TxFits(u) /\ details'[u] = details[u]
      BY <1>0 DEF ControlInv
    <3> QED BY <1>0, <1>1, <2>1, <2>2, <3>1, OthersFit
  <2>4. state'[t] \notin {"none", "expired"}
    BY <2>1, <2>2, Swept
  <2>5. batches' \in 0..MaxBatches
    BY <1>1, <2>1, DocumentAssumption
  <2> QED BY <1>0, <1>a, <1>b, <2>1, <2>2, <2>3, <2>4, <2>5, ToolsFit, NothingRuns DEF Take
<1>4. ASSUME NEW t \in Tx, ToolValidate(t) PROVE ControlInv'
  <2>1. /\ step = "ready" /\ StartValidate(client, t) /\ Take(t, FALSE, <<>>, "judge")
        /\ UNCHANGED batches
    BY <1>4 DEF ToolValidate, Idle
  <2>2. /\ state' = [StateNow EXCEPT ![t] = "validating"] /\ StateNow[t] \in Open
        /\ Enter(client, t, "validating", {}) /\ UNCHANGED operations
    BY <2>1 DEF StartValidate
  <2>3. pc'[client] = "validating" /\ callTx'[client] = t
    BY <1>0, <2>2, ClientIsCall, EnterIs
  <2>4. state'[t] = "validating" /\ state[t] \in Open /\ \A u \in Tx : u # t => state'[u] = StateNow[u]
    BY <1>0, <2>2, Swept, SweepStates
  <2>5. TxFits(t)'
    BY <1>0, <2>1, <2>2, <2>4, NothingRuns DEF TxFits, Take
  <2>6. \A u \in Tx : u # t => TxFits(u)'
    BY <1>0, <1>1, <2>1, <2>2, <2>4, OthersFit DEF ControlInv
  <2> QED BY <1>0, <1>1, <1>a, <2>1, <2>2, <2>3, <2>4, <2>5, <2>6, ToolsFit DEF Take
<1>5. ASSUME NEW t \in Tx, ToolCommit(t) PROVE ControlInv'
  <2>1. /\ step = "ready" /\ Commit(t) /\ Take(t, FALSE, <<>>, "ready")
        /\ UNCHANGED batches
    BY <1>5 DEF ToolCommit, Idle
  <2>2. /\ state' = [StateNow EXCEPT ![t] = "committed"] /\ UNCHANGED <<operations, pc>>
    BY <2>1 DEF Commit, callVars
  <2>3. state'[t] = "committed" /\ \A u \in Tx : u # t => state'[u] = StateNow[u]
    BY <1>0, <2>2, SweepStates
  <2>4. TxFits(t)'
    BY <2>3 DEF TxFits, Open
  <2>5. \A u \in Tx : u # t => TxFits(u)'
    BY <1>0, <1>1, <2>1, <2>2, <2>3, OthersFit DEF ControlInv
  <2> QED BY <1>0, <1>1, <1>a, <1>b, <2>1, <2>2, <2>3, <2>4, <2>5, ToolsFit, NothingRuns DEF Take
<1>6. ASSUME NEW t \in Tx, ToolRollback(t) PROVE ControlInv'
  <2>1. /\ step = "ready" /\ state[t] # "none" /\ StateNow[t] # "expired"
        /\ Take(t, FALSE, <<>>, "rollback") /\ UNCHANGED <<batches, state, operations, pc>>
    BY <1>6 DEF ToolRollback, Usable, Idle, managerVars, txVars, callVars
  <2>2. state[t] # "expired"
    BY <1>0, <2>1, SweepStates DEF Open
  <2>3. \A u \in Tx : TxFits(u)'
    BY <1>0, <1>1, <2>1, NothingRuns DEF ControlInv, TxFits, Take, Open
  <2> QED BY <1>0, <1>1, <1>a, <1>b, <2>1, <2>2, <2>3, ToolsFit, NothingRuns DEF Take
<1>7. ASSUME NEW t \in Tx, Time(t) PROVE ControlInv'
  BY <1>0, <1>7, QuietControl DEF Time, Deadline, callVars
<1>8. ASSUME NEW t \in Tx, NEW d \in Doc, BatchOnNew(t, d) PROVE ControlInv'
  <2>1. PICK p \in Plans : /\ step = "ready" /\ Begin(t, d) /\ Take(t, TRUE, p, "next")
                           /\ batches < MaxBatches /\ batches' = batches + 1
    BY <1>8 DEF BatchOnNew
  <2>2. UNCHANGED operations /\ step' = "next"
    BY <2>1 DEF Begin, Take
  <2>3. batches' \in 0..MaxBatches
    BY <1>1, <2>1, DocumentAssumption
  <2>4. state'[t] = "active" /\ pc' = pc /\ \A u \in Tx : TxFits(u)'
    BY <1>0, <2>1, <2>2, BeginsFit
  <2> QED BY <1>0, <1>a, <1>b, <2>1, <2>2, <2>3, <2>4, ToolsFit, NothingRuns DEF Take
<1>9. ASSUME NEW t \in Tx, NEW d \in Doc, ToolBegin(t, d) PROVE ControlInv'
  <2>1. step = "ready" /\ Begin(t, d) /\ UNCHANGED clientVars
    BY <1>9 DEF ToolBegin
  <2>2. UNCHANGED operations /\ step' = "ready"
    BY <2>1 DEF Begin, clientVars
  <2>3. pc' = pc /\ \A u \in Tx : TxFits(u)'
    BY <1>0, <2>1, <2>2, BeginsFit
  <2> QED BY <1>0, <1>1, <1>b, <2>1, <2>2, <2>3, ToolsFit, NothingRuns DEF clientVars
<1> QED BY <1>2, <1>3, <1>4, <1>5, <1>6, <1>7, <1>8, <1>9 DEF ToolStep

LEMMA InitControl == BatchInit => ControlInv
<1> SUFFICES ASSUME BatchInit PROVE ControlInv
  OBVIOUS
<1>1. EditorTypes
  <2>1. \A p \in Prim : p <= Existing => Original(p) \in Content
    BY ContentTypes, DocumentAssumption DEF Prim
  <2> QED BY <2>1, ContentTypes, DocumentAssumption DEF BatchInit, EditorTypes
<1>2. LogTypes /\ ClientTypes
  <2>1. <<>> \in Seq(Detail) /\ Len(<<>>) = 0
    OBVIOUS
  <2>2. LogTypes
    BY <2>1 DEF BatchInit, Init, LogTypes
  <2>3. session = NoTx /\ managed = FALSE /\ known = {} /\ batches = 0
    BY DEF BatchInit
  <2>4. 0 \in 0..MaxBatches
    BY DocumentAssumption
  <2>5. ClientTypes
    BY <2>3, <2>4, Zenon DEF ClientTypes
  <2> QED BY <2>2, <2>5
<1>3. CallFits
  BY ClientIsCall, WriteIsBusy DEF BatchInit, Init, CallFits, IdleSteps
<1>4. PlanFits /\ TodoIsWritten
  BY WriteIsBusy, StepClasses DEF BatchInit, PlanFits, TodoIsWritten, IdleSteps
<1>5. \A t \in Tx : TxFits(t)
  BY DEF BatchInit, Init, TxFits, Open
<1>6. ExpiredIsUnlocked
  BY DEF BatchInit, ExpiredIsUnlocked
<1> QED BY <1>1, <1>2, <1>3, <1>4, <1>5, <1>6 DEF ControlInv, SessionFits

LEMMA NextControl ==
  ASSUME IInv, DInv, ControlInv, [BatchNext]_allVars
  PROVE  /\ IInv' /\ DInv' /\ ControlInv'
         /\ [Next]_vars /\ SparesLocks
<1>1. IInv' /\ DInv' /\ [Next]_vars /\ SparesLocks
  BY BatchKeepsManaged DEF ControlInv, SessionFits
<1>2. EditorTypes'
  BY NextEditorTypes DEF ControlInv, SessionFits
<1>3. CASE TakesEffect \/ UNCHANGED allVars
  BY <1>1, <1>2, <1>3, QuietControl DEF TakesEffect, allVars, managerVars, txVars, callVars
<1>4. CASE ToolStep
  BY <1>1, <1>4, ToolControl
<1>5. CASE BatchStep
  BY <1>1, <1>5, BatchStepControl
<1> QED BY <1>3, <1>4, <1>5 DEF BatchNext

\* What a batch may rely on, whatever calls fail.
THEOREM BatchInvariant == BatchSpec => [](IInv /\ DInv /\ ControlInv)
<1>1. BatchInit => IInv /\ DInv /\ ControlInv
  BY InitInvariant, InitDisciplined, InitControl DEF BatchInit
<1>2. IInv /\ DInv /\ ControlInv /\ [BatchNext]_allVars => IInv' /\ DInv' /\ ControlInv'
  BY NextControl
<1> QED BY <1>1, <1>2, PTL DEF BatchSpec

\* Every variable keeps its type; in particular the batch never leaves its
\* plan, and remembers one detail for each operation of the manager.
THEOREM BatchTypeCorrect == BatchSpec => []BatchTypeOK
<1>1. IInv /\ ControlInv => BatchTypeOK
  <2> SUFFICES ASSUME IInv, ControlInv PROVE BatchTypeOK
    OBVIOUS
  <2>1. at \in 1..MaxBatch + 1
    BY PlanOperation, DocumentAssumption DEF ControlInv, SessionFits, PlanFits
  <2> QED BY <2>1 DEF IInv, ControlInv, SessionFits, EditorTypes, LogTypes, ClientTypes, BatchTypeOK
<1> QED BY <1>1, BatchInvariant, PTL

\* Batches exclude one another on a document, although they roll back
\* transactions that expired under them.
THEOREM BatchHasOneHolder == BatchSpec => []OneHolder
BY HoldersDiffer, BatchInvariant, PTL

\* Batches implement the abstract lock: a document's lock is freed before
\* another transaction gets it, and who lost it never writes under it again.
THEOREM BatchImplementsLock == BatchSpec => ImplementsDocumentLock
<1>1. BatchInit => Lock!Init
  BY InitIsLocks DEF BatchInit
<1>2. IInv /\ DInv /\ ControlInv /\ [BatchNext]_allVars => [Lock!Next]_Lock!lockVars
  BY NextControl, NextIsLocks, ClientIsOrderly
<1> QED BY <1>1, <1>2, BatchInvariant, PTL DEF BatchSpec, ImplementsDocumentLock, Lock!LockSpec

-----------------------------------------------------------------------------
(***************************************************************************)
(* The document under calls that fail as they say.                         *)
(***************************************************************************)
Still      == doc' = doc /\ fresh' = fresh
Puts(p, x) == Present(p) /\ doc' = [doc EXCEPT ![p] = x] /\ fresh' = fresh
Adds(x)    == fresh < MaxPrim /\ fresh' = fresh + 1 /\ doc' = [doc EXCEPT ![fresh + 1] = x]
Sees(p)    == IF Present(p) THEN doc[p] ELSE Gone

\* What is written for operation i of the session, and to undo it.
WritesFor(i) ==
  LET o == details[session][i] IN
  \/ o.kind = "create" /\ Puts(o.target, Gone)
  \/ o.kind = "modify" /\ \E x \in {Changed(session), o.before} : Puts(o.target, x)
  \/ o.kind = "delete" /\ (Puts(o.target, Gone) \/ Adds(o.before))

\* Faults are only counted up.
LEMMA FaultMeans ==
  ASSUME EditorTypes, Dependable', NEW k, GoesWrong(k)
  PROVE  k \in {"refused", "lost"} /\ Dependable
<1>1. k \in Fault
  BY DocumentAssumption DEF GoesWrong
<1>2. \A f \in Fault : faults[f] \in Nat /\ faults'[f] = IF f = k THEN faults[k] + 1 ELSE faults[f]
  BY DocumentAssumption DEF EditorTypes, GoesWrong
<1>3. "late" \in Fault /\ "unseen" \in Fault
  BY DEF Fault
<1>4. k # "late" /\ k # "unseen"
  BY <1>1, <1>2, <1>3 DEF Dependable
<1> QED BY <1>1, <1>2, <1>3, <1>4 DEF Fault, Dependable

LEMMA DependableWrite ==
  ASSUME EditorTypes, Dependable', NEW w, NEW answered \in BOOLEAN, Write(w, answered)
  PROVE  /\ Dependable /\ late' = late
         /\ answered => Possible(w) /\ CarriedOut(w)
         /\ Still \/ (Possible(w) /\ CarriedOut(w))
<1>1. CASE answered
  BY <1>1 DEF Write, Dependable
<1>2. CASE ~answered
  <2>1. CASE UNCHANGED editorVars
    BY <1>2, <2>1 DEF editorVars, Still, Dependable
  <2>2. CASE GoesWrong("refused") /\ UNCHANGED <<doc, fresh, late>>
    BY <1>2, <2>2, FaultMeans DEF Still
  <2>3. CASE GoesWrong("lost") /\ Possible(w) /\ CarriedOut(w) /\ UNCHANGED late
    BY <1>2, <2>3, FaultMeans
  <2>4. CASE GoesWrong("late")
    BY <2>4, FaultMeans
  <2> QED BY <1>2, <2>1, <2>2, <2>3, <2>4 DEF Write
<1> QED BY <1>1, <1>2

LEMMA DependableRead ==
  ASSUME EditorTypes, Dependable'
  PROVE  /\ \A p, x : getPrimitiveSnapshot(p, x) =>
                        Dependable /\ late' = late /\ Still /\ x \in {Sees(p), Unknown}
         /\ \A ids : listPrimitiveIds(ids) => Dependable /\ late' = late /\ Still /\ ids = Listed
         /\ listFails => Dependable /\ late' = late /\ Still
         /\ UNCHANGED editorVars => Dependable /\ late' = late /\ Still
<1>1. ASSUME NEW p, NEW x, getPrimitiveSnapshot(p, x)
      PROVE  Dependable /\ late' = late /\ Still /\ x \in {Sees(p), Unknown}
  <2>1. ~GoesWrong("unseen")
    BY FaultMeans
  <2>2. CASE x = (IF Present(p) THEN doc[p] ELSE Gone) /\ UNCHANGED editorVars
    BY <2>2 DEF Sees, Still, editorVars, Dependable
  <2>3. CASE x = Unknown /\ GoesWrong("refused") /\ UNCHANGED <<doc, fresh, late>>
    BY <2>3, FaultMeans DEF Still
  <2> QED BY <1>1, <2>1, <2>2, <2>3 DEF getPrimitiveSnapshot
<1>2. ASSUME NEW ids, listPrimitiveIds(ids)
      PROVE  Dependable /\ late' = late /\ Still /\ ids = Listed
  <2>1. ~GoesWrong("unseen")
    BY FaultMeans
  <2> QED BY <1>2, <2>1 DEF listPrimitiveIds, Still, editorVars, Dependable
<1>3. listFails => Dependable /\ late' = late /\ Still
  BY FaultMeans DEF listFails, Still
<1>4. UNCHANGED editorVars => Dependable /\ late' = late /\ Still
  BY DEF editorVars, Still, Dependable
<1> QED BY <1>1, <1>2, <1>3, <1>4

\* The writes, carried out.
LEMMA CarriedOutMeans ==
  /\ \A x : Possible(Create(x)) /\ CarriedOut(Create(x)) => Adds(x)
  /\ \A p, x : Possible(Modify(p, x)) /\ CarriedOut(Modify(p, x)) => Puts(p, x)
  /\ \A p : Possible(Delete(p)) /\ CarriedOut(Delete(p)) => Puts(p, Gone)
BY DEF Possible, CarriedOut, Create, Modify, Delete, Adds, Puts

LEMMA InverseMeans ==
  ASSUME NEW i, details[session][i] \in Detail,
         Possible(InverseOf(details[session][i])), CarriedOut(InverseOf(details[session][i]))
  PROVE  /\ WritesFor(i)
         /\ details[session][i].kind = "delete" => Adds(details[session][i].before)
         /\ details[session][i].kind = "modify" => Puts(details[session][i].target, details[session][i].before)
         /\ details[session][i].kind = "create" => Puts(details[session][i].target, Gone)
<1> DEFINE o == details[session][i]
<1>1. o.kind \in {"create", "modify", "delete"}
  BY DEF Detail
<1>2. CASE o.kind = "create"
  <2>1. InverseOf(o) = Delete(o.target)
    BY <1>2 DEF InverseOf
  <2> QED BY <1>2, <2>1, CarriedOutMeans DEF WritesFor
<1>3. CASE o.kind = "modify"
  <2>1. InverseOf(o) = Modify(o.target, o.before)
    BY <1>3 DEF InverseOf
  <2> QED BY <1>3, <2>1, CarriedOutMeans DEF WritesFor
<1>4. CASE o.kind = "delete"
  <2>1. InverseOf(o) = Create(o.before)
    BY <1>4 DEF InverseOf
  <2> QED BY <1>4, <2>1, CarriedOutMeans DEF WritesFor
<1> QED BY <1>1, <1>2, <1>3, <1>4

-----------------------------------------------------------------------------
(***************************************************************************)
(* The shapes of the steps again, with what they read and write.           *)
(***************************************************************************)
Kinds == {SearchSteps, CreateSteps \ SearchSteps, ModifySteps, DeleteSteps}

\* The operation in flight writes, forth or back.
WritesNow == \/ step = "create" /\ Adds(Made(session))
             \/ step \in WriteSteps \ SearchSteps /\ WritesFor(Len(details[session]))

GoesFurther ==
  /\ step' # "create" /\ (step' \in OnTrack => step \in OnTrack)
  /\ \/ \E S \in Kinds : /\ Within(S)
                         /\ Still \/ WritesNow
                         /\ step' = "after" => Puts(Op.target, Changed(session))
     \/ /\ Finds /\ Still
        /\ \E p \in Prim : Listed \ known = {p} /\ Found(p)

IsApplied ==
  /\ Succeeds /\ Still
  /\ \/ step = "read" /\ Sees(Op.target) # Gone
     \/ step = "after"
     \/ step = "deleted" /\ Sees(Op.target) = Gone
IsFailed ==
  /\ Fails /\ step \in WriteSteps /\ step # "create"
  /\ Still \/ WritesNow
IsUndone ==
  /\ \E comp \in {"not-needed", "restored"} : Undone(comp)
  /\ \/ step = "reconcile" /\ Still /\ Listed \subseteq known
     \/ step = "gone" /\ Still /\ Sees(Op.target) = Gone
     \/ step \in ModifySteps /\ Still /\ Sees(Op.target) = Op.before
     \/ step \in DeleteSteps /\ Still /\ Sees(Op.target) = Op.before
     \/ step \in DeleteSteps /\ Adds(Op.before)
IsReserved ==
  /\ Reserves /\ Still
  /\ step = "next" => known' = Listed
  /\ step = "before" =>
       /\ Log([kind |-> Todo.kind, target |-> Todo.id, before |-> Sees(Todo.id)])
       /\ Sees(Todo.id) # Gone /\ known' = known
IsIdle ==
  /\ Still
  /\ IsRejected \/ BeforeModifyOrDelete \/ RollbackBegins \/ RollbackEnds \/ BatchEnds \/ Judge \/ CommitBatch
IsUndoing ==
  /\ step = "undo"
  /\ \E i \in todo[client] :
       /\ HighestLeft(client, i)
       /\ UNCHANGED <<details, session, managed, plan, at, answer, batches>>
       /\ \/ /\ WritesFor(i)
             /\ details[session][i].kind = "delete" => fresh' = fresh + 1
             /\ known' = IF details[session][i].kind = "delete" THEN {fresh'} ELSE {details[session][i].target}
             /\ step' = "undone" /\ UNCHANGED managerVars
          \/ /\ Still \/ WritesFor(i)
             /\ RestoreOperation(client, FALSE) /\ step' = "undo" /\ known' = known
IsVerified ==
  /\ step = "undone" /\ Still
  /\ \E i \in todo[client], p \in known, x \in Content \cup {Unknown} :
       /\ HighestLeft(client, i)
       /\ x \in {Sees(p), Unknown}
       /\ RestoreOperation(client, x = details[session][i].before)
  /\ step' = "undo" /\ known' = {}
  /\ UNCHANGED <<details, session, managed, plan, at, answer, batches>>

Dependably == \/ GoesFurther \/ IsApplied \/ IsFailed \/ IsUndone \/ IsReserved
              \/ IsIdle \/ IsUndoing \/ IsVerified
Kept == Dependable /\ late' = late

LEMMA KindsAre ==
  /\ SearchSteps \in Kinds /\ CreateSteps \ SearchSteps \in Kinds
  /\ ModifySteps \in Kinds /\ DeleteSteps \in Kinds
BY DEF Kinds

\* A write for the operation in flight.
LEMMA WriteMeans ==
  ASSUME IInv, EditorTypes, SessionFits, Dependable', step \in WriteSteps, NEW answered \in BOOLEAN
  PROVE  /\ step = "create" /\ Write(Create(Made(session)), answered) =>
              Kept /\ (Still \/ WritesNow)
         /\ step \in CreateSteps \ SearchSteps /\ Write(Delete(Op.target), answered) =>
              Kept /\ (Still \/ WritesNow)
         /\ step \in ModifySteps /\ Write(Modify(Op.target, Changed(session)), answered) =>
              Kept /\ (Still \/ WritesNow) /\ (answered => Puts(Op.target, Changed(session)))
         /\ step \in ModifySteps /\ Write(Modify(Op.target, Op.before), answered) =>
              Kept /\ (Still \/ WritesNow)
         /\ step \in DeleteSteps /\ Write(Delete(Op.target), answered) =>
              Kept /\ (Still \/ WritesNow)
         /\ step \in DeleteSteps /\ Write(Create(Op.before), answered) =>
              Kept /\ (Still \/ WritesNow) /\ (answered => Adds(Op.before))
<1>1. Op = details[session][Len(details[session])]
  BY DEF Op
<1>2. /\ step \in CreateSteps => Op.kind = "create"
      /\ step \in ModifySteps => Op.kind = "modify"
      /\ step \in DeleteSteps => Op.kind = "delete"
  BY DEF SessionFits, PlanFits
<1>3. \A w : Write(w, answered) => /\ Kept
                                   /\ answered => Possible(w) /\ CarriedOut(w)
                                   /\ Still \/ (Possible(w) /\ CarriedOut(w))
  BY DependableWrite DEF Kept
<1>4. /\ step \in CreateSteps \ SearchSteps => step \in WriteSteps \ SearchSteps
      /\ step \in ModifySteps => step \in WriteSteps \ SearchSteps
      /\ step \in DeleteSteps => step \in WriteSteps \ SearchSteps
  BY StepClasses
<1> QED BY <1>1, <1>2, <1>3, <1>4, CarriedOutMeans DEF WritesNow, WritesFor

LEMMA CreateDependably ==
  ASSUME IInv, EditorTypes, SessionFits, Dependable', CreateStep
  PROVE  Kept /\ Dependably
<1> USE DEF WriteSteps, CreateSteps, SearchSteps
<1>0. \A ids \in {Listed, {}} : listPrimitiveIds(ids) => Kept /\ Still /\ ids = Listed
  BY DependableRead DEF Kept
<1>1. CASE BeforeCreate
  <2>1. listFails => Kept /\ Still
    BY DependableRead DEF Kept
  <2> QED BY <1>0, <1>1, <2>1 DEF BeforeCreate, Dependably, IsReserved, Reserves, IsIdle, IsRejected
<1>2. CASE ApplyCreate
  BY <1>2, WriteMeans, KindsAre DEF ApplyCreate, Then, Go, Dependably, GoesFurther, Within, OnTrack
<1>3. CASE PollCreated
  <2>1. CASE \E ids \in {Listed, {}} : /\ listPrimitiveIds(ids)
                                       /\ Identified(ids) /\ Find(ids) /\ Go("read") /\ UNCHANGED managerVars
    BY <1>0, <1>3, <2>1, FindIsFound DEF PollCreated, Go, Dependably, GoesFurther, Finds, OnTrack
  <2>2. CASE Then("reconcile") /\ (listFails \/ \E ids \in {Listed, {}} : listPrimitiveIds(ids))
    <3>1. Kept /\ Still
      BY <1>0, <2>2, DependableRead DEF Kept
    <3> QED BY <1>3, <2>2, <3>1, KindsAre DEF PollCreated, Then, Go, Dependably, GoesFurther, Within, OnTrack
  <2> QED BY <1>3, <2>1, <2>2 DEF PollCreated
<1>4. CASE ReadCreated
  <2>1. PICK x \in Content \cup {Unknown} :
          /\ Kept /\ Still /\ x \in {Sees(Op.target), Unknown}
          /\ \/ x \notin {Gone, Unknown} /\ Succeeds
             \/ x \in {Gone, Unknown} /\ Then("exists")
    BY <1>4, DependableRead DEF ReadCreated, Reads, Kept
  <2> QED BY <1>4, <2>1, KindsAre DEF ReadCreated, Then, Go, Dependably, GoesFurther, Within, OnTrack, IsApplied
<1>5. CASE ReconcileCreate
  <2>1. CASE \E ids \in {Listed, {}} : /\ listPrimitiveIds(ids)
                                       /\ Identified(ids) /\ Find(ids) /\ Go("exists") /\ UNCHANGED managerVars
    BY <1>0, <1>5, <2>1, FindIsFound DEF ReconcileCreate, Go, Dependably, GoesFurther, Finds, OnTrack
  <2>2. CASE Fails /\ (listFails \/ \E ids \in {Listed, {}} : listPrimitiveIds(ids))
    <3>1. Kept /\ Still
      BY <1>0, <2>2, DependableRead DEF Kept
    <3> QED BY <1>5, <2>2, <3>1 DEF ReconcileCreate, Dependably, IsFailed
  <2>3. CASE \E ids \in {Listed, {}} : listPrimitiveIds(ids) /\ ids \subseteq known /\ Undone("not-needed")
    BY <1>0, <1>5, <2>3 DEF ReconcileCreate, Dependably, IsUndone
  <2> QED BY <1>5, <2>1, <2>2, <2>3 DEF ReconcileCreate
<1>6. CASE CreatedExists
  <2>1. PICK x \in Content \cup {Unknown} :
          /\ Kept /\ Still /\ x \in {Sees(Op.target), Unknown}
          /\ Then("remove") \/ Then("gone") \/ Fails
    BY <1>6, DependableRead DEF CreatedExists, Reads, Kept
  <2> QED BY <1>6, <2>1, KindsAre DEF CreatedExists, Then, Go, Dependably, GoesFurther, Within, OnTrack, IsFailed
<1>7. CASE RemoveCreated
  BY <1>7, WriteMeans, KindsAre DEF RemoveCreated, Then, Go, Dependably, GoesFurther, Within, OnTrack, IsFailed
<1>8. CASE CreatedIsGone
  <2>1. PICK x \in Content \cup {Unknown} :
          /\ Kept /\ Still /\ x \in {Sees(Op.target), Unknown}
          /\ (x = Gone /\ Undone("restored")) \/ Fails
    BY <1>8, DependableRead DEF CreatedIsGone, Reads, Kept
  <2>2. Gone # Unknown
    BY ContentTypes
  <2> QED BY <1>8, <2>1, <2>2 DEF CreatedIsGone, Dependably, IsFailed, IsUndone
<1> QED BY <1>1, <1>2, <1>3, <1>4, <1>5, <1>6, <1>7, <1>8 DEF CreateStep

LEMMA BeforeIsContent ==
  ASSUME IInv, SessionFits, step \in WriteSteps
  PROVE  Op \in Detail /\ Op.before # Unknown
<1>1. Op \in Detail
  BY LastOperation DEF IInv, SessionFits
<1> QED BY <1>1, ContentTypes DEF Detail

LEMMA ModifyDependably ==
  ASSUME IInv, EditorTypes, SessionFits, Dependable', ModifyStep
  PROVE  Kept /\ Dependably
<1> USE DEF WriteSteps, ModifySteps
<1>1. CASE ApplyModify
  <2>1. PICK answered \in BOOLEAN :
          /\ Write(Modify(Op.target, Changed(session)), answered)
          /\ Then(IF answered THEN "after" ELSE "compare")
    BY <1>1 DEF ApplyModify
  <2>2. Kept /\ (Still \/ WritesNow) /\ (answered => Puts(Op.target, Changed(session)))
    BY <1>1, <2>1, WriteMeans DEF ApplyModify
  <2> QED BY <1>1, <2>1, <2>2, KindsAre DEF ApplyModify, Then, Go, Dependably, GoesFurther, Within, OnTrack
<1>2. CASE ReadModified
  <2>1. PICK x \in Content \cup {Unknown} :
          /\ Kept /\ Still
          /\ Succeeds \/ Then("compare")
    BY <1>2, DependableRead DEF ReadModified, Reads, Kept
  <2> QED BY <1>2, <2>1, KindsAre DEF ReadModified, Then, Go, Dependably, GoesFurther, Within, OnTrack, IsApplied
<1>3. CASE CompareModified
  <2>1. PICK x \in Content \cup {Unknown} :
          /\ Kept /\ Still /\ x \in {Sees(Op.target), Unknown}
          /\ (x = Op.before /\ Undone("not-needed")) \/ Then("restore")
    BY <1>3, DependableRead DEF CompareModified, Reads, Kept
  <2>2. Op.before # Unknown
    BY <1>3, BeforeIsContent DEF CompareModified
  <2> QED BY <1>3, <2>1, <2>2, KindsAre
         DEF CompareModified, Then, Go, Dependably, GoesFurther, Within, OnTrack, IsUndone
<1>4. CASE RestoreModified
  <2>1. PICK answered \in BOOLEAN :
          /\ Write(Modify(Op.target, Op.before), answered)
          /\ Then("verify") \/ Fails
    BY <1>4 DEF RestoreModified
  <2>2. Kept /\ (Still \/ WritesNow)
    BY <1>4, <2>1, WriteMeans DEF RestoreModified
  <2> QED BY <1>4, <2>1, <2>2, KindsAre
         DEF RestoreModified, Then, Go, Dependably, GoesFurther, Within, OnTrack, IsFailed
<1>5. CASE VerifyModified
  <2>1. PICK x \in Content \cup {Unknown} :
          /\ Kept /\ Still /\ x \in {Sees(Op.target), Unknown}
          /\ (x = Op.before /\ Undone("restored")) \/ Fails
    BY <1>5, DependableRead DEF VerifyModified, Reads, Kept
  <2>2. Op.before # Unknown
    BY <1>5, BeforeIsContent DEF VerifyModified
  <2> QED BY <1>5, <2>1, <2>2 DEF VerifyModified, Dependably, IsUndone, IsFailed
<1> QED BY <1>1, <1>2, <1>3, <1>4, <1>5 DEF ModifyStep

LEMMA DeleteDependably ==
  ASSUME IInv, EditorTypes, SessionFits, Dependable', DeleteStep
  PROVE  Kept /\ Dependably
<1> USE DEF WriteSteps, DeleteSteps
<1>1. CASE ApplyDelete
  <2>1. PICK answered \in BOOLEAN :
          /\ Write(Delete(Op.target), answered)
          /\ Then(IF answered THEN "deleted" ELSE "still")
    BY <1>1 DEF ApplyDelete
  <2>2. Kept /\ (Still \/ WritesNow)
    BY <1>1, <2>1, WriteMeans DEF ApplyDelete
  <2> QED BY <1>1, <2>1, <2>2, KindsAre DEF ApplyDelete, Then, Go, Dependably, GoesFurther, Within, OnTrack
<1>2. CASE ReadDeleted
  <2>1. PICK x \in Content \cup {Unknown} :
          /\ Kept /\ Still /\ x \in {Sees(Op.target), Unknown}
          /\ (x = Gone /\ Succeeds) \/ Then("still")
    BY <1>2, DependableRead DEF ReadDeleted, Reads, Kept
  <2>2. Gone # Unknown
    BY ContentTypes
  <2> QED BY <1>2, <2>1, <2>2, KindsAre
         DEF ReadDeleted, Then, Go, Dependably, GoesFurther, Within, OnTrack, IsApplied
<1>3. CASE StillExists
  <2>1. PICK x \in Content \cup {Unknown} :
          /\ Kept /\ Still
          /\ Then("current") \/ Then("recreate") \/ Fails
    BY <1>3, DependableRead DEF StillExists, Reads, Kept
  <2> QED BY <1>3, <2>1, KindsAre DEF StillExists, Then, Go, Dependably, GoesFurther, Within, OnTrack, IsFailed
<1>4. CASE CompareDeleted
  <2>1. PICK x \in Content \cup {Unknown} :
          /\ Kept /\ Still /\ x \in {Sees(Op.target), Unknown}
          /\ (x = Op.before /\ Undone("not-needed")) \/ Fails
    BY <1>4, DependableRead DEF CompareDeleted, Reads, Kept
  <2>2. Op.before # Unknown
    BY <1>4, BeforeIsContent DEF CompareDeleted
  <2> QED BY <1>4, <2>1, <2>2 DEF CompareDeleted, Dependably, IsUndone, IsFailed
<1>5. CASE RecreateDeleted
  <2>1. PICK answered \in BOOLEAN :
          /\ Write(Create(Op.before), answered)
          /\ (answered /\ Undone("restored")) \/ Fails
    BY <1>5 DEF RecreateDeleted
  <2>2. Kept /\ (Still \/ WritesNow) /\ (answered => Adds(Op.before))
    BY <1>5, <2>1, WriteMeans DEF RecreateDeleted
  <2> QED BY <1>5, <2>1, <2>2 DEF RecreateDeleted, Dependably, IsUndone, IsFailed
<1> QED BY <1>1, <1>2, <1>3, <1>4, <1>5 DEF DeleteStep

LEMMA CaptureDependably ==
  ASSUME IInv, EditorTypes, SessionFits, Dependable', BeforeModifyOrDelete \/ CaptureBefore
  PROVE  Kept /\ Dependably
<1>1. CASE BeforeModifyOrDelete
  <2>1. Kept /\ Still
    BY <1>1, DependableRead DEF BeforeModifyOrDelete, Kept
  <2> QED BY <1>1, <2>1 DEF Dependably, IsIdle
<1>2. CASE CaptureBefore
  <2>1. PICK x \in Content \cup {Unknown} :
          /\ Kept /\ Still /\ x \in {Sees(Todo.id), Unknown}
          /\ \/ /\ x \notin {Gone, Unknown}
                /\ Reserve(client)
                /\ Log([kind |-> Todo.kind, target |-> Todo.id, before |-> x])
                /\ Go(Todo.kind)
             \/ IsRefused(ReserveRefused(client))
    BY <1>2, DependableRead DEF CaptureBefore, Kept
  <2>2. step = "before"
    BY <1>2 DEF CaptureBefore
  <2> QED BY <2>1, <2>2 DEF Dependably, IsReserved, Reserves, Go, IsIdle, IsRejected
<1> QED BY <1>1, <1>2

LEMMA UndoDependably ==
  ASSUME IInv, DInv, EditorTypes, SessionFits, Dependable', Undo
  PROVE  Kept /\ Dependably
<1>1. step = "undo" /\ step \in UndoSteps /\ session \in Tx /\ UNCHANGED details
  BY WriteIsBusy DEF Undo, UndoSteps, SessionFits, CallFits
<1>2. PICK i \in todo[client] :
        /\ HighestLeft(client, i)
        /\ \/ /\ Write(InverseOf(details[session][i]), TRUE)
              /\ known' = IF details[session][i].kind = "delete" THEN {fresh'} ELSE {details[session][i].target}
              /\ step' = "undone"
              /\ UNCHANGED <<managerVars, session, managed, plan, at, answer, batches>>
           \/ /\ Write(InverseOf(details[session][i]), FALSE)
              /\ RestoreOperation(client, FALSE) /\ Go("undo")
  BY DEF Undo
<1>3. details[session][i] \in Detail
  BY <1>1, TodoIsLogged DEF SessionFits
<1>4. Kept /\ (Still \/ WritesFor(i))
  BY <1>2, <1>3, DependableWrite, InverseMeans DEF Kept
<1>5. CASE Write(InverseOf(details[session][i]), TRUE)
           /\ known' = (IF details[session][i].kind = "delete" THEN {fresh'} ELSE {details[session][i].target})
           /\ step' = "undone"
           /\ UNCHANGED <<managerVars, session, managed, plan, at, answer, batches>>
  <2>1. WritesFor(i) /\ (details[session][i].kind = "delete" => fresh' = fresh + 1)
    BY <1>3, <1>5, DependableWrite, InverseMeans DEF Adds
  <2> QED BY <1>1, <1>2, <1>4, <1>5, <2>1 DEF Dependably, IsUndoing
<1>6. CASE RestoreOperation(client, FALSE) /\ Go("undo")
  BY <1>1, <1>2, <1>4, <1>6 DEF Dependably, IsUndoing, Go
<1> QED BY <1>2, <1>4, <1>5, <1>6

LEMMA BatchDependably ==
  ASSUME IInv, DInv, EditorTypes, SessionFits, Dependable', BatchStep
  PROVE  Kept /\ Dependably
<1>1. CASE VerifyUndone
  <2>1. PICK i \in todo[client], p \in known, x \in Content \cup {Unknown} :
          /\ HighestLeft(client, i)
          /\ getPrimitiveSnapshot(p, x)
          /\ RestoreOperation(client, x = details[session][i].before)
    BY <1>1 DEF VerifyUndone
  <2>2. Kept /\ Still /\ x \in {Sees(p), Unknown}
    BY <2>1, DependableRead DEF Kept
  <2> QED BY <1>1, <2>1, <2>2 DEF VerifyUndone, Dependably, IsVerified
<1>2. CASE RollbackBegins \/ RollbackEnds \/ BatchEnds \/ Judge \/ CommitBatch
  <2>1. Kept /\ Still
    BY <1>2, DependableRead DEF RollbackBegins, RollbackEnds, BatchEnds, Judge, CommitBatch, Kept
  <2> QED BY <1>2, <2>1 DEF Dependably, IsIdle
<1> QED BY <1>1, <1>2, CreateDependably, ModifyDependably, DeleteDependably, CaptureDependably, UndoDependably
       DEF BatchStep, RollbackStep

-----------------------------------------------------------------------------
(***************************************************************************)
(* How the document changes.                                               *)
(***************************************************************************)

\* Primitive p is rewritten for operation i of the session.
Rewrites(i, p) ==
  LET o == details[session][i] IN
  /\ Live(session, i)
  /\ step \in WriteSteps => i = Len(details[session])
  /\ \/ o.kind # "modify" /\ p = o.target /\ doc'[p] = Gone
     \/ o.kind = "modify" /\ p = o.target /\ doc'[p] \in {Changed(session), o.before}
     \/ o.kind = "delete" /\ p = fresh + 1 /\ doc'[p] = o.before
Moves ==
  /\ fresh' \in {fresh, fresh + 1}
  /\ \A p \in Prim : p > fresh' => doc'[p] = Gone
  /\ \A p \in Prim : doc'[p] # doc[p] =>
       \/ step = "create" /\ p = fresh + 1 /\ doc'[p] = Made(session)
       \/ \E i \in DOMAIN details[session] : Rewrites(i, p)

\* Only one primitive is written.
LEMMA WriteMoves ==
  ASSUME EditorTypes, NewOnes,
         \/ Still
         \/ step = "create" /\ Adds(Made(session))
         \/ \E i \in DOMAIN details[session] :
              /\ Live(session, i) /\ WritesFor(i)
              /\ step \in WriteSteps => i = Len(details[session])
  PROVE  Moves
<1>0. doc \in [Prim -> Content] /\ fresh \in Int /\ \A p \in Prim : p > fresh => doc[p] = Gone
  BY DocumentAssumption DEF EditorTypes, NewOnes
<1>0a. Prim \subseteq Int
  BY DEF Prim
<1>1. CASE Still
  BY <1>0, <1>1 DEF Still, Moves
<1>2. CASE step = "create" /\ Adds(Made(session))
  BY <1>0, <1>0a, <1>2 DEF Adds, Moves
<1>3. ASSUME NEW i \in DOMAIN details[session], Live(session, i), WritesFor(i),
             step \in WriteSteps => i = Len(details[session])
      PROVE  Moves
  <2> DEFINE o == details[session][i]
  <2>1. CASE o.kind # "modify" /\ Puts(o.target, Gone)
    BY <1>0, <1>0a, <1>3, <2>1 DEF Puts, Present, Moves, Rewrites
  <2>2. ASSUME o.kind = "modify", NEW x \in {Changed(session), o.before}, Puts(o.target, x) PROVE Moves
    <3>1. o.target \in Prim /\ doc[o.target] # Gone
      BY <2>2 DEF Puts, Present
    <3>2. \A p \in Prim : doc[p] # Gone => p <= fresh
      BY <1>0, <1>0a
    <3>3. o.target <= fresh
      BY <3>1, <3>2
    <3> QED BY <1>0, <1>0a, <1>3, <2>2, <3>1, <3>3 DEF Puts, Moves, Rewrites
  <2>3. CASE o.kind = "delete" /\ Adds(o.before)
    BY <1>0, <1>0a, <1>3, <2>3 DEF Adds, Moves, Rewrites
  <2> QED BY <1>3, <2>1, <2>2, <2>3 DEF WritesFor
<1> QED BY <1>1, <1>2, <1>3

\* A step of the batch writes for an operation that is under way or applied.
LEMMA DependablyMoves ==
  ASSUME IInv, DInv, EditorTypes, SessionFits, NewOnes, Dependably
  PROVE  session \in Tx /\ Moves
<1> DEFINE n == Len(details[session])
<1>1. ASSUME step \in WriteSteps
      PROVE  /\ session \in Tx /\ n \in DOMAIN details[session] /\ Live(session, n)
             /\ step \in DeleteSteps => details[session][n].kind = "delete"
  BY <1>1, LastOperation DEF SessionFits, IInv, Live, PlanFits, Op
<1>2. ASSUME step \in WriteSteps, Still \/ WritesNow PROVE session \in Tx /\ Moves
  BY <1>1, <1>2, WriteMoves DEF WritesNow
<1>3. CASE GoesFurther
  <2>1. step \in WriteSteps
    BY <1>3, StepClasses DEF GoesFurther, Within, Finds, Kinds
  <2> QED BY <1>2, <1>3, <2>1 DEF GoesFurther
<1>4. CASE IsApplied
  <2>1. step \in WriteSteps
    BY <1>4 DEF IsApplied, WriteSteps, CreateSteps, ModifySteps, DeleteSteps
  <2> QED BY <1>2, <1>4, <2>1 DEF IsApplied
<1>5. CASE IsFailed
  BY <1>2, <1>5 DEF IsFailed
<1>6. CASE IsUndone
  <2>1. step \in WriteSteps
    BY <1>6 DEF IsUndone, WriteSteps, CreateSteps
  <2>2. CASE Still
    BY <1>2, <2>1, <2>2
  <2>3. CASE step \in DeleteSteps /\ Adds(Op.before)
    <3>1. WritesFor(n)
      BY <1>1, <2>1, <2>3 DEF WritesFor, Op
    <3> QED BY <1>1, <2>1, <3>1, WriteMoves
  <2> QED BY <1>6, <2>2, <2>3 DEF IsUndone
<1>7. CASE IsReserved \/ IsIdle \/ IsVerified
  <2>1. Still /\ step # "ready"
    BY <1>7 DEF IsReserved, Reserves, IsIdle, IsVerified, IsRejected, BeforeModifyOrDelete, RollbackBegins,
                RollbackEnds, BatchEnds, Judge, CommitBatch
  <2>2. session \in Tx
    BY <2>1, WriteIsBusy DEF SessionFits, CallFits
  <2> QED BY <2>1, <2>2, WriteMoves
<1>8. CASE IsUndoing
  <2>1. step \in UndoSteps
    BY <1>8 DEF IsUndoing, UndoSteps
  <2>2. PICK i \in todo[client] : Still \/ WritesFor(i)
    BY <1>8 DEF IsUndoing
  <2>3. session \in Tx /\ i \in DOMAIN details[session]
    BY <2>1, TodoIsLogged DEF SessionFits
  <2>4. Live(session, i) /\ step \notin WriteSteps
    BY <2>1, WriteIsBusy DEF SessionFits, TodoIsWritten, Live
  <2> QED BY <2>2, <2>3, <2>4, WriteMoves
<1> QED BY <1>3, <1>4, <1>5, <1>6, <1>7, <1>8 DEF Dependably

\* What is remembered of an operation, of whichever transaction, stays true.
LEMMA RememberedStays ==
  ASSUME EditorTypes, NewOnes, Remembered, session \in Tx, Moves,
         NEW t \in Tx, NEW o, RememberedAs(t, o)
  PROVE  RememberedAs(t, o)'
<1>1. CASE o.kind = "create" /\ o.target \in Existing + 1 .. fresh
  <2>1. o.target \in Prim /\ o.target # fresh + 1 /\ o.target > Existing
    BY <1>1, DocumentAssumption DEF EditorTypes, Prim
  <2>2. ASSUME NEW i \in DOMAIN details[session], Rewrites(i, o.target)
        PROVE  doc'[o.target] = Gone
    <3>1. details[session][i].kind # "create" => details[session][i].target \in 1..Existing
      BY DEF Remembered, RememberedAs
    <3>2. details[session][i].kind # "create" => details[session][i].target # o.target
      BY <2>1, <3>1, DocumentAssumption
    <3>3. details[session][i].kind = "create" => details[session][i].kind \notin {"modify", "delete"}
      OBVIOUS
    <3> QED BY <2>1, <2>2, <3>2, <3>3 DEF Rewrites
  <2>3. doc'[o.target] \in {doc[o.target], Gone}
    BY <2>1, <2>2 DEF Moves
  <2>4. o.target \in Existing + 1 .. fresh'
    BY <1>1, DocumentAssumption DEF Moves, EditorTypes
  <2>5. doc[o.target] \in {Made(t), Gone} /\ o.before = Gone
    BY <1>1, <2>1, DocumentAssumption DEF RememberedAs, NoPrim
  <2> QED BY <1>1, <2>3, <2>4, <2>5 DEF RememberedAs
<1>2. CASE ~(o.kind = "create" /\ o.target \in Existing + 1 .. fresh)
  BY <1>2 DEF RememberedAs
<1> QED BY <1>1, <1>2

\* What a before-snapshot is not.
LEMMA BeforeIsOld ==
  ASSUME LogTypes, Remembered, NEW t \in Tx, NEW i \in DOMAIN details[t], details[t][i].kind # "create"
  PROVE  /\ details[t][i].target \in 1..Existing /\ details[t][i].before # Gone
         /\ \A u \in Tx : details[t][i].before # Made(u)
BY ContentTypes DEF Remembered, RememberedAs

LEMMA NewOnesStay ==
  ASSUME EditorTypes, LogTypes, NewOnes, Remembered, session \in Tx, Moves
  PROVE  NewOnes'
<1>1. ASSUME NEW p \in Prim, NEW u \in Tx, doc'[p] = Made(u) PROVE p > Existing
  <2>1. CASE doc'[p] = doc[p]
    BY <1>1, <2>1 DEF NewOnes
  <2>2. CASE step = "create" /\ p = fresh + 1
    BY <2>2, DocumentAssumption DEF EditorTypes
  <2>3. ASSUME NEW i \in DOMAIN details[session], Rewrites(i, p) PROVE FALSE
    BY <1>1, <2>3, BeforeIsOld, ContentTypes DEF Rewrites
  <2> QED BY <2>1, <2>2, <2>3 DEF Moves
<1> QED BY <1>1 DEF NewOnes, Moves

-----------------------------------------------------------------------------
(***************************************************************************)
(* What is remembered of the document.                                     *)
(***************************************************************************)

\* The operation that is reserved, with what was read for it.
LEMMA ReservedIs ==
  ASSUME IInv, IInv', DInv, EditorTypes, SessionFits, IsReserved
  PROVE  /\ session \in Tx /\ at \in 1..Len(plan) /\ step \in {"next", "before"} /\ step' = Todo.kind
         /\ Still /\ UNCHANGED <<session, managed, plan, at, answer>>
         /\ state[session] \in Open /\ state'[session] = "active"
         /\ operations'[session] = Append(operations[session], PendingOperation)
         /\ \A t \in Tx : t # session => operations'[t] = operations[t]
         /\ \E d \in Detail :
              /\ Log(d) /\ d.kind = Todo.kind /\ d.target = Todo.id
              /\ d.kind = "create" => d.target = NoPrim /\ d.before = Gone /\ known' = Listed
              /\ d.kind # "create" => /\ d.target \in 1..Existing /\ step = "before"
                                      /\ d.before = doc[Todo.id] /\ d.before # Gone
<1>1. Reserves /\ Still
  BY DEF IsReserved
<1>2. /\ session \in Tx /\ at \in 1..Len(plan) /\ step \in {"next", "before"} /\ step' = Todo.kind
      /\ UNCHANGED <<session, managed, plan, at, answer>>
      /\ state[session] \in Open /\ state'[session] = "active"
      /\ operations'[session] = Append(operations[session], PendingOperation)
      /\ \A t \in Tx : t # session => operations'[t] = operations[t]
  BY <1>1, ReservesEffect
<1>3. /\ Todo.kind \in {"create", "modify", "delete"} /\ Todo.id \in 0..Existing
      /\ Todo.id = NoPrim <=> Todo.kind = "create"
  BY <1>2, PlanOperation DEF Todo, SessionFits, PlanFits
<1>4. \E d \in Detail :
        /\ Log(d) /\ d.kind = Todo.kind /\ d.target = Todo.id
        /\ d.kind = "create" => d.target = NoPrim /\ d.before = Gone /\ known' = Listed
        /\ d.kind # "create" => /\ d.target \in 1..Existing /\ step = "before"
                                /\ d.before = doc[Todo.id] /\ d.before # Gone
  <2>1. CASE step = "next"
    <3> DEFINE d == [kind |-> "create", target |-> NoPrim, before |-> Gone]
    <3>1. Todo.kind = "create" /\ Log(d) /\ known' = Listed
      BY <1>1, <2>1 DEF Reserves, IsReserved
    <3>2. d \in Detail
      BY ContentTypes DEF Detail
    <3> QED BY <1>3, <3>1, <3>2
  <2>2. CASE step = "before"
    <3> DEFINE d == [kind |-> Todo.kind, target |-> Todo.id, before |-> Sees(Todo.id)]
    <3>1. Todo.kind # "create" /\ Log(d) /\ Sees(Todo.id) # Gone
      BY <2>2 DEF IsReserved, SessionFits, PlanFits
    <3>2. Todo.id \in 1..Existing /\ Todo.id \in Prim
      BY <1>3, <3>1, DocumentAssumption DEF NoPrim, Prim
    <3>3. Sees(Todo.id) = doc[Todo.id] /\ doc[Todo.id] \in Content
      BY <3>1, <3>2 DEF Sees, EditorTypes
    <3>4. d \in Detail
      BY <1>3, <3>2, <3>3 DEF Detail
    <3> QED BY <1>3, <2>2, <3>1, <3>2, <3>3, <3>4
  <2> QED BY <1>2, <2>1, <2>2
<1> QED BY <1>1, <1>2, <1>4

\* The details, whichever the step.
LEMMA DetailsMove ==
  ASSUME Dependably
  PROVE  \/ details' = details
         \/ Finds /\ Still /\ \E p \in Prim : Listed \ known = {p} /\ Found(p)
         \/ IsReserved
BY DEF Dependably, GoesFurther, Within, IsApplied, Succeeds, IsFailed, Fails, IsUndone, Undone, IsIdle,
       IsRejected, IsRefused, BeforeModifyOrDelete, RollbackBegins, RollbackEnds, BatchEnds, Judge, CommitBatch,
       IsUndoing, IsVerified

\* The primitive that is found was made by the session.
LEMMA FoundIsMade ==
  ASSUME EditorTypes, NewOnes, KnownFits, session \in Tx, step \in SearchSteps, NEW p, Listed \ known = {p}
  PROVE  p \in Prim /\ p \in Existing + 1 .. fresh /\ doc[p] = Made(session) /\ p \notin known
<1>1. p \in Prim /\ doc[p] = Made(session) /\ doc[p] # Gone
  BY DEF KnownFits, Listed, Present
<1>2. p \in Int /\ fresh \in Int /\ Existing \in Int
  BY <1>1, DocumentAssumption DEF Prim, EditorTypes
<1> QED BY <1>1, <1>2 DEF NewOnes

LEMMA RememberedKept ==
  ASSUME IInv, IInv', DInv, EditorTypes, SessionFits, NewOnes, Remembered, KnownFits, Dependably, session' = session
  PROVE  Remembered'
<1>1. session \in Tx /\ Moves
  BY DependablyMoves
<1>2. ASSUME NEW t \in Tx, NEW i \in DOMAIN details[t], details'[t][i] = details[t][i]
      PROVE  RememberedAs(t, details[t][i])'
  <2>1. PICK o : o = details[t][i]
    OBVIOUS
  <2>2. RememberedAs(t, o)
    BY <2>1 DEF Remembered
  <2>3. RememberedAs(t, o)'
    BY <1>1, <2>2, RememberedStays
  <2> QED BY <1>2, <2>1, <2>3
<1>3. CASE details' = details
  BY <1>2, <1>3 DEF Remembered
<1>4. CASE Finds /\ Still /\ \E p \in Prim : Listed \ known = {p} /\ Found(p)
  <2>1. PICK p \in Prim : Listed \ known = {p} /\ Found(p)
    BY <1>4
  <2>2. PICK n : n = Len(details[session])
    OBVIOUS
  <2>3. step \in SearchSteps /\ step \in WriteSteps /\ step \in CreateSteps
    BY <1>4, StepClasses DEF Finds
  <2>4. n \in DOMAIN details[session] /\ details[session][n].kind = "create"
    BY <2>2, <2>3, LastOperation DEF SessionFits, IInv, PlanFits, Op
  <2>5. /\ \A t \in Tx : t # session => details'[t] = details[t]
        /\ DOMAIN details'[session] = DOMAIN details[session]
        /\ \A i \in DOMAIN details[session] : i # n => details'[session][i] = details[session][i]
        /\ details'[session][n].target = p
        /\ details'[session][n].kind = details[session][n].kind
        /\ details'[session][n].before = details[session][n].before
    BY <1>1, <2>1, <2>2, <2>4, FoundEffect DEF SessionFits
  <2>6. p \in Existing + 1 .. fresh' /\ doc'[p] = Made(session)
    BY <1>1, <1>4, <2>1, <2>3, FoundIsMade DEF Still
  <2>7. details[session][n].before = Gone
    BY <1>1, <2>4 DEF Remembered, RememberedAs
  <2>8. RememberedAs(session, details[session][n])'
    BY <2>4, <2>5, <2>6, <2>7 DEF RememberedAs
  <2> QED BY <1>2, <2>5, <2>8 DEF Remembered
<1>5. CASE IsReserved
  <2>1. PICK d \in Detail :
          /\ Log(d)
          /\ d.kind = "create" => d.target = NoPrim /\ d.before = Gone
          /\ d.kind # "create" => /\ d.target \in 1..Existing /\ d.target = Todo.id
                                  /\ d.before = doc[Todo.id] /\ d.before # Gone
    BY <1>5, ReservedIs
  <2>2. /\ \A t \in Tx : t # session => details'[t] = details[t]
        /\ DOMAIN details'[session] = DOMAIN details[session] \cup {Len(details[session]) + 1}
        /\ details'[session][Len(details[session]) + 1] = d
        /\ \A i \in DOMAIN details[session] : details'[session][i] = details[session][i]
    BY <1>1, <1>5, <2>1, ReservedIs, LoggedEffect DEF SessionFits
  <2>3. d.kind # "create" => \/ \E p \in 1..Existing : d.before = Original(p)
                             \/ \E u \in Tx : d.before = Changed(u)
    <3>1. d.kind # "create" => d.target \in Prim /\ d.target <= Existing
      BY <2>1, DocumentAssumption DEF Prim
    <3>2. d.kind # "create" => d.before \in Content \ {Gone} /\ \A u \in Tx : d.before # Made(u)
      BY <2>1, <3>1, DocumentAssumption DEF EditorTypes, NewOnes
    <3> QED BY <3>2 DEF Content, Made, Changed, Original
  <2>4. RememberedAs(session, d)'
    BY <2>1, <2>3 DEF RememberedAs
  <2> QED BY <1>2, <2>2, <2>4 DEF Remembered
<1> QED BY <1>3, <1>4, <1>5, DetailsMove

LEMMA KnownKept ==
  ASSUME IInv, IInv', DInv, EditorTypes, SessionFits, NewOnes, Remembered, KnownFits, Dependably, session' = session
  PROVE  KnownFits'
<1> SUFFICES ASSUME step' \in SearchSteps PROVE KnownFits'
  BY DEF KnownFits, SearchSteps
<1>0. session \in Tx
  BY DependablyMoves
<1>1. CASE GoesFurther
  <2>1. step \in SearchSteps /\ known' = known /\ (Still \/ WritesNow) /\ step' # "create"
    <3>1. ~Finds
      BY DEF Finds
    <3>2. PICK S \in Kinds : Within(S) /\ (Still \/ WritesNow)
      BY <1>1, <3>1 DEF GoesFurther
    <3>3. S = SearchSteps
      BY <3>2, StepClasses DEF Kinds, Within
    <3> QED BY <1>1, <3>2, <3>3 DEF Within, GoesFurther
  <2>2. CASE Still
    BY <2>1, <2>2 DEF KnownFits, Still, Listed, Present
  <2>3. CASE step = "create" /\ Adds(Made(session))
    <3>1. fresh + 1 \in Prim /\ doc' = [doc EXCEPT ![fresh + 1] = Made(session)] /\ Made(session) # Gone
      BY <1>0, <2>3, ContentTypes, DocumentAssumption DEF Adds, EditorTypes, Prim
    <3>2. Listed' = Listed \cup {fresh + 1} /\ doc'[fresh + 1] = Made(session)
      BY <3>1 DEF Listed, Present, EditorTypes
    <3>3. known = Listed
      BY <2>3 DEF KnownFits
    <3> QED BY <2>1, <3>2, <3>3 DEF KnownFits
  <2> QED BY <2>1, <2>2, <2>3 DEF WritesNow
<1>2. CASE IsReserved
  <2>1. Todo.kind = "create" /\ known' = Listed /\ Still
    <3>1. Todo.kind \in SearchSteps
      BY <1>2, ReservedIs
    <3>2. Todo.kind = "create"
      BY <1>2, <3>1, ReservedIs DEF SearchSteps, Detail
    <3> QED BY <1>2, <3>2, ReservedIs
  <2>2. Listed' = Listed
    BY <2>1 DEF Still, Listed, Present
  <2> QED BY <2>1, <2>2 DEF KnownFits
<1>3. CASE IsApplied \/ IsFailed \/ IsUndone
  BY <1>3 DEF IsApplied, Succeeds, Proceed, IsFailed, Fails, IsUndone, Undone, ToRollback, SearchSteps
<1>4. CASE IsIdle
  BY <1>4 DEF IsIdle, IsRejected, IsRefused, ToRollback, BeforeModifyOrDelete, RollbackBegins, RollbackEnds, BatchEnds,
              Judge, CommitBatch, Go, Answer, SearchSteps
<1>5. CASE IsUndoing \/ IsVerified
  BY <1>5 DEF IsUndoing, IsVerified, SearchSteps
<1> QED BY <1>1, <1>2, <1>3, <1>4, <1>5 DEF Dependably

LEMMA UndoneKept ==
  ASSUME IInv, DInv, EditorTypes, SessionFits, Dependably
  PROVE  UndoneFits'
<1> SUFFICES ASSUME step' = "undone" PROVE UndoneFits'
  BY DEF UndoneFits
<1>1. IsUndoing
  <2>1. ~GoesFurther
    BY StepClasses DEF GoesFurther, Within, Finds, Kinds, CreateSteps, SearchSteps, ModifySteps, DeleteSteps
  <2>2. ~IsApplied /\ ~IsFailed /\ ~IsUndone /\ ~IsVerified
    BY DEF IsApplied, Succeeds, Proceed, IsFailed, Fails, IsUndone, Undone, ToRollback, IsVerified
  <2>3. ~IsIdle
    BY DEF IsIdle, IsRejected, IsRefused, ToRollback, BeforeModifyOrDelete, RollbackBegins, RollbackEnds, BatchEnds,
           Judge, CommitBatch, Go, Answer
  <2>4. ~IsReserved
    BY PlanOperation DEF IsReserved, Reserves, Go, SessionFits, PlanFits, Todo
  <2> QED BY <2>1, <2>2, <2>3, <2>4 DEF Dependably
<1>2. PICK i \in todo[client] :
        /\ HighestLeft(client, i)
        /\ UNCHANGED <<details, session>>
        /\ details[session][i].kind = "delete" => fresh' = fresh + 1
        /\ known' = IF details[session][i].kind = "delete" THEN {fresh'} ELSE {details[session][i].target}
        /\ UNCHANGED todo
  BY <1>1 DEF IsUndoing, managerVars, callVars
<1>3. todo[client] \subseteq Int
  BY ClientIsCall DEF IInv, TypeOK
<1>4. ASSUME NEW j \in todo'[client], HighestLeft(client, j)' PROVE j = i
  BY <1>2, <1>3, <1>4 DEF HighestLeft
<1>5. fresh + 1 > Existing
  BY DocumentAssumption DEF EditorTypes
<1> QED BY <1>2, <1>4, <1>5 DEF UndoneFits

\* The state of operation i of the session, and no other, is set.
OperationGets(i, to) ==
  /\ i \in DOMAIN operations[session]
  /\ \A t \in Tx : DOMAIN operations'[t] = DOMAIN operations[t]
  /\ \A t \in Tx : t # session => operations'[t] = operations[t]
  /\ \A j \in DOMAIN operations[session] : j # i => operations'[session][j] = operations[session][j]
  /\ operations'[session][i].state = to

LEMMA OutcomeGets ==
  ASSUME IInv, SessionFits, step \in WriteSteps
  PROVE  /\ Succeeds => OperationGets(Len(details[session]), "applied")
         /\ Fails => OperationGets(Len(details[session]), "failed")
         /\ \A comp \in {"not-needed", "restored"} :
              Undone(comp) => OperationGets(Len(details[session]), "cancelled")
<1>1. session \in Tx /\ callTx[client] = session /\ pc[client] = "applying"
  BY WriteIsBusy DEF SessionFits, CallFits
<1>2. ASSUME NEW i \in todo[client],
             NEW to \in {"applied", "cancelled", "failed"},
             NEW comp \in {"undefined", "not-needed", "restored", "failed"},
             SetOperation(callTx[client], i, to, comp)
      PROVE  OperationGets(Len(details[session]), to)
  <2>1. /\ i = Len(details[session]) /\ i \in DOMAIN operations[session]
        /\ \A t \in Tx : DOMAIN operations'[t] = DOMAIN operations[t]
        /\ \A t \in Tx : t # session => operations'[t] = operations[t]
        /\ \A j \in DOMAIN operations[session] :
             operations'[session][j] = IF j = i THEN [state |-> to, compensation |-> comp]
                                                ELSE operations[session][j]
    BY <1>2, OutcomeEffect
  <2> QED BY <2>1 DEF OperationGets
<1>3. ASSUME Succeeds PROVE OperationGets(Len(details[session]), "applied")
  <2>1. PICK i \in todo[client] : SetOperation(callTx[client], i, "applied", operations[callTx[client]][i].compensation)
    BY <1>3 DEF Succeeds, Applied
  <2>2. i \in DOMAIN operations[session] /\ operations[session] \in Seq(Operation)
    BY <1>1, ClientIsCall DEF IInv, CallsOK, ApplyingCalls, TypeOK
  <2>3. operations[session][i].compensation \in {"undefined", "not-needed", "restored", "failed"}
    <3>1. operations[session][i] \in Operation
      BY <2>2
    <3> QED BY <3>1 DEF Operation
  <2> QED BY <1>1, <1>2, <2>1, <2>3
<1>4. ASSUME Fails PROVE OperationGets(Len(details[session]), "failed")
  BY <1>2, <1>4 DEF Fails, failTransaction
<1>5. ASSUME NEW comp \in {"not-needed", "restored"}, Undone(comp)
      PROVE  OperationGets(Len(details[session]), "cancelled")
  BY <1>2, <1>5 DEF Undone, Compensated
<1> QED BY <1>3, <1>4, <1>5

LEMMA RestoreGets ==
  ASSUME IInv, DInv, SessionFits, step \in UndoSteps, NEW restored \in BOOLEAN,
         RestoreOperation(client, restored), NEW i \in todo[client], HighestLeft(client, i)
  PROVE  OperationGets(i, IF restored THEN "rolled-back" ELSE "failed")
<1>1. PICK j \in todo[client] :
        /\ HighestLeft(client, j)
        /\ j \in DOMAIN operations[session]
        /\ \A t \in Tx : DOMAIN operations'[t] = DOMAIN operations[t]
        /\ \A t \in Tx : t # session => operations'[t] = operations[t]
        /\ \A k \in DOMAIN operations[session] : k # j => operations'[session][k] = operations[session][k]
        /\ operations'[session][j] =
             IF restored THEN [state |-> "rolled-back", compensation |-> "restored"]
                         ELSE [state |-> "failed", compensation |-> "failed"]
  BY RestoreEffect
<1>2. i = j
  <2>1. todo[client] \subseteq Int
    BY ClientIsCall DEF IInv, TypeOK
  <2> QED BY <1>1, <2>1 DEF HighestLeft
<1> QED BY <1>1, <1>2 DEF OperationGets

\* The operations, whichever the step.
LEMMA OperationsMove ==
  ASSUME IInv, DInv, SessionFits, Dependably
  PROVE  /\ GoesFurther \/ IsIdle => operations' = operations
         /\ IsApplied => step \in WriteSteps /\ OperationGets(Len(details[session]), "applied")
         /\ IsFailed => step \in WriteSteps /\ OperationGets(Len(details[session]), "failed")
         /\ IsUndone => step \in WriteSteps /\ OperationGets(Len(details[session]), "cancelled")
         /\ IsUndoing => \/ operations' = operations
                         \/ \E i \in todo[client] : HighestLeft(client, i) /\ OperationGets(i, "failed")
         /\ IsVerified => \E i \in todo[client], p \in known :
                            /\ HighestLeft(client, i)
                            /\ \/ OperationGets(i, "failed")
                               \/ OperationGets(i, "rolled-back") /\ details[session][i].before = Sees(p)
<1>1. GoesFurther \/ IsIdle => operations' = operations
  BY DEF GoesFurther, Within, Finds, IsIdle, IsRejected, IsRefused, Refused, BeforeModifyOrDelete, StartModifyOrDelete,
         ReserveRefused, RollbackBegins, RollbackNothing, StartRollback, RollbackEnds, FinishRollback,
         BatchEnds, StartValidate, Judge, FinishValidate, CommitBatch, Commit, managerVars, txVars
<1>2. IsApplied => step \in WriteSteps /\ OperationGets(Len(details[session]), "applied")
  <2>1. IsApplied => step \in WriteSteps /\ Succeeds
    BY DEF IsApplied, WriteSteps, CreateSteps, ModifySteps, DeleteSteps
  <2> QED BY <2>1, OutcomeGets
<1>3. IsFailed => step \in WriteSteps /\ OperationGets(Len(details[session]), "failed")
  BY OutcomeGets DEF IsFailed
<1>4. IsUndone => step \in WriteSteps /\ OperationGets(Len(details[session]), "cancelled")
  <2>1. IsUndone => step \in WriteSteps /\ \E comp \in {"not-needed", "restored"} : Undone(comp)
    BY DEF IsUndone, WriteSteps, CreateSteps
  <2> QED BY <2>1, OutcomeGets
<1>5. ASSUME IsUndoing
      PROVE  \/ operations' = operations
             \/ \E i \in todo[client] : HighestLeft(client, i) /\ OperationGets(i, "failed")
  <2>1. step \in UndoSteps
    BY <1>5 DEF IsUndoing, UndoSteps
  <2>2. PICK i \in todo[client] : HighestLeft(client, i) /\ (UNCHANGED managerVars \/ RestoreOperation(client, FALSE))
    BY <1>5 DEF IsUndoing
  <2>3. RestoreOperation(client, FALSE) => OperationGets(i, "failed")
    BY <2>1, <2>2, RestoreGets
  <2> QED BY <2>2, <2>3 DEF managerVars, txVars
<1>6. ASSUME IsVerified
      PROVE  \E i \in todo[client], p \in known :
               /\ HighestLeft(client, i)
               /\ \/ OperationGets(i, "failed")
                  \/ OperationGets(i, "rolled-back") /\ details[session][i].before = Sees(p)
  <2>1. step \in UndoSteps
    BY <1>6 DEF IsVerified, UndoSteps
  <2>2. PICK i \in todo[client], p \in known, x \in Content \cup {Unknown} :
          /\ HighestLeft(client, i)
          /\ x \in {Sees(p), Unknown}
          /\ RestoreOperation(client, x = details[session][i].before)
    BY <1>6 DEF IsVerified
  <2>3. OperationGets(i, IF x = details[session][i].before THEN "rolled-back" ELSE "failed")
    BY <2>1, <2>2, RestoreGets
  <2>4. details[session][i].before # Unknown
    BY <2>1, <2>2, TodoIsLogged, ContentTypes DEF SessionFits, Detail
  <2>5. CASE x = details[session][i].before
    BY <2>2, <2>3, <2>4, <2>5
  <2>6. CASE x # details[session][i].before
    BY <2>2, <2>3, <2>6
  <2> QED BY <2>5, <2>6
<1> QED BY <1>1, <1>2, <1>3, <1>4, <1>5, <1>6

\* The new primitive of a create, before it is looked for.
LEMMA CreatedIsOwned ==
  ASSUME IInv, DInv, EditorTypes, SessionFits, NewOnes, KnownFits, Dependably, session' = session,
         step = "create", fresh + 1 \in Prim, doc'[fresh + 1] # doc[fresh + 1]
  PROVE  LET n == Len(details[session]) IN
         /\ n \in DOMAIN details[session] /\ details[session][n].kind = "create" /\ Live(session, n)
         /\ operations' = operations /\ details' = details
         /\ step' \in SearchSteps /\ fresh + 1 \notin known'
<1>1. GoesFurther
  BY DEF Dependably, IsApplied, IsFailed, IsUndone, ModifySteps, DeleteSteps, IsReserved, Reserves, IsIdle, IsRejected,
         BeforeModifyOrDelete, RollbackBegins, RollbackEnds, BatchEnds, Judge, CommitBatch, IsUndoing, IsVerified
<1>2. step \in SearchSteps /\ step \in WriteSteps /\ step \in CreateSteps
  BY StepClasses
<1>3. ~Still
  BY DEF Still
<1>4. step' \in SearchSteps /\ known' = known /\ details' = details /\ operations' = operations
  <2>1. PICK S \in Kinds : Within(S)
    BY <1>1, <1>3 DEF GoesFurther
  <2>2. S = SearchSteps
    BY <1>2, <2>1, StepClasses DEF Kinds, Within
  <2> QED BY <2>1, <2>2 DEF Within, managerVars, txVars
<1>5. fresh + 1 \notin known
  <2>1. known = Listed
    BY DEF KnownFits
  <2>2. doc[fresh + 1] = Gone
    BY DocumentAssumption DEF NewOnes, EditorTypes
  <2> QED BY <2>1, <2>2 DEF Listed, Present
<1> QED BY <1>2, <1>4, <1>5, LastOperation DEF IInv, SessionFits, PlanFits, Op, Live

LEMMA SameDomain ==
  ASSUME LogTypes, NEW t \in Tx
  PROVE  /\ DOMAIN details[t] = DOMAIN operations[t] /\ DOMAIN details[t] = 1..Len(details[t])
         /\ \A i \in DOMAIN details[t] : details[t][i] \in Detail
<1>1. details[t] \in Seq(Detail) /\ Len(details[t]) = Len(operations[t])
  BY DEF LogTypes
<1> QED BY <1>1

\* An operation that is undone leaves nothing of its own behind.
LEMMA UndoneIsClean ==
  ASSUME IInv, DInv, EditorTypes, SessionFits, UndoneFits, Dependably,
         NewOnes, Remembered, NEW i \in DOMAIN details[session], Live(session, i),
         operations'[session][i].state \notin {"pending", "applied", "failed"},
         ~IsReserved
  PROVE  LET o == details[session][i] IN
         /\ o.kind = "create" =>
              \/ step \in SearchSteps /\ Still /\ Listed \subseteq known /\ o.target = NoPrim
                 /\ i = Len(details[session])
              \/ o.target \in Prim /\ doc'[o.target] = Gone
         /\ o.kind # "create" =>
              \/ doc'[o.target] = o.before
              \/ o.kind = "delete" /\ \E q \in Prim : q > Existing /\ doc'[q] = o.before
<1>0. session \in Tx
  BY DependablyMoves
<1>1. operations'[session][i].state # operations[session][i].state
  BY DEF Live
<1>2. ASSUME NEW j, NEW to \in {"applied", "failed"}, OperationGets(j, to) PROVE FALSE
  BY <1>0, <1>1, <1>2, SameDomain DEF OperationGets, SessionFits
<1>3. CASE IsUndone
  <2>1. step \in WriteSteps /\ OperationGets(Len(details[session]), "cancelled")
    BY <1>3, OperationsMove
  <2>2. i = Len(details[session])
    BY <1>0, <1>1, <2>1, SameDomain DEF OperationGets, SessionFits
  <2>3. Op = details[session][i]
    BY <2>2 DEF Op
  <2>4. /\ step \in CreateSteps => Op.kind = "create"
        /\ step \in ModifySteps => Op.kind = "modify"
        /\ step \in DeleteSteps => Op.kind = "delete"
        /\ step \in SearchSteps => Op.target = NoPrim
        /\ step \in CreateSteps \ SearchSteps => Op.target \in Prim
    BY DEF SessionFits, PlanFits
  <2>5. \/ step = "reconcile" /\ step \in SearchSteps /\ step \in CreateSteps
        \/ step = "gone" /\ step \in CreateSteps \ SearchSteps
        \/ step \in ModifySteps \/ step \in DeleteSteps
    BY <1>3 DEF IsUndone, CreateSteps, SearchSteps
  <2>6. \A p, x : Sees(p) = x /\ (x # Gone \/ p \in Prim) => doc[p] = x
    BY DEF Sees, Present
  <2>7. Op.kind # "create" => Op.before # Gone
    BY <1>0, <2>2, <2>3, BeforeIsOld DEF SessionFits
  <2>8. Adds(Op.before) => \E q \in Prim : q > Existing /\ doc'[q] = Op.before
    <3>1. fresh < MaxPrim => fresh + 1 \in Prim /\ fresh + 1 > Existing
      BY DocumentAssumption DEF EditorTypes, Prim
    <3> QED BY <3>1 DEF Adds, EditorTypes
  <2>9. CASE step \in CreateSteps
    <3>1. CASE step = "reconcile"
      BY <1>3, <2>2, <2>3, <2>4, <2>5, <3>1 DEF IsUndone, SearchSteps, ModifySteps, DeleteSteps
    <3>2. CASE step = "gone"
      BY <1>3, <2>3, <2>4, <2>5, <2>6, <3>2 DEF IsUndone, Still, SearchSteps, ModifySteps, DeleteSteps
    <3> QED BY <2>5, <2>9, <3>1, <3>2, StepClasses
  <2>10. CASE step \in ModifySteps
    <3>1. Still /\ Sees(Op.target) = Op.before
      BY <1>3, <2>10, StepClasses DEF IsUndone, ModifySteps, DeleteSteps
    <3> QED BY <2>3, <2>4, <2>6, <2>7, <2>10, <3>1 DEF Still
  <2>11. CASE step \in DeleteSteps
    <3>1. (Still /\ Sees(Op.target) = Op.before) \/ Adds(Op.before)
      BY <1>3, <2>11, StepClasses DEF IsUndone, ModifySteps, DeleteSteps
    <3> QED BY <2>3, <2>4, <2>6, <2>7, <2>8, <2>11, <3>1 DEF Still
  <2> QED BY <2>5, <2>9, <2>10, <2>11
<1>4. CASE IsVerified
  <2>1. PICK j \in todo[client], p \in known :
          /\ HighestLeft(client, j)
          /\ OperationGets(j, "rolled-back") /\ details[session][j].before = Sees(p)
    BY <1>2, <1>4, OperationsMove
  <2>2. i = j
    BY <1>0, <1>1, <2>1, SameDomain DEF OperationGets, SessionFits
  <2>3. step = "undone" /\ Still /\ details[session][i] \in Detail /\ known \subseteq Prim
    BY <1>0, <1>4, SameDomain DEF IsVerified, SessionFits, ClientTypes
  <2>4. details[session][i].kind # "delete" => p = details[session][i].target
    BY <2>1, <2>2, <2>3 DEF UndoneFits
  <2>5. details[session][i].kind = "create" => details[session][i].before = Gone
    BY <1>0 DEF Remembered, RememberedAs
  <2>6. p \in Prim /\ (details[session][i].kind = "delete" => p > Existing)
    BY <2>1, <2>2, <2>3 DEF UndoneFits
  <2>7. doc'[p] = details[session][i].before
    BY <2>1, <2>2, <2>3, <2>6 DEF Sees, Present, Still
  <2> QED BY <2>3, <2>4, <2>5, <2>6, <2>7 DEF Detail
<1> QED BY <1>1, <1>2, <1>3, <1>4, OperationsMove DEF Dependably

\* An operation of before the step.
LEMMA DetailStays ==
  ASSUME IInv, IInv', DInv, EditorTypes, SessionFits, Dependably, BatchStep, session \in Tx,
         NEW t \in Tx, NEW i \in DOMAIN details[t]
  PROVE  /\ i \in DOMAIN details'[t]
         /\ details'[t][i].kind = details[t][i].kind /\ details'[t][i].before = details[t][i].before
         /\ \/ details'[t][i] = details[t][i]
            \/ /\ t = session /\ i = Len(details[t]) /\ Finds /\ Still
               /\ \E p \in Prim : Listed \ known = {p} /\ details'[t][i].target = p
         /\ t # session \/ IsReserved => operations'[t][i] = operations[t][i]
<1>1. DOMAIN details[t] = DOMAIN operations[t] /\ operations[t] \in Seq(Operation)
  BY SameDomain DEF SessionFits, IInv, TypeOK
<1>6. t = session /\ IsReserved => operations'[t][i] = operations[t][i]
  <2>1. t = session /\ IsReserved => operations'[t] = Append(operations[t], PendingOperation)
    BY ReservedIs
  <2>2. PendingOperation \in Operation
    BY DEF PendingOperation, Operation
  <2>3. Append(operations[t], PendingOperation)[i] = operations[t][i]
    BY <1>1, <2>2
  <2> QED BY <2>1, <2>3
<1>2. CASE t # session
  BY <1>2, BatchLogs, BatchStepManages, OthersKeep, SessionsCall DEF SessionFits, KeepsSession
<1>3. CASE t = session /\ details' = details
  <2>1. IsReserved => operations'[t][i] = operations[t][i]
    BY <1>1, <1>3, <1>6
  <2> QED BY <1>3, <2>1
<1>4. CASE t = session /\ Finds /\ Still /\ \E p \in Prim : Listed \ known = {p} /\ Found(p)
  <2>1. PICK p \in Prim : Listed \ known = {p} /\ Found(p)
    BY <1>4
  <2>2. PICK n : n = Len(details[session])
    OBVIOUS
  <2>3. step \in WriteSteps
    BY <1>4, StepClasses DEF Finds
  <2>4. n \in DOMAIN details[session]
    BY <2>2, <2>3, LastOperation DEF SessionFits, IInv
  <2>5. /\ DOMAIN details'[session] = DOMAIN details[session]
        /\ \A j \in DOMAIN details[session] : j # n => details'[session][j] = details[session][j]
        /\ details'[session][n].target = p
        /\ details'[session][n].kind = details[session][n].kind
        /\ details'[session][n].before = details[session][n].before
    BY <1>4, <2>1, <2>2, <2>4, FoundEffect, BatchStepManages DEF SessionFits, KeepsSession
  <2>6. ~IsReserved
    BY <2>3, WriteIsBusy DEF IsReserved, Reserves
  <2> QED BY <1>4, <2>1, <2>2, <2>5, <2>6
<1>5. CASE t = session /\ IsReserved
  <2>1. PICK d \in Detail : Log(d)
    BY <1>5, ReservedIs
  <2>2. /\ DOMAIN details'[session] = DOMAIN details[session] \cup {Len(details[session]) + 1}
        /\ \A j \in DOMAIN details[session] : details'[session][j] = details[session][j]
    BY <1>5, <2>1, ReservedIs, LoggedEffect DEF SessionFits
  <2>3. operations'[t][i] = operations[t][i]
    BY <1>5, <1>6
  <2> QED BY <1>5, <2>2, <2>3
<1> QED BY <1>2, <1>3, <1>4, <1>5, DetailsMove

\* A failure stays one until it is undone.
LEMMA FailedStays ==
  ASSUME IInv, IInv', DInv, EditorTypes, SessionFits, Dependably, BatchStep, session \in Tx,
         NEW t \in Tx, NEW i \in DOMAIN details[t],
         operations[t][i].state = "failed", operations'[t][i].state # "rolled-back",
         ~(t = session /\ i = Len(details[t]) /\ step \in WriteSteps)
  PROVE  operations'[t][i].state = "failed"
<1>1. CASE t # session \/ IsReserved
  BY <1>1, DetailStays
<1>2. CASE t = session /\ ~IsReserved
  <2>1. ASSUME NEW j, NEW to \in {"applied", "failed", "cancelled", "rolled-back"}, OperationGets(j, to),
               to \in {"applied", "cancelled"} => j # i
        PROVE  operations'[t][i].state = "failed"
    BY <1>2, <2>1, SameDomain DEF OperationGets, SessionFits
  <2> QED BY <1>2, <2>1, OperationsMove DEF Dependably
<1> QED BY <1>1, <1>2

LEMMA MadeKept ==
  ASSUME IInv, IInv', DInv, EditorTypes, SessionFits, DocumentInv, Dependably, BatchStep, [Next]_vars,
         session' = session
  PROVE  MadeIsOwned'
<1> SUFFICES ASSUME NEW t \in Tx, state'[t] # "committed", NEW p \in Prim, doc'[p] = Made(t)
             PROVE  \E i \in DOMAIN details'[t] :
                      /\ details'[t][i].kind = "create" /\ Live(t, i)'
                      /\ \/ details'[t][i].target = p
                         \/ details'[t][i].target = NoPrim /\ operations'[t][i].state = "failed"
                         \/ /\ t = session /\ step' \in SearchSteps /\ i = Len(details'[t]) /\ p \notin known'
  BY DEF MadeIsOwned
<1>0. session \in Tx /\ Moves /\ NewOnes /\ Remembered /\ KnownFits /\ MadeIsOwned /\ UndoneFits
  BY DependablyMoves DEF DocumentInv
<1>1. state[t] # "committed"
  BY CommittedKept DEF vars, txVars
<1>2. doc[p] = Made(t) \/ (t = session /\ step = "create" /\ p = fresh + 1 /\ doc'[p] # doc[p])
  <2>1. CASE step = "create" /\ p = fresh + 1 /\ doc'[p] = Made(session) /\ doc'[p] # doc[p]
    BY <2>1 DEF Made
  <2>2. ASSUME NEW i \in DOMAIN details[session], Rewrites(i, p) PROVE FALSE
    BY <1>0, <2>2, BeforeIsOld, ContentTypes DEF Rewrites, SessionFits
  <2> QED BY <1>0, <2>1, <2>2 DEF Moves
<1>3. CASE t = session /\ step = "create" /\ p = fresh + 1 /\ doc'[p] # doc[p]
  BY <1>0, <1>3, CreatedIsOwned DEF Live
<1>4. CASE doc[p] = Made(t)
  <2>1. PICK i \in DOMAIN details[t] :
          /\ details[t][i].kind = "create" /\ Live(t, i)
          /\ \/ details[t][i].target = p
             \/ details[t][i].target = NoPrim /\ operations[t][i].state = "failed"
             \/ /\ t = session /\ step \in SearchSteps /\ i = Len(details[t]) /\ p \notin known
    BY <1>0, <1>1, <1>4 DEF MadeIsOwned
  <2>2. p \in Listed
    BY <1>4, ContentTypes DEF Listed, Present
  <2>3. i \in DOMAIN details'[t] /\ details'[t][i].kind = "create"
    BY <1>0, <2>1, DetailStays
  <2>4. Live(t, i)'
    <3>1. CASE t # session \/ IsReserved
      BY <1>0, <2>1, <3>1, DetailStays DEF Live
    <3>2. CASE t = session /\ ~IsReserved
      <4> SUFFICES ASSUME ~(operations'[t][i].state \in {"pending", "applied", "failed"}) PROVE FALSE
        BY DEF Live
      <4>1. \/ step \in SearchSteps /\ Listed \subseteq known /\ i = Len(details[t])
            \/ details[t][i].target \in Prim /\ doc'[details[t][i].target] = Gone
        BY <1>0, <2>1, <3>2, UndoneIsClean
      <4>2. details[t][i].target = NoPrim => details[t][i].target \notin Prim
        BY DEF NoPrim, Prim
      <4>3. step \in SearchSteps /\ i = Len(details[t]) => /\ details[t][i].target = NoPrim
                                                        /\ operations[t][i].state = "pending"
        BY <3>2, StepClasses, LastOperation DEF SessionFits, IInv, PlanFits, Op
      <4>4. CASE details[t][i].target \in Prim /\ doc'[details[t][i].target] = Gone
        BY <3>2, <2>1, <4>2, <4>3, <4>4, ContentTypes
      <4>5. CASE step \in SearchSteps /\ Listed \subseteq known /\ i = Len(details[t])
        BY <2>1, <2>2, <4>2, <4>3, <4>5
      <4> QED BY <4>1, <4>4, <4>5
    <3> QED BY <3>1, <3>2
  <2>5. CASE details[t][i].target = p
    <3>1. ~(t = session /\ i = Len(details[t]) /\ Finds)
      BY <2>5, StepClasses DEF Finds, SessionFits, PlanFits, Op, NoPrim, Prim
    <3> QED BY <1>0, <2>3, <2>4, <2>5, <3>1, DetailStays
  <2>6. CASE details[t][i].target = NoPrim /\ operations[t][i].state = "failed"
    <3>1. ~(t = session /\ i = Len(details[t]) /\ step \in WriteSteps)
      BY <2>6, LastOperation DEF SessionFits, IInv
    <3>2. details'[t][i] = details[t][i]
      BY <1>0, <3>1, StepClasses, DetailStays DEF Finds
    <3>3. operations'[t][i].state = "failed"
      BY <1>0, <2>1, <2>4, <2>6, <3>1, FailedStays DEF Live
    <3> QED BY <2>3, <2>4, <2>6, <3>2, <3>3
  <2>7. CASE t = session /\ step \in SearchSteps /\ i = Len(details[t]) /\ p \notin known
    <3>1. step \in WriteSteps /\ step \in CreateSteps /\ step \notin IdleSteps /\ step \notin UndoSteps
          /\ step # "before"
      BY <2>7, StepClasses, WriteIsBusy
    <3>2. GoesFurther \/ IsFailed \/ IsUndone
      BY <2>7, <3>1 DEF Dependably, SearchSteps, IsApplied, IsReserved, Reserves, IsIdle, IsRejected, BeforeModifyOrDelete,
            RollbackBegins, RollbackEnds, BatchEnds, Judge, CommitBatch, IsUndoing, IsVerified
    <3>3. CASE GoesFurther /\ ~Finds
      <4>1. PICK S \in Kinds : Within(S)
        BY <3>3 DEF GoesFurther
      <4>2. S = SearchSteps
        BY <2>7, <4>1, StepClasses DEF Kinds, Within
      <4> QED BY <2>3, <2>4, <2>7, <4>1, <4>2 DEF Within
    <3>4. CASE GoesFurther /\ Finds
      <4>1. PICK q \in Prim : Listed \ known = {q} /\ Found(q)
        BY <2>7, <3>4, StepClasses DEF GoesFurther, Within, Finds, Kinds
      <4>2. details'[t][i].target = q
        BY <1>0, <2>7, <4>1, FoundEffect DEF SessionFits
      <4>3. p = q
        BY <2>2, <2>7, <4>1
      <4> QED BY <2>3, <2>4, <4>2, <4>3
    <3>5. CASE IsFailed
      <4>1. operations'[t][i].state = "failed" /\ details' = details
        BY <2>7, <3>5, OperationsMove DEF OperationGets, IsFailed, Fails
      <4>2. details[t][i].target = NoPrim
        BY <2>7 DEF SessionFits, PlanFits, Op
      <4> QED BY <2>3, <2>4, <4>1, <4>2
    <3>6. CASE IsUndone
      <4>1. operations'[t][i].state = "cancelled"
        BY <2>7, <3>6, OperationsMove DEF OperationGets
      <4> QED BY <2>4, <4>1 DEF Live
    <3> QED BY <3>2, <3>3, <3>4, <3>5, <3>6
  <2> QED BY <2>1, <2>5, <2>6, <2>7
<1> QED BY <1>2, <1>3, <1>4

-----------------------------------------------------------------------------
(***************************************************************************)
(* The operations that are done.                                           *)
(***************************************************************************)

\* What is done is not written again.
LEMMA DoneStays ==
  ASSUME IInv, DInv, EditorTypes, SessionFits, NewOnes, Remembered, Dependably,
         InProgress, managed, step \in OnTrack,
         step \in WriteSteps \/ Still, NEW j \in 1..at - 1
  PROVE  LET q == details[session][j].target IN
         /\ j \in DOMAIN details[session] /\ j \in 1..Len(plan) /\ DoneAs(j) /\ session \in Tx
         /\ q \in Prim /\ doc'[q] = doc[q]
<1> DEFINE q == details[session][j].target
           n == Len(details[session])
<1>1. session \in Tx /\ Moves
  BY DependablyMoves
<1>2. DoneAs(j) /\ plan \in Plans /\ n = (IF step \in WriteSteps THEN at ELSE at - 1) /\ at \in 1..Len(plan) + 1
  BY DEF InProgress, SessionFits, PlanFits
<1>3. Len(plan) \in Nat /\ n \in Nat /\ DOMAIN details[session] = 1..n
  BY <1>1, <1>2, PlanOperation, SameDomain DEF SessionFits, LogTypes
<1>4. j \in DOMAIN details[session] /\ j \in 1..Len(plan)
  BY <1>2, <1>3
<1>5. /\ details[session][j].kind = plan[j].kind
      /\ plan[j].kind # "create" => q \in 1..Existing
      /\ plan[j].kind = "create" => q \in Existing + 1 .. fresh
  BY <1>1, <1>2, <1>4, DocumentAssumption DEF DoneAs, Remembered, RememberedAs, NoPrim, Prim
<1>6. q \in Prim /\ q <= fresh /\ fresh \in Int
  BY <1>5, DocumentAssumption DEF EditorTypes, Prim
<1>7. CASE Still
  BY <1>1, <1>2, <1>4, <1>6, <1>7 DEF Still
<1>8. CASE step \in WriteSteps
  <2>1. n = at /\ n \in DOMAIN details[session] /\ n # j /\ at \in 1..Len(plan)
    BY <1>2, <1>3, <1>8 DEF SessionFits, PlanFits
  <2>2. details[session][n].target # q
    <3>1. CASE plan[j].kind = "create"
      <4>1. CASE details[session][n].kind = "create"
        <5>1. details[session][n].target = q => q = NoPrim
          BY <1>4, <1>5, <2>1, <3>1, <4>1 DEF InProgress
        <5> QED BY <1>6, <5>1 DEF NoPrim, Prim
      <4>2. CASE details[session][n].kind # "create"
        BY <1>1, <1>5, <2>1, <3>1, <4>2, BeforeIsOld, DocumentAssumption DEF SessionFits
      <4> QED BY <4>1, <4>2
    <3>2. CASE plan[j].kind # "create"
      <4>1. CASE details[session][n].kind = "create"
        BY <1>1, <1>5, <2>1, <3>2, <4>1, DocumentAssumption DEF Remembered, RememberedAs, NoPrim
      <4>2. CASE details[session][n].kind # "create"
        <5>1. details[session][n].target = plan[at].id
          BY <1>8, <4>2, StepClasses DEF SessionFits, PlanFits, Op, Todo
        <5>2. q = plan[j].id
          BY <1>2, <1>5, <3>2 DEF DoneAs
        <5>3. plan[at].id # plan[j].id
          BY <1>2, <1>4, <1>5, <2>1, <3>2, <5>2, PlanOperation DEF NoPrim
        <5> QED BY <5>1, <5>2, <5>3
      <4> QED BY <4>1, <4>2
    <3> QED BY <3>1, <3>2
  <2>3. doc'[q] = doc[q]
    BY <1>1, <1>6, <1>8, <2>2 DEF Moves, Rewrites
  <2> QED BY <1>1, <1>2, <1>4, <1>6, <2>3
<1> QED BY <1>7, <1>8

LEMMA DoneAsStays ==
  ASSUME UNCHANGED <<session, plan>>, NEW j, DoneAs(j),
         doc'[details[session][j].target] = doc[details[session][j].target],
         details'[session][j] = details[session][j], operations'[session][j] = operations[session][j]
  PROVE  DoneAs(j)'
BY DEF DoneAs

\* A batch on track goes on with its plan.
LEMMA OnTrackStep ==
  ASSUME SessionFits, Dependably, step' \in OnTrack
  PROVE  /\ step \in OnTrack /\ UNCHANGED <<session, managed, plan>>
         /\ \/ GoesFurther
            \/ IsApplied
            \/ IsReserved
            \/ /\ Still /\ UNCHANGED <<details, operations>> /\ step' \notin WriteSteps
               /\ \/ step = "next" /\ step' = "before" /\ at' = at
                  \/ step = "next" /\ step' = "judge" /\ at' = at /\ at > Len(plan)
                  \/ step = "judge" /\ step' = "commit" /\ at' = at
<1>1. CASE GoesFurther
  BY <1>1 DEF GoesFurther, Within, Finds
<1>2. CASE IsApplied
  BY <1>2 DEF IsApplied, Succeeds, Proceed, OnTrack
<1>3. CASE IsReserved
  BY <1>3 DEF IsReserved, Reserves, Go, OnTrack
<1>4. CASE IsFailed \/ IsUndone \/ IsUndoing \/ IsVerified
  BY <1>4 DEF IsFailed, Fails, IsUndone, Undone, ToRollback, IsUndoing, IsVerified, OnTrack
<1>5. CASE IsIdle
  <2> USE DEF OnTrack, WriteSteps, CreateSteps, ModifySteps, DeleteSteps
  <2>1. CASE IsRejected \/ RollbackBegins \/ RollbackEnds \/ CommitBatch
    BY <1>5, <2>1 DEF IsRejected, IsRefused, ToRollback, RollbackBegins, RollbackEnds, CommitBatch, Go, Answer
  <2>2. CASE BeforeModifyOrDelete
    BY <1>5, <2>2 DEF IsIdle, BeforeModifyOrDelete, StartModifyOrDelete, Go, IsRefused, ToRollback
  <2>3. CASE BatchEnds
    BY <1>5, <2>3 DEF IsIdle, BatchEnds, StartValidate, Go, Answer
  <2>4. CASE Judge
    BY <1>5, <2>4 DEF IsIdle, Judge, FinishValidate, Go, Answer
  <2> QED BY <1>5, <2>1, <2>2, <2>3, <2>4 DEF IsIdle
<1> QED BY <1>1, <1>2, <1>3, <1>4, <1>5 DEF Dependably

\* Nothing but the next call: the operation in flight has been written.
LEMMA WithinProgress ==
  ASSUME IInv, DInv, EditorTypes, SessionFits, DocumentInv, InProgress, Dependably,
         managed', step' \in OnTrack, GoesFurther, ~Finds
  PROVE  InProgress'
<1>1. step \in OnTrack /\ managed /\ UNCHANGED <<session, managed, plan>> /\ NewOnes /\ Remembered
  BY OnTrackStep DEF DocumentInv
<1>2. PICK S \in Kinds : Within(S) /\ (step' = "after" => Puts(Op.target, Changed(session)))
  BY DEF GoesFurther
<1>3. /\ step \in WriteSteps /\ step' \in WriteSteps /\ UNCHANGED <<details, operations, at, known>>
      /\ step' \in SearchSteps => step \in SearchSteps
      /\ step' = "after" => step \in ModifySteps
      /\ step' \notin {"judge", "commit"}
  BY <1>2, StepClasses DEF Within, Kinds, managerVars, txVars, CreateSteps, ModifySteps, DeleteSteps, SearchSteps
<1>4. \A j \in 1..at - 1 : DoneAs(j)'
  BY <1>1, <1>3, DoneStays, DoneAsStays
<1>5. step' = "after" => doc'[Todo'.id] = Changed(session)
  <2>1. step' = "after" => Op.target = Todo.id /\ Todo' = Todo
    BY <1>1, <1>3 DEF SessionFits, PlanFits, Todo
  <2> QED BY <1>2, <2>1 DEF Puts, Present, EditorTypes
<1> QED BY <1>1, <1>3, <1>4, <1>5 DEF InProgress

LEMMA FindsProgress ==
  ASSUME IInv, DInv, EditorTypes, SessionFits, DocumentInv, InProgress, Dependably,
         managed', step' \in OnTrack, GoesFurther, Finds
  PROVE  InProgress'
<1>1. step \in OnTrack /\ managed /\ UNCHANGED <<session, managed, plan>> /\ NewOnes /\ Remembered
  BY OnTrackStep DEF DocumentInv
<1>2. PICK p \in Prim : Listed \ known = {p} /\ Found(p)
  BY StepClasses DEF GoesFurther, Within, Finds, Kinds
<1>3. /\ step \in SearchSteps /\ step \in WriteSteps /\ step' \in WriteSteps /\ UNCHANGED <<operations, at, known>>
      /\ step' \notin SearchSteps /\ step' # "after" /\ step' \notin {"judge", "commit"}
  BY StepClasses DEF Finds, managerVars, txVars, CreateSteps
<1>4. PICK n : n = Len(details[session])
  OBVIOUS
<1>5. session \in Tx /\ n \in DOMAIN details[session] /\ DOMAIN details[session] = 1..n
  BY <1>3, <1>4, LastOperation, SameDomain DEF IInv, SessionFits
<1>6. /\ Len(details'[session]) = n
      /\ DOMAIN details'[session] = DOMAIN details[session]
      /\ \A i \in DOMAIN details[session] : i # n => details'[session][i] = details[session][i]
      /\ details'[session][n].target = p /\ details'[session][n].kind = details[session][n].kind
  BY <1>1, <1>2, <1>4, <1>5, FoundEffect DEF SessionFits
<1>7. n = at /\ at \in Int
  BY <1>1, <1>3, <1>4, <1>5 DEF InProgress
<1>8. \A j \in 1..at - 1 : DoneAs(j)'
  <2>1. ASSUME NEW j \in 1..at - 1 PROVE DoneAs(j)'
    <3>1. DoneAs(j) /\ doc'[details[session][j].target] = doc[details[session][j].target]
          /\ j \in DOMAIN details[session]
      BY <1>1, <1>3, DoneStays
    <3>2. j # n
      BY <1>7
    <3> QED BY <1>1, <1>3, <1>6, <3>1, <3>2, DoneAsStays
  <2> QED BY <2>1
<1>9. \A i \in DOMAIN details[session] :
        i # n /\ details[session][i].kind = "create" => details[session][i].target \in known
  <2>1. ASSUME NEW i \in DOMAIN details[session], i # n, details[session][i].kind = "create"
        PROVE  details[session][i].target \in known
    <3>1. i \in 1..at - 1
      BY <1>5, <1>7, <2>1
    <3>2. plan[i].kind = "create"
      BY <1>1, <2>1, <3>1 DEF InProgress, DoneAs
    <3> QED BY <1>1, <1>3, <3>1, <3>2 DEF InProgress
  <2> QED BY <2>1
<1>10. p \notin known
  BY <1>2
<1>11. \A i, j \in DOMAIN details'[session] :
         /\ i # j
         /\ details'[session][i].kind = "create" /\ details'[session][j].kind = "create"
         /\ details'[session][i].target = details'[session][j].target
         => details'[session][i].target = NoPrim
  <2>1. ASSUME NEW i \in DOMAIN details[session], NEW j \in DOMAIN details[session], i # j,
               details'[session][i].kind = "create", details'[session][j].kind = "create",
               details'[session][i].target = details'[session][j].target
        PROVE  details'[session][i].target = NoPrim
    <3>1. CASE i # n /\ j # n
      BY <1>1, <1>6, <2>1, <3>1 DEF InProgress
    <3>2. CASE i = n \/ j = n
      BY <1>6, <1>9, <1>10, <2>1, <3>2
    <3> QED BY <3>1, <3>2
  <2> QED BY <1>6, <2>1
<1>12. Len(details'[session]) = IF step' \in WriteSteps THEN at' ELSE at' - 1
  BY <1>3, <1>6, <1>7
<1>13. plan \in Plans
  BY <1>1 DEF InProgress
<1> QED BY <1>1, <1>3, <1>8, <1>11, <1>12, <1>13 DEF InProgress

LEMMA AppliedProgress ==
  ASSUME IInv, DInv, EditorTypes, SessionFits, DocumentInv, InProgress, Dependably,
         managed', step' \in OnTrack, IsApplied
  PROVE  InProgress'
<1>1. step \in OnTrack /\ managed /\ UNCHANGED <<session, managed, plan>> /\ NewOnes /\ Remembered
  BY OnTrackStep DEF DocumentInv
<1>2. /\ step' = "next" /\ at' = at + 1 /\ details' = details /\ Still
      /\ step \in WriteSteps /\ step' \notin WriteSteps /\ step' \notin SearchSteps
  BY OperationsMove, WriteIsBusy, StepClasses DEF IsApplied, Succeeds, Proceed
<1>3. PICK n : n = Len(details[session])
  OBVIOUS
<1>4. /\ session \in Tx /\ n \in DOMAIN details[session] /\ DOMAIN details[session] = 1..n
      /\ DOMAIN operations[session] = DOMAIN details[session]
      /\ details[session][n] = Op
  BY <1>2, <1>3, LastOperation, SameDomain DEF IInv, SessionFits, Op
<1>5. n = at /\ at \in Int /\ plan \in Plans
  BY <1>1, <1>2, <1>3, <1>4 DEF InProgress
<1>6. OperationGets(n, "applied")
  BY <1>3, OperationsMove
<1>7. \A j \in 1..at - 1 : DoneAs(j)'
  <2>1. ASSUME NEW j \in 1..at - 1 PROVE DoneAs(j)'
    <3>1. DoneAs(j) /\ doc'[details[session][j].target] = doc[details[session][j].target]
          /\ j \in DOMAIN details[session]
      BY <1>1, <1>2, DoneStays
    <3>2. operations'[session][j] = operations[session][j]
      BY <1>4, <1>5, <1>6, <3>1 DEF OperationGets
    <3> QED BY <1>1, <1>2, <3>1, <3>2, DoneAsStays
  <2> QED BY <2>1
<1>8. DoneAs(n)'
  <2>1. /\ Op.kind = Todo.kind /\ Todo = plan[at]
        /\ Op.kind # "create" => Op.target = Todo.id
    BY <1>2, StepClasses DEF SessionFits, PlanFits, Todo
  <2>2. Op.kind # "create" => Op.target \in Prim
    BY <1>1, <1>4, BeforeIsOld, DocumentAssumption DEF SessionFits, Prim
  <2>3. CASE step = "read"
    <3>1. Op.kind = "create" /\ Op.target \in Prim
      BY <2>3, <1>2 DEF CreateSteps, SearchSteps, SessionFits, PlanFits
    <3>2. doc[Op.target] = Made(session)
      <4>1. doc[Op.target] \in {Made(session), Gone}
        BY <1>1, <1>4, <3>1 DEF Remembered, RememberedAs, NoPrim, Prim
      <4>2. doc[Op.target] # Gone
        BY <2>3, <3>1 DEF IsApplied, Sees, Present
      <4> QED BY <4>1, <4>2
    <3> QED BY <1>1, <1>2, <1>4, <1>5, <1>6, <2>1, <3>1, <3>2 DEF DoneAs, OperationGets, Still
  <2>4. CASE step = "after"
    <3>1. Op.kind = "modify" /\ doc[plan[at].id] = Changed(session)
      BY <1>1, <2>1, <2>4 DEF ModifySteps, SessionFits, PlanFits, InProgress
    <3> QED BY <1>1, <1>2, <1>4, <1>5, <1>6, <2>1, <3>1 DEF DoneAs, OperationGets, Still
  <2>5. CASE step = "deleted"
    <3>1. Op.kind = "delete" /\ Sees(Op.target) = Gone
      BY <2>5 DEF DeleteSteps, SessionFits, PlanFits, IsApplied
    <3>2. doc[Op.target] = Gone
      BY <2>2, <3>1 DEF Sees, Present
    <3> QED BY <1>1, <1>2, <1>4, <1>5, <1>6, <2>1, <3>1, <3>2 DEF DoneAs, OperationGets, Still
  <2> QED BY <2>3, <2>4, <2>5 DEF IsApplied
<1>9. \A j \in 1..at' - 1 : DoneAs(j)'
  <2>1. \A j \in 1..n - 1 : DoneAs(j)'
    BY <1>5, <1>7
  <2>2. at' - 1 = n /\ n \in Int
    BY <1>2, <1>5
  <2>3. \A j \in 1..n : DoneAs(j)'
    <3>1. \A j \in 1..n : j = n \/ j \in 1..n - 1
      BY <2>2
    <3> QED BY <1>8, <2>1, <3>1
  <2> QED BY <2>2, <2>3
<1>10. Len(details'[session]) = at' - 1
  BY <1>2, <1>3, <1>5
<1> QED BY <1>1, <1>2, <1>5, <1>9, <1>10 DEF InProgress

LEMMA ReservedProgress ==
  ASSUME IInv, IInv', DInv, EditorTypes, SessionFits, DocumentInv, InProgress, Dependably, BatchStep,
         managed', step' \in OnTrack, IsReserved
  PROVE  InProgress'
<1>1. step \in OnTrack /\ managed /\ UNCHANGED <<session, managed, plan>> /\ NewOnes /\ Remembered
  BY OnTrackStep DEF DocumentInv
<1>2. /\ session \in Tx /\ at \in 1..Len(plan) /\ step \in {"next", "before"} /\ step' = Todo.kind
      /\ Still /\ at' = at /\ step \notin WriteSteps
  BY ReservedIs, WriteIsBusy
<1>3. PICK d \in Detail : /\ Log(d) /\ d.kind = Todo.kind
                          /\ d.kind = "create" => d.target = NoPrim /\ known' = Listed
  BY ReservedIs
<1>4. PICK n : n = Len(details[session])
  OBVIOUS
<1>5. n = at - 1 /\ at \in Int /\ plan \in Plans /\ DOMAIN details[session] = 1..n
  BY <1>1, <1>2, <1>4, PlanOperation, SameDomain DEF InProgress, SessionFits
<1>6. /\ Len(details'[session]) = at
      /\ DOMAIN details'[session] = DOMAIN details[session] \cup {at}
      /\ details'[session][at] = d
      /\ \A i \in DOMAIN details[session] : details'[session][i] = details[session][i]
  <2>1. /\ Len(details'[session]) = n + 1
        /\ DOMAIN details'[session] = DOMAIN details[session] \cup {n + 1}
        /\ details'[session][n + 1] = d
        /\ \A i \in DOMAIN details[session] : details'[session][i] = details[session][i]
    BY <1>1, <1>2, <1>3, <1>4, ReservedIs, LoggedEffect DEF SessionFits
  <2>2. n + 1 = at
    BY <1>5
  <2> QED BY <2>1, <2>2
<1>7. /\ step' \in {"create", "modify", "delete"} /\ step' \in WriteSteps /\ step' # "after"
      /\ step' \notin {"judge", "commit"}
      /\ step' \in SearchSteps => d.kind = "create"
  BY <1>2, <1>3, StepClasses DEF Detail, SearchSteps
<1>8. ASSUME NEW j \in 1..at - 1
      PROVE  DoneAs(j)' /\ doc'[details[session][j].target] = doc[details[session][j].target]
             /\ DoneAs(j) /\ j \in DOMAIN details[session]
             /\ details[session][j].target \in Prim
  <2>1. DoneAs(j) /\ doc'[details[session][j].target] = doc[details[session][j].target]
        /\ j \in DOMAIN details[session] /\ details[session][j].target \in Prim
    BY <1>1, <1>2, DoneStays
  <2>2. operations'[session][j] = operations[session][j]
    BY <1>2, <2>1, DetailStays
  <2> QED BY <1>1, <1>6, <2>1, <2>2, DoneAsStays
<1>9. \A i, j \in DOMAIN details'[session] :
         /\ i # j
         /\ details'[session][i].kind = "create" /\ details'[session][j].kind = "create"
         /\ details'[session][i].target = details'[session][j].target
         => details'[session][i].target = NoPrim
  <2>1. ASSUME NEW i \in DOMAIN details'[session], NEW j \in DOMAIN details'[session], i # j,
               details'[session][i].kind = "create", details'[session][j].kind = "create",
               details'[session][i].target = details'[session][j].target
        PROVE  details'[session][i].target = NoPrim
    <3>1. CASE i \in DOMAIN details[session] /\ j \in DOMAIN details[session]
      BY <1>1, <1>6, <2>1, <3>1 DEF InProgress
    <3>2. CASE i = at \/ j = at
      BY <1>3, <1>6, <2>1, <3>2
    <3> QED BY <1>6, <2>1, <3>1, <3>2
  <2> QED BY <2>1
<1>10. step' \in SearchSteps =>
         \A i \in 1..at - 1 : plan[i].kind = "create" => details'[session][i].target \in known'
  <2>1. ASSUME step' \in SearchSteps, NEW i \in 1..at - 1, plan[i].kind = "create"
        PROVE  details'[session][i].target \in known'
    <3>1. known' = Listed
      BY <1>3, <1>7, <2>1
    <3>2. details[session][i].target \in Prim /\ doc[details[session][i].target] = Made(session)
      BY <1>8, <2>1 DEF DoneAs
    <3>3. details[session][i].target \in Listed
      BY <1>2, <3>2, ContentTypes DEF Listed, Present
    <3> QED BY <1>6, <1>8, <3>1, <3>3
  <2> QED BY <2>1
<1> QED BY <1>1, <1>2, <1>5, <1>6, <1>7, <1>8, <1>9, <1>10 DEF InProgress

LEMMA ProgressKept ==
  ASSUME IInv, IInv', DInv, EditorTypes, SessionFits, DocumentInv, InProgress, Dependably, BatchStep
  PROVE  InProgress'
<1> SUFFICES ASSUME managed', step' \in OnTrack PROVE InProgress'
  BY DEF InProgress
<1>1. step \in OnTrack /\ managed /\ UNCHANGED <<session, managed, plan>> /\ NewOnes /\ Remembered
  BY OnTrackStep DEF DocumentInv
<1>2. CASE GoesFurther
  BY <1>2, WithinProgress, FindsProgress
<1>3. CASE IsApplied \/ IsReserved
  BY <1>3, AppliedProgress, ReservedProgress
<1>4. CASE /\ Still /\ UNCHANGED <<details, operations>> /\ step' \notin WriteSteps
           /\ \/ step = "next" /\ step' = "before" /\ at' = at
              \/ step = "next" /\ step' = "judge" /\ at' = at /\ at > Len(plan)
              \/ step = "judge" /\ step' = "commit" /\ at' = at
  <2>1. \A j \in 1..at - 1 : DoneAs(j)'
    BY <1>1, <1>4, DoneStays, DoneAsStays
  <2>2. step \notin WriteSteps /\ step' \notin SearchSteps /\ step' # "after"
    BY <1>4, WriteIsBusy, StepClasses
  <2>3. step' \in {"judge", "commit"} => at = Len(plan) + 1
    BY <1>1, <1>4, PlanOperation DEF InProgress, SessionFits, PlanFits
  <2> QED BY <1>1, <1>4, <2>1, <2>2, <2>3 DEF InProgress
<1> QED BY <1>2, <1>3, <1>4, OnTrackStep

-----------------------------------------------------------------------------
(* What the document shows, kept by every step.                            *)

LEMMA DocumentKept ==
  ASSUME IInv, IInv', DInv, EditorTypes, SessionFits, DocumentInv, Dependably, BatchStep, [Next]_vars
  PROVE  DocumentInv'
<1>1. session' = session /\ NewOnes /\ Remembered /\ KnownFits /\ LogTypes
  BY BatchStepManages DEF KeepsSession, DocumentInv, SessionFits
<1>2. session \in Tx /\ Moves
  BY <1>1, DependablyMoves
<1>3. NewOnes'
  BY <1>1, <1>2, NewOnesStay
<1>4. Remembered' /\ KnownFits'
  BY <1>1, RememberedKept, KnownKept
<1>5. MadeIsOwned' /\ UndoneFits'
  BY <1>1, MadeKept, UndoneKept
<1> QED BY <1>3, <1>4, <1>5 DEF DocumentInv

\* The tools only choose what runs next, and time changes nothing here.
Quiet == UNCHANGED <<state, operations, todo, editorVars, details, clientVars>>
ToolChooses ==
  /\ step = "ready"
  /\ UNCHANGED <<editorVars, details, operations>>
  /\ \/ step' = "ready" /\ UNCHANGED <<session, plan>> /\ answer' = answer
     \/ /\ answer' = "none" /\ session' \in Tx
        /\ step' \in {"ready", "next", "judge", "rollback"}
        /\ step' = "next" => MayPlan(session', plan') \/ state[session'] = "none"
        /\ managed' => /\ step' = "next" /\ at' = 1 /\ plan' \in Plans /\ state[session'] = "none"

LEMMA ToolsChoose == ToolStep => ToolChooses \/ Quiet
<1>0. ToolStep => UNCHANGED <<editorVars, details>>
  BY ToolsEditNothing
<1>1. ToolStatus => ToolChooses
  BY <1>0 DEF ToolStep, ToolStatus, Get, ToolChooses, clientVars
<1>2. \A t \in Tx : BatchOnOwned(t) => ToolChooses
  BY DEF BatchOnOwned, Usable, Idle, Refused, Take, ToolChooses
<1>3. \A t \in Tx : ToolValidate(t) => ToolChooses
  BY DEF ToolValidate, Idle, StartValidate, Take, ToolChooses
<1>4. \A t \in Tx : ToolCommit(t) => ToolChooses
  BY DEF ToolCommit, Idle, Commit, Take, ToolChooses
<1>5. \A t \in Tx : ToolRollback(t) => ToolChooses
  BY DEF ToolRollback, Usable, Idle, Take, ToolChooses, managerVars, txVars
<1>6. \A t \in Tx : Time(t) => Quiet
  BY DEF Time, Deadline, Quiet, callVars
<1>7. \A t \in Tx, d \in Doc : BatchOnNew(t, d) => ToolChooses
  BY DEF BatchOnNew, Begin, Take, ToolChooses
<1>8. \A t \in Tx, d \in Doc : ToolBegin(t, d) => ToolChooses
  BY DEF ToolBegin, Begin, ToolChooses, clientVars
<1> QED BY <1>1, <1>2, <1>3, <1>4, <1>5, <1>6, <1>7, <1>8 DEF ToolStep

LEMMA CommittedStays ==
  ASSUME IInv, [Next]_vars, NEW t \in Tx, state'[t] # "committed"
  PROVE  state[t] # "committed"
BY CommittedKept DEF vars, txVars

LEMMA ToolDocument ==
  ASSUME IInv, \A t \in Tx : TxFits(t), DocumentInv, [Next]_vars, ToolChooses
  PROVE  DocumentInv' /\ InProgress'
<1>1. UNCHANGED <<doc, fresh, details, operations>> /\ Listed' = Listed
  BY DEF ToolChooses, editorVars, Listed, Present
<1>2. /\ step \notin SearchSteps /\ step' \notin SearchSteps /\ step' \notin WriteSteps
      /\ step' \notin {"create", "undone", "after", "commit"}
  BY StepClasses, WriteIsBusy DEF ToolChooses, SearchSteps, IdleSteps, BusySteps
<1>3. NewOnes'
  BY <1>1 DEF DocumentInv, NewOnes, Made, Gone
<1>4. Remembered'
  BY <1>1 DEF DocumentInv, Remembered, RememberedAs, Made, Changed, Original, Gone
<1>5. KnownFits' /\ UndoneFits'
  BY <1>2 DEF KnownFits, UndoneFits
<1>6. MadeIsOwned'
  <2>1. ASSUME NEW t \in Tx, state'[t] # "committed", NEW p \in Prim, doc[p] = Made(t)
        PROVE  \E i \in DOMAIN details[t] :
                 /\ details[t][i].kind = "create" /\ Live(t, i)
                 /\ \/ details[t][i].target = p
                    \/ details[t][i].target = NoPrim /\ operations[t][i].state = "failed"
    BY <1>2, <2>1, CommittedStays DEF DocumentInv, MadeIsOwned
  <2> QED BY <1>1, <2>1 DEF MadeIsOwned, Live, Made
<1>7. InProgress'
  <2> SUFFICES ASSUME managed', step' \in OnTrack PROVE InProgress'
    BY DEF InProgress
  <2>1. step' = "next" /\ at' = 1 /\ plan' \in Plans /\ session' \in Tx /\ details[session'] = <<>>
    BY DEF ToolChooses, OnTrack, TxFits
  <2>2. Len(details'[session']) = 0 /\ DOMAIN details'[session'] = {}
    BY <1>1, <2>1
  <2> QED BY <1>2, <2>1, <2>2 DEF InProgress
<1> QED BY <1>3, <1>4, <1>5, <1>6, <1>7 DEF DocumentInv

LEMMA CommitsOwn ==
  ASSUME IInv, IInv', DInv, EditorTypes, SessionFits, Dependably, step' = "commit"
  PROVE  managed'
<1>1. step' \in OnTrack /\ step' \notin WriteSteps
  BY WriteIsBusy DEF OnTrack
<1>2. /\ \A S \in Kinds : S \subseteq WriteSteps
      /\ \A k \in {"create", "modify", "delete"} : k \in WriteSteps
  BY DEF Kinds, WriteSteps, CreateSteps, SearchSteps, ModifySteps, DeleteSteps
<1>3. ~GoesFurther
  BY <1>1, <1>2, StepClasses DEF GoesFurther, Within, Finds
<1>4. ~IsApplied /\ ~IsFailed /\ ~IsUndone /\ ~IsUndoing /\ ~IsVerified
  BY DEF IsApplied, Succeeds, Proceed, IsFailed, Fails, IsUndone, Undone, ToRollback, IsUndoing, IsVerified
<1>5. ~IsReserved
  <2>1. IsReserved => \E d \in Detail : d.kind = step'
    BY ReservedIs
  <2> QED BY <1>1, <1>2, <2>1 DEF Detail
<1>6. IsIdle => Judge
  BY DEF IsIdle, IsRejected, IsRefused, ToRollback, BeforeModifyOrDelete, Go, RollbackBegins,
         RollbackEnds, Answer, BatchEnds, CommitBatch
<1>7. Judge => managed'
  BY DEF Judge, Go, Answer
<1> QED BY <1>3, <1>4, <1>5, <1>6, <1>7 DEF Dependably

LEMMA NextDocument ==
  ASSUME IInv, DInv, ControlInv, DocInv, [BatchNext]_allVars
  PROVE  DocInv'
<1> SUFFICES ASSUME Dependable' PROVE (late = {} /\ CommitIsManaged /\ DocumentInv /\ InProgress)'
  BY DEF DocInv
<1>1. IInv' /\ DInv' /\ ControlInv' /\ [Next]_vars
  BY NextControl
<1>2. EditorTypes /\ SessionFits /\ \A t \in Tx : TxFits(t)
  BY DEF ControlInv
<1>3. ASSUME BatchStep PROVE (late = {} /\ CommitIsManaged /\ DocumentInv /\ InProgress)'
  <2>1. Dependable /\ late' = late /\ Dependably
    BY <1>2, <1>3, BatchDependably DEF Kept
  <2>2. late = {} /\ DocumentInv /\ InProgress
    BY <2>1 DEF DocInv
  <2>3. DocumentInv' /\ InProgress'
    BY <1>1, <1>2, <1>3, <2>1, <2>2, DocumentKept, ProgressKept
  <2>4. CommitIsManaged'
    BY <1>1, <1>2, <2>1, CommitsOwn DEF CommitIsManaged
  <2> QED BY <2>1, <2>2, <2>3, <2>4
<1>4. ASSUME ToolChooses PROVE (late = {} /\ CommitIsManaged /\ DocumentInv /\ InProgress)'
  <2>1. Dependable /\ late' = late
    BY <1>4 DEF ToolChooses, editorVars, Dependable
  <2>2. late = {} /\ DocumentInv
    BY <2>1 DEF DocInv
  <2>3. CommitIsManaged'
    BY <1>4 DEF ToolChooses, CommitIsManaged
  <2>5. DocumentInv' /\ InProgress'
    BY <1>1, <1>2, <1>4, <2>2, ToolDocument
  <2> QED BY <2>1, <2>2, <2>3, <2>5
<1>5. ASSUME Quiet PROVE (late = {} /\ CommitIsManaged /\ DocumentInv /\ InProgress)'
  <2>1. Dependable /\ late' = late
    BY <1>5 DEF Quiet, editorVars, Dependable
  <2>2. late = {} /\ CommitIsManaged /\ DocumentInv /\ InProgress
    BY <2>1 DEF DocInv
  <2>3. NewOnes' /\ Remembered' /\ KnownFits'
    BY <1>5, <2>2 DEF Quiet, editorVars, clientVars, DocumentInv, NewOnes, Remembered, RememberedAs, KnownFits,
                      Listed, Present, Made, Changed, Original, Gone
  <2>4. MadeIsOwned' /\ UndoneFits'
    BY <1>1, <1>5, <2>2 DEF Quiet, editorVars, clientVars, DocumentInv, MadeIsOwned, UndoneFits, Live, Made,
                      HighestLeft
  <2>5. CommitIsManaged' /\ InProgress'
    BY <1>5, <2>2 DEF Quiet, editorVars, clientVars, CommitIsManaged, InProgress, DoneAs, Todo, Made, Changed, Gone
  <2> QED BY <2>1, <2>2, <2>3, <2>4, <2>5 DEF DocumentInv
<1>6. ASSUME TakesEffect PROVE FALSE
  BY <1>6 DEF TakesEffect, Dependable, DocInv
<1>7. UNCHANGED allVars => Quiet
  BY DEF allVars, managerVars, txVars, callVars, Quiet
<1> QED BY <1>3, <1>4, <1>5, <1>6, <1>7, ToolsChoose DEF BatchNext

-----------------------------------------------------------------------------
(* What a batch committed is in the document.                              *)

LEMMA DoneIsDistinct ==
  ASSUME EditorTypes, SessionFits, DocumentInv, InProgress, managed, step = "commit",
         state[session] # "committed"
  PROVE  /\ \A i \in DOMAIN plan :
              /\ plan[i].kind = "modify" => doc[plan[i].id] = Changed(session)
              /\ plan[i].kind = "delete" => doc[plan[i].id] = Gone
         /\ Cardinality({p \in Prim : doc[p] = Made(session)}) =
              Cardinality({i \in DOMAIN plan : plan[i].kind = "create"})
<1>1. /\ plan \in Plans /\ at = Len(plan) + 1 /\ Len(details[session]) = at - 1
      /\ \A i \in 1..at - 1 : DoneAs(i)
      /\ step \notin SearchSteps
  BY WriteIsBusy, StepClasses DEF OnTrack, InProgress, SearchSteps
<1>2. Len(plan) \in Nat /\ DOMAIN plan = 1..Len(plan) /\ at - 1 = Len(plan)
  BY <1>1, PlanOperation DEF SessionFits, PlanFits
<1>3. session \in Tx /\ DOMAIN details[session] = DOMAIN plan
  BY <1>1, <1>2, SameDomain DEF SessionFits, CallFits
<1>4. \A i \in DOMAIN plan : DoneAs(i)
  BY <1>1, <1>2
<1> DEFINE C == {i \in DOMAIN plan : plan[i].kind = "create"}
           P == {p \in Prim : doc[p] = Made(session)}
           f == [i \in C |-> details[session][i].target]
<1>5. \A i \in C : /\ details[session][i].kind = "create" /\ f[i] = details[session][i].target
                   /\ f[i] \in P
  BY <1>4 DEF DoneAs
<1>6. \A i, j \in C : f[i] = f[j] => i = j
  <2>1. \A p \in Prim : p # NoPrim
    BY DocumentAssumption DEF Prim, NoPrim
  <2>2. \A i, j \in DOMAIN details[session] :
          /\ i # j
          /\ details[session][i].kind = "create" /\ details[session][j].kind = "create"
          /\ details[session][i].target = details[session][j].target
          => details[session][i].target = NoPrim
    BY DEF InProgress, OnTrack
  <2>3. \A i \in C : f[i] \in Prim /\ i \in DOMAIN details[session]
    BY <1>3, <1>5
  <2> QED BY <1>5, <2>1, <2>2, <2>3
<1>7. \A p \in P : \E i \in C : f[i] = p
  <2>1. ASSUME NEW p \in P PROVE \E i \in C : f[i] = p
    <3>1. PICK i \in DOMAIN details[session] :
            /\ details[session][i].kind = "create"
            /\ details[session][i].target = p \/ operations[session][i].state = "failed"
      BY <1>1, <1>3, <2>1 DEF DocumentInv, MadeIsOwned
    <3>2. i \in C /\ details[session][i].target = p
      BY <1>3, <1>4, <3>1 DEF DoneAs
    <3> QED BY <1>5, <3>2
  <2> QED BY <2>1
<1>8. f \in Bijection(C, P)
  <2>1. f \in [C -> P]
    BY <1>5
  <2> QED BY <1>6, <1>7, <2>1 DEF Bijection, Injection, Surjection, IsInjective
<1>9. IsFiniteSet(C)
  <2>1. IsFiniteSet(1..Len(plan))
    BY <1>2, FS_Interval
  <2>2. C \in SUBSET (1..Len(plan))
    BY <1>2
  <2> QED BY <2>1, <2>2, FS_Subset
<1>10. Cardinality(P) = Cardinality(C)
  BY <1>8, <1>9, FS_Bijection DEF ExistsBijection
<1> QED BY <1>4, <1>10 DEF DoneAs

LEMMA NextCommitted ==
  ASSUME IInv, DInv, ControlInv, DocInv, CommittedIsApplied, [BatchNext]_allVars
  PROVE  CommittedIsApplied'
<1> SUFFICES ASSUME answer' = "committed", Dependable' PROVE CommittedIsApplied'
  BY DEF CommittedIsApplied
<1>1. EditorTypes /\ SessionFits /\ TypeOK
  BY DEF ControlInv, IInv
<1>2. CASE /\ UNCHANGED <<doc, plan, session, faults>> /\ answer' = answer
  BY <1>2 DEF CommittedIsApplied, Dependable, Changed, Made, Gone
<1>3. CASE BatchStep
  <2>1. step # "ready" /\ session' = session /\ answer # "committed" /\ session \in Tx
    BY <1>1, <1>3, BatchStepManages DEF KeepsSession, SessionFits, CallFits
  <2>2. Dependable /\ Dependably
    BY <1>1, <1>3, BatchDependably DEF Kept
  <2>3. CommitBatch /\ Still /\ plan' = plan /\ step = "commit" /\ StateNow[session] = "validated"
    <3>1. ~GoesFurther /\ ~IsApplied /\ ~IsFailed /\ ~IsUndone /\ ~IsReserved /\ ~IsUndoing /\ ~IsVerified
      <4>1. answer' # answer
        BY <2>1
      <4> QED BY <4>1 DEF GoesFurther, Within, Finds, Go, IsApplied, Succeeds, Proceed, IsFailed, Fails, IsUndone,
                          Undone, ToRollback, IsReserved, Reserves, IsUndoing, IsVerified, Kinds
    <3>2. IsIdle => Still /\ CommitBatch
      BY <2>1 DEF IsIdle, IsRejected, IsRefused, ToRollback, BeforeModifyOrDelete, Go, RollbackBegins,
                  RollbackEnds, Answer, BatchEnds, Judge
    <3>3. CommitBatch => plan' = plan /\ step = "commit" /\ StateNow[session] = "validated"
      BY DEF CommitBatch, Commit, Answer
    <3> QED BY <2>2, <3>1, <3>2, <3>3 DEF Dependably
  <2>4. state[session] # "committed"
    BY <1>1, <2>1, <2>3, SweepStates
  <2>5. managed /\ DocumentInv /\ InProgress
    BY <2>2, <2>3 DEF DocInv, CommitIsManaged
  <2> QED BY <1>1, <2>1, <2>3, <2>4, <2>5, DoneIsDistinct DEF CommittedIsApplied, Still, Changed, Made, Gone
<1>4. CASE ToolStep
  <2>1. answer' # "none"
    OBVIOUS
  <2> QED BY <1>2, <1>4, <2>1, ToolsChoose DEF ToolChooses, Quiet, editorVars, clientVars
<1>5. CASE TakesEffect
  BY <1>5 DEF TakesEffect, Dependable, DocInv
<1> QED BY <1>2, <1>3, <1>4, <1>5 DEF BatchNext, allVars, editorVars, clientVars

LEMMA InitDocument == BatchInit => DocInv /\ CommittedIsApplied
<1> SUFFICES ASSUME BatchInit PROVE DocInv /\ CommittedIsApplied
  OBVIOUS
<1>1. /\ doc = [p \in Prim |-> IF p <= Existing THEN Original(p) ELSE Gone] /\ fresh = Existing
      /\ late = {} /\ details = [t \in Tx |-> <<>>] /\ step = "ready" /\ answer = "none"
  BY DEF BatchInit
<1>2. "ready" \notin WriteSteps \cup UndoSteps \cup OnTrack \cup SearchSteps \cup {"commit", "create", "undone"}
  BY WriteIsBusy DEF OnTrack, SearchSteps
<1>3. NewOnes /\ MadeIsOwned
  <2>1. \A p \in Prim : p \in Int /\ Existing \in Int
    BY DocumentAssumption DEF Prim
  <2>2. \A p \in Prim : ~(p <= Existing) => doc[p] = Gone
    BY <1>1
  <2>3. \A p \in Prim, t \in Tx : doc[p] # Made(t)
    BY <1>1, ContentTypes, <2>1 DEF Original, Made, Gone
  <2> QED BY <1>1, <2>1, <2>2, <2>3 DEF NewOnes, MadeIsOwned
<1>4. Remembered /\ KnownFits /\ UndoneFits /\ CommitIsManaged /\ InProgress
  BY <1>1, <1>2 DEF Remembered, KnownFits, UndoneFits, CommitIsManaged, InProgress
<1> QED BY <1>1, <1>3, <1>4 DEF DocInv, DocumentInv, CommittedIsApplied

\* A batch that answers "committed" is in the document, whatever calls were
\* refused or lost their answer on the way: what it modified or deleted, and
\* one new primitive for each of its creates.
THEOREM BatchCommitIsApplied == BatchSpec => []CommittedIsApplied
<1>1. BatchInit => IInv /\ DInv /\ ControlInv /\ DocInv /\ CommittedIsApplied
  BY InitInvariant, InitDisciplined, InitControl, InitDocument DEF BatchInit
<1>2. IInv /\ DInv /\ ControlInv /\ DocInv /\ CommittedIsApplied /\ [BatchNext]_allVars
        => (IInv /\ DInv /\ ControlInv /\ DocInv /\ CommittedIsApplied)'
  BY NextControl, NextDocument, NextCommitted
<1> QED BY <1>1, <1>2, PTL DEF BatchSpec

-----------------------------------------------------------------------------
(* Clients that touch a primitive once in a transaction.                   *)

BeforeIsFirm ==
  \A t \in Tx : \A i \in DOMAIN details[t] : \A u \in Tx :
    details[t][i].before = Changed(u) => u # t /\ state[u] = "committed"

TouchedOnce ==
  /\ \A t \in Tx : \A i, j \in DOMAIN details[t] :
       i # j /\ details[t][i].target = details[t][j].target
         => details[t][i].target \notin 1..Existing
  /\ step \in WriteSteps \cup {"next", "before"} =>
       \A j \in DOMAIN plan :
         (IF step \in WriteSteps THEN at < j ELSE at <= j) /\ plan[j].id # NoPrim
           => plan[j].id \notin Touched(session)

ChangedIsOwned ==
  \A t \in Tx : state[t] # "committed" => \A p \in Prim : doc[p] = Changed(t) =>
    \E i \in DOMAIN details[t] :
      details[t][i].kind = "modify" /\ Live(t, i) /\ details[t][i].target = p

\* What a transaction that has the lock undid is back where it was, or, when
\* it was deleted, under a new identifier.
UndoneIsBack ==
  \A t \in Tx : holdsDocumentLock(t) =>
    \A i \in DOMAIN details[t] : Settled(t, i) /\ details[t][i].kind # "create" => IsBack(details[t][i])

TouchInv == BeforeIsFirm /\ TouchedOnce /\ ChangedIsOwned /\ UndoneIsBack

\* Who holds the lock is the only one who does.
LEMMA OnlyHolder ==
  ASSUME DInv, NEW t \in Tx, NEW u \in Tx, holdsDocumentLock(t), holdsDocumentLock(u)
  PROVE  t = u
<1>1. document[t] \in Doc /\ document[u] \in Doc
  BY DEF DInv, HolderIsLocked, holdsDocumentLock, HoldsIn
<1>2. document[t] = document[u]
  BY <1>1, OneDocument
<1> QED BY <1>2 DEF DInv, HolderIsLocked

\* What is neither committed nor undone is locked.
LEMMA LiveIsHeld ==
  ASSUME IInv, DInv, LogTypes, NEW t \in Tx, TxFits(t), state[t] # "committed",
         NEW i \in DOMAIN details[t], Live(t, i)
  PROVE  holdsDocumentLock(t)
<1>1. i \in DOMAIN operations[t] /\ details[t] # <<>>
  BY SameDomain
<1>2. state[t] \notin {"none", "expired", "rolled-back"}
  BY <1>1 DEF TxFits, DInv, RolledBackIsClean, Live
<1>3. state[t] = "failed" => rollbackComplete[t] = "no"
  BY DEF DInv, HolderIsLocked
<1>4. state[t] \in TransactionState \cup {"none"}
  BY DEF IInv, TypeOK
<1> QED BY <1>2, <1>3, <1>4 DEF TransactionState, holdsDocumentLock, HoldsIn

\* The session holds the lock while it writes.
LEMMA WriterHolds ==
  ASSUME IInv, DInv, SessionFits, step \in WriteSteps \cup UndoSteps
  PROVE  /\ session \in Tx /\ state[session] # "committed" /\ holdsDocumentLock(session)
<1>1. /\ session \in Tx /\ callTx[client] = session /\ pc[client] \in {"applying", "rolling"}
  BY WriteIsBusy DEF SessionFits, CallFits
<1>2. state[session] \in {"active", "validated", "rolling-back"}
  BY <1>1, ClientIsCall DEF DInv, CallersFit, CallersStay, Open
<1> QED BY <1>1, <1>2 DEF holdsDocumentLock, HoldsIn

LEMMA WriterWrites ==
  ASSUME SessionFits, Dependably, doc' # doc
  PROVE  step \in WriteSteps \cup UndoSteps
<1>1. ~Still
  BY DEF Still
<1>2. \A S \in Kinds : S \subseteq WriteSteps
  BY DEF Kinds, WriteSteps, CreateSteps, SearchSteps, ModifySteps, DeleteSteps
<1>3. GoesFurther => step \in WriteSteps
  BY <1>1, <1>2 DEF GoesFurther, Within
<1>4. IsFailed \/ IsUndone => step \in WriteSteps
  BY <1>1 DEF IsFailed, IsUndone, WriteSteps
<1>5. IsUndoing => step \in UndoSteps
  BY DEF IsUndoing, UndoSteps
<1> QED BY <1>1, <1>3, <1>4, <1>5 DEF Dependably, IsApplied, IsReserved, IsIdle, IsVerified

\* The only new detail is that of the operation reserved.
LEMMA LogGrows ==
  ASSUME IInv, IInv', DInv, EditorTypes, SessionFits, Dependably, BatchStep,
         NEW t \in Tx, NEW i \in DOMAIN details'[t], i \notin DOMAIN details[t]
  PROVE  /\ IsReserved /\ t = session
         /\ \E d \in Detail : /\ Log(d) /\ details'[t][i] = d
                              /\ d.kind = Todo.kind /\ d.target = Todo.id
                              /\ d.kind = "create" => d.before = Gone
                              /\ d.kind # "create" => d.before = doc[Todo.id]
<1>1. session \in Tx /\ session' = session /\ LogTypes
  BY BatchStepManages DEF SessionFits, CallFits, KeepsSession
<1>2. ~(details' = details)
  OBVIOUS
<1>3. ASSUME Finds PROVE FALSE
  <2>1. PICK p \in Prim : Found(p)
    BY <1>3 DEF Finds
  <2>2. Len(details[session]) \in DOMAIN details[session]
    BY <1>3, LastOperation, StepClasses DEF Finds, SessionFits, IInv
  <2>3. DOMAIN details'[t] = DOMAIN details[t]
    BY <1>1, <2>1, <2>2, FoundEffect
  <2> QED BY <2>3
<1>4. IsReserved
  BY <1>2, <1>3, DetailsMove
<1>5. PICK d \in Detail : /\ Log(d) /\ d.kind = Todo.kind /\ d.target = Todo.id
                          /\ operations'[session] = Append(operations[session], PendingOperation)
                          /\ \A v \in Tx : v # session => operations'[v] = operations[v]
                          /\ d.kind = "create" => d.before = Gone
                          /\ d.kind # "create" => d.before = doc[Todo.id]
  BY <1>4, ReservedIs
<1>6. t = session /\ details'[t][i] = d
  BY <1>1, <1>5, LoggedEffect
<1> QED BY <1>4, <1>5, <1>6

LEMMA ReservedIsFirm ==
  ASSUME IInv, IInv', DInv, EditorTypes, SessionFits, \A t \in Tx : TxFits(t),
         TouchedOnce, ChangedIsOwned, IsReserved, NEW u \in Tx,
         Todo.kind # "create", doc[Todo.id] = Changed(u)
  PROVE  u # session /\ state[u] = "committed"
<1>1. /\ session \in Tx /\ at \in 1..Len(plan) /\ step \in {"next", "before"}
      /\ state[session] \in Open
  BY ReservedIs
<1>2. /\ Todo.id \in 1..Existing /\ Todo.id # NoPrim /\ Todo.id \in Prim
      /\ DOMAIN plan = 1..Len(plan) /\ at \in Nat
  <2>1. Todo.id \in 1..Existing
    BY ReservedIs
  <2>2. DOMAIN plan = 1..Len(plan) /\ Len(plan) \in Nat
    BY PlanOperation DEF SessionFits, PlanFits
  <2> QED BY <1>1, <2>1, <2>2, DocumentAssumption DEF Prim, NoPrim
<1>3. Todo.id \notin Touched(session)
  <2>1. step \notin WriteSteps
    BY <1>1, WriteIsBusy
  <2>2. at \in DOMAIN plan /\ at <= at
    BY <1>1, <1>2
  <2> QED BY <1>1, <1>2, <2>1, <2>2 DEF TouchedOnce, Todo
<1>4. ASSUME state[u] # "committed" PROVE FALSE
  <2>1. PICK i \in DOMAIN details[u] : Live(u, i) /\ details[u][i].target = Todo.id
    BY <1>2, <1>4 DEF ChangedIsOwned
  <2>2. u # session
    BY <1>2, <1>3, <2>1 DEF Touched
  <2>3. holdsDocumentLock(u)
    BY <1>4, <2>1, LiveIsHeld DEF SessionFits
  <2>4. holdsDocumentLock(session)
    BY <1>1 DEF holdsDocumentLock, HoldsIn, Open
  <2> QED BY <1>1, <2>2, <2>3, <2>4, OnlyHolder
<1>5. u # session
  BY <1>1, <1>4 DEF Open
<1> QED BY <1>4, <1>5

\* A snapshot is one of what was committed.
LEMMA FirmKept ==
  ASSUME IInv, IInv', DInv, EditorTypes, SessionFits, \A t \in Tx : TxFits(t),
         BeforeIsFirm, TouchedOnce, ChangedIsOwned, Dependably, BatchStep, [Next]_vars
  PROVE  BeforeIsFirm'
<1>1. session \in Tx /\ LogTypes
  BY BatchStepManages DEF SessionFits, CallFits
<1>2. ASSUME NEW t \in Tx, NEW i \in DOMAIN details[t], NEW u \in Tx, details'[t][i].before = Changed(u)
      PROVE  u # t /\ state'[u] = "committed"
  <2>1. details'[t][i].before = details[t][i].before
    BY <1>1, DetailStays
  <2>2. u # t /\ state[u] = "committed"
    BY <1>2, <2>1 DEF BeforeIsFirm
  <2> QED BY <2>2, CommittedKept DEF vars, txVars
<1>3. ASSUME NEW t \in Tx, NEW i \in DOMAIN details'[t], i \notin DOMAIN details[t], NEW u \in Tx,
             details'[t][i].before = Changed(u)
      PROVE  u # t /\ state'[u] = "committed"
  <2>1. IsReserved /\ t = session
    BY <1>3, LogGrows
  <2>2. PICK d \in Detail : /\ details'[t][i] = d /\ d.kind = Todo.kind
                            /\ d.kind = "create" => d.before = Gone
                            /\ d.kind # "create" => d.before = doc[Todo.id]
    BY <1>3, LogGrows
  <2>4. Todo.kind # "create" /\ doc[Todo.id] = Changed(u)
    BY <1>3, <2>2, ContentTypes
  <2>5. u # session /\ state[u] = "committed"
    BY <2>1, <2>4, ReservedIsFirm
  <2> QED BY <2>1, <2>5, CommittedKept DEF vars, txVars
<1> QED BY <1>2, <1>3 DEF BeforeIsFirm, Changed


\* What an operation touches it goes on to touch, and a create only finds
\* what is new.
LEMMA TargetStays ==
  ASSUME IInv, IInv', DInv, EditorTypes, SessionFits, DocumentInv, Dependably, BatchStep,
         NEW t \in Tx, NEW i \in DOMAIN details[t]
  PROVE  \/ details'[t][i].target = details[t][i].target
         \/ details[t][i].kind = "create" /\ details'[t][i].target \notin 1..Existing
<1>1. session \in Tx /\ LogTypes /\ NewOnes /\ KnownFits
  BY BatchStepManages DEF SessionFits, CallFits, DocumentInv
<1>2. CASE details'[t][i] = details[t][i]
  BY <1>2
<1>3. CASE details'[t][i] # details[t][i]
  <2>1. t = session /\ i = Len(details[t]) /\ Finds
        /\ \E p \in Prim : Listed \ known = {p} /\ details'[t][i].target = p
    BY <1>1, <1>3, DetailStays
  <2>2. step \in SearchSteps
    BY <2>1 DEF Finds
  <2>3. PICK p \in Prim : Listed \ known = {p} /\ details'[t][i].target = p
    BY <2>1
  <2>4. p \in Existing + 1 .. fresh
    BY <1>1, <2>2, <2>3, FoundIsMade
  <2>5. p \notin 1..Existing
    BY <2>4, DocumentAssumption DEF EditorTypes
  <2>6. details[t][i].kind = "create"
    BY <2>1, <2>2, StepClasses DEF SessionFits, PlanFits, Op
  <2> QED BY <2>3, <2>5, <2>6
<1> QED BY <1>2, <1>3

\* The batch goes on with its plan in order.
LEMMA PlanGoesOn ==
  ASSUME IInv, IInv', DInv, EditorTypes, SessionFits, Dependably, BatchStep,
         step' \in WriteSteps \cup {"next", "before"}
  PROVE  /\ UNCHANGED <<session, plan>> /\ at \in Nat
         /\ step \in WriteSteps \cup {"next", "before"}
         /\ \/ at' = at /\ (step' \in WriteSteps <=> step \in WriteSteps) /\ ~IsReserved
            \/ at' = at + 1 /\ step \in WriteSteps /\ step' \notin WriteSteps /\ ~IsReserved
            \/ at' = at /\ IsReserved /\ step \notin WriteSteps /\ step' \in WriteSteps
<1>0. at \in Nat /\ WriteSteps \cap {"next", "before", "undo", "undone", "rollback", "ready", "judge", "commit"} = {}
  <2>1. at \in Nat
    BY PlanOperation DEF SessionFits, PlanFits
  <2>2. WriteSteps \cap {"next", "before", "undo", "undone", "rollback", "ready", "judge", "commit"} = {}
    BY DEF WriteSteps, CreateSteps, ModifySteps, DeleteSteps
  <2> QED BY <2>1, <2>2
<1>1. \A S \in Kinds : S \subseteq WriteSteps
  BY DEF Kinds, WriteSteps, CreateSteps, SearchSteps, ModifySteps, DeleteSteps
<1>2. CASE GoesFurther
  <2>1. UNCHANGED <<session, plan, at>> /\ step \in WriteSteps /\ step' \in WriteSteps
    BY <1>1, <1>2, StepClasses DEF GoesFurther, Within, Finds, WriteSteps
  <2>2. ~IsReserved
    BY <1>0, <2>1 DEF IsReserved, Reserves
  <2> QED BY <1>0, <2>1, <2>2
<1>3. CASE IsApplied
  <2>1. UNCHANGED <<session, plan>> /\ at' = at + 1 /\ step \in WriteSteps /\ step' = "next"
    BY <1>3 DEF IsApplied, Succeeds, Proceed, WriteSteps, CreateSteps, ModifySteps, DeleteSteps
  <2>2. ~IsReserved
    BY <1>0, <2>1 DEF IsReserved, Reserves
  <2> QED BY <1>0, <2>1, <2>2
<1>4. CASE IsReserved
  <2>1. /\ UNCHANGED <<session, plan, at>> /\ step \in {"next", "before"}
        /\ step' \in {"create", "modify", "delete"}
    BY <1>4, ReservedIs DEF Detail
  <2>2. step' \in WriteSteps /\ step \notin WriteSteps
    BY <1>0, <2>1, StepClasses
  <2> QED BY <1>0, <1>4, <2>1, <2>2
<1>5. CASE IsIdle
  <2>1. UNCHANGED <<session, plan, at>> /\ step = "next" /\ step' = "before"
    BY <1>0, <1>5 DEF IsIdle, IsRejected, IsRefused, ToRollback, BeforeModifyOrDelete, Go, RollbackBegins,
                 RollbackEnds, Answer, BatchEnds, Judge, CommitBatch
  <2>2. ~IsReserved
    <3>1. IsReserved => step' \in {"create", "modify", "delete"}
      BY ReservedIs DEF Detail
    <3> QED BY <2>1, <3>1
  <2> QED BY <1>0, <2>1, <2>2
<1>6. ~IsFailed /\ ~IsUndone /\ ~IsUndoing /\ ~IsVerified
  BY <1>0 DEF IsFailed, Fails, IsUndone, Undone, ToRollback, IsUndoing, IsVerified
<1> QED BY <1>2, <1>3, <1>4, <1>5, <1>6 DEF Dependably

LEMMA TouchedGrows ==
  ASSUME IInv, IInv', DInv, EditorTypes, SessionFits, DocumentInv, Dependably, BatchStep,
         NEW p \in 1..Existing, p \in Touched(session)', p \notin Touched(session)
  PROVE  IsReserved /\ p = Todo.id
<1>1. session' = session /\ session \in Tx
  BY BatchStepManages DEF SessionFits, CallFits, KeepsSession
<1>2. PICK i \in DOMAIN details'[session] : details'[session][i].target = p
  BY <1>1 DEF Touched
<1>3. p # NoPrim
  BY DocumentAssumption DEF NoPrim
<1>4. CASE i \in DOMAIN details[session]
  <2>1. details[session][i].target = p
    BY <1>1, <1>2, <1>4, TargetStays
  <2> QED BY <1>3, <1>4, <2>1 DEF Touched
<1>5. CASE i \notin DOMAIN details[session]
  BY <1>1, <1>2, <1>5, LogGrows
<1> QED BY <1>4, <1>5

LEMMA TouchedOnceKept ==
  ASSUME IInv, IInv', DInv, EditorTypes, SessionFits, DocumentInv, TouchedOnce, Dependably, BatchStep
  PROVE  TouchedOnce'
<1>1. session' = session /\ session \in Tx /\ LogTypes
  BY BatchStepManages DEF SessionFits, CallFits, KeepsSession
<1>2. /\ DOMAIN plan = 1..Len(plan) /\ Len(plan) \in Nat
      /\ \A j \in DOMAIN plan : plan[j].id \in 0..Existing
      /\ \A i, j \in DOMAIN plan : i # j /\ plan[i].id = plan[j].id => plan[i].id = NoPrim
  BY PlanOperation DEF SessionFits, PlanFits
<1>3. ASSUME NEW t \in Tx, NEW i \in DOMAIN details'[t], NEW j \in DOMAIN details'[t],
             i # j, details'[t][i].target = details'[t][j].target, details'[t][i].target \in 1..Existing
      PROVE  FALSE
  <2>1. ASSUME NEW k \in DOMAIN details[t], details'[t][k].target \in 1..Existing
        PROVE  details[t][k].target = details'[t][k].target
    BY <2>1, TargetStays
  <2>2. CASE i \in DOMAIN details[t] /\ j \in DOMAIN details[t]
    BY <1>3, <2>1, <2>2 DEF TouchedOnce
  <2>3. ASSUME NEW k \in DOMAIN details'[t], NEW l \in DOMAIN details[t], k \notin DOMAIN details[t],
               details'[t][k].target = details'[t][l].target, details'[t][k].target \in 1..Existing
        PROVE  FALSE
    <3>1. IsReserved /\ t = session /\ details'[t][k].target = Todo.id
      BY <2>3, LogGrows
    <3>2. details[t][l].target = Todo.id /\ Todo.id # NoPrim
      BY <2>1, <2>3, <3>1, DocumentAssumption DEF NoPrim
    <3>3. Todo.id \in Touched(session)
      BY <3>1, <3>2 DEF Touched
    <3>4. at \in DOMAIN plan /\ step \in {"next", "before"} /\ step \notin WriteSteps /\ at <= at
      BY <1>2, <3>1, ReservedIs, WriteIsBusy
    <3> QED BY <3>2, <3>3, <3>4 DEF TouchedOnce, Todo
  <2>4. CASE i \notin DOMAIN details[t] /\ j \notin DOMAIN details[t]
    <3>1. IsReserved /\ t = session
      BY <2>4, LogGrows
    <3>2. PICK d \in Detail : Log(d)
      BY <2>4, LogGrows
    <3>3. DOMAIN details'[session] = DOMAIN details[session] \cup {Len(details[session]) + 1}
      BY <1>1, <3>1, <3>2, LoggedEffect, ReservedIs
    <3> QED BY <1>3, <2>4, <3>1, <3>3
  <2> QED BY <1>3, <2>2, <2>3, <2>4
<1>4. ASSUME step' \in WriteSteps \cup {"next", "before"}, NEW j \in DOMAIN plan',
             IF step' \in WriteSteps THEN at' < j ELSE at' <= j, plan'[j].id # NoPrim,
             plan'[j].id \in Touched(session)'
      PROVE  FALSE
  <2>1. /\ plan' = plan /\ at \in Nat /\ step \in WriteSteps \cup {"next", "before"}
        /\ \/ at' = at /\ (step' \in WriteSteps <=> step \in WriteSteps) /\ ~IsReserved
           \/ at' = at + 1 /\ step \in WriteSteps /\ step' \notin WriteSteps /\ ~IsReserved
           \/ at' = at /\ IsReserved /\ step \notin WriteSteps /\ step' \in WriteSteps
    BY <1>4, PlanGoesOn
  <2>2. j \in DOMAIN plan /\ j \in Nat /\ plan[j].id \in 1..Existing /\ plan[j].id # NoPrim
    BY <1>2, <1>4, <2>1, DocumentAssumption DEF NoPrim
  <2>3. IF step \in WriteSteps THEN at < j ELSE at <= j
    BY <1>4, <2>1, <2>2
  <2>4. plan[j].id \notin Touched(session)
    BY <2>1, <2>2, <2>3 DEF TouchedOnce
  <2>5. IsReserved /\ plan[j].id = Todo.id
    BY <1>4, <2>1, <2>2, <2>4, TouchedGrows
  <2>6. at \in DOMAIN plan /\ at < j
    BY <1>2, <1>4, <2>1, <2>2, <2>5, ReservedIs
  <2> QED BY <1>2, <2>2, <2>5, <2>6 DEF Todo
<1> QED BY <1>1, <1>3, <1>4 DEF TouchedOnce

\* What shows a change still has the modify that made it.
LEMMA ChangedKept ==
  ASSUME IInv, IInv', DInv, EditorTypes, SessionFits, DocumentInv, BeforeIsFirm, ChangedIsOwned,
         Dependably, BatchStep, [Next]_vars
  PROVE  ChangedIsOwned'
<1>1. session' = session /\ session \in Tx /\ LogTypes /\ NewOnes /\ Remembered /\ UndoneFits
  BY BatchStepManages DEF SessionFits, CallFits, KeepsSession, DocumentInv
<1>2. Moves
  BY <1>1, DependablyMoves
<1>3. SUFFICES ASSUME NEW t \in Tx, state'[t] # "committed", NEW p \in Prim, doc'[p] = Changed(t)
               PROVE  \E i \in DOMAIN details'[t] :
                        details'[t][i].kind = "modify" /\ Live(t, i)' /\ details'[t][i].target = p
  BY DEF ChangedIsOwned, Changed
<1>4. ASSUME NEW i \in DOMAIN details[t], details[t][i].kind = "modify", Live(t, i), details[t][i].target = p
      PROVE  \E j \in DOMAIN details'[t] :
                details'[t][j].kind = "modify" /\ Live(t, j)' /\ details'[t][j].target = p
  <2>1. i \in DOMAIN details'[t] /\ details'[t][i].kind = "modify" /\ details'[t][i].target = p
    BY <1>1, <1>4, DetailStays, TargetStays
  <2>2. Live(t, i)'
    <3>1. CASE t # session \/ IsReserved
      <4>1. operations'[t][i] = operations[t][i]
        BY <1>1, <3>1, DetailStays
      <4> QED BY <1>4, <4>1 DEF Live
    <3>2. CASE t = session /\ ~IsReserved
      <4>1. ASSUME operations'[session][i].state \notin {"pending", "applied", "failed"} PROVE FALSE
        <5>1. doc'[details[t][i].target] = details[t][i].before
          BY <1>1, <1>4, <3>2, <4>1, UndoneIsClean
        <5>2. details[t][i].before = Changed(t)
          BY <1>3, <1>4, <5>1
        <5> QED BY <5>2 DEF BeforeIsFirm
      <4> QED BY <3>2, <4>1 DEF Live
    <3> QED BY <3>1, <3>2
  <2> QED BY <2>1, <2>2
<1>5. CASE doc'[p] = doc[p]
  <2>1. state[t] # "committed"
    BY <1>3, CommittedStays
  <2>2. PICK i \in DOMAIN details[t] : details[t][i].kind = "modify" /\ Live(t, i) /\ details[t][i].target = p
    BY <1>3, <1>5, <2>1 DEF ChangedIsOwned
  <2> QED BY <1>4, <2>2
<1>6. CASE doc'[p] # doc[p]
  <2>1. PICK i \in DOMAIN details[session] : Rewrites(i, p)
    BY <1>1, <1>2, <1>3, <1>6, ContentTypes DEF Moves
  <2>2. doc'[p] # Gone
    BY <1>3, ContentTypes
  <2>3. ASSUME details[session][i].before = Changed(t) PROVE FALSE
    <3>1. state[t] = "committed"
      BY <1>1, <2>3 DEF BeforeIsFirm
    <3> QED BY <1>3, <3>1, CommittedStays
  <2>4. /\ details[session][i].kind = "modify" /\ Live(session, i) /\ details[session][i].target = p
        /\ doc'[p] = Changed(session)
    BY <1>3, <2>1, <2>2, <2>3 DEF Rewrites
  <2>5. t = session
    BY <1>3, <2>4 DEF Changed
  <2> QED BY <1>4, <2>4, <2>5
<1> QED BY <1>5, <1>6

\* Who gets a lock has just begun.
LEMMA HolderHeld ==
  ASSUME SparesLocks, IInv, DInv, DInv', [Next]_vars, NEW t \in Tx, holdsDocumentLock(t)'
  PROVE  holdsDocumentLock(t) \/ state[t] = "none"
<1>1. state'[t] # "none" /\ document'[t] \in Doc /\ activeByDocument'[document'[t]] = t
  BY DEF DInv, HolderIsLocked, holdsDocumentLock, HoldsIn
<1>2. ASSUME document[t] \in Doc, activeByDocument[document[t]] = t PROVE holdsDocumentLock(t)
  BY <1>2, TxIsNotNoTx DEF IInv, LockRefersToHolder
<1>3. CASE FreesLocks
  BY <1>1, <1>2, <1>3, TxIsNotNoTx DEF FreesLocks
<1>4. ASSUME NEW u \in Tx, NEW d \in Doc, Begin(u, d), u # t PROVE holdsDocumentLock(t)
  <2>1. state'[t] = StateNow[t] /\ rollbackComplete'[t] = CompleteNow[t]
    BY <1>4 DEF Begin, IInv, TypeOK, StateNow
  <2>2. HoldsIn(StateNow, CompleteNow, t)
    BY <2>1 DEF holdsDocumentLock, HoldsIn
  <2>3. document[t] \in Doc /\ LockNow[document[t]] = t
    BY <2>2, Swept DEF HolderFit, HoldsIn
  <2> QED BY <1>2, <2>3, Swept, TxIsNotNoTx
<1>5. CASE Get
  BY <1>3, <1>5, Swept DEF Get, Sweep, FreesLocks
<1>6. ASSUME NEW u \in Tx, Client(u) PROVE holdsDocumentLock(t) \/ state[t] = "none"
  BY <1>3, <1>4, <1>6, ClientFrees, ClientIsOrderly DEF Begin
<1>7. ASSUME NEW c \in Call, Resume(c) PROVE holdsDocumentLock(t) \/ state[t] = "none"
  BY <1>3, <1>7, ResumeFrees, ClientIsOrderly
<1>8. CASE UNCHANGED vars
  BY <1>8 DEF vars, txVars, holdsDocumentLock, HoldsIn
<1> QED BY <1>5, <1>6, <1>7, <1>8 DEF Next

\* Nothing is written over what an operation of the holder has put back.
LEMMA BackStays ==
  ASSUME IInv, DInv, EditorTypes, SessionFits, NewOnes, Remembered, TouchedOnce, Dependably,
         NEW t \in Tx, holdsDocumentLock(t),
         NEW i \in DOMAIN details[t], Settled(t, i), details[t][i].kind # "create", IsBack(details[t][i])
  PROVE  LET o == details[t][i] IN
         \/ doc'[o.target] = o.before
         \/ o.kind = "delete" /\ \E q \in Prim : q > Existing /\ doc'[q] = o.before
<1>1. LogTypes /\ session \in Tx /\ Moves
  BY DependablyMoves DEF SessionFits
<1>2. CASE doc' = doc
  BY <1>2 DEF IsBack
<1>3. CASE doc' # doc
  <2>1. t = session
    BY <1>3, WriterWrites, WriterHolds, OnlyHolder
  <2> DEFINE o == details[t][i]
  <2>2. /\ o.target \in 1..Existing /\ o.target \in Prim /\ o.before # Gone
        /\ \A u \in Tx : o.before # Made(u)
    BY <1>1, BeforeIsOld, DocumentAssumption DEF Prim
  <2>3. fresh \in Nat /\ fresh >= Existing /\ Existing \in Nat /\ \A p \in Prim : p \in Nat
    BY DocumentAssumption DEF EditorTypes, Prim
  <2>4. \A j \in DOMAIN details[session] : Live(session, j) => j # i
    BY <2>1 DEF Live, Settled
  <2>5. ASSUME NEW j \in DOMAIN details[session], details[session][j].kind # "create"
        PROVE  details[session][j].target \in 1..Existing
    BY <1>1, <2>5, BeforeIsOld
  <2>6. CASE doc[o.target] = o.before
    <3>1. ASSUME doc'[o.target] # doc[o.target] PROVE FALSE
      <4>1. o.target # fresh + 1
        BY <2>2, <2>3
      <4>2. PICK j \in DOMAIN details[session] : Rewrites(j, o.target)
        BY <1>1, <2>2, <3>1, <4>1 DEF Moves
      <4>3. Live(session, j) /\ details[session][j].target = o.target
        BY <4>1, <4>2 DEF Rewrites
      <4> QED BY <2>1, <2>2, <2>4, <4>3 DEF TouchedOnce
    <3> QED BY <2>6, <3>1
  <2>7. CASE o.kind = "delete" /\ \E q \in Prim : q > Existing /\ doc[q] = o.before
    <3>1. PICK q \in Prim : q > Existing /\ doc[q] = o.before
      BY <2>7
    <3>2. ASSUME doc'[q] # doc[q] PROVE FALSE
      <4>1. q # fresh + 1
        BY <2>2, <2>3, <3>1 DEF NewOnes
      <4>2. PICK j \in DOMAIN details[session] : Rewrites(j, q)
        BY <1>1, <3>2, <4>1 DEF Moves
      <4>3. details[session][j].target = q
        BY <4>1, <4>2 DEF Rewrites
      <4>4. details[session][j].kind = "create"
        BY <2>3, <2>5, <3>1, <4>3
      <4>5. RememberedAs(session, details[session][j])
        BY <1>1 DEF Remembered
      <4>6. q # NoPrim
        BY <2>3, <3>1 DEF NoPrim
      <4> QED BY <1>1, <2>2, <3>1, <4>3, <4>4, <4>5, <4>6 DEF RememberedAs
    <3> QED BY <2>7, <3>1, <3>2
  <2> QED BY <2>6, <2>7 DEF IsBack
<1> QED BY <1>2, <1>3

LEMMA BackKept ==
  ASSUME SparesLocks, IInv, IInv', DInv, DInv', EditorTypes, SessionFits, \A t \in Tx : TxFits(t), DocumentInv,
         TouchedOnce, UndoneIsBack, Dependably, BatchStep, [Next]_vars
  PROVE  UndoneIsBack'
<1>1. session' = session /\ session \in Tx /\ LogTypes /\ NewOnes /\ Remembered /\ UndoneFits
  BY BatchStepManages DEF SessionFits, CallFits, KeepsSession, DocumentInv
<1>2. SUFFICES ASSUME NEW t \in Tx, holdsDocumentLock(t)', NEW i \in DOMAIN details'[t],
                      Settled(t, i)', details'[t][i].kind # "create"
               PROVE  \/ doc'[details'[t][i].target] = details'[t][i].before
                      \/ /\ details'[t][i].kind = "delete"
                         /\ \E q \in Prim : q > Existing /\ doc'[q] = details'[t][i].before
  BY DEF UndoneIsBack, IsBack
<1>3. CASE i \notin DOMAIN details[t]
  <2>1. IsReserved /\ t = session /\ \E d \in Detail : Log(d)
    BY <1>3, LogGrows
  <2>2. operations'[session] = Append(operations[session], PendingOperation)
    BY <2>1, ReservedIs
  <2>3. i = Len(details[session]) + 1
    <3>1. PICK d \in Detail : Log(d)
      BY <2>1
    <3>2. DOMAIN details'[session] = DOMAIN details[session] \cup {Len(details[session]) + 1}
      BY <1>1, <2>1, <2>2, <3>1, LoggedEffect, ReservedIs
    <3> QED BY <1>3, <2>1, <3>2
  <2>4. operations'[session][i] = PendingOperation
    BY <1>1, <2>2, <2>3 DEF LogTypes, IInv, TypeOK
  <2> QED BY <1>2, <2>1, <2>4 DEF Settled, PendingOperation
<1>4. CASE i \in DOMAIN details[t]
  <2>1. holdsDocumentLock(t)
    <3>1. state[t] # "none"
      BY <1>4 DEF TxFits
    <3> QED BY <1>2, <3>1, HolderHeld
  <2>2. /\ details'[t][i].kind = details[t][i].kind /\ details'[t][i].before = details[t][i].before
        /\ details'[t][i].target = details[t][i].target
    BY <1>1, <1>2, <1>4, DetailStays, TargetStays
  <2>3. CASE Settled(t, i)
    <3>1. IsBack(details[t][i])
      BY <1>2, <1>4, <2>1, <2>2, <2>3 DEF UndoneIsBack
    <3> QED BY <1>1, <1>2, <1>4, <2>1, <2>2, <2>3, <3>1, BackStays
  <2>4. CASE ~Settled(t, i)
    <3>1. operations[t][i] \in Operation
      BY <1>1, <1>4, SameDomain DEF IInv, TypeOK
    <3>2. Live(t, i)
      BY <2>4, <3>1 DEF Live, Settled, Operation
    <3>3. operations'[t][i] # operations[t][i]
      BY <1>2, <2>4 DEF Settled
    <3>4. t = session /\ ~IsReserved
      BY <1>1, <1>4, <3>3, DetailStays
    <3>5. operations'[session][i].state \notin {"pending", "applied", "failed"}
      BY <1>2, <3>4 DEF Settled
    <3> QED BY <1>1, <1>2, <1>4, <2>2, <3>2, <3>4, <3>5, UndoneIsClean
  <2> QED BY <2>3, <2>4
<1> QED BY <1>3, <1>4

LEMMA TouchKept ==
  ASSUME SparesLocks, IInv, IInv', DInv, DInv', EditorTypes, SessionFits, \A t \in Tx : TxFits(t), DocumentInv,
         TouchInv, Dependably, BatchStep, [Next]_vars
  PROVE  TouchInv'
<1>1. BeforeIsFirm /\ TouchedOnce /\ ChangedIsOwned /\ UndoneIsBack
  BY DEF TouchInv
<1>2. BeforeIsFirm' /\ TouchedOnce'
  BY <1>1, FirmKept, TouchedOnceKept
<1>3. ChangedIsOwned' /\ UndoneIsBack'
  BY <1>1, ChangedKept, BackKept
<1> QED BY <1>2, <1>3 DEF TouchInv

LEMMA QuietTouch ==
  ASSUME SparesLocks, IInv, DInv, DInv', \A t \in Tx : TxFits(t), TouchInv, [Next]_vars,
         UNCHANGED <<operations, doc, details>>,
         TouchedOnce'
  PROVE  TouchInv'
<1>1. BeforeIsFirm'
  BY CommittedKept DEF TouchInv, BeforeIsFirm, Changed, vars, txVars
<1>2. ChangedIsOwned'
  BY CommittedStays DEF TouchInv, ChangedIsOwned, Live, Changed
<1>3. UndoneIsBack'
  <2>1. ASSUME NEW t \in Tx, holdsDocumentLock(t)', NEW i \in DOMAIN details[t],
               Settled(t, i), details[t][i].kind # "create"
        PROVE  IsBack(details[t][i])
    <3>1. state[t] # "none"
      BY <2>1 DEF TxFits
    <3> QED BY <2>1, <3>1, HolderHeld DEF TouchInv, UndoneIsBack
  <2> QED BY <2>1 DEF UndoneIsBack, Settled, IsBack
<1> QED BY <1>1, <1>2, <1>3 DEF TouchInv

LEMMA ToolTouches ==
  ASSUME TouchOnce, \A t \in Tx : TxFits(t), TouchInv, ToolChooses
  PROVE  TouchedOnce'
<1>1. details' = details /\ step' \notin WriteSteps /\ step' # "before"
  BY WriteIsBusy DEF ToolChooses, IdleSteps, BusySteps
<1>2. ASSUME step' = "next", NEW j \in DOMAIN plan', plan'[j].id # NoPrim
      PROVE  plan'[j].id \notin Touched(session')
  <2>1. session' \in Tx /\ (MayPlan(session', plan') \/ state[session'] = "none")
    BY <1>2 DEF ToolChooses
  <2>2. CASE MayPlan(session', plan')
    BY <1>2, <2>2 DEF MayPlan
  <2>3. CASE state[session'] = "none"
    BY <2>1, <2>3 DEF TxFits, Touched
  <2> QED BY <2>1, <2>2, <2>3
<1>3. Touched(session)' = Touched(session')
  BY <1>1 DEF Touched
<1> QED BY <1>1, <1>2, <1>3 DEF TouchInv, TouchedOnce

TouchFits == Dependable => TouchInv

LEMMA NextTouch ==
  ASSUME TouchOnce, IInv, DInv, ControlInv, DocInv, TouchFits, [BatchNext]_allVars
  PROVE  TouchFits'
<1> SUFFICES ASSUME Dependable' PROVE TouchInv'
  BY DEF TouchFits
<1>1. IInv' /\ DInv' /\ ControlInv' /\ [Next]_vars /\ SparesLocks
  BY NextControl
<1>2. EditorTypes /\ SessionFits /\ \A t \in Tx : TxFits(t)
  BY DEF ControlInv
<1>3. CASE BatchStep
  <2>1. Dependable /\ Dependably
    BY <1>2, <1>3, BatchDependably DEF Kept
  <2>2. TouchInv /\ DocumentInv
    BY <2>1 DEF TouchFits, DocInv
  <2> QED BY <1>1, <1>2, <1>3, <2>1, <2>2, TouchKept
<1>4. CASE ToolChooses
  <2>1. Dependable /\ UNCHANGED <<operations, doc, details>>
    BY <1>4 DEF ToolChooses, editorVars, Dependable
  <2>2. TouchInv
    BY <2>1 DEF TouchFits
  <2>3. TouchedOnce'
    BY <1>2, <1>4, <2>2, ToolTouches
  <2> QED BY <1>1, <1>2, <2>1, <2>2, <2>3, QuietTouch
<1>5. CASE Quiet
  <2>1. Dependable /\ UNCHANGED <<operations, doc, details>>
    BY <1>5 DEF Quiet, editorVars, Dependable
  <2>2. TouchInv
    BY <2>1 DEF TouchFits
  <2>3. TouchedOnce'
    BY <1>5, <2>2 DEF Quiet, clientVars, TouchInv, TouchedOnce, Touched
  <2> QED BY <1>1, <1>2, <2>1, <2>2, <2>3, QuietTouch
<1>6. CASE TakesEffect
  BY <1>6 DEF TakesEffect, Dependable, DocInv
<1>7. UNCHANGED allVars => Quiet
  BY DEF allVars, managerVars, txVars, callVars, Quiet
<1> QED BY <1>3, <1>4, <1>5, <1>6, <1>7, ToolsChoose DEF BatchNext

LEMMA InitTouch == BatchInit => TouchFits
<1> SUFFICES ASSUME BatchInit PROVE TouchInv
  BY DEF TouchFits
<1>1. /\ doc = [p \in Prim |-> IF p <= Existing THEN Original(p) ELSE Gone]
      /\ details = [t \in Tx |-> <<>>] /\ step = "ready"
  BY DEF BatchInit
<1>2. BeforeIsFirm /\ UndoneIsBack
  BY <1>1 DEF BeforeIsFirm, UndoneIsBack
<1>3. TouchedOnce
  BY <1>1, WriteIsBusy DEF TouchedOnce, IdleSteps
<1>4. ChangedIsOwned
  <2>1. \A p \in Prim, t \in Tx : doc[p] # Changed(t)
    BY <1>1 DEF Original, Changed, Gone
  <2> QED BY <2>1 DEF ChangedIsOwned
<1> QED BY <1>2, <1>3, <1>4 DEF TouchInv

\* What the document may be relied on to show, of clients that touch a
\* primitive once in a transaction.
THEOREM DocumentInvariant ==
  ASSUME TouchOnce
  PROVE  BatchSpec => [](IInv /\ DInv /\ ControlInv /\ DocInv /\ TouchFits)
<1>1. BatchInit => IInv /\ DInv /\ ControlInv /\ DocInv /\ TouchFits
  BY InitInvariant, InitDisciplined, InitControl, InitDocument, InitTouch DEF BatchInit
<1>2. IInv /\ DInv /\ ControlInv /\ DocInv /\ TouchFits /\ [BatchNext]_allVars
        => (IInv /\ DInv /\ ControlInv /\ DocInv /\ TouchFits)'
  BY NextControl, NextDocument, NextTouch
<1> QED BY <1>1, <1>2, PTL DEF BatchSpec

LEMMA TracesLive ==
  ASSUME DocumentInv, TouchInv, NEW t \in Tx, state[t] # "committed", Traces(t) # {}
  PROVE  \E i \in DOMAIN details[t] : Live(t, i)
BY DEF Traces, DocumentInv, MadeIsOwned, TouchInv, ChangedIsOwned

\* No second transaction builds on writes that may still be undone: the
\* transaction they are of holds the document's lock.
THEOREM BatchTracesAreLocked ==
  ASSUME TouchOnce
  PROVE  BatchSpec => []TracesAreLocked
<1>1. IInv /\ DInv /\ ControlInv /\ DocInv /\ TouchFits => TracesAreLocked
  <2> SUFFICES ASSUME IInv, DInv, ControlInv, DocInv, TouchFits, Dependable,
                      NEW t \in Tx, state[t] \notin {"none", "committed"},
                      Traces(t) # {} \/ (state[t] # "rolled-back" /\ Missing(t) # {})
               PROVE  activeByDocument[document[t]] = t
    BY DEF TracesAreLocked
  <2>1. DocumentInv /\ TouchInv /\ TxFits(t) /\ LogTypes
    BY DEF DocInv, TouchFits, ControlInv, SessionFits
  <2>2. holdsDocumentLock(t)
    <3>1. CASE Traces(t) # {}
      BY <2>1, <3>1, TracesLive, LiveIsHeld
    <3>2. CASE state[t] # "rolled-back" /\ Missing(t) # {}
      <4>1. state[t] # "expired"
        BY <2>1, <3>2 DEF Missing, TxFits
      <4>2. state[t] \in TransactionState /\ (state[t] = "failed" => rollbackComplete[t] = "no")
        BY DEF IInv, TypeOK, DInv, HolderIsLocked
      <4> QED BY <3>2, <4>1, <4>2 DEF TransactionState, holdsDocumentLock, HoldsIn
    <3> QED BY <3>1, <3>2
  <2> QED BY <2>2 DEF DInv, HolderIsLocked
<1> QED BY <1>1, DocumentInvariant, PTL

LEMMA IsNotRolledBack ==
  ASSUME IInv, DInv, NEW t \in Tx, state[t] # "rolled-back", NEW s \in {state, StateNow}, NEW u, NEW x,
         x # "rolled-back", state' = s \/ state' = [s EXCEPT ![u] = x]
  PROVE  state'[t] # "rolled-back"
<1>1. s[t] # "rolled-back" /\ s \in [Tx -> TransactionState \cup {"none"}]
  BY Swept, SweepStates DEF IInv, TypeOK
<1> QED BY <1>1

\* Only a rollback of the batch ends one.
LEMMA BatchRollsBack ==
  ASSUME IInv, DInv, BatchStep, NEW t \in Tx, state[t] # "rolled-back", state'[t] = "rolled-back"
  PROVE  RollbackBegins \/ RollbackEnds
<1>1. ~UNCHANGED managerVars /\ ~UNCHANGED state
  BY DEF managerVars, txVars
<1>2. /\ "active" # "rolled-back" /\ "failed" # "rolled-back" /\ "validating" # "rolled-back"
      /\ "validated" # "rolled-back" /\ "committed" # "rolled-back"
  OBVIOUS
<1>3. ~Sweep
  BY IsNotRolledBack, <1>2 DEF Sweep
<1>4. ~GoesOn
  BY <1>1 DEF GoesOn, Within, Finds
<1>5. ~Settles
  <2>1. Settles => UNCHANGED state \/ state' = [state EXCEPT ![callTx[client]] = "failed"]
    BY DEF Settles, Succeeds, Applied, Fails, failTransaction, Undone, Compensated
  <2> QED BY <1>1, <1>2, <2>1, IsNotRolledBack
<1>6. ~Reserves
  <2>1. Reserves => \/ state' = [StateNow EXCEPT ![session] = "active"]
                    \/ state' = [state EXCEPT ![callTx[client]] = "active"]
    BY DEF Reserves, StartCreate, Reserve, reserveOperation
  <2> QED BY <1>2, <2>1, IsNotRolledBack
<1>7. ~IsRejected /\ ~BeforeModifyOrDelete
  BY <1>1, <1>3 DEF IsRejected, IsRefused, Refused, ReserveRefused, BeforeModifyOrDelete, StartModifyOrDelete, txVars
<1>8. ~BatchEnds
  <2>1. BatchEnds => Sweep \/ state' = [StateNow EXCEPT ![session] = "validating"]
    BY DEF BatchEnds, Refused, StartValidate
  <2> QED BY <1>2, <1>3, <2>1, IsNotRolledBack
<1>9. ~Judge
  <2>1. Judge => \E x \in {"validated", "active"} : state' = [state EXCEPT ![callTx[client]] = x]
    BY DEF Judge, FinishValidate
  <2> QED BY <1>2, <2>1, IsNotRolledBack
<1>10. ~CommitBatch
  <2>1. CommitBatch => Sweep \/ state' = [StateNow EXCEPT ![session] = "committed"]
    BY DEF CommitBatch, Refused, Commit
  <2> QED BY <1>2, <1>3, <2>1, IsNotRolledBack
<1>11. RollbackStep => RollbackBegins \/ RollbackEnds
  BY <1>1 DEF RollbackStep, Undo, VerifyUndone, RestoreOperation
<1> QED BY <1>4, <1>5, <1>6, <1>7, <1>8, <1>9, <1>10, <1>11, BatchShapes

\* It had the lock or no operation.
LEMMA CompletesRollback ==
  ASSUME IInv, DInv, \A t \in Tx : TxFits(t), [BatchNext]_allVars,
         NEW t \in Tx, state[t] # "rolled-back", state'[t] = "rolled-back"
  PROVE  /\ UNCHANGED <<doc, details, operations>>
         /\ details[t] = <<>> \/ holdsDocumentLock(t)
<1>0. state \in [Tx -> TransactionState \cup {"none"}]
  BY DEF IInv, TypeOK
<1>1. BatchStep
  <2>1. ~UNCHANGED state /\ ~Sweep
    BY IsNotRolledBack DEF Sweep
  <2>2. ASSUME NEW u \in Tx, NEW x \in {"validating", "committed", "active"},
               state' = [StateNow EXCEPT ![u] = x]
        PROVE  FALSE
    BY <2>2, IsNotRolledBack
  <2>3. ~ToolStep
    BY <2>1, <2>2 DEF ToolStep, ToolStatus, Get, BatchOnOwned, Refused, ToolValidate, StartValidate,
                      ToolCommit, Commit, ToolRollback, managerVars, txVars, Time, Deadline,
                      BatchOnNew, ToolBegin, Begin
  <2>4. ~TakesEffect /\ ~UNCHANGED allVars
    BY <2>1 DEF TakesEffect, allVars, managerVars, txVars
  <2> QED BY <2>3, <2>4 DEF BatchNext
<1>2. UNCHANGED <<doc, details>>
  BY <1>1, BatchRollsBack DEF RollbackBegins, RollbackEnds, editorVars
<1>3. CASE RollbackBegins
  <2>1. RollbackNothing(session)
    <3>1. ~Refused
      BY IsNotRolledBack DEF Refused, Sweep
    <3>2. ~StartRollback(client, session)
      BY IsNotRolledBack DEF StartRollback
    <3> QED BY <1>3, <3>1, <3>2 DEF RollbackBegins
  <2>2. /\ operations' = operations /\ state' = [StateNow EXCEPT ![session] = "rolled-back"]
        /\ StateNow[session] \in {"active", "validated", "failed", "expired"}
    BY <2>1 DEF RollbackNothing, MayRollBack, finalizeRollback
  <2>3. t = session
    <3>1. StateNow[t] # "rolled-back"
      BY Swept
    <3> QED BY <2>2, <3>1, SweepStates DEF IInv
  <2>4. state[t] \in Open \cup {"failed", "expired"}
    BY <2>2, <2>3 DEF StateNow, Stale, Open
  <2>5. holdsDocumentLock(t) \/ details[t] = <<>>
    BY <2>4 DEF TxFits, DInv, HolderIsLocked, holdsDocumentLock, HoldsIn, Open
  <2> QED BY <1>2, <2>2, <2>5
<1>4. CASE RollbackEnds
  <2>1. /\ operations' = operations /\ pc[client] = "rolling" /\ FinishRollback(client)
    BY <1>4 DEF RollbackEnds, FinishRollback
  <2>2. t = callTx[client]
    BY <1>0, <2>1 DEF FinishRollback, finalizeRollback
  <2>3. state[t] = "rolling-back"
    BY <2>1, <2>2, ClientIsCall DEF DInv, CallersFit, CallersStay
  <2> QED BY <1>2, <2>1, <2>3 DEF holdsDocumentLock, HoldsIn
<1> QED BY <1>1, <1>3, <1>4, BatchRollsBack

LEMMA StaysDependable ==
  ASSUME IInv, DInv, ControlInv, [BatchNext]_allVars, Dependable'
  PROVE  Dependable
<1>1. CASE BatchStep
  BY <1>1, BatchDependably DEF ControlInv, Kept
<1>2. CASE ToolStep
  BY <1>2, ToolsEditNothing DEF editorVars, Dependable
<1>3. CASE TakesEffect
  BY <1>3 DEF TakesEffect, Dependable
<1> QED BY <1>1, <1>2, <1>3 DEF BatchNext, allVars, editorVars, Dependable

\* A complete rollback restores the document whatever calls failed or lost
\* their answer on the way.
THEOREM BatchRollbackRestores ==
  ASSUME TouchOnce
  PROVE  BatchSpec => RollbackRestores
<1>1. IInv /\ DInv /\ ControlInv /\ DocInv /\ TouchFits
        /\ (IInv /\ DInv /\ ControlInv /\ DocInv /\ TouchFits)' /\ [BatchNext]_allVars
        => \A t \in Tx : state[t] # "rolled-back" /\ state'[t] = "rolled-back" /\ Dependable'
             => (Traces(t) = {} /\ Missing(t) = {})'
  <2> SUFFICES ASSUME IInv, DInv, ControlInv, DocInv, TouchFits,
                      IInv', DInv', ControlInv', DocInv', TouchFits', [BatchNext]_allVars,
                      NEW t \in Tx, state[t] # "rolled-back", state'[t] = "rolled-back", Dependable'
               PROVE  Traces(t)' = {} /\ Missing(t)' = {}
    OBVIOUS
  <2>1. DocumentInv' /\ TouchInv'
    BY DEF DocInv, TouchFits
  <2>2. \A i \in DOMAIN details'[t] : i \in DOMAIN operations'[t] /\ Settled(t, i)'
    <3>1. LogTypes'
      BY DEF ControlInv, SessionFits
    <3>2. DOMAIN details'[t] = DOMAIN operations'[t]
      BY <3>1 DEF LogTypes
    <3> QED BY <3>2 DEF DInv, RolledBackIsClean, Settled
  <2>3. Traces(t)' = {}
    <3>1. ASSUME NEW p \in Prim, doc'[p] = Made(t) \/ doc'[p] = Changed(t)
          PROVE  \E i \in DOMAIN details'[t] : Live(t, i)'
      BY <2>1, <3>1 DEF DocumentInv, MadeIsOwned, TouchInv, ChangedIsOwned, Made, Changed
    <3>2. \A i \in DOMAIN details'[t] : ~Live(t, i)'
      BY <2>2 DEF Settled, Live
    <3> QED BY <3>1, <3>2 DEF Traces, Made, Changed
  <2>4. Missing(t)' = {}
    <3>1. UNCHANGED <<doc, details, operations>> /\ (details[t] = <<>> \/ holdsDocumentLock(t))
      BY CompletesRollback DEF ControlInv
    <3>2. Dependable
      BY StaysDependable
    <3>3. UndoneIsBack
      BY <3>2 DEF TouchFits, TouchInv
    <3>4. ASSUME NEW i \in DOMAIN details[t], details[t][i].kind # "create" PROVE IsBack(details[t][i])
      BY <2>2, <3>1, <3>3, <3>4 DEF UndoneIsBack, Settled
    <3> QED BY <3>1, <3>4 DEF Missing, IsBack
  <2> QED BY <2>3, <2>4
<1> QED BY <1>1, DocumentInvariant, PTL DEF BatchSpec, RollbackRestores
=============================================================================
