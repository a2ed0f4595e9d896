------------------------- MODULE TransactionsProofs -------------------------
(***************************************************************************)
(* Proofs about Transactions, for any number of transactions, documents,   *)
(* calls in flight and operations: first what holds for clients of any     *)
(* discipline, then, from Disciplined on, what needs clients that keep it. *)
(***************************************************************************)
EXTENDS Transactions, TLAPS

(***************************************************************************)
(* The inductive invariant.  The safety properties speak of transactions;  *)
(* what makes them inductive is what each call in flight may rely on when  *)
(* it resumes.                                                             *)
(***************************************************************************)

\* While gates run nothing else moves the transaction they judge.
ValidatingCalls ==
  \A c \in Call : pc[c] = "validating" =>
    /\ callTx[c] \in Tx
    /\ state[callTx[c]] = "validating"
    /\ seen[c] = operations[callTx[c]]
    /\ \A e \in Call : pc[e] = "validating" /\ callTx[e] = callTx[c] => e = c

\* The operation a call is writing is pending, and no other call's.
ApplyingCalls ==
  \A c \in Call : pc[c] = "applying" =>
    /\ callTx[c] \in Tx
    /\ \A i \in todo[c] : /\ i \in DOMAIN operations[callTx[c]]
                          /\ operations[callTx[c]][i].state = "pending"
    /\ \A e \in Call : pc[e] = "applying" /\ callTx[e] = callTx[c] /\ e # c =>
                         todo[e] \cap todo[c] = {}

\* A rollback under way has left its transaction in no state that can become
\* active again, and never touches an operation still being written.
RollingCalls ==
  \A c \in Call : pc[c] = "rolling" =>
    /\ callTx[c] \in Tx
    /\ state[callTx[c]] \in {"rolling-back", "failed", "rolled-back"}
    /\ \A i \in todo[c] : /\ i \in DOMAIN operations[callTx[c]]
                          /\ operations[callTx[c]][i].state # "pending"

SnapshotCalls ==
  \A c \in Call : pc[c] = "snapshot" => callTx[c] \in Tx

CallsOK == ValidatingCalls /\ ApplyingCalls /\ RollingCalls /\ SnapshotCalls

IInv ==
  /\ TypeOK
  /\ CallsOK
  /\ SettledWhenJudged
  /\ CommitIsJudged
  /\ FailedIsCandidate
  /\ LockRefersToHolder

-----------------------------------------------------------------------------
(* Helpers.                                                                *)

\* The sweep only moves transactions that are active or validated, and only
\* to failed or expired.
LEMMA SweepStates ==
  ASSUME TypeOK
  PROVE  /\ StateNow \in [Tx -> TransactionState \cup {"none"}]
         /\ CompleteNow \in [Tx -> {"undefined", "yes", "no"}]
         /\ LockNow \in [Doc -> Tx \cup {NoTx}]
         /\ \A t \in Tx : \/ StateNow[t] = state[t]
                          \/ state[t] \in Open /\ StateNow[t] \in {"failed", "expired"}
<1>1. StateNow \in [Tx -> TransactionState \cup {"none"}]
  BY DEF TypeOK, StateNow, TransactionState
<1>2. CompleteNow \in [Tx -> {"undefined", "yes", "no"}]
  BY DEF TypeOK, CompleteNow
<1>3. LockNow \in [Doc -> Tx \cup {NoTx}]
  <2> SUFFICES ASSUME NEW d \in Doc
               PROVE  LockNow[d] \in Tx \cup {NoTx}
    BY DEF LockNow
  <2>1. Relocked(d) \subseteq Tx
    BY DEF Relocked, StaleOn, Stale
  <2>2. activeByDocument[d] \in Tx \cup {NoTx}
    BY DEF TypeOK
  <2> QED BY <2>1, <2>2 DEF LockNow
<1>4. \A t \in Tx : \/ StateNow[t] = state[t]
                    \/ state[t] \in Open /\ StateNow[t] \in {"failed", "expired"}
  BY DEF StateNow, Stale
<1> QED BY <1>1, <1>2, <1>3, <1>4

\* Settling or restoring an operation changes that operation only.
LEMMA SetOperationEffect ==
  ASSUME TypeOK,
         NEW t \in Tx, NEW i \in DOMAIN operations[t],
         NEW to \in {"pending", "applied", "rolled-back", "cancelled", "failed"},
         NEW comp \in {"undefined", "not-needed", "restored", "failed"},
         SetOperation(t, i, to, comp)
  PROVE  /\ operations' \in [Tx -> Seq(Operation)]
         /\ \A u \in Tx : DOMAIN operations'[u] = DOMAIN operations[u]
         /\ \A u \in Tx : Len(operations'[u]) = Len(operations[u])
         /\ \A u \in Tx : u # t => operations'[u] = operations[u]
         /\ \A j \in DOMAIN operations[t] :
              operations'[t][j] = IF j = i THEN [state |-> to, compensation |-> comp]
                                           ELSE operations[t][j]
<1> DEFINE op == [state |-> to, compensation |-> comp]
           s  == [operations[t] EXCEPT ![i] = op]
<1>1. operations[t] \in Seq(Operation)
  BY DEF TypeOK
<1>2. op \in Operation
  BY DEF Operation
<1>3. s \in Seq(Operation) /\ Len(s) = Len(operations[t]) /\ DOMAIN s = DOMAIN operations[t]
  BY <1>1, <1>2
<1>4. operations' = [operations EXCEPT ![t] = s]
  BY DEF SetOperation
<1>5. operations'[t] = s /\ \A u \in Tx : u # t => operations'[u] = operations[u]
  BY <1>4 DEF TypeOK
<1>6. operations' \in [Tx -> Seq(Operation)]
  BY <1>3, <1>4 DEF TypeOK
<1>7. \A j \in DOMAIN operations[t] : s[j] = IF j = i THEN op ELSE operations[t][j]
  BY <1>1
<1> QED BY <1>3, <1>5, <1>6, <1>7

\* Whatever the sweep leaves in a lock is a transaction that holds it.
LEMMA SweepLocks ==
  ASSUME TypeOK, LockRefersToHolder, NEW d \in Doc, LockNow[d] # NoTx
  PROVE  /\ document[LockNow[d]] = d
         /\ HoldsIn(StateNow, CompleteNow, LockNow[d])
<1>1. CASE StaleOn(d) = {}
  <2> DEFINE t == activeByDocument[d]
  <2>1. LockNow[d] = t
    BY <1>1 DEF LockNow
  <2>2. t \in Tx /\ document[t] = d /\ holdsDocumentLock(t)
    BY <2>1 DEF LockRefersToHolder, TypeOK
  <2>3. t \notin Stale
    BY <1>1, <2>2 DEF StaleOn
  <2>4. StateNow[t] = state[t] /\ CompleteNow[t] = rollbackComplete[t]
    BY <2>2, <2>3 DEF StateNow, CompleteNow
  <2> QED BY <2>1, <2>2, <2>4 DEF holdsDocumentLock, HoldsIn
<1>2. CASE StaleOn(d) # {}
  <2> DEFINE t == LockNow[d]
  <2>1. t \in Relocked(d)
    BY <1>2 DEF LockNow
  <2>2. t \in Stale /\ t \in Tx /\ document[t] = d /\ Candidates(t) # {}
    BY <2>1 DEF Relocked, StaleOn, Stale
  <2>3. StateNow[t] = "failed" /\ CompleteNow[t] = "no"
    BY <2>2 DEF StateNow, CompleteNow
  <2> QED BY <2>2, <2>3 DEF HoldsIn
<1> QED BY <1>1, <1>2

\* A manager without transactions satisfies the invariant.
THEOREM InitInvariant == Init => IInv
<1> SUFFICES ASSUME Init PROVE IInv
  OBVIOUS
<1>1. TypeOK
  <2>1. <<>> \in Seq(Operation) /\ Len(<<>>) = 0
    OBVIOUS
  <2>2. NoVerdict \in Verdict
    BY <2>1 DEF NoVerdict, Verdict
  <2>3. \A t \in Tx : MaxOperations[t] \in Nat
    BY BoundsAssumption DEF Tx
  <2> QED BY <2>1, <2>2, <2>3 DEF Init, TypeOK
<1>2. CallsOK
  BY DEF Init, CallsOK, ValidatingCalls, ApplyingCalls, RollingCalls, SnapshotCalls
<1>3. SettledWhenJudged /\ CommitIsJudged /\ LockRefersToHolder
  BY DEF Init, SettledWhenJudged, CommitIsJudged, LockRefersToHolder
<1>4. FailedIsCandidate
  BY DEF Init, FailedIsCandidate
<1> QED BY <1>1, <1>2, <1>3, <1>4 DEF IInv

-----------------------------------------------------------------------------
(* begin, get, the passing of a deadline and the start of a modify or a    *)
(* delete: the operations stay as they are.                                *)

\* Calls in flight lean on states the sweep never touches.
LEMMA SweepKeepsCalls ==
  ASSUME IInv, UNCHANGED <<operations, pc, callTx, todo, seen>>,
         \A t \in Tx : \/ state'[t] = state[t]
                       \/ state[t] \in {"none", "active", "validated"}
  PROVE  ValidatingCalls' /\ ApplyingCalls' /\ RollingCalls'
<1>1. ValidatingCalls'
  BY DEF IInv, CallsOK, ValidatingCalls
<1>2. ApplyingCalls'
  BY DEF IInv, CallsOK, ApplyingCalls
<1>3. RollingCalls'
  BY DEF IInv, CallsOK, RollingCalls
<1> QED BY <1>1, <1>2, <1>3

\* A step that leaves every operation alone hides no failed one.
LEMMA FailedKept ==
  ASSUME FailedIsCandidate, operations' = operations
  PROVE  FailedIsCandidate'
BY DEF FailedIsCandidate, Candidates, Unresolved

\* begin, which takes the lock over from whoever no longer holds it.
LEMMA BeginStep ==
  ASSUME IInv, NEW t \in Tx, NEW d \in Doc, Begin(t, d)
  PROVE  IInv'
<1> USE DEF IInv
<1>0. state' = [StateNow EXCEPT ![t] = "active"] /\ state[t] = "none"
  BY DEF Begin
<1>1. TypeOK'
  BY SweepStates, <1>0 DEF TypeOK, Begin, TransactionState, callVars
<1>2. \A u \in Tx : \/ state'[u] = state[u]
                    \/ state[u] \in {"none", "active", "validated"}
  BY SweepStates, <1>0 DEF Open
<1>3. CallsOK'
  <2>1. SnapshotCalls'
    BY DEF CallsOK, SnapshotCalls, Begin, callVars
  <2> QED BY <1>2, <2>1, SweepKeepsCalls DEF Begin, callVars, CallsOK
<1>4. \A u \in Tx : state'[u] \in {"validating", "validated", "committed"} => state[u] = state'[u]
  BY SweepStates, <1>0
<1>5. SettledWhenJudged'
  BY <1>4 DEF SettledWhenJudged, Unsettled, Begin
<1>6. CommitIsJudged'
  BY <1>4 DEF CommitIsJudged, Begin
<1>7. LockRefersToHolder'
  <2> SUFFICES ASSUME NEW e \in Doc, activeByDocument'[e] # NoTx
               PROVE  /\ document'[activeByDocument'[e]] = e
                      /\ HoldsIn(state', rollbackComplete', activeByDocument'[e])
    BY DEF LockRefersToHolder, holdsDocumentLock, HoldsIn
  <2>1. CASE e = d
    <3>1. activeByDocument'[e] = t
      BY <2>1, SweepStates DEF Begin
    <3> QED BY <3>1, <2>1, <1>0, SweepStates DEF Begin, HoldsIn, TypeOK
  <2>2. CASE e # d
    <3>1. activeByDocument'[e] = LockNow[e] /\ LockNow[e] \in Tx
      BY <2>2, SweepStates DEF Begin
    <3>2. document[LockNow[e]] = e /\ HoldsIn(StateNow, CompleteNow, LockNow[e])
      BY <3>1, SweepLocks
    <3>3. StateNow[t] = "none"
      BY <1>0, SweepStates DEF Open
    <3>4. LockNow[e] # t
      BY <3>2, <3>3 DEF HoldsIn
    <3> QED BY <3>1, <3>2, <3>4, <1>0, SweepStates
            DEF Begin, HoldsIn, TypeOK
  <2> QED BY <2>1, <2>2
<1>8. FailedIsCandidate'
  BY FailedKept DEF Begin
<1> QED BY <1>1, <1>3, <1>5, <1>6, <1>7, <1>8

\* A step that is the sweep and, at most, a new call.
LEMMA SweepKeepsTransactions ==
  ASSUME IInv, Sweep, UNCHANGED <<document, operations, validations>>
  PROVE  /\ SettledWhenJudged' /\ CommitIsJudged' /\ LockRefersToHolder'
         /\ FailedIsCandidate'
<1> USE DEF IInv
<1>1. \A u \in Tx : state'[u] \in {"validating", "validated", "committed"} => state[u] = state'[u]
  BY SweepStates DEF Sweep
<1>2. SettledWhenJudged' /\ CommitIsJudged'
  BY <1>1 DEF SettledWhenJudged, Unsettled, CommitIsJudged
<1>3. LockRefersToHolder'
  BY SweepLocks DEF LockRefersToHolder, holdsDocumentLock, HoldsIn, Sweep
<1> QED BY <1>2, <1>3, FailedKept

\* get, and any call that is refused after its sweep.
LEMMA GetStep ==
  ASSUME IInv, Get
  PROVE  IInv'
<1> USE DEF IInv
<1>1. TypeOK'
  BY SweepStates DEF TypeOK, Get, Sweep, callVars
<1>2. \A u \in Tx : state'[u] = state[u] \/ state[u] \in {"none", "active", "validated"}
  BY SweepStates DEF Get, Sweep, Open
<1>3. CallsOK'
  <2>1. SnapshotCalls'
    BY DEF CallsOK, SnapshotCalls, Get, callVars
  <2> QED BY <1>2, <2>1, SweepKeepsCalls DEF Get, callVars, CallsOK
<1> QED BY <1>1, <1>3, SweepKeepsTransactions DEF Get

\* The passing of a deadline, whatever the transaction is in the middle of.
LEMMA DeadlineStep ==
  ASSUME IInv, NEW t \in Tx, Deadline(t)
  PROVE  IInv'
<1> USE DEF IInv, Deadline, callVars
<1>1. TypeOK'
  BY DEF TypeOK
<1>2. CallsOK'
  BY DEF CallsOK, ValidatingCalls, ApplyingCalls, RollingCalls, SnapshotCalls
<1>3. SettledWhenJudged' /\ CommitIsJudged'
  BY DEF SettledWhenJudged, Unsettled, CommitIsJudged
<1>4. LockRefersToHolder'
  BY DEF LockRefersToHolder, holdsDocumentLock, HoldsIn
<1> QED BY <1>1, <1>2, <1>3, <1>4, FailedKept

\* A modify or a delete up to its before-snapshot.
LEMMA StartModifyOrDeleteStep ==
  ASSUME IInv, NEW c \in Call, NEW t \in Tx, StartModifyOrDelete(c, t)
  PROVE  IInv'
<1> USE DEF IInv, StartModifyOrDelete, Enter
<1>1. TypeOK'
  BY SweepStates DEF TypeOK, Sweep
<1>2. \A u \in Tx : state'[u] = state[u] \/ state[u] \in {"active", "validated"}
  BY SweepStates DEF Sweep, Open
<1>3. \A e \in Call : e # c => /\ pc'[e] = pc[e] /\ callTx'[e] = callTx[e]
                               /\ todo'[e] = todo[e] /\ seen'[e] = seen[e]
  BY DEF TypeOK
<1>4. pc'[c] = "snapshot" /\ callTx'[c] = t
  BY DEF TypeOK
<1>5. ValidatingCalls'
  BY <1>2, <1>3, <1>4 DEF CallsOK, ValidatingCalls
<1>6. ApplyingCalls'
  BY <1>3, <1>4 DEF CallsOK, ApplyingCalls
<1>7. RollingCalls'
  BY <1>2, <1>3, <1>4 DEF CallsOK, RollingCalls
<1>8. SnapshotCalls'
  BY <1>3, <1>4 DEF CallsOK, SnapshotCalls
<1> QED BY <1>1, <1>5, <1>6, <1>7, <1>8, SweepKeepsTransactions DEF CallsOK

-----------------------------------------------------------------------------
(* Reserving an operation.                                                 *)

\* s is the state after the sweep (a create) or as it is (a modify or a
\* delete that has read its snapshot); call c was not writing before.
LEMMA ReserveEffect ==
  ASSUME IInv, NEW c \in Call, NEW t \in Tx, NEW s,
         s \in [Tx -> TransactionState \cup {"none"}],
         \A u \in Tx : \/ s[u] = state[u]
                       \/ state[u] \in Open /\ s[u] \in {"failed", "expired"},
         reserveOperation(s, c, t), seen' = seen
  PROVE  /\ state' \in [Tx -> TransactionState \cup {"none"}]
         /\ operations' \in [Tx -> Seq(Operation)]
         /\ validations' \in [Tx -> Verdict]
         /\ \A u \in Tx : Len(operations'[u]) <= MaxOperations[u]
         /\ CallsOK' /\ SettledWhenJudged' /\ CommitIsJudged' /\ FailedIsCandidate'
<1> USE DEF IInv, reserveOperation
<1> DEFINE n == Len(operations[t]) + 1
<1>a. operations \in [Tx -> Seq(Operation)] /\ PendingOperation \in Operation
  BY DEF TypeOK, PendingOperation, Operation
<1>b. /\ operations'[t] = Append(operations[t], PendingOperation)
      /\ \A u \in Tx : u # t => operations'[u] = operations[u]
  BY <1>a
<1>c. /\ n \notin DOMAIN operations[t]
      /\ DOMAIN operations'[t] = DOMAIN operations[t] \cup {n}
      /\ operations'[t][n] = PendingOperation
      /\ \A i \in DOMAIN operations[t] : operations'[t][i] = operations[t][i]
  BY <1>a, <1>b
<1>d. /\ state[t] \in Open
      /\ state'[t] = "active"
      /\ \A u \in Tx : u # t => state'[u] = s[u]
  BY DEF Open
<1>e. /\ pc'[c] = "applying" /\ callTx'[c] = t /\ todo'[c] = {n}
      /\ \A e \in Call : e # c => /\ pc'[e] = pc[e] /\ callTx'[e] = callTx[e]
                                  /\ todo'[e] = todo[e] /\ seen'[e] = seen[e]
  BY DEF TypeOK, Enter
<1>f. \A u \in Tx : state'[u] \in {"validating", "validated", "committed"} =>
                      u # t /\ state[u] = state'[u]
  BY <1>d
<1>1. state' \in [Tx -> TransactionState \cup {"none"}]
  BY DEF TransactionState
<1>2. operations' \in [Tx -> Seq(Operation)]
  BY <1>a
<1>3. validations' \in [Tx -> Verdict]
  <2>1. NoVerdict \in Verdict
    BY DEF NoVerdict, Verdict
  <2> QED BY <2>1 DEF TypeOK
<1>4. \A u \in Tx : Len(operations'[u]) <= MaxOperations[u]
  <2>1. Len(operations[t]) \in Nat /\ MaxOperations[t] \in Nat
    BY <1>a, BoundsAssumption DEF Tx
  <2>2. Len(operations'[t]) = Len(operations[t]) + 1
    BY <1>a, <1>b
  <2>3. Len(operations'[t]) <= MaxOperations[t]
    BY <2>1, <2>2
  <2> QED BY <1>b, <2>3 DEF TypeOK
<1>5. ValidatingCalls'
  <2> SUFFICES ASSUME NEW e \in Call, pc'[e] = "validating"
               PROVE  /\ callTx'[e] \in Tx
                      /\ state'[callTx'[e]] = "validating"
                      /\ seen'[e] = operations'[callTx'[e]]
                      /\ \A f \in Call : pc'[f] = "validating" /\ callTx'[f] = callTx'[e] => f = e
    BY DEF ValidatingCalls
  <2>1. e # c /\ pc[e] = "validating" /\ callTx'[e] = callTx[e]
    BY <1>e
  <2>2. callTx[e] \in Tx /\ state[callTx[e]] = "validating"
    BY <2>1 DEF CallsOK, ValidatingCalls
  <2>3. callTx[e] # t /\ state'[callTx[e]] = "validating"
    BY <2>2, <1>d DEF Open
  <2> QED BY <1>b, <1>e, <2>1, <2>2, <2>3 DEF CallsOK, ValidatingCalls
<1>6. ApplyingCalls'
  <2> SUFFICES ASSUME NEW e \in Call, pc'[e] = "applying"
               PROVE  /\ callTx'[e] \in Tx
                      /\ \A i \in todo'[e] : /\ i \in DOMAIN operations'[callTx'[e]]
                                             /\ operations'[callTx'[e]][i].state = "pending"
                      /\ \A f \in Call : pc'[f] = "applying" /\ callTx'[f] = callTx'[e] /\ f # e =>
                                           todo'[f] \cap todo'[e] = {}
    BY DEF ApplyingCalls
  <2>1. CASE e = c
    BY <2>1, <1>c, <1>e DEF PendingOperation, CallsOK, ApplyingCalls
  <2>2. CASE e # c
    <3>1. /\ callTx[e] \in Tx
          /\ \A i \in todo[e] : /\ i \in DOMAIN operations[callTx[e]]
                                /\ operations[callTx[e]][i].state = "pending"
      BY <2>2, <1>e DEF CallsOK, ApplyingCalls
    <3>2. \A i \in todo[e] : /\ i \in DOMAIN operations'[callTx[e]]
                             /\ operations'[callTx[e]][i].state = "pending"
      BY <3>1, <1>b, <1>c
    <3>3. callTx[e] = t => n \notin todo[e]
      BY <3>1, <1>c
    <3> QED BY <2>2, <3>1, <3>2, <3>3, <1>e DEF CallsOK, ApplyingCalls
  <2> QED BY <2>1, <2>2
<1>7. RollingCalls'
  <2> SUFFICES ASSUME NEW e \in Call, pc'[e] = "rolling"
               PROVE  /\ callTx'[e] \in Tx
                      /\ state'[callTx'[e]] \in {"rolling-back", "failed", "rolled-back"}
                      /\ \A i \in todo'[e] : /\ i \in DOMAIN operations'[callTx'[e]]
                                             /\ operations'[callTx'[e]][i].state # "pending"
    BY DEF RollingCalls
  <2>1. e # c /\ pc[e] = "rolling" /\ callTx'[e] = callTx[e] /\ todo'[e] = todo[e]
    BY <1>e
  <2>2. callTx[e] \in Tx /\ state[callTx[e]] \in {"rolling-back", "failed", "rolled-back"}
    BY <2>1 DEF CallsOK, RollingCalls
  <2>3. callTx[e] # t /\ state'[callTx[e]] = state[callTx[e]]
    BY <2>2, <1>d DEF Open
  <2> QED BY <1>b, <2>1, <2>2, <2>3 DEF CallsOK, RollingCalls
<1>8. SnapshotCalls'
  BY <1>e DEF CallsOK, SnapshotCalls
<1>9. SettledWhenJudged'
  BY <1>b, <1>f DEF SettledWhenJudged, Unsettled
<1>10. CommitIsJudged'
  <2>1. \A u \in Tx : u # t => validations'[u] = validations[u]
    BY DEF TypeOK
  <2> QED BY <1>b, <1>f, <2>1 DEF CommitIsJudged
<1>11. FailedIsCandidate'
  <2> SUFFICES ASSUME NEW u \in Tx, NEW i \in DOMAIN operations'[u],
                      operations'[u][i].state = "failed"
               PROVE  operations'[u][i].compensation = "failed"
    BY DEF FailedIsCandidate, Candidates, Unresolved
  <2>1. i \in DOMAIN operations[u] /\ operations'[u][i] = operations[u][i]
    BY <1>b, <1>c DEF PendingOperation
  <2> QED BY <2>1 DEF FailedIsCandidate, Candidates, Unresolved
<1> QED BY <1>1, <1>2, <1>3, <1>4, <1>5, <1>6, <1>7, <1>8, <1>9, <1>10, <1>11 DEF CallsOK

\* A modify or a delete that reserves after its snapshot, without a new sweep.
LEMMA ReserveStep ==
  ASSUME IInv, NEW c \in Call, Reserve(c)
  PROVE  IInv'
<1> USE DEF IInv, Reserve
<1>1. callTx[c] \in Tx
  BY DEF CallsOK, SnapshotCalls
<1>2. state \in [Tx -> TransactionState \cup {"none"}]
  BY DEF TypeOK
<1>3. /\ state' \in [Tx -> TransactionState \cup {"none"}]
      /\ operations' \in [Tx -> Seq(Operation)]
      /\ validations' \in [Tx -> Verdict]
      /\ \A u \in Tx : Len(operations'[u]) <= MaxOperations[u]
      /\ CallsOK' /\ SettledWhenJudged' /\ CommitIsJudged' /\ FailedIsCandidate'
  BY <1>1, <1>2, ReserveEffect
<1>4. Len(operations[callTx[c]]) + 1 \in Nat
  BY <1>1 DEF TypeOK
<1>5. TypeOK'
  BY <1>1, <1>3, <1>4 DEF TypeOK, reserveOperation, Enter
<1>6. LockRefersToHolder'
  BY <1>1 DEF LockRefersToHolder, holdsDocumentLock, HoldsIn, reserveOperation, TypeOK
<1> QED BY <1>3, <1>5, <1>6

\* A create, which sweeps and reserves in one step.
LEMMA StartCreateStep ==
  ASSUME IInv, NEW c \in Call, NEW t \in Tx, StartCreate(c, t)
  PROVE  IInv'
<1> USE DEF IInv, StartCreate
<1>1. /\ state' \in [Tx -> TransactionState \cup {"none"}]
      /\ operations' \in [Tx -> Seq(Operation)]
      /\ validations' \in [Tx -> Verdict]
      /\ \A u \in Tx : Len(operations'[u]) <= MaxOperations[u]
      /\ CallsOK' /\ SettledWhenJudged' /\ CommitIsJudged' /\ FailedIsCandidate'
  <2>1. /\ StateNow \in [Tx -> TransactionState \cup {"none"}]
        /\ \A u \in Tx : \/ StateNow[u] = state[u]
                         \/ state[u] \in Open /\ StateNow[u] \in {"failed", "expired"}
    BY SweepStates
  <2>2. reserveOperation(StateNow, c, t) /\ seen' = seen
    OBVIOUS
  <2> QED BY <2>1, <2>2, ReserveEffect
<1>2. Len(operations[t]) + 1 \in Nat
  BY DEF TypeOK
<1>3. TypeOK'
  BY <1>1, <1>2, SweepStates DEF TypeOK, reserveOperation, Enter
<1>4. LockRefersToHolder'
  <2> SUFFICES ASSUME NEW e \in Doc, activeByDocument'[e] # NoTx
               PROVE  /\ document'[activeByDocument'[e]] = e
                      /\ HoldsIn(state', rollbackComplete', activeByDocument'[e])
    BY DEF LockRefersToHolder, holdsDocumentLock, HoldsIn
  <2>1. /\ LockNow[e] \in Tx
        /\ document[LockNow[e]] = e
        /\ HoldsIn(StateNow, CompleteNow, LockNow[e])
    BY SweepLocks, SweepStates
  <2> QED BY <2>1, SweepStates DEF HoldsIn, reserveOperation
<1> QED BY <1>1, <1>3, <1>4

-----------------------------------------------------------------------------
(* A reserved operation gets its outcome.                                  *)

\* A write in flight is settled, one way or the other, and its call returns.
LEMMA SettleEffect ==
  ASSUME IInv, NEW c \in Call, pc[c] = "applying", NEW i \in todo[c],
         NEW to \in {"applied", "cancelled", "failed"},
         NEW comp \in {"undefined", "not-needed", "restored", "failed"},
         to = "failed" => comp = "failed",
         SetOperation(callTx[c], i, to, comp), Return(c), validations' = validations,
         \A u \in Tx : state'[u] = state[u] \/ (u = callTx[c] /\ state'[u] = "failed")
  PROVE  /\ callTx[c] \in Tx /\ i \in DOMAIN operations[callTx[c]]
         /\ operations' \in [Tx -> Seq(Operation)]
         /\ \A u \in Tx : Len(operations'[u]) <= MaxOperations[u]
         /\ CallsOK' /\ SettledWhenJudged' /\ CommitIsJudged' /\ FailedIsCandidate'
<1>0. TypeOK /\ CallsOK /\ SettledWhenJudged /\ CommitIsJudged /\ FailedIsCandidate
  BY DEF IInv
<1> DEFINE t == callTx[c]
<1>1. /\ t \in Tx /\ i \in DOMAIN operations[t] /\ operations[t][i].state = "pending"
  BY <1>0 DEF CallsOK, ApplyingCalls
<1>2. /\ operations' \in [Tx -> Seq(Operation)]
      /\ \A u \in Tx : DOMAIN operations'[u] = DOMAIN operations[u]
      /\ \A u \in Tx : Len(operations'[u]) = Len(operations[u])
      /\ \A u \in Tx : u # t => operations'[u] = operations[u]
      /\ \A j \in DOMAIN operations[t] :
           operations'[t][j] = IF j = i THEN [state |-> to, compensation |-> comp]
                                        ELSE operations[t][j]
  BY <1>0, <1>1, SetOperationEffect
<1>a. \A j \in DOMAIN operations[t] :
        /\ operations'[t][j].state = IF j = i THEN to ELSE operations[t][j].state
        /\ operations'[t][j].compensation = IF j = i THEN comp ELSE operations[t][j].compensation
  BY <1>2
<1>3. state[t] \notin {"validating", "validated", "committed"}
  BY <1>0, <1>1 DEF SettledWhenJudged, Unsettled
<1>4. /\ pc'[c] = "idle"
      /\ \A e \in Call : e # c => /\ pc'[e] = pc[e] /\ callTx'[e] = callTx[e]
                                  /\ todo'[e] = todo[e] /\ seen'[e] = seen[e]
  BY <1>0 DEF Return, TypeOK
<1>5. ValidatingCalls'
  <2> SUFFICES ASSUME NEW e \in Call, pc'[e] = "validating"
               PROVE  /\ callTx'[e] \in Tx
                      /\ state'[callTx'[e]] = "validating"
                      /\ seen'[e] = operations'[callTx'[e]]
                      /\ \A f \in Call : pc'[f] = "validating" /\ callTx'[f] = callTx'[e] => f = e
    BY DEF ValidatingCalls
  <2>1. e # c /\ pc[e] = "validating" /\ callTx'[e] = callTx[e] /\ seen'[e] = seen[e]
    BY <1>4
  <2>2. /\ callTx[e] \in Tx /\ state[callTx[e]] = "validating"
        /\ seen[e] = operations[callTx[e]]
        /\ \A f \in Call : pc[f] = "validating" /\ callTx[f] = callTx[e] => f = e
    BY <1>0, <2>1 DEF CallsOK, ValidatingCalls
  <2>3. callTx[e] # t
    BY <1>3, <2>2
  <2>4. state'[callTx[e]] = state[callTx[e]] /\ operations'[callTx[e]] = operations[callTx[e]]
    BY <1>2, <2>2, <2>3
  <2>5. \A f \in Call : pc'[f] = "validating" /\ callTx'[f] = callTx'[e] => f = e
    BY <1>4, <2>1, <2>2
  <2> QED BY <2>1, <2>2, <2>4, <2>5
<1>6. ApplyingCalls'
  <2> SUFFICES ASSUME NEW e \in Call, pc'[e] = "applying"
               PROVE  /\ callTx'[e] \in Tx
                      /\ \A j \in todo'[e] : /\ j \in DOMAIN operations'[callTx'[e]]
                                             /\ operations'[callTx'[e]][j].state = "pending"
                      /\ \A f \in Call : pc'[f] = "applying" /\ callTx'[f] = callTx'[e] /\ f # e =>
                                           todo'[f] \cap todo'[e] = {}
    BY DEF ApplyingCalls
  <2>1. e # c /\ pc[e] = "applying" /\ callTx'[e] = callTx[e] /\ todo'[e] = todo[e]
    BY <1>4
  <2>2. /\ callTx[e] \in Tx
        /\ \A j \in todo[e] : /\ j \in DOMAIN operations[callTx[e]]
                              /\ operations[callTx[e]][j].state = "pending"
        /\ \A f \in Call : pc[f] = "applying" /\ callTx[f] = callTx[e] /\ f # e =>
                             todo[f] \cap todo[e] = {}
    BY <1>0, <2>1 DEF CallsOK, ApplyingCalls
  <2>3. callTx[e] = t => i \notin todo[e]
    BY <2>1, <2>2
  <2>4. \A j \in todo[e] : /\ j \in DOMAIN operations'[callTx[e]]
                           /\ operations'[callTx[e]][j] = operations[callTx[e]][j]
    BY <1>2, <2>2, <2>3
  <2>5. \A f \in Call : pc'[f] = "applying" /\ callTx'[f] = callTx'[e] /\ f # e =>
                          todo'[f] \cap todo'[e] = {}
    BY <1>4, <2>1, <2>2
  <2> QED BY <2>1, <2>2, <2>4, <2>5
<1>7. RollingCalls'
  <2> SUFFICES ASSUME NEW e \in Call, pc'[e] = "rolling"
               PROVE  /\ callTx'[e] \in Tx
                      /\ state'[callTx'[e]] \in {"rolling-back", "failed", "rolled-back"}
                      /\ \A j \in todo'[e] : /\ j \in DOMAIN operations'[callTx'[e]]
                                             /\ operations'[callTx'[e]][j].state # "pending"
    BY DEF RollingCalls
  <2>1. e # c /\ pc[e] = "rolling" /\ callTx'[e] = callTx[e] /\ todo'[e] = todo[e]
    BY <1>4
  <2>2. /\ callTx[e] \in Tx
        /\ state[callTx[e]] \in {"rolling-back", "failed", "rolled-back"}
        /\ \A j \in todo[e] : /\ j \in DOMAIN operations[callTx[e]]
                              /\ operations[callTx[e]][j].state # "pending"
    BY <1>0, <2>1 DEF CallsOK, RollingCalls
  <2>3. state'[callTx[e]] \in {"rolling-back", "failed", "rolled-back"}
    BY <2>2
  <2>4. \A j \in todo[e] : /\ j \in DOMAIN operations'[callTx[e]]
                           /\ operations'[callTx[e]][j].state # "pending"
    <3> SUFFICES ASSUME NEW j \in todo[e]
                 PROVE  /\ j \in DOMAIN operations'[callTx[e]]
                        /\ operations'[callTx[e]][j].state # "pending"
      OBVIOUS
    <3>1. CASE callTx[e] = t
      BY <1>2, <1>a, <2>2, <3>1
    <3>2. CASE callTx[e] # t
      BY <1>2, <2>2, <3>2
    <3> QED BY <3>1, <3>2
  <2> QED BY <2>1, <2>2, <2>3, <2>4
<1>8. SnapshotCalls'
  BY <1>0, <1>4 DEF CallsOK, SnapshotCalls
<1>b. \A u \in Tx : state'[u] \in {"validating", "validated", "committed"} =>
                      state'[u] = state[u] /\ operations'[u] = operations[u]
  BY <1>2, <1>3
<1>9. SettledWhenJudged' /\ CommitIsJudged'
  BY <1>0, <1>b DEF SettledWhenJudged, Unsettled, CommitIsJudged
<1>10. FailedIsCandidate'
  <2> SUFFICES ASSUME NEW u \in Tx, NEW j \in DOMAIN operations'[u],
                      operations'[u][j].state = "failed"
               PROVE  operations'[u][j].compensation = "failed"
    BY DEF FailedIsCandidate, Candidates, Unresolved
  <2>1. j \in DOMAIN operations[u] /\ (operations[u][j].state = "failed" =>
                                         operations[u][j].compensation = "failed")
    BY <1>0, <1>2 DEF FailedIsCandidate, Candidates, Unresolved
  <2>2. CASE u = t
    BY <1>a, <2>1, <2>2
  <2>3. CASE u # t
    BY <1>2, <2>1, <2>3
  <2> QED BY <2>2, <2>3
<1>11. \A u \in Tx : Len(operations'[u]) <= MaxOperations[u]
  BY <1>0, <1>2 DEF TypeOK
<1> QED BY <1>1, <1>2, <1>5, <1>6, <1>7, <1>8, <1>9, <1>10, <1>11 DEF CallsOK

\* The write succeeded.
LEMMA AppliedStep ==
  ASSUME IInv, NEW c \in Call, Applied(c)
  PROVE  IInv'
<1> USE DEF IInv
<1>1. PICK i \in todo[c] :
        /\ pc[c] = "applying"
        /\ SetOperation(callTx[c], i, "applied", operations[callTx[c]][i].compensation)
        /\ Return(c)
        /\ UNCHANGED <<state, document, overdue, rollbackComplete, validations,
                       activeByDocument>>
  BY DEF Applied
<1>2. operations[callTx[c]][i].compensation \in {"undefined", "not-needed", "restored", "failed"}
  <2>1. callTx[c] \in Tx /\ i \in DOMAIN operations[callTx[c]]
    BY <1>1 DEF CallsOK, ApplyingCalls
  <2>2. operations[callTx[c]][i] \in Operation
    BY <2>1 DEF TypeOK
  <2> QED BY <2>2 DEF Operation
<1>3. /\ operations' \in [Tx -> Seq(Operation)]
      /\ \A u \in Tx : Len(operations'[u]) <= MaxOperations[u]
      /\ CallsOK' /\ SettledWhenJudged' /\ CommitIsJudged' /\ FailedIsCandidate'
  BY <1>1, <1>2, SettleEffect
<1>4. TypeOK'
  BY <1>1, <1>3 DEF TypeOK, Return
<1>5. LockRefersToHolder'
  BY <1>1 DEF LockRefersToHolder, holdsDocumentLock, HoldsIn
<1> QED BY <1>3, <1>4, <1>5

\* The write failed and left nothing behind.
LEMMA CompensatedStep ==
  ASSUME IInv, NEW c \in Call, NEW comp \in {"not-needed", "restored"}, Compensated(c, comp)
  PROVE  IInv'
<1> USE DEF IInv
<1>1. PICK i \in todo[c] :
        /\ pc[c] = "applying"
        /\ SetOperation(callTx[c], i, "cancelled", comp)
        /\ Return(c)
        /\ UNCHANGED <<state, document, overdue, rollbackComplete, validations,
                       activeByDocument>>
  BY DEF Compensated
<1>2. /\ operations' \in [Tx -> Seq(Operation)]
      /\ \A u \in Tx : Len(operations'[u]) <= MaxOperations[u]
      /\ CallsOK' /\ SettledWhenJudged' /\ CommitIsJudged' /\ FailedIsCandidate'
  BY <1>1, SettleEffect
<1>3. TypeOK'
  BY <1>1, <1>2 DEF TypeOK, Return
<1>4. LockRefersToHolder'
  BY <1>1 DEF LockRefersToHolder, holdsDocumentLock, HoldsIn
<1> QED BY <1>2, <1>3, <1>4

\* The write and its compensation failed: the lock is taken without a look.
LEMMA failTransactionStep ==
  ASSUME IInv, NEW c \in Call, failTransaction(c)
  PROVE  IInv'
<1> DEFINE t == callTx[c]
<1>0. TypeOK /\ LockRefersToHolder
  BY DEF IInv
<1>1. PICK i \in todo[c] :
        /\ pc[c] = "applying"
        /\ SetOperation(t, i, "failed", "failed")
        /\ state' = [state EXCEPT ![t] = "failed"]
        /\ rollbackComplete' = [rollbackComplete EXCEPT ![t] = "no"]
        /\ activeByDocument' = [activeByDocument EXCEPT ![document[t]] = t]
        /\ Return(c)
        /\ UNCHANGED <<document, overdue, validations>>
  BY DEF failTransaction
<1>2. \A u \in Tx : state'[u] = state[u] \/ (u = t /\ state'[u] = "failed")
  BY <1>0, <1>1 DEF TypeOK
<1>3. /\ t \in Tx
      /\ operations' \in [Tx -> Seq(Operation)]
      /\ \A u \in Tx : Len(operations'[u]) <= MaxOperations[u]
      /\ CallsOK' /\ SettledWhenJudged' /\ CommitIsJudged' /\ FailedIsCandidate'
  BY <1>1, <1>2, SettleEffect
<1>4. TypeOK'
  <2>1. /\ state' \in [Tx -> TransactionState \cup {"none"}]
        /\ rollbackComplete' \in [Tx -> {"undefined", "yes", "no"}]
        /\ activeByDocument' \in [Doc -> Tx \cup {NoTx}]
    BY <1>0, <1>1, <1>3 DEF TypeOK, TransactionState
  <2>2. /\ pc' \in [Call -> {"idle", "snapshot", "applying", "validating", "rolling"}]
        /\ callTx' \in [Call -> Tx \cup {NoTx}] /\ todo' \in [Call -> SUBSET Nat]
        /\ clean' \in [Call -> BOOLEAN] /\ seen' \in [Call -> Seq(Operation)]
    BY <1>0, <1>1 DEF TypeOK, Return
  <2> QED BY <1>0, <1>1, <1>3, <2>1, <2>2 DEF TypeOK
<1>5. LockRefersToHolder'
  <2> SUFFICES ASSUME NEW d \in Doc, activeByDocument'[d] # NoTx
               PROVE  /\ document'[activeByDocument'[d]] = d
                      /\ HoldsIn(state', rollbackComplete', activeByDocument'[d])
    BY DEF LockRefersToHolder, holdsDocumentLock, HoldsIn
  <2>1. HoldsIn(state', rollbackComplete', t)
    BY <1>0, <1>1, <1>3 DEF TypeOK, HoldsIn
  <2>2. CASE document[t] = d
    BY <1>0, <1>1, <2>1, <2>2 DEF TypeOK
  <2>3. CASE document[t] # d
    <3>1. activeByDocument'[d] = activeByDocument[d]
      BY <1>0, <1>1, <2>3 DEF TypeOK
    <3>2. /\ activeByDocument[d] \in Tx
          /\ document[activeByDocument[d]] = d
          /\ HoldsIn(state, rollbackComplete, activeByDocument[d])
      BY <1>0, <3>1 DEF TypeOK, LockRefersToHolder, holdsDocumentLock
    <3>3. activeByDocument[d] # t
      BY <2>3, <3>2
    <3> QED BY <1>0, <1>1, <3>1, <3>2, <3>3 DEF TypeOK, HoldsIn
  <2> QED BY <2>2, <2>3
<1> QED BY <1>3, <1>4, <1>5 DEF IInv

\* Calls that return without touching a transaction.
LEMMA ReserveRefusedStep ==
  ASSUME IInv, NEW c \in Call, ReserveRefused(c)
  PROVE  IInv'
<1> USE DEF IInv, ReserveRefused, txVars
<1>1. TypeOK'
  BY DEF TypeOK, Return
<1>2. /\ pc'[c] = "idle"
      /\ \A e \in Call : e # c => /\ pc'[e] = pc[e] /\ callTx'[e] = callTx[e]
                                  /\ todo'[e] = todo[e] /\ seen'[e] = seen[e]
  BY DEF Return, TypeOK
<1>3. ValidatingCalls'
  BY <1>2 DEF CallsOK, ValidatingCalls
<1>4. ApplyingCalls'
  BY <1>2 DEF CallsOK, ApplyingCalls
<1>5. RollingCalls'
  BY <1>2 DEF CallsOK, RollingCalls
<1>6. SnapshotCalls'
  BY <1>2 DEF CallsOK, SnapshotCalls
<1>7. SettledWhenJudged' /\ CommitIsJudged'
  BY DEF SettledWhenJudged, Unsettled, CommitIsJudged
<1>8. LockRefersToHolder'
  BY DEF LockRefersToHolder, holdsDocumentLock, HoldsIn
<1> QED BY <1>1, <1>3, <1>4, <1>5, <1>6, <1>7, <1>8, FailedKept DEF CallsOK

-----------------------------------------------------------------------------
(* validate and commit.                                                    *)

\* validate up to its gates.
LEMMA StartValidateStep ==
  ASSUME IInv, NEW c \in Call, NEW t \in Tx, StartValidate(c, t)
  PROVE  IInv'
<1> USE DEF StartValidate
<1>0. TypeOK /\ CallsOK /\ SettledWhenJudged /\ CommitIsJudged /\ FailedIsCandidate /\ LockRefersToHolder
  BY DEF IInv
<1>1. state[t] \in Open /\ state'[t] = "validating"
  BY <1>0, SweepStates DEF Open
<1>2. \A u \in Tx : u # t => \/ state'[u] = state[u]
                             \/ state[u] \in Open /\ state'[u] \in {"failed", "expired"}
  BY <1>0, SweepStates
<1>3. /\ pc'[c] = "validating" /\ callTx'[c] = t /\ todo'[c] = {} /\ seen'[c] = operations[t]
      /\ \A e \in Call : e # c => /\ pc'[e] = pc[e] /\ callTx'[e] = callTx[e]
                                  /\ todo'[e] = todo[e] /\ seen'[e] = seen[e]
  BY <1>0 DEF Enter, TypeOK
<1>4. TypeOK'
  BY <1>0, SweepStates DEF TypeOK, Enter, TransactionState
<1>5. ValidatingCalls'
  <2>1. \A e \in Call : pc[e] = "validating" => callTx[e] # t
    BY <1>0, <1>1 DEF CallsOK, ValidatingCalls, Open
  <2> QED BY <1>0, <1>1, <1>2, <1>3, <2>1 DEF CallsOK, ValidatingCalls, Open
<1>6. ApplyingCalls'
  BY <1>0, <1>3 DEF CallsOK, ApplyingCalls
<1>7. RollingCalls'
  <2>1. \A e \in Call : pc[e] = "rolling" => callTx[e] # t
    BY <1>0, <1>1 DEF CallsOK, RollingCalls, Open
  <2> QED BY <1>0, <1>2, <1>3, <2>1 DEF CallsOK, RollingCalls, Open
<1>8. SnapshotCalls'
  BY <1>0, <1>3 DEF CallsOK, SnapshotCalls
<1>9. SettledWhenJudged'
  BY <1>0, <1>2 DEF SettledWhenJudged, Unsettled
<1>10. CommitIsJudged'
  BY <1>0, <1>1, <1>2 DEF CommitIsJudged
<1>11. LockRefersToHolder'
  <2> SUFFICES ASSUME NEW e \in Doc, activeByDocument'[e] # NoTx
               PROVE  /\ document'[activeByDocument'[e]] = e
                      /\ HoldsIn(state', rollbackComplete', activeByDocument'[e])
    BY DEF LockRefersToHolder, holdsDocumentLock, HoldsIn
  <2>1. /\ LockNow[e] \in Tx
        /\ document[LockNow[e]] = e
        /\ HoldsIn(StateNow, CompleteNow, LockNow[e])
    BY <1>0, SweepLocks, SweepStates
  <2> QED BY <1>0, <2>1, SweepStates DEF HoldsIn
<1> QED BY <1>0, <1>4, <1>5, <1>6, <1>7, <1>8, <1>9, <1>10, <1>11, FailedKept DEF IInv, CallsOK

\* The gates have ended; nothing moved the transaction meanwhile.
LEMMA FinishValidateStep ==
  ASSUME IInv, NEW c \in Call, NEW passed \in BOOLEAN, FinishValidate(c, passed)
  PROVE  IInv'
<1> USE DEF FinishValidate
<1> DEFINE t == callTx[c]
<1>0. TypeOK /\ CallsOK /\ SettledWhenJudged /\ CommitIsJudged /\ FailedIsCandidate /\ LockRefersToHolder
  BY DEF IInv
<1>1. /\ t \in Tx /\ state[t] = "validating" /\ seen[c] = operations[t]
      /\ \A e \in Call : pc[e] = "validating" /\ callTx[e] = t => e = c
  BY <1>0 DEF CallsOK, ValidatingCalls
<1>2. /\ state'[t] = IF passed THEN "validated" ELSE "active"
      /\ \A u \in Tx : u # t => state'[u] = state[u]
  BY <1>0, <1>1 DEF TypeOK
<1>3. /\ pc'[c] = "idle"
      /\ \A e \in Call : e # c => /\ pc'[e] = pc[e] /\ callTx'[e] = callTx[e]
                                  /\ todo'[e] = todo[e] /\ seen'[e] = seen[e]
  BY <1>0 DEF Return, TypeOK
<1>4. TypeOK'
  <2>1. [passed |-> passed, judged |-> seen[c]] \in Verdict
    BY <1>0 DEF TypeOK, Verdict
  <2>2. state' \in [Tx -> TransactionState \cup {"none"}] /\ validations' \in [Tx -> Verdict]
    BY <1>0, <2>1 DEF TypeOK, TransactionState
  <2> QED BY <1>0, <2>2 DEF TypeOK, Return
<1>5. ValidatingCalls'
  BY <1>0, <1>1, <1>2, <1>3 DEF CallsOK, ValidatingCalls
<1>6. ApplyingCalls'
  BY <1>0, <1>3 DEF CallsOK, ApplyingCalls
<1>7. RollingCalls'
  <2>1. \A e \in Call : pc[e] = "rolling" => callTx[e] # t
    BY <1>0, <1>1 DEF CallsOK, RollingCalls
  <2> QED BY <1>0, <1>2, <1>3, <2>1 DEF CallsOK, RollingCalls
<1>8. SnapshotCalls'
  BY <1>0, <1>3 DEF CallsOK, SnapshotCalls
<1>9. SettledWhenJudged'
  BY <1>0, <1>1, <1>2 DEF SettledWhenJudged, Unsettled
<1>10. CommitIsJudged'
  <2>1. validations'[t] = [passed |-> passed, judged |-> operations[t]]
    BY <1>0, <1>1 DEF TypeOK
  <2>2. \A u \in Tx : u # t => validations'[u] = validations[u]
    BY <1>0 DEF TypeOK
  <2> QED BY <1>0, <1>2, <2>1, <2>2 DEF CommitIsJudged
<1>11. LockRefersToHolder'
  BY <1>0, <1>1, <1>2 DEF LockRefersToHolder, holdsDocumentLock, HoldsIn, TypeOK
<1> QED BY <1>0, <1>4, <1>5, <1>6, <1>7, <1>8, <1>9, <1>10, <1>11, FailedKept DEF IInv, CallsOK

\* commit.
LEMMA CommitStep ==
  ASSUME IInv, NEW t \in Tx, Commit(t)
  PROVE  IInv'
<1> USE DEF Commit, callVars
<1>0. TypeOK /\ CallsOK /\ SettledWhenJudged /\ CommitIsJudged /\ FailedIsCandidate /\ LockRefersToHolder
  BY DEF IInv
<1>1. state[t] = "validated" /\ state'[t] = "committed"
  BY <1>0, SweepStates
<1>2. \A u \in Tx : u # t => \/ state'[u] = state[u]
                             \/ state[u] \in Open /\ state'[u] \in {"failed", "expired"}
  BY <1>0, SweepStates
<1>3. TypeOK'
  BY <1>0, SweepStates DEF TypeOK, TransactionState, NoTx
<1>4. \A u \in Tx : state'[u] = state[u] \/ state[u] \in {"none", "active", "validated"}
  BY <1>1, <1>2 DEF Open
<1>5. CallsOK'
  <2>1. SnapshotCalls'
    BY <1>0 DEF CallsOK, SnapshotCalls
  <2> QED BY <1>4, <2>1, SweepKeepsCalls DEF CallsOK
<1>6. SettledWhenJudged'
  BY <1>0, <1>1, <1>2 DEF SettledWhenJudged, Unsettled
<1>7. CommitIsJudged'
  BY <1>0, <1>1, <1>2 DEF CommitIsJudged
<1>8. LockRefersToHolder'
  <2> SUFFICES ASSUME NEW e \in Doc, activeByDocument'[e] # NoTx
               PROVE  /\ document'[activeByDocument'[e]] = e
                      /\ HoldsIn(state', rollbackComplete', activeByDocument'[e])
    BY DEF LockRefersToHolder, holdsDocumentLock, HoldsIn
  <2>1. activeByDocument'[e] = LockNow[e] /\ e # document[t]
    BY <1>0, SweepStates
  <2>2. /\ LockNow[e] \in Tx
        /\ document[LockNow[e]] = e
        /\ HoldsIn(StateNow, CompleteNow, LockNow[e])
    BY <1>0, <2>1, SweepLocks, SweepStates
  <2> QED BY <1>0, <2>1, <2>2, SweepStates DEF HoldsIn
<1> QED BY <1>0, <1>3, <1>5, <1>6, <1>7, <1>8, FailedKept DEF IInv

-----------------------------------------------------------------------------
(* rollback.                                                               *)

\* A rollback with nothing to restore.
LEMMA RollbackNothingStep ==
  ASSUME IInv, NEW t \in Tx, RollbackNothing(t)
  PROVE  IInv'
<1> USE DEF RollbackNothing, MayRollBack, finalizeRollback, callVars
<1>0. TypeOK /\ CallsOK /\ SettledWhenJudged /\ CommitIsJudged /\ FailedIsCandidate /\ LockRefersToHolder
  BY DEF IInv
<1>1. state'[t] = "rolled-back" /\ state[t] # "validating"
  BY <1>0, SweepStates DEF Open
<1>2. \A u \in Tx : u # t => \/ state'[u] = state[u]
                             \/ state[u] \in Open /\ state'[u] \in {"failed", "expired"}
  BY <1>0, SweepStates
<1>3. TypeOK'
  BY <1>0, SweepStates DEF TypeOK, TransactionState, NoTx
<1>4. ValidatingCalls'
  BY <1>0, <1>1, <1>2 DEF CallsOK, ValidatingCalls, Open
<1>5. ApplyingCalls' /\ SnapshotCalls'
  BY <1>0 DEF CallsOK, ApplyingCalls, SnapshotCalls
<1>6. RollingCalls'
  BY <1>0, <1>1, <1>2 DEF CallsOK, RollingCalls, Open
<1>7. SettledWhenJudged'
  BY <1>0, <1>1, <1>2 DEF SettledWhenJudged, Unsettled
<1>8. CommitIsJudged'
  BY <1>0, <1>1, <1>2 DEF CommitIsJudged
<1>9. LockRefersToHolder'
  <2> SUFFICES ASSUME NEW e \in Doc, activeByDocument'[e] # NoTx
               PROVE  /\ document'[activeByDocument'[e]] = e
                      /\ HoldsIn(state', rollbackComplete', activeByDocument'[e])
    BY DEF LockRefersToHolder, holdsDocumentLock, HoldsIn
  <2>1. activeByDocument'[e] = LockNow[e] /\ e # document[t]
    BY <1>0, SweepStates
  <2>2. /\ LockNow[e] \in Tx
        /\ document[LockNow[e]] = e
        /\ HoldsIn(StateNow, CompleteNow, LockNow[e])
    BY <1>0, <2>1, SweepLocks, SweepStates
  <2> QED BY <1>0, <2>1, <2>2, SweepStates DEF HoldsIn
<1> QED BY <1>0, <1>3, <1>4, <1>5, <1>6, <1>7, <1>8, <1>9, FailedKept DEF IInv, CallsOK

\* A rollback up to its first restore.
LEMMA StartRollbackStep ==
  ASSUME IInv, NEW c \in Call, NEW t \in Tx, StartRollback(c, t)
  PROVE  IInv'
<1> USE DEF StartRollback, MayRollBack
<1>0. TypeOK /\ CallsOK /\ SettledWhenJudged /\ CommitIsJudged /\ FailedIsCandidate /\ LockRefersToHolder
  BY DEF IInv
<1>1. state'[t] = "rolling-back" /\ state[t] # "validating"
  BY <1>0, SweepStates DEF Open
<1>2. \A u \in Tx : u # t => \/ state'[u] = state[u]
                             \/ state[u] \in Open /\ state'[u] \in {"failed", "expired"}
  BY <1>0, SweepStates
<1>3. /\ pc'[c] = "rolling" /\ callTx'[c] = t /\ todo'[c] = Candidates(t)
      /\ \A e \in Call : e # c => /\ pc'[e] = pc[e] /\ callTx'[e] = callTx[e]
                                  /\ todo'[e] = todo[e] /\ seen'[e] = seen[e]
  BY <1>0 DEF Enter, TypeOK
<1>4. /\ Candidates(t) \subseteq DOMAIN operations[t]
      /\ \A i \in Candidates(t) : operations[t][i].state # "pending"
  BY DEF Candidates, Unresolved
<1>5. TypeOK'
  <2>1. Candidates(t) \in SUBSET Nat
    BY <1>0, <1>4 DEF TypeOK
  <2> QED BY <1>0, <2>1, SweepStates DEF TypeOK, Enter, TransactionState
<1>6. ValidatingCalls'
  BY <1>0, <1>1, <1>2, <1>3 DEF CallsOK, ValidatingCalls, Open
<1>7. ApplyingCalls'
  BY <1>0, <1>3 DEF CallsOK, ApplyingCalls
<1>8. RollingCalls'
  BY <1>0, <1>1, <1>2, <1>3, <1>4 DEF CallsOK, RollingCalls, Open
<1>9. SnapshotCalls'
  BY <1>0, <1>3 DEF CallsOK, SnapshotCalls
<1>10. SettledWhenJudged'
  BY <1>0, <1>1, <1>2 DEF SettledWhenJudged, Unsettled
<1>11. CommitIsJudged'
  BY <1>0, <1>1, <1>2 DEF CommitIsJudged
<1>12. LockRefersToHolder'
  <2> SUFFICES ASSUME NEW e \in Doc, activeByDocument'[e] # NoTx
               PROVE  /\ document'[activeByDocument'[e]] = e
                      /\ HoldsIn(state', rollbackComplete', activeByDocument'[e])
    BY DEF LockRefersToHolder, holdsDocumentLock, HoldsIn
  <2>1. /\ LockNow[e] \in Tx
        /\ document[LockNow[e]] = e
        /\ HoldsIn(StateNow, CompleteNow, LockNow[e])
    BY <1>0, SweepLocks, SweepStates
  <2> QED BY <1>0, <2>1, SweepStates DEF HoldsIn
<1> QED BY <1>0, <1>5, <1>6, <1>7, <1>8, <1>9, <1>10, <1>11, <1>12, FailedKept DEF IInv, CallsOK

\* One operation of a rollback is attempted.
LEMMA RestoreOperationStep ==
  ASSUME IInv, NEW c \in Call, NEW restored \in BOOLEAN, RestoreOperation(c, restored)
  PROVE  IInv'
<1> DEFINE t == callTx[c]
<1>0. TypeOK /\ CallsOK /\ SettledWhenJudged /\ CommitIsJudged /\ FailedIsCandidate /\ LockRefersToHolder
  BY DEF IInv
<1>1. /\ pc[c] = "rolling"
      /\ UNCHANGED <<state, document, overdue, rollbackComplete, validations,
                     activeByDocument, pc, callTx, seen>>
      /\ clean' = [clean EXCEPT ![c] = @ /\ restored]
  BY DEF RestoreOperation
<1>2. PICK i \in todo[c] :
        \E to \in {"rolled-back", "failed"} : \E comp \in {"restored", "failed"} :
          /\ to = "failed" => comp = "failed"
          /\ SetOperation(t, i, to, comp)
          /\ todo' = [todo EXCEPT ![c] = @ \ {i}]
  BY DEF RestoreOperation
<1>3. PICK to \in {"rolled-back", "failed"}, comp \in {"restored", "failed"} :
          /\ to = "failed" => comp = "failed"
          /\ SetOperation(t, i, to, comp)
          /\ todo' = [todo EXCEPT ![c] = @ \ {i}]
  BY <1>2
<1>4. /\ t \in Tx /\ i \in DOMAIN operations[t] /\ operations[t][i].state # "pending"
      /\ state[t] \in {"rolling-back", "failed", "rolled-back"}
  BY <1>0, <1>1 DEF CallsOK, RollingCalls
<1>5. /\ operations' \in [Tx -> Seq(Operation)]
      /\ \A u \in Tx : DOMAIN operations'[u] = DOMAIN operations[u]
      /\ \A u \in Tx : Len(operations'[u]) = Len(operations[u])
      /\ \A u \in Tx : u # t => operations'[u] = operations[u]
      /\ \A j \in DOMAIN operations[t] :
           operations'[t][j] = IF j = i THEN [state |-> to, compensation |-> comp]
                                        ELSE operations[t][j]
  BY <1>0, <1>3, <1>4, SetOperationEffect
<1>6. \A j \in DOMAIN operations[t] :
        /\ operations'[t][j].state = IF j = i THEN to ELSE operations[t][j].state
        /\ operations'[t][j].compensation = IF j = i THEN comp ELSE operations[t][j].compensation
  BY <1>5
<1>7. \A e \in Call : todo'[e] \subseteq todo[e] /\ (e # c => todo'[e] = todo[e])
  BY <1>0, <1>3 DEF TypeOK
<1>8. TypeOK'
  <2>1. todo' \in [Call -> SUBSET Nat] /\ clean' \in [Call -> BOOLEAN]
    BY <1>0, <1>1, <1>3 DEF TypeOK
  <2>2. \A u \in Tx : Len(operations'[u]) <= MaxOperations[u]
    BY <1>0, <1>5 DEF TypeOK
  <2> QED BY <1>0, <1>1, <1>5, <2>1, <2>2 DEF TypeOK
<1>9. ValidatingCalls'
  BY <1>0, <1>1, <1>4, <1>5 DEF CallsOK, ValidatingCalls
<1>10. ApplyingCalls'
  <2> SUFFICES ASSUME NEW e \in Call, pc[e] = "applying"
               PROVE  /\ callTx[e] \in Tx
                      /\ \A j \in todo'[e] : /\ j \in DOMAIN operations'[callTx[e]]
                                             /\ operations'[callTx[e]][j].state = "pending"
                      /\ \A f \in Call : pc[f] = "applying" /\ callTx[f] = callTx[e] /\ f # e =>
                                           todo'[f] \cap todo'[e] = {}
    BY <1>1 DEF ApplyingCalls
  <2>1. /\ callTx[e] \in Tx
        /\ \A j \in todo[e] : /\ j \in DOMAIN operations[callTx[e]]
                              /\ operations[callTx[e]][j].state = "pending"
        /\ \A f \in Call : pc[f] = "applying" /\ callTx[f] = callTx[e] /\ f # e =>
                             todo[f] \cap todo[e] = {}
    BY <1>0 DEF CallsOK, ApplyingCalls
  <2>2. callTx[e] = t => i \notin todo[e]
    BY <1>4, <2>1
  <2>3. \A j \in todo[e] : /\ j \in DOMAIN operations'[callTx[e]]
                           /\ operations'[callTx[e]][j] = operations[callTx[e]][j]
    BY <1>5, <2>1, <2>2
  <2> QED BY <1>7, <2>1, <2>3
<1>11. RollingCalls'
  <2> SUFFICES ASSUME NEW e \in Call, pc[e] = "rolling"
               PROVE  /\ callTx[e] \in Tx
                      /\ state[callTx[e]] \in {"rolling-back", "failed", "rolled-back"}
                      /\ \A j \in todo'[e] : /\ j \in DOMAIN operations'[callTx[e]]
                                             /\ operations'[callTx[e]][j].state # "pending"
    BY <1>1 DEF RollingCalls
  <2>1. /\ callTx[e] \in Tx
        /\ state[callTx[e]] \in {"rolling-back", "failed", "rolled-back"}
        /\ \A j \in todo[e] : /\ j \in DOMAIN operations[callTx[e]]
                              /\ operations[callTx[e]][j].state # "pending"
    BY <1>0 DEF CallsOK, RollingCalls
  <2>2. \A j \in todo[e] : /\ j \in DOMAIN operations'[callTx[e]]
                           /\ operations'[callTx[e]][j].state # "pending"
    <3>1. CASE callTx[e] = t
      BY <1>5, <1>6, <2>1, <3>1
    <3>2. CASE callTx[e] # t
      BY <1>5, <2>1, <3>2
    <3> QED BY <3>1, <3>2
  <2> QED BY <1>7, <2>1, <2>2
<1>12. SnapshotCalls'
  BY <1>0, <1>1 DEF CallsOK, SnapshotCalls
<1>13. \A u \in Tx : state'[u] \in {"validating", "validated", "committed"} =>
                       state'[u] = state[u] /\ operations'[u] = operations[u]
  BY <1>1, <1>4, <1>5
<1>14. SettledWhenJudged' /\ CommitIsJudged'
  BY <1>0, <1>1, <1>13 DEF SettledWhenJudged, Unsettled, CommitIsJudged
<1>15. FailedIsCandidate'
  <2> SUFFICES ASSUME NEW u \in Tx, NEW j \in DOMAIN operations'[u],
                      operations'[u][j].state = "failed"
               PROVE  operations'[u][j].compensation = "failed"
    BY DEF FailedIsCandidate, Candidates, Unresolved
  <2>1. j \in DOMAIN operations[u] /\ (operations[u][j].state = "failed" =>
                                         operations[u][j].compensation = "failed")
    BY <1>0, <1>5 DEF FailedIsCandidate, Candidates, Unresolved
  <2>2. CASE u = t
    BY <1>3, <1>6, <2>1, <2>2
  <2>3. CASE u # t
    BY <1>5, <2>1, <2>3
  <2> QED BY <2>2, <2>3
<1>16. LockRefersToHolder'
  BY <1>0, <1>1 DEF LockRefersToHolder, holdsDocumentLock, HoldsIn
<1> QED BY <1>8, <1>9, <1>10, <1>11, <1>12, <1>14, <1>15, <1>16 DEF IInv, CallsOK

\* The last write of a rollback: whoever held the lock, afterwards nobody does
\* or the transaction that was rolled back in part.
LEMMA FinishRollbackStep ==
  ASSUME IInv, NEW c \in Call, FinishRollback(c)
  PROVE  IInv'
<1> DEFINE t == callTx[c]
<1> USE DEF FinishRollback, finalizeRollback
<1>0. TypeOK /\ CallsOK /\ SettledWhenJudged /\ CommitIsJudged /\ FailedIsCandidate /\ LockRefersToHolder
  BY DEF IInv
<1>1. t \in Tx /\ state[t] \in {"rolling-back", "failed", "rolled-back"}
  BY <1>0 DEF CallsOK, RollingCalls
<1>2. /\ state'[t] \in {"failed", "rolled-back"}
      /\ \A u \in Tx : u # t => state'[u] = state[u]
  BY <1>0, <1>1 DEF TypeOK
<1>3. /\ pc'[c] = "idle"
      /\ \A e \in Call : e # c => /\ pc'[e] = pc[e] /\ callTx'[e] = callTx[e]
                                  /\ todo'[e] = todo[e] /\ seen'[e] = seen[e]
  BY <1>0 DEF TypeOK, Return
<1>4. TypeOK'
  <2>1. /\ state' \in [Tx -> TransactionState \cup {"none"}]
        /\ rollbackComplete' \in [Tx -> {"undefined", "yes", "no"}]
        /\ activeByDocument' \in [Doc -> Tx \cup {NoTx}]
    BY <1>0, <1>1 DEF TypeOK, TransactionState
  <2>2. /\ pc' \in [Call -> {"idle", "snapshot", "applying", "validating", "rolling"}]
        /\ callTx' \in [Call -> Tx \cup {NoTx}] /\ todo' \in [Call -> SUBSET Nat]
        /\ clean' \in [Call -> BOOLEAN] /\ seen' \in [Call -> Seq(Operation)]
    BY <1>0 DEF TypeOK, Return
  <2> QED BY <1>0, <2>1, <2>2 DEF TypeOK
<1>5. ValidatingCalls'
  BY <1>0, <1>1, <1>2, <1>3 DEF CallsOK, ValidatingCalls
<1>6. ApplyingCalls' /\ SnapshotCalls'
  BY <1>0, <1>3 DEF CallsOK, ApplyingCalls, SnapshotCalls
<1>7. RollingCalls'
  BY <1>0, <1>2, <1>3 DEF CallsOK, RollingCalls
<1>8. SettledWhenJudged'
  BY <1>0, <1>2 DEF SettledWhenJudged, Unsettled
<1>9. CommitIsJudged'
  BY <1>0, <1>2 DEF CommitIsJudged
<1>10. LockRefersToHolder'
  <2> SUFFICES ASSUME NEW d \in Doc, activeByDocument'[d] # NoTx
               PROVE  /\ document'[activeByDocument'[d]] = d
                      /\ HoldsIn(state', rollbackComplete', activeByDocument'[d])
    BY DEF LockRefersToHolder, holdsDocumentLock, HoldsIn
  <2>1. CASE document[t] = d
    <3>1. activeByDocument'[d] = t /\ ~clean[c]
      BY <1>0, <2>1 DEF TypeOK
    <3>2. state'[t] = "failed" /\ rollbackComplete'[t] = "no"
      BY <1>0, <1>1, <3>1 DEF TypeOK
    <3> QED BY <2>1, <3>1, <3>2 DEF HoldsIn
  <2>2. CASE document[t] # d
    <3>1. activeByDocument'[d] = activeByDocument[d]
      BY <1>0, <2>2 DEF TypeOK
    <3>2. /\ activeByDocument[d] \in Tx
          /\ document[activeByDocument[d]] = d
          /\ HoldsIn(state, rollbackComplete, activeByDocument[d])
      BY <1>0, <3>1 DEF TypeOK, LockRefersToHolder, holdsDocumentLock
    <3>3. activeByDocument[d] # t
      BY <2>2, <3>2
    <3> QED BY <1>0, <3>1, <3>2, <3>3 DEF TypeOK, HoldsIn
  <2> QED BY <2>1, <2>2
<1> QED BY <1>0, <1>4, <1>5, <1>6, <1>7, <1>8, <1>9, <1>10, FailedKept DEF IInv, CallsOK

-----------------------------------------------------------------------------
(* The invariant, and what follows from it.                                *)

\* A step that changes nothing.
LEMMA StutterStep ==
  ASSUME IInv, UNCHANGED vars
  PROVE  IInv'
BY DEF vars, txVars, callVars, IInv, TypeOK, CallsOK, ValidatingCalls, ApplyingCalls,
       RollingCalls, SnapshotCalls, SettledWhenJudged, Unsettled, CommitIsJudged,
       FailedIsCandidate, Candidates, Unresolved, LockRefersToHolder,
       holdsDocumentLock, HoldsIn

\* Every action of the manager and of its clients keeps the invariant.
THEOREM NextInvariant == IInv /\ [Next]_vars => IInv'
<1> SUFFICES ASSUME IInv, [Next]_vars PROVE IInv'
  OBVIOUS
<1>1. CASE Get
  BY <1>1, GetStep
<1>2. ASSUME NEW t \in Tx, Client(t) PROVE IInv'
  <2>1. ASSUME NEW d \in Doc, Begin(t, d) PROVE IInv'
    BY <2>1, BeginStep
  <2>2. CASE Deadline(t)
    BY <2>2, DeadlineStep
  <2>3. CASE Commit(t)
    BY <2>3, CommitStep
  <2>4. CASE RollbackNothing(t)
    BY <2>4, RollbackNothingStep
  <2>5. ASSUME NEW c \in Call, StartModifyOrDelete(c, t) PROVE IInv'
    BY <2>5, StartModifyOrDeleteStep
  <2>6. ASSUME NEW c \in Call, StartCreate(c, t) PROVE IInv'
    BY <2>6, StartCreateStep
  <2>7. ASSUME NEW c \in Call, StartValidate(c, t) PROVE IInv'
    BY <2>7, StartValidateStep
  <2>8. ASSUME NEW c \in Call, StartRollback(c, t) PROVE IInv'
    BY <2>8, StartRollbackStep
  <2> QED BY <1>2, <2>1, <2>2, <2>3, <2>4, <2>5, <2>6, <2>7, <2>8 DEF Client
<1>3. ASSUME NEW c \in Call, Resume(c) PROVE IInv'
  <2>1. CASE Reserve(c)
    BY <2>1, ReserveStep
  <2>2. CASE ReserveRefused(c)
    BY <2>2, ReserveRefusedStep
  <2>3. CASE Applied(c)
    BY <2>3, AppliedStep
  <2>4. ASSUME NEW comp \in {"not-needed", "restored"}, Compensated(c, comp) PROVE IInv'
    BY <2>4, CompensatedStep
  <2>5. CASE failTransaction(c)
    BY <2>5, failTransactionStep
  <2>6. ASSUME NEW passed \in BOOLEAN, FinishValidate(c, passed) PROVE IInv'
    BY <2>6, FinishValidateStep
  <2>7. ASSUME NEW restored \in BOOLEAN, RestoreOperation(c, restored) PROVE IInv'
    BY <2>7, RestoreOperationStep
  <2>8. CASE FinishRollback(c)
    BY <2>8, FinishRollbackStep
  <2> QED BY <1>3, <2>1, <2>2, <2>3, <2>4, <2>5, <2>6, <2>7, <2>8 DEF Resume
<1>4. CASE UNCHANGED vars
  BY <1>4, StutterStep
<1> QED BY <1>1, <1>2, <1>3, <1>4 DEF Next

\* Every reachable state satisfies the inductive invariant.
THEOREM Invariant == Spec => []IInv
BY InitInvariant, NextInvariant, PTL DEF Spec

\* The variables of the manager keep their types, and no transaction holds
\* more operations than the maxOperations it was begun with (manager.ts:180).
THEOREM TypeCorrect == Spec => []TypeOK
<1>1. IInv => TypeOK
  BY DEF IInv
<1> QED BY <1>1, Invariant, PTL

\* The lock of a document is never left with a transaction that cannot
\* release it, whatever calls overlap and whatever expires meanwhile.
THEOREM LocksAreHeld == Spec => []LockRefersToHolder
<1>1. IInv => LockRefersToHolder
  BY DEF IInv
<1> QED BY <1>1, Invariant, PTL

\* A judged or committed transaction has no operation without an outcome.
THEOREM JudgedIsSettled == Spec => []SettledWhenJudged
<1>1. IInv => SettledWhenJudged
  BY DEF IInv
<1> QED BY <1>1, Invariant, PTL

\* What is committed is what the gates passed, although they run on a clone
\* and other calls of the transaction may be in flight all the while.
THEOREM CommittedIsJudged == Spec => []CommitIsJudged
<1>1. IInv => CommitIsJudged
  BY DEF IInv
<1> QED BY <1>1, Invariant, PTL

\* Every failed operation is one rollback tries to restore.
THEOREM FailedIsRetried == Spec => []FailedIsCandidate
<1>1. IInv => FailedIsCandidate
  BY DEF IInv
<1> QED BY <1>1, Invariant, PTL

-----------------------------------------------------------------------------
(* A commit is final.                                                      *)

\* No call in flight can still act on a committed transaction: its writes
\* have settled, its gates have ended and no rollback of it is under way.
LEMMA CommittedIsQuiet ==
  ASSUME IInv, NEW t \in Tx, state[t] = "committed"
  PROVE  /\ StateNow[t] = "committed"
         /\ \A c \in Call : pc[c] \in {"validating", "rolling"} => callTx[c] # t
         /\ \A c \in Call : pc[c] = "applying" /\ todo[c] # {} => callTx[c] # t
<1>0. TypeOK /\ CallsOK /\ SettledWhenJudged
  BY DEF IInv
<1>1. StateNow[t] = "committed"
  BY <1>0, SweepStates DEF Open
<1>2. \A c \in Call : pc[c] \in {"validating", "rolling"} => callTx[c] # t
  BY <1>0 DEF CallsOK, ValidatingCalls, RollingCalls
<1>3. ASSUME NEW c \in Call, pc[c] = "applying", todo[c] # {} PROVE callTx[c] # t
  <2>1. PICK i \in todo[c] : /\ i \in DOMAIN operations[callTx[c]]
                             /\ operations[callTx[c]][i].state = "pending"
    BY <1>0, <1>3 DEF CallsOK, ApplyingCalls
  <2> QED BY <1>0, <2>1 DEF SettledWhenJudged, Unsettled
<1> QED BY <1>1, <1>2, <1>3

\* What other transactions and calls do leaves a committed one alone.
LEMMA CommittedKept ==
  ASSUME IInv, NEW t \in Tx, state[t] = "committed", Next
  PROVE  /\ state'[t] = "committed"
         /\ operations'[t] = operations[t]
         /\ validations'[t] = validations[t]
<1> DEFINE Kept == /\ state'[t] = "committed"
                   /\ operations'[t] = operations[t]
                   /\ validations'[t] = validations[t]
<1>0. TypeOK
  BY DEF IInv
<1>1. /\ StateNow[t] = "committed"
      /\ \A c \in Call : pc[c] \in {"validating", "rolling"} => callTx[c] # t
      /\ \A c \in Call : pc[c] = "applying" /\ todo[c] # {} => callTx[c] # t
  BY CommittedIsQuiet
<1>2. CASE Get
  BY <1>1, <1>2 DEF Get, Sweep
<1>3. ASSUME NEW u \in Tx, Client(u) PROVE Kept
  <2> DEFINE Quiet == operations' = operations /\ validations' = validations
  <2>1. ASSUME NEW d \in Doc, Begin(u, d) PROVE Kept
    BY <1>0, <1>1, <2>1 DEF Begin, TypeOK
  <2>2. CASE Deadline(u)
    BY <2>2 DEF Deadline
  <2>3. CASE Commit(u)
    BY <1>1, <2>3 DEF Commit, StateNow
  <2>4. CASE RollbackNothing(u)
    <3>1. u # t
      BY <1>1, <2>4 DEF RollbackNothing, MayRollBack
    <3> QED BY <1>1, <2>4, <3>1 DEF RollbackNothing, finalizeRollback, StateNow
  <2>5. ASSUME NEW c \in Call, StartModifyOrDelete(c, u) PROVE Kept
    BY <1>1, <2>5 DEF StartModifyOrDelete, Sweep
  <2>6. ASSUME NEW c \in Call, StartCreate(c, u) PROVE Kept
    <3>1. u # t
      BY <1>1, <2>6 DEF StartCreate, reserveOperation, Open
    <3> QED BY <1>0, <1>1, <2>6, <3>1
            DEF StartCreate, reserveOperation, StateNow, TypeOK
  <2>7. ASSUME NEW c \in Call, StartValidate(c, u) PROVE Kept
    <3>1. u # t
      BY <1>1, <2>7 DEF StartValidate, Open
    <3> QED BY <1>1, <2>7, <3>1 DEF StartValidate, StateNow
  <2>8. ASSUME NEW c \in Call, StartRollback(c, u) PROVE Kept
    <3>1. u # t
      BY <1>1, <2>8 DEF StartRollback, MayRollBack
    <3> QED BY <1>1, <2>8, <3>1 DEF StartRollback, StateNow
  <2> QED BY <1>3, <2>1, <2>2, <2>3, <2>4, <2>5, <2>6, <2>7, <2>8 DEF Client
<1>4. ASSUME NEW c \in Call, Resume(c) PROVE Kept
  <2>1. CASE Reserve(c)
    <3>1. callTx[c] # t
      BY <2>1 DEF Reserve, reserveOperation, Open
    <3> QED BY <1>0, <2>1, <3>1 DEF Reserve, reserveOperation, TypeOK
  <2>2. CASE ReserveRefused(c)
    BY <2>2 DEF ReserveRefused, txVars
  <2>3. CASE Applied(c)
    BY <1>0, <1>1, <2>3 DEF Applied, SetOperation, TypeOK
  <2>4. ASSUME NEW comp \in {"not-needed", "restored"}, Compensated(c, comp) PROVE Kept
    BY <1>0, <1>1, <2>4 DEF Compensated, SetOperation, TypeOK
  <2>5. CASE failTransaction(c)
    BY <1>0, <1>1, <2>5 DEF failTransaction, SetOperation, TypeOK
  <2>6. ASSUME NEW passed \in BOOLEAN, FinishValidate(c, passed) PROVE Kept
    BY <1>0, <1>1, <2>6 DEF FinishValidate, TypeOK
  <2>7. ASSUME NEW restored \in BOOLEAN, RestoreOperation(c, restored) PROVE Kept
    BY <1>0, <1>1, <2>7 DEF RestoreOperation, SetOperation, TypeOK
  <2>8. CASE FinishRollback(c)
    BY <1>0, <1>1, <2>8 DEF FinishRollback, finalizeRollback, TypeOK
  <2> QED BY <1>4, <2>1, <2>2, <2>3, <2>4, <2>5, <2>6, <2>7, <2>8 DEF Resume
<1> QED BY <1>2, <1>3, <1>4 DEF Next

\* Once committed a transaction is out of reach of every late call, every
\* deadline and every rollback.
THEOREM CommitIsFinal == Spec => CommittedIsFinal
<1> DEFINE Final == \A t \in Tx : state[t] = "committed" =>
                      /\ state'[t] = "committed"
                      /\ operations'[t] = operations[t]
                      /\ validations'[t] = validations[t]
<1>1. IInv /\ [Next]_vars => [Final]_vars
  <2> SUFFICES ASSUME IInv, Next PROVE Final
    BY DEF vars
  <2> QED BY CommittedKept
<1> QED BY <1>1, Invariant, PTL DEF Spec, CommittedIsFinal
-----------------------------------------------------------------------------
(***************************************************************************)
(* Clients of discipline: one call of a transaction at a time, which ends  *)
(* before the deadline, and no rollback of an expired transaction.  Then   *)
(* the locks exclude, and rollback is complete.                            *)
(***************************************************************************)
Orderly     == SerialCalls /\ TimelyCalls
Disciplined == Orderly /\ LeaveExpired

\* All that is needed of the last: no rollback of an expired transaction
\* takes the lock of another one.
SparesLocks ==
  \A t \in Tx : RollbackNothing(t) /\ StateNow[t] = "expired" => LockNow[document[t]] = NoTx

\* A transaction has one call in flight, an idle call has none.
OneCallEach ==
  /\ \A c \in Call : pc[c] = "idle" <=> callTx[c] = NoTx
  /\ \A c, e \in Call : callTx[c] = callTx[e] /\ callTx[c] # NoTx => c = e

\* Nothing ends a transaction while a call of it is in flight.
CallersStay ==
  \A c \in Call :
    /\ pc[c] \in {"snapshot", "applying"} => state[callTx[c]] \in Open
    /\ pc[c] \in {"snapshot", "applying", "validating"} => ~overdue[callTx[c]]
    /\ pc[c] = "rolling" => state[callTx[c]] = "rolling-back"

\* A pending operation is the one that a call of its transaction writes.
PendingIsWritten ==
  \A t \in Tx : \A i \in DOMAIN operations[t] :
    operations[t][i].state = "pending" =>
      \E c \in Call : pc[c] = "applying" /\ callTx[c] = t /\ todo[c] = {i}

\* What a rollback has left to do.
RollbackCovers ==
  \A c \in Call : pc[c] = "rolling" =>
    /\ \A i \in DOMAIN operations[callTx[c]] :
         operations[callTx[c]][i].state = "applied" => i \in todo[c]
    /\ clean[c] => Candidates(callTx[c]) \subseteq todo[c]

\* The lock is the only way to be a holder; who gave it up left nothing behind.
HolderIsLocked ==
  \A t \in Tx :
    /\ state[t] # "none" => document[t] \in Doc
    /\ holdsDocumentLock(t) => activeByDocument[document[t]] = t
    /\ state[t] = "failed" => rollbackComplete[t] = "no"
    /\ state[t] \in {"rolled-back", "expired"} => Candidates(t) = {}

CallersFit == OneCallEach /\ CallersStay /\ PendingIsWritten /\ RollbackCovers

DInv == CallersFit /\ HolderIsLocked /\ RolledBackIsClean
\* The same of any state, completeness and lock, such as those the sweep leaves.
HolderFit(s, complete, lock) ==
  \A t \in Tx :
    /\ s[t] # "none" => document[t] \in Doc
    /\ HoldsIn(s, complete, t) => lock[document[t]] = t
    /\ s[t] = "failed" => complete[t] = "no"
    /\ s[t] \in {"rolled-back", "expired"} => Candidates(t) = {}

LEMMA TxIsNotNoTx == NoTx \notin Tx
BY BoundsAssumption DEF Tx, NoTx

LEMMA SameCandidates ==
  ASSUME NEW t \in Tx, operations'[t] = operations[t]
  PROVE  Candidates(t)' = Candidates(t)
BY DEF Candidates, Unresolved

\* The sweep only finds transactions that own their lock and have no call.
LEMMA StaleIsIdle ==
  ASSUME IInv, DInv, NEW t \in Stale
  PROVE  /\ t \in Tx /\ document[t] \in Doc /\ activeByDocument[document[t]] = t
         /\ \A c \in Call : callTx[c] # t
<1>1. t \in Tx /\ state[t] \in Open /\ overdue[t]
  BY DEF Stale
<1>2. document[t] \in Doc /\ activeByDocument[document[t]] = t
  BY <1>1 DEF DInv, HolderIsLocked, holdsDocumentLock, HoldsIn, Open
<1>3. ASSUME NEW c \in Call, callTx[c] = t PROVE FALSE
  <2>1. pc[c] \in {"snapshot", "applying", "validating", "rolling"}
    BY <1>1, <1>3, TxIsNotNoTx DEF IInv, TypeOK, DInv, CallersFit, OneCallEach
  <2> QED BY <1>1, <1>3, <2>1 DEF DInv, CallersFit, CallersStay, Open
<1> QED BY <1>1, <1>2, <1>3

\* What the sweep leaves fits as well, and frees locks without granting any.
LEMMA Swept ==
  ASSUME IInv, DInv
  PROVE  /\ HolderFit(StateNow, CompleteNow, LockNow)
         /\ \A d \in Doc : LockNow[d] \in {activeByDocument[d], NoTx}
         /\ \A t \in Tx : InFlight(t) => StateNow[t] = state[t]
         /\ \A t \in Tx : \A x \in {"none", "rolled-back"} : StateNow[t] = x <=> state[t] = x
         /\ \A t \in Tx : StateNow[t] \in Open => state[t] = StateNow[t] /\ ~overdue[t]
<1>0. TypeOK
  BY DEF IInv
<1>1. \A d \in Doc : \A u \in StaleOn(d) : u = activeByDocument[d] /\ u \in Tx
  BY StaleIsIdle DEF StaleOn
<1>2. ASSUME NEW d \in Doc
      PROVE  LockNow[d] \in {activeByDocument[d], NoTx}
  <2>1. Relocked(d) \subseteq {activeByDocument[d]}
    BY <1>1 DEF Relocked
  <2> QED BY <2>1 DEF LockNow
<1>3. ASSUME NEW t \in Tx
      PROVE  /\ StateNow[t] # "none" => document[t] \in Doc
             /\ StateNow[t] = "failed" => CompleteNow[t] = "no"
             /\ StateNow[t] \in {"rolled-back", "expired"} => Candidates(t) = {}
             /\ \A x \in {"none", "rolled-back"} : StateNow[t] = x <=> state[t] = x
             /\ StateNow[t] \in Open => state[t] = StateNow[t] /\ ~overdue[t]
             /\ InFlight(t) => StateNow[t] = state[t]
  <2>1. CASE t \in Stale
    BY <2>1, StaleIsIdle DEF StateNow, CompleteNow, Stale, Open, InFlight
  <2>2. CASE t \notin Stale
    BY <2>2 DEF StateNow, CompleteNow, Stale, Open, DInv, HolderIsLocked
  <2> QED BY <2>1, <2>2
<1>4. ASSUME NEW t \in Tx, HoldsIn(StateNow, CompleteNow, t)
      PROVE  LockNow[document[t]] = t
  <2> DEFINE d == document[t]
  <2>1. d \in Doc
    BY <1>3, <1>4 DEF HoldsIn
  <2>2. CASE t \in Stale
    <3>1. Candidates(t) # {}
      BY <1>4, <2>2 DEF StateNow, HoldsIn
    <3>2. StaleOn(d) = {t}
      BY <1>1, <2>1, <2>2 DEF StaleOn
    <3>3. t <= t
      BY DEF Tx
    <3>4. Relocked(d) = {t}
      BY <3>1, <3>2, <3>3 DEF Relocked
    <3> QED BY <2>1, <3>2, <3>4 DEF LockNow
  <2>3. CASE t \notin Stale
    <3>1. StateNow[t] = state[t] /\ CompleteNow[t] = rollbackComplete[t]
      BY <2>3 DEF StateNow, CompleteNow
    <3>2. activeByDocument[d] = t
      BY <1>4, <3>1 DEF DInv, HolderIsLocked, holdsDocumentLock, HoldsIn
    <3>3. StaleOn(d) = {}
      BY <1>1, <2>1, <2>3, <3>2 DEF StaleOn
    <3> QED BY <2>1, <3>2, <3>3 DEF LockNow
  <2> QED BY <2>2, <2>3
<1> QED BY <1>2, <1>3, <1>4 DEF HolderFit

\* Only t has moved, whose document's lock nobody else owned.
LEMMA HolderMoves ==
  ASSUME NEW s, NEW complete, NEW lock, HolderFit(s, complete, lock),
         NEW t \in Tx, document[t] \in Doc, lock[document[t]] \in {t, NoTx},
         document' = document,
         \A u \in Tx : u # t => /\ state'[u] = s[u] /\ rollbackComplete'[u] = complete[u]
                                /\ operations'[u] = operations[u],
         \A d \in Doc : d # document[t] => activeByDocument'[d] = lock[d],
         state'[t] # "none",
         HoldsIn(state', rollbackComplete', t) => activeByDocument'[document[t]] = t,
         state'[t] = "failed" => rollbackComplete'[t] = "no",
         state'[t] \in {"rolled-back", "expired"} => Candidates(t)' = {}
  PROVE  HolderIsLocked'
<1> SUFFICES ASSUME NEW u \in Tx
             PROVE  /\ state'[u] # "none" => document[u] \in Doc
                    /\ HoldsIn(state', rollbackComplete', u) => activeByDocument'[document[u]] = u
                    /\ state'[u] = "failed" => rollbackComplete'[u] = "no"
                    /\ state'[u] \in {"rolled-back", "expired"} => Candidates(u)' = {}
  BY DEF HolderIsLocked, holdsDocumentLock, HoldsIn
<1>1. \A v \in Tx : v # t => lock[document[t]] # v
  BY TxIsNotNoTx
<1>2. CASE u = t
  BY <1>2
<1>3. CASE u # t
  <2>1. Candidates(u)' = Candidates(u)
    BY <1>3, SameCandidates
  <2>2. HoldsIn(state', rollbackComplete', u) => HoldsIn(s, complete, u)
    BY <1>3 DEF HoldsIn
  <2>3. HoldsIn(state', rollbackComplete', u) => lock[document[u]] = u /\ document[u] \in Doc
    BY <2>2 DEF HolderFit, HoldsIn
  <2> QED BY <1>1, <1>3, <2>1, <2>3 DEF HolderFit
<1> QED BY <1>2, <1>3

\* Nobody moved but what the sweep moves, or nobody at all.
LEMMA HoldersStay ==
  ASSUME HolderFit(state', rollbackComplete', activeByDocument'),
         UNCHANGED <<document, operations>>
  PROVE  HolderIsLocked'
BY DEF HolderFit, HolderIsLocked, holdsDocumentLock, HoldsIn, Candidates, Unresolved

LEMMA FitNow == DInv => HolderFit(state, rollbackComplete, activeByDocument)
BY DEF DInv, HolderIsLocked, holdsDocumentLock, HolderFit

\* No call moves, and no transaction that has one.
LEMMA CallersUntouched ==
  ASSUME IInv, DInv, UNCHANGED <<operations, overdue, callVars>>,
         \A t \in Tx : InFlight(t) => state'[t] = state[t]
  PROVE  CallersFit'
<1>1. \A c \in Call : pc[c] # "idle" => callTx[c] \in Tx /\ InFlight(callTx[c])
  BY DEF IInv, TypeOK, DInv, CallersFit, OneCallEach, InFlight
<1>2. OneCallEach' /\ PendingIsWritten' /\ RollbackCovers'
  BY DEF DInv, CallersFit, OneCallEach, PendingIsWritten, RollbackCovers, Candidates, Unresolved, callVars
<1>3. CallersStay'
  BY <1>1 DEF DInv, CallersFit, CallersStay, callVars
<1> QED BY <1>2, <1>3 DEF CallersFit

\* Call c moves, and the transaction t it is about.
LEMMA CallerMoves ==
  ASSUME IInv, DInv, NEW c \in Call, NEW t \in Tx,
         callTx[c] \in {t, NoTx}, \A e \in Call : e # c => callTx[e] # t,
         overdue' = overdue,
         \A e \in Call : e # c => /\ pc'[e] = pc[e] /\ callTx'[e] = callTx[e]
                                  /\ todo'[e] = todo[e] /\ clean'[e] = clean[e],
         \A u \in Tx : u # t => /\ operations'[u] = operations[u]
                                /\ InFlight(u) => state'[u] = state[u],
         callTx'[c] \in {t, NoTx}, pc'[c] = "idle" <=> callTx'[c] = NoTx,
         pc'[c] \in {"snapshot", "applying"} => state'[t] \in Open,
         pc'[c] \in {"snapshot", "applying", "validating"} => ~overdue[t],
         pc'[c] = "rolling" =>
           /\ state'[t] = "rolling-back"
           /\ \A i \in DOMAIN operations'[t] : operations'[t][i].state = "applied" => i \in todo'[c]
           /\ clean'[c] => Candidates(t)' \subseteq todo'[c],
         \A i \in DOMAIN operations'[t] : operations'[t][i].state = "pending" =>
           pc'[c] = "applying" /\ callTx'[c] = t /\ todo'[c] = {i}
  PROVE  CallersFit'
<1>1. \A e \in Call : e # c /\ pc[e] # "idle" => /\ callTx[e] \in Tx /\ callTx[e] # t
                                                /\ InFlight(callTx[e])
  BY DEF IInv, TypeOK, DInv, CallersFit, OneCallEach, InFlight
<1>2. OneCallEach'
  BY DEF DInv, CallersFit, OneCallEach
<1>3. CallersStay'
  <2> SUFFICES ASSUME NEW e \in Call
               PROVE  /\ pc'[e] \in {"snapshot", "applying"} => state'[callTx'[e]] \in Open
                      /\ pc'[e] \in {"snapshot", "applying", "validating"} => ~overdue'[callTx'[e]]
                      /\ pc'[e] = "rolling" => state'[callTx'[e]] = "rolling-back"
    BY DEF CallersStay
  <2>1. CASE e = c
    BY <2>1
  <2>2. CASE e # c
    BY <1>1, <2>2 DEF DInv, CallersFit, CallersStay
  <2> QED BY <2>1, <2>2
<1>4. PendingIsWritten'
  <2> SUFFICES ASSUME NEW u \in Tx, NEW i \in DOMAIN operations'[u],
                      operations'[u][i].state = "pending"
               PROVE  \E e \in Call : pc'[e] = "applying" /\ callTx'[e] = u /\ todo'[e] = {i}
    BY DEF PendingIsWritten
  <2>1. CASE u = t
    BY <2>1
  <2>2. CASE u # t
    <3>1. PICK e \in Call : pc[e] = "applying" /\ callTx[e] = u /\ todo[e] = {i}
      BY <2>2 DEF DInv, CallersFit, PendingIsWritten
    <3>2. e # c
      BY <2>2, <3>1, TxIsNotNoTx
    <3> QED BY <3>1, <3>2
  <2> QED BY <2>1, <2>2
<1>5. RollbackCovers'
  <2> SUFFICES ASSUME NEW e \in Call, pc'[e] = "rolling"
               PROVE  /\ \A i \in DOMAIN operations'[callTx'[e]] :
                           operations'[callTx'[e]][i].state = "applied" => i \in todo'[e]
                      /\ clean'[e] => Candidates(callTx[e])' \subseteq todo'[e]
    BY DEF RollbackCovers
  <2>1. CASE e = c
    <3>1. callTx'[e] = t
      BY <2>1
    <3>2. Candidates(callTx[e])' = Candidates(t)'
      BY <3>1 DEF Candidates
    <3> QED BY <2>1, <3>1, <3>2
  <2>2. CASE e # c
    <3>1. /\ callTx'[e] = callTx[e] /\ callTx[e] \in Tx /\ callTx[e] # t
          /\ operations'[callTx[e]] = operations[callTx[e]]
          /\ pc[e] = "rolling" /\ todo'[e] = todo[e] /\ clean'[e] = clean[e]
      BY <1>1, <2>2
    <3>2. Candidates(callTx[e])' = Candidates(callTx[e])
      BY <3>1 DEF Candidates, Unresolved
    <3> QED BY <3>1, <3>2 DEF DInv, CallersFit, RollbackCovers
  <2> QED BY <2>1, <2>2
<1> QED BY <1>2, <1>3, <1>4, <1>5 DEF CallersFit

\* What entering and returning do to the calls.
LEMMA EnterIs ==
  ASSUME TypeOK, NEW c \in Call, NEW t, NEW where, NEW left, Enter(c, t, where, left)
  PROVE  /\ pc'[c] = where /\ callTx'[c] = t /\ todo'[c] = left /\ clean'[c] = TRUE
         /\ \A e \in Call : e # c => /\ pc'[e] = pc[e] /\ callTx'[e] = callTx[e]
                                     /\ todo'[e] = todo[e] /\ clean'[e] = clean[e]
BY DEF TypeOK, Enter

LEMMA ReturnIs ==
  ASSUME TypeOK, NEW c \in Call, Return(c)
  PROVE  /\ pc'[c] = "idle" /\ callTx'[c] = NoTx
         /\ \A e \in Call : e # c => /\ pc'[e] = pc[e] /\ callTx'[e] = callTx[e]
                                     /\ todo'[e] = todo[e] /\ clean'[e] = clean[e]
BY DEF TypeOK, Return

\* A call that may start is the only one of its transaction, with no write of
\* it under way.
LEMMA FreshCall ==
  ASSUME Orderly, IInv, DInv, NEW t \in Tx, MayCall(t)
  PROVE  /\ ~InFlight(t) /\ \A e \in Call : callTx[e] # t
         /\ \A i \in DOMAIN operations[t] : operations[t][i].state # "pending"
BY DEF Orderly, MayCall, InFlight, DInv, CallersFit, PendingIsWritten

\* A call in flight is the only one of its transaction.
LEMMA BusyCall ==
  ASSUME IInv, DInv, NEW c \in Call, pc[c] # "idle"
  PROVE  /\ callTx[c] \in Tx /\ callTx[c] # NoTx
         /\ \A e \in Call : e # c => callTx[e] # callTx[c]
         /\ \A i \in DOMAIN operations[callTx[c]] :
              operations[callTx[c]][i].state = "pending" => pc[c] = "applying" /\ todo[c] = {i}
<1>1. callTx[c] \in Tx /\ callTx[c] # NoTx /\ \A e \in Call : e # c => callTx[e] # callTx[c]
  BY DEF IInv, TypeOK, DInv, CallersFit, OneCallEach
<1>2. ASSUME NEW i \in DOMAIN operations[callTx[c]], operations[callTx[c]][i].state = "pending"
      PROVE  pc[c] = "applying" /\ todo[c] = {i}
  <2>1. PICK e \in Call : pc[e] = "applying" /\ callTx[e] = callTx[c] /\ todo[e] = {i}
    BY <1>1, <1>2 DEF DInv, CallersFit, PendingIsWritten
  <2> QED BY <1>1, <2>1
<1> QED BY <1>1, <1>2

LEMMA GetDisciplined ==
  ASSUME Orderly, IInv, DInv, Get
  PROVE  DInv'
<1>1. CallersFit'
  BY Swept, CallersUntouched DEF Get, Sweep
<1>2. HolderIsLocked'
  BY Swept, HoldersStay DEF Get, Sweep
<1>3. RolledBackIsClean'
  BY Swept DEF Get, Sweep, DInv, RolledBackIsClean
<1> QED BY <1>1, <1>2, <1>3 DEF DInv

\* A transaction begins where the sweep leaves no holder.
LEMMA BeginDisciplined ==
  ASSUME Orderly, IInv, DInv, NEW t \in Tx, NEW d \in Doc, Begin(t, d)
  PROVE  DInv'
<1> USE DEF Begin
<1>0. TypeOK
  BY DEF IInv
<1>1. /\ state[t] = "none" /\ StateNow[t] = "none" /\ ~InFlight(t)
  <2>1. StateNow[t] = "none"
    BY Swept
  <2>2. ASSUME NEW e \in Call, callTx[e] = t PROVE FALSE
    <3>1. pc[e] \in {"snapshot", "applying", "validating", "rolling"}
      BY <1>0, <2>2, TxIsNotNoTx DEF TypeOK, DInv, CallersFit, OneCallEach
    <3> QED BY <2>2, <3>1 DEF IInv, CallsOK, ValidatingCalls, DInv, CallersFit, CallersStay, Open
  <2> QED BY <2>1, <2>2 DEF InFlight
<1>2. /\ state'[t] = "active" /\ \A u \in Tx : u # t => state'[u] = StateNow[u]
      /\ rollbackComplete' = CompleteNow
      /\ document'[t] = d /\ \A u \in Tx : u # t => document'[u] = document[u]
      /\ activeByDocument'[d] = t /\ \A e \in Doc : e # d => activeByDocument'[e] = LockNow[e]
  BY <1>0, SweepStates DEF TypeOK
<1>3. CallersFit'
  <2>1. \A u \in Tx : InFlight(u) => state'[u] = state[u]
    BY <1>1, <1>2, Swept
  <2> QED BY <2>1, CallersUntouched
<1>4. LockNow[d] = NoTx
  BY <1>0, SweepLocks DEF IInv, DocumentLocked
<1>5. HolderIsLocked'
  <2> SUFFICES ASSUME NEW u \in Tx
               PROVE  /\ state'[u] # "none" => document'[u] \in Doc
                      /\ HoldsIn(state', rollbackComplete', u) => activeByDocument'[document'[u]] = u
                      /\ state'[u] = "failed" => rollbackComplete'[u] = "no"
                      /\ state'[u] \in {"rolled-back", "expired"} => Candidates(u)' = {}
    BY DEF HolderIsLocked, holdsDocumentLock, HoldsIn
  <2>1. CASE u = t
    BY <1>2, <2>1
  <2>2. CASE u # t
    <3>1. Candidates(u)' = Candidates(u)
      BY SameCandidates
    <3>2. HoldsIn(state', rollbackComplete', u) => /\ LockNow[document[u]] = u /\ document[u] \in Doc
      BY <1>2, <2>2, Swept DEF HoldsIn, HolderFit
    <3>3. HoldsIn(state', rollbackComplete', u) => document[u] # d
      BY <1>4, <3>2, TxIsNotNoTx
    <3> QED BY <1>2, <2>2, <3>1, <3>2, <3>3, Swept DEF HolderFit
  <2> QED BY <2>1, <2>2
<1>6. RolledBackIsClean'
  BY <1>2, Swept DEF DInv, RolledBackIsClean
<1> QED BY <1>3, <1>5, <1>6 DEF DInv

\* No deadline passes while a call is in flight.
LEMMA DeadlineDisciplined ==
  ASSUME Orderly, IInv, DInv, NEW t \in Tx, Deadline(t)
  PROVE  DInv'
<1> USE DEF Deadline, callVars
<1>1. \A c \in Call : pc[c] # "idle" => callTx[c] \in Tx /\ callTx[c] # t
  BY BusyCall DEF Orderly, InFlight
<1>2. CallersStay'
  BY <1>1 DEF IInv, TypeOK, DInv, CallersFit, CallersStay
<1>3. OneCallEach' /\ PendingIsWritten' /\ RollbackCovers'
  BY DEF DInv, CallersFit, OneCallEach, PendingIsWritten, RollbackCovers, Candidates, Unresolved
<1>4. HolderIsLocked'
  BY FitNow, HoldersStay
<1>5. RolledBackIsClean'
  BY DEF DInv, RolledBackIsClean
<1> QED BY <1>2, <1>3, <1>4, <1>5 DEF DInv, CallersFit

LEMMA StartModifyOrDeleteDisciplined ==
  ASSUME Orderly, IInv, DInv, NEW c \in Call, NEW t \in Tx, StartModifyOrDelete(c, t)
  PROVE  DInv'
<1> USE DEF StartModifyOrDelete, Sweep
<1>1. /\ pc'[c] = "snapshot" /\ callTx'[c] = t
      /\ \A e \in Call : e # c => /\ pc'[e] = pc[e] /\ callTx'[e] = callTx[e]
                                  /\ todo'[e] = todo[e] /\ clean'[e] = clean[e]
  BY EnterIs DEF IInv
<1>2. callTx[c] = NoTx
  BY DEF DInv, CallersFit, OneCallEach
<1>3. state'[t] \in Open /\ ~overdue[t]
  BY Swept
<1>4. CallersFit'
  BY <1>1, <1>2, <1>3, FreshCall, Swept, CallerMoves, TxIsNotNoTx
<1>5. HolderIsLocked'
  BY Swept, HoldersStay
<1>6. RolledBackIsClean'
  BY Swept DEF DInv, RolledBackIsClean
<1> QED BY <1>4, <1>5, <1>6 DEF DInv

\* A call that reserves is the only one of its transaction.
LEMMA ReserveDisciplined ==
  ASSUME IInv, DInv, NEW c \in Call, NEW t \in Tx, NEW s, NEW complete, NEW lock,
         s \in [Tx -> TransactionState \cup {"none"}], HolderFit(s, complete, lock),
         \A u \in Tx : InFlight(u) => s[u] = state[u],
         \A u \in Tx : s[u] = "rolled-back" => state[u] = "rolled-back",
         s[t] \in Open => ~overdue[t],
         callTx[c] \in {t, NoTx}, \A e \in Call : e # c => callTx[e] # t,
         \A i \in DOMAIN operations[t] : operations[t][i].state # "pending",
         reserveOperation(s, c, t), rollbackComplete' = complete, activeByDocument' = lock,
         UNCHANGED <<document, overdue>>
  PROVE  DInv'
<1> USE DEF reserveOperation
<1> DEFINE n == Len(operations[t]) + 1
<1>0. TypeOK
  BY DEF IInv
<1>1. /\ pc'[c] = "applying" /\ callTx'[c] = t /\ todo'[c] = {n}
      /\ \A e \in Call : e # c => /\ pc'[e] = pc[e] /\ callTx'[e] = callTx[e]
                                  /\ todo'[e] = todo[e] /\ clean'[e] = clean[e]
  BY <1>0 DEF TypeOK, Enter
<1>2. /\ state'[t] = "active" /\ \A u \in Tx : u # t => state'[u] = s[u]
      /\ operations'[t] = Append(operations[t], PendingOperation)
      /\ \A u \in Tx : u # t => operations'[u] = operations[u]
  BY <1>0 DEF TypeOK
<1>3. /\ DOMAIN operations'[t] = DOMAIN operations[t] \cup {n}
      /\ \A i \in DOMAIN operations[t] : operations'[t][i] = operations[t][i]
  <2>1. operations[t] \in Seq(Operation) /\ PendingOperation \in Operation
    BY <1>0 DEF TypeOK, PendingOperation, Operation
  <2> QED BY <1>2, <2>1
<1>4. CallersFit'
  <2>1. \A i \in DOMAIN operations'[t] : operations'[t][i].state = "pending" => todo'[c] = {i}
    BY <1>1, <1>3
  <2>2. \A u \in Tx : u # t => /\ operations'[u] = operations[u]
                               /\ InFlight(u) => state'[u] = state[u]
    BY <1>2
  <2>3. state'[t] \in Open /\ ~overdue[t]
    BY <1>2 DEF Open
  <2> HIDE DEF n, reserveOperation
  <2> QED BY <1>1, <2>1, <2>2, <2>3, CallerMoves, TxIsNotNoTx
<1>5. HolderIsLocked'
  <2>1. HoldsIn(s, complete, t)
    BY DEF HoldsIn, Open
  <2>2. document[t] \in Doc /\ lock[document[t]] = t
    BY <2>1 DEF HolderFit, HoldsIn
  <2> HIDE DEF n, reserveOperation
  <2> QED BY <1>2, <2>1, <2>2, HolderMoves
<1>6. RolledBackIsClean'
  BY <1>2 DEF DInv, RolledBackIsClean
<1> QED BY <1>4, <1>5, <1>6 DEF DInv

LEMMA ReserveDisciplinedStep ==
  ASSUME Orderly, IInv, DInv, NEW c \in Call, Reserve(c)
  PROVE  DInv'
<1>1. /\ callTx[c] \in Tx /\ \A e \in Call : e # c => callTx[e] # callTx[c]
      /\ \A i \in DOMAIN operations[callTx[c]] : operations[callTx[c]][i].state # "pending"
      /\ ~overdue[callTx[c]]
  BY BusyCall DEF Reserve, DInv, CallersFit, CallersStay
<1>2. /\ reserveOperation(state, c, callTx[c])
      /\ UNCHANGED <<document, overdue>>
      /\ rollbackComplete' = rollbackComplete /\ activeByDocument' = activeByDocument
  BY DEF Reserve
<1>3. state \in [Tx -> TransactionState \cup {"none"}]
  BY DEF IInv, TypeOK
<1>4. HolderFit(state, rollbackComplete, activeByDocument)
  BY FitNow
<1> QED BY <1>1, <1>2, <1>3, <1>4, ReserveDisciplined

LEMMA StartCreateDisciplined ==
  ASSUME Orderly, IInv, DInv, NEW c \in Call, NEW t \in Tx, StartCreate(c, t)
  PROVE  DInv'
<1>1. /\ reserveOperation(StateNow, c, t) /\ UNCHANGED <<document, overdue>>
      /\ rollbackComplete' = CompleteNow /\ activeByDocument' = LockNow
      /\ callTx[c] = NoTx /\ MayCall(t)
  BY DEF StartCreate, DInv, CallersFit, OneCallEach
<1>2. StateNow \in [Tx -> TransactionState \cup {"none"}]
  BY SweepStates DEF IInv
<1>3. /\ HolderFit(StateNow, CompleteNow, LockNow)
      /\ \A u \in Tx : InFlight(u) => StateNow[u] = state[u]
      /\ \A u \in Tx : StateNow[u] = "rolled-back" => state[u] = "rolled-back"
      /\ StateNow[t] \in Open => ~overdue[t]
  BY Swept
<1>4. /\ \A e \in Call : callTx[e] # t
      /\ \A i \in DOMAIN operations[t] : operations[t][i].state # "pending"
  BY <1>1, FreshCall
<1> QED BY <1>1, <1>2, <1>3, <1>4, ReserveDisciplined

LEMMA ReserveRefusedDisciplined ==
  ASSUME Orderly, IInv, DInv, NEW c \in Call, ReserveRefused(c)
  PROVE  DInv'
<1> USE DEF ReserveRefused, txVars
<1>1. /\ pc'[c] = "idle" /\ callTx'[c] = NoTx
      /\ \A e \in Call : e # c => /\ pc'[e] = pc[e] /\ callTx'[e] = callTx[e]
                                  /\ todo'[e] = todo[e] /\ clean'[e] = clean[e]
  BY ReturnIs DEF IInv
<1>2. CallersFit'
  BY <1>1, BusyCall, CallerMoves
<1>3. HolderIsLocked'
  BY FitNow, HoldersStay
<1>4. RolledBackIsClean'
  BY DEF DInv, RolledBackIsClean
<1> QED BY <1>2, <1>3, <1>4 DEF DInv

\* An outcome leaves no write of the transaction under way.
LEMMA SettleDisciplined ==
  ASSUME IInv, DInv, NEW c \in Call, pc[c] = "applying", NEW i \in todo[c],
         NEW to \in {"applied", "cancelled", "failed"},
         NEW comp \in {"undefined", "not-needed", "restored", "failed"},
         SetOperation(callTx[c], i, to, comp), Return(c), UNCHANGED <<document, overdue>>,
         \/ UNCHANGED <<state, rollbackComplete, activeByDocument>>
         \/ /\ state' = [state EXCEPT ![callTx[c]] = "failed"]
            /\ rollbackComplete' = [rollbackComplete EXCEPT ![callTx[c]] = "no"]
            /\ activeByDocument' = [activeByDocument EXCEPT ![document[callTx[c]]] = callTx[c]]
  PROVE  DInv'
<1> DEFINE t == callTx[c]
<1>0. TypeOK
  BY DEF IInv
<1>1. /\ t \in Tx /\ \A e \in Call : e # c => callTx[e] # t
      /\ \A j \in DOMAIN operations[t] : operations[t][j].state = "pending" => todo[c] = {j}
      /\ i \in DOMAIN operations[t]
      /\ state[t] \in Open
  BY BusyCall DEF IInv, CallsOK, ApplyingCalls, DInv, CallersFit, CallersStay
<1>2. HoldsIn(state, rollbackComplete, t) /\ document[t] \in Doc /\ activeByDocument[document[t]] = t
  BY <1>1 DEF DInv, HolderIsLocked, holdsDocumentLock, HoldsIn, Open
<1>3. /\ \A u \in Tx : u # t => operations'[u] = operations[u]
      /\ DOMAIN operations'[t] = DOMAIN operations[t]
      /\ \A j \in DOMAIN operations[t] :
           operations'[t][j] = IF j = i THEN [state |-> to, compensation |-> comp]
                                        ELSE operations[t][j]
  BY <1>0, <1>1, SetOperationEffect
<1>4. \A j \in DOMAIN operations'[t] : operations'[t][j].state # "pending"
  BY <1>1, <1>3
<1>5. /\ pc'[c] = "idle" /\ callTx'[c] = NoTx
      /\ \A e \in Call : e # c => /\ pc'[e] = pc[e] /\ callTx'[e] = callTx[e]
                                  /\ todo'[e] = todo[e] /\ clean'[e] = clean[e]
  BY <1>0, ReturnIs
<1>6. /\ \A u \in Tx : u # t => state'[u] = state[u] /\ rollbackComplete'[u] = rollbackComplete[u]
      /\ state'[t] \in Open \/ (state'[t] = "failed" /\ rollbackComplete'[t] = "no")
      /\ activeByDocument'[document[t]] = t
      /\ \A d \in Doc : d # document[t] => activeByDocument'[d] = activeByDocument[d]
  BY <1>0, <1>1, <1>2 DEF TypeOK
<1> HIDE DEF t
<1>7. CallersFit'
  BY <1>1, <1>3, <1>4, <1>5, <1>6, CallerMoves DEF t
<1>8. HolderIsLocked'
  BY <1>1, <1>2, <1>3, <1>6, FitNow, HolderMoves DEF Open
<1>9. RolledBackIsClean'
  BY <1>3, <1>6 DEF DInv, RolledBackIsClean, Open
<1> QED BY <1>7, <1>8, <1>9 DEF DInv

LEMMA AppliedDisciplined ==
  ASSUME Orderly, IInv, DInv, NEW c \in Call, Applied(c)
  PROVE  DInv'
<1>1. PICK i \in todo[c] :
        /\ pc[c] = "applying"
        /\ SetOperation(callTx[c], i, "applied", operations[callTx[c]][i].compensation)
        /\ Return(c)
        /\ UNCHANGED <<state, document, overdue, rollbackComplete, validations,
                       activeByDocument>>
  BY DEF Applied
<1>2. operations[callTx[c]][i].compensation \in {"undefined", "not-needed", "restored", "failed"}
  <2>1. callTx[c] \in Tx /\ i \in DOMAIN operations[callTx[c]]
    BY <1>1 DEF IInv, CallsOK, ApplyingCalls
  <2>2. operations[callTx[c]][i] \in Operation
    BY <2>1 DEF IInv, TypeOK
  <2> QED BY <2>2 DEF Operation
<1> QED BY <1>1, <1>2, SettleDisciplined

LEMMA CompensatedDisciplined ==
  ASSUME Orderly, IInv, DInv, NEW c \in Call, NEW comp \in {"not-needed", "restored"},
         Compensated(c, comp)
  PROVE  DInv'
BY SettleDisciplined DEF Compensated

LEMMA failTransactionDisciplined ==
  ASSUME Orderly, IInv, DInv, NEW c \in Call, failTransaction(c)
  PROVE  DInv'
BY SettleDisciplined DEF failTransaction

LEMMA StartValidateDisciplined ==
  ASSUME Orderly, IInv, DInv, NEW c \in Call, NEW t \in Tx, StartValidate(c, t)
  PROVE  DInv'
<1> USE DEF StartValidate
<1>0. TypeOK
  BY DEF IInv
<1>1. /\ pc'[c] = "validating" /\ callTx'[c] = t
      /\ \A e \in Call : e # c => /\ pc'[e] = pc[e] /\ callTx'[e] = callTx[e]
                                  /\ todo'[e] = todo[e] /\ clean'[e] = clean[e]
  BY <1>0, EnterIs
<1>2. callTx[c] = NoTx
  BY DEF DInv, CallersFit, OneCallEach
<1>3. /\ StateNow[t] \in Open /\ ~overdue[t] /\ HolderFit(StateNow, CompleteNow, LockNow)
      /\ \A u \in Tx : u # t /\ InFlight(u) => state'[u] = state[u]
      /\ \A u \in Tx : StateNow[u] = "rolled-back" => state[u] = "rolled-back"
  BY Swept, SweepStates DEF StateNow
<1>4. /\ state'[t] = "validating" /\ \A u \in Tx : u # t => state'[u] = StateNow[u]
      /\ rollbackComplete' = CompleteNow /\ activeByDocument' = LockNow
  BY <1>0, SweepStates
<1>5. CallersFit'
  BY <1>1, <1>2, <1>3, <1>4, FreshCall, CallerMoves, TxIsNotNoTx
<1>6. HoldsIn(StateNow, CompleteNow, t)
  BY <1>3 DEF HoldsIn, Open
<1>7. HolderIsLocked'
  <2>1. document[t] \in Doc /\ LockNow[document[t]] = t
    BY <1>3, <1>6 DEF HolderFit, HoldsIn
  <2> QED BY <1>3, <1>4, <1>6, <2>1, HolderMoves
<1>8. RolledBackIsClean'
  BY <1>3, <1>4 DEF DInv, RolledBackIsClean
<1> QED BY <1>5, <1>7, <1>8 DEF DInv

LEMMA FinishValidateDisciplined ==
  ASSUME Orderly, IInv, DInv, NEW c \in Call, NEW passed \in BOOLEAN, FinishValidate(c, passed)
  PROVE  DInv'
<1> DEFINE t == callTx[c]
<1> USE DEF FinishValidate
<1>0. TypeOK
  BY DEF IInv
<1>1. /\ t \in Tx /\ \A e \in Call : e # c => callTx[e] # t
      /\ \A j \in DOMAIN operations[t] : operations[t][j].state # "pending"
      /\ state[t] = "validating"
  BY BusyCall DEF IInv, CallsOK, ValidatingCalls
<1>2. /\ pc'[c] = "idle" /\ callTx'[c] = NoTx
      /\ \A e \in Call : e # c => /\ pc'[e] = pc[e] /\ callTx'[e] = callTx[e]
                                  /\ todo'[e] = todo[e] /\ clean'[e] = clean[e]
  BY <1>0, ReturnIs
<1>3. /\ state'[t] \in Open /\ \A u \in Tx : u # t => state'[u] = state[u]
      /\ UNCHANGED <<document, overdue, rollbackComplete, operations, activeByDocument>>
  BY <1>0, <1>1 DEF TypeOK, Open
<1>4. HoldsIn(state, rollbackComplete, t)
  BY <1>1 DEF HoldsIn
<1>5. document[t] \in Doc /\ activeByDocument[document[t]] = t
  BY <1>1, <1>4 DEF DInv, HolderIsLocked, holdsDocumentLock
<1> HIDE DEF t, FinishValidate
<1>6. CallersFit'
  BY <1>1, <1>2, <1>3, CallerMoves DEF t
<1>7. HolderIsLocked'
  BY <1>1, <1>3, <1>4, <1>5, FitNow, HolderMoves DEF Open
<1>8. RolledBackIsClean'
  BY <1>1, <1>3 DEF DInv, RolledBackIsClean, Open
<1> QED BY <1>6, <1>7, <1>8 DEF DInv

LEMMA CommitDisciplined ==
  ASSUME Orderly, IInv, DInv, NEW t \in Tx, Commit(t)
  PROVE  DInv'
<1> USE DEF Commit
<1>0. TypeOK
  BY DEF IInv
<1>1. /\ HolderFit(StateNow, CompleteNow, LockNow) /\ HoldsIn(StateNow, CompleteNow, t)
      /\ \A u \in Tx : InFlight(u) => StateNow[u] = state[u]
      /\ \A u \in Tx : StateNow[u] = "rolled-back" => state[u] = "rolled-back"
  BY Swept DEF HoldsIn
<1>2. /\ state'[t] = "committed" /\ \A u \in Tx : u # t => state'[u] = StateNow[u]
      /\ \A u \in Tx : u # t => rollbackComplete'[u] = CompleteNow[u]
      /\ \A d \in Doc : d # document[t] => activeByDocument'[d] = LockNow[d]
  BY <1>0, SweepStates
<1>3. CallersFit'
  BY <1>1, <1>2, FreshCall, CallersUntouched
<1>4. ~HoldsIn(state', rollbackComplete', t)
  BY <1>2 DEF HoldsIn
<1>5. HolderIsLocked'
  <2>1. state'[t] \notin {"none", "failed", "rolled-back", "expired"}
    BY <1>2
  <2>2. \A u \in Tx : u # t => /\ state'[u] = StateNow[u] /\ rollbackComplete'[u] = CompleteNow[u]
                               /\ operations'[u] = operations[u]
    BY <1>2
  <2>3. document' = document
    OBVIOUS
  <2>4. document[t] \in Doc /\ LockNow[document[t]] = t
    BY <1>1 DEF HolderFit, HoldsIn
  <2> HIDE DEF Commit
  <2> QED BY <1>1, <1>2, <1>4, <2>1, <2>2, <2>3, <2>4, HolderMoves
<1>6. RolledBackIsClean'
  BY <1>1, <1>2 DEF DInv, RolledBackIsClean
<1> QED BY <1>3, <1>5, <1>6 DEF DInv

\* What a rollback that failed at nothing leaves of an operation.
LEMMA NothingLeft ==
  ASSUME IInv, NEW t \in Tx, Candidates(t) = {},
         \A i \in DOMAIN operations[t] : operations[t][i].state # "pending"
  PROVE  \A i \in DOMAIN operations[t] : operations[t][i].state \in {"rolled-back", "cancelled"}
<1> SUFFICES ASSUME NEW i \in DOMAIN operations[t]
             PROVE  operations[t][i].state \in {"rolled-back", "cancelled"}
  OBVIOUS
<1>1. operations[t][i] \in Operation
  BY DEF IInv, TypeOK
<1>2. operations[t][i].state \notin {"pending", "applied", "failed"}
  BY DEF IInv, FailedIsCandidate, Candidates, Unresolved
<1> QED BY <1>1, <1>2 DEF Operation

LEMMA RollbackNothingDisciplined ==
  ASSUME Orderly, SparesLocks, IInv, DInv, NEW t \in Tx, RollbackNothing(t)
  PROVE  DInv'
<1> USE DEF RollbackNothing, MayRollBack
<1>0. TypeOK
  BY DEF IInv
<1>1. /\ HolderFit(StateNow, CompleteNow, LockNow)
      /\ \A u \in Tx : InFlight(u) => StateNow[u] = state[u]
      /\ \A u \in Tx : StateNow[u] = "rolled-back" => state[u] = "rolled-back"
  BY Swept
<1>2. document[t] \in Doc /\ LockNow[document[t]] \in {t, NoTx}
  BY <1>1 DEF HoldsIn, HolderFit, SparesLocks
<1>3. /\ state'[t] = "rolled-back" /\ \A u \in Tx : u # t => state'[u] = StateNow[u]
      /\ \A u \in Tx : u # t => rollbackComplete'[u] = CompleteNow[u]
      /\ \A d \in Doc : d # document[t] => activeByDocument'[d] = LockNow[d]
  BY <1>0, SweepStates DEF finalizeRollback
<1>4. CallersFit'
  BY <1>1, <1>3, FreshCall, CallersUntouched
<1>5. Candidates(t)' = {} /\ ~HoldsIn(state', rollbackComplete', t)
  BY <1>3, SameCandidates DEF HoldsIn
<1>6. HolderIsLocked'
  BY <1>1, <1>2, <1>3, <1>5, HolderMoves
<1>7. RolledBackIsClean'
  BY <1>1, <1>3, FreshCall, NothingLeft DEF DInv, RolledBackIsClean
<1> QED BY <1>4, <1>6, <1>7 DEF DInv

LEMMA StartRollbackDisciplined ==
  ASSUME Orderly, IInv, DInv, NEW c \in Call, NEW t \in Tx, StartRollback(c, t)
  PROVE  DInv'
<1> USE DEF StartRollback, MayRollBack
<1>0. TypeOK
  BY DEF IInv
<1>1. /\ HolderFit(StateNow, CompleteNow, LockNow)
      /\ \A u \in Tx : InFlight(u) => StateNow[u] = state[u]
      /\ \A u \in Tx : StateNow[u] = "rolled-back" => state[u] = "rolled-back"
  BY Swept
<1>2. HoldsIn(StateNow, CompleteNow, t)
  BY <1>1 DEF HoldsIn, HolderFit
<1>3. document[t] \in Doc /\ LockNow[document[t]] = t
  BY <1>1, <1>2 DEF HolderFit, HoldsIn
<1>4. /\ state'[t] = "rolling-back" /\ \A u \in Tx : u # t => state'[u] = StateNow[u]
      /\ rollbackComplete' = CompleteNow /\ activeByDocument' = LockNow
  BY <1>0, SweepStates
<1>5. /\ pc'[c] = "rolling" /\ callTx'[c] = t /\ todo'[c] = Candidates(t)
      /\ \A e \in Call : e # c => /\ pc'[e] = pc[e] /\ callTx'[e] = callTx[e]
                                  /\ todo'[e] = todo[e] /\ clean'[e] = clean[e]
  BY <1>0 DEF TypeOK, Enter
<1>6. CallersFit'
  <2>1. /\ Candidates(t)' = Candidates(t)
        /\ \A i \in DOMAIN operations'[t] : operations'[t][i].state = "applied" => i \in todo'[c]
    BY <1>5 DEF Candidates, Unresolved
  <2>2. callTx[c] = NoTx
    BY DEF DInv, CallersFit, OneCallEach
  <2>3. \A u \in Tx : u # t => /\ operations'[u] = operations[u]
                               /\ InFlight(u) => state'[u] = state[u]
    BY <1>1, <1>4
  <2>4. overdue' = overdue /\ operations' = operations /\ MayCall(t)
    OBVIOUS
  <2> HIDE DEF StartRollback
  <2> QED BY <1>4, <1>5, <2>1, <2>2, <2>3, <2>4, FreshCall, CallerMoves, TxIsNotNoTx
<1>7. HolderIsLocked'
  BY <1>1, <1>2, <1>3, <1>4, HolderMoves
<1>8. RolledBackIsClean'
  BY <1>1, <1>4 DEF DInv, RolledBackIsClean
<1> QED BY <1>6, <1>7, <1>8 DEF DInv

\* What a rolling call may rely on.
LEMMA RollingCall ==
  ASSUME IInv, DInv, NEW c \in Call, pc[c] = "rolling"
  PROVE  /\ callTx[c] \in Tx /\ \A e \in Call : e # c => callTx[e] # callTx[c]
         /\ callTx[c] # NoTx
         /\ \A j \in DOMAIN operations[callTx[c]] : operations[callTx[c]][j].state # "pending"
         /\ state[callTx[c]] = "rolling-back"
         /\ HoldsIn(state, rollbackComplete, callTx[c])
         /\ document[callTx[c]] \in Doc
         /\ activeByDocument[document[callTx[c]]] = callTx[c]
<1>1. /\ callTx[c] \in Tx /\ \A e \in Call : e # c => callTx[e] # callTx[c]
      /\ callTx[c] # NoTx
      /\ \A j \in DOMAIN operations[callTx[c]] : operations[callTx[c]][j].state # "pending"
      /\ state[callTx[c]] = "rolling-back"
  BY BusyCall DEF DInv, CallersFit, CallersStay
<1>2. HoldsIn(state, rollbackComplete, callTx[c])
  BY <1>1 DEF HoldsIn
<1> QED BY <1>1, <1>2 DEF DInv, HolderIsLocked, holdsDocumentLock

LEMMA RestoreOperationDisciplined ==
  ASSUME Orderly, IInv, DInv, NEW c \in Call, NEW restored \in BOOLEAN,
         RestoreOperation(c, restored)
  PROVE  DInv'
<1>0. TypeOK
  BY DEF IInv
<1>a. PICK t \in Tx : t = callTx[c]
  BY RollingCall DEF RestoreOperation
<1>1. /\ \A e \in Call : e # c => callTx[e] # t
      /\ t # NoTx
      /\ \A j \in DOMAIN operations[t] : operations[t][j].state # "pending"
      /\ state[t] = "rolling-back"
      /\ HoldsIn(state, rollbackComplete, t)
      /\ document[t] \in Doc /\ activeByDocument[document[t]] = t
  BY <1>a, RollingCall DEF RestoreOperation
<1>2. PICK i \in todo[c] :
        /\ IF restored THEN SetOperation(t, i, "rolled-back", "restored")
                       ELSE SetOperation(t, i, "failed", "failed")
        /\ todo' = [todo EXCEPT ![c] = @ \ {i}]
  BY <1>a DEF RestoreOperation, HighestLeft
<1>3. PICK to \in {"rolled-back", "failed"}, comp \in {"restored", "failed"} :
        /\ SetOperation(t, i, to, comp)
        /\ restored => to = "rolled-back"
  BY <1>2
<1>4. i \in DOMAIN operations[t]
  BY <1>a DEF IInv, CallsOK, RollingCalls, RestoreOperation
<1>5. /\ \A u \in Tx : u # t => operations'[u] = operations[u]
      /\ DOMAIN operations'[t] = DOMAIN operations[t]
      /\ \A j \in DOMAIN operations[t] :
           operations'[t][j] = IF j = i THEN [state |-> to, compensation |-> comp]
                                        ELSE operations[t][j]
  BY <1>0, <1>1, <1>3, <1>4, SetOperationEffect
<1>6. /\ pc'[c] = "rolling" /\ callTx'[c] = t /\ todo'[c] = todo[c] \ {i}
      /\ clean'[c] => clean[c] /\ restored
      /\ \A e \in Call : e # c => /\ pc'[e] = pc[e] /\ callTx'[e] = callTx[e]
                                  /\ todo'[e] = todo[e] /\ clean'[e] = clean[e]
  <2>1. /\ pc' = pc /\ callTx' = callTx /\ pc[c] = "rolling"
        /\ clean' = [clean EXCEPT ![c] = clean[c] /\ restored]
    BY DEF RestoreOperation
  <2>2. clean'[c] = (clean[c] /\ restored) /\ \A e \in Call : e # c => clean'[e] = clean[e]
    BY <1>0, <2>1, Zenon DEF TypeOK
  <2> QED BY <1>0, <1>a, <1>2, <2>1, <2>2 DEF TypeOK
<1>7. UNCHANGED <<state, document, overdue, rollbackComplete, activeByDocument>>
  BY DEF RestoreOperation
<1>8. /\ \A j \in DOMAIN operations'[t] : operations'[t][j].state = "applied" => j \in todo'[c]
      /\ clean'[c] => Candidates(t)' \subseteq todo'[c]
      /\ \A j \in DOMAIN operations'[t] : operations'[t][j].state # "pending"
  <2>1. /\ \A j \in DOMAIN operations[t] : operations[t][j].state = "applied" => j \in todo[c]
        /\ clean[c] => Candidates(t) \subseteq todo[c]
    BY <1>a DEF DInv, CallersFit, RollbackCovers, RestoreOperation
  <2>2. \A j \in DOMAIN operations'[t] :
          /\ j # i => operations'[t][j] = operations[t][j]
          /\ operations'[t][i].state = to
    BY <1>4, <1>5
  <2>3. \A j \in DOMAIN operations'[t] : operations'[t][j].state = "applied" => j \in todo'[c]
    BY <1>3, <1>5, <1>6, <2>1, <2>2
  <2>4. clean'[c] => Candidates(t)' \subseteq todo'[c]
    BY <1>3, <1>5, <1>6, <2>1, <2>2 DEF Candidates, Unresolved
  <2>5. \A j \in DOMAIN operations'[t] : operations'[t][j].state # "pending"
    BY <1>1, <1>3, <1>5, <2>2
  <2> QED BY <2>3, <2>4, <2>5
<1>9. CallersFit'
  BY <1>a, <1>1, <1>5, <1>6, <1>7, <1>8, CallerMoves
<1>10. HolderIsLocked'
  BY <1>1, <1>5, <1>7, FitNow, HolderMoves
<1>11. RolledBackIsClean'
  BY <1>1, <1>5, <1>7 DEF DInv, RolledBackIsClean
<1> QED BY <1>9, <1>10, <1>11 DEF DInv

LEMMA FinishRollbackDisciplined ==
  ASSUME Orderly, IInv, DInv, NEW c \in Call, FinishRollback(c)
  PROVE  DInv'
<1>0. TypeOK
  BY DEF IInv
<1>a. PICK t \in Tx : t = callTx[c]
  BY RollingCall DEF FinishRollback
<1>1. /\ \A e \in Call : e # c => callTx[e] # t
      /\ \A j \in DOMAIN operations[t] : operations[t][j].state # "pending"
      /\ HoldsIn(state, rollbackComplete, t)
      /\ document[t] \in Doc /\ activeByDocument[document[t]] = t
  BY <1>a, RollingCall DEF FinishRollback
<1>2. /\ pc'[c] = "idle" /\ callTx'[c] = NoTx
      /\ \A e \in Call : e # c => /\ pc'[e] = pc[e] /\ callTx'[e] = callTx[e]
                                  /\ todo'[e] = todo[e] /\ clean'[e] = clean[e]
  BY <1>0, ReturnIs DEF FinishRollback
<1>3. /\ \A u \in Tx : u # t => state'[u] = state[u] /\ rollbackComplete'[u] = rollbackComplete[u]
      /\ \/ clean[c] /\ state'[t] = "rolled-back"
         \/ state'[t] = "failed" /\ rollbackComplete'[t] = "no" /\ activeByDocument'[document[t]] = t
      /\ \A d \in Doc : d # document[t] => activeByDocument'[d] = activeByDocument[d]
      /\ UNCHANGED <<document, overdue, operations>>
  BY <1>0, <1>a, <1>1 DEF FinishRollback, finalizeRollback, TypeOK
<1>4. clean[c] => Candidates(t) = {}
  BY <1>a DEF FinishRollback, DInv, CallersFit, RollbackCovers
<1>5. state'[t] = "rolled-back" => Candidates(t)' = {} /\ ~HoldsIn(state', rollbackComplete', t)
  BY <1>1, <1>3, <1>4, SameCandidates DEF HoldsIn
<1>6. CallersFit'
  BY <1>a, <1>1, <1>2, <1>3, CallerMoves
<1>7. HolderIsLocked'
  BY <1>1, <1>3, <1>5, FitNow, HolderMoves
<1>8. RolledBackIsClean'
  BY <1>1, <1>3, <1>4, NothingLeft DEF DInv, RolledBackIsClean
<1> QED BY <1>6, <1>7, <1>8 DEF DInv

LEMMA StutterDisciplined ==
  ASSUME IInv, DInv, UNCHANGED vars
  PROVE  DInv'
<1> USE DEF vars, txVars
<1>1. CallersFit'
  BY CallersUntouched
<1>2. HolderIsLocked'
  BY FitNow, HoldersStay
<1>3. RolledBackIsClean'
  BY DEF DInv, RolledBackIsClean
<1> QED BY <1>1, <1>2, <1>3 DEF DInv

LEMMA InitDisciplined == Init => DInv
<1> SUFFICES ASSUME Init PROVE DInv
  OBVIOUS
<1>1. CallersFit
  BY TxIsNotNoTx
     DEF Init, CallersFit, OneCallEach, CallersStay, PendingIsWritten, RollbackCovers
<1>2. HolderIsLocked /\ RolledBackIsClean
  BY DEF Init, HolderIsLocked, holdsDocumentLock, HoldsIn, RolledBackIsClean
<1> QED BY <1>1, <1>2 DEF DInv

\* Every step of orderly clients that spares the locks keeps the invariant.
LEMMA NextDisciplined ==
  ASSUME Orderly, SparesLocks, IInv, DInv, [Next]_vars
  PROVE  DInv'
<1>1. ASSUME NEW t \in Tx, Client(t) PROVE DInv'
  BY <1>1, BeginDisciplined, DeadlineDisciplined, CommitDisciplined, RollbackNothingDisciplined,
     StartModifyOrDeleteDisciplined, StartCreateDisciplined, StartValidateDisciplined,
     StartRollbackDisciplined DEF Client
<1>2. ASSUME NEW c \in Call, Resume(c) PROVE DInv'
  BY <1>2, ReserveDisciplinedStep, ReserveRefusedDisciplined, AppliedDisciplined,
     CompensatedDisciplined, failTransactionDisciplined, FinishValidateDisciplined,
     RestoreOperationDisciplined, FinishRollbackDisciplined DEF Resume
<1> QED BY <1>1, <1>2, GetDisciplined, StutterDisciplined DEF Next

LEMMA LeavesLocks == Disciplined => SparesLocks
BY DEF Disciplined, SparesLocks, RollbackNothing, MayRollBack

\* The invariant of disciplined clients.
THEOREM DisciplinedInvariant ==
  ASSUME Disciplined
  PROVE  Spec => [](IInv /\ DInv)
<1>1. IInv /\ DInv /\ [Next]_vars => DInv'
  BY NextDisciplined, LeavesLocks DEF Disciplined
<1> QED BY <1>1, InitDisciplined, Invariant, PTL DEF Spec

LEMMA HoldersDiffer == DInv => OneHolder
BY DEF DInv, HolderIsLocked, OneHolder

\* Two transactions never hold the lock of one document, although the sweep,
\* failures and rollbacks take locks without a look at the holder.
THEOREM HolderIsUnique ==
  ASSUME Disciplined
  PROVE  Spec => []OneHolder
BY HoldersDiffer, DisciplinedInvariant, PTL

\* A write that may still be in the document keeps the document locked until
\* it is undone or committed.
THEOREM UnresolvedKeepsLock ==
  ASSUME Disciplined
  PROVE  Spec => []UnresolvedIsLocked
<1>1. IInv /\ DInv => UnresolvedIsLocked
  <2> SUFFICES ASSUME IInv, DInv, NEW t \in Tx,
                      state[t] \notin {"none", "committed"}, Candidates(t) # {}
               PROVE  activeByDocument[document[t]] = t
    BY DEF UnresolvedIsLocked
  <2>1. state[t] \in TransactionState
    BY DEF IInv, TypeOK
  <2> QED BY <2>1 DEF TransactionState, DInv, HolderIsLocked, holdsDocumentLock, HoldsIn
<1> QED BY <1>1, DisciplinedInvariant, PTL

\* A rollback that reports success left nothing in the document.
THEOREM RollbackIsComplete ==
  ASSUME Disciplined
  PROVE  Spec => []RolledBackIsClean
<1>1. DInv => RolledBackIsClean
  BY DEF DInv
<1> QED BY <1>1, DisciplinedInvariant, PTL

-----------------------------------------------------------------------------
(* The order of the restores.                                              *)

\* Only a rollback takes an applied operation back.
LEMMA AppliedKept ==
  ASSUME IInv, Next, \A c \in Call, restored \in BOOLEAN : ~RestoreOperation(c, restored),
         NEW t \in Tx, NEW i \in DOMAIN operations[t], operations[t][i].state = "applied"
  PROVE  operations'[t][i].state = "applied"
<1>0. TypeOK
  BY DEF IInv
<1>1. CASE operations' = operations
  BY <1>1
<1>2. ASSUME NEW c \in Call, NEW u \in Tx,
             operations' = [operations EXCEPT ![u] = Append(@, PendingOperation)]
      PROVE  operations'[t][i].state = "applied"
  <2>1. operations[t] \in Seq(Operation) /\ PendingOperation \in Operation
    BY <1>0 DEF TypeOK, PendingOperation, Operation
  <2>2. operations'[t] = operations[t] \/ operations'[t] = Append(operations[t], PendingOperation)
    BY <1>0, <1>2 DEF TypeOK
  <2> QED BY <2>1, <2>2
<1>3. ASSUME NEW c \in Call, pc[c] = "applying", NEW j \in todo[c], NEW to, NEW comp,
             SetOperation(callTx[c], j, to, comp)
      PROVE  operations'[t][i].state = "applied"
  <2>1. /\ callTx[c] \in Tx /\ j \in DOMAIN operations[callTx[c]]
        /\ operations[callTx[c]][j].state = "pending"
    BY <1>3 DEF IInv, CallsOK, ApplyingCalls
  <2>2. ~(callTx[c] = t /\ j = i)
    BY <2>1
  <2>3. operations'[t][i] = operations[t][i]
    BY <1>0, <1>3, <2>1, <2>2 DEF SetOperation, TypeOK
  <2> QED BY <2>3
<1>4. ASSUME NEW u \in Tx, Client(u) PROVE operations'[t][i].state = "applied"
  BY <1>1, <1>2, <1>4
     DEF Client, Begin, Deadline, Commit, RollbackNothing, StartModifyOrDelete, StartCreate,
         reserveOperation, StartValidate, StartRollback
<1>5. ASSUME NEW c \in Call, Resume(c) PROVE operations'[t][i].state = "applied"
  <2>1. CASE Reserve(c)
    <3>1. callTx[c] \in Tx
      BY <2>1 DEF IInv, CallsOK, SnapshotCalls, Reserve
    <3> QED BY <1>2, <2>1, <3>1 DEF Reserve, reserveOperation
  <2>2. CASE ReserveRefused(c) \/ (\E passed \in BOOLEAN : FinishValidate(c, passed)) \/ FinishRollback(c)
    BY <1>1, <2>2 DEF ReserveRefused, FinishValidate, FinishRollback, txVars
  <2>3. CASE Applied(c)
    BY <1>3, <2>3 DEF Applied
  <2>4. CASE \E comp \in {"not-needed", "restored"} : Compensated(c, comp)
    BY <1>3, <2>4 DEF Compensated
  <2>5. CASE failTransaction(c)
    BY <1>3, <2>5 DEF failTransaction
  <2> QED BY <1>5, <2>1, <2>2, <2>3, <2>4, <2>5 DEF Resume
<1>6. CASE Get
  BY <1>1, <1>6 DEF Get
<1> QED BY <1>4, <1>5, <1>6 DEF Next

\* A restore finds every later operation attempted, and no write under way.
LEMMA RestoreIsLast ==
  ASSUME IInv, DInv, NEW c \in Call, NEW restored \in BOOLEAN, RestoreOperation(c, restored),
         NEW t \in Tx, NEW i \in DOMAIN operations[t], NEW j \in DOMAIN operations[t], i < j,
         operations[t][i].state = "applied", operations'[t][i].state # "applied"
  PROVE  operations[t][j].state \notin {"pending", "applied"}
<1>0. TypeOK
  BY DEF IInv
<1>1. PICK k \in todo[c] :
        /\ \A l \in todo[c] : l <= k
        /\ \E to \in {"rolled-back", "failed"}, comp \in {"restored", "failed"} :
             SetOperation(callTx[c], k, to, comp)
  BY DEF RestoreOperation, HighestLeft
<1>2. /\ callTx[c] \in Tx
      /\ \A l \in DOMAIN operations[callTx[c]] : operations[callTx[c]][l].state # "pending"
  BY RollingCall DEF RestoreOperation
<1>3. callTx[c] = t /\ k = i
  BY <1>0, <1>1, <1>2 DEF SetOperation, TypeOK
<1>4. i \in Nat /\ j \in Nat
  BY <1>0 DEF TypeOK
<1>5. j \notin todo[c]
  BY <1>1, <1>3, <1>4
<1> QED BY <1>2, <1>3, <1>5 DEF DInv, CallersFit, RollbackCovers, RestoreOperation

\* Operations are taken back in the reverse of the order they were made in,
\* and none before every write of the transaction has its outcome.
THEOREM RollbackIsReversed ==
  ASSUME Disciplined
  PROVE  Spec => ReverseOrder
<1> DEFINE Reversed ==
      \A t \in Tx : \A i, j \in DOMAIN operations[t] :
        i < j /\ operations[t][i].state = "applied" /\ operations'[t][i].state # "applied"
          => operations[t][j].state \notin {"pending", "applied"}
<1>1. IInv /\ DInv /\ [Next]_vars => [Reversed]_vars
  <2> SUFFICES ASSUME IInv, DInv, Next PROVE Reversed
    BY DEF vars
  <2> QED BY AppliedKept, RestoreIsLast
<1> QED BY <1>1, DisciplinedInvariant, PTL DEF Spec, ReverseOrder

-----------------------------------------------------------------------------
(***************************************************************************)
(* The refinement of DocumentLock.  A begin is a grant that may free locks *)
(* of stale transactions first; every other step frees some locks or none. *)
(***************************************************************************)
FreesLocks ==
  /\ \A d \in Doc : activeByDocument'[d] \in {activeByDocument[d], NoTx}
  /\ \A t \in Tx : state'[t] = "none" <=> state[t] = "none"
  /\ document' = document

\* Taking or freeing the lock one owns already frees it or nothing.
LEMMA OwnLock ==
  ASSUME TypeOK, NEW lock \in [Doc -> Tx \cup {NoTx}],
         \A d \in Doc : lock[d] \in {activeByDocument[d], NoTx},
         NEW t \in Tx, activeByDocument[document[t]] = t,
         NEW to \in {t, NoTx}, activeByDocument' = [lock EXCEPT ![document[t]] = to]
  PROVE  \A d \in Doc : activeByDocument'[d] \in {activeByDocument[d], NoTx}
OBVIOUS

\* Who holds a lock after the sweep owned it before.
LEMMA HolderOwns ==
  ASSUME Orderly, IInv, DInv, NEW t \in Tx,
         StateNow[t] \in {"active", "validated", "failed"}
  PROVE  document[t] \in Doc /\ activeByDocument[document[t]] = t
<1>1. HolderFit(StateNow, CompleteNow, LockNow)
  BY Swept
<1>2. HoldsIn(StateNow, CompleteNow, t)
  BY <1>1 DEF HolderFit, HoldsIn
<1>3. document[t] \in Doc /\ LockNow[document[t]] = t
  BY <1>1, <1>2 DEF HolderFit, HoldsIn
<1> QED BY <1>3, Swept, TxIsNotNoTx

\* No client but one that begins a transaction is granted a lock.
LEMMA ClientFrees ==
  ASSUME Orderly, SparesLocks, IInv, DInv, NEW t \in Tx, Client(t), \A d \in Doc : ~Begin(t, d)
  PROVE  FreesLocks
<1>0. TypeOK
  BY DEF IInv
<1>1. /\ LockNow \in [Doc -> Tx \cup {NoTx}]
      /\ StateNow \in [Tx -> TransactionState \cup {"none"}]
      /\ \A d \in Doc : LockNow[d] \in {activeByDocument[d], NoTx}
      /\ \A u \in Tx : StateNow[u] = "none" <=> state[u] = "none"
  BY <1>0, SweepStates, Swept
<1>2. CASE Deadline(t)
  BY <1>2 DEF Deadline, FreesLocks
<1>3. CASE Commit(t)
  <2>1. /\ StateNow[t] = "validated" /\ document' = document
        /\ state' = [StateNow EXCEPT ![t] = "committed"]
        /\ activeByDocument' = [LockNow EXCEPT ![document[t]] = NoTx]
    BY <1>3 DEF Commit
  <2> QED BY <1>0, <1>1, <2>1, HolderOwns, OwnLock DEF FreesLocks
<1>4. CASE RollbackNothing(t)
  <2>1. /\ StateNow[t] \in {"active", "validated", "failed", "expired"} /\ document' = document
        /\ StateNow[t] = "expired" => LockNow[document[t]] = NoTx
        /\ state' = [StateNow EXCEPT ![t] = "rolled-back"]
        /\ activeByDocument' = [LockNow EXCEPT ![document[t]] = NoTx]
    BY <1>4 DEF RollbackNothing, MayRollBack, finalizeRollback, SparesLocks
  <2>2. CASE StateNow[t] = "expired"
    BY <1>0, <1>1, <2>1, <2>2 DEF FreesLocks
  <2>3. CASE StateNow[t] # "expired"
    BY <1>0, <1>1, <2>1, <2>3, HolderOwns, OwnLock DEF FreesLocks
  <2> QED BY <2>2, <2>3
<1>5. ASSUME NEW c \in Call, StartModifyOrDelete(c, t) PROVE FreesLocks
  BY <1>1, <1>5 DEF StartModifyOrDelete, Sweep, FreesLocks
<1>6. ASSUME NEW c \in Call,
             StartCreate(c, t) \/ StartValidate(c, t) \/ StartRollback(c, t)
      PROVE  FreesLocks
  <2>1. /\ activeByDocument' = LockNow /\ document' = document
        /\ \E s \in {"active", "validating", "rolling-back"} : state' = [StateNow EXCEPT ![t] = s]
        /\ StateNow[t] # "none"
    BY <1>6 DEF StartCreate, reserveOperation, StartValidate, StartRollback, MayRollBack, Open
  <2> QED BY <1>1, <2>1 DEF FreesLocks
<1> QED BY <1>2, <1>3, <1>4, <1>5, <1>6 DEF Client

\* Nor is a call in flight.
LEMMA ResumeFrees ==
  ASSUME Orderly, IInv, DInv, NEW c \in Call, Resume(c)
  PROVE  FreesLocks
<1>0. TypeOK
  BY DEF IInv
<1>1. CASE UNCHANGED <<state, document, activeByDocument>>
  BY <1>1 DEF FreesLocks
<1>2. pc[c] # "idle" => /\ callTx[c] \in Tx
                        /\ state[callTx[c]] \in {"active", "validating", "validated", "rolling-back"}
  BY BusyCall DEF IInv, TypeOK, CallsOK, ValidatingCalls, DInv, CallersFit, CallersStay, Open
<1>3. pc[c] # "idle" => /\ document[callTx[c]] \in Doc
                        /\ activeByDocument[document[callTx[c]]] = callTx[c]
  BY <1>2 DEF DInv, HolderIsLocked, holdsDocumentLock, HoldsIn
<1>4. CASE Reserve(c)
  BY <1>0, <1>2, <1>4 DEF Reserve, reserveOperation, FreesLocks, TypeOK
<1>5. CASE \E passed \in BOOLEAN : FinishValidate(c, passed)
  BY <1>0, <1>2, <1>5 DEF FinishValidate, FreesLocks, TypeOK
<1>6. CASE failTransaction(c) \/ FinishRollback(c)
  <2>1. PICK to \in {callTx[c], NoTx}, s \in {"rolled-back", "failed"} :
          /\ pc[c] # "idle" /\ document' = document
          /\ state' = [state EXCEPT ![callTx[c]] = s]
          /\ activeByDocument' = [activeByDocument EXCEPT ![document[callTx[c]]] = to]
    BY <1>6 DEF failTransaction, FinishRollback, finalizeRollback
  <2>2. \A d \in Doc : activeByDocument'[d] \in {activeByDocument[d], NoTx}
    BY <1>0, <1>3, <2>1 DEF TypeOK
  <2> QED BY <1>0, <1>2, <2>1, <2>2 DEF FreesLocks, TypeOK
<1>7. CASE \/ ReserveRefused(c) \/ Applied(c)
           \/ \E comp \in {"not-needed", "restored"} : Compensated(c, comp)
           \/ \E restored \in BOOLEAN : RestoreOperation(c, restored)
  BY <1>1, <1>7 DEF ReserveRefused, Applied, Compensated, RestoreOperation, txVars
<1> QED BY <1>4, <1>5, <1>6, <1>7 DEF Resume

\* Freed locks are released ones.
LEMMA FreesIsRelease ==
  ASSUME IInv, IInv', DInv, FreesLocks
  PROVE  Lock!Next
<1>a. PICK R \in SUBSET Doc :
        R = {d \in Doc : activeByDocument[d] # NoTx /\ activeByDocument'[d] = NoTx}
  OBVIOUS
<1>0. TypeOK /\ TypeOK'
  BY DEF IInv
<1>1. R \in SUBSET Lock!Held
  BY <1>a DEF Lock!Held
<1>2. activeByDocument' = Lock!Freed(R)
  BY <1>0, <1>a DEF TypeOK, FreesLocks, Lock!Freed
<1>3. ASSUME NEW t \in Tx
      PROVE  state'[t] # "none" /\ activeByDocument'[document'[t]] # t
               <=> \/ state[t] # "none" /\ activeByDocument[document[t]] # t
                   \/ t \in Lock!Losers(R)
  <2>1. state[t] # "none" => document[t] \in Doc
    BY DEF DInv, HolderIsLocked
  <2>2. ASSUME NEW d \in Doc, activeByDocument[d] = t
        PROVE  document[t] = d /\ state[t] # "none"
    BY <2>2, TxIsNotNoTx DEF IInv, LockRefersToHolder, holdsDocumentLock, HoldsIn
  <2>3. t \in Lock!Losers(R) <=> \E d \in Doc : activeByDocument[d] = t /\ activeByDocument'[d] = NoTx
    BY <1>a, TxIsNotNoTx DEF Lock!Losers
  <2> QED BY <2>1, <2>2, <2>3, TxIsNotNoTx DEF FreesLocks
<1>4. {t \in Tx : state'[t] # "none" /\ activeByDocument'[document'[t]] # t}
        = {t \in Tx : state[t] # "none" /\ activeByDocument[document[t]] # t} \cup Lock!Losers(R)
  <2>1. Lock!Losers(R) \subseteq Tx
    BY <1>0, <1>a, TxIsNotNoTx DEF Lock!Losers, TypeOK
  <2> QED BY <1>3, <2>1
<1>5. Lock!Release(R)
  BY <1>2, <1>4 DEF Lock!Release
<1> QED BY <1>1, <1>5 DEF Lock!Next

\* A begin is the grant of a lock that the sweep has left free.
LEMMA BeginIsGrant ==
  ASSUME Orderly, IInv, IInv', DInv, NEW t \in Tx, NEW d \in Doc, Begin(t, d)
  PROVE  Lock!Next
<1> DEFINE R == {e \in Doc : activeByDocument[e] # NoTx /\ LockNow[e] = NoTx}
<1>0. TypeOK /\ TypeOK'
  BY DEF IInv
<1>1. R \in SUBSET Lock!Held
  BY DEF Lock!Held
<1>2. /\ LockNow \in [Doc -> Tx \cup {NoTx}]
      /\ \A e \in Doc : LockNow[e] \in {activeByDocument[e], NoTx}
  BY <1>0, SweepStates, Swept
<1>3. LockNow = Lock!Freed(R)
  BY <1>0, <1>2 DEF TypeOK, Lock!Freed
<1>4. LockNow[d] = NoTx
  BY <1>0, SweepLocks DEF IInv, Begin, DocumentLocked
<1>5. /\ state[t] = "none" /\ state'[t] = "active"
      /\ \A u \in Tx : u # t => (state'[u] = "none" <=> state[u] = "none")
  BY <1>0, SweepStates, Swept DEF Begin, TypeOK
<1>6. /\ activeByDocument' = [LockNow EXCEPT ![d] = t]
      /\ document'[t] = d /\ \A u \in Tx : u # t => document'[u] = document[u]
  BY <1>0 DEF Begin, TypeOK
<1>7. \A u \in Tx : \A e \in Doc : activeByDocument[e] = u => document[u] = e /\ state[u] # "none"
  BY TxIsNotNoTx DEF IInv, LockRefersToHolder, holdsDocumentLock, HoldsIn
<1>8. ASSUME NEW u \in Tx
      PROVE  state'[u] # "none" /\ activeByDocument'[document'[u]] # u
               <=> \/ state[u] # "none" /\ activeByDocument[document[u]] # u
                   \/ u \in Lock!Losers(R)
  <2>1. state[u] # "none" => document[u] \in Doc
    BY DEF DInv, HolderIsLocked
  <2>2. u \in Lock!Losers(R) <=> \E e \in Doc : activeByDocument[e] = u /\ LockNow[e] = NoTx
    BY TxIsNotNoTx DEF Lock!Losers
  <2> HIDE DEF R
  <2>3. CASE u = t
    BY <1>2, <1>5, <1>6, <1>7, <2>2, <2>3
  <2>4. CASE u # t
    BY <1>2, <1>4, <1>5, <1>6, <1>7, <2>1, <2>2, <2>4, TxIsNotNoTx
  <2> QED BY <2>3, <2>4
<1>9. {u \in Tx : state'[u] # "none" /\ activeByDocument'[document'[u]] # u}
        = {u \in Tx : state[u] # "none" /\ activeByDocument[document[u]] # u} \cup Lock!Losers(R)
  <2>1. Lock!Losers(R) \subseteq Tx
    BY <1>0 DEF Lock!Losers, TypeOK
  <2> QED BY <1>8, <2>1
<1>10. Lock!Grant(R, d, t)
  BY <1>3, <1>4, <1>5, <1>6, <1>7, <1>9 DEF Lock!Grant
<1> HIDE DEF R
<1> QED BY <1>1, <1>10 DEF Lock!Next

\* Every step that spares the locks is a grant, a release or neither.
LEMMA NextIsLocks ==
  ASSUME Orderly, SparesLocks, IInv, IInv', DInv, [Next]_vars
  PROVE  [Lock!Next]_Lock!lockVars
<1>1. CASE Get
  <2>1. FreesLocks
    BY <1>1, Swept DEF Get, Sweep, FreesLocks
  <2> QED BY <2>1, FreesIsRelease
<1>2. ASSUME NEW t \in Tx, Client(t) PROVE Lock!Next
  BY <1>2, ClientFrees, FreesIsRelease, BeginIsGrant
<1>3. ASSUME NEW c \in Call, Resume(c) PROVE Lock!Next
  BY <1>3, ResumeFrees, FreesIsRelease
<1>4. CASE UNCHANGED vars
  BY <1>4 DEF vars, txVars, Lock!lockVars
<1> QED BY <1>1, <1>2, <1>3, <1>4 DEF Next

LEMMA InitIsLocks == Init => Lock!Init
BY DEF Init, Lock!Init

\* The manager implements the abstract lock: no lock changes hands without
\* being freed, and nobody who lost one owns one again.
THEOREM ManagerImplementsLock ==
  ASSUME Disciplined
  PROVE  Spec => ImplementsDocumentLock
<1>1. IInv /\ IInv' /\ DInv /\ [Next]_vars => [Lock!Next]_Lock!lockVars
  BY NextIsLocks, LeavesLocks DEF Disciplined
<1> QED BY <1>1, InitIsLocks, Invariant, DisciplinedInvariant, PTL
        DEF Spec, ImplementsDocumentLock, Lock!LockSpec
=============================================================================
