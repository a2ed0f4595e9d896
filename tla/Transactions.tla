---------------------------- MODULE Transactions ----------------------------
(***************************************************************************)
(* The TransactionManager of src/transactions/manager.ts: document-scoped  *)
(* transactions over schematic writes, and the one lock every document     *)
(* has.                                                                    *)
(*                                                                         *)
(* The manager lives in one JavaScript process.  A method runs without     *)
(* interruption up to its next await, so the calls in flight interleave    *)
(* exactly there: a modify or a delete before it reserves its operation    *)
(* (it reads the before-snapshot first), every operation between its       *)
(* reservation and its outcome, a validation while its gates run, and a    *)
(* rollback between two operations it restores.  The awaits inside one of  *)
(* these stretches touch no state of the manager and are one wait here.    *)
(* What the hooks do to the document is left to their outcome.             *)
(*                                                                         *)
(* Every public method first sweeps the stale transactions                 *)
(* (expireStaleTransactions); StateNow, CompleteNow and LockNow are the    *)
(* state that sweep leaves.                                                *)
(***************************************************************************)
EXTENDS Naturals, Sequences

CONSTANTS
  MaxTx,          (* Number of transactions begun.  Bounds the model.      *)
  Doc,            (* Documents.                                            *)
  NoDoc,          (* The document of a transaction that has not begun.     *)
  Call,           (* Calls that can be in flight at one time.              *)
  MaxOperations,  (* maxOperations of each transaction, given to begin.    *)
  SerialCalls,    (* Clients have one call of a transaction in flight.     *)
  TimelyCalls,    (* No deadline passes while a call is in flight.         *)
  LeaveExpired    (* Clients do not roll back an expired transaction.      *)

ASSUME BoundsAssumption == /\ MaxTx \in Nat
                           /\ MaxOperations \in [1..MaxTx -> Nat \ {0}]
ASSUME DocAssumption == NoDoc \notin Doc
ASSUME ClientAssumption == /\ SerialCalls \in BOOLEAN
                           /\ TimelyCalls \in BOOLEAN
                           /\ LeaveExpired \in BOOLEAN

Tx   == 1..MaxTx    \* in the order of the calls to begin
NoTx == 0

VARIABLES
  state,             (* The state of each transaction, "none" before begin. *)
  document,          (* The document each transaction is scoped to.         *)
  overdue,           (* Its expiresAt has passed.                           *)
  rollbackComplete,  (* undefined, true or false.                           *)
  operations,        (* Its operations, in sequence order.                  *)
  validations,       (* The verdict of its gates, and what they judged.     *)
  activeByDocument,  (* The lock of each document.                          *)
  pc,                (* Where each call awaits.                             *)
  callTx,            (* The transaction the call is about.                  *)
  todo,              (* The operations (by sequence) it has yet to settle.  *)
  clean,             (* A rollback: no operation failed so far.             *)
  seen               (* A validation: the operations its gates were given.  *)

txVars   == <<state, document, overdue, rollbackComplete, operations, validations>>
callVars == <<pc, callTx, todo, clean, seen>>
vars     == <<txVars, activeByDocument, callVars>>

TransactionState ==
  {"active", "validating", "validated", "committed",
   "rolling-back", "rolled-back", "failed", "expired"}
Open == {"active", "validated"}

Operation ==
  [state        : {"pending", "applied", "rolled-back", "cancelled", "failed"},
   compensation : {"undefined", "not-needed", "restored", "failed"}]
PendingOperation == [state |-> "pending", compensation |-> "undefined"]

Verdict   == [passed : BOOLEAN, judged : Seq(Operation)]
NoVerdict == [passed |-> FALSE, judged |-> <<>>]

TypeOK ==
  /\ state \in [Tx -> TransactionState \cup {"none"}]
  /\ document \in [Tx -> Doc \cup {NoDoc}]
  /\ overdue \in [Tx -> BOOLEAN]
  /\ rollbackComplete \in [Tx -> {"undefined", "yes", "no"}]
  /\ operations \in [Tx -> Seq(Operation)]
  /\ validations \in [Tx -> Verdict]
  /\ activeByDocument \in [Doc -> Tx \cup {NoTx}]
  /\ pc \in [Call -> {"idle", "snapshot", "applying", "validating", "rolling"}]
  /\ callTx \in [Call -> Tx \cup {NoTx}]
  /\ todo \in [Call -> SUBSET Nat]
  /\ clean \in [Call -> BOOLEAN]
  /\ seen \in [Call -> Seq(Operation)]
  /\ \A t \in Tx : Len(operations[t]) <= MaxOperations[t]

Init ==
  /\ state = [t \in Tx |-> "none"]
  /\ document = [t \in Tx |-> NoDoc]
  /\ overdue = [t \in Tx |-> FALSE]
  /\ rollbackComplete = [t \in Tx |-> "undefined"]
  /\ operations = [t \in Tx |-> <<>>]
  /\ validations = [t \in Tx |-> NoVerdict]
  /\ activeByDocument = [d \in Doc |-> NoTx]
  /\ pc = [c \in Call |-> "idle"]
  /\ callTx = [c \in Call |-> NoTx]
  /\ todo = [c \in Call |-> {}]
  /\ clean = [c \in Call |-> TRUE]
  /\ seen = [c \in Call |-> <<>>]

-----------------------------------------------------------------------------
(* The sweep of stale transactions.                                        *)

\* A write that may still be in the document: rollback has to undo it.
Unresolved(op) ==
  \/ op.state = "applied"
  \/ op.state = "failed" /\ op.compensation = "failed"

Candidates(t) == {i \in DOMAIN operations[t] : Unresolved(operations[t][i])}

Stale == {t \in Tx : state[t] \in Open /\ overdue[t]}

StateNow ==
  [t \in Tx |-> IF t \notin Stale THEN state[t]
                ELSE IF Candidates(t) # {} THEN "failed" ELSE "expired"]

CompleteNow ==
  [t \in Tx |-> IF t \in Stale /\ Candidates(t) # {} THEN "no"
                ELSE rollbackComplete[t]]

\* The sweep visits transactions in the order they began, each setting or
\* deleting the lock of its document: the last stale one on it decides.
StaleOn(d) == {t \in Stale : document[t] = d}
\* Mutant: an expired transaction is never locked again.
Relocked_Never(d) == {}

Relocked(d) ==
  {t \in StaleOn(d) : Candidates(t) # {} /\ \A u \in StaleOn(d) : u <= t}
LockNow ==
  [d \in Doc |-> IF StaleOn(d) = {} THEN activeByDocument[d]
                 ELSE IF Relocked(d) = {} THEN NoTx
                 ELSE CHOOSE t \in Relocked(d) : TRUE]

Sweep ==
  /\ state' = StateNow
  /\ rollbackComplete' = CompleteNow
  /\ activeByDocument' = LockNow

\* Mutant: a failed transaction gives its lock away.
HoldsIn_OpenOnly(s, complete, t) ==
  s[t] \in {"active", "validating", "validated", "rolling-back"}

HoldsIn(s, complete, t) ==
  \/ s[t] \in {"active", "validating", "validated", "rolling-back"}
  \/ s[t] = "failed" /\ complete[t] = "no"

holdsDocumentLock(t) == HoldsIn(state, rollbackComplete, t)

-----------------------------------------------------------------------------
(* begin, get and the calls that are refused after the sweep.              *)

InFlight(t) == \E c \in Call : callTx[c] = t
MayCall(t)  == SerialCalls => ~InFlight(t)

DocumentLocked(d) ==
  /\ LockNow[d] # NoTx
  /\ HoldsIn(StateNow, CompleteNow, LockNow[d])

Begin(t, d) ==
  /\ state[t] = "none"
  /\ \A u \in Tx : u < t => state[u] # "none"
  /\ ~DocumentLocked(d)
  /\ state' = [StateNow EXCEPT ![t] = "active"]
  /\ rollbackComplete' = CompleteNow
  /\ activeByDocument' = [LockNow EXCEPT ![d] = t]
  /\ document' = [document EXCEPT ![t] = d]
  /\ UNCHANGED <<overdue, operations, validations, callVars>>

Get ==
  /\ Stale # {}
  /\ Sweep
  /\ UNCHANGED <<document, overdue, operations, validations, callVars>>

\* Time: only a transaction that can still become active is ever looked at.
Deadline(t) ==
  /\ state[t] \in {"active", "validating", "validated"}
  /\ ~overdue[t]
  /\ TimelyCalls => ~InFlight(t)
  /\ overdue' = [overdue EXCEPT ![t] = TRUE]
  /\ UNCHANGED <<state, document, rollbackComplete, operations, validations,
                 activeByDocument, callVars>>

-----------------------------------------------------------------------------
(* The life of a call.                                                     *)

Enter(c, t, where, left) ==
  /\ pc' = [pc EXCEPT ![c] = where]
  /\ callTx' = [callTx EXCEPT ![c] = t]
  /\ todo' = [todo EXCEPT ![c] = left]
  /\ clean' = [clean EXCEPT ![c] = TRUE]

\* A call that returns forgets its local variables.
Return(c) ==
  /\ pc' = [pc EXCEPT ![c] = "idle"]
  /\ callTx' = [callTx EXCEPT ![c] = NoTx]
  /\ todo' = [todo EXCEPT ![c] = {}]
  /\ clean' = [clean EXCEPT ![c] = TRUE]
  /\ seen' = [seen EXCEPT ![c] = <<>>]

-----------------------------------------------------------------------------
(* runModify, runCreate and runDelete.                                     *)

\* A modify or a delete reads the before-snapshot before it reserves.
StartModifyOrDelete(c, t) ==
  /\ pc[c] = "idle"
  /\ MayCall(t)
  /\ StateNow[t] \in Open
  /\ Sweep
  /\ Enter(c, t, "snapshot", {})
  /\ UNCHANGED <<document, overdue, operations, validations, seen>>

\* Mutants: no look at the limit; no second look at the state.
reserveOperation_NoLimit(s, c, t) ==
  /\ s[t] \in Open
  /\ operations' = [operations EXCEPT ![t] = Append(@, PendingOperation)]
  /\ validations' = [validations EXCEPT ![t] = NoVerdict]
  /\ state' = [s EXCEPT ![t] = "active"]
  /\ Enter(c, t, "applying", {Len(operations[t]) + 1})

reserveOperation_NoState(s, c, t) ==
  /\ s[t] # "none"
  /\ Len(operations[t]) < MaxOperations[t]
  /\ operations' = [operations EXCEPT ![t] = Append(@, PendingOperation)]
  /\ validations' = [validations EXCEPT ![t] = NoVerdict]
  /\ state' = [s EXCEPT ![t] = "active"]
  /\ Enter(c, t, "applying", {Len(operations[t]) + 1})

\* reserveOperation: s is the state the manager is in when it is called.
reserveOperation(s, c, t) ==
  /\ s[t] \in Open
  /\ Len(operations[t]) < MaxOperations[t]
  /\ operations' = [operations EXCEPT ![t] = Append(@, PendingOperation)]
  /\ validations' = [validations EXCEPT ![t] = NoVerdict]
  /\ state' = [s EXCEPT ![t] = "active"]
  /\ Enter(c, t, "applying", {Len(operations[t]) + 1})

Reserve(c) ==
  /\ pc[c] = "snapshot"
  /\ reserveOperation(state, c, callTx[c])
  /\ UNCHANGED <<document, overdue, rollbackComplete, activeByDocument, seen>>

\* The snapshot cannot be read or is too large, or the transaction is no
\* longer open or is full.
ReserveRefused(c) ==
  /\ pc[c] = "snapshot"
  /\ Return(c)
  /\ UNCHANGED <<txVars, activeByDocument>>

\* A create has nothing to read and reserves as it starts.
StartCreate(c, t) ==
  /\ pc[c] = "idle"
  /\ MayCall(t)
  /\ reserveOperation(StateNow, c, t)
  /\ rollbackComplete' = CompleteNow
  /\ activeByDocument' = LockNow
  /\ UNCHANGED <<document, overdue, seen>>

\* Mutant: the failure of the compensation is not recorded.
SetOperation_NoCompensation(t, i, to, comp) ==
  operations' = [operations EXCEPT ![t][i].state = to]

SetOperation(t, i, to, comp) ==
  operations' = [operations EXCEPT ![t][i] = [state |-> to, compensation |-> comp]]

\* The write and the read after it succeeded.
Applied(c) ==
  \E i \in todo[c] :
    /\ pc[c] = "applying"
    /\ SetOperation(callTx[c], i, "applied", operations[callTx[c]][i].compensation)
    /\ Return(c)
    /\ UNCHANGED <<state, document, overdue, rollbackComplete, validations,
                   activeByDocument>>

\* The write failed and left nothing behind, or what it left was undone.
Compensated(c, comp) ==
  \E i \in todo[c] :
    /\ pc[c] = "applying"
    /\ SetOperation(callTx[c], i, "cancelled", comp)
    /\ Return(c)
    /\ UNCHANGED <<state, document, overdue, rollbackComplete, validations,
                   activeByDocument>>

\* It failed and so did its compensation: failTransaction.  Neither the state
\* of the transaction nor the holder of the lock is looked at again.
failTransaction(c) ==
  \E i \in todo[c] :
    /\ pc[c] = "applying"
    /\ SetOperation(callTx[c], i, "failed", "failed")
    /\ state' = [state EXCEPT ![callTx[c]] = "failed"]
    /\ rollbackComplete' = [rollbackComplete EXCEPT ![callTx[c]] = "no"]
    /\ activeByDocument' = [activeByDocument EXCEPT ![document[callTx[c]]] = callTx[c]]
    /\ Return(c)
    /\ UNCHANGED <<document, overdue, validations>>

-----------------------------------------------------------------------------
(* validate and commit.                                                    *)

Unsettled(t) ==
  \E i \in DOMAIN operations[t] : operations[t][i].state \in {"pending", "failed"}

\* Mutant: pending operations are not looked for.
StartValidate_Pending(c, t) ==
  /\ pc[c] = "idle"
  /\ MayCall(t)
  /\ StateNow[t] \in Open
  /\ state' = [StateNow EXCEPT ![t] = "validating"]
  /\ rollbackComplete' = CompleteNow
  /\ activeByDocument' = LockNow
  /\ Enter(c, t, "validating", {})
  /\ seen' = [seen EXCEPT ![c] = operations[t]]
  /\ UNCHANGED <<document, overdue, operations, validations>>

\* The gates run on a clone of the transaction; the first one has the oldest.
StartValidate(c, t) ==
  /\ pc[c] = "idle"
  /\ MayCall(t)
  /\ StateNow[t] \in Open
  /\ ~Unsettled(t)
  /\ state' = [StateNow EXCEPT ![t] = "validating"]
  /\ rollbackComplete' = CompleteNow
  /\ activeByDocument' = LockNow
  /\ Enter(c, t, "validating", {})
  /\ seen' = [seen EXCEPT ![c] = operations[t]]
  /\ UNCHANGED <<document, overdue, operations, validations>>

\* A gate that throws has failed.
FinishValidate(c, passed) ==
  /\ pc[c] = "validating"
  /\ validations' = [validations EXCEPT
       ![callTx[c]] = [passed |-> passed, judged |-> seen[c]]]
  /\ state' = [state EXCEPT ![callTx[c]] = IF passed THEN "validated" ELSE "active"]
  /\ Return(c)
  /\ UNCHANGED <<document, overdue, rollbackComplete, operations, activeByDocument>>

Commit(t) ==
  /\ MayCall(t)
  /\ StateNow[t] = "validated"
  /\ ~Unsettled(t)
  /\ state' = [StateNow EXCEPT ![t] = "committed"]
  /\ rollbackComplete' = [CompleteNow EXCEPT ![t] = "undefined"]
  /\ activeByDocument' = [LockNow EXCEPT ![document[t]] = NoTx]
  /\ UNCHANGED <<document, overdue, operations, validations, callVars>>

-----------------------------------------------------------------------------
(* rollback.                                                               *)

\* Mutant: a committed transaction can still be rolled back.
MayRollBack_Committed(t) ==
  /\ MayCall(t)
  /\ StateNow[t] \in {"active", "validated", "failed", "expired", "committed"}

MayRollBack(t) ==
  /\ MayCall(t)
  /\ StateNow[t] \in {"active", "validated", "failed", "expired"}
  /\ LeaveExpired => StateNow[t] # "expired"

\* Mutants: the lock outlives the rollback; a partial rollback stays under
\* way; it releases the lock.
finalizeRollback_KeepLock(s, complete, lock, t, restoredAll) ==
  /\ state' = [s EXCEPT ![t] = IF restoredAll THEN "rolled-back" ELSE "failed"]
  /\ rollbackComplete' = [complete EXCEPT ![t] = IF restoredAll THEN "yes" ELSE "no"]
  /\ activeByDocument' = lock

finalizeRollback_Hang(s, complete, lock, t, restoredAll) ==
  /\ state' = [s EXCEPT ![t] = IF restoredAll THEN "rolled-back" ELSE "rolling-back"]
  /\ rollbackComplete' = [complete EXCEPT ![t] = IF restoredAll THEN "yes" ELSE "no"]
  /\ activeByDocument' = [lock EXCEPT ![document[t]] = IF restoredAll THEN NoTx ELSE t]

finalizeRollback_Release(s, complete, lock, t, restoredAll) ==
  /\ state' = [s EXCEPT ![t] = IF restoredAll THEN "rolled-back" ELSE "failed"]
  /\ rollbackComplete' = [complete EXCEPT ![t] = IF restoredAll THEN "yes" ELSE "no"]
  /\ activeByDocument' = [lock EXCEPT ![document[t]] = NoTx]

\* finalizeRollback: complete when no operation failed.  A complete rollback
\* deletes the lock of the document, whoever holds it.
finalizeRollback(s, complete, lock, t, restoredAll) ==
  /\ state' = [s EXCEPT ![t] = IF restoredAll THEN "rolled-back" ELSE "failed"]
  /\ rollbackComplete' = [complete EXCEPT ![t] = IF restoredAll THEN "yes" ELSE "no"]
  /\ activeByDocument' = [lock EXCEPT ![document[t]] = IF restoredAll THEN NoTx ELSE t]

\* Nothing to restore: the whole rollback is one step.
RollbackNothing(t) ==
  /\ MayRollBack(t)
  /\ Candidates(t) = {}
  /\ finalizeRollback(StateNow, CompleteNow, LockNow, t, TRUE)
  /\ UNCHANGED <<document, overdue, operations, validations, callVars>>

\* The candidates are chosen once, when the rollback starts.
StartRollback(c, t) ==
  /\ pc[c] = "idle"
  /\ MayRollBack(t)
  /\ Candidates(t) # {}
  /\ state' = [StateNow EXCEPT ![t] = "rolling-back"]
  /\ rollbackComplete' = CompleteNow
  /\ activeByDocument' = LockNow
  /\ Enter(c, t, "rolling", Candidates(t))
  /\ UNCHANGED <<document, overdue, operations, validations, seen>>

\* Mutant: in ascending sequence.
HighestLeft_Ascending(c, i) == i \in todo[c] /\ \A j \in todo[c] : i <= j

\* In descending sequence; a failure does not stop the loop.
HighestLeft(c, i) == i \in todo[c] /\ \A j \in todo[c] : j <= i

RestoreOperation(c, restored) ==
  /\ pc[c] = "rolling"
  /\ \E i \in todo[c] :
       /\ HighestLeft(c, i)
       /\ IF restored THEN SetOperation(callTx[c], i, "rolled-back", "restored")
                      ELSE SetOperation(callTx[c], i, "failed", "failed")
       /\ todo' = [todo EXCEPT ![c] = @ \ {i}]
  /\ clean' = [clean EXCEPT ![c] = @ /\ restored]
  /\ UNCHANGED <<state, document, overdue, rollbackComplete, validations,
                 activeByDocument, pc, callTx, seen>>

\* Mutant: failures are forgotten.
FinishRollback_Complete(c) ==
  /\ pc[c] = "rolling"
  /\ todo[c] = {}
  /\ finalizeRollback(state, rollbackComplete, activeByDocument, callTx[c], TRUE)
  /\ Return(c)
  /\ UNCHANGED <<document, overdue, operations, validations>>

FinishRollback(c) ==
  /\ pc[c] = "rolling"
  /\ todo[c] = {}
  /\ finalizeRollback(state, rollbackComplete, activeByDocument, callTx[c], clean[c])
  /\ Return(c)
  /\ UNCHANGED <<document, overdue, operations, validations>>

-----------------------------------------------------------------------------

\* What a call in flight does by itself: every hook settles or times out.
Resume(c) ==
  \/ Reserve(c)
  \/ ReserveRefused(c)
  \/ Applied(c)
  \/ \E comp \in {"not-needed", "restored"} : Compensated(c, comp)
  \/ failTransaction(c)
  \/ \E passed \in BOOLEAN : FinishValidate(c, passed)
  \/ \E restored \in BOOLEAN : RestoreOperation(c, restored)
  \/ FinishRollback(c)

Client(t) ==
  \/ \E d \in Doc : Begin(t, d)
  \/ Deadline(t)
  \/ Commit(t)
  \/ RollbackNothing(t)
  \/ \E c \in Call : \/ StartModifyOrDelete(c, t)
                     \/ StartCreate(c, t)
                     \/ StartValidate(c, t)
                     \/ StartRollback(c, t)

Next ==
  \/ Get
  \/ \E t \in Tx : Client(t)
  \/ \E c \in Call : Resume(c)

\* Every hook ends in a bridge call, and every bridge call answers or times
\* out, so a call in flight is resumed.  Clients owe nothing.
Fairness == \A c \in Call : WF_vars(Resume(c))

Spec     == Init /\ [][Next]_vars
FairSpec == Spec /\ Fairness

-----------------------------------------------------------------------------
(* Properties of every client.                                             *)

\* A document's lock names a transaction of that document that holds it:
\* begin never finds a lock that nobody can release (manager.ts:97-108).
LockRefersToHolder ==
  \A d \in Doc :
    LET t == activeByDocument[d]
    IN  t # NoTx => document[t] = d /\ holdsDocumentLock(t)

\* The pending and failed checks of validate and commit cannot be outrun by
\* a write in flight: from the moment its gates start, a transaction that is
\* judged or committed has no operation whose outcome is open
\* (manager.ts:496-507, 546-553).
SettledWhenJudged ==
  \A t \in Tx : state[t] \in {"validating", "validated", "committed"} => ~Unsettled(t)

\* What is committed is what the gates passed: no operation was reserved,
\* settled or restored between the gates' clone and the commit, whatever
\* other calls did while they ran (reserveOperation resets the verdict,
\* manager.ts:210-211).
CommitIsJudged ==
  \A t \in Tx : state[t] \in {"validated", "committed"} =>
    /\ validations[t].passed
    /\ validations[t].judged = operations[t]

\* A failed operation never drops out of sight: validate refuses the
\* transaction because of it, so rollback must count it among its candidates
\* (manager.ts:561-569).
FailedIsCandidate ==
  \A t \in Tx : \A i \in DOMAIN operations[t] :
    operations[t][i].state = "failed" => i \in Candidates(t)

\* Commit "removes rollback eligibility": afterwards neither a late call, nor
\* a deadline, nor a rollback changes the transaction or any operation of it.
CommittedIsFinal ==
  [][\A t \in Tx : state[t] = "committed" =>
       /\ state'[t] = "committed"
       /\ operations'[t] = operations[t]
       /\ validations'[t] = validations[t]]_vars

\* A transaction does not hang in a state only the manager can leave: a
\* validation and a rollback end, even when another call of the transaction
\* fails meanwhile.
TransitStatesEnd ==
  \A t \in Tx : state[t] \in {"validating", "rolling-back"}
                  ~> state[t] \notin {"validating", "rolling-back"}

-----------------------------------------------------------------------------
(* Properties that need clients of some discipline.                        *)

\* "Only one unresolved transaction may hold a document lock"
\* (docs/architecture/production-schematic-engine.md:62).
OneHolder ==
  \A t, u \in Tx :
    holdsDocumentLock(t) /\ holdsDocumentLock(u) /\ document[t] = document[u] => t = u

\* "Failed compensation, partial rollback, or expiration with unresolved
\* writes retains the document lock until rollback succeeds"
\* (docs/architecture/production-schematic-engine.md:74).
UnresolvedIsLocked ==
  \A t \in Tx :
    state[t] \notin {"none", "committed"} /\ Candidates(t) # {} =>
      activeByDocument[document[t]] = t

\* "Rollback attempts every unresolved operation in reverse order" (same
\* place): an applied operation is undone when every later one has been
\* attempted, and none is still being written.
ReverseOrder ==
  [][\A t \in Tx : \A i, j \in DOMAIN operations[t] :
       i < j /\ operations[t][i].state = "applied" /\ operations'[t][i].state # "applied"
         => operations[t][j].state \notin {"pending", "applied"}]_vars

\* A rolled-back transaction has nothing left to undo, and nothing of it is
\* still on its way to the document.
RolledBackIsClean ==
  \A t \in Tx : state[t] = "rolled-back" =>
    \A i \in DOMAIN operations[t] :
      operations[t][i].state \in {"rolled-back", "cancelled"}

\* The manager implements the abstract lock (DocumentLock): the owner is the
\* entry of activeByDocument, and a transaction without one has spent it.
Lock == INSTANCE DocumentLock WITH
  owner <- activeByDocument,
  spent <- {t \in Tx : state[t] # "none" /\ activeByDocument[document[t]] # t}

ImplementsDocumentLock == Lock!LockSpec
=============================================================================
