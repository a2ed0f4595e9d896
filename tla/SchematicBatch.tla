--------------------------- MODULE SchematicBatch ---------------------------
(***************************************************************************)
(* easyeda_schematic_batch_write (src/tools/L1_schematic_batch.ts) and the *)
(* hooks through which the transaction manager reaches the document: the   *)
(* bridge calls of src/transactions/easyeda.ts and of the batch tool.      *)
(*                                                                         *)
(* This module composes three parts: the manager, whose actions are those  *)
(* of Transactions; the batch, a client that runs its operations one after *)
(* another, then commits or rolls back; and the document in the editor,    *)
(* reached by calls that can fail in every way a bridge call can fail.     *)
(* Every action of the batch is one bridge call together with what the     *)
(* hook, the manager and the batch do with its answer.                     *)
(*                                                                         *)
(* Primitives are of one kind, which can be recreated; a primitive's       *)
(* properties are one value, its content.  The user does not draw          *)
(* meanwhile, and one client calls the tools one at a time.  A batch that  *)
(* the preflight of its deletes refuses changes nothing and is no step.    *)
(***************************************************************************)
EXTENDS Transactions, FiniteSets

CONSTANTS
  MaxPrim,    (* Identifiers of primitives.  Bounds the model.             *)
  Existing,   (* Number of primitives in the document at the start.        *)
  MaxBatch,   (* Length of a batch.  Bounds the model.                     *)
  Faults,     (* Ways a bridge call can go wrong, a subset of Fault.       *)
  MaxFaults,  (* Number of calls that go wrong.  Bounds the model.         *)
  MaxBatches, (* Number of batches.  Bounds the model.                     *)
  TouchOnce   (* Clients modify or delete a primitive at most once in a    *)
              (* transaction, as a batch does by itself.                   *)

(* refused   the call is not carried out and fails;                        *)
(* lost      it is carried out, its answer is lost;                        *)
(* late      it times out and is carried out later;                        *)
(* unseen    the editor's API throws while it reads a primitive or lists   *)
(*           them: the extension logs that and answers as if there were    *)
(*           none.                                                         *)
Fault == {"refused", "lost", "late", "unseen"}

ASSUME DocumentAssumption == /\ Existing \in Nat /\ MaxPrim \in Nat /\ Existing <= MaxPrim
                             /\ Faults \subseteq Fault /\ MaxFaults \in Nat
                             /\ MaxBatch \in Nat \ {0} /\ MaxBatches \in Nat
                             /\ TouchOnce \in BOOLEAN
\* The primitives are those of one document.
ASSUME OneDocument == \E d \in Doc : Doc = {d}
ASSUME OneClient == /\ \E c \in Call : Call = {c}
                    /\ SerialCalls /\ TimelyCalls /\ ~LeaveExpired

VARIABLES
  doc,      (* The content of each primitive.                              *)
  fresh,    (* Identifiers used up: the editor never gives one twice.      *)
  late,     (* Writes that timed out and have yet to be carried out.       *)
  faults,   (* How often a call went wrong, by kind.                       *)
  details,  (* Kind, target and before-snapshot of each operation.         *)
  session,  (* The transaction of the batch.                               *)
  managed,  (* The batch began its transaction itself.                     *)
  plan,     (* The operations of the batch.                                *)
  at,       (* The one it has come to.                                     *)
  step,     (* The bridge call it makes next.                              *)
  known,    (* Primitives listed before a create, or recreated by an undo. *)
  answer,   (* What the last batch or tool answered.                       *)
  batches   (* Batches so far.                                             *)

editorVars  == <<doc, fresh, late, faults>>
clientVars  == <<session, managed, plan, at, step, known, answer, batches>>
managerVars == <<txVars, activeByDocument, callVars>>
allVars     == <<managerVars, editorVars, details, clientVars>>

Prim        == 1..MaxPrim
NoPrim      == 0    \* the target of a create before its primitive is found
Gone        == <<"gone", 0>>
Unknown     == <<"unknown", 0>>    \* the read failed
Made(t)     == <<"made", t>>
Changed(t)  == <<"changed", t>>
Original(p) == <<"original", p>>
Content     == {Gone} \cup ({"made", "changed"} \X Tx) \cup ({"original"} \X (1..Existing))

Detail == [kind   : {"create", "modify", "delete"},
           target : Prim \cup {NoPrim},
           before : Content]

client == CHOOSE c \in Call : TRUE

\* A batch modifies or deletes a primitive at most once (batchInputSchema).
Plans ==
  {p \in UNION {[1..n -> [kind : {"create", "modify", "delete"}, id : 0..Existing]]
                : n \in 1..MaxBatch} :
     /\ \A i \in DOMAIN p : p[i].id = NoPrim <=> p[i].kind = "create"
     /\ \A i, j \in DOMAIN p : i # j /\ p[i].id = p[j].id => p[i].id = NoPrim}

BatchInit ==
  /\ Init
  /\ doc = [p \in Prim |-> IF p <= Existing THEN Original(p) ELSE Gone]
  /\ fresh = Existing
  /\ late = {}
  /\ faults = [k \in Fault |-> 0]
  /\ details = [t \in Tx |-> <<>>]
  /\ session = NoTx
  /\ managed = FALSE
  /\ plan = <<>>
  /\ at = 1
  /\ step = "ready"
  /\ known = {}
  /\ answer = "none"
  /\ batches = 0

-----------------------------------------------------------------------------
(* The editor, as the bridge calls reach it.                               *)

Present(p) == p \in Prim /\ doc[p] # Gone
Listed     == {p \in Prim : Present(p)}

Create(x)    == [do |-> "create", id |-> NoPrim, content |-> x]
Modify(p, x) == [do |-> "modify", id |-> p, content |-> x]
Delete(p)    == [do |-> "delete", id |-> p, content |-> Gone]

\* A modification, a restore or a deletion of a primitive that is not there
\* fails.
Possible(w) == w.do = "create" \/ Present(w.id)

CarriedOut(w) ==
  IF w.do = "create"
    THEN /\ fresh < MaxPrim
         /\ fresh' = fresh + 1
         /\ doc' = [doc EXCEPT ![fresh + 1] = w.content]
    ELSE /\ doc' = [doc EXCEPT ![w.id] = w.content]
         /\ fresh' = fresh

GoesWrong(k) ==
  /\ k \in Faults
  /\ faults["refused"] + faults["lost"] + faults["late"] + faults["unseen"] < MaxFaults
  /\ faults' = [faults EXCEPT ![k] = @ + 1]

\* A write and whether it was answered.
Write(w, answered) ==
  \/ answered /\ Possible(w) /\ CarriedOut(w) /\ UNCHANGED <<late, faults>>
  \/ ~answered /\ ~Possible(w) /\ UNCHANGED editorVars
  \/ ~answered /\ GoesWrong("refused") /\ UNCHANGED <<doc, fresh, late>>
  \/ ~answered /\ GoesWrong("lost") /\ Possible(w) /\ CarriedOut(w) /\ UNCHANGED late
  \/ /\ ~answered
     /\ GoesWrong("late")
     /\ late' = late \cup {<<faults["late"], w>>}
     /\ UNCHANGED <<doc, fresh>>

\* getPrimitiveSnapshot of p: its content, Gone for PRIMITIVE_NOT_FOUND.
getPrimitiveSnapshot(p, x) ==
  \/ x = (IF Present(p) THEN doc[p] ELSE Gone) /\ UNCHANGED editorVars
  \/ x = Gone /\ GoesWrong("unseen") /\ UNCHANGED <<doc, fresh, late>>
  \/ x = Unknown /\ GoesWrong("refused") /\ UNCHANGED <<doc, fresh, late>>

\* listPrimitiveIds; pollAddedPrimitiveIds repeats it until it shows more.
listPrimitiveIds(ids) ==
  \/ ids = Listed /\ UNCHANGED editorVars
  \/ ids = {} /\ GoesWrong("unseen") /\ UNCHANGED <<doc, fresh, late>>
listFails == GoesWrong("refused") /\ UNCHANGED <<doc, fresh, late>>

\* A call that timed out is still carried out by the extension.
TakesEffect ==
  \E w \in late :
    /\ late' = late \ {w}
    /\ IF Possible(w[2]) THEN CarriedOut(w[2]) ELSE UNCHANGED <<doc, fresh>>
    /\ UNCHANGED <<faults, managerVars, details, clientVars>>

-----------------------------------------------------------------------------
(* Where the batch goes next.                                              *)

Go(s)     == step' = s /\ UNCHANGED <<session, managed, plan, at, known, answer, batches>>
Proceed   == /\ step' = "next" /\ at' = at + 1 /\ known' = {}
             /\ UNCHANGED <<session, managed, plan, answer, batches>>
Answer(a) == /\ step' = "ready" /\ at' = 1 /\ known' = {} /\ answer' = a
             /\ UNCHANGED <<session, managed, plan, batches>>

\* The manager refuses: the call only swept.
Refused == Sweep /\ UNCHANGED <<document, overdue, operations, validations, callVars>>

Todo == plan[at]
Op   == details[session][Len(details[session])]    \* the operation in flight
\* Mutant: only the last operation is kept.
Log_Last(d) == details' = [details EXCEPT ![session] = <<d>>]

Log(d) == details' = [details EXCEPT ![session] = Append(@, d)]
Found(p) == details' = [details EXCEPT ![session][Len(details[session])].target = p]

\* The transaction is one the caller or the batch has begun; nothing runs.
Idle(t) == step = "ready" /\ state[t] # "none"
\* A client leaves an expired transaction alone: rolling it back, which a
\* batch on it does too, deletes a lock that may be another transaction's.
Usable(t) == Idle(t) /\ StateNow[t] # "expired"
Take(t, own, p, s) ==
  /\ session' = t /\ managed' = own /\ plan' = p /\ at' = 1 /\ step' = s
  /\ answer' = "none" /\ known' = {}

Preflight(p) == \A i \in DOMAIN p : p[i].kind = "delete" => Present(p[i].id)

Touched(t)  == {details[t][i].target : i \in DOMAIN details[t]} \ {NoPrim}
MayPlan(t, p) == TouchOnce => \A i \in DOMAIN p : p[i].id \notin Touched(t)

-----------------------------------------------------------------------------
(* The tools a client calls when nothing runs.                             *)

\* A batch without transactionId begins a transaction as long as itself.
BatchOnNew(t, d) ==
  \E p \in Plans :
    /\ step = "ready"
    /\ batches < MaxBatches
    /\ Preflight(p)
    /\ Len(p) = MaxOperations[t]
    /\ Begin(t, d)
    /\ Take(t, TRUE, p, "next")
    /\ batches' = batches + 1
    /\ UNCHANGED <<editorVars, details>>

BatchOnOwned(t) ==
  \E p \in Plans :
    /\ Usable(t)
    /\ batches < MaxBatches
    /\ Preflight(p)
    /\ MayPlan(t, p)
    /\ Refused    \* get only sweeps
    /\ Take(t, FALSE, p, "next")
    /\ batches' = batches + 1
    /\ UNCHANGED <<editorVars, details>>

ToolBegin(t, d) ==
  /\ step = "ready"
  /\ Begin(t, d)
  /\ UNCHANGED <<editorVars, details, clientVars>>

ToolStatus == step = "ready" /\ Get /\ UNCHANGED <<editorVars, details, clientVars>>

ToolValidate(t) ==
  /\ Idle(t)
  /\ StartValidate(client, t)
  /\ Take(t, FALSE, <<>>, "judge")
  /\ UNCHANGED <<editorVars, details, batches>>

ToolCommit(t) ==
  /\ Idle(t)
  /\ Commit(t)
  /\ Take(t, FALSE, <<>>, "ready")
  /\ UNCHANGED <<editorVars, details, batches>>

ToolRollback(t) ==
  /\ Usable(t)
  /\ Take(t, FALSE, <<>>, "rollback")
  /\ UNCHANGED <<editorVars, details, batches, managerVars>>

\* Time passes also between the operations of a batch.
Time(t) == Deadline(t) /\ UNCHANGED <<editorVars, details, clientVars>>

-----------------------------------------------------------------------------
(* What an answer leads to.                                                *)

\* The operation throws; the batch stops and rolls its transaction back.
ToRollback == /\ step' = "rollback" /\ known' = {}
              /\ UNCHANGED <<session, managed, plan, at, answer, batches>>

Then(s)         == UNCHANGED <<managerVars, details>> /\ Go(s)
Undone(comp)    == Compensated(client, comp) /\ ToRollback /\ UNCHANGED details
Fails           == failTransaction(client) /\ ToRollback /\ UNCHANGED details
Succeeds        == Applied(client) /\ Proceed /\ UNCHANGED details
\* An operation that is refused before it is reserved.
IsRefused(how)  == how /\ ToRollback /\ UNCHANGED details

\* A read of the target of the operation in flight.
Reads(x)     == x \in Content \cup {Unknown} /\ getPrimitiveSnapshot(Op.target, x)
MayReserve(s) == s[session] \in Open /\ Len(operations[session]) < MaxOperations[session]

-----------------------------------------------------------------------------
(* executeCreate and runCreate.                                            *)

BeforeCreate ==
  /\ step = "next"
  /\ at <= Len(plan) /\ Todo.kind = "create"
  /\ \/ \E ids \in {Listed, {}} :
          /\ listPrimitiveIds(ids)
          /\ StartCreate(client, session)
          /\ Log([kind |-> "create", target |-> NoPrim, before |-> Gone])
          /\ step' = "create"
          /\ known' = ids
          /\ UNCHANGED <<session, managed, plan, at, answer, batches>>
     \/ \E ids \in {Listed, {}} : /\ listPrimitiveIds(ids)
                                  /\ ~MayReserve(StateNow)
                                  /\ IsRefused(Refused)
     \/ listFails /\ IsRefused(UNCHANGED managerVars)

ApplyCreate ==
  /\ step = "create"
  /\ \E answered \in BOOLEAN :
       /\ Write(Create(Made(session)), answered)
       /\ Then(IF answered THEN "poll" ELSE "reconcile")

\* One new primitive, and only one, is the created one.
Identified(ids) == Cardinality(ids \ known) = 1
Find(ids)       == Found(CHOOSE p \in ids \ known : TRUE)

\* Mutant: polling does not give up.
PollCreated_Forever ==
  /\ step = "poll"
  /\ \E ids \in {Listed, {}} :
       /\ listPrimitiveIds(ids)
       /\ \/ Identified(ids) /\ Find(ids) /\ Go("read") /\ UNCHANGED managerVars
          \/ ~Identified(ids) /\ Then("poll")

PollCreated ==
  /\ step = "poll"
  /\ \/ \E ids \in {Listed, {}} :
          /\ listPrimitiveIds(ids)
          /\ \/ Identified(ids) /\ Find(ids) /\ Go("read") /\ UNCHANGED managerVars
             \/ ~Identified(ids) /\ Then("reconcile")
     \/ listFails /\ Then("reconcile")

ReadCreated ==
  /\ step = "read"
  /\ \E x \in Content \cup {Unknown} :
       /\ Reads(x)
       /\ \/ x \notin {Gone, Unknown} /\ Succeeds
          \/ x \in {Gone, Unknown} /\ Then("exists")

\* Mutant: a create that failed is taken for one that created nothing.
ReconcileCreate_Trust ==
  /\ step = "reconcile"
  /\ Undone("not-needed")
  /\ UNCHANGED editorVars

\* reconcileCreateFailure: no new primitive means nothing to undo.
ReconcileCreate ==
  /\ step = "reconcile"
  /\ \/ \E ids \in {Listed, {}} :
          /\ listPrimitiveIds(ids)
          /\ \/ ids \subseteq known /\ Undone("not-needed")
             \/ Identified(ids) /\ Find(ids) /\ Go("exists") /\ UNCHANGED managerVars
             \/ ~(ids \subseteq known) /\ ~Identified(ids) /\ Fails
     \/ listFails /\ Fails

\* compensateCreate, in three calls.
CreatedExists ==
  /\ step = "exists"
  /\ \E x \in Content \cup {Unknown} :
       /\ Reads(x)
       /\ \/ x \notin {Gone, Unknown} /\ Then("remove")
          \/ x = Gone /\ Then("gone")
          \/ x = Unknown /\ Fails

RemoveCreated ==
  /\ step = "remove"
  /\ \/ Write(Delete(Op.target), TRUE) /\ Then("gone")
     \/ Write(Delete(Op.target), FALSE) /\ Fails

CreatedIsGone ==
  /\ step = "gone"
  /\ \E x \in Content \cup {Unknown} :
       /\ Reads(x)
       /\ \/ x = Gone /\ Undone("restored")
          \/ x # Gone /\ Fails

-----------------------------------------------------------------------------
(* executeModify, executeDelete, runModify and runDelete.                  *)

BeforeModifyOrDelete ==
  /\ step = "next"
  /\ at <= Len(plan) /\ Todo.kind # "create"
  /\ \/ StartModifyOrDelete(client, session) /\ Go("before") /\ UNCHANGED details
     \/ StateNow[session] \notin Open /\ IsRefused(Refused)
  /\ UNCHANGED editorVars

CaptureBefore ==
  /\ step = "before"
  /\ \E x \in Content \cup {Unknown} :
       /\ getPrimitiveSnapshot(Todo.id, x)
       /\ \/ /\ x \notin {Gone, Unknown}
             /\ Reserve(client)
             /\ Log([kind |-> Todo.kind, target |-> Todo.id, before |-> x])
             /\ Go(Todo.kind)
          \/ /\ x \in {Gone, Unknown} \/ ~MayReserve(state)
             /\ IsRefused(ReserveRefused(client))

\* Mutant: the failure of the write is not looked at.
ApplyModify_Swallow ==
  /\ step = "modify"
  /\ \E answered \in BOOLEAN : Write(Modify(Op.target, Changed(session)), answered)
  /\ Then("after")

ApplyModify ==
  /\ step = "modify"
  /\ \E answered \in BOOLEAN :
       /\ Write(Modify(Op.target, Changed(session)), answered)
       /\ Then(IF answered THEN "after" ELSE "compare")

ReadModified ==
  /\ step = "after"
  /\ \E x \in Content \cup {Unknown} :
       /\ Reads(x)
       /\ \/ x \notin {Gone, Unknown} /\ Succeeds
          \/ x \in {Gone, Unknown} /\ Then("compare")

\* Mutant: a modify that failed is taken for one that changed nothing.
CompareModified_Trust ==
  /\ step = "compare"
  /\ \E x \in Content \cup {Unknown} : Reads(x) /\ Undone("not-needed")

\* compensateModify, in up to three calls.
CompareModified ==
  /\ step = "compare"
  /\ \E x \in Content \cup {Unknown} :
       /\ Reads(x)
       /\ \/ x = Op.before /\ Undone("not-needed")
          \/ x # Op.before /\ Then("restore")

RestoreModified ==
  /\ step = "restore"
  /\ \/ Write(Modify(Op.target, Op.before), TRUE) /\ Then("verify")
     \/ Write(Modify(Op.target, Op.before), FALSE) /\ Fails

VerifyModified ==
  /\ step = "verify"
  /\ \E x \in Content \cup {Unknown} :
       /\ Reads(x)
       /\ \/ x = Op.before /\ Undone("restored")
          \/ x # Op.before /\ Fails

ApplyDelete ==
  /\ step = "delete"
  /\ \E answered \in BOOLEAN :
       /\ Write(Delete(Op.target), answered)
       /\ Then(IF answered THEN "deleted" ELSE "still")

ReadDeleted ==
  /\ step = "deleted"
  /\ \E x \in Content \cup {Unknown} :
       /\ Reads(x)
       /\ \/ x = Gone /\ Succeeds
          \/ x # Gone /\ Then("still")

\* compensateDelete: what is still there must be as it was; what is gone is
\* created again, and the answer brings its snapshot.
StillExists ==
  /\ step = "still"
  /\ \E x \in Content \cup {Unknown} :
       /\ Reads(x)
       /\ \/ x \notin {Gone, Unknown} /\ Then("current")
          \/ x = Gone /\ Then("recreate")
          \/ x = Unknown /\ Fails

CompareDeleted ==
  /\ step = "current"
  /\ \E x \in Content \cup {Unknown} :
       /\ Reads(x)
       /\ \/ x = Op.before /\ Undone("not-needed")
          \/ x # Op.before /\ Fails

RecreateDeleted ==
  /\ step = "recreate"
  /\ \/ Write(Create(Op.before), TRUE) /\ Undone("restored")
     \/ Write(Create(Op.before), FALSE) /\ Fails

-----------------------------------------------------------------------------
(* rollbackEasyedaTransaction.                                             *)

RollbackBegins ==
  /\ step = "rollback"
  /\ \/ RollbackNothing(session) /\ Answer("rolled back")
     \/ StartRollback(client, session) /\ Go("undo")
     \/ /\ StateNow[session] \notin {"active", "validated", "failed", "expired"}
        /\ Refused
        /\ Answer("not rolled back")
  /\ UNCHANGED <<editorVars, details>>

InverseOf(o) ==
  CASE o.kind = "create" -> Delete(o.target)
    [] o.kind = "modify" -> Modify(o.target, o.before)
    [] o.kind = "delete" -> Create(o.before)

Undo ==
  /\ step = "undo"
  /\ \E i \in todo[client] :
       LET o == details[session][i] IN
       /\ HighestLeft(client, i)
       /\ \/ /\ Write(InverseOf(o), TRUE)
             /\ known' = IF o.kind = "delete" THEN {fresh'} ELSE {o.target}
             /\ step' = "undone"
             /\ UNCHANGED <<managerVars, session, managed, plan, at, answer, batches>>
          \/ Write(InverseOf(o), FALSE) /\ RestoreOperation(client, FALSE) /\ Go("undo")
  /\ UNCHANGED details

\* A created primitive must be gone, any other must be as it was.
VerifyUndone ==
  /\ step = "undone"
  /\ \E i \in todo[client], p \in known, x \in Content \cup {Unknown} :
       /\ HighestLeft(client, i)
       /\ getPrimitiveSnapshot(p, x)
       /\ RestoreOperation(client, x = details[session][i].before)
  /\ step' = "undo"
  /\ known' = {}
  /\ UNCHANGED <<details, session, managed, plan, at, answer, batches>>

RollbackEnds ==
  /\ step = "undo"
  /\ FinishRollback(client)
  /\ Answer(IF clean[client] THEN "rolled back" ELSE "not rolled back")
  /\ UNCHANGED <<editorVars, details>>

-----------------------------------------------------------------------------
(* successfulBatchResponse: its promise is returned from the try block     *)
(* without an await, so what it throws passes the catch that rolls back.   *)

BatchEnds ==
  /\ step = "next"
  /\ at > Len(plan)
  /\ \/ ~managed /\ Refused /\ Answer("applied")
     \/ managed /\ StartValidate(client, session) /\ Go("judge")
     \/ managed /\ (StateNow[session] \notin Open \/ Unsettled(session))
          /\ Refused /\ Answer("threw")
  /\ UNCHANGED <<editorVars, details>>

\* The gates: those of the batch, or any verdict for those of the tool.
Judge ==
  /\ step = "judge"
  /\ \E passed \in BOOLEAN :
       /\ managed => passed = (/\ Len(seen[client]) = Len(plan)
                               /\ \A i \in DOMAIN seen[client] :
                                    seen[client][i].state = "applied")
       /\ FinishValidate(client, passed)
       /\ IF managed /\ passed THEN Go("commit")
          ELSE Answer(IF managed THEN "threw" ELSE "none")
  /\ UNCHANGED <<editorVars, details>>

CommitBatch ==
  /\ step = "commit"
  /\ \/ Commit(session) /\ Answer("committed")
     \/ StateNow[session] # "validated" /\ Refused /\ Answer("threw")
  /\ UNCHANGED <<editorVars, details>>

-----------------------------------------------------------------------------

CreateStep == \/ BeforeCreate  \/ ApplyCreate   \/ PollCreated   \/ ReadCreated
              \/ ReconcileCreate \/ CreatedExists \/ RemoveCreated \/ CreatedIsGone
ModifyStep == \/ ApplyModify \/ ReadModified \/ CompareModified \/ RestoreModified
              \/ VerifyModified
DeleteStep == ApplyDelete \/ ReadDeleted \/ StillExists \/ CompareDeleted \/ RecreateDeleted
RollbackStep == RollbackBegins \/ Undo \/ VerifyUndone \/ RollbackEnds

BatchStep == \/ CreateStep \/ ModifyStep \/ DeleteStep \/ RollbackStep
             \/ BeforeModifyOrDelete \/ CaptureBefore
             \/ BatchEnds \/ Judge \/ CommitBatch

ToolStep ==
  \/ ToolStatus
  \/ \E t \in Tx : \/ BatchOnOwned(t) \/ ToolValidate(t) \/ ToolCommit(t) \/ ToolRollback(t)
                   \/ Time(t)
                   \/ \E d \in Doc : BatchOnNew(t, d) \/ ToolBegin(t, d)

BatchNext == ToolStep \/ BatchStep \/ TakesEffect

\* Every bridge call is answered or times out; clients and late calls owe
\* nothing.
BatchSpec == BatchInit /\ [][BatchNext]_allVars /\ WF_allVars(BatchStep)

-----------------------------------------------------------------------------
(* Properties.                                                             *)

BatchTypeOK ==
  /\ TypeOK
  /\ doc \in [Prim -> Content]
  /\ fresh \in Existing..MaxPrim
  /\ \A w \in late : w[2].id \in Prim \cup {NoPrim} /\ w[2].content \in Content
  /\ faults \in [Fault -> 0..MaxFaults]
  /\ details \in [Tx -> Seq(Detail)]
  /\ \A t \in Tx : Len(details[t]) = Len(operations[t])
  /\ session \in Tx \cup {NoTx}
  /\ managed \in BOOLEAN
  /\ at \in 1..MaxBatch + 1
  /\ known \subseteq Prim
  /\ batches \in 0..MaxBatches

\* No call has been carried out after its timeout, no read or list has
\* answered wrongly.
Dependable == faults["late"] = 0 /\ faults["unseen"] = 0

Traces(t)  == {p \in Prim : doc[p] \in {Made(t), Changed(t)}}

\* Where what an operation changed or deleted is back; what was deleted may
\* have a new identifier.
IsBack(o)  == \/ doc[o.target] = o.before
              \/ o.kind = "delete" /\ \E p \in Prim : p > Existing /\ doc[p] = o.before
Missing(t) == {i \in DOMAIN details[t] : details[t][i].kind # "create" /\ ~IsBack(details[t][i])}

\* A complete rollback restores the document whatever calls failed or lost
\* their answer on the way: nothing the transaction made or changed is left,
\* and everything it changed or deleted is back ("rolls the entire
\* transaction back", docs/architecture/production-schematic-engine.md:88).
\* What it deleted may be there twice: rollback creates it again without a
\* look whether the deletion had an effect, or an earlier rollback did so and
\* lost the answer (easyeda.ts:170-176).
RollbackRestores ==
  [][\A t \in Tx : state[t] # "rolled-back" /\ state'[t] = "rolled-back" /\ Dependable'
       => (Traces(t) = {} /\ Missing(t) = {})']_allVars

\* While the document shows traces of a transaction that is not committed,
\* or lacks what it took away, the transaction holds the lock: no second
\* transaction builds on writes that may still be undone.
TracesAreLocked ==
  Dependable =>
    \A t \in Tx : state[t] \notin {"none", "committed"} =>
      /\ Traces(t) # {} => activeByDocument[document[t]] = t
      /\ state[t] # "rolled-back" /\ Missing(t) # {} => activeByDocument[document[t]] = t

\* A batch that answers "committed" is in the document: every primitive it
\* modified or deleted, and as many new ones as committed transactions
\* created, none of them twice.
CommittedIsApplied ==
  answer = "committed" /\ Dependable =>
    /\ \A i \in DOMAIN plan :
         /\ plan[i].kind = "modify" => doc[plan[i].id] = Changed(session)
         /\ plan[i].kind = "delete" => doc[plan[i].id] = Gone
    /\ Cardinality({p \in Prim : doc[p] = Made(session)}) =
         Cardinality({i \in DOMAIN plan : plan[i].kind = "create"})

\* A batch and a rollback answer, whatever calls fail.
BatchAnswers == step # "ready" ~> step = "ready"

\* "Any failure rolls the whole transaction back"
\* (src/tools/L1_schematic_batch.ts:678): when a batch has failed, no
\* operation of its transaction is left as it was applied.
FailureIsUndone ==
  answer \in {"rolled back", "not rolled back", "threw"} /\ state[session] # "committed" =>
    \A i \in DOMAIN operations[session] : operations[session][i].state # "applied"
=============================================================================
