----------------------- MODULE SessionDispatchQueue -----------------------
(***************************************************************************)
(* The queue that serialises the calls of a relay session: a chain of      *)
(* promises, of which only the last is remembered (remote/                 *)
(* session-dispatch-queue.ts).  An operation is run when the one it was    *)
(* chained to has been released; the memory of a session is dropped by the *)
(* last one.  Calls are numbered in the order in which they enter.         *)
(***************************************************************************)
EXTENDS Naturals

CONSTANTS
  Session,      (* Relay sessions.                             *)
  NoSession,    (* No session.                                 *)
  MaxCalls      (* The number of calls made.                   *)

ASSUME QueueAssumption == MaxCalls \in Nat /\ NoSession \notin Session

VARIABLES
  tails,        (* The last call chained to a session, by session.       *)
  previous,     (* The call whose promise a call awaits.                 *)
  turn,         (* out, waiting for it, in the operation, left.          *)
  session       (* The session each call is for.                         *)

queueVars == <<tails, previous, turn, session>>

Call   == 1..MaxCalls
NoCall == 0

QueueTypeOK ==
  /\ tails \in [Session -> Call \cup {NoCall}]
  /\ previous \in [Call -> Call \cup {NoCall}]
  /\ turn \in [Call -> {"out", "waiting", "in", "left"}]
  /\ session \in [Call -> Session \cup {NoSession}]

QueueInit ==
  /\ tails = [s \in Session |-> NoCall]
  /\ previous = [c \in Call |-> NoCall]
  /\ turn = [c \in Call |-> "out"]
  /\ session = [c \in Call |-> NoSession]

\* The number of the next call.
IsNext(c) ==
  /\ turn[c] = "out"
  /\ \A d \in Call : d < c => turn[d] # "out"

Enter(c, s) ==
  /\ IsNext(c)
  /\ previous' = [previous EXCEPT ![c] = tails[s]]
  /\ tails' = [tails EXCEPT ![s] = c]
  /\ turn' = [turn EXCEPT ![c] = "waiting"]
  /\ session' = [session EXCEPT ![c] = s]

PreviousIsOver_Begun(c) == previous[c] # NoCall => turn[previous[c]] \in {"in", "left"}

\* A tail settles when the one before it has and its own call is released.
PreviousIsOver(c) == previous[c] # NoCall => turn[previous[c]] = "left"

IsTurn(c) == turn[c] = "waiting" /\ PreviousIsOver(c)

Begin(c) ==
  /\ IsTurn(c)
  /\ turn' = [turn EXCEPT ![c] = "in"]
  /\ UNCHANGED <<tails, previous, session>>

\* The finally of run: release, and forget the session if nobody came after.
Release(c) ==
  /\ turn' = [turn EXCEPT ![c] = "left"]
  /\ tails' = [s \in Session |->
                 IF s = session[c] /\ tails[s] = c THEN NoCall ELSE tails[s]]
  /\ UNCHANGED <<previous, session>>

Leave(c) == turn[c] = "in" /\ Release(c)

Skip_Unawaited(c) == turn[c] = "waiting" /\ Release(c)

\* An operation that throws before it awaits anything.
Skip(c) == IsTurn(c) /\ Release(c)

QueueNext ==
  \E c \in Call :
    \/ \E s \in Session : Enter(c, s)
    \/ Begin(c)
    \/ Leave(c)
    \/ Skip(c)

QueueSpec == QueueInit /\ [][QueueNext]_queueVars

-----------------------------------------------------------------------------
Active(c) == turn[c] \in {"waiting", "in"}

(***************************************************************************)
(* The operations of one session never overlap, and a session nobody waits *)
(* for is forgotten: the map of tails holds a session exactly while it has *)
(* calls.                                                                  *)
(***************************************************************************)
OneAtATime ==
  /\ \A c, d \in Call : turn[c] = "in" /\ turn[d] = "in" /\ session[c] = session[d] => c = d
  /\ \A s \in Session : tails[s] # NoCall <=> \E c \in Call : Active(c) /\ session[c] = s

(***************************************************************************)
(* The chain of promises is a queue: a call waits exactly for those that   *)
(* entered before it.                                                      *)
(***************************************************************************)
Mutex == INSTANCE FifoMutex WITH
  Caller <- Call,
  Line   <- Session,
  NoLine <- NoSession,
  line   <- session,
  place  <- [c \in Call |-> CASE turn[c] = "out"     -> "away"
                              [] turn[c] = "waiting" -> "waiting"
                              [] turn[c] = "in"      -> "served"
                              [] turn[c] = "left"    -> "gone"],
  ahead  <- [c \in Call |-> IF Active(c)
                            THEN {d \in Call : d < c /\ session[d] = session[c] /\ Active(d)}
                            ELSE {}]

ImplementsMutex == Mutex!FifoSpec
=============================================================================
