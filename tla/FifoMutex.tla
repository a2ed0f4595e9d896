----------------------------- MODULE FifoMutex -----------------------------
(***************************************************************************)
(* What a queue per session promises: a call that joins waits for the ones *)
(* that are there before it and for nobody else, so that one is served at  *)
(* a time, in the order in which they came.                                *)
(***************************************************************************)
CONSTANTS
  Caller,      (* Who may join.           *)
  Line,        (* The lines to join.      *)
  NoLine       (* A caller is in none.    *)

VARIABLES
  line,        (* The line each caller has joined.            *)
  place,       (* Whether it waits, is served, or has gone.   *)
  ahead        (* Those it still has to wait for.             *)

fifoVars == <<line, place, ahead>>

Init ==
  /\ line = [c \in Caller |-> NoLine]
  /\ place = [c \in Caller |-> "away"]
  /\ ahead = [c \in Caller |-> {}]

InLine(l) == {c \in Caller : line[c] = l /\ place[c] \in {"waiting", "served"}}

Join(c, l) ==
  /\ place[c] = "away"
  /\ place' = [place EXCEPT ![c] = "waiting"]
  /\ line' = [line EXCEPT ![c] = l]
  /\ ahead' = [ahead EXCEPT ![c] = InLine(l)]

Serve(c) ==
  /\ place[c] = "waiting"
  /\ ahead[c] = {}
  /\ place' = [place EXCEPT ![c] = "served"]
  /\ UNCHANGED <<line, ahead>>

\* It has been served, or leaves when it is its turn.
Go(c) ==
  /\ place[c] \in {"waiting", "served"}
  /\ ahead[c] = {}
  /\ place' = [place EXCEPT ![c] = "gone"]
  /\ ahead' = [d \in Caller |-> ahead[d] \ {c}]
  /\ UNCHANGED line

Next ==
  \E c \in Caller :
    \/ \E l \in Line : Join(c, l)
    \/ Serve(c)
    \/ Go(c)

FifoSpec == Init /\ [][Next]_fifoVars
=============================================================================
