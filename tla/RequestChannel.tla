--------------------------- MODULE RequestChannel ---------------------------
(***************************************************************************)
(* What the bridge promises about calls, with its peers as opaque names:   *)
(* there is one peer at most, a request that has been sent is a request of *)
(* the current peer and fails when that peer is lost or replaced, it ends  *)
(* once, and a peer that was lost never comes back.  An answer is the      *)
(* answer to that request, or, once the channel has been reset, to one     *)
(* that ended before.                                                      *)
(***************************************************************************)
CONSTANTS
  Peer,       (* Connections.                        *)
  NoPeer,     (* There is none.                      *)
  Request,    (* Requests.                           *)
  NoRequest   (* The request nothing is answered by. *)

VARIABLES
  peer,        (* The peer requests are sent to.                    *)
  past,        (* The peers that will never be it again.            *)
  progress,    (* How far each request is.                          *)
  answeredBy,  (* The request whose answer was taken for an answer. *)
  reset        (* The channel has lost its memory.                  *)

channelVars == <<peer, past, progress, answeredBy, reset>>

ChannelTypeOK ==
  /\ peer \in Peer \cup {NoPeer}
  /\ past \in SUBSET Peer
  /\ progress \in [Request -> {"new", "sent", "answered", "failed"}]
  /\ answeredBy \in [Request -> Request \cup {NoRequest}]
  /\ reset \in BOOLEAN

Init ==
  /\ peer = NoPeer
  /\ past = {}
  /\ progress = [r \in Request |-> "new"]
  /\ answeredBy = [r \in Request |-> NoRequest]
  /\ reset = FALSE

Sent   == {r \in Request : progress[r] = "sent"}
Losers == {peer} \ {NoPeer}

FailSent == progress' = [r \in Request |-> IF r \in Sent THEN "failed" ELSE progress[r]]

Attach(p) ==
  /\ p # peer
  /\ p \notin past
  /\ peer' = p
  /\ past' = past \cup Losers
  /\ FailSent
  /\ UNCHANGED <<answeredBy, reset>>

Detach ==
  /\ peer # NoPeer
  /\ peer' = NoPeer
  /\ past' = past \cup {peer}
  /\ FailSent
  /\ UNCHANGED <<answeredBy, reset>>

\* One that never became the peer goes away.
Leave(p) ==
  /\ p # peer
  /\ past' = past \cup {p}
  /\ UNCHANGED <<peer, progress, answeredBy, reset>>

Send(r) ==
  /\ peer # NoPeer
  /\ progress[r] = "new"
  /\ progress' = [progress EXCEPT ![r] = "sent"]
  /\ UNCHANGED <<peer, past, answeredBy, reset>>

Open(r) == progress[r] \in {"new", "sent"}

Answer(r, by) ==
  /\ progress[r] = "sent"
  /\ by = r \/ (reset /\ ~Open(by))
  /\ progress' = [progress EXCEPT ![r] = "answered"]
  /\ answeredBy' = [answeredBy EXCEPT ![r] = by]
  /\ UNCHANGED <<peer, past, reset>>

\* A request is never sent, or its answer is given up; several at once.
Fail(R) ==
  /\ \A r \in R : Open(r)
  /\ progress' = [r \in Request |-> IF r \in R THEN "failed" ELSE progress[r]]
  /\ UNCHANGED <<peer, past, answeredBy, reset>>

\* What is under way is lost: the peer, some that were to be one, and requests.
Reset(P, R) ==
  /\ reset' = TRUE
  /\ peer' = NoPeer
  /\ \A r \in R : Open(r)
  /\ Sent \subseteq R
  /\ past' = past \cup Losers \cup P
  /\ progress' = [r \in Request |-> IF r \in R THEN "failed" ELSE progress[r]]
  /\ UNCHANGED answeredBy

Next ==
  \/ \E p \in Peer : Attach(p) \/ Leave(p)
  \/ Detach
  \/ \E r \in Request : Send(r) \/ \E by \in Request : Answer(r, by)
  \/ \E R \in SUBSET Request :
       \/ Fail(R)
       \/ \E P \in SUBSET Peer : Reset(P, R)

ChannelSpec == Init /\ [][Next]_channelVars
=============================================================================
