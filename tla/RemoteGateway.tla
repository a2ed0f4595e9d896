---------------------------- MODULE RemoteGateway ----------------------------
(***************************************************************************)
(* The remote gateway (remote/gateway.ts, session-router.ts,               *)
(* approval-policy.ts), the tool invocations that use it (tools/           *)
(* registry.ts) and the relay client in the extension (easyeda-bridge-     *)
(* extension/src/remote-client.ts).                                        *)
(*                                                                         *)
(* A relay socket is a session: the client registers once on each.  An     *)
(* action is a stretch of the gateway or of the client between two awaits. *)
(* Frames but tool requests are received as they are sent.                 *)
(***************************************************************************)
EXTENDS SessionDispatchQueue, FiniteSets

CONSTANTS
  NoSocket,     (* No relay socket.                                      *)
  Approval,     (* Identifiers of approval requests.                     *)
  NoApproval,   (* No approval.                                          *)
  Unused,       (* An identifier that was not given yet.                 *)
  Gone,         (* One whose record was deleted.                         *)
  Attempt,      (* Invocations of tools, and direct tool requests.       *)
  Deed,         (* What each attempt does: a tool and its input.         *)
  Reads         (* The deeds of read risk, which need no approval.       *)

Socket == Session

ASSUME GatewayAssumption ==
  /\ Session \subseteq Nat /\ NoSocket \notin Session
  /\ NoApproval \notin Approval
  /\ Unused # Gone

VARIABLES
  serverEnd,    (* The gateway's end of each socket.                              *)
  clientEnd,    (* The extension's end.                                           *)
  routable,     (* Sessions with a registered connection.                         *)
  owned,        (* Sessions paired with the account.                              *)
  expired,      (* Sessions past their time to live.                              *)
  current,      (* The socket the relay client calls its own.                     *)
  desired,      (* Off, or the connection wanted, with a fresh or spent code.     *)
  reconnecting, (* The reconnect timer is set.                                    *)
  approvals,    (* The approval store; what was deleted stays gone.               *)
  target,       (* The session an attempt was authorised for.                     *)
  granted,      (* The invocation grants in force.                                *)
  consent,      (* The approval an attempt consumed.                              *)
  consented,    (* What the user said yes to: approval, deed, session.            *)
  madeBy,       (* The attempt each call belongs to.                              *)
  request       (* Where the request of a call is: none, transit, executing, done *)

endVars      == <<serverEnd, clientEnd>>
sessionVars  == <<routable, owned, expired>>
clientVars   == <<current, desired, reconnecting>>
approvalVars == <<approvals, consented>>
attemptVars  == <<target, granted, consent>>
callVars     == <<madeBy, request>>
gatewayVars  == <<queueVars, endVars, sessionVars, clientVars, approvalVars, attemptVars, callVars>>

Deeds == {Deed[t] : t \in Attempt}
End   == {"unused", "dialing", "open", "closing", "closed"}

\* The extension asks its user, or will not: the prompt or its answer was lost.
Undecided == {"asked", "unasked"}

ApprovalRecord == [deed : Deeds, session : Session, decision : Undecided \cup {"approved"}]

GatewayTypeOK ==
  /\ QueueTypeOK
  /\ serverEnd \in [Socket -> End]
  /\ clientEnd \in [Socket -> End]
  /\ routable \subseteq {s \in Session : serverEnd[s] \in {"open", "closing"}}
  /\ owned \subseteq Session
  /\ expired \subseteq Session
  /\ current \in Socket \cup {NoSocket}
  /\ desired \in {"off", "fresh", "spent"}
  /\ reconnecting \in BOOLEAN
  /\ approvals \in [Approval -> ApprovalRecord \cup {Unused, Gone}]
  /\ consented \subseteq Approval \X Deeds \X Session
  /\ target \in [Attempt -> Session \cup {NoSession}]
  /\ granted \subseteq Attempt
  /\ consent \in [Attempt -> Approval \cup {NoApproval}]
  /\ madeBy \in [Call -> Attempt \cup {"nobody"}]
  /\ request \in [Call -> {"none", "transit", "executing", "done"}]

GatewayInit ==
  /\ QueueInit
  /\ serverEnd = [s \in Socket |-> "unused"]
  /\ clientEnd = [s \in Socket |-> "unused"]
  /\ routable = {} /\ owned = {} /\ expired = {}
  /\ current = NoSocket
  /\ desired = "off"
  /\ reconnecting = FALSE
  /\ approvals = [a \in Approval |-> Unused]
  /\ consented = {}
  /\ target = [t \in Attempt |-> NoSession]
  /\ granted = {}
  /\ consent = [t \in Attempt |-> NoApproval]
  /\ madeBy = [c \in Call |-> "nobody"]
  /\ request = [c \in Call |-> "none"]

-----------------------------------------------------------------------------
(***************************************************************************)
(* Sessions.                                                               *)
(***************************************************************************)
Recorded == {a \in Approval : approvals[a] \notin {Unused, Gone}}

Disconnect_KeepRoute(s) ==
  /\ approvals' = [a \in Approval |->
                     IF a \in Recorded /\ approvals[a].session = s THEN Gone ELSE approvals[a]]
  /\ granted' = {t \in granted : target[t] # s}
  /\ UNCHANGED routable

Disconnect_KeepGrants(s) ==
  /\ routable' = routable \ {s}
  /\ approvals' = [a \in Approval |->
                     IF a \in Recorded /\ approvals[a].session = s THEN Gone ELSE approvals[a]]
  /\ UNCHANGED granted

\* disconnect: the route, the approvals and the grants of a session go.
Disconnect(s) ==
  /\ routable' = routable \ {s}
  /\ approvals' = [a \in Approval |->
                     IF a \in Recorded /\ approvals[a].session = s THEN Gone ELSE approvals[a]]
  /\ granted' = {t \in granted : target[t] # s}

KeepSessions == UNCHANGED <<routable, approvals, granted>>

\* resolve: the caller names the session, or there is no other.
Live == (owned \cap routable) \ expired

\* The pairing code was right, and its session was not given when it was made.
PairByHttp(s) ==
  /\ s \in routable \ (expired \cup owned)
  /\ owned' = owned \cup {s}
  /\ UNCHANGED <<queueVars, endVars, routable, expired, clientVars, approvalVars, attemptVars, callVars>>

SessionExpires(s) ==
  /\ s \in Live
  /\ expired' = expired \cup {s}
  /\ UNCHANGED <<queueVars, endVars, routable, owned, clientVars, approvalVars, attemptVars, callVars>>

-----------------------------------------------------------------------------
(***************************************************************************)
(* Approvals and attempts.                                                 *)
(***************************************************************************)

\* An invocation without an approval, which ends with APPROVAL_REQUIRED.  One
\* that is already pending is found; one that can not be sent is deleted.
AskApproval(a, d, s) ==
  /\ d \in Deeds \ Reads
  /\ s \in Live
  /\ approvals[a] = Unused
  /\ ~\E b \in Recorded : /\ approvals[b].deed = d /\ approvals[b].session = s
                          /\ approvals[b].decision \in Undecided
  /\ LET reached == current = s /\ clientEnd[s] = "open"
         record  == [deed |-> d, session |-> s, decision |-> IF reached THEN "asked" ELSE "unasked"]
     IN approvals' = [approvals EXCEPT ![a] = IF serverEnd[s] = "open" THEN record ELSE Gone]
  /\ UNCHANGED <<queueVars, endVars, sessionVars, clientVars, consented, attemptVars, callVars>>

\* What is past its time, or was rejected, is as good as deleted.
ApprovalExpires(a) ==
  /\ a \in Recorded
  /\ approvals' = [approvals EXCEPT ![a] = Gone]
  /\ UNCHANGED <<queueVars, endVars, sessionVars, clientVars, consented, attemptVars, callVars>>

\* The user answers, on whatever socket the client has by then; the gateway takes
\* the answer from the session that was asked only.
Decide(a, approved) ==
  /\ a \in Recorded /\ approvals[a].decision = "asked"
  /\ LET heard == /\ current = approvals[a].session
                  /\ clientEnd[current] = "open" /\ serverEnd[current] = "open"
     IN IF ~heard
        THEN /\ approvals' = [approvals EXCEPT ![a].decision = "unasked"]
             /\ UNCHANGED consented
        ELSE IF approved
        THEN /\ approvals' = [approvals EXCEPT ![a].decision = "approved"]
             /\ consented' = consented \cup {<<a, approvals[a].deed, current>>}
        ELSE /\ approvals' = [approvals EXCEPT ![a] = Gone]
             /\ UNCHANGED consented
  /\ UNCHANGED <<queueVars, endVars, sessionVars, clientVars, attemptVars, callVars>>

ConsumeApproval_Keep(t, a, s) ==
  /\ consent[t] = NoApproval
  /\ a \in Recorded
  /\ approvals[a] = [deed |-> Deed[t], session |-> s, decision |-> "approved"]
  /\ consent' = [consent EXCEPT ![t] = a]
  /\ target' = [target EXCEPT ![t] = s]
  /\ UNCHANGED approvals

\* consumeApproved: it must be this deed on this session, and is then deleted.
ConsumeApproval(t, a, s) ==
  /\ consent[t] = NoApproval
  /\ a \in Recorded
  /\ approvals[a] = [deed |-> Deed[t], session |-> s, decision |-> "approved"]
  /\ approvals' = [approvals EXCEPT ![a] = Gone]
  /\ consent' = [consent EXCEPT ![t] = a]
  /\ target' = [target EXCEPT ![t] = s]

\* authorizeToolInvocation with an approval: the handler gets a grant.
Authorize(t, a, s) ==
  /\ s \in Live
  /\ ConsumeApproval(t, a, s)
  /\ granted' = granted \cup {t}
  /\ UNCHANGED <<queueVars, endVars, sessionVars, clientVars, consented, callVars>>

\* The handler is done, though calls of it may not be, or takes too long.
GrantEnds(t) ==
  /\ t \in granted
  /\ granted' = granted \ {t}
  /\ UNCHANGED <<queueVars, endVars, sessionVars, clientVars, approvalVars, target, consent, callVars>>

-----------------------------------------------------------------------------
(***************************************************************************)
(* Calls.                                                                  *)
(***************************************************************************)

\* routeToolRequest from a handler: the route and the grant are looked at before
\* the call is queued.
RouteCall(t, c, s) ==
  /\ s \in Live
  /\ Deed[t] \notin Reads => t \in granted /\ target[t] = s
  /\ Enter(c, s)
  /\ madeBy' = [madeBy EXCEPT ![c] = t]
  /\ UNCHANGED <<endVars, sessionVars, clientVars, approvalVars, attemptVars, request>>

\* The same for a request to /remote/tool-requests, which has an approval itself.
RouteDirect(t, a, c, s) ==
  /\ s \in Live
  /\ ConsumeApproval(t, a, s)
  /\ Enter(c, s)
  /\ madeBy' = [madeBy EXCEPT ![c] = t]
  /\ UNCHANGED <<endVars, sessionVars, clientVars, consented, granted, request>>

\* Its turn: the connection must still be the one that was found.
Dispatch(c) ==
  /\ Begin(c)
  /\ session[c] \in routable /\ serverEnd[session[c]] = "open"
  /\ request' = [request EXCEPT ![c] = "transit"]
  /\ UNCHANGED <<endVars, sessionVars, clientVars, approvalVars, attemptVars, madeBy>>

DispatchFails(c) ==
  /\ Skip(c)
  /\ session[c] \notin routable \/ serverEnd[session[c]] # "open"
  /\ request' = [request EXCEPT ![c] = "done"]
  /\ UNCHANGED <<endVars, sessionVars, clientVars, approvalVars, attemptVars, madeBy>>

DispatchTimesOut_ReleaseOnly(c) ==
  /\ Leave(c)
  /\ UNCHANGED <<endVars, sessionVars, clientVars, approvalVars, attemptVars, callVars>>

DispatchTimesOut_Routed(c) ==
  /\ turn[c] = "in" /\ session[c] \in routable
  /\ Leave(c)
  /\ Disconnect(session[c])
  /\ serverEnd' = [serverEnd EXCEPT ![session[c]] = IF @ = "open" THEN "closed" ELSE @]
  /\ UNCHANGED <<clientEnd, owned, expired, clientVars, consented, target, consent, callVars>>

\* The deadline: the session is quarantined before the queue goes on.  Its socket
\* is closed; what may still come of it concerns nobody.
DispatchTimesOut(c) ==
  /\ Leave(c)
  /\ Disconnect(session[c])
  /\ serverEnd' = [serverEnd EXCEPT ![session[c]] = IF @ = "open" THEN "closed" ELSE @]
  /\ UNCHANGED <<clientEnd, owned, expired, clientVars, consented, target, consent, callVars>>

\* The request reaches the socket, if that still is the client's, or is lost.
Deliver(c) ==
  /\ request[c] = "transit"
  /\ \E arrives \in BOOLEAN :
       request' = [request EXCEPT ![c] =
                     IF arrives /\ current = session[c] /\ clientEnd[current] = "open"
                     THEN "executing" ELSE "done"]
  /\ UNCHANGED <<queueVars, endVars, sessionVars, clientVars, approvalVars, attemptVars, madeBy>>

\* The extension has executed it.  The answer goes to the socket the client has by
\* then; the gateway's end of that one knows its own requests only.
Respond(c) ==
  /\ request[c] = "executing"
  /\ request' = [request EXCEPT ![c] = "done"]
  /\ \/ /\ turn[c] = "in"
        /\ current = session[c] /\ clientEnd[current] = "open" /\ serverEnd[current] = "open"
        /\ Leave(c)
     \/ UNCHANGED queueVars
  /\ UNCHANGED <<endVars, sessionVars, clientVars, approvalVars, attemptVars, madeBy>>

-----------------------------------------------------------------------------
(***************************************************************************)
(* Sockets.                                                                *)
(***************************************************************************)

\* The gateway sees the socket closed: what was outstanding on it is rejected.
ServerSeesClose(s) ==
  /\ serverEnd[s] \in {"open", "closing"}
  /\ serverEnd' = [serverEnd EXCEPT ![s] = "closed"]
  /\ Disconnect(s)
  /\ LET outstanding == {c \in Call : session[c] = s /\ turn[c] = "in"}
     IN IF outstanding = {} THEN UNCHANGED queueVars ELSE \E c \in outstanding : Leave(c)
  /\ UNCHANGED <<clientEnd, owned, expired, clientVars, consented, target, consent, callVars>>

\* The close frame of the client is there, the close event not yet.
ServerSeesClosing(s) ==
  /\ serverEnd[s] = "open"
  /\ clientEnd[s] \in {"closing", "closed"}
  /\ serverEnd' = [serverEnd EXCEPT ![s] = "closing"]
  /\ UNCHANGED <<queueVars, clientEnd, sessionVars, clientVars, approvalVars, attemptVars, callVars>>

\* Sockets are numbered in the order in which they are opened.
IsNextSocket(s) ==
  /\ clientEnd[s] = "unused"
  /\ \A r \in Socket : r < s => clientEnd[r] # "unused"

\* openSocket: the constructor may throw.
OpenSocket(s) ==
  \/ /\ current' = s
     /\ reconnecting' = FALSE
  \/ /\ current' = NoSocket
     /\ reconnecting' = TRUE

EndsNow_KeepOld(close) ==
  clientEnd' = [r \in Socket |->
                  IF r = current' /\ clientEnd[r] = "unused" THEN "dialing" ELSE clientEnd[r]]

\* What openSocket and the close of the current socket, if it is closed, leave of
\* the client's ends.  Events of a socket that is not current are ignored.
EndsNow(close) ==
  clientEnd' = [r \in Socket |->
                  CASE r = current' /\ clientEnd[r] = "unused" -> "dialing"
                    [] r = current /\ close -> "closed"
                    [] OTHER -> clientEnd[r]]

\* session_closed, which the gateway takes as a disconnect, before the close.
Farewell ==
  IF current # NoSocket /\ clientEnd[current] = "open" /\ serverEnd[current] = "open"
  THEN Disconnect(current) \/ KeepSessions
  ELSE KeepSessions

ClientConnect(s, code) ==
  /\ IsNextSocket(s)
  /\ desired' = code
  /\ Farewell
  /\ OpenSocket(s)
  /\ EndsNow(TRUE)
  /\ UNCHANGED <<queueVars, serverEnd, owned, expired, consented, target, consent, callVars>>

ClientDisconnect ==
  /\ desired # "off"
  /\ desired' = "off"
  /\ Farewell
  /\ current' = NoSocket
  /\ reconnecting' = FALSE
  /\ EndsNow(TRUE)
  /\ UNCHANGED <<queueVars, serverEnd, owned, expired, consented, target, consent, callVars>>

\* The reconnect timer.
Reconnect(s) ==
  /\ reconnecting
  /\ IsNextSocket(s)
  /\ OpenSocket(s)
  /\ EndsNow(FALSE)
  /\ UNCHANGED <<queueVars, serverEnd, sessionVars, desired, approvalVars, attemptVars, callVars>>

\* The socket opens: the client registers, with the code it was given at first.
Open(s) ==
  /\ clientEnd[s] = "dialing"
  /\ current = s
  /\ clientEnd' = [clientEnd EXCEPT ![s] = "open"]
  /\ serverEnd' = [serverEnd EXCEPT ![s] = "open"]
  /\ routable' = routable \cup {s}
  /\ IF desired = "fresh"
     THEN owned' = owned \cup {s} /\ desired' = "spent"
     ELSE UNCHANGED <<owned, desired>>
  /\ UNCHANGED <<queueVars, expired, current, reconnecting, approvalVars, attemptVars, callVars>>

\* No heartbeat has come for 45 s: the gateway sends none of its own.
HeartbeatStale(s) ==
  /\ current = s
  /\ clientEnd[s] = "open"
  /\ clientEnd' = [clientEnd EXCEPT ![s] = "closing"]
  /\ UNCHANGED <<queueVars, serverEnd, sessionVars, clientVars, approvalVars, attemptVars, callVars>>

ClientSeesClose(s) ==
  /\ current = s
  /\ clientEnd' = [clientEnd EXCEPT ![s] = "closed"]
  /\ current' = NoSocket
  /\ reconnecting' = (desired # "off")
  /\ UNCHANGED <<queueVars, serverEnd, sessionVars, desired, approvalVars, attemptVars, callVars>>

-----------------------------------------------------------------------------
AttemptStep ==
  \E t \in Attempt :
    \/ GrantEnds(t)
    \/ \E s \in Session :
         \/ \E c \in Call : RouteCall(t, c, s)
         \/ \E a \in Approval : Authorize(t, a, s) \/ \E c \in Call : RouteDirect(t, a, c, s)

ApprovalStep ==
  \E a \in Approval :
    \/ \E d \in Deeds, s \in Session : AskApproval(a, d, s)
    \/ ApprovalExpires(a)
    \/ \E approved \in BOOLEAN : Decide(a, approved)

CallStep ==
  \E c \in Call :
    Dispatch(c) \/ DispatchFails(c) \/ DispatchTimesOut(c) \/ Deliver(c) \/ Respond(c)

SocketStep ==
  \/ \E s \in Socket :
       \/ PairByHttp(s) \/ SessionExpires(s)
       \/ ServerSeesClose(s) \/ ServerSeesClosing(s)
       \/ \E code \in {"fresh", "spent"} : ClientConnect(s, code)
       \/ Reconnect(s) \/ Open(s) \/ HeartbeatStale(s) \/ ClientSeesClose(s)
  \/ ClientDisconnect

GatewayNext == AttemptStep \/ ApprovalStep \/ CallStep \/ SocketStep

GatewaySpec == GatewayInit /\ [][GatewayNext]_gatewayVars

(***************************************************************************)
(* A call whose turn it is runs, and the timer of a dispatch fires.        *)
(***************************************************************************)
FairGatewaySpec ==
  /\ GatewaySpec
  /\ \A c \in Call : WF_gatewayVars(Dispatch(c) \/ DispatchFails(c) \/ DispatchTimesOut(c))

-----------------------------------------------------------------------------
(***************************************************************************)
(* A session has one request at most that is on its way to the editor or   *)
(* being carried out there, also when the gateway has given it up: the     *)
(* session is quarantined before its next call is looked at.               *)
(***************************************************************************)
AtEditor(c) == request[c] \in {"transit", "executing"}

NoOverlap ==
  \A c, d \in Call : AtEditor(c) /\ AtEditor(d) /\ session[c] = session[d] => c = d

(***************************************************************************)
(* Whatever a request changes in the editor, the user of that editor has   *)
(* agreed to: its attempt consumed an approval of that very deed on that   *)
(* session, and no other attempt lives on the same approval.               *)
(***************************************************************************)
ConsentCoversWork ==
  \A c \in Call :
    LET t == madeBy[c]
    IN AtEditor(c) /\ Deed[t] \notin Reads =>
         /\ <<consent[t], Deed[t], session[c]>> \in consented
         /\ \A u \in Attempt \ {t} : consent[u] # consent[t]

(***************************************************************************)
(* Approvals and grants die with their session, whoever ends it.           *)
(***************************************************************************)
RightsEndWithSession ==
  /\ \A a \in Recorded : approvals[a].session \in routable
  /\ \A t \in granted : target[t] \in routable

(***************************************************************************)
(* A relay that is switched on has its socket or a timer to get one, never *)
(* both; one that is off has neither, and no forgotten socket stays open.  *)
(***************************************************************************)
OneRelaySocket ==
  /\ desired # "off" <=> (current # NoSocket \/ reconnecting)
  /\ ~(current # NoSocket /\ reconnecting)
  /\ \A s \in Socket \ {current} : clientEnd[s] \in {"unused", "closed"}

(***************************************************************************)
(* Every call that was queued leaves the queue: whatever becomes of the    *)
(* sockets and of the calls before it, nobody waits for ever.              *)
(***************************************************************************)
QueuedCallsEnd == \A c \in Call : Active(c) ~> turn[c] = "left"
=============================================================================
