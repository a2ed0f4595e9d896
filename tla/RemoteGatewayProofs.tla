------------------------- MODULE RemoteGatewayProofs -------------------------
(***************************************************************************)
(* Theorems about RemoteGateway, for any number of sockets, calls,         *)
(* attempts and approvals.                                                 *)
(***************************************************************************)
EXTENDS RemoteGateway, SessionDispatchQueueProofs

\* The socket has been open at the client's end.
NotNew(s) == clientEnd[s] \notin {"unused", "dialing"}

\* Sessions are those of sockets that have been open.
SocketsAreOld ==
  /\ \A s \in routable : NotNew(s)
  /\ \A c \in Call : turn[c] # "out" => NotNew(session[c])

\* What the editor has was sent when it was the turn of its call.
WorkIsQueued == \A c \in Call : AtEditor(c) => turn[c] \in {"in", "left"}

\* A call that is over leaves work at the editor only with its session closed.
GivenUpIsClosed == \A c \in Call : AtEditor(c) /\ turn[c] = "left" => session[c] \notin routable

\* What is approved in the store, the user has approved.
ApprovedIsConsented ==
  \A a \in Recorded :
    approvals[a].decision = "approved" =>
      <<a, approvals[a].deed, approvals[a].session>> \in consented

\* An approval that was used is gone, and was used by one attempt.
UsedOnce ==
  /\ \A t \in Attempt : consent[t] # NoApproval => approvals[consent[t]] = Gone
  /\ \A t, u \in Attempt : consent[t] = consent[u] /\ consent[t] # NoApproval => t = u

\* The attempt used an approval of its deed on the session.
Covered(t, s) == consent[t] # NoApproval /\ <<consent[t], Deed[t], s>> \in consented

\* The user of the session has agreed to what grants and calls are for.
RightsAreCovered ==
  /\ \A t \in granted : Covered(t, target[t])
  /\ \A c \in Call :
       turn[c] # "out" =>
         madeBy[c] \in Attempt /\ (Deed[madeBy[c]] \notin Reads => Covered(madeBy[c], session[c]))

GatewayInv ==
  /\ QueueInv /\ GatewayTypeOK
  /\ RightsEndWithSession /\ OneRelaySocket
  /\ SocketsAreOld /\ WorkIsQueued /\ GivenUpIsClosed /\ NoOverlap
  /\ ApprovedIsConsented /\ UsedOnce /\ RightsAreCovered
-----------------------------------------------------------------------------

\* The actions of the gateway.
LEMMA GatewayActions ==
  ASSUME GatewayNext
  PROVE  \/ \E t \in Attempt : GrantEnds(t)
         \/ \E t \in Attempt, c \in Call, s \in Session : RouteCall(t, c, s)
         \/ \E t \in Attempt, a \in Approval, s \in Session : Authorize(t, a, s)
         \/ \E t \in Attempt, a \in Approval, c \in Call, s \in Session : RouteDirect(t, a, c, s)
         \/ \E a \in Approval, d \in Deeds, s \in Session : AskApproval(a, d, s)
         \/ \E a \in Approval : ApprovalExpires(a)
         \/ \E a \in Approval, approved \in BOOLEAN : Decide(a, approved)
         \/ \E c \in Call : Dispatch(c)
         \/ \E c \in Call : DispatchFails(c)
         \/ \E c \in Call : DispatchTimesOut(c)
         \/ \E c \in Call : Deliver(c)
         \/ \E c \in Call : Respond(c)
         \/ \E s \in Socket : PairByHttp(s)
         \/ \E s \in Socket : SessionExpires(s)
         \/ \E s \in Socket : ServerSeesClose(s)
         \/ \E s \in Socket : ServerSeesClosing(s)
         \/ \E s \in Socket, code \in {"fresh", "spent"} : ClientConnect(s, code)
         \/ \E s \in Socket : Reconnect(s)
         \/ \E s \in Socket : Open(s)
         \/ \E s \in Socket : HeartbeatStale(s)
         \/ \E s \in Socket : ClientSeesClose(s)
         \/ ClientDisconnect
BY DEF GatewayNext, AttemptStep, ApprovalStep, CallStep, SocketStep

\* To the queue every step is one of its own, or nothing.
LEMMA QueueStep ==
  ASSUME GatewayInv, GatewayNext
  PROVE  [QueueNext]_queueVars
<1>1. CASE \/ \E t \in Attempt : GrantEnds(t)
           \/ \E t \in Attempt, a \in Approval, s \in Session : Authorize(t, a, s)
           \/ \E a \in Approval, d \in Deeds, s \in Session : AskApproval(a, d, s)
           \/ \E a \in Approval : ApprovalExpires(a)
           \/ \E a \in Approval, approved \in BOOLEAN : Decide(a, approved)
           \/ \E c \in Call : Deliver(c)
           \/ \E s \in Socket : PairByHttp(s)
           \/ \E s \in Socket : SessionExpires(s)
           \/ \E s \in Socket : ServerSeesClosing(s)
           \/ \E s \in Socket, code \in {"fresh", "spent"} : ClientConnect(s, code)
           \/ \E s \in Socket : Reconnect(s)
           \/ \E s \in Socket : Open(s)
           \/ \E s \in Socket : HeartbeatStale(s)
           \/ \E s \in Socket : ClientSeesClose(s)
           \/ ClientDisconnect
  BY <1>1 DEF GrantEnds, Authorize, AskApproval, ApprovalExpires, Decide, Deliver,
              PairByHttp, SessionExpires, ServerSeesClosing, ClientConnect, Reconnect, Open,
              HeartbeatStale, ClientSeesClose, ClientDisconnect, GatewayInv, queueVars,
              endVars, sessionVars, clientVars, approvalVars, attemptVars, callVars
<1>2. CASE \E t \in Attempt, c \in Call, s \in Session : RouteCall(t, c, s)
  BY <1>2 DEF RouteCall, QueueNext
<1>3. CASE \E t \in Attempt, a \in Approval, c \in Call, s \in Session : RouteDirect(t, a, c, s)
  BY <1>3 DEF RouteDirect, QueueNext
<1>4. CASE \E c \in Call : Dispatch(c)
  BY <1>4 DEF Dispatch, QueueNext
<1>5. CASE \E c \in Call : DispatchFails(c)
  BY <1>5 DEF DispatchFails, QueueNext
<1>6. CASE \E c \in Call : DispatchTimesOut(c)
  BY <1>6 DEF DispatchTimesOut, QueueNext
<1>7. CASE \E c \in Call : Respond(c)
  BY <1>7 DEF Respond, QueueNext, queueVars
<1>8. CASE \E s \in Socket : ServerSeesClose(s)
  BY <1>8 DEF ServerSeesClose, QueueNext, queueVars
<1> QED BY GatewayActions, <1>1, <1>2, <1>3, <1>4, <1>5, <1>6, <1>7, <1>8

\* disconnect keeps the types.
LEMMA DisconnectTypes ==
  ASSUME GatewayTypeOK, NEW s, Disconnect(s)
  PROVE  /\ approvals' \in [Approval -> ApprovalRecord \cup {Unused, Gone}]
         /\ granted' \subseteq Attempt
         /\ routable' = routable \ {s}
BY DEF Disconnect, GatewayTypeOK

\* So does a farewell, whether or not the gateway hears it.
LEMMA FarewellTypes ==
  ASSUME GatewayTypeOK, Farewell
  PROVE  /\ approvals' \in [Approval -> ApprovalRecord \cup {Unused, Gone}]
         /\ granted' \subseteq Attempt
         /\ routable' \subseteq routable
BY DisconnectTypes DEF Farewell, KeepSessions, GatewayTypeOK

\* What opening and closing leave of the client's ends are ends.
LEMMA EndsNowTypes ==
  ASSUME GatewayTypeOK, NEW close, EndsNow(close)
  PROVE  clientEnd' \in [Socket -> End]
<1>1. \A r \in Socket : clientEnd[r] \in End
  BY DEF GatewayTypeOK
<1> QED BY <1>1 DEF EndsNow, End

\* Every step keeps the types, and the connections the gateway has routes for open.
LEMMA TypeStep ==
  ASSUME GatewayInv, GatewayNext
  PROVE  (QueueTypeOK => GatewayTypeOK)'
<1>1. CASE \E t \in Attempt : GrantEnds(t)
  BY <1>1 DEF GrantEnds, GatewayInv, GatewayTypeOK, End, Socket, ApprovalRecord, Undecided,
              Deeds, queueVars, endVars, sessionVars, clientVars, approvalVars, attemptVars,
              callVars
<1>2. CASE \E t \in Attempt, c \in Call, s \in Session : RouteCall(t, c, s)
  BY <1>2 DEF RouteCall, Enter, IsNext, Live, GatewayInv, GatewayTypeOK, End, Socket,
              ApprovalRecord, Undecided, Deeds, queueVars, endVars, sessionVars, clientVars,
              approvalVars, attemptVars, callVars
<1>3. CASE \E t \in Attempt, a \in Approval, s \in Session : Authorize(t, a, s)
  BY <1>3 DEF Authorize, ConsumeApproval, Recorded, Live, GatewayInv, GatewayTypeOK, End,
              Socket, ApprovalRecord, Undecided, Deeds, queueVars, endVars, sessionVars,
              clientVars, approvalVars, attemptVars, callVars
<1>4. CASE \E t \in Attempt, a \in Approval, c \in Call, s \in Session : RouteDirect(t, a, c, s)
  BY <1>4 DEF RouteDirect, Enter, IsNext, ConsumeApproval, Recorded, Live, GatewayInv,
              GatewayTypeOK, End, Socket, ApprovalRecord, Undecided, Deeds, queueVars,
              endVars, sessionVars, clientVars, approvalVars, attemptVars, callVars
<1>5. CASE \E a \in Approval, d \in Deeds, s \in Session : AskApproval(a, d, s)
  BY <1>5 DEF AskApproval, Recorded, Live, GatewayInv, GatewayTypeOK, End, Socket,
              ApprovalRecord, Undecided, Deeds, queueVars, endVars, sessionVars, clientVars,
              approvalVars, attemptVars, callVars
<1>6. CASE \E a \in Approval : ApprovalExpires(a)
  BY <1>6 DEF ApprovalExpires, Recorded, GatewayInv, GatewayTypeOK, End, Socket,
              ApprovalRecord, Undecided, Deeds, queueVars, endVars, sessionVars, clientVars,
              approvalVars, attemptVars, callVars
<1>7. CASE \E a \in Approval, approved \in BOOLEAN : Decide(a, approved)
  BY <1>7 DEF Decide, Recorded, GatewayInv, GatewayTypeOK, End, Socket, ApprovalRecord,
              Undecided, Deeds, queueVars, endVars, sessionVars, clientVars, approvalVars,
              attemptVars, callVars
<1>8. CASE \E c \in Call : Dispatch(c)
  BY <1>8 DEF Dispatch, Begin, IsTurn, GatewayInv, GatewayTypeOK, End, Socket,
              ApprovalRecord, Undecided, Deeds, queueVars, endVars, sessionVars, clientVars,
              approvalVars, attemptVars, callVars
<1>9. CASE \E c \in Call : DispatchFails(c)
  BY <1>9 DEF DispatchFails, Skip, IsTurn, Release, GatewayInv, GatewayTypeOK, End, Socket,
              ApprovalRecord, Undecided, Deeds, queueVars, endVars, sessionVars, clientVars,
              approvalVars, attemptVars, callVars
<1>10. CASE \E c \in Call : DispatchTimesOut(c)
  <2> PICK c \in Call : DispatchTimesOut(c)
    BY <1>10
  <2>1. /\ approvals' \in [Approval -> ApprovalRecord \cup {Unused, Gone}]
        /\ granted' \subseteq Attempt
        /\ routable' = routable \ {session[c]}
    BY DisconnectTypes DEF DispatchTimesOut, GatewayInv
  <2>2. serverEnd' = [serverEnd EXCEPT ![session[c]] = IF @ = "open" THEN "closed" ELSE @]
    BY DEF DispatchTimesOut
  <2>3. serverEnd' \in [Socket -> End]
    BY <2>2 DEF GatewayInv, GatewayTypeOK, End
  <2>4. routable' \subseteq {s \in Session : serverEnd'[s] \in {"open", "closing"}}
    BY <2>1, <2>2 DEF GatewayInv, GatewayTypeOK, Socket
  <2> QED BY <2>1, <2>3, <2>4
          DEF DispatchTimesOut, GatewayInv, GatewayTypeOK, clientVars, callVars
<1>11. CASE \E c \in Call : Deliver(c)
  BY <1>11 DEF Deliver, GatewayInv, GatewayTypeOK, End, Socket, ApprovalRecord, Undecided,
               Deeds, queueVars, endVars, sessionVars, clientVars, approvalVars,
               attemptVars, callVars
<1>12. CASE \E c \in Call : Respond(c)
  BY <1>12 DEF Respond, Leave, Release, GatewayInv, GatewayTypeOK, End, Socket,
               ApprovalRecord, Undecided, Deeds, queueVars, endVars, sessionVars,
               clientVars, approvalVars, attemptVars, callVars
<1>13. CASE \E s \in Socket : PairByHttp(s)
  BY <1>13 DEF PairByHttp, GatewayInv, GatewayTypeOK, End, Socket, ApprovalRecord,
               Undecided, Deeds, queueVars, endVars, sessionVars, clientVars, approvalVars,
               attemptVars, callVars
<1>14. CASE \E s \in Socket : SessionExpires(s)
  BY <1>14 DEF SessionExpires, GatewayInv, GatewayTypeOK, End, Socket, ApprovalRecord,
               Undecided, Deeds, queueVars, endVars, sessionVars, clientVars, approvalVars,
               attemptVars, callVars
<1>15. CASE \E s \in Socket : ServerSeesClose(s)
  BY <1>15, DisconnectTypes
     DEF ServerSeesClose, GatewayInv, GatewayTypeOK, End, Socket, clientVars, callVars
<1>16. CASE \E s \in Socket : ServerSeesClosing(s)
  BY <1>16 DEF ServerSeesClosing, GatewayInv, GatewayTypeOK, End, Socket, ApprovalRecord,
               Undecided, Deeds, queueVars, endVars, sessionVars, clientVars, approvalVars,
               attemptVars, callVars
<1>17. CASE \E s \in Socket, code \in {"fresh", "spent"} : ClientConnect(s, code)
  BY <1>17, FarewellTypes, EndsNowTypes
     DEF ClientConnect, OpenSocket, GatewayInv, GatewayTypeOK, Socket, callVars
<1>18. CASE \E s \in Socket : Reconnect(s)
  BY <1>18, EndsNowTypes
     DEF Reconnect, OpenSocket, GatewayInv, GatewayTypeOK, Socket, sessionVars,
         approvalVars, attemptVars, callVars
<1>19. CASE \E s \in Socket : Open(s)
  BY <1>19 DEF Open, GatewayInv, GatewayTypeOK, End, Socket, ApprovalRecord, Undecided,
               Deeds, queueVars, endVars, sessionVars, clientVars, approvalVars,
               attemptVars, callVars
<1>20. CASE \E s \in Socket : HeartbeatStale(s)
  BY <1>20 DEF HeartbeatStale, GatewayInv, GatewayTypeOK, End, Socket, ApprovalRecord,
               Undecided, Deeds, queueVars, endVars, sessionVars, clientVars, approvalVars,
               attemptVars, callVars
<1>21. CASE \E s \in Socket : ClientSeesClose(s)
  BY <1>21 DEF ClientSeesClose, GatewayInv, GatewayTypeOK, End, Socket, ApprovalRecord,
               Undecided, Deeds, queueVars, endVars, sessionVars, clientVars, approvalVars,
               attemptVars, callVars
<1>22. CASE ClientDisconnect
  BY <1>22, FarewellTypes, EndsNowTypes
     DEF ClientDisconnect, GatewayInv, GatewayTypeOK, Socket, callVars
<1> QED BY GatewayActions, <1>1, <1>2, <1>3, <1>4, <1>5, <1>6, <1>7, <1>8, <1>9, <1>10,
                              <1>11, <1>12, <1>13, <1>14, <1>15, <1>16, <1>17, <1>18, <1>19,
                              <1>20, <1>21, <1>22

\* Approvals and grants are given on routable sessions, and go with the route.
LEMMA RightsStep ==
  ASSUME GatewayInv, GatewayNext
  PROVE  RightsEndWithSession'
<1>1. CASE \/ \E t \in Attempt, c \in Call, s \in Session : RouteCall(t, c, s)
           \/ \E c \in Call : Dispatch(c)
           \/ \E c \in Call : DispatchFails(c)
           \/ \E c \in Call : Deliver(c)
           \/ \E c \in Call : Respond(c)
           \/ \E s \in Socket : PairByHttp(s)
           \/ \E s \in Socket : SessionExpires(s)
           \/ \E s \in Socket : ServerSeesClosing(s)
           \/ \E s \in Socket : Reconnect(s)
           \/ \E s \in Socket : HeartbeatStale(s)
           \/ \E s \in Socket : ClientSeesClose(s)
  BY <1>1 DEF RouteCall, Dispatch, DispatchFails, Deliver, Respond, PairByHttp,
              SessionExpires, ServerSeesClosing, Reconnect, HeartbeatStale, ClientSeesClose,
              GatewayInv, GatewayTypeOK, RightsEndWithSession, Live, Recorded,
              ApprovalRecord, queueVars, endVars, sessionVars, clientVars, approvalVars,
              attemptVars, callVars
<1>2. CASE \E t \in Attempt : GrantEnds(t)
  BY <1>2 DEF GrantEnds, GatewayInv, GatewayTypeOK, RightsEndWithSession, Live, Recorded,
              ApprovalRecord, queueVars, endVars, sessionVars, clientVars, approvalVars,
              attemptVars, callVars
<1>3. CASE \E t \in Attempt, a \in Approval, s \in Session : Authorize(t, a, s)
  BY <1>3 DEF Authorize, ConsumeApproval, Recorded, Live, GatewayInv, GatewayTypeOK,
              RightsEndWithSession, ApprovalRecord, queueVars, endVars, sessionVars,
              clientVars, approvalVars, attemptVars, callVars
<1>4. CASE \E t \in Attempt, a \in Approval, c \in Call, s \in Session : RouteDirect(t, a, c, s)
  BY <1>4 DEF RouteDirect, Enter, IsNext, ConsumeApproval, Recorded, Live, GatewayInv,
              GatewayTypeOK, RightsEndWithSession, ApprovalRecord, queueVars, endVars,
              sessionVars, clientVars, approvalVars, attemptVars, callVars
<1>5. CASE \E a \in Approval, d \in Deeds, s \in Session : AskApproval(a, d, s)
  BY <1>5 DEF AskApproval, Recorded, Live, GatewayInv, GatewayTypeOK, RightsEndWithSession,
              ApprovalRecord, queueVars, endVars, sessionVars, clientVars, approvalVars,
              attemptVars, callVars
<1>6. CASE \E a \in Approval : ApprovalExpires(a)
  BY <1>6 DEF ApprovalExpires, Recorded, GatewayInv, GatewayTypeOK, RightsEndWithSession,
              Live, ApprovalRecord, queueVars, endVars, sessionVars, clientVars,
              approvalVars, attemptVars, callVars
<1>7. CASE \E a \in Approval, approved \in BOOLEAN : Decide(a, approved)
  BY <1>7 DEF Decide, Recorded, GatewayInv, GatewayTypeOK, RightsEndWithSession, Live,
              ApprovalRecord, queueVars, endVars, sessionVars, clientVars, approvalVars,
              attemptVars, callVars
<1>8. CASE \E c \in Call : DispatchTimesOut(c)
  BY <1>8 DEF DispatchTimesOut, Leave, Release, Disconnect, Recorded, GatewayInv,
              GatewayTypeOK, RightsEndWithSession, Live, ApprovalRecord, queueVars, endVars,
              sessionVars, clientVars, approvalVars, attemptVars, callVars
<1>9. CASE \E s \in Socket : ServerSeesClose(s)
  BY <1>9 DEF ServerSeesClose, Leave, Release, Disconnect, Recorded, GatewayInv,
              GatewayTypeOK, RightsEndWithSession, Live, ApprovalRecord, queueVars, endVars,
              sessionVars, clientVars, approvalVars, attemptVars, callVars
<1>10. CASE \E s \in Socket : Open(s)
  BY <1>10 DEF Open, GatewayInv, GatewayTypeOK, RightsEndWithSession, Live, Recorded,
               ApprovalRecord, queueVars, endVars, sessionVars, clientVars, approvalVars,
               attemptVars, callVars
<1>11. CASE \E s \in Socket, code \in {"fresh", "spent"} : ClientConnect(s, code)
  BY <1>11 DEF ClientConnect, IsNextSocket, OpenSocket, EndsNow, Farewell, KeepSessions,
               Disconnect, Recorded, GatewayInv, GatewayTypeOK, RightsEndWithSession, Live,
               ApprovalRecord, queueVars, endVars, sessionVars, clientVars, approvalVars,
               attemptVars, callVars
<1>12. CASE ClientDisconnect
  BY <1>12 DEF ClientDisconnect, EndsNow, Farewell, KeepSessions, Disconnect, Recorded,
               GatewayInv, GatewayTypeOK, RightsEndWithSession, Live, ApprovalRecord,
               queueVars, endVars, sessionVars, clientVars, approvalVars, attemptVars,
               callVars
<1> QED BY GatewayActions, <1>1, <1>2, <1>3, <1>4, <1>5, <1>6, <1>7, <1>8, <1>9, <1>10,
                              <1>11, <1>12

\* A client that is switched on sets its timer when its socket closes.
LEMMA CloseIsSeen ==
  ASSUME GatewayInv, NEW s \in Socket, ClientSeesClose(s)
  PROVE  OneRelaySocket'
<1>1. /\ current = s /\ s # NoSocket /\ current' = NoSocket /\ desired' = desired
      /\ reconnecting' = (desired # "off")
      /\ clientEnd' = [clientEnd EXCEPT ![s] = "closed"]
  BY GatewayAssumption DEF ClientSeesClose, Socket
<1>2. desired # "off"
  BY <1>1 DEF GatewayInv, OneRelaySocket
<1>3. reconnecting' = TRUE
  BY <1>1, <1>2
<1>4. \A r \in Socket : clientEnd'[r] \in {"unused", "closed"}
  BY <1>1 DEF GatewayInv, GatewayTypeOK, OneRelaySocket
<1> QED BY <1>1, <1>2, <1>3, <1>4 DEF OneRelaySocket

\* The relay client replaces, closes or forgets its socket in one step.
LEMMA RelaySocketStep ==
  ASSUME GatewayInv, GatewayNext
  PROVE  OneRelaySocket'
<1>1. CASE \/ \E t \in Attempt : GrantEnds(t)
           \/ \E t \in Attempt, c \in Call, s \in Session : RouteCall(t, c, s)
           \/ \E t \in Attempt, a \in Approval, s \in Session : Authorize(t, a, s)
           \/ \E t \in Attempt, a \in Approval, c \in Call, s \in Session : RouteDirect(t, a, c, s)
           \/ \E a \in Approval, d \in Deeds, s \in Session : AskApproval(a, d, s)
           \/ \E a \in Approval : ApprovalExpires(a)
           \/ \E a \in Approval, approved \in BOOLEAN : Decide(a, approved)
           \/ \E c \in Call : Dispatch(c)
           \/ \E c \in Call : DispatchFails(c)
           \/ \E c \in Call : DispatchTimesOut(c)
           \/ \E c \in Call : Deliver(c)
           \/ \E c \in Call : Respond(c)
           \/ \E s \in Socket : PairByHttp(s)
           \/ \E s \in Socket : SessionExpires(s)
           \/ \E s \in Socket : ServerSeesClose(s)
           \/ \E s \in Socket : ServerSeesClosing(s)
  BY <1>1, GatewayAssumption DEF GrantEnds, RouteCall, Authorize, RouteDirect, AskApproval,
                                 ApprovalExpires, Decide, Dispatch, DispatchFails,
                                 DispatchTimesOut, Deliver, Respond, PairByHttp,
                                 SessionExpires, ServerSeesClose, ServerSeesClosing,
                                 GatewayInv, GatewayTypeOK, OneRelaySocket, Socket,
                                 queueVars, endVars, sessionVars, clientVars, approvalVars,
                                 attemptVars, callVars
<1>2. CASE \E s \in Socket, code \in {"fresh", "spent"} : ClientConnect(s, code)
  BY <1>2, GatewayAssumption DEF ClientConnect, IsNextSocket, OpenSocket, EndsNow, Farewell,
                                 KeepSessions, Disconnect, Recorded, GatewayInv,
                                 GatewayTypeOK, OneRelaySocket, Socket, queueVars, endVars,
                                 sessionVars, clientVars, approvalVars, attemptVars,
                                 callVars
<1>3. CASE ClientDisconnect
  BY <1>3, GatewayAssumption DEF ClientDisconnect, EndsNow, Farewell, KeepSessions,
                                 Disconnect, Recorded, GatewayInv, GatewayTypeOK,
                                 OneRelaySocket, Socket, queueVars, endVars, sessionVars,
                                 clientVars, approvalVars, attemptVars, callVars
<1>4. CASE \E s \in Socket : Reconnect(s)
  BY <1>4, GatewayAssumption DEF Reconnect, IsNextSocket, OpenSocket, EndsNow, GatewayInv,
                                 GatewayTypeOK, OneRelaySocket, Socket, queueVars, endVars,
                                 sessionVars, clientVars, approvalVars, attemptVars,
                                 callVars
<1>5. CASE \E s \in Socket : Open(s)
  BY <1>5, GatewayAssumption DEF Open, GatewayInv, GatewayTypeOK, OneRelaySocket, Socket,
                                 queueVars, endVars, sessionVars, clientVars, approvalVars,
                                 attemptVars, callVars
<1>6. CASE \E s \in Socket : HeartbeatStale(s)
  BY <1>6, GatewayAssumption DEF HeartbeatStale, GatewayInv, GatewayTypeOK, OneRelaySocket,
                                 Socket, queueVars, endVars, sessionVars, clientVars,
                                 approvalVars, attemptVars, callVars
<1>7. CASE \E s \in Socket : ClientSeesClose(s)
  BY <1>7, CloseIsSeen
<1> QED BY GatewayActions, <1>1, <1>2, <1>3, <1>4, <1>5, <1>6, <1>7

\* Nobody is routed to a socket that was not open yet, and none becomes new again.
LEMMA OldStep ==
  ASSUME GatewayInv, GatewayNext
  PROVE  SocketsAreOld'
<1>1. CASE \/ \E t \in Attempt : GrantEnds(t)
           \/ \E t \in Attempt, a \in Approval, s \in Session : Authorize(t, a, s)
           \/ \E a \in Approval, d \in Deeds, s \in Session : AskApproval(a, d, s)
           \/ \E a \in Approval : ApprovalExpires(a)
           \/ \E a \in Approval, approved \in BOOLEAN : Decide(a, approved)
           \/ \E c \in Call : Deliver(c)
           \/ \E s \in Socket : PairByHttp(s)
           \/ \E s \in Socket : SessionExpires(s)
           \/ \E s \in Socket : ServerSeesClosing(s)
  BY <1>1 DEF GrantEnds, Authorize, AskApproval, ApprovalExpires, Decide, Deliver,
              PairByHttp, SessionExpires, ServerSeesClosing, GatewayInv, QueueInv,
              QueueTypeOK, InOrder, GatewayTypeOK, SocketsAreOld, NotNew, Socket, Recorded,
              queueVars, endVars, sessionVars, clientVars, approvalVars, attemptVars,
              callVars
<1>2. CASE \E t \in Attempt, c \in Call, s \in Session : RouteCall(t, c, s)
  BY <1>2 DEF RouteCall, Enter, IsNext, Live, GatewayInv, QueueInv, QueueTypeOK, InOrder,
              GatewayTypeOK, SocketsAreOld, NotNew, Socket, Recorded, queueVars, endVars,
              sessionVars, clientVars, approvalVars, attemptVars, callVars
<1>3. CASE \E t \in Attempt, a \in Approval, c \in Call, s \in Session : RouteDirect(t, a, c, s)
  BY <1>3 DEF RouteDirect, Enter, IsNext, ConsumeApproval, Recorded, Live, GatewayInv,
              QueueInv, QueueTypeOK, InOrder, GatewayTypeOK, SocketsAreOld, NotNew, Socket,
              queueVars, endVars, sessionVars, clientVars, approvalVars, attemptVars,
              callVars
<1>4. CASE \E c \in Call : Dispatch(c)
  BY <1>4 DEF Dispatch, Begin, IsTurn, GatewayInv, QueueInv, QueueTypeOK, InOrder,
              GatewayTypeOK, SocketsAreOld, NotNew, Socket, Recorded, queueVars, endVars,
              sessionVars, clientVars, approvalVars, attemptVars, callVars
<1>5. CASE \E c \in Call : DispatchFails(c)
  BY <1>5 DEF DispatchFails, Skip, IsTurn, Release, GatewayInv, QueueInv, QueueTypeOK,
              InOrder, GatewayTypeOK, SocketsAreOld, NotNew, Socket, Recorded, queueVars,
              endVars, sessionVars, clientVars, approvalVars, attemptVars, callVars
<1>6. CASE \E c \in Call : DispatchTimesOut(c)
  BY <1>6 DEF DispatchTimesOut, Leave, Release, Disconnect, Recorded, GatewayInv, QueueInv,
              QueueTypeOK, InOrder, GatewayTypeOK, SocketsAreOld, NotNew, Socket, queueVars,
              endVars, sessionVars, clientVars, approvalVars, attemptVars, callVars
<1>7. CASE \E c \in Call : Respond(c)
  BY <1>7 DEF Respond, Leave, Release, GatewayInv, QueueInv, QueueTypeOK, InOrder,
              GatewayTypeOK, SocketsAreOld, NotNew, Socket, Recorded, queueVars, endVars,
              sessionVars, clientVars, approvalVars, attemptVars, callVars
<1>8. CASE \E s \in Socket : ServerSeesClose(s)
  BY <1>8 DEF ServerSeesClose, Leave, Release, Disconnect, Recorded, GatewayInv, QueueInv,
              QueueTypeOK, InOrder, GatewayTypeOK, SocketsAreOld, NotNew, Socket, queueVars,
              endVars, sessionVars, clientVars, approvalVars, attemptVars, callVars
<1>9. CASE \E s \in Socket : Open(s)
  BY <1>9 DEF Open, GatewayInv, QueueInv, QueueTypeOK, InOrder, GatewayTypeOK,
              SocketsAreOld, NotNew, Socket, Recorded, queueVars, endVars, sessionVars,
              clientVars, approvalVars, attemptVars, callVars
<1>10. CASE \E s \in Socket : HeartbeatStale(s)
  BY <1>10 DEF HeartbeatStale, GatewayInv, QueueInv, QueueTypeOK, InOrder, GatewayTypeOK,
               SocketsAreOld, NotNew, Socket, Recorded, queueVars, endVars, sessionVars,
               clientVars, approvalVars, attemptVars, callVars
<1>11. CASE \E s \in Socket : ClientSeesClose(s)
  BY <1>11 DEF ClientSeesClose, GatewayInv, QueueInv, QueueTypeOK, InOrder, GatewayTypeOK,
               SocketsAreOld, NotNew, Socket, Recorded, queueVars, endVars, sessionVars,
               clientVars, approvalVars, attemptVars, callVars
<1>12. CASE \E s \in Socket : Reconnect(s)
  BY <1>12 DEF Reconnect, IsNextSocket, OpenSocket, EndsNow, GatewayInv, QueueInv,
               QueueTypeOK, InOrder, GatewayTypeOK, SocketsAreOld, NotNew, Socket, Recorded,
               queueVars, endVars, sessionVars, clientVars, approvalVars, attemptVars,
               callVars
<1>13. CASE \E s \in Socket, code \in {"fresh", "spent"} : ClientConnect(s, code)
  BY <1>13 DEF ClientConnect, IsNextSocket, OpenSocket, EndsNow, Farewell, KeepSessions,
               Disconnect, Recorded, GatewayInv, QueueInv, QueueTypeOK, InOrder,
               GatewayTypeOK, SocketsAreOld, NotNew, Socket, queueVars, endVars,
               sessionVars, clientVars, approvalVars, attemptVars, callVars
<1>14. CASE ClientDisconnect
  BY <1>14 DEF ClientDisconnect, EndsNow, Farewell, KeepSessions, Disconnect, Recorded,
               GatewayInv, QueueInv, QueueTypeOK, InOrder, GatewayTypeOK, SocketsAreOld,
               NotNew, Socket, queueVars, endVars, sessionVars, clientVars, approvalVars,
               attemptVars, callVars
<1> QED BY GatewayActions, <1>1, <1>2, <1>3, <1>4, <1>5, <1>6, <1>7, <1>8, <1>9, <1>10,
                              <1>11, <1>12, <1>13, <1>14

\* A request is sent by a call whose turn it is.
LEMMA QueuedStep ==
  ASSUME GatewayInv, GatewayNext
  PROVE  WorkIsQueued'
<1>1. CASE \/ \E t \in Attempt : GrantEnds(t)
           \/ \E t \in Attempt, a \in Approval, s \in Session : Authorize(t, a, s)
           \/ \E a \in Approval, d \in Deeds, s \in Session : AskApproval(a, d, s)
           \/ \E a \in Approval : ApprovalExpires(a)
           \/ \E a \in Approval, approved \in BOOLEAN : Decide(a, approved)
           \/ \E s \in Socket : PairByHttp(s)
           \/ \E s \in Socket : SessionExpires(s)
           \/ \E s \in Socket : ServerSeesClosing(s)
           \/ \E s \in Socket, code \in {"fresh", "spent"} : ClientConnect(s, code)
           \/ \E s \in Socket : Reconnect(s)
           \/ \E s \in Socket : Open(s)
           \/ \E s \in Socket : HeartbeatStale(s)
           \/ \E s \in Socket : ClientSeesClose(s)
           \/ ClientDisconnect
  BY <1>1 DEF GrantEnds, Authorize, AskApproval, ApprovalExpires, Decide, PairByHttp,
              SessionExpires, ServerSeesClosing, ClientConnect, Reconnect, Open,
              HeartbeatStale, ClientSeesClose, ClientDisconnect, GatewayInv, QueueInv,
              QueueTypeOK, GatewayTypeOK, WorkIsQueued, AtEditor, queueVars, endVars,
              sessionVars, clientVars, approvalVars, attemptVars, callVars
<1>2. CASE \E t \in Attempt, c \in Call, s \in Session : RouteCall(t, c, s)
  BY <1>2 DEF RouteCall, Enter, IsNext, Live, GatewayInv, QueueInv, QueueTypeOK,
              GatewayTypeOK, WorkIsQueued, AtEditor, queueVars, endVars, sessionVars,
              clientVars, approvalVars, attemptVars, callVars
<1>3. CASE \E t \in Attempt, a \in Approval, c \in Call, s \in Session : RouteDirect(t, a, c, s)
  BY <1>3 DEF RouteDirect, Enter, IsNext, ConsumeApproval, Recorded, Live, GatewayInv,
              QueueInv, QueueTypeOK, GatewayTypeOK, WorkIsQueued, AtEditor, queueVars,
              endVars, sessionVars, clientVars, approvalVars, attemptVars, callVars
<1>4. CASE \E c \in Call : Dispatch(c)
  BY <1>4 DEF Dispatch, Begin, IsTurn, GatewayInv, QueueInv, QueueTypeOK, GatewayTypeOK,
              WorkIsQueued, AtEditor, queueVars, endVars, sessionVars, clientVars,
              approvalVars, attemptVars, callVars
<1>5. CASE \E c \in Call : DispatchFails(c)
  BY <1>5 DEF DispatchFails, Skip, IsTurn, Release, GatewayInv, QueueInv, QueueTypeOK,
              GatewayTypeOK, WorkIsQueued, AtEditor, queueVars, endVars, sessionVars,
              clientVars, approvalVars, attemptVars, callVars
<1>6. CASE \E c \in Call : DispatchTimesOut(c)
  BY <1>6 DEF DispatchTimesOut, Leave, Release, Disconnect, Recorded, GatewayInv, QueueInv,
              QueueTypeOK, GatewayTypeOK, WorkIsQueued, AtEditor, queueVars, endVars,
              sessionVars, clientVars, approvalVars, attemptVars, callVars
<1>7. CASE \E c \in Call : Respond(c)
  BY <1>7 DEF Respond, Leave, Release, GatewayInv, QueueInv, QueueTypeOK, GatewayTypeOK,
              WorkIsQueued, AtEditor, queueVars, endVars, sessionVars, clientVars,
              approvalVars, attemptVars, callVars
<1>8. CASE \E s \in Socket : ServerSeesClose(s)
  BY <1>8 DEF ServerSeesClose, Leave, Release, Disconnect, Recorded, GatewayInv, QueueInv,
              QueueTypeOK, GatewayTypeOK, WorkIsQueued, AtEditor, queueVars, endVars,
              sessionVars, clientVars, approvalVars, attemptVars, callVars
<1>9. CASE \E c \in Call : Deliver(c)
  BY <1>9 DEF Deliver, GatewayInv, QueueInv, QueueTypeOK, GatewayTypeOK, WorkIsQueued,
              AtEditor, queueVars, endVars, sessionVars, clientVars, approvalVars,
              attemptVars, callVars
<1> QED BY GatewayActions, <1>1, <1>2, <1>3, <1>4, <1>5, <1>6, <1>7, <1>8, <1>9

\* A call that leaves its request behind takes the route of its session away,
\* and a session is registered once.
LEMMA GivenUpStep ==
  ASSUME GatewayInv, GatewayNext
  PROVE  GivenUpIsClosed'
<1>1. CASE \/ \E t \in Attempt : GrantEnds(t)
           \/ \E t \in Attempt, a \in Approval, s \in Session : Authorize(t, a, s)
           \/ \E a \in Approval, d \in Deeds, s \in Session : AskApproval(a, d, s)
           \/ \E a \in Approval : ApprovalExpires(a)
           \/ \E a \in Approval, approved \in BOOLEAN : Decide(a, approved)
           \/ \E s \in Socket : PairByHttp(s)
           \/ \E s \in Socket : SessionExpires(s)
           \/ \E s \in Socket : ServerSeesClosing(s)
           \/ \E s \in Socket : Reconnect(s)
           \/ \E s \in Socket : HeartbeatStale(s)
           \/ \E s \in Socket : ClientSeesClose(s)
  BY <1>1 DEF GrantEnds, Authorize, AskApproval, ApprovalExpires, Decide, PairByHttp,
              SessionExpires, ServerSeesClosing, Reconnect, HeartbeatStale, ClientSeesClose,
              GatewayInv, QueueInv, QueueTypeOK, GatewayTypeOK, WorkIsQueued,
              GivenUpIsClosed, SocketsAreOld, NotNew, AtEditor, Socket, queueVars, endVars,
              sessionVars, clientVars, approvalVars, attemptVars, callVars
<1>2. CASE \E t \in Attempt, c \in Call, s \in Session : RouteCall(t, c, s)
  BY <1>2 DEF RouteCall, Enter, IsNext, Live, GatewayInv, QueueInv, QueueTypeOK,
              GatewayTypeOK, WorkIsQueued, GivenUpIsClosed, SocketsAreOld, NotNew, AtEditor,
              Socket, queueVars, endVars, sessionVars, clientVars, approvalVars,
              attemptVars, callVars
<1>3. CASE \E t \in Attempt, a \in Approval, c \in Call, s \in Session : RouteDirect(t, a, c, s)
  BY <1>3 DEF RouteDirect, Enter, IsNext, ConsumeApproval, Recorded, Live, GatewayInv,
              QueueInv, QueueTypeOK, GatewayTypeOK, WorkIsQueued, GivenUpIsClosed,
              SocketsAreOld, NotNew, AtEditor, Socket, queueVars, endVars, sessionVars,
              clientVars, approvalVars, attemptVars, callVars
<1>4. CASE \E c \in Call : Dispatch(c)
  BY <1>4 DEF Dispatch, Begin, IsTurn, GatewayInv, QueueInv, QueueTypeOK, GatewayTypeOK,
              WorkIsQueued, GivenUpIsClosed, SocketsAreOld, NotNew, AtEditor, Socket,
              queueVars, endVars, sessionVars, clientVars, approvalVars, attemptVars,
              callVars
<1>5. CASE \E c \in Call : DispatchFails(c)
  BY <1>5 DEF DispatchFails, Skip, IsTurn, Release, GatewayInv, QueueInv, QueueTypeOK,
              GatewayTypeOK, WorkIsQueued, GivenUpIsClosed, SocketsAreOld, NotNew, AtEditor,
              Socket, queueVars, endVars, sessionVars, clientVars, approvalVars,
              attemptVars, callVars
<1>6. CASE \E c \in Call : DispatchTimesOut(c)
  BY <1>6 DEF DispatchTimesOut, Leave, Release, Disconnect, Recorded, GatewayInv, QueueInv,
              QueueTypeOK, GatewayTypeOK, WorkIsQueued, GivenUpIsClosed, SocketsAreOld,
              NotNew, AtEditor, Socket, queueVars, endVars, sessionVars, clientVars,
              approvalVars, attemptVars, callVars
<1>7. CASE \E c \in Call : Respond(c)
  BY <1>7 DEF Respond, Leave, Release, GatewayInv, QueueInv, QueueTypeOK, GatewayTypeOK,
              WorkIsQueued, GivenUpIsClosed, SocketsAreOld, NotNew, AtEditor, Socket,
              queueVars, endVars, sessionVars, clientVars, approvalVars, attemptVars,
              callVars
<1>8. CASE \E s \in Socket : ServerSeesClose(s)
  BY <1>8 DEF ServerSeesClose, Leave, Release, Disconnect, Recorded, GatewayInv, QueueInv,
              QueueTypeOK, GatewayTypeOK, WorkIsQueued, GivenUpIsClosed, SocketsAreOld,
              NotNew, AtEditor, Socket, queueVars, endVars, sessionVars, clientVars,
              approvalVars, attemptVars, callVars
<1>9. CASE \E c \in Call : Deliver(c)
  BY <1>9 DEF Deliver, GatewayInv, QueueInv, QueueTypeOK, GatewayTypeOK, WorkIsQueued,
              GivenUpIsClosed, SocketsAreOld, NotNew, AtEditor, Socket, queueVars, endVars,
              sessionVars, clientVars, approvalVars, attemptVars, callVars
<1>10. CASE \E s \in Socket : Open(s)
  BY <1>10 DEF Open, GatewayInv, QueueInv, QueueTypeOK, GatewayTypeOK, WorkIsQueued,
               GivenUpIsClosed, SocketsAreOld, NotNew, AtEditor, Socket, queueVars, endVars,
               sessionVars, clientVars, approvalVars, attemptVars, callVars
<1>11. CASE \E s \in Socket, code \in {"fresh", "spent"} : ClientConnect(s, code)
  BY <1>11 DEF ClientConnect, IsNextSocket, OpenSocket, EndsNow, Farewell, KeepSessions,
               Disconnect, Recorded, GatewayInv, QueueInv, QueueTypeOK, GatewayTypeOK,
               WorkIsQueued, GivenUpIsClosed, SocketsAreOld, NotNew, AtEditor, Socket,
               queueVars, endVars, sessionVars, clientVars, approvalVars, attemptVars,
               callVars
<1>12. CASE ClientDisconnect
  BY <1>12 DEF ClientDisconnect, EndsNow, Farewell, KeepSessions, Disconnect, Recorded,
               GatewayInv, QueueInv, QueueTypeOK, GatewayTypeOK, WorkIsQueued,
               GivenUpIsClosed, SocketsAreOld, NotNew, AtEditor, Socket, queueVars, endVars,
               sessionVars, clientVars, approvalVars, attemptVars, callVars
<1> QED BY GatewayActions, <1>1, <1>2, <1>3, <1>4, <1>5, <1>6, <1>7, <1>8, <1>9, <1>10,
                              <1>11, <1>12

\* When a request is sent its session has none at the editor: an earlier call
\* has left nothing behind or has closed the session, a later one has to wait.
LEMMA DispatchIsAlone ==
  ASSUME GatewayInv, NEW c \in Call, Dispatch(c)
  PROVE  NoOverlap'
<1>1. /\ IsTurn(c) /\ turn[c] = "waiting" /\ session[c] \in routable /\ session' = session
      /\ request' = [request EXCEPT ![c] = "transit"]
  BY DEF Dispatch, Begin, IsTurn
<1>2. ASSUME NEW d \in Call, AtEditor(d), session[d] = session[c]
      PROVE  FALSE
  <2>1. turn[d] \in {"in", "left"} /\ (turn[d] = "left" => session[d] \notin routable)
    BY <1>2 DEF GatewayInv, WorkIsQueued, GivenUpIsClosed
  <2>2. d # c
    BY <2>1, <1>1
  <2>3. CASE d < c
    <3>1. turn[d] = "left"
      BY <2>3, <1>1, <1>2, TurnIsFirst DEF GatewayInv
    <3> QED BY <3>1, <2>1, <1>1, <1>2
  <2>4. CASE c < d
    BY <2>4, <2>1, <1>1, <1>2 DEF GatewayInv, QueueInv, ServedInOrder
  <2> QED BY <2>2, <2>3, <2>4 DEF Call
<1>3. \A d \in Call : d # c => (AtEditor(d)' <=> AtEditor(d))
  BY <1>1 DEF GatewayInv, GatewayTypeOK, AtEditor
<1>4. \A d, e \in Call : AtEditor(d) /\ AtEditor(e) /\ session[d] = session[e] => d = e
  BY DEF GatewayInv, NoOverlap
<1> QED BY <1>1, <1>2, <1>3, <1>4 DEF NoOverlap

\* A request is sent when those before it are answered or their session is closed.
LEMMA OverlapStep ==
  ASSUME GatewayInv, GatewayNext
  PROVE  NoOverlap'
<1>1. CASE \/ \E t \in Attempt : GrantEnds(t)
           \/ \E t \in Attempt, a \in Approval, s \in Session : Authorize(t, a, s)
           \/ \E a \in Approval, d \in Deeds, s \in Session : AskApproval(a, d, s)
           \/ \E a \in Approval : ApprovalExpires(a)
           \/ \E a \in Approval, approved \in BOOLEAN : Decide(a, approved)
           \/ \E s \in Socket : PairByHttp(s)
           \/ \E s \in Socket : SessionExpires(s)
           \/ \E s \in Socket : ServerSeesClosing(s)
           \/ \E s \in Socket, code \in {"fresh", "spent"} : ClientConnect(s, code)
           \/ \E s \in Socket : Reconnect(s)
           \/ \E s \in Socket : Open(s)
           \/ \E s \in Socket : HeartbeatStale(s)
           \/ \E s \in Socket : ClientSeesClose(s)
           \/ ClientDisconnect
  <2>1. UNCHANGED <<session, request>>
      BY <1>1
         DEF GrantEnds, Authorize, AskApproval, ApprovalExpires, Decide, PairByHttp,
             SessionExpires, ServerSeesClosing, ClientConnect, Reconnect, Open,
             HeartbeatStale, ClientSeesClose, ClientDisconnect, queueVars, endVars,
             sessionVars, clientVars, approvalVars, attemptVars, callVars
  <2> QED BY <2>1 DEF GatewayInv, NoOverlap, AtEditor
<1>2. CASE \E t \in Attempt, c \in Call, s \in Session : RouteCall(t, c, s)
  BY <1>2 DEF RouteCall, Enter, IsNext, Live, GatewayInv, QueueInv, QueueTypeOK,
              GatewayTypeOK, WorkIsQueued, AtEditor, NoOverlap, queueVars, endVars,
              sessionVars, clientVars, approvalVars, attemptVars, callVars
<1>3. CASE \E t \in Attempt, a \in Approval, c \in Call, s \in Session : RouteDirect(t, a, c, s)
  BY <1>3 DEF RouteDirect, Enter, IsNext, ConsumeApproval, Recorded, Live, GatewayInv,
              QueueInv, QueueTypeOK, GatewayTypeOK, WorkIsQueued, AtEditor, NoOverlap,
              queueVars, endVars, sessionVars, clientVars, approvalVars, attemptVars,
              callVars
<1>4. CASE \E c \in Call : Dispatch(c)
  BY <1>4, DispatchIsAlone
<1>5. CASE \E c \in Call : DispatchFails(c)
  BY <1>5 DEF DispatchFails, Skip, IsTurn, Release, GatewayInv, QueueInv, QueueTypeOK,
              GatewayTypeOK, WorkIsQueued, AtEditor, NoOverlap, queueVars, endVars,
              sessionVars, clientVars, approvalVars, attemptVars, callVars
<1>6. CASE \E c \in Call : Deliver(c)
  BY <1>6 DEF Deliver, GatewayInv, QueueInv, QueueTypeOK, GatewayTypeOK, WorkIsQueued,
              AtEditor, NoOverlap, queueVars, endVars, sessionVars, clientVars,
              approvalVars, attemptVars, callVars
<1>7. CASE \E c \in Call : Respond(c)
  BY <1>7 DEF Respond, Leave, Release, GatewayInv, QueueInv, QueueTypeOK, GatewayTypeOK,
              WorkIsQueued, AtEditor, NoOverlap, queueVars, endVars, sessionVars,
              clientVars, approvalVars, attemptVars, callVars
<1>8. CASE \E c \in Call : DispatchTimesOut(c)
  BY <1>8 DEF DispatchTimesOut, Leave, Release, Disconnect, Recorded, GatewayInv, QueueInv,
              QueueTypeOK, GatewayTypeOK, WorkIsQueued, AtEditor, NoOverlap, queueVars,
              endVars, sessionVars, clientVars, approvalVars, attemptVars, callVars
<1>9. CASE \E s \in Socket : ServerSeesClose(s)
  BY <1>9 DEF ServerSeesClose, Leave, Release, Disconnect, Recorded, GatewayInv, QueueInv,
              QueueTypeOK, GatewayTypeOK, WorkIsQueued, AtEditor, NoOverlap, queueVars,
              endVars, sessionVars, clientVars, approvalVars, attemptVars, callVars
<1> QED BY GatewayActions, <1>1, <1>2, <1>3, <1>4, <1>5, <1>6, <1>7, <1>8, <1>9

\* Only the user's yes makes an approval one.
LEMMA ApprovedStep ==
  ASSUME GatewayInv, GatewayNext
  PROVE  ApprovedIsConsented'
<1>1. CASE \/ \E t \in Attempt : GrantEnds(t)
           \/ \E t \in Attempt, c \in Call, s \in Session : RouteCall(t, c, s)
           \/ \E c \in Call : Dispatch(c)
           \/ \E c \in Call : DispatchFails(c)
           \/ \E c \in Call : Deliver(c)
           \/ \E c \in Call : Respond(c)
           \/ \E s \in Socket : PairByHttp(s)
           \/ \E s \in Socket : SessionExpires(s)
           \/ \E s \in Socket : ServerSeesClosing(s)
           \/ \E s \in Socket : Reconnect(s)
           \/ \E s \in Socket : Open(s)
           \/ \E s \in Socket : HeartbeatStale(s)
           \/ \E s \in Socket : ClientSeesClose(s)
  BY <1>1 DEF GrantEnds, RouteCall, Dispatch, DispatchFails, Deliver, Respond, PairByHttp,
              SessionExpires, ServerSeesClosing, Reconnect, Open, HeartbeatStale,
              ClientSeesClose, GatewayInv, GatewayTypeOK, ApprovedIsConsented,
              ApprovalRecord, Undecided, Recorded, queueVars, endVars, sessionVars,
              clientVars, approvalVars, attemptVars, callVars
<1>2. CASE \E t \in Attempt, a \in Approval, s \in Session : Authorize(t, a, s)
  BY <1>2 DEF Authorize, ConsumeApproval, Recorded, Live, GatewayInv, GatewayTypeOK,
              ApprovedIsConsented, ApprovalRecord, Undecided, queueVars, endVars,
              sessionVars, clientVars, approvalVars, attemptVars, callVars
<1>3. CASE \E t \in Attempt, a \in Approval, c \in Call, s \in Session : RouteDirect(t, a, c, s)
  BY <1>3 DEF RouteDirect, Enter, IsNext, ConsumeApproval, Recorded, Live, GatewayInv,
              GatewayTypeOK, ApprovedIsConsented, ApprovalRecord, Undecided, queueVars,
              endVars, sessionVars, clientVars, approvalVars, attemptVars, callVars
<1>4. CASE \E a \in Approval, d \in Deeds, s \in Session : AskApproval(a, d, s)
  BY <1>4 DEF AskApproval, Recorded, Live, GatewayInv, GatewayTypeOK, ApprovedIsConsented,
              ApprovalRecord, Undecided, queueVars, endVars, sessionVars, clientVars,
              approvalVars, attemptVars, callVars
<1>5. CASE \E a \in Approval : ApprovalExpires(a)
  BY <1>5 DEF ApprovalExpires, Recorded, GatewayInv, GatewayTypeOK, ApprovedIsConsented,
              ApprovalRecord, Undecided, queueVars, endVars, sessionVars, clientVars,
              approvalVars, attemptVars, callVars
<1>6. CASE \E a \in Approval, approved \in BOOLEAN : Decide(a, approved)
  BY <1>6 DEF Decide, Recorded, GatewayInv, GatewayTypeOK, ApprovedIsConsented,
              ApprovalRecord, Undecided, queueVars, endVars, sessionVars, clientVars,
              approvalVars, attemptVars, callVars
<1>7. CASE \E c \in Call : DispatchTimesOut(c)
  BY <1>7 DEF DispatchTimesOut, Leave, Release, Disconnect, Recorded, GatewayInv,
              GatewayTypeOK, ApprovedIsConsented, ApprovalRecord, Undecided, queueVars,
              endVars, sessionVars, clientVars, approvalVars, attemptVars, callVars
<1>8. CASE \E s \in Socket : ServerSeesClose(s)
  BY <1>8 DEF ServerSeesClose, Leave, Release, Disconnect, Recorded, GatewayInv,
              GatewayTypeOK, ApprovedIsConsented, ApprovalRecord, Undecided, queueVars,
              endVars, sessionVars, clientVars, approvalVars, attemptVars, callVars
<1>9. CASE \E s \in Socket, code \in {"fresh", "spent"} : ClientConnect(s, code)
  BY <1>9 DEF ClientConnect, IsNextSocket, OpenSocket, EndsNow, Farewell, KeepSessions,
              Disconnect, Recorded, GatewayInv, GatewayTypeOK, ApprovedIsConsented,
              ApprovalRecord, Undecided, queueVars, endVars, sessionVars, clientVars,
              approvalVars, attemptVars, callVars
<1>10. CASE ClientDisconnect
  BY <1>10 DEF ClientDisconnect, EndsNow, Farewell, KeepSessions, Disconnect, Recorded,
               GatewayInv, GatewayTypeOK, ApprovedIsConsented, ApprovalRecord, Undecided,
               queueVars, endVars, sessionVars, clientVars, approvalVars, attemptVars,
               callVars
<1> QED BY GatewayActions, <1>1, <1>2, <1>3, <1>4, <1>5, <1>6, <1>7, <1>8, <1>9, <1>10

\* An approval that was used is deleted with its use, and what is gone stays gone.
LEMMA UsedOnceStep ==
  ASSUME GatewayInv, GatewayNext
  PROVE  UsedOnce'
<1>1. CASE \/ \E t \in Attempt : GrantEnds(t)
           \/ \E t \in Attempt, c \in Call, s \in Session : RouteCall(t, c, s)
           \/ \E c \in Call : Dispatch(c)
           \/ \E c \in Call : DispatchFails(c)
           \/ \E c \in Call : Deliver(c)
           \/ \E c \in Call : Respond(c)
           \/ \E s \in Socket : PairByHttp(s)
           \/ \E s \in Socket : SessionExpires(s)
           \/ \E s \in Socket : ServerSeesClosing(s)
           \/ \E s \in Socket : Reconnect(s)
           \/ \E s \in Socket : Open(s)
           \/ \E s \in Socket : HeartbeatStale(s)
           \/ \E s \in Socket : ClientSeesClose(s)
  BY <1>1, GatewayAssumption DEF GrantEnds, RouteCall, Dispatch, DispatchFails, Deliver,
                                 Respond, PairByHttp, SessionExpires, ServerSeesClosing,
                                 Reconnect, Open, HeartbeatStale, ClientSeesClose,
                                 GatewayInv, GatewayTypeOK, UsedOnce, Recorded, queueVars,
                                 endVars, sessionVars, clientVars, approvalVars,
                                 attemptVars, callVars
<1>2. CASE \E t \in Attempt, a \in Approval, s \in Session : Authorize(t, a, s)
  BY <1>2, GatewayAssumption DEF Authorize, ConsumeApproval, Recorded, Live, GatewayInv,
                                 GatewayTypeOK, UsedOnce, queueVars, endVars, sessionVars,
                                 clientVars, approvalVars, attemptVars, callVars
<1>3. CASE \E t \in Attempt, a \in Approval, c \in Call, s \in Session : RouteDirect(t, a, c, s)
  BY <1>3, GatewayAssumption DEF RouteDirect, Enter, IsNext, ConsumeApproval, Recorded,
                                 Live, GatewayInv, GatewayTypeOK, UsedOnce, queueVars,
                                 endVars, sessionVars, clientVars, approvalVars,
                                 attemptVars, callVars
<1>4. CASE \E a \in Approval, d \in Deeds, s \in Session : AskApproval(a, d, s)
  BY <1>4, GatewayAssumption DEF AskApproval, Recorded, Live, GatewayInv, GatewayTypeOK,
                                 UsedOnce, queueVars, endVars, sessionVars, clientVars,
                                 approvalVars, attemptVars, callVars
<1>5. CASE \E a \in Approval : ApprovalExpires(a)
  BY <1>5, GatewayAssumption DEF ApprovalExpires, Recorded, GatewayInv, GatewayTypeOK,
                                 UsedOnce, queueVars, endVars, sessionVars, clientVars,
                                 approvalVars, attemptVars, callVars
<1>6. CASE \E a \in Approval, approved \in BOOLEAN : Decide(a, approved)
  BY <1>6, GatewayAssumption DEF Decide, Recorded, GatewayInv, GatewayTypeOK, UsedOnce,
                                 queueVars, endVars, sessionVars, clientVars, approvalVars,
                                 attemptVars, callVars
<1>7. CASE \E c \in Call : DispatchTimesOut(c)
  BY <1>7, GatewayAssumption DEF DispatchTimesOut, Leave, Release, Disconnect, Recorded,
                                 GatewayInv, GatewayTypeOK, UsedOnce, queueVars, endVars,
                                 sessionVars, clientVars, approvalVars, attemptVars,
                                 callVars
<1>8. CASE \E s \in Socket : ServerSeesClose(s)
  BY <1>8, GatewayAssumption DEF ServerSeesClose, Leave, Release, Disconnect, Recorded,
                                 GatewayInv, GatewayTypeOK, UsedOnce, queueVars, endVars,
                                 sessionVars, clientVars, approvalVars, attemptVars,
                                 callVars
<1>9. CASE \E s \in Socket, code \in {"fresh", "spent"} : ClientConnect(s, code)
  BY <1>9, GatewayAssumption DEF ClientConnect, IsNextSocket, OpenSocket, EndsNow, Farewell,
                                 KeepSessions, Disconnect, Recorded, GatewayInv,
                                 GatewayTypeOK, UsedOnce, queueVars, endVars, sessionVars,
                                 clientVars, approvalVars, attemptVars, callVars
<1>10. CASE ClientDisconnect
  BY <1>10, GatewayAssumption DEF ClientDisconnect, EndsNow, Farewell, KeepSessions,
                                  Disconnect, Recorded, GatewayInv, GatewayTypeOK, UsedOnce,
                                  queueVars, endVars, sessionVars, clientVars, approvalVars,
                                  attemptVars, callVars
<1> QED BY GatewayActions, <1>1, <1>2, <1>3, <1>4, <1>5, <1>6, <1>7, <1>8, <1>9, <1>10

\* The approval an attempt consumes is one it alone has, and the user's consent.
LEMMA ConsumedIsConsent ==
  ASSUME GatewayInv, NEW t \in Attempt, NEW a \in Approval, NEW s \in Session, ConsumeApproval(t, a, s)
  PROVE  /\ consent' = [consent EXCEPT ![t] = a] /\ target' = [target EXCEPT ![t] = s]
         /\ consent[t] = NoApproval /\ t \notin granted
         /\ a # NoApproval /\ <<a, Deed[t], s>> \in consented
<1>1. approvals[a] = [deed |-> Deed[t], session |-> s, decision |-> "approved"] /\ a \in Recorded
      /\ consent[t] = NoApproval
  BY DEF ConsumeApproval
<1>2. approvals[a].deed = Deed[t] /\ approvals[a].session = s /\ approvals[a].decision = "approved"
  BY <1>1
<1>3. <<a, Deed[t], s>> \in consented
  BY <1>1, <1>2 DEF GatewayInv, ApprovedIsConsented
<1>4. t \notin granted
  BY <1>1 DEF GatewayInv, RightsAreCovered, Covered
<1> QED BY <1>1, <1>3, <1>4, GatewayAssumption DEF ConsumeApproval

\* A call has what the grant of its attempt has.
LEMMA RouteCallIsCovered ==
  ASSUME GatewayInv, NEW t \in Attempt, NEW c \in Call, NEW s \in Session, RouteCall(t, c, s)
  PROVE  RightsAreCovered'
<1>1. /\ turn[c] = "out" /\ turn' = [turn EXCEPT ![c] = "waiting"]
      /\ session' = [session EXCEPT ![c] = s]
      /\ madeBy' = [madeBy EXCEPT ![c] = t]
      /\ UNCHANGED <<consent, consented, granted, target>>
  BY DEF RouteCall, Enter, IsNext, approvalVars, attemptVars
<1>2. /\ turn'[c] = "waiting" /\ session'[c] = s /\ madeBy'[c] = t
      /\ \A d \in Call : d # c => turn'[d] = turn[d] /\ session'[d] = session[d] /\ madeBy'[d] = madeBy[d]
  BY <1>1 DEF GatewayInv, QueueInv, QueueTypeOK, GatewayTypeOK
<1>3. \A u \in Attempt, r \in Session : Covered(u, r)' <=> Covered(u, r)
  BY <1>1 DEF Covered
<1>4. Deed[t] \notin Reads => Covered(t, s)
  BY DEF RouteCall, GatewayInv, RightsAreCovered
<1>5. \A u \in granted : Covered(u, target[u])'
  BY <1>1 DEF GatewayInv, RightsAreCovered, Covered
<1>6. ASSUME NEW d \in Call, turn'[d] # "out"
      PROVE  madeBy'[d] \in Attempt /\ (Deed[madeBy'[d]] \notin Reads => Covered(madeBy[d], session[d])')
  <2>1. CASE d = c
    BY <2>1, <1>1, <1>2, <1>4 DEF Covered
  <2>2. CASE d # c
    BY <2>2, <1>1, <1>2, <1>6 DEF GatewayInv, RightsAreCovered, Covered
  <2> QED BY <2>1, <2>2
<1> QED BY <1>1, <1>5, <1>6 DEF RightsAreCovered

\* A grant has the approval that was consumed for it.
LEMMA AuthorizeIsCovered ==
  ASSUME GatewayInv, NEW t \in Attempt, NEW a \in Approval, NEW s \in Session, Authorize(t, a, s)
  PROVE  RightsAreCovered'
<1>1. /\ consent' = [consent EXCEPT ![t] = a] /\ target' = [target EXCEPT ![t] = s]
      /\ consent[t] = NoApproval /\ t \notin granted
      /\ a # NoApproval /\ <<a, Deed[t], s>> \in consented
  BY ConsumedIsConsent DEF Authorize
<1>2. /\ UNCHANGED <<turn, session, madeBy, consented>> /\ granted' = granted \cup {t}
  BY DEF Authorize, approvalVars, queueVars, callVars
<1>3. /\ consent'[t] = a /\ target'[t] = s
      /\ \A u \in Attempt : u # t => consent'[u] = consent[u] /\ target'[u] = target[u]
  BY <1>1 DEF GatewayInv, GatewayTypeOK
<1>4. \A u \in granted' : Covered(u, target[u])'
  BY <1>1, <1>2, <1>3 DEF GatewayInv, GatewayTypeOK, RightsAreCovered, Covered
<1>5. ASSUME NEW d \in Call, turn'[d] # "out"
      PROVE  madeBy'[d] \in Attempt /\ (Deed[madeBy'[d]] \notin Reads => Covered(madeBy[d], session[d])')
  <2>1. madeBy[d] \in Attempt /\ (Deed[madeBy[d]] \notin Reads => Covered(madeBy[d], session[d]))
    BY <1>2, <1>5 DEF GatewayInv, RightsAreCovered
  <2>2. Deed[madeBy[d]] \notin Reads => madeBy[d] # t
    BY <2>1, <1>1 DEF Covered
  <2> QED BY <2>1, <2>2, <1>2, <1>3 DEF Covered
<1> QED BY <1>4, <1>5 DEF RightsAreCovered

\* So has a direct request.
LEMMA RouteDirectIsCovered ==
  ASSUME GatewayInv, NEW t \in Attempt, NEW a \in Approval, NEW c \in Call, NEW s \in Session,
         RouteDirect(t, a, c, s)
  PROVE  RightsAreCovered'
<1>1. /\ consent' = [consent EXCEPT ![t] = a] /\ target' = [target EXCEPT ![t] = s]
      /\ consent[t] = NoApproval /\ t \notin granted
      /\ a # NoApproval /\ <<a, Deed[t], s>> \in consented
  BY ConsumedIsConsent DEF RouteDirect
<1>2. /\ turn[c] = "out" /\ turn' = [turn EXCEPT ![c] = "waiting"]
      /\ session' = [session EXCEPT ![c] = s]
      /\ madeBy' = [madeBy EXCEPT ![c] = t]
      /\ UNCHANGED <<consented, granted>>
  BY DEF RouteDirect, Enter, IsNext
<1>3. /\ turn'[c] = "waiting" /\ session'[c] = s /\ madeBy'[c] = t
      /\ \A d \in Call : d # c => turn'[d] = turn[d] /\ session'[d] = session[d] /\ madeBy'[d] = madeBy[d]
      /\ consent'[t] = a /\ target'[t] = s
      /\ \A u \in Attempt : u # t => consent'[u] = consent[u] /\ target'[u] = target[u]
  BY <1>1, <1>2 DEF GatewayInv, QueueInv, QueueTypeOK, GatewayTypeOK
<1>4. \A u \in granted' : Covered(u, target[u])'
  BY <1>1, <1>2, <1>3 DEF GatewayInv, GatewayTypeOK, RightsAreCovered, Covered
<1>5. ASSUME NEW d \in Call, turn'[d] # "out"
      PROVE  madeBy'[d] \in Attempt /\ (Deed[madeBy'[d]] \notin Reads => Covered(madeBy[d], session[d])')
  <2>1. CASE d = c
    BY <2>1, <1>1, <1>2, <1>3 DEF Covered
  <2>2. CASE d # c
    <3>1. madeBy[d] \in Attempt /\ (Deed[madeBy[d]] \notin Reads => Covered(madeBy[d], session[d]))
      BY <2>2, <1>3, <1>5 DEF GatewayInv, RightsAreCovered
    <3>2. Deed[madeBy[d]] \notin Reads => madeBy[d] # t
      BY <3>1, <1>1 DEF Covered
    <3> QED BY <2>2, <3>1, <3>2, <1>2, <1>3 DEF Covered
  <2> QED BY <2>1, <2>2
<1> QED BY <1>4, <1>5 DEF RightsAreCovered

\* A grant and a call have the consent that the attempt used.
LEMMA CoveredStep ==
  ASSUME GatewayInv, GatewayNext
  PROVE  RightsAreCovered'
<1>1. CASE \/ \E a \in Approval, d \in Deeds, s \in Session : AskApproval(a, d, s)
           \/ \E a \in Approval : ApprovalExpires(a)
           \/ \E c \in Call : Deliver(c)
           \/ \E s \in Socket : PairByHttp(s)
           \/ \E s \in Socket : SessionExpires(s)
           \/ \E s \in Socket : ServerSeesClosing(s)
           \/ \E s \in Socket : Reconnect(s)
           \/ \E s \in Socket : Open(s)
           \/ \E s \in Socket : HeartbeatStale(s)
           \/ \E s \in Socket : ClientSeesClose(s)
  BY <1>1 DEF AskApproval, ApprovalExpires, Deliver, PairByHttp, SessionExpires,
              ServerSeesClosing, Reconnect, Open, HeartbeatStale, ClientSeesClose,
              GatewayInv, QueueInv, QueueTypeOK, GatewayTypeOK, RightsAreCovered, Covered,
              Recorded, queueVars, endVars, sessionVars, clientVars, approvalVars,
              attemptVars, callVars
<1>2. CASE \E t \in Attempt : GrantEnds(t)
  BY <1>2 DEF GrantEnds, GatewayInv, QueueInv, QueueTypeOK, GatewayTypeOK, RightsAreCovered,
              Covered, Recorded, queueVars, endVars, sessionVars, clientVars, approvalVars,
              attemptVars, callVars
<1>3. CASE \E t \in Attempt, c \in Call, s \in Session : RouteCall(t, c, s)
  BY <1>3, RouteCallIsCovered
<1>4. CASE \E t \in Attempt, a \in Approval, s \in Session : Authorize(t, a, s)
  BY <1>4, AuthorizeIsCovered
<1>5. CASE \E t \in Attempt, a \in Approval, c \in Call, s \in Session : RouteDirect(t, a, c, s)
  BY <1>5, RouteDirectIsCovered
<1>6. CASE \E a \in Approval, approved \in BOOLEAN : Decide(a, approved)
  BY <1>6 DEF Decide, Recorded, GatewayInv, QueueInv, QueueTypeOK, GatewayTypeOK,
              RightsAreCovered, Covered, queueVars, endVars, sessionVars, clientVars,
              approvalVars, attemptVars, callVars
<1>7. CASE \E c \in Call : Dispatch(c)
  BY <1>7 DEF Dispatch, Begin, IsTurn, GatewayInv, QueueInv, QueueTypeOK, GatewayTypeOK,
              RightsAreCovered, Covered, Recorded, queueVars, endVars, sessionVars,
              clientVars, approvalVars, attemptVars, callVars
<1>8. CASE \E c \in Call : DispatchFails(c)
  BY <1>8 DEF DispatchFails, Skip, IsTurn, Release, GatewayInv, QueueInv, QueueTypeOK,
              GatewayTypeOK, RightsAreCovered, Covered, Recorded, queueVars, endVars,
              sessionVars, clientVars, approvalVars, attemptVars, callVars
<1>9. CASE \E c \in Call : DispatchTimesOut(c)
  BY <1>9 DEF DispatchTimesOut, Leave, Release, Disconnect, Recorded, GatewayInv, QueueInv,
              QueueTypeOK, GatewayTypeOK, RightsAreCovered, Covered, queueVars, endVars,
              sessionVars, clientVars, approvalVars, attemptVars, callVars
<1>10. CASE \E c \in Call : Respond(c)
  BY <1>10 DEF Respond, Leave, Release, GatewayInv, QueueInv, QueueTypeOK, GatewayTypeOK,
               RightsAreCovered, Covered, Recorded, queueVars, endVars, sessionVars,
               clientVars, approvalVars, attemptVars, callVars
<1>11. CASE \E s \in Socket : ServerSeesClose(s)
  BY <1>11 DEF ServerSeesClose, Leave, Release, Disconnect, Recorded, GatewayInv, QueueInv,
               QueueTypeOK, GatewayTypeOK, RightsAreCovered, Covered, queueVars, endVars,
               sessionVars, clientVars, approvalVars, attemptVars, callVars
<1>12. CASE \E s \in Socket, code \in {"fresh", "spent"} : ClientConnect(s, code)
  BY <1>12 DEF ClientConnect, IsNextSocket, OpenSocket, EndsNow, Farewell, KeepSessions,
               Disconnect, Recorded, GatewayInv, QueueInv, QueueTypeOK, GatewayTypeOK,
               RightsAreCovered, Covered, queueVars, endVars, sessionVars, clientVars,
               approvalVars, attemptVars, callVars
<1>13. CASE ClientDisconnect
  BY <1>13 DEF ClientDisconnect, EndsNow, Farewell, KeepSessions, Disconnect, Recorded,
               GatewayInv, QueueInv, QueueTypeOK, GatewayTypeOK, RightsAreCovered, Covered,
               queueVars, endVars, sessionVars, clientVars, approvalVars, attemptVars,
               callVars
<1> QED BY GatewayActions, <1>1, <1>2, <1>3, <1>4, <1>5, <1>6, <1>7, <1>8, <1>9, <1>10,
                              <1>11, <1>12, <1>13

\* At first there are no sockets, calls and approvals.
LEMMA InitGatewayInv == GatewayInit => GatewayInv
<1> SUFFICES ASSUME GatewayInit PROVE GatewayInv
  OBVIOUS
<1>1. QueueInv
  BY InitInv DEF GatewayInit
<1>2. GatewayTypeOK
  BY <1>1 DEF GatewayInit, GatewayTypeOK, QueueInv, End, Socket
<1>3. RightsEndWithSession /\ ApprovedIsConsented
  BY DEF GatewayInit, RightsEndWithSession, ApprovedIsConsented, Recorded
<1>4. OneRelaySocket
  BY DEF GatewayInit, OneRelaySocket
<1>5. SocketsAreOld /\ WorkIsQueued /\ GivenUpIsClosed /\ NoOverlap
  BY DEF GatewayInit, QueueInit, SocketsAreOld, WorkIsQueued, GivenUpIsClosed, NoOverlap, AtEditor
<1>6. UsedOnce /\ RightsAreCovered
  BY DEF GatewayInit, QueueInit, UsedOnce, RightsAreCovered
<1> QED BY <1>1, <1>2, <1>3, <1>4, <1>5, <1>6 DEF GatewayInv

\* Every step keeps the whole invariant.
LEMMA GatewayStep == GatewayInv /\ [GatewayNext]_gatewayVars => GatewayInv'
<1> SUFFICES ASSUME GatewayInv, [GatewayNext]_gatewayVars PROVE GatewayInv'
  OBVIOUS
<1>1. CASE GatewayNext
  <2>1. QueueInv'
    BY <1>1, QueueStep, NextInv DEF GatewayInv
  <2>2. GatewayTypeOK'
    BY <1>1, <2>1, TypeStep DEF QueueInv
  <2> QED BY <1>1, <2>1, <2>2, RightsStep, RelaySocketStep, OldStep, QueuedStep, GivenUpStep,
             OverlapStep, ApprovedStep, UsedOnceStep, CoveredStep DEF GatewayInv
<1>2. CASE UNCHANGED gatewayVars
  <2>1. UNCHANGED <<queueVars, serverEnd, clientEnd, routable, owned, expired, current, desired,
                    reconnecting, approvals, consented, target, granted, consent, madeBy, request>>
    BY <1>2 DEF gatewayVars, endVars, sessionVars, clientVars, approvalVars, attemptVars, callVars
  <2>2. QueueInv'
    BY <2>1, NextInv DEF GatewayInv
  <2>3. GatewayTypeOK'
    BY <2>1, <2>2 DEF GatewayInv, GatewayTypeOK, QueueInv
  <2>4. RightsEndWithSession' /\ OneRelaySocket'
    BY <2>1 DEF GatewayInv, RightsEndWithSession, OneRelaySocket, Recorded
  <2>5. SocketsAreOld' /\ WorkIsQueued' /\ GivenUpIsClosed' /\ NoOverlap'
    BY <2>1 DEF GatewayInv, SocketsAreOld, WorkIsQueued, GivenUpIsClosed, NoOverlap, AtEditor, NotNew,
                queueVars
  <2>6. ApprovedIsConsented' /\ UsedOnce' /\ RightsAreCovered'
    BY <2>1 DEF GatewayInv, ApprovedIsConsented, UsedOnce, RightsAreCovered, Covered, Recorded, queueVars
  <2> QED BY <2>2, <2>3, <2>4, <2>5, <2>6 DEF GatewayInv
<1> QED BY <1>1, <1>2

-----------------------------------------------------------------------------
(***************************************************************************)
(* Theorems.                                                               *)
(***************************************************************************)

\* The inductive invariant of the gateway.
THEOREM GatewayInvariant == GatewaySpec => []GatewayInv
<1> QED BY InitGatewayInv, GatewayStep, PTL DEF GatewaySpec

\* Type correctness; a session has a route only while the gateway has its socket.
THEOREM GatewayTypes == GatewaySpec => []GatewayTypeOK
<1>1. GatewayInv => GatewayTypeOK
  BY DEF GatewayInv
<1> QED BY <1>1, GatewayInvariant, PTL

\* A session has one request at the editor at most, also after a deadline.
THEOREM WorkNeverOverlaps == GatewaySpec => []NoOverlap
<1>1. GatewayInv => NoOverlap
  BY DEF GatewayInv
<1> QED BY <1>1, GatewayInvariant, PTL

\* Nothing is changed without the consent to that deed on that session, and no
\* consent is used by two attempts.
THEOREM ConsentIsGiven == GatewaySpec => []ConsentCoversWork
<1>1. GatewayInv => ConsentCoversWork
  <2> SUFFICES ASSUME GatewayInv, NEW c \in Call, AtEditor(c), Deed[madeBy[c]] \notin Reads
               PROVE  /\ <<consent[madeBy[c]], Deed[madeBy[c]], session[c]>> \in consented
                      /\ \A u \in Attempt \ {madeBy[c]} : consent[u] # consent[madeBy[c]]
    BY DEF ConsentCoversWork
  <2>1. turn[c] # "out"
    BY DEF GatewayInv, WorkIsQueued
  <2>2. madeBy[c] \in Attempt /\ Covered(madeBy[c], session[c])
    BY <2>1 DEF GatewayInv, RightsAreCovered
  <2> QED BY <2>2 DEF GatewayInv, Covered, UsedOnce
<1> QED BY <1>1, GatewayInvariant, PTL

\* Approvals and grants are those of sessions that have a route.
THEOREM RightsEnd == GatewaySpec => []RightsEndWithSession
<1>1. GatewayInv => RightsEndWithSession
  BY DEF GatewayInv
<1> QED BY <1>1, GatewayInvariant, PTL

\* The relay client has one socket or a timer for one, while it is switched on.
THEOREM RelaySocketIsOne == GatewaySpec => []OneRelaySocket
<1>1. GatewayInv => OneRelaySocket
  BY DEF GatewayInv
<1> QED BY <1>1, GatewayInvariant, PTL

\* The calls of the gateway use the queue as it is meant to be used, so that it
\* serves each session in order.
THEOREM GatewayImplementsMutex == GatewaySpec => ImplementsMutex
<1>1. GatewayInv /\ [GatewayNext]_gatewayVars => [QueueNext]_queueVars
  BY QueueStep DEF gatewayVars
<1>2. GatewayInit => QueueInit
  BY DEF GatewayInit
<1>3. GatewaySpec => QueueSpec
  BY <1>1, <1>2, GatewayInvariant, PTL DEF GatewaySpec, QueueSpec
<1> QED BY <1>3, QueueImplementsMutex
=============================================================================
