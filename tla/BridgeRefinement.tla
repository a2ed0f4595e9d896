--------------------------- MODULE BridgeRefinement ---------------------------
(***************************************************************************)
(* Bridge implements RequestChannel: each step of the manager is a step of *)
(* the channel or leaves what the channel shows as it is.                  *)
(***************************************************************************)
EXTENDS BridgeProofs

ChannelStep == [Channel!Next]_(Channel!channelVars)

\* What the channel shows depends on the client, the sockets that were it,
\* and the calls.
LEMMA Stutters ==
  ASSUME UNCHANGED <<ws, Past, Progress, answer, restarts>>
  PROVE  ChannelStep
BY DEF ChannelStep, Channel!channelVars

\* A step that moves no socket to or from having shaken hands.
LEMMA PastKept ==
  ASSUME UNCHANGED ws,
         \A s \in Socket : stage[s] \in {"shook", "gone"} <=> stage'[s] \in {"shook", "gone"}
  PROVE  Past' = Past
BY DEF Past

LEMMA ProgressKept ==
  ASSUME IInv, \A c \in Call : Progress'[c] = Progress[c]
  PROVE  Progress' = Progress
BY DEF Progress

\* The calls that the channel has sent are those that await a response.
LEMMA SentIsAwaited == IInv => Channel!Sent = Awaited
<1> SUFFICES ASSUME IInv PROVE Channel!Sent = Awaited
  OBVIOUS
<1>1. Awaited = {c \in Call : status[c] = "pending"}
  BY DEF IInv, PendingOnClient
<1>2. \A c \in Call : Progress[c] = "sent" <=> status[c] = "pending"
  BY DEF Progress
<1> QED BY <1>1, <1>2 DEF Channel!Sent

\* Rejecting what is pending fails what is sent.
LEMMA RejectFails ==
  ASSUME IInv, NEW left, left \in {status, Awoken}, rejectPending(left)
  PROVE  Channel!FailSent
<1>1. Awaited = {c \in Call : status[c] = "pending"}
  BY DEF IInv, PendingOnClient
<1>2. status \in [Call -> {"idle", "answered"} \cup Unsettled \cup Failed]
  BY DEF IInv, BridgeTypeOK
<1>3. ASSUME NEW c \in Call
      PROVE  Progress'[c] = IF c \in Awaited THEN "failed" ELSE Progress[c]
  BY <1>1, <1>2, <1>3 DEF rejectPending, Awoken, Progress, Unsettled, Failed
<1>4. Progress' = [c \in Call |-> Progress'[c]]
  BY DEF Progress
<1> QED BY <1>3, <1>4, SentIsAwaited DEF Channel!FailSent

-----------------------------------------------------------------------------
(* Steps of the server and of sockets.                                     *)

LEMMA QuietSteps ==
  ASSUME IInv, UNCHANGED <<ws, status, answer, restarts>>,
         \A s \in Socket : stage[s] \in {"shook", "gone"} <=> stage'[s] \in {"shook", "gone"}
  PROVE  ChannelStep
<1>1. Progress' = Progress
  BY DEF Progress
<1> QED BY <1>1, PastKept, Stutters

LEMMA AcceptStep ==
  ASSUME IInv, NEW s \in Socket,
         \/ Accept(s) \/ Pair(s) \/ PairingTimeout(s) \/ Refuse(s)
         \/ Heartbeat(s) \/ Vanish(s)
  PROVE  ChannelStep
<1>1. stage \in [Socket -> {"unused", "unpaired", "paired", "shook", "gone"}]
  BY DEF IInv, BridgeTypeOK
<1>2. \A r \in Socket : stage[r] \in {"shook", "gone"} <=> stage'[r] \in {"shook", "gone"}
  BY <1>1 DEF Accept, Pair, PairingTimeout, Refuse, Heartbeat, Vanish, socketVars
<1>3. UNCHANGED <<ws, status, answer, restarts>>
  BY DEF Accept, Pair, PairingTimeout, Refuse, Heartbeat, Vanish, serverVars, callVars
<1> QED BY <1>2, <1>3, QuietSteps

LEMMA HandshakeStep ==
  ASSUME IInv, NEW s \in Socket, Handshake(s)
  PROVE  Channel!Attach(s)
<1>1. /\ stage \in [Socket -> {"unused", "unpaired", "paired", "shook", "gone"}]
      /\ ws \in Shaken \cup {NoSocket}
  BY DEF IInv, BridgeTypeOK
<1>2. /\ stage[s] = "paired" /\ ws' = s /\ s # ws
      /\ stage' = [stage EXCEPT ![s] = "shook"]
      /\ answer' = answer /\ restarts' = restarts
  BY <1>1 DEF Handshake, Shaken, Socket, NoSocket
<1>3. Past' = Past \cup Channel!Losers
  <2>1. ASSUME NEW r \in Socket PROVE r \in Past' <=> r \in Past \/ r = ws
    BY <1>1, <1>2 DEF Past, Shaken, Socket, NoSocket
  <2>2. Channel!Losers \subseteq Socket /\ Past \subseteq Socket /\ Past' \subseteq Socket
    BY <1>1 DEF Channel!Losers, Past, Shaken
  <2>3. \A r \in Socket : r \in Channel!Losers <=> r = ws
    BY DEF Channel!Losers, Socket, NoSocket
  <2> QED BY <2>1, <2>2, <2>3
<1>4. rejectPending(Awoken)
  <2>1. CASE ws = NoSocket
    <3>1. requestMap = {}
      BY <2>1 DEF IInv, BridgeTypeOK, PendingOnClient, Entry, Socket, NoSocket
    <3>2. Awoken = [c \in Call |-> IF c \in Awaited THEN "dropped" ELSE Awoken[c]]
      BY <3>1 DEF Awoken, Awaited
    <3> QED BY <2>1, <3>1, <3>2 DEF Handshake, handleHandshake, rejectPending
  <2>2. CASE ws # NoSocket
    BY <2>2 DEF Handshake, handleHandshake
  <2> QED BY <2>1, <2>2
<1>5. s \notin Past
  BY <1>2 DEF Past
<1> QED BY <1>2, <1>3, <1>4, <1>5, RejectFails DEF Channel!Attach

LEMMA ClosedStep ==
  ASSUME IInv, NEW s \in Socket, Closed(s)
  PROVE  Channel!Leave(s) \/ Channel!Detach
<1>1. /\ stage \in [Socket -> {"unused", "unpaired", "paired", "shook", "gone"}]
      /\ ws \in Shaken \cup {NoSocket}
  BY DEF IInv, BridgeTypeOK
<1>2. /\ stage' = [stage EXCEPT ![s] = "gone"]
      /\ answer' = answer /\ restarts' = restarts
  BY DEF Closed
<1>3. s # NoSocket
  BY DEF Socket, NoSocket
<1>4. CASE ws # s
  <2>1. UNCHANGED <<ws, status>>
    BY <1>4 DEF Closed, IsStale
  <2>2. \A r \in Socket : r \in Past' <=> r \in Past \/ r = s
    BY <1>1, <1>2, <1>4, <2>1 DEF Past
  <2>3. Past' = Past \cup {s}
    BY <2>2 DEF Past
  <2>4. Progress' = Progress
    BY <2>1 DEF Progress
  <2> QED BY <1>2, <1>4, <2>1, <2>3, <2>4 DEF Channel!Leave
<1>5. CASE ws = s
  <2>1. ws' = NoSocket /\ rejectPending(status)
    BY <1>5 DEF Closed, IsStale, clientLost
  <2>2. \A r \in Socket : r \in Past' <=> r \in Past \/ r = ws
    BY <1>1, <1>2, <1>5, <2>1 DEF Past, Socket, NoSocket
  <2>3. Past' = Past \cup {ws}
    BY <1>5, <2>2 DEF Past
  <2> QED BY <1>2, <1>3, <1>5, <2>1, <2>3, RejectFails DEF Channel!Detach
<1> QED BY <1>4, <1>5

LEMMA DisconnectStep ==
  ASSUME IInv, Disconnect
  PROVE  ChannelStep
<1>1. /\ stage \in [Socket -> {"unused", "unpaired", "paired", "shook", "gone"}]
      /\ ws \in Shaken \cup {NoSocket}
      /\ status \in [Call -> {"idle", "answered"} \cup Unsettled \cup Failed]
  BY DEF IInv, BridgeTypeOK
<1>2. /\ stage' = stage /\ answer' = answer /\ restarts' = restarts
      /\ ws' = NoSocket /\ rejectPending(status)
  BY DEF Disconnect
<1>3. CASE ws = NoSocket
  <2>1. requestMap = {}
    BY <1>3 DEF IInv, BridgeTypeOK, PendingOnClient, Entry, Socket, NoSocket
  <2>2. status' = status
    BY <1>1, <1>2, <2>1 DEF rejectPending, Awaited
  <2> QED BY <1>2, <1>3, <2>2, QuietSteps
<1>4. CASE ws # NoSocket
  <2>1. \A r \in Socket : r \in Past' <=> r \in Past \/ r = ws
    BY <1>1, <1>2, <1>4 DEF Past, Shaken, Socket, NoSocket
  <2>2. Past' = Past \cup {ws}
    BY <1>1, <1>4, <2>1 DEF Past, Shaken
  <2>3. Channel!Detach
    BY <1>2, <1>4, <2>2, RejectFails DEF Channel!Detach
  <2> QED BY <2>3 DEF ChannelStep, Channel!Next
<1> QED BY <1>3, <1>4

LEMMA RestartStep ==
  ASSUME IInv, Restart
  PROVE  \E R \in SUBSET Call, P \in SUBSET Socket : Channel!Reset(P, R)
<1> DEFINE R == {c \in Call : status[c] \in Unsettled}
<1>1. /\ stage \in [Socket -> {"unused", "unpaired", "paired", "shook", "gone"}]
      /\ ws \in Shaken \cup {NoSocket}
      /\ status \in [Call -> {"idle", "answered"} \cup Unsettled \cup Failed]
      /\ restarts \in Nat
  BY BridgeAssumption DEF IInv, BridgeTypeOK
<1>2. (restarts' > 0) = TRUE
  BY <1>1 DEF Restart
<1>3. ws' = NoSocket /\ answer' = answer
  BY DEF Restart
<1>4. \A c \in R : Channel!Open(c)
  BY DEF Channel!Open, Progress, Unsettled
<1>5. Channel!Sent \subseteq R
  BY SentIsAwaited DEF IInv, PendingOnClient, Unsettled
<1>6. Past' = Past \cup Channel!Losers \cup Live
  <2>1. ASSUME NEW r \in Socket PROVE r \in Past' <=> r \in Past \/ r = ws \/ r \in Live
    BY <1>1, <1>3 DEF Restart, Past, Live, Shaken, Socket, NoSocket
  <2>2. /\ Channel!Losers \subseteq Socket /\ Past \subseteq Socket
        /\ Live \subseteq Socket /\ Past' \subseteq Socket
    BY <1>1 DEF Channel!Losers, Past, Live, Shaken
  <2>3. \A r \in Socket : r \in Channel!Losers <=> r = ws
    BY DEF Channel!Losers, Socket, NoSocket
  <2> QED BY <2>1, <2>2, <2>3
<1>7. Progress' = [c \in Call |-> IF c \in R THEN "failed" ELSE Progress[c]]
  <2>1. ASSUME NEW c \in Call
        PROVE  Progress'[c] = IF c \in R THEN "failed" ELSE Progress[c]
    BY <1>1 DEF Restart, Progress, Unsettled, Failed
  <2>2. Progress' = [c \in Call |-> Progress'[c]]
    BY DEF Progress
  <2> QED BY <2>1, <2>2
<1>8. Channel!Reset(Live, R)
  BY <1>2, <1>3, <1>4, <1>5, <1>6, <1>7 DEF Channel!Reset
<1>9. Live \in SUBSET Socket
  BY DEF Live
<1> QED BY <1>8, <1>9

-----------------------------------------------------------------------------
(* Steps of calls.                                                         *)

\* What a step of a call shows when it leaves the sockets alone.
LEMMA CallKeepsPast ==
  ASSUME UNCHANGED <<socketVars, serverVars>>
  PROVE  ws' = ws /\ Past' = Past
BY DEF socketVars, serverVars, Past

LEMMA SendStep ==
  ASSUME IInv, NEW c \in Call, Progress[c] = "new", ws # NoSocket, Send(c),
         UNCHANGED <<socketVars, serverVars, restarts>>
  PROVE  Channel!Send(c)
<1>1. status \in [Call -> {"idle", "answered"} \cup Unsettled \cup Failed]
  BY DEF IInv, BridgeTypeOK
<1>2. status' = [status EXCEPT ![c] = "pending"] /\ answer' = answer
  BY DEF Send
<1>3. \A d \in Call : Progress'[d] = IF d = c THEN "sent" ELSE Progress[d]
  BY <1>1, <1>2 DEF Progress
<1>4. Progress' = [Progress EXCEPT ![c] = "sent"]
  BY <1>3 DEF Progress
<1> QED BY <1>2, <1>4, CallKeepsPast DEF Channel!Send

LEMMA FailStep ==
  ASSUME IInv, NEW C \in SUBSET Call, NEW how \in Failed,
         \A c \in C : status[c] \in Unsettled,
         status' = [c \in Call |-> IF c \in C THEN how ELSE status[c]],
         UNCHANGED <<socketVars, serverVars, answer, restarts>>
  PROVE  Channel!Fail(C)
<1>1. \A c \in C : Channel!Open(c)
  BY DEF Channel!Open, Progress, Unsettled
<1>2. \A c \in Call : Progress'[c] = IF c \in C THEN "failed" ELSE Progress[c]
  BY DEF Progress, Failed
<1>3. Progress' = [c \in Call |-> Progress'[c]]
  BY DEF Progress
<1>4. Progress' = [c \in Call |-> IF c \in C THEN "failed" ELSE Progress[c]]
  BY <1>2, <1>3
<1> QED BY <1>1, <1>4, CallKeepsPast DEF Channel!Fail

LEMMA CallStep ==
  ASSUME IInv, NEW c \in Call, StartCall(c) \/ Resume(c) \/ WaitExpires(c)
  PROVE  ChannelStep
<1>1. status \in [Call -> {"idle", "answered"} \cup Unsettled \cup Failed]
  BY DEF IInv, BridgeTypeOK
<1>2. UNCHANGED <<socketVars, serverVars, restarts>>
  BY DEF StartCall, Resume, WaitExpires
<1>3. status[c] \in {"idle", "waiting", "resumed"} /\ Progress[c] = "new"
  BY DEF StartCall, Resume, WaitExpires, Progress
<1>4. state = "connected" => ws # NoSocket
  BY DEF IInv, OneClient
<1>5. CASE Send(c) /\ ws # NoSocket
  <2>1. Channel!Send(c)
    BY <1>2, <1>3, <1>5, SendStep
  <2> QED BY <2>1 DEF ChannelStep, Channel!Next
<1>6. CASE status' = [status EXCEPT ![c] = "waiting"] /\ answer' = answer
  <2>1. \A d \in Call : Progress'[d] = Progress[d]
    BY <1>1, <1>3, <1>6 DEF Progress
  <2> QED BY <1>2, <1>6, <2>1, ProgressKept, CallKeepsPast, Stutters
<1>7. CASE /\ status' = [status EXCEPT ![c] = "refused"] /\ answer' = answer
           /\ status[c] # "idle"
  <2>1. status' = [d \in Call |-> IF d \in {c} THEN "refused" ELSE status[d]]
    BY <1>1, <1>7
  <2>2. \A d \in {c} : status[d] \in Unsettled
    BY <1>3, <1>7 DEF Unsettled
  <2>3. "refused" \in Failed
    BY DEF Failed
  <2>4. Channel!Fail({c})
    BY <1>2, <1>7, <2>1, <2>2, <2>3, FailStep
  <2> QED BY <2>4 DEF ChannelStep, Channel!Next
<1>8. StartCall(c) =>
         \/ Send(c) /\ ws # NoSocket
         \/ status' = [status EXCEPT ![c] = "waiting"] /\ answer' = answer
  BY <1>4 DEF StartCall
<1>9. Resume(c) \/ WaitExpires(c) =>
         \/ Send(c) /\ ws # NoSocket
         \/ /\ status' = [status EXCEPT ![c] = "refused"] /\ answer' = answer
            /\ status[c] # "idle"
  BY DEF Resume, WaitExpires
<1> QED BY <1>5, <1>6, <1>7, <1>8, <1>9

LEMMA GiveUpStep ==
  ASSUME IInv, (\E e \in requestMap : CallTimesOut(e)) \/ StaleSweep
  PROVE  ChannelStep
<1>1. Awaited \subseteq Call /\ \A c \in Awaited : status[c] \in Unsettled
  BY DEF IInv, PendingOnClient, Unsettled
<1>2. ASSUME NEW C \in SUBSET Awaited, NEW how \in Failed, Settle(C, how),
             UNCHANGED <<socketVars, serverVars, answer, restarts>>
      PROVE  ChannelStep
  <2>1. Channel!Fail(C)
    BY <1>1, <1>2, FailStep DEF Settle
  <2> QED BY <1>1, <2>1 DEF ChannelStep, Channel!Next
<1>3. ASSUME NEW e \in requestMap, CallTimesOut(e) PROVE ChannelStep
  <2>1. {e.call} \in SUBSET Awaited
    BY DEF Awaited
  <2> QED BY <1>2, <1>3, <2>1 DEF CallTimesOut, Failed
<1>4. CASE StaleSweep
  <2>1. {e.call : e \in Overdue} \in SUBSET Awaited
    BY DEF Awaited, Overdue
  <2> QED BY <1>2, <1>4, <2>1 DEF StaleSweep, Failed
<1> QED BY <1>3, <1>4

\* A response either matches nothing or one request.
LEMMA ResponseStep ==
  ASSUME IInv, NEW m \in running, handleResponse(m)
  PROVE  ChannelStep
<1>1. /\ status \in [Call -> {"idle", "answered"} \cup Unsettled \cup Failed]
      /\ answer \in [Call -> Call \cup {NoCall}]
      /\ m.call \in Call /\ restarts \in Nat
  BY BridgeAssumption DEF IInv, BridgeTypeOK, Message
<1>2. UNCHANGED <<socketVars, serverVars, restarts>>
  BY DEF handleResponse
<1>3. CASE Matches(m) = {}
  <2>1. \A c \in Call : status'[c] = status[c] /\ answer'[c] = answer[c]
    BY <1>3 DEF handleResponse, Settle
  <2>2. status' = status /\ answer' = answer
    BY <1>1, <2>1 DEF handleResponse, Settle
  <2> QED BY <1>2, <2>2, QuietSteps DEF socketVars, serverVars
<1>4. ASSUME NEW e \in Matches(m) PROVE Channel!Answer(e.call, m.call) /\ e.call \in Call
  <2>1. e \in requestMap /\ e.id = m.id /\ e.call \in Call /\ status[e.call] = "pending"
    BY DEF Matches, IInv, BridgeTypeOK, PendingOnClient, Awaited, Entry
  <2>2. \A f \in Matches(m) : f = e
    BY <2>1 DEF Matches, IInv, Numbered
  <2>3. \A c \in Call : status'[c] = IF c = e.call THEN "answered" ELSE status[c]
    BY <2>2 DEF handleResponse, Settle
  <2>4. \A c \in Call : answer'[c] = IF c = e.call THEN m.call ELSE answer[c]
    BY <2>2 DEF handleResponse
  <2>5. answer' = [answer EXCEPT ![e.call] = m.call]
    BY <1>1, <2>4 DEF handleResponse
  <2>6. \A c \in Call : Progress'[c] = IF c = e.call THEN "answered" ELSE Progress[c]
    BY <2>3 DEF Progress
  <2>7. Progress' = [Progress EXCEPT ![e.call] = "answered"]
    BY <2>6 DEF Progress
  <2>8. Progress[e.call] = "sent"
    BY <2>1 DEF Progress
  <2>9. m.call = e.call \/ (restarts > 0 /\ ~Channel!Open(m.call))
    <3>1. CASE OfThisLife(m)
      BY <2>1, <3>1 DEF OfThisLife
    <3>2. CASE OfAnotherLife(m)
      <4>1. status[m.call] \notin {"idle", "waiting", "resumed", "pending"}
        BY <3>2 DEF IInv, Delivered, OfAnotherLife
      <4>2. Progress[m.call] \in {"answered", "failed"}
        BY <1>1, <4>1 DEF Progress
      <4> QED BY <3>2, <4>2 DEF OfAnotherLife, Channel!Open
    <3> QED BY <3>1, <3>2 DEF IInv, Delivered
  <2> QED BY <1>2, <2>1, <2>5, <2>7, <2>8, <2>9, CallKeepsPast DEF Channel!Answer
<1>5. CASE Matches(m) # {}
  <2>1. PICK e \in Matches(m) : TRUE
    BY <1>5
  <2> QED BY <1>1, <1>4, <2>1 DEF ChannelStep, Channel!Next
<1> QED BY <1>3, <1>5

-----------------------------------------------------------------------------
(* The refinement.                                                         *)

LEMMA InitMaps == Init => Channel!Init
<1> SUFFICES ASSUME Init PROVE Channel!Init
  OBVIOUS
<1>1. Past = {} /\ Progress = [c \in Call |-> "new"] /\ (restarts > 0) = FALSE
  BY DEF Init, Past, Progress
<1> QED BY <1>1 DEF Init, Channel!Init

LEMMA StepMaps == IInv /\ [Next]_bridgeVars => ChannelStep
<1> SUFFICES ASSUME IInv, [Next]_bridgeVars PROVE ChannelStep
  OBVIOUS
<1>1. CASE UNCHANGED bridgeVars
  BY <1>1, QuietSteps DEF bridgeVars, serverVars, socketVars, callVars
<1>2. ASSUME NEW opened \in BOOLEAN, Connect(opened) \/ Reconnect(opened)
      PROVE  ChannelStep
  BY <1>2, QuietSteps DEF Connect, Reconnect, socketVars, callVars
<1>3. CASE Disconnect
  BY <1>3, DisconnectStep
<1>4. CASE CallNext
  <2>1. ASSUME NEW e \in requestMap, Age(e) PROVE ChannelStep
    BY <2>1, QuietSteps DEF Age, socketVars, serverVars
  <2> QED BY <1>4, <2>1, CallStep, GiveUpStep, ResponseStep DEF CallNext
<1>5. CASE ClientNext
  <2>1. ASSUME NEW s \in Socket, Handshake(s) PROVE ChannelStep
    BY <2>1, HandshakeStep DEF ChannelStep, Channel!Next
  <2>2. ASSUME NEW s \in Socket, Closed(s) PROVE ChannelStep
    BY <2>2, ClosedStep DEF ChannelStep, Channel!Next
  <2>3. CASE Silence \/ HeartbeatTick
    BY <2>3, QuietSteps DEF Silence, HeartbeatTick, socketVars, serverVars, callVars
  <2> QED BY <1>5, <2>1, <2>2, <2>3, AcceptStep DEF ClientNext
<1>6. CASE Restart
  BY <1>6, RestartStep DEF ChannelStep, Channel!Next
<1> QED BY <1>1, <1>2, <1>3, <1>4, <1>5, <1>6 DEF Next

\* The manager implements the channel: requests of one client at a time, each
\* settled once, lost with their client, and answered by their own answer
\* unless the process was started again.
THEOREM BridgeImplementsChannel == BridgeSpec => ImplementsChannel
  BY InitMaps, StepMaps, BridgeInvariant, PTL
     DEF BridgeSpec, ImplementsChannel, Channel!ChannelSpec, ChannelStep
=============================================================================
