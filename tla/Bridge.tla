------------------------------- MODULE Bridge -------------------------------
(***************************************************************************)
(* The BridgeManager of src/bridge/manager.ts: the WebSocket server the    *)
(* extension in the editor connects to, and the calls that are sent to it. *)
(*                                                                         *)
(* An action is a method that is called, a timer that fires, or an event   *)
(* of a socket; none of them awaits anything but the connection a call     *)
(* waits for.  close() of a socket only starts its closing handshake: its  *)
(* messages still arrive until its close event, which comes later, and     *)
(* after the events of the client that has replaced it.                    *)
(*                                                                         *)
(* The other end is an extension that keeps the protocol: it shakes hands  *)
(* once on a socket, sends heartbeats when it has been greeted, executes   *)
(* each request it is given at most once, and sends the response on the    *)
(* socket it has by then, which need not be the one the request came from. *)
(***************************************************************************)
EXTENDS Naturals, FiniteSets

CONSTANTS
  MaxSocket,      (* Connections accepted.  Bounds the model.                *)
  MaxCall,        (* Calls made.  Bounds the model.                          *)
  MaxRestarts,    (* Times the server process is started again.              *)
  BridgeTimeout,  (* BRIDGE_TIMEOUT_MS, in ticks of the age of a call.       *)
  timeoutMs,      (* The timeout of each call, in the same ticks.            *)
  NeedsPairing    (* A host that is not loopback, and BRIDGE_TOKEN is set.   *)

ASSUME BridgeAssumption ==
  /\ MaxSocket \in Nat
  /\ MaxCall \in Nat
  /\ MaxRestarts \in Nat
  /\ BridgeTimeout \in Nat \ {0}
  /\ timeoutMs \in [1..MaxCall -> Nat \ {0}]
  /\ NeedsPairing \in BOOLEAN

Socket   == 1..MaxSocket  \* in the order they connect
NoSocket == 0
Call     == 1..MaxCall    \* in the order they are made
NoCall   == 0

VARIABLES
  state,             (* state.                                               *)
  listening,         (* wss: the server accepts connections.                 *)
  ws,                (* ws: the client calls are sent to.                    *)
  stage,             (* How far each connection is.                          *)
  closing,           (* Sockets that close() was called on.                  *)
  dead,              (* Sockets whose other end vanished without a word.     *)
  pairingChallenges, (* Sockets whose pairing challenge has a timer.         *)
  reconnectTimer,    (* The timer reconnectTimer names is armed.             *)
  strayTimers,       (* Armed timers it has named before.                    *)
  silent,            (* There is a client, and no heartbeat came for three   *)
                     (* intervals.                                           *)
  stopped,           (* disconnect was called.                               *)
  status,            (* The promise of each call.                            *)
  answer,            (* The call whose response settled it.                  *)
  requestMap,        (* requestMap, with the socket of each request.         *)
  requestIdCounter,  (* requestIdCounter.                                    *)
  running,           (* Requests that reached the extension, and whose       *)
                     (* response has not arrived.                            *)
  restarts           (* Times the server was started again.                  *)

socketVars == <<stage, closing, dead, pairingChallenges>>
timerVars  == <<reconnectTimer, strayTimers>>
serverVars == <<state, listening, ws, silent, stopped>>
callVars   == <<status, answer, requestMap, requestIdCounter>>
bridgeVars == <<socketVars, timerVars, serverVars, callVars, running, restarts>>

BridgeState == {"disconnected", "connecting", "connected", "error"}
Unsettled   == {"waiting", "resumed", "pending"}
Failed      == {"timedOut", "swept", "dropped", "refused"}
Message     == [call : Call, id : Nat]
Entry       == [call : Call, id : Nat, on : Socket, age : Nat]

Live     == {s \in Socket : stage[s] \notin {"unused", "gone"}}
Speaking == {s \in Live : s \notin dead}
Shaken   == {s \in Socket : stage[s] = "shook"}

BridgeTypeOK ==
  /\ state \in BridgeState
  /\ listening \in BOOLEAN
  /\ ws \in Shaken \cup {NoSocket}
  /\ stage \in [Socket -> {"unused", "unpaired", "paired", "shook", "gone"}]
  /\ closing \in SUBSET Live
  /\ dead \in SUBSET Live
  /\ pairingChallenges \in SUBSET Socket
  /\ reconnectTimer \in BOOLEAN
  /\ strayTimers \in Nat
  /\ silent \in BOOLEAN
  /\ stopped \in BOOLEAN
  /\ status \in [Call -> {"idle", "answered"} \cup Unsettled \cup Failed]
  /\ answer \in [Call -> Call \cup {NoCall}]
  /\ requestMap \in SUBSET Entry
  /\ requestIdCounter \in Nat
  /\ running \in SUBSET Message
  /\ restarts \in 0..MaxRestarts

Init ==
  /\ state = "disconnected"
  /\ listening = FALSE
  /\ ws = NoSocket
  /\ reconnectTimer = FALSE
  /\ strayTimers = 0
  /\ silent = FALSE
  /\ stopped = FALSE
  /\ requestMap = {}
  /\ requestIdCounter = 0
  /\ pairingChallenges = {}
  /\ closing = {}
  /\ dead = {}
  /\ stage = [s \in Socket |-> "unused"]
  /\ status = [c \in Call |-> "idle"]
  /\ answer = [c \in Call |-> NoCall]
  /\ running = {}
  /\ restarts = 0

-----------------------------------------------------------------------------
(* Settling the promises of calls.                                         *)

Awaited == {e.call : e \in requestMap}
Others(C) == {e \in requestMap : e.call \notin C}

Settle(C, how) ==
  /\ status' = [c \in Call |-> IF c \in C THEN how ELSE status[c]]
  /\ requestMap' = Others(C)

\* Mutant: the entries are forgotten without a word.
rejectPending_Silent(left) ==
  /\ status' = left
  /\ requestMap' = {}

\* left: the promises of the calls that have sent no request.
rejectPending(left) ==
  /\ status' = [c \in Call |-> IF c \in Awaited THEN "dropped" ELSE left[c]]
  /\ requestMap' = {}

-----------------------------------------------------------------------------
(* connect, and the reconnect timer.                                       *)

scheduleReconnect ==
  /\ reconnectTimer' = TRUE
  /\ strayTimers' = strayTimers + (IF reconnectTimer THEN 1 ELSE 0)

\* Mutant: a server that listens already is started again.
NotUp_Listening == state # "connected"
NotUp == state \notin {"connected", "connecting"}

\* Every port of BRIDGE_PORT_SCAN is tried; opened: one of them was free.
Listen(opened) ==
  /\ state' = IF opened THEN "connecting" ELSE "error"
  /\ listening' = opened

\* The server connects when it starts, and disconnects when it shuts down.
Connect(opened) ==
  /\ NotUp
  /\ ~stopped
  /\ Listen(opened)
  /\ UNCHANGED <<socketVars, timerVars, ws, silent, stopped, callVars, running,
                 restarts>>

\* A timer that fires connects; that it is the one reconnectTimer names, or
\* an older one, makes no difference.
TimerFired ==
  \/ reconnectTimer /\ reconnectTimer' = FALSE /\ UNCHANGED strayTimers
  \/ strayTimers > 0 /\ strayTimers' = strayTimers - 1 /\ UNCHANGED reconnectTimer

\* connect fails, and what catches it arms another timer.
TimerRearmed ==
  \/ reconnectTimer /\ UNCHANGED timerVars
  \/ /\ strayTimers > 0
     /\ reconnectTimer' = TRUE
     /\ strayTimers' = IF reconnectTimer THEN strayTimers ELSE strayTimers - 1

Reconnect(opened) ==
  /\ IF ~NotUp THEN TimerFired /\ UNCHANGED <<state, listening>>
     ELSE /\ Listen(opened)
          /\ IF opened THEN TimerFired ELSE TimerRearmed
  /\ UNCHANGED <<socketVars, ws, silent, stopped, callVars, running, restarts>>

-----------------------------------------------------------------------------
(* Clients: pairing, handshake, heartbeat, close.                          *)

Accept(s) ==
  /\ listening
  /\ stage[s] = "unused"
  /\ \A r \in Socket : r < s => stage[r] # "unused"
  /\ stage' = [stage EXCEPT ![s] = IF NeedsPairing THEN "unpaired" ELSE "paired"]
  /\ pairingChallenges' = pairingChallenges \cup (IF NeedsPairing THEN {s} ELSE {})
  /\ UNCHANGED <<closing, dead, timerVars, serverVars, callVars, running, restarts>>

Pair(s) ==
  /\ s \in Speaking
  /\ stage[s] = "unpaired"
  /\ stage' = [stage EXCEPT ![s] = "paired"]
  /\ pairingChallenges' = pairingChallenges \ {s}
  /\ UNCHANGED <<closing, dead, timerVars, serverVars, callVars, running, restarts>>

\* The timer of a challenge outlives a socket that closes without pairing.
PairingTimeout(s) ==
  /\ s \in pairingChallenges
  /\ pairingChallenges' = pairingChallenges \ {s}
  /\ closing' = closing \cup ({s} \cap Live)
  /\ UNCHANGED <<stage, dead, timerVars, serverVars, callVars, running, restarts>>

\* A bad pairing response or handshake, a message before pairing, a payload
\* that is too large, whole or in chunks.
Refuse(s) ==
  /\ s \in Speaking \ closing
  /\ closing' = closing \cup {s}
  /\ UNCHANGED <<stage, dead, pairingChallenges, timerVars, serverVars, callVars,
                 running, restarts>>

\* The calls that wait for the connection go on, each in its own time.
Awoken == [c \in Call |-> IF status[c] = "waiting" THEN "resumed" ELSE status[c]]

\* Mutants: the client that is replaced is not closed; identifiers start
\* again with every client; the calls of the old client are kept.
handleHandshake_LeaveOpen(s) ==
  /\ rejectPending(Awoken)
  /\ UNCHANGED <<closing, requestIdCounter>>

handleHandshake_FirstId(s) ==
  /\ rejectPending(Awoken)
  /\ requestIdCounter' = 0
  /\ closing' = closing \cup ({ws} \ {NoSocket})

handleHandshake_KeepCalls(s) ==
  /\ status' = Awoken
  /\ closing' = closing \cup ({ws} \ {NoSocket})
  /\ UNCHANGED <<requestMap, requestIdCounter>>

\* What happens to the client before, if there is one.  Without one there
\* are no pending calls to reject.
handleHandshake(s) ==
  /\ IF ws = NoSocket THEN status' = Awoken /\ UNCHANGED requestMap
                      ELSE rejectPending(Awoken)
  /\ closing' = closing \cup ({ws} \ {NoSocket})
  /\ UNCHANGED requestIdCounter

Handshake(s) ==
  /\ s \in Speaking
  /\ stage[s] = "paired"
  /\ stage' = [stage EXCEPT ![s] = "shook"]
  /\ handleHandshake(s)
  /\ ws' = s
  /\ state' = "connected"
  /\ silent' = FALSE
  /\ UNCHANGED <<dead, pairingChallenges, timerVars, listening, stopped, answer,
                 running, restarts>>

\* From any client that was greeted, also one that has been replaced.
Heartbeat(s) ==
  /\ s \in Speaking \cap Shaken
  /\ silent
  /\ silent' = FALSE
  /\ UNCHANGED <<socketVars, timerVars, state, listening, ws, stopped, callVars,
                 running, restarts>>

Silence ==
  /\ state = "connected"
  /\ ~silent
  /\ silent' = TRUE
  /\ UNCHANGED <<socketVars, timerVars, state, listening, ws, stopped, callVars,
                 running, restarts>>

HeartbeatTick ==
  /\ state = "connected"
  /\ ws \in Socket \ closing
  /\ silent
  /\ closing' = closing \cup {ws}
  /\ UNCHANGED <<stage, dead, pairingChallenges, timerVars, serverVars, callVars,
                 running, restarts>>

\* One that has not shaken hands need not: that is no different.
Vanish(s) ==
  /\ s \in Speaking \cap Shaken
  /\ dead' = dead \cup {s}
  /\ UNCHANGED <<stage, closing, pairingChallenges, timerVars, serverVars, callVars,
                 running, restarts>>

\* Mutants: any close event ends the session; the socket is not forgotten.
IsStale_Never(s) == FALSE
clientLost_KeepSocket == UNCHANGED ws

IsStale(s) == ws # s
clientLost == ws' = NoSocket

\* The close event of a socket.
Closed(s) ==
  /\ s \in Live
  /\ stage' = [stage EXCEPT ![s] = "gone"]
  /\ closing' = closing \ {s}
  /\ dead' = dead \ {s}
  /\ IF IsStale(s)
     THEN UNCHANGED <<state, ws, silent, status, requestMap, pairingChallenges,
                      timerVars>>
     ELSE /\ clientLost
          /\ silent' = FALSE
          /\ state' = "connecting"
          /\ pairingChallenges' = {}
          /\ rejectPending(status)
          /\ scheduleReconnect
  /\ UNCHANGED <<listening, stopped, answer, requestIdCounter, running, restarts>>

\* Shutdown, or a heartbeat that cannot be sent.
Disconnect ==
  /\ state' = "disconnected"
  /\ reconnectTimer' = FALSE
  /\ pairingChallenges' = {}
  /\ rejectPending(status)
  /\ closing' = closing \cup ({ws} \ {NoSocket})
  /\ ws' = NoSocket
  /\ listening' = FALSE
  /\ silent' = FALSE
  /\ stopped' = TRUE
  /\ UNCHANGED <<stage, dead, strayTimers, answer, requestIdCounter, running,
                 restarts>>

-----------------------------------------------------------------------------
(* Calls.                                                                  *)

\* A frame that is sent on a socket that is closing is dropped by the
\* library; one to a peer that vanished does not arrive.
Send(c) ==
  LET id == requestIdCounter + 1 IN
  /\ requestIdCounter' = id
  /\ status' = [status EXCEPT ![c] = "pending"]
  /\ requestMap' = requestMap \cup {[call |-> c, id |-> id, on |-> ws, age |-> 0]}
  /\ running' = running \cup
       (IF ws \in closing \cup dead THEN {} ELSE {[call |-> c, id |-> id]})
  /\ UNCHANGED answer

StartCall(c) ==
  /\ status[c] = "idle"
  /\ \A b \in Call : b < c => status[b] # "idle"
  /\ IF state = "connected" THEN Send(c)
     ELSE /\ status' = [status EXCEPT ![c] = "waiting"]
          /\ UNCHANGED <<answer, requestMap, requestIdCounter, running>>
  /\ UNCHANGED <<socketVars, timerVars, serverVars, restarts>>

\* What was true when the wait ended need not be any more.
Resume(c) ==
  /\ status[c] = "resumed"
  /\ IF state = "connected" /\ ws # NoSocket THEN Send(c)
     ELSE /\ status' = [status EXCEPT ![c] = "refused"]
          /\ UNCHANGED <<answer, requestMap, requestIdCounter, running>>
  /\ UNCHANGED <<socketVars, timerVars, serverVars, restarts>>

WaitExpires(c) ==
  /\ status[c] = "waiting"
  /\ status' = [status EXCEPT ![c] = "refused"]
  /\ UNCHANGED <<socketVars, timerVars, serverVars, answer, requestMap,
                 requestIdCounter, running, restarts>>

Later(e) == [e EXCEPT !.age = @ + 1]

Age(e) ==
  /\ e.age < timeoutMs[e.call] \/ e.age < BridgeTimeout
  /\ requestMap' = (requestMap \ {e}) \cup {Later(e)}
  /\ UNCHANGED <<socketVars, timerVars, serverVars, status, answer,
                 requestIdCounter, running, restarts>>

CallTimesOut(e) ==
  /\ e.age >= timeoutMs[e.call]
  /\ Settle({e.call}, "timedOut")
  /\ UNCHANGED <<socketVars, timerVars, serverVars, answer, requestIdCounter,
                 running, restarts>>

Overdue == {e \in requestMap : e.age >= BridgeTimeout}

\* Whatever timeout the call was given.
StaleSweep ==
  /\ state = "connected"
  /\ Overdue # {}
  /\ Settle({e.call : e \in Overdue}, "swept")
  /\ UNCHANGED <<socketVars, timerVars, serverVars, answer, requestIdCounter,
                 running, restarts>>

Matches(m) == {e \in requestMap : e.id = m.id}

\* The extension executes its requests in any order, however their calls have
\* ended, and answers on the socket it has by then.
handleResponse(m) ==
  /\ Speaking \cap Shaken # {}
  /\ running' = running \ {m}
  /\ Settle({e.call : e \in Matches(m)}, "answered")
  /\ answer' = [c \in Call |-> IF \E e \in Matches(m) : e.call = c
                               THEN m.call ELSE answer[c]]
  /\ UNCHANGED <<socketVars, timerVars, serverVars, requestIdCounter, restarts>>

-----------------------------------------------------------------------------
\* The process ends and is started again; the extension stays.  The callers
\* are gone with it, so nobody learns of the calls under way.
Restart ==
  /\ restarts < MaxRestarts
  /\ restarts' = restarts + 1
  /\ state' = "disconnected"
  /\ listening' = FALSE
  /\ ws' = NoSocket
  /\ reconnectTimer' = FALSE
  /\ strayTimers' = 0
  /\ silent' = FALSE
  /\ stopped' = FALSE
  /\ requestMap' = {}
  /\ requestIdCounter' = 0
  /\ pairingChallenges' = {}
  /\ closing' = {}
  /\ dead' = {}
  /\ stage' = [s \in Socket |-> IF s \in Live THEN "gone" ELSE stage[s]]
  /\ status' = [c \in Call |-> IF status[c] \in Unsettled THEN "dropped" ELSE status[c]]
  /\ UNCHANGED <<answer, running>>

CallNext ==
  \/ \E c \in Call : StartCall(c) \/ Resume(c) \/ WaitExpires(c)
  \/ \E e \in requestMap : Age(e) \/ CallTimesOut(e)
  \/ StaleSweep
  \/ \E m \in running : handleResponse(m)

ClientNext ==
  \/ \E s \in Socket :
       \/ Accept(s) \/ Pair(s) \/ PairingTimeout(s) \/ Refuse(s) \/ Handshake(s)
       \/ Heartbeat(s) \/ Vanish(s) \/ Closed(s)
  \/ Silence
  \/ HeartbeatTick

Next ==
  \/ \E opened \in BOOLEAN : Connect(opened) \/ Reconnect(opened)
  \/ Disconnect
  \/ CallNext
  \/ ClientNext
  \/ Restart

BridgeSpec == Init /\ [][Next]_bridgeVars

\* Timers fire, promises that are resolved resume, and a socket that close()
\* was called on gets its close event (the library's own timeout).  Nothing
\* is owed by the extension, the network or the callers.
FairBridgeSpec ==
  /\ BridgeSpec
  /\ \A c \in Call :
       /\ WF_bridgeVars(Resume(c))
       /\ WF_bridgeVars(WaitExpires(c))
       /\ WF_bridgeVars(\E e \in requestMap : e.call = c /\ Age(e))
       /\ WF_bridgeVars(\E e \in requestMap : e.call = c /\ CallTimesOut(e))
  /\ \A s \in Socket : WF_bridgeVars(s \in closing /\ Closed(s))
  /\ WF_bridgeVars(Silence)
  /\ WF_bridgeVars(HeartbeatTick)

-----------------------------------------------------------------------------
(* Properties.                                                             *)

\* A client that has shaken hands is the one calls are sent to or is being
\* closed: no client is left open that believes it is connected, and the
\* manager is connected exactly when it has a client.
OneClient ==
  /\ state = "connected" <=> ws # NoSocket
  /\ \A s \in Shaken : s = ws \/ s \in closing

\* The request map has one entry for each call that awaits a response, sent
\* to the client of now: a client takes its calls with it.
PendingOnClient ==
  /\ \A e \in requestMap : e.on = ws
  /\ Awaited = {c \in Call : status[c] = "pending"}
  /\ \A e, f \in requestMap : e.call = f.call => e = f

\* A call that got a response got its own.
OwnAnswer == \A c \in Call : status[c] = "answered" => answer[c] = c

\* "The WSS is still listening; no reconnect needed": until it is told to
\* stop, a manager that waits for a client or has one accepts the next.
ListensUntilStopped == state \in {"connecting", "connected"} => listening \/ stopped

\* Every call ends: it is answered or rejected.
CallsEnd ==
  \A c \in Call : status[c] \in Unsettled ~> status[c] \notin Unsettled

\* A client that has vanished does not stay the client, whatever the
\* heartbeats of others.
ZombieIsDropped == \A s \in Socket : (s = ws /\ s \in dead) ~> s # ws

-----------------------------------------------------------------------------
(* Refinement of RequestChannel: the peer is the client of now.            *)

Progress ==
  [c \in Call |-> IF status[c] \in {"idle", "waiting", "resumed"} THEN "new"
                  ELSE IF status[c] = "pending" THEN "sent"
                  ELSE IF status[c] = "answered" THEN "answered"
                  ELSE "failed"]

Past == {s \in Socket : stage[s] \in {"shook", "gone"} /\ s # ws}

Channel == INSTANCE RequestChannel WITH
  Peer <- Socket, NoPeer <- NoSocket, Request <- Call, NoRequest <- NoCall,
  peer <- ws, past <- Past, progress <- Progress, answeredBy <- answer,
  reset <- restarts > 0

ImplementsChannel == Channel!ChannelSpec
=============================================================================
