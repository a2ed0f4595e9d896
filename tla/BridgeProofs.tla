---------------------------- MODULE BridgeProofs ----------------------------
(***************************************************************************)
(* Theorems about Bridge, for any number of clients, calls and restarts    *)
(* and any timeouts.                                                       *)
(***************************************************************************)
EXTENDS Bridge, TLAPS

\* The manager is up with its server listening, or it has never had a client,
\* or it was told to stop.
Up ==
  \/ stopped
  \/ listening /\ state \in {"connecting", "connected"}
  \/ ~listening /\ state \in {"disconnected", "error"} /\ Live = {}

\* No two requests of one process have the same number.
Numbered ==
  /\ \A e \in requestMap : e.id <= requestIdCounter
  /\ \A e, f \in requestMap : e.id = f.id => e = f

\* A request the extension has is one of this process, whose number is its
\* own, or its call ended when the process before did.
OfThisLife(m) ==
  /\ m.id <= requestIdCounter
  /\ \A e \in requestMap : e.id = m.id => e.call = m.call

OfAnotherLife(m) == restarts > 0 /\ status[m.call] # "pending"

Delivered ==
  \A m \in running :
    /\ status[m.call] \notin {"idle", "waiting", "resumed"}
    /\ OfThisLife(m) \/ OfAnotherLife(m)

IInv ==
  /\ BridgeTypeOK
  /\ OneClient
  /\ PendingOnClient
  /\ Up
  /\ Numbered
  /\ Delivered

\* The initial state satisfies the invariant.
LEMMA InitInvariant == Init => IInv
<1> SUFFICES ASSUME Init PROVE IInv
  OBVIOUS
<1>1. Live = {} /\ Shaken = {}
  BY DEF Init, Live, Shaken
<1>2. BridgeTypeOK
  <2>1. /\ stage \in [Socket -> {"unused", "unpaired", "paired", "shook", "gone"}]
        /\ status \in [Call -> {"idle", "answered"} \cup Unsettled \cup Failed]
        /\ answer \in [Call -> Call \cup {NoCall}]
    BY DEF Init
  <2>2. restarts \in 0..MaxRestarts
    BY BridgeAssumption DEF Init
  <2> QED BY <1>1, <2>1, <2>2 DEF Init, BridgeTypeOK, BridgeState
<1>3. OneClient /\ Up
  BY <1>1 DEF Init, OneClient, Up
<1>4. PendingOnClient /\ Numbered /\ Delivered
  BY DEF Init, PendingOnClient, Awaited, Numbered, Delivered
<1> QED
  BY <1>2, <1>3, <1>4 DEF IInv

-----------------------------------------------------------------------------
(* What a step does to the calls.                                          *)

CallsOK == PendingOnClient /\ Numbered /\ Delivered

\* It leaves them alone, and the client too.
LEMMA CallsKept ==
  ASSUME IInv, UNCHANGED <<callVars, running, restarts, ws>>
  PROVE  CallsOK'
BY DEF IInv, callVars, CallsOK, PendingOnClient, Awaited, Numbered, Delivered,
       OfThisLife, OfAnotherLife

\* It rejects all that are pending.  left is what becomes of the others.
LEMMA CallsDropped ==
  ASSUME IInv, NEW left, left \in {status, Awoken}, rejectPending(left),
         UNCHANGED <<requestIdCounter, running, restarts>>
  PROVE  CallsOK'
<1> USE DEF IInv, rejectPending
<1>1. Awaited = {c \in Call : status[c] = "pending"}
  BY DEF PendingOnClient
<1>2. \A c \in Call : status'[c] # "pending"
  BY <1>1 DEF Awoken, BridgeTypeOK
<1>3. PendingOnClient' /\ Numbered'
  BY <1>2 DEF PendingOnClient, Awaited, Numbered
<1>4. \A c \in Call : status[c] \notin {"idle", "waiting", "resumed"} =>
                        status'[c] \notin {"idle", "waiting", "resumed"}
  BY <1>1 DEF Awoken, BridgeTypeOK
<1>5. Delivered'
  <2> SUFFICES ASSUME NEW m \in running
               PROVE  /\ status'[m.call] \notin {"idle", "waiting", "resumed"}
                      /\ OfThisLife(m)' \/ OfAnotherLife(m)'
    BY DEF Delivered
  <2>1. m.call \in Call
    BY DEF BridgeTypeOK, Message
  <2> QED BY <2>1, <1>2, <1>4 DEF Delivered, OfThisLife, OfAnotherLife
<1> QED BY <1>3, <1>5 DEF CallsOK

\* It settles some of those that are pending.
LEMMA CallsSettled ==
  ASSUME IInv, NEW C \in SUBSET Awaited, NEW how \in Failed \cup {"answered"},
         Settle(C, how), running' \in SUBSET running,
         UNCHANGED <<ws, requestIdCounter, restarts>>
  PROVE  CallsOK'
<1> USE DEF IInv, Settle, Others
<1>1. \A c \in Call : status'[c] = IF c \in C THEN how ELSE status[c]
  OBVIOUS
<1>2. how \notin {"pending", "idle", "waiting", "resumed"}
  BY DEF Failed
<1>3. PendingOnClient'
  <2>1. \A e \in requestMap' : e \in requestMap /\ e.call \notin C
    OBVIOUS
  <2>2. Awaited' = Awaited \ C
    BY DEF Awaited
  <2>3. Awaited \ C = {c \in Call : status'[c] = "pending"}
    BY <1>1, <1>2 DEF PendingOnClient
  <2> QED BY <2>1, <2>2, <2>3 DEF PendingOnClient
<1>4. Numbered'
  BY DEF Numbered
<1>5. Delivered'
  <2> SUFFICES ASSUME NEW m \in running
               PROVE  /\ status'[m.call] \notin {"idle", "waiting", "resumed"}
                      /\ OfThisLife(m)' \/ OfAnotherLife(m)'
    BY DEF Delivered
  <2>1. m.call \in Call
    BY DEF BridgeTypeOK, Message
  <2> QED BY <2>1, <1>1, <1>2 DEF Delivered, OfThisLife, OfAnotherLife
<1> QED BY <1>3, <1>4, <1>5 DEF CallsOK

\* It sends the request of a call that has sent none.
LEMMA CallSent ==
  ASSUME IInv, NEW c \in Call, status[c] \in {"idle", "resumed"}, ws \in Socket,
         Send(c), UNCHANGED <<ws, restarts>>
  PROVE  CallsOK'
<1> DEFINE e == [call |-> c, id |-> requestIdCounter + 1, on |-> ws, age |-> 0]
           n == [call |-> c, id |-> requestIdCounter + 1]
<1> USE DEF IInv
<1>1. /\ requestMap' = requestMap \cup {e}
      /\ status' = [status EXCEPT ![c] = "pending"]
      /\ requestIdCounter' = requestIdCounter + 1
      /\ running' \in SUBSET (running \cup {n})
  BY DEF Send
<1>2. c \notin Awaited
  BY DEF PendingOnClient
<1>3. \A f \in requestMap : f.id \in Nat /\ f.id # requestIdCounter + 1 /\ f.call # c
  BY <1>2 DEF Numbered, BridgeTypeOK, Entry, Awaited
<1>4. PendingOnClient'
  <2>1. Awaited' = Awaited \cup {c}
    <3>1. e.call = c
      OBVIOUS
    <3> QED BY <1>1, <3>1 DEF Awaited
  <2>2. Awaited \cup {c} = {b \in Call : status'[b] = "pending"}
    BY <1>1 DEF PendingOnClient, BridgeTypeOK
  <2>3. \A f, g \in requestMap' : f.call = g.call => f = g
    BY <1>1, <1>3 DEF PendingOnClient
  <2> QED BY <1>1, <2>1, <2>2, <2>3 DEF PendingOnClient
<1>5. Numbered'
  <2>1. \A f \in requestMap' : f.id <= requestIdCounter'
    BY <1>1 DEF Numbered, BridgeTypeOK, Entry
  <2>2. \A f, g \in requestMap' : f.id = g.id => f = g
    BY <1>1, <1>3 DEF Numbered
  <2> QED BY <2>1, <2>2 DEF Numbered
<1>6. Delivered'
  <2> SUFFICES ASSUME NEW m \in running \cup {n}
               PROVE  /\ status'[m.call] \notin {"idle", "waiting", "resumed"}
                      /\ OfThisLife(m)' \/ OfAnotherLife(m)'
    BY <1>1 DEF Delivered
  <2>1. CASE m = n
    BY <2>1, <1>1, <1>3 DEF OfThisLife, BridgeTypeOK
  <2>2. CASE m \in running
    <3>1. m.call \in Call /\ m.id \in Nat /\ m.call # c
      BY <2>2 DEF BridgeTypeOK, Message, Delivered
    <3>2. CASE OfThisLife(m)
      BY <2>2, <3>1, <3>2, <1>1 DEF OfThisLife, Delivered, BridgeTypeOK
    <3>3. CASE OfAnotherLife(m)
      BY <2>2, <3>1, <3>3, <1>1 DEF OfAnotherLife, Delivered, BridgeTypeOK
    <3> QED BY <2>2, <3>2, <3>3 DEF Delivered
  <2> QED BY <2>1, <2>2
<1> QED BY <1>4, <1>5, <1>6 DEF CallsOK

-----------------------------------------------------------------------------
(* The steps of the clients and of the server's timers.                    *)

CallTypeOK ==
  /\ status \in [Call -> {"idle", "answered"} \cup Unsettled \cup Failed]
  /\ answer \in [Call -> Call \cup {NoCall}]
  /\ requestMap \in SUBSET Entry
  /\ requestIdCounter \in Nat
  /\ running \in SUBSET Message
  /\ restarts \in 0..MaxRestarts

LEMMA CallTypes == IInv => CallTypeOK
  BY DEF IInv, BridgeTypeOK, CallTypeOK

LEMMA CallTypesKept ==
  ASSUME IInv, UNCHANGED <<callVars, running, restarts>>
  PROVE  CallTypeOK'
BY CallTypes DEF callVars, CallTypeOK

LEMMA CallTypesDropped ==
  ASSUME IInv, NEW left, left \in {status, Awoken}, rejectPending(left),
         UNCHANGED <<answer, requestIdCounter, running, restarts>>
  PROVE  CallTypeOK'
<1>1. left \in [Call -> {"idle", "answered"} \cup Unsettled \cup Failed]
  BY CallTypes DEF CallTypeOK, Awoken, Unsettled
<1>2. status' \in [Call -> {"idle", "answered"} \cup Unsettled \cup Failed]
  BY <1>1 DEF rejectPending, Failed
<1> QED BY <1>2, CallTypes DEF CallTypeOK, rejectPending

\* connect: whether it succeeds or fails, it leaves clients alone.
LEMMA ListenInvariant ==
  ASSUME IInv, NEW opened \in BOOLEAN, NotUp, Listen(opened),
         reconnectTimer' \in BOOLEAN, strayTimers' \in Nat,
         UNCHANGED <<socketVars, ws, silent, stopped, callVars, running, restarts>>
  PROVE  IInv'
<1>1. CallsOK'
  BY CallsKept
<1>2. BridgeTypeOK'
  BY DEF IInv, BridgeTypeOK, BridgeState, Listen, socketVars, callVars, Live, Shaken
<1>3. OneClient'
  BY DEF IInv, OneClient, BridgeTypeOK, NotUp, Listen, socketVars, Live, Shaken
<1>4. Up'
  BY DEF IInv, Up, NotUp, Listen, socketVars, Live
<1> QED BY <1>1, <1>2, <1>3, <1>4 DEF IInv, CallsOK

LEMMA TimerTypes ==
  ASSUME IInv, TimerFired \/ TimerRearmed
  PROVE  reconnectTimer' \in BOOLEAN /\ strayTimers' \in Nat
<1>1. reconnectTimer \in BOOLEAN /\ strayTimers \in Nat
  BY DEF IInv, BridgeTypeOK
<1>2. CASE TimerFired
  <2>1. reconnectTimer' \in BOOLEAN
    BY <1>1, <1>2, Zenon DEF TimerFired
  <2>2. strayTimers' \in Nat
    BY <1>1, <1>2, SMT DEF TimerFired
  <2> QED BY <2>1, <2>2
<1>3. CASE TimerRearmed
  <2>1. reconnectTimer' \in BOOLEAN
    BY <1>1, <1>3, Zenon DEF TimerRearmed, timerVars
  <2>2. strayTimers' \in Nat
    BY <1>1, <1>3, SMT DEF TimerRearmed, timerVars
  <2> QED BY <2>1, <2>2
<1> QED BY <1>2, <1>3

LEMMA ConnectInvariant ==
  ASSUME IInv, NEW opened \in BOOLEAN, Connect(opened)
  PROVE  IInv'
<1>1. reconnectTimer' \in BOOLEAN /\ strayTimers' \in Nat
  BY DEF IInv, BridgeTypeOK, Connect, timerVars
<1> QED BY <1>1, ListenInvariant DEF Connect

LEMMA ReconnectInvariant ==
  ASSUME IInv, NEW opened \in BOOLEAN, Reconnect(opened)
  PROVE  IInv'
<1>1. reconnectTimer' \in BOOLEAN /\ strayTimers' \in Nat
  BY TimerTypes DEF Reconnect
<1>2. CASE NotUp
  BY <1>1, <1>2, ListenInvariant DEF Reconnect
<1>3. CASE ~NotUp
  <2>1. CallsOK'
    BY CallsKept DEF Reconnect
  <2>2. BridgeTypeOK'
    BY <1>1, <1>3 DEF IInv, BridgeTypeOK, Reconnect, socketVars, callVars, Live, Shaken
  <2>3. OneClient' /\ Up'
    BY <1>3 DEF IInv, OneClient, Up, Reconnect, socketVars, Live, Shaken
  <2> QED BY <2>1, <2>2, <2>3 DEF IInv, CallsOK
<1> QED BY <1>2, <1>3

\* A step that leaves the client and the calls alone, whatever it does to other
\* sockets: it may close some, and it gives no socket a place it had lost.
LEMMA SocketInvariant ==
  ASSUME IInv, UNCHANGED <<timerVars, state, listening, ws, stopped, callVars,
                           running, restarts>>,
         silent' \in BOOLEAN,
         stage' \in [Socket -> {"unused", "unpaired", "paired", "shook", "gone"}],
         Shaken' \in SUBSET Shaken,
         ws \in Shaken' \cup {NoSocket},
         \A s \in Shaken' : s \in closing => s \in closing',
         closing' \in SUBSET Live', dead' \in SUBSET Live',
         pairingChallenges' \in SUBSET Socket,
         Live' \in SUBSET Live \/ listening
  PROVE  IInv'
<1>1. CallsOK'
  BY CallsKept
<1>2. BridgeTypeOK'
  BY DEF IInv, BridgeTypeOK, callVars, timerVars
<1>3. OneClient'
  BY DEF IInv, OneClient
<1>4. Up'
  BY DEF IInv, Up
<1> QED BY <1>1, <1>2, <1>3, <1>4 DEF IInv, CallsOK

LEMMA AcceptInvariant ==
  ASSUME IInv, NEW s \in Socket, Accept(s) \/ Pair(s)
  PROVE  IInv'
<1>1. PICK to \in {"unpaired", "paired"} : stage' = [stage EXCEPT ![s] = to]
  BY DEF Accept, Pair
<1>2. stage \in [Socket -> {"unused", "unpaired", "paired", "shook", "gone"}]
  BY DEF IInv, BridgeTypeOK
<1>3. stage[s] \in {"unused", "unpaired"}
  BY DEF Accept, Pair
<1>4. Live' = Live \cup {s} /\ Shaken' = Shaken
  BY <1>1, <1>2, <1>3 DEF Live, Shaken
<1>5. Live' \in SUBSET Live \/ listening
  BY <1>4 DEF Accept, Pair, Speaking
<1>6. UNCHANGED <<closing, dead, timerVars, serverVars, callVars, running, restarts>>
  BY DEF Accept, Pair
<1>7. pairingChallenges' \in SUBSET Socket
  BY DEF IInv, BridgeTypeOK, Accept, Pair
<1>8. stage' \in [Socket -> {"unused", "unpaired", "paired", "shook", "gone"}]
  BY <1>1, <1>2
<1>9. closing \in SUBSET Live /\ dead \in SUBSET Live /\ ws \in Shaken \cup {NoSocket}
      /\ silent \in BOOLEAN
  BY DEF IInv, BridgeTypeOK
<1> QED
  BY <1>4, <1>5, <1>6, <1>7, <1>8, <1>9, SocketInvariant DEF serverVars

\* Steps that do not move a socket: close() is called on one, one vanishes, a
\* heartbeat comes or is missed.
LEMMA StillInvariant ==
  ASSUME IInv, UNCHANGED <<stage, timerVars, state, listening, ws, stopped, callVars,
                           running, restarts>>,
         silent' \in BOOLEAN,
         closing' \in SUBSET Live, closing \in SUBSET closing',
         dead' \in SUBSET Live, pairingChallenges' \in SUBSET Socket
  PROVE  IInv'
<1>1. Live' = Live /\ Shaken' = Shaken
  BY DEF Live, Shaken
<1>2. stage' \in [Socket -> {"unused", "unpaired", "paired", "shook", "gone"}]
      /\ ws \in Shaken \cup {NoSocket}
  BY DEF IInv, BridgeTypeOK
<1> QED BY <1>1, <1>2, SocketInvariant

LEMMA QuietInvariant ==
  ASSUME IInv,
         \/ \E s \in Socket : PairingTimeout(s) \/ Refuse(s) \/ Heartbeat(s) \/ Vanish(s)
         \/ Silence
         \/ HeartbeatTick
  PROVE  IInv'
<1>1. /\ closing \in SUBSET Live /\ dead \in SUBSET Live /\ silent \in BOOLEAN
      /\ pairingChallenges \in SUBSET Socket /\ ws \in Shaken \cup {NoSocket}
  BY DEF IInv, BridgeTypeOK
<1>2. Shaken \in SUBSET Live
  BY DEF Shaken, Live
<1>3. ASSUME NEW s \in Socket, PairingTimeout(s) PROVE IInv'
  BY <1>1, <1>3, StillInvariant DEF PairingTimeout, serverVars
<1>4. ASSUME NEW s \in Socket, Refuse(s) PROVE IInv'
  BY <1>1, <1>4, StillInvariant DEF Refuse, Speaking, serverVars
<1>5. ASSUME NEW s \in Socket, Heartbeat(s) PROVE IInv'
  BY <1>1, <1>5, StillInvariant DEF Heartbeat, socketVars
<1>6. ASSUME NEW s \in Socket, Vanish(s) PROVE IInv'
  BY <1>1, <1>6, StillInvariant DEF Vanish, Speaking, serverVars
<1>7. CASE Silence
  BY <1>1, <1>7, StillInvariant DEF Silence, socketVars
<1>8. CASE HeartbeatTick
  <2>1. ws \in Live
    BY <1>1, <1>2, <1>8 DEF HeartbeatTick, Socket, NoSocket
  <2> QED BY <1>1, <1>8, <2>1, StillInvariant DEF HeartbeatTick, serverVars
<1> QED BY <1>3, <1>4, <1>5, <1>6, <1>7, <1>8

-----------------------------------------------------------------------------
(* The steps that change the client.                                       *)

LEMMA HandshakeInvariant ==
  ASSUME IInv, NEW s \in Socket, Handshake(s)
  PROVE  IInv'
<1>1. /\ stage' = [stage EXCEPT ![s] = "shook"]
      /\ ws' = s /\ state' = "connected" /\ silent' = FALSE
      /\ closing' = closing \cup ({ws} \ {NoSocket})
      /\ stage[s] = "paired" /\ s \in Speaking
      /\ UNCHANGED <<dead, pairingChallenges, timerVars, listening, stopped, answer,
                     requestIdCounter, running, restarts>>
  BY DEF Handshake, handleHandshake
<1>2. /\ stage \in [Socket -> {"unused", "unpaired", "paired", "shook", "gone"}]
      /\ ws \in Shaken \cup {NoSocket}
  BY DEF IInv, BridgeTypeOK
<1>3. Live' = Live /\ Shaken' = Shaken \cup {s} /\ s \in Live /\ Shaken \in SUBSET Live
  BY <1>1, <1>2 DEF Live, Shaken, Speaking
<1>4. rejectPending(Awoken)
  <2>1. CASE ws = NoSocket
    <3>1. requestMap = {}
      BY <2>1 DEF IInv, BridgeTypeOK, PendingOnClient, Entry, Socket, NoSocket
    <3>2. Awaited = {}
      BY <3>1 DEF Awaited
    <3>3. Awoken = [c \in Call |-> IF c \in Awaited THEN "dropped" ELSE Awoken[c]]
      BY <3>2 DEF Awoken
    <3> QED BY <2>1, <3>1, <3>3 DEF Handshake, handleHandshake, rejectPending
  <2>2. CASE ws # NoSocket
    BY <2>2 DEF Handshake, handleHandshake
  <2> QED BY <2>1, <2>2
<1>5. CallsOK'
  BY <1>1, <1>4, CallsDropped
<1>6. BridgeTypeOK'
  <2>1. CallTypeOK'
    BY <1>1, <1>4, CallTypesDropped
  <2>2. stage' \in [Socket -> {"unused", "unpaired", "paired", "shook", "gone"}]
    BY <1>1, <1>2
  <2>3. closing' \in SUBSET Live'
    BY <1>1, <1>2, <1>3 DEF IInv, BridgeTypeOK
  <2>4. /\ dead' \in SUBSET Live' /\ pairingChallenges' \in SUBSET Socket
        /\ listening' \in BOOLEAN /\ stopped' \in BOOLEAN
        /\ reconnectTimer' \in BOOLEAN /\ strayTimers' \in Nat
    BY <1>1, <1>3 DEF IInv, BridgeTypeOK, timerVars
  <2> QED BY <1>1, <1>3, <2>1, <2>2, <2>3, <2>4
          DEF CallTypeOK, BridgeTypeOK, BridgeState
<1>7. OneClient'
  <2>1. s # NoSocket
    BY DEF Socket, NoSocket
  <2>2. closing' = closing \cup ({ws} \ {NoSocket})
    BY DEF Handshake, handleHandshake
  <2>3. ASSUME NEW r \in Shaken' PROVE r = s \/ r \in closing'
    <3>1. CASE r \in Shaken /\ r = ws
      <4>1. r # NoSocket
        BY <3>1 DEF Shaken, Socket, NoSocket
      <4> QED BY <3>1, <4>1, <2>2
    <3>2. CASE r \in Shaken /\ r # ws
      BY <3>2, <2>2 DEF IInv, OneClient
    <3> QED BY <3>1, <3>2, <1>3
  <2> QED BY <1>1, <2>1, <2>3 DEF OneClient
<1>8. Up'
  BY <1>1, <1>3 DEF IInv, Up
<1> QED BY <1>5, <1>6, <1>7, <1>8 DEF IInv, CallsOK

LEMMA ClosedInvariant ==
  ASSUME IInv, NEW s \in Socket, Closed(s)
  PROVE  IInv'
<1>1. /\ s \in Live
      /\ stage' = [stage EXCEPT ![s] = "gone"]
      /\ closing' = closing \ {s} /\ dead' = dead \ {s}
      /\ UNCHANGED <<listening, stopped, answer, requestIdCounter, running, restarts>>
  BY DEF Closed
<1>2. /\ stage \in [Socket -> {"unused", "unpaired", "paired", "shook", "gone"}]
      /\ ws \in Shaken \cup {NoSocket}
      /\ closing \in SUBSET Live /\ dead \in SUBSET Live
  BY DEF IInv, BridgeTypeOK
<1>3. /\ stage' \in [Socket -> {"unused", "unpaired", "paired", "shook", "gone"}]
      /\ Live' = Live \ {s} /\ Shaken' = Shaken \ {s}
  BY <1>1, <1>2 DEF Live, Shaken
<1>4. CASE IsStale(s)
  <2>1. UNCHANGED <<state, ws, silent, status, requestMap, pairingChallenges, timerVars>>
    BY <1>4 DEF Closed
  <2>2. silent' \in BOOLEAN /\ pairingChallenges' \in SUBSET Socket
    BY <2>1 DEF IInv, BridgeTypeOK
  <2>3. ws \in Shaken' \cup {NoSocket}
    BY <1>2, <1>3, <1>4 DEF IsStale
  <2> QED BY <1>1, <1>2, <1>3, <2>1, <2>2, <2>3, SocketInvariant DEF callVars
<1>5. CASE ~IsStale(s)
  <2>1. /\ ws = s /\ ws' = NoSocket /\ state' = "connecting" /\ silent' = FALSE
        /\ pairingChallenges' = {} /\ rejectPending(status) /\ scheduleReconnect
    BY <1>5 DEF Closed, IsStale, clientLost
  <2>2. CallsOK'
    BY <1>1, <2>1, CallsDropped
  <2>3. CallTypeOK'
    BY <1>1, <2>1, CallTypesDropped
  <2>4. reconnectTimer' \in BOOLEAN /\ strayTimers' \in Nat
    BY <2>1 DEF IInv, BridgeTypeOK, scheduleReconnect
  <2>5. BridgeTypeOK'
    <3>1. listening' \in BOOLEAN /\ stopped' \in BOOLEAN
      BY <1>1 DEF IInv, BridgeTypeOK
    <3> QED BY <1>1, <1>2, <1>3, <2>1, <2>3, <2>4, <3>1
            DEF CallTypeOK, BridgeTypeOK, BridgeState
  <2>6. OneClient'
    <3>1. \A r \in Shaken' : r \in closing'
      BY <1>1, <1>3, <2>1 DEF IInv, OneClient
    <3> QED BY <2>1, <3>1 DEF OneClient
  <2>7. Up'
    BY <1>1, <2>1 DEF IInv, Up
  <2> QED BY <2>2, <2>5, <2>6, <2>7 DEF IInv, CallsOK
<1> QED BY <1>4, <1>5

LEMMA DisconnectInvariant ==
  ASSUME IInv, Disconnect
  PROVE  IInv'
<1>1. CallsOK' /\ CallTypeOK'
  BY CallsDropped, CallTypesDropped DEF Disconnect
<1>2. Live' = Live /\ Shaken' = Shaken /\ Shaken \in SUBSET Live
  BY DEF Disconnect, Live, Shaken
<1>3. BridgeTypeOK'
  <2>1. /\ stage' \in [Socket -> {"unused", "unpaired", "paired", "shook", "gone"}]
        /\ strayTimers' \in Nat /\ dead' \in SUBSET Live'
    BY <1>2 DEF IInv, BridgeTypeOK, Disconnect
  <2>2. closing' \in SUBSET Live'
    BY <1>2 DEF IInv, BridgeTypeOK, Disconnect
  <2> QED BY <1>1, <2>1, <2>2 DEF CallTypeOK, BridgeTypeOK, BridgeState, Disconnect
<1>4. OneClient'
  BY <1>2 DEF IInv, OneClient, BridgeTypeOK, Disconnect
<1>5. Up'
  BY DEF Up, Disconnect
<1> QED BY <1>1, <1>3, <1>4, <1>5 DEF IInv, CallsOK

LEMMA RestartInvariant ==
  ASSUME IInv, Restart
  PROVE  IInv'
<1>1. /\ stage \in [Socket -> {"unused", "unpaired", "paired", "shook", "gone"}]
      /\ restarts \in Nat /\ CallTypeOK
  BY BridgeAssumption, CallTypes DEF IInv, BridgeTypeOK
<1>2. stage' \in [Socket -> {"unused", "unpaired", "paired", "shook", "gone"}]
      /\ Live' = {} /\ Shaken' = {}
  BY <1>1 DEF Restart, Live, Shaken
<1>3. /\ status' = [c \in Call |-> IF status[c] \in Unsettled THEN "dropped" ELSE status[c]]
      /\ \A c \in Call : status'[c] \notin Unsettled
      /\ \A c \in Call : status[c] # "idle" => status'[c] # "idle"
  BY DEF Restart, Unsettled
<1>4. CallTypeOK'
  <2>1. status' \in [Call -> {"idle", "answered"} \cup Unsettled \cup Failed]
    BY <1>1, <1>3 DEF CallTypeOK, Failed
  <2>2. restarts' \in 0..MaxRestarts
    BY <1>1, BridgeAssumption DEF Restart
  <2> QED BY <1>1, <2>1, <2>2 DEF CallTypeOK, Restart
<1>5. BridgeTypeOK'
  BY <1>2, <1>4 DEF CallTypeOK, BridgeTypeOK, BridgeState, Restart
<1>6. OneClient' /\ Up'
  BY <1>2 DEF OneClient, Up, Restart
<1>7. PendingOnClient' /\ Numbered'
  BY <1>3 DEF PendingOnClient, Numbered, Awaited, Restart, Unsettled
<1>8. Delivered'
  <2> SUFFICES ASSUME NEW m \in running
               PROVE  /\ status'[m.call] \notin {"idle", "waiting", "resumed"}
                      /\ OfAnotherLife(m)'
    BY DEF Delivered, Restart
  <2>1. m.call \in Call
    BY <1>1 DEF CallTypeOK, Message
  <2>2. restarts' > 0
    BY <1>1 DEF Restart
  <2> QED BY <2>1, <2>2, <1>3 DEF IInv, Delivered, OfAnotherLife, Unsettled
<1> QED BY <1>5, <1>6, <1>7, <1>8 DEF IInv

-----------------------------------------------------------------------------
(* The steps of calls.                                                     *)

LEMMA ServerKept ==
  ASSUME IInv, CallTypeOK', UNCHANGED <<socketVars, timerVars, serverVars>>
  PROVE  BridgeTypeOK' /\ OneClient' /\ Up'
<1>1. Live' = Live /\ Shaken' = Shaken
  BY DEF socketVars, Live, Shaken
<1>2. BridgeTypeOK'
  BY <1>1 DEF IInv, BridgeTypeOK, CallTypeOK, socketVars, timerVars, serverVars
<1>3. OneClient' /\ Up'
  BY <1>1 DEF IInv, OneClient, Up, socketVars, serverVars
<1> QED BY <1>2, <1>3

LEMMA SendTypes ==
  ASSUME IInv, NEW c \in Call, Send(c), ws \in Socket, UNCHANGED restarts
  PROVE  CallTypeOK'
<1> USE CallTypes DEF CallTypeOK
<1>1. status' \in [Call -> {"idle", "answered"} \cup Unsettled \cup Failed]
  BY DEF Send, Unsettled
<1>2. requestIdCounter' \in Nat
  BY DEF Send
<1>3. [call |-> c, id |-> requestIdCounter + 1, on |-> ws, age |-> 0] \in Entry
      /\ [call |-> c, id |-> requestIdCounter + 1] \in Message
  BY DEF Entry, Message
<1>4. requestMap' \in SUBSET Entry /\ running' \in SUBSET Message
  BY <1>3 DEF Send
<1> QED BY <1>1, <1>2, <1>4 DEF Send

\* A call that awaits no response goes on: it sends its request, or not.
LEMMA CallInvariant ==
  ASSUME IInv, NEW c \in Call, StartCall(c) \/ Resume(c) \/ WaitExpires(c)
  PROVE  IInv'
<1>1. UNCHANGED <<socketVars, timerVars, serverVars, restarts>>
  BY DEF StartCall, Resume, WaitExpires
<1>2. CASE Send(c) /\ state = "connected" /\ status[c] \in {"idle", "resumed"}
  <2>1. ws \in Socket /\ UNCHANGED ws
    BY <1>1, <1>2 DEF IInv, OneClient, BridgeTypeOK, Shaken, serverVars
  <2>2. CallsOK'
    BY <1>1, <1>2, <2>1, CallSent
  <2>3. CallTypeOK'
    BY <1>1, <1>2, <2>1, SendTypes
  <2> QED BY <1>1, <2>2, <2>3, ServerKept DEF IInv, CallsOK
<1>3. CASE /\ \/ status[c] = "idle" /\ status' = [status EXCEPT ![c] = "waiting"]
              \/ status[c] \in {"waiting", "resumed"}
                 /\ status' = [status EXCEPT ![c] = "refused"]
           /\ UNCHANGED <<answer, requestMap, requestIdCounter, running>>
  <2>1. CallTypeOK'
    BY <1>1, <1>3, CallTypes DEF CallTypeOK, Unsettled, Failed
  <2>2. status \in [Call -> {"idle", "answered"} \cup Unsettled \cup Failed]
    BY CallTypes DEF CallTypeOK
  <2>3. {b \in Call : status'[b] = "pending"} = {b \in Call : status[b] = "pending"}
    BY <1>3, <2>2
  <2>4. PendingOnClient' /\ Numbered'
    BY <1>1, <1>3, <2>3 DEF IInv, PendingOnClient, Numbered, Awaited, serverVars
  <2>5. Delivered'
    <3> SUFFICES ASSUME NEW m \in running
                 PROVE  /\ status'[m.call] \notin {"idle", "waiting", "resumed"}
                        /\ OfThisLife(m)' \/ OfAnotherLife(m)'
      BY <1>3 DEF Delivered
    <3>1. m.call \in Call /\ m.call # c
      BY <1>3 DEF IInv, Delivered, BridgeTypeOK, Message
    <3>2. status'[m.call] = status[m.call]
      BY <1>3, <2>2, <3>1
    <3> QED BY <1>1, <1>3, <3>2 DEF IInv, Delivered, OfThisLife, OfAnotherLife
  <2> QED BY <1>1, <2>1, <2>4, <2>5, ServerKept DEF IInv
<1> QED BY <1>2, <1>3 DEF IInv, OneClient, StartCall, Resume, WaitExpires

LEMMA SettledInvariant ==
  ASSUME IInv, NEW C \in SUBSET Awaited, NEW how \in Failed \cup {"answered"},
         Settle(C, how), running' \in SUBSET running,
         answer' \in [Call -> Call \cup {NoCall}],
         UNCHANGED <<socketVars, timerVars, serverVars, requestIdCounter, restarts>>
  PROVE  IInv'
<1>1. CallsOK'
  BY CallsSettled DEF serverVars
<1>2. CallTypeOK'
  <2>1. status' \in [Call -> {"idle", "answered"} \cup Unsettled \cup Failed]
    BY CallTypes DEF CallTypeOK, Settle
  <2> QED BY <2>1, CallTypes DEF CallTypeOK, Settle, Others
<1> QED BY <1>1, <1>2, ServerKept DEF IInv, CallsOK

LEMMA AgeInvariant ==
  ASSUME IInv, NEW e \in requestMap, Age(e)
  PROVE  IInv'
<1>1. /\ UNCHANGED <<socketVars, timerVars, serverVars, status, answer,
                     requestIdCounter, running, restarts>>
      /\ requestMap' = (requestMap \ {e}) \cup {Later(e)}
  BY DEF Age
<1>2. e \in Entry
  BY DEF IInv, BridgeTypeOK
<1>3. /\ Later(e) \in Entry
      /\ Later(e).call = e.call /\ Later(e).id = e.id /\ Later(e).on = e.on
  BY <1>2 DEF Later, Entry
<1>4. CallTypeOK'
  BY <1>1, <1>3, CallTypes DEF CallTypeOK
<1>5. PendingOnClient'
  <2>1. Awaited' = Awaited
    BY <1>1, <1>3 DEF Awaited
  <2> QED BY <1>1, <1>3, <2>1 DEF IInv, PendingOnClient, serverVars
<1>6. Numbered'
  BY <1>1, <1>3 DEF IInv, Numbered
<1>7. Delivered'
  BY <1>1, <1>3 DEF IInv, Delivered, OfThisLife, OfAnotherLife
<1> QED BY <1>1, <1>4, <1>5, <1>6, <1>7, ServerKept DEF IInv

LEMMA ResponseInvariant ==
  ASSUME IInv, NEW m \in running, handleResponse(m)
  PROVE  IInv'
<1>1. {e.call : e \in Matches(m)} \in SUBSET Awaited
  BY DEF Matches, Awaited
<1>2. answer' \in [Call -> Call \cup {NoCall}]
  <2>1. m.call \in Call
    BY DEF IInv, BridgeTypeOK, Message
  <2> QED BY <2>1, CallTypes DEF CallTypeOK, handleResponse
<1> QED BY <1>1, <1>2, SettledInvariant DEF handleResponse

LEMMA TimeoutInvariant ==
  ASSUME IInv, (\E e \in requestMap : CallTimesOut(e)) \/ StaleSweep
  PROVE  IInv'
<1>1. answer \in [Call -> Call \cup {NoCall}]
  BY CallTypes DEF CallTypeOK
<1>2. ASSUME NEW e \in requestMap, CallTimesOut(e) PROVE IInv'
  <2>1. {e.call} \in SUBSET Awaited
    BY DEF Awaited
  <2> QED BY <1>1, <1>2, <2>1, SettledInvariant DEF CallTimesOut, Failed
<1>3. CASE StaleSweep
  <2>1. {e.call : e \in Overdue} \in SUBSET Awaited
    BY DEF Awaited, Overdue
  <2> QED BY <1>1, <1>3, <2>1, SettledInvariant DEF StaleSweep, Failed
<1> QED BY <1>2, <1>3

-----------------------------------------------------------------------------
(* The invariant, and what follows from it.                                *)

LEMMA NextInvariant == IInv /\ [Next]_bridgeVars => IInv'
<1> SUFFICES ASSUME IInv, [Next]_bridgeVars PROVE IInv'
  OBVIOUS
<1>1. CASE UNCHANGED bridgeVars
  <2>1. CallsOK' /\ CallTypeOK'
    BY <1>1, CallsKept, CallTypesKept DEF bridgeVars, serverVars
  <2> QED BY <1>1, <2>1, ServerKept DEF bridgeVars, IInv, CallsOK
<1>2. ASSUME NEW opened \in BOOLEAN, Connect(opened) \/ Reconnect(opened) PROVE IInv'
  BY <1>2, ConnectInvariant, ReconnectInvariant
<1>3. CASE Disconnect
  BY <1>3, DisconnectInvariant
<1>4. CASE CallNext
  BY <1>4, CallInvariant, AgeInvariant, TimeoutInvariant, ResponseInvariant DEF CallNext
<1>5. CASE ClientNext
  BY <1>5, AcceptInvariant, QuietInvariant, HandshakeInvariant, ClosedInvariant
     DEF ClientNext
<1>6. CASE Restart
  BY <1>6, RestartInvariant
<1> QED BY <1>1, <1>2, <1>3, <1>4, <1>5, <1>6 DEF Next

\* The inductive invariant holds of every behaviour of the bridge.
THEOREM BridgeInvariant == BridgeSpec => []IInv
  BY InitInvariant, NextInvariant, PTL DEF BridgeSpec

\* The types of the bridge's state: what closes, what vanished and what calls
\* are sent to are connections that are open, whatever order their handshakes
\* and close events come in.
THEOREM BridgeTypes == BridgeSpec => []BridgeTypeOK
<1>1. IInv => BridgeTypeOK
  BY DEF IInv
<1> QED BY <1>1, BridgeInvariant, PTL

\* A client that has shaken hands is the current one or is being closed.
THEOREM ClientIsUnique == BridgeSpec => []OneClient
<1>1. IInv => OneClient
  BY DEF IInv
<1> QED BY <1>1, BridgeInvariant, PTL

\* The calls that await a response are requests of the current client.
THEOREM PendingIsOnClient == BridgeSpec => []PendingOnClient
<1>1. IInv => PendingOnClient
  BY DEF IInv
<1> QED BY <1>1, BridgeInvariant, PTL

\* The server listens while the manager waits for a client or has one.
THEOREM ListensWhileUp == BridgeSpec => []ListensUntilStopped
<1>1. IInv => ListensUntilStopped
  BY DEF IInv, Up, ListensUntilStopped
<1> QED BY <1>1, BridgeInvariant, PTL

-----------------------------------------------------------------------------
(* Whose answer a call gets.                                               *)

InOneLife == restarts = 0 => OwnAnswer

\* No step but a response makes a call answered.
NotAnswering ==
  /\ answer' = answer
  /\ \A c \in Call : status'[c] = "answered" => status[c] = "answered"

LEMMA OthersDoNotAnswer ==
  ASSUME IInv, [Next]_bridgeVars, ~\E m \in running : handleResponse(m), restarts' = 0
  PROVE  NotAnswering /\ restarts = 0
<1>1. status \in [Call -> {"idle", "answered"} \cup Unsettled \cup Failed] /\ restarts \in Nat
  BY BridgeAssumption DEF IInv, BridgeTypeOK
<1>2. CASE UNCHANGED <<status, answer, restarts>>
  BY <1>2 DEF NotAnswering
<1>3. ASSUME NEW left, left \in {status, Awoken}, rejectPending(left), answer' = answer,
             restarts' = restarts
      PROVE  NotAnswering /\ restarts = 0
  BY <1>1, <1>3 DEF rejectPending, Awoken, NotAnswering
<1>4. ASSUME NEW s \in Socket, Handshake(s) PROVE NotAnswering /\ restarts = 0
  <2>1. CASE ws = NoSocket
    BY <1>1, <1>4, <2>1 DEF Handshake, handleHandshake, Awoken, NotAnswering
  <2>2. CASE ws # NoSocket
    BY <1>3, <1>4, <2>2 DEF Handshake, handleHandshake
  <2> QED BY <2>1, <2>2
<1>5. ASSUME NEW s \in Socket, Closed(s) PROVE NotAnswering /\ restarts = 0
  BY <1>2, <1>3, <1>5 DEF Closed
<1>6. CASE Disconnect
  BY <1>3, <1>6 DEF Disconnect
<1>7. ASSUME NEW c \in Call, StartCall(c) \/ Resume(c) \/ WaitExpires(c)
      PROVE  NotAnswering /\ restarts = 0
  BY <1>1, <1>7 DEF StartCall, Resume, WaitExpires, Send, NotAnswering
<1>8. ASSUME NEW e \in requestMap, Age(e) PROVE NotAnswering /\ restarts = 0
  BY <1>8 DEF Age, NotAnswering
<1>9. ASSUME NEW C, NEW how \in Failed, Settle(C, how), answer' = answer, restarts' = restarts
      PROVE  NotAnswering /\ restarts = 0
  BY <1>9 DEF Settle, Failed, NotAnswering
<1>10. ASSUME NEW e \in requestMap, CallTimesOut(e) PROVE NotAnswering /\ restarts = 0
  BY <1>9, <1>10 DEF CallTimesOut, Failed
<1>11. CASE StaleSweep
  BY <1>9, <1>11 DEF StaleSweep, Failed
<1>12. CASE Restart
  BY <1>1, <1>12 DEF Restart
<1>13. ASSUME NEW s \in Socket,
              \/ Accept(s) \/ Pair(s) \/ PairingTimeout(s) \/ Refuse(s)
              \/ Heartbeat(s) \/ Vanish(s)
       PROVE  NotAnswering /\ restarts = 0
  BY <1>2, <1>13 DEF Accept, Pair, PairingTimeout, Refuse, Heartbeat, Vanish, callVars
<1>14. CASE Silence \/ HeartbeatTick
  BY <1>2, <1>14 DEF Silence, HeartbeatTick, callVars
<1>15. ASSUME NEW opened \in BOOLEAN, Connect(opened) \/ Reconnect(opened)
       PROVE  NotAnswering /\ restarts = 0
  BY <1>2, <1>15 DEF Connect, Reconnect, callVars
<1>16. CASE UNCHANGED bridgeVars
  BY <1>2, <1>16 DEF bridgeVars, callVars
<1> QED
  BY <1>4, <1>5, <1>6, <1>7, <1>8, <1>10, <1>11, <1>12, <1>13, <1>14, <1>15, <1>16
     DEF Next, CallNext, ClientNext

LEMMA AnswerInvariant == IInv /\ InOneLife /\ [Next]_bridgeVars => InOneLife'
<1> SUFFICES ASSUME IInv, InOneLife, [Next]_bridgeVars, restarts' = 0 PROVE OwnAnswer'
  BY DEF InOneLife
<1>1. ASSUME NEW m \in running, handleResponse(m) PROVE OwnAnswer'
  <2>1. \A e \in Matches(m) : e.call = m.call
    BY <1>1 DEF Matches, IInv, Delivered, OfThisLife, OfAnotherLife, handleResponse
  <2>2. OwnAnswer
    BY <1>1 DEF InOneLife, handleResponse
  <2>3. answer \in [Call -> Call \cup {NoCall}] /\ m.call \in Call
    BY DEF IInv, BridgeTypeOK, Message
  <2>4. ASSUME NEW c \in Call, status'[c] = "answered" PROVE answer'[c] = c
    <3>1. CASE \E e \in Matches(m) : e.call = c
      BY <1>1, <2>1, <3>1 DEF handleResponse
    <3>2. CASE ~\E e \in Matches(m) : e.call = c
      <4>1. status[c] = "answered"
        BY <1>1, <2>4, <3>2 DEF handleResponse, Settle
      <4> QED BY <1>1, <2>2, <3>2, <4>1 DEF handleResponse, OwnAnswer
    <3> QED BY <3>1, <3>2
  <2> QED BY <2>4 DEF OwnAnswer
<1>2. CASE ~\E m \in running : handleResponse(m)
  BY <1>2, OthersDoNotAnswer DEF InOneLife, NotAnswering, OwnAnswer
<1> QED BY <1>1, <1>2

\* As long as the server process is not started again, a call that is answered
\* got the answer to its own request.
THEOREM AnswersInOneLife == BridgeSpec => [](restarts = 0 => OwnAnswer)
<1>1. Init => InOneLife
  BY DEF Init, InOneLife, OwnAnswer
<1> QED BY <1>1, AnswerInvariant, BridgeInvariant, PTL DEF BridgeSpec, InOneLife
=============================================================================
