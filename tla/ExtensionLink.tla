---------------------------- MODULE ExtensionLink ----------------------------
(***************************************************************************)
(* The connection of the editor's extension to the bridge: the scan of the *)
(* ports, the reconnect and heartbeat timers, and the commands of the user *)
(* (easyeda-bridge-extension/src/index.ts, connection-policy.ts).          *)
(*                                                                         *)
(* Every call of connectInternal that scans is a run.  A run has one port  *)
(* in hand at a time; when that attempt fails, the loop goes on in the     *)
(* same step.  Runs that are over are used again for new ones.             *)
(***************************************************************************)
EXTENDS Naturals, SequencesExt

CONSTANTS
  Port,         (* The ports of the range, in a sequence.                *)
  Run,          (* Runs of the scan.                                     *)
  NoRun,        (* No run, and no socket.                                *)
  NoPort        (* No port.                                              *)

Ports == {Port[i] : i \in DOMAIN Port}

ASSUME LinkAssumption ==
  /\ Port \in Seq(Ports) /\ Len(Port) > 0
  /\ \A i, j \in DOMAIN Port : Port[i] = Port[j] => i = j
  /\ NoPort \notin Ports /\ NoRun \notin Run

VARIABLES
  connectionState,           (* disconnected, connecting, connected.               *)
  connectedPort,             (* The port of the connection; its heartbeat runs.    *)
  preferredPort,             (* The port that worked last.                         *)
  socketHandle,              (* The run whose socket the extension sends on.       *)
  connectRunId,              (* The run that is in charge.                         *)
  manualDisconnectRequested, (* No reconnects are wanted.                          *)
  reconnectTimer,            (* It is set.                                         *)
  autoConnectEnabled,        (* The setting, as it is remembered                   *)
  saved,                     (* and as it is stored.                               *)
  settings,                  (* The settings being stored.                         *)
  activationStarted,         (* The extension is active.                           *)
  run,                       (* The ports a run has left, and its socket.          *)
  interrupted,               (* A socket closed before its hello in this scan.     *)
  paused                     (* The user disconnected and asked for nothing since. *)

userVars == <<autoConnectEnabled, saved, settings, activationStarted>>
scanVars == <<connectionState, socketHandle, reconnectTimer, run>>
linkVars == <<scanVars, connectedPort, preferredPort, connectRunId, manualDisconnectRequested,
              userVars, interrupted, paused>>

Kind  == {"register", "raw"}

\* dead: open here, and nobody at the other end any more.
SocketState == {"opening", "open", "dead", "closed"}

Idle == [left |-> <<>>, socket |-> "closed", kind |-> "raw"]

LinkTypeOK ==
  /\ connectionState \in {"disconnected", "connecting", "connected"}
  /\ connectedPort \in Ports \cup {NoPort}
  /\ connectionState = "connected" <=> connectedPort # NoPort
  /\ preferredPort \in Ports
  /\ socketHandle \in Run \cup {NoRun}
  /\ connectRunId \in Run \cup {NoRun}
  /\ {manualDisconnectRequested, reconnectTimer, autoConnectEnabled, saved,
      activationStarted, interrupted, paused} \subseteq BOOLEAN
  /\ settings \subseteq BOOLEAN
  /\ \A r \in Run : /\ run[r].left \in UNION {[1..n -> Ports] : n \in 0..Len(Port)}
                    /\ run[r].socket \in SocketState
                    /\ run[r].kind \in Kind

LinkInit ==
  /\ connectionState = "disconnected"
  /\ connectedPort = NoPort
  /\ preferredPort = Port[1]
  /\ socketHandle = NoRun
  /\ connectRunId = NoRun
  /\ manualDisconnectRequested = FALSE
  /\ reconnectTimer = FALSE
  /\ autoConnectEnabled = TRUE
  /\ saved \in BOOLEAN
  /\ settings = {}
  /\ activationStarted = FALSE
  /\ run = [r \in Run |-> Idle]
  /\ interrupted = FALSE
  /\ paused = FALSE

Scanning(r) == run[r].left # <<>>
InCharge(r) == r = connectRunId
Connected   == connectionState = "connected"

\* activeConnectPromise: the scan in charge is not over.
ActiveConnect == connectRunId # NoRun /\ Scanning(connectRunId)

\* A handle that is closed.
Closed(h) == [r \in Run |-> IF r = h THEN [run[r] EXCEPT !.socket = "closed"] ELSE run[r]]

-----------------------------------------------------------------------------
(***************************************************************************)
(* The scan.                                                               *)
(***************************************************************************)

\* getLocalBridgeConnectionAttempts: the port that worked first, each port once.
AttemptOrder ==
  LET preferred == CHOOSE i \in DOMAIN Port : Port[i] = preferredPort
  IN <<preferredPort>> \o RemoveAt(Port, preferred)

Attempt(ports, kind) == [left |-> ports, socket |-> "opening", kind |-> kind]

\* After an attempt of r has failed, in a handler that left connectionState as
\* state: the next port, or the end of the scan.
NextAttempt(r, state) ==
  /\ InCharge(r) /\ ~manualDisconnectRequested
  /\ Len(run[r].left) > 1
  /\ \E kind \in Kind : run' = [run EXCEPT ![r] = Attempt(Tail(@.left), kind)]
  /\ connectionState' = state
  /\ socketHandle' = IF socketHandle = r THEN NoRun ELSE socketHandle
  /\ UNCHANGED reconnectTimer

EndScan(r, state) ==
  /\ Len(run[r].left) = 1 \/ ~InCharge(r) \/ manualDisconnectRequested
  /\ run' = [run EXCEPT ![r] = Idle]
  /\ IF InCharge(r) /\ state = "connecting"
     THEN /\ connectionState' = "disconnected"
          /\ socketHandle' = NoRun
          /\ reconnectTimer' = (reconnectTimer \/ ~manualDisconnectRequested)
     ELSE /\ connectionState' = state
          /\ socketHandle' = IF socketHandle = r THEN NoRun ELSE socketHandle
          /\ UNCHANGED reconnectTimer

AttemptFails(r, state) == NextAttempt(r, state) \/ EndScan(r, state)

\* connectInternal does nothing when it is connected, or scanning already.
MayConnect == ~Connected /\ ~(connectionState = "connecting" /\ ActiveConnect)

\* connectInternal, from the flags on.  before is run with what was closed first.
StartRun(before) ==
  \E r \in Run \ {connectRunId, socketHandle} :
    /\ run[r] = Idle
    /\ connectRunId' = r
    /\ manualDisconnectRequested' = FALSE
    /\ interrupted' = FALSE
    /\ \/ \E kind \in Kind : run' = [before EXCEPT ![r] = Attempt(AttemptOrder, kind)]
          /\ connectionState' = "connecting"
          /\ reconnectTimer' = FALSE
       \/ run' = before  \* there is no socket API
          /\ connectionState' = "disconnected"
          /\ reconnectTimer' = TRUE

Connect ==
  IF MayConnect
  THEN /\ StartRun(run)
       /\ socketHandle' = IF reconnectTimer' THEN NoRun ELSE socketHandle
  ELSE UNCHANGED <<scanVars, connectRunId, manualDisconnectRequested, interrupted>>

-----------------------------------------------------------------------------
(***************************************************************************)
(* Events of the sockets.  Those of a run that is not in charge are        *)
(* ignored, but one that opens is closed.                                  *)
(***************************************************************************)

\* register accepted the port and does not call back.
RegisterFallback(r) ==
  /\ Scanning(r) /\ InCharge(r)
  /\ run[r].socket = "opening" /\ run[r].kind = "register"
  /\ \/ /\ run' = [run EXCEPT ![r].kind = "raw"]
        /\ socketHandle' = IF socketHandle = r THEN NoRun ELSE socketHandle
        /\ UNCHANGED <<connectionState, reconnectTimer>>
     \/ AttemptFails(r, connectionState)
  /\ UNCHANGED <<connectedPort, preferredPort, connectRunId, manualDisconnectRequested, userVars,
                 interrupted, paused>>

\* The handshake is sent; if that throws, the attempt is left to its timeout.
SocketOpens(r) ==
  /\ Scanning(r) /\ run[r].socket = "opening"
  /\ \E sent \in BOOLEAN :
       IF InCharge(r) /\ sent
       THEN /\ run' = [run EXCEPT ![r].socket = "open"]
            /\ socketHandle' = r
       ELSE /\ run' = Closed(r)
            /\ socketHandle' = IF InCharge(r) THEN NoRun ELSE socketHandle
  /\ UNCHANGED <<connectionState, reconnectTimer, connectedPort, preferredPort, connectRunId,
                 manualDisconnectRequested, userVars, interrupted, paused>>

Hello(r) ==
  /\ Scanning(r) /\ InCharge(r) /\ run[r].socket = "open"
  /\ socketHandle' = r
  /\ connectedPort' = Head(run[r].left)
  /\ preferredPort' = Head(run[r].left)
  /\ connectionState' = "connected"
  /\ manualDisconnectRequested' = FALSE
  /\ interrupted' = FALSE
  /\ run' = [run EXCEPT ![r].left = <<>>]
  /\ UNCHANGED <<reconnectTimer, connectRunId, userVars, paused>>

\* The other end goes without a word.
PeerVanishes(r) ==
  /\ run[r].socket = "open"
  /\ run' = [run EXCEPT ![r].socket = "dead"]
  /\ UNCHANGED <<connectionState, socketHandle, reconnectTimer, connectedPort, preferredPort,
                 connectRunId, manualDisconnectRequested, userVars, interrupted, paused>>

\* The close event, which the sockets of register do not have.
SocketCloses(r) ==
  /\ run[r].kind = "raw" /\ run[r].socket # "closed"
  /\ LET mine  == socketHandle = r
         state == IF mine THEN "disconnected" ELSE connectionState
     IN /\ connectedPort' = IF InCharge(r) /\ mine THEN NoPort ELSE connectedPort
        /\ IF ~InCharge(r)
           THEN /\ run' = Closed(r)
                /\ UNCHANGED <<connectionState, socketHandle, reconnectTimer, interrupted>>
           ELSE IF Scanning(r)
           THEN /\ AttemptFails(r, state)
                /\ interrupted' = (interrupted \/ mine)
           ELSE /\ run' = Closed(r)
                /\ connectionState' = state
                /\ socketHandle' = IF mine THEN NoRun ELSE socketHandle
                /\ reconnectTimer' = (reconnectTimer \/ (mine /\ Connected /\ ~manualDisconnectRequested))
                /\ UNCHANGED interrupted
  /\ UNCHANGED <<preferredPort, connectRunId, manualDisconnectRequested, userVars, paused>>

\* The error event closes the socket; of one that was connected, the state stays.
SocketErrs(r) ==
  /\ run[r].kind = "raw" /\ run[r].socket # "closed"
  /\ InCharge(r)
  /\ IF Scanning(r)
     THEN AttemptFails(r, connectionState)
     ELSE /\ run' = Closed(r)
          /\ socketHandle' = IF socketHandle = r THEN NoRun ELSE socketHandle
          /\ UNCHANGED <<connectionState, reconnectTimer>>
  /\ UNCHANGED <<connectedPort, preferredPort, connectRunId, manualDisconnectRequested, userVars,
                 interrupted, paused>>

AttemptTimesOut_InCharge(r) ==
  /\ Scanning(r) /\ InCharge(r)
  /\ AttemptFails(r, connectionState)
  /\ UNCHANGED <<connectedPort, preferredPort, connectRunId, manualDisconnectRequested, userVars,
                 interrupted, paused>>

AttemptTimesOut(r) ==
  /\ Scanning(r)
  /\ AttemptFails(r, connectionState)
  /\ UNCHANGED <<connectedPort, preferredPort, connectRunId, manualDisconnectRequested, userVars,
                 interrupted, paused>>

Recover_KeepPort ==
  /\ Connected
  /\ run' = Closed(socketHandle)
  /\ socketHandle' = NoRun
  /\ connectionState' = "disconnected"
  /\ reconnectTimer' = (reconnectTimer \/ (autoConnectEnabled /\ ~manualDisconnectRequested))
  /\ UNCHANGED <<connectedPort, preferredPort, connectRunId, manualDisconnectRequested, userVars, interrupted, paused>>

Recover_GiveUp ==
  /\ Connected
  /\ run' = Closed(socketHandle)
  /\ socketHandle' = NoRun
  /\ connectedPort' = NoPort
  /\ connectionState' = "disconnected"
  /\ UNCHANGED <<reconnectTimer, preferredPort, connectRunId, manualDisconnectRequested, userVars, interrupted, paused>>

Recover_IfSocket ==
  /\ socketHandle # NoRun
  /\ Connected
  /\ run' = Closed(socketHandle)
  /\ socketHandle' = NoRun
  /\ connectedPort' = NoPort
  /\ connectionState' = "disconnected"
  /\ reconnectTimer' = (reconnectTimer \/ (autoConnectEnabled /\ ~manualDisconnectRequested))
  /\ UNCHANGED <<preferredPort, connectRunId, manualDisconnectRequested, userVars, interrupted, paused>>

\* recoverConnection, when the server was silent for too long or send threw.
Recover ==
  /\ Connected
  /\ run' = Closed(socketHandle)
  /\ socketHandle' = NoRun
  /\ connectedPort' = NoPort
  /\ connectionState' = "disconnected"
  /\ reconnectTimer' = (reconnectTimer \/ (autoConnectEnabled /\ ~manualDisconnectRequested))
  /\ UNCHANGED <<preferredPort, connectRunId, manualDisconnectRequested, userVars, interrupted, paused>>

ReconnectFires ==
  /\ reconnectTimer
  /\ IF connectionState = "disconnected"
     THEN Connect
     ELSE /\ reconnectTimer' = FALSE
          /\ UNCHANGED <<connectionState, socketHandle, run, connectRunId, manualDisconnectRequested, interrupted>>
  /\ UNCHANGED <<connectedPort, preferredPort, userVars, paused>>

-----------------------------------------------------------------------------
(***************************************************************************)
(* The user, and the editor that activates the extension.                  *)
(***************************************************************************)

\* The Connect button: it cancels a scan and starts another.
ManualConnect ==
  /\ IF connectionState = "connecting" /\ ActiveConnect
     THEN StartRun(Closed(socketHandle)) /\ socketHandle' = NoRun
     ELSE Connect
  /\ paused' = FALSE
  /\ UNCHANGED <<connectedPort, preferredPort, userVars>>

disconnectInternal_KeepSocket ==
  /\ manualDisconnectRequested' = TRUE
  /\ connectRunId' = NoRun
  /\ reconnectTimer' = FALSE
  /\ socketHandle' = NoRun
  /\ connectedPort' = NoPort
  /\ connectionState' = "disconnected"
  /\ interrupted' = FALSE
  /\ paused' = TRUE
  /\ UNCHANGED <<run, preferredPort>>

disconnectInternal_KeepRun ==
  /\ manualDisconnectRequested' = TRUE
  /\ reconnectTimer' = FALSE
  /\ run' = Closed(socketHandle)
  /\ socketHandle' = NoRun
  /\ connectedPort' = NoPort
  /\ connectionState' = "disconnected"
  /\ interrupted' = FALSE
  /\ paused' = TRUE
  /\ UNCHANGED <<connectRunId, preferredPort>>

disconnectInternal ==
  /\ manualDisconnectRequested' = TRUE
  /\ connectRunId' = NoRun
  /\ reconnectTimer' = FALSE
  /\ run' = Closed(socketHandle)
  /\ socketHandle' = NoRun
  /\ connectedPort' = NoPort
  /\ connectionState' = "disconnected"
  /\ interrupted' = FALSE
  /\ paused' = TRUE
  /\ UNCHANGED preferredPort

ManualDisconnect ==
  /\ disconnectInternal
  /\ UNCHANGED userVars

Deactivate ==
  /\ activationStarted
  /\ activationStarted' = FALSE
  /\ disconnectInternal
  /\ UNCHANGED <<autoConnectEnabled, saved, settings>>

Activate ==
  /\ activationStarted' = TRUE
  /\ autoConnectEnabled' = saved
  /\ IF saved /\ (activationStarted => connectionState = "disconnected" /\ ~ActiveConnect)
     THEN Connect /\ paused' = FALSE
     ELSE UNCHANGED <<scanVars, connectRunId, manualDisconnectRequested, interrupted, paused>>
  /\ UNCHANGED <<connectedPort, preferredPort, saved, settings>>

\* showStatus also arms the reconnect timer.
ShowStatus ==
  /\ autoConnectEnabled' = saved
  /\ reconnectTimer' = (reconnectTimer \/ (/\ connectionState = "disconnected"
                                           /\ saved /\ ~manualDisconnectRequested))
  /\ UNCHANGED <<connectionState, socketHandle, run, connectedPort, preferredPort, connectRunId,
                 manualDisconnectRequested, saved, settings, activationStarted, interrupted, paused>>

\* setAutoConnectInternal awaits the store, and then acts on what it was called with.
SetAutoConnect(enabled) ==
  /\ enabled \notin settings
  /\ autoConnectEnabled' = enabled
  /\ settings' = settings \cup {enabled}
  /\ UNCHANGED <<scanVars, connectedPort, preferredPort, connectRunId, manualDisconnectRequested,
                 saved, activationStarted, interrupted, paused>>

AutoConnectStored(enabled) ==
  /\ enabled \in settings
  /\ settings' = settings \ {enabled}
  /\ saved' \in {saved, enabled}
  /\ IF enabled
     THEN /\ paused' = FALSE
          /\ IF connectionState = "disconnected"
             THEN Connect
             ELSE /\ manualDisconnectRequested' = FALSE
                  /\ UNCHANGED <<scanVars, connectRunId, interrupted>>
     ELSE /\ manualDisconnectRequested' = TRUE
          /\ reconnectTimer' = FALSE
          /\ UNCHANGED <<connectionState, socketHandle, run, connectRunId, interrupted, paused>>
  /\ UNCHANGED <<connectedPort, preferredPort, autoConnectEnabled, activationStarted>>

-----------------------------------------------------------------------------
SocketEvent(r) ==
  \/ RegisterFallback(r) \/ SocketOpens(r) \/ Hello(r) \/ PeerVanishes(r)
  \/ SocketCloses(r) \/ SocketErrs(r) \/ AttemptTimesOut(r)

UserStep ==
  \/ ManualConnect \/ ManualDisconnect \/ Activate \/ Deactivate \/ ShowStatus
  \/ \E enabled \in BOOLEAN : SetAutoConnect(enabled) \/ AutoConnectStored(enabled)

LinkNext ==
  \/ \E r \in Run : SocketEvent(r)
  \/ Recover
  \/ ReconnectFires
  \/ UserStep

LinkSpec == LinkInit /\ [][LinkNext]_linkVars

\* There is nobody to send to.
LinkIsDead ==
  Connected /\ \A r \in Run : socketHandle = r => run[r].socket = "dead"

(***************************************************************************)
(* The timer of every attempt fires, and that of the heartbeat while the   *)
(* server is silent.  Sockets, servers and users owe nothing.              *)
(***************************************************************************)
FairLinkSpec ==
  /\ LinkSpec
  /\ \A r \in Run : WF_linkVars(AttemptTimesOut(r))
  /\ WF_linkVars(LinkIsDead /\ Recover)

-----------------------------------------------------------------------------
(***************************************************************************)
(* No socket is forgotten: one that is open is the one the extension       *)
(* sends on, or has a timeout that closes it.                              *)
(***************************************************************************)
NoStraySocket ==
  \A r \in Run : run[r].socket \in {"open", "dead"} => socketHandle = r \/ Scanning(r)

(***************************************************************************)
(* After the user disconnected, nothing connects behind their back: no     *)
(* late open, hello or timer of what was under way does.  While no         *)
(* reconnects are wanted, no timer for one is set.                         *)
(***************************************************************************)
QuietWhenOff ==
  /\ manualDisconnectRequested => ~reconnectTimer
  /\ paused => connectionState = "disconnected" /\ socketHandle = NoRun /\ ~ActiveConnect

(***************************************************************************)
(* An extension that is to connect by itself is connected, scans, or will  *)
(* scan again: the one way to stop trying is a socket that closes before   *)
(* its hello, which leaves the rest of the scan in state disconnected.     *)
(***************************************************************************)
Wanted == activationStarted /\ autoConnectEnabled /\ ~manualDisconnectRequested /\ settings = {}
Trying == Connected \/ ActiveConnect \/ reconnectTimer

StopsOnlyIfInterrupted == Wanted => Trying \/ interrupted

(***************************************************************************)
(* The changelog: it keeps retrying until the server is available unless   *)
(* the user explicitly disconnects.                                        *)
(***************************************************************************)
KeepsTrying == Wanted => Trying

(***************************************************************************)
(* A scan comes to an end, though no socket ever says anything.            *)
(***************************************************************************)
ScansEnd == \A r \in Run : Scanning(r) ~> ~Scanning(r)

(***************************************************************************)
(* A connection whose other end is gone, with or without an event that     *)
(* says so, does not stay connected.                                       *)
(***************************************************************************)
DeadLinkIsNoticed == LinkIsDead ~> ~LinkIsDead
=============================================================================
