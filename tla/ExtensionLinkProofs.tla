-------------------------- MODULE ExtensionLinkProofs --------------------------
(***************************************************************************)
(* Theorems about ExtensionLink, for any number of ports and of runs.      *)
(***************************************************************************)
EXTENDS ExtensionLink, SequenceTheorems, TLAPS

PortLists == UNION {[1..n -> Ports] : n \in 0..Len(Port)}

RunRecord == [left : PortLists, socket : SocketState, kind : Kind]

RunsTyped ==
  \A q \in Run : run[q].left \in PortLists /\ run[q].socket \in SocketState /\ run[q].kind \in Kind

\* The handle is that of a scan that goes on, or of the connection.
HandleIsOwned ==
  socketHandle # NoRun => Scanning(socketHandle) \/ (InCharge(socketHandle) /\ Connected)

\* What the state says of the scan in charge.
StateIsOfScan ==
  /\ connectionState = "connecting" => ActiveConnect
  /\ Connected => ~ActiveConnect
  /\ ActiveConnect /\ connectionState = "disconnected" => interrupted

LinkInv ==
  /\ LinkTypeOK
  /\ run \in [Run -> RunRecord]
  /\ HandleIsOwned
  /\ StateIsOfScan
  /\ paused => manualDisconnectRequested
  /\ NoStraySocket
  /\ QuietWhenOff
  /\ StopsOnlyIfInterrupted
-----------------------------------------------------------------------------
LEMMA NoRunIsNone == NoRun \notin Run /\ NoPort \notin Ports
BY LinkAssumption

\* What is left of the ports when the first has been tried.
LEMMA TailOfList ==
  ASSUME NEW ports \in PortLists
  PROVE  /\ Len(ports) \in Nat
         /\ ports # <<>> => Head(ports) \in Ports /\ (Len(ports) = 1 \/ Len(ports) > 1)
         /\ Len(ports) > 1 => Tail(ports) \in PortLists /\ Tail(ports) # <<>> /\ ports # <<>>
<1>1. PICK n \in 0..Len(Port) : ports \in [1..n -> Ports]
  BY DEF PortLists
<1>2. Len(Port) \in Nat
  BY LinkAssumption
<1>3. n \in Nat /\ Len(ports) = n /\ ports \in Seq(Ports)
  BY <1>1, <1>2
<1>4. n > 1 => Tail(ports) \in [1..(n-1) -> Ports] /\ n - 1 \in 0..Len(Port) /\ Tail(ports) # <<>>
  <2> SUFFICES ASSUME n > 1
               PROVE  Tail(ports) \in [1..(n-1) -> Ports] /\ n - 1 \in 0..Len(Port) /\ Tail(ports) # <<>>
    OBVIOUS
  <2>1. Tail(ports) \in Seq(Ports) /\ Len(Tail(ports)) = n - 1
    BY <1>3, HeadTailProperties
  <2>2. Tail(ports) \in [1..(n-1) -> Ports]
    BY <2>1, LenProperties
  <2>3. Tail(ports) # <<>>
    BY <2>1, <1>3
  <2>4. n - 1 \in 0..Len(Port)
    BY <1>2, <1>3
  <2> QED BY <2>2, <2>3, <2>4
<1> QED BY <1>1, <1>3, <1>4 DEF PortLists

\* A scan tries every port once.
LEMMA OrderIsList ==
  ASSUME preferredPort \in Ports
  PROVE  AttemptOrder \in PortLists /\ AttemptOrder # <<>>
<1> DEFINE k == CHOOSE i \in DOMAIN Port : Port[i] = preferredPort
           n == Len(Port)
<1>1. n \in Nat /\ n > 0 /\ Port \in [1..n -> Ports] /\ DOMAIN Port = 1..n
  BY LinkAssumption
<1>2. k \in 1..n
  BY <1>1 DEF Ports
<1> DEFINE before == SubSeq(Port, 1, k - 1)
           after  == SubSeq(Port, k + 1, n)
<1>3. Port \in Seq(Ports) /\ \A i \in 1..n : Port[i] \in Ports
  BY LinkAssumption DEF Ports
<1> HIDE DEF k, n
<1>4. before \in Seq(Ports) /\ Len(before) = k - 1
  BY <1>1, <1>2, <1>3, SubSeqProperties
<1>5. after \in Seq(Ports) /\ Len(after) = n - k
  BY <1>1, <1>2, <1>3, SubSeqProperties
<1> HIDE DEF before, after
<1>6. before \o after \in Seq(Ports) /\ Len(before \o after) = n - 1
  <2>1. before \o after \in Seq(Ports) /\ Len(before \o after) = Len(before) + Len(after)
    BY <1>4, <1>5, ConcatProperties
  <2> QED BY <2>1, <1>1, <1>2, <1>4, <1>5
<1> DEFINE order == <<preferredPort>> \o (before \o after)
<1>7. order \in Seq(Ports) /\ Len(order) = n
  <2>1. <<preferredPort>> \in Seq(Ports) /\ Len(<<preferredPort>>) = 1
    OBVIOUS
  <2> QED BY <2>1, <1>1, <1>6, ConcatProperties
<1>8. AttemptOrder = order
  BY DEF AttemptOrder, RemoveAt, k, n, before, after
<1> HIDE DEF order
<1>9. order \in [1..n -> Ports] /\ order # <<>>
  BY <1>1, <1>7, LenProperties
<1> QED BY <1>1, <1>8, <1>9 DEF PortLists, n

\* What the fields of one run are after a step that changes it.
LEMMA RunFields ==
  ASSUME run \in [Run -> RunRecord], NEW r \in Run
  PROVE  /\ run[r].left \in PortLists /\ run[r].socket \in SocketState /\ run[r].kind \in Kind
         /\ Idle \in RunRecord /\ Idle.left = <<>> /\ Idle.socket = "closed"
         /\ \A ports \in PortLists, kind \in Kind :
              /\ Attempt(ports, kind) \in RunRecord
              /\ Attempt(ports, kind).left = ports /\ Attempt(ports, kind).socket = "opening"
<1>1. <<>> \in PortLists
  <2>1. Len(Port) \in Nat /\ <<>> \in [1..0 -> Ports]
    BY LinkAssumption
  <2> QED BY <2>1 DEF PortLists
<1> QED BY <1>1 DEF RunRecord, Idle, Attempt, SocketState, Kind

\* A handle that is closed loses its socket and nothing else.
LEMMA ClosedIs ==
  ASSUME run \in [Run -> RunRecord], NEW h
  PROVE  /\ Closed(h) \in [Run -> RunRecord]
         /\ \A q \in Run : Closed(h)[q].left = run[q].left
         /\ \A q \in Run : q # h => Closed(h)[q] = run[q]
         /\ h \in Run => Closed(h)[h].socket = "closed"
<1>1. \A q \in Run : Closed(h)[q] = IF q = h THEN [run[q] EXCEPT !.socket = "closed"] ELSE run[q]
  BY DEF Closed
<1>2. \A q \in Run : /\ [run[q] EXCEPT !.socket = "closed"] \in RunRecord
                     /\ [run[q] EXCEPT !.socket = "closed"].left = run[q].left
                     /\ [run[q] EXCEPT !.socket = "closed"].socket = "closed"
  BY DEF RunRecord, SocketState
<1> QED BY <1>1, <1>2 DEF Closed

\* What the failure of the attempt of r does to r, and to nobody else.
LEMMA AttemptFailsIs ==
  ASSUME LinkInv, NEW r \in Run, Scanning(r), NEW state, AttemptFails(r, state)
  PROVE  /\ run' \in [Run -> RunRecord]
         /\ \A q \in Run \ {r} : run'[q] = run[q]
         /\ run'[r].socket \in {"opening", "closed"}
         /\ \/ /\ InCharge(r) /\ Scanning(r)' /\ connectionState' = state
               /\ socketHandle' = IF socketHandle = r THEN NoRun ELSE socketHandle
               /\ reconnectTimer' = reconnectTimer
            \/ /\ ~Scanning(r)'
               /\ InCharge(r) /\ state = "connecting"
               /\ connectionState' = "disconnected" /\ socketHandle' = NoRun
               /\ reconnectTimer' = (reconnectTimer \/ ~manualDisconnectRequested)
            \/ /\ ~Scanning(r)'
               /\ ~(InCharge(r) /\ state = "connecting")
               /\ connectionState' = state
               /\ socketHandle' = IF socketHandle = r THEN NoRun ELSE socketHandle
               /\ reconnectTimer' = reconnectTimer
<1>1. run \in [Run -> RunRecord] /\ run[r].left \in PortLists
  BY RunFields DEF LinkInv
<1>2. CASE NextAttempt(r, state)
  <2>1. PICK kind \in Kind : run' = [run EXCEPT ![r] = Attempt(Tail(run[r].left), kind)]
    BY <1>2 DEF NextAttempt
  <2>2. Tail(run[r].left) \in PortLists /\ Tail(run[r].left) # <<>>
    BY <1>1, <1>2, TailOfList DEF NextAttempt
  <2> DEFINE ports == Tail(run[r].left)
  <2> HIDE DEF ports
  <2>3. \A p \in PortLists, k \in Kind :
          /\ Attempt(p, k) \in RunRecord
          /\ Attempt(p, k).left = p /\ Attempt(p, k).socket = "opening"
    BY <1>1, RunFields
  <2>4. /\ Attempt(ports, kind) \in RunRecord
        /\ Attempt(ports, kind).left # <<>> /\ Attempt(ports, kind).socket = "opening"
    BY <2>2, <2>3 DEF ports
  <2> QED BY <1>1, <1>2, <2>1, <2>4 DEF NextAttempt, Scanning, ports
<1>3. CASE EndScan(r, state)
  <2>1. run' = [run EXCEPT ![r] = Idle]
    BY <1>3 DEF EndScan
  <2>2. Idle \in RunRecord /\ Idle.left = <<>> /\ Idle.socket = "closed"
    BY <1>1, RunFields
  <2>3. run' \in [Run -> RunRecord] /\ run'[r] = Idle /\ \A q \in Run \ {r} : run'[q] = run[q]
    BY <1>1, <2>1, <2>2
  <2> QED BY <1>3, <2>2, <2>3 DEF EndScan, Scanning
<1> QED BY <1>2, <1>3 DEF AttemptFails

\* A hello ends the scan in charge and is the connection.
LEMMA HelloInv ==
  ASSUME LinkInv, NEW r \in Run, Hello(r)
  PROVE  LinkInv'
<1>1. run' \in [Run -> RunRecord] /\ run' = [run EXCEPT ![r].left = <<>>]
  BY RunFields DEF Hello, LinkInv, RunRecord, Idle
<1>2. /\ \A q \in Run \ {r} : run'[q] = run[q]
      /\ run'[r].left = <<>> /\ run'[r].socket = run[r].socket /\ run'[r].kind = run[r].kind
      /\ RunsTyped'
  BY <1>1 DEF LinkInv, RunRecord, RunsTyped
<1>3. Head(run[r].left) \in Ports
  BY TailOfList, RunFields DEF LinkInv, Hello, Scanning
<1>4. \A q \in Run \ {r} : socketHandle = q => Scanning(q)
  BY NoRunIsNone DEF LinkInv, HandleIsOwned, Hello, InCharge
<1>5. LinkTypeOK'
  BY <1>2, <1>3, NoRunIsNone DEF LinkInv, PortLists, LinkTypeOK, Hello, userVars, RunsTyped
<1>6. HandleIsOwned'
  BY DEF HandleIsOwned, InCharge, Connected, Hello
<1>7. StateIsOfScan'
  BY <1>2 DEF StateIsOfScan, Scanning, InCharge, ActiveConnect, Hello
<1>8. NoStraySocket'
  BY <1>4 DEF LinkInv, NoStraySocket, Scanning, Hello
<1>9. (paused => manualDisconnectRequested)' /\ QuietWhenOff'
  BY NoRunIsNone DEF LinkInv, QuietWhenOff, InCharge, ActiveConnect, Hello
<1>10. StopsOnlyIfInterrupted'
  BY DEF StopsOnlyIfInterrupted, Trying, Connected, Hello
<1> QED BY <1>1, <1>5, <1>6, <1>7, <1>8, <1>9, <1>10 DEF LinkInv

\* An attempt that fails, in a handler that has maybe ended the connection.
LEMMA FailInv ==
  ASSUME LinkInv, NEW r \in Run, Scanning(r),
         NEW state \in {connectionState, "disconnected"}, AttemptFails(r, state),
         state # connectionState => InCharge(r),
         interrupted' \in BOOLEAN, interrupted \/ state # connectionState => interrupted',
         UNCHANGED <<connectedPort, preferredPort, connectRunId, manualDisconnectRequested, userVars, paused>>
  PROVE  LinkInv'
<1>1. /\ run' \in [Run -> RunRecord]
      /\ RunsTyped'
  BY AttemptFailsIs, RunFields DEF LinkInv, RunRecord, RunsTyped
<1>2. /\ \A q \in Run \ {r} : run'[q] = run[q]
      /\ run'[r].socket \in {"opening", "closed"}
  BY AttemptFailsIs
<1>3. \/ /\ InCharge(r) /\ Scanning(r)' /\ connectionState' = state
         /\ socketHandle' = IF socketHandle = r THEN NoRun ELSE socketHandle
         /\ reconnectTimer' = reconnectTimer
      \/ /\ ~Scanning(r)'
         /\ InCharge(r) /\ state = "connecting"
         /\ connectionState' = "disconnected" /\ socketHandle' = NoRun
         /\ reconnectTimer' = (reconnectTimer \/ ~manualDisconnectRequested)
      \/ /\ ~Scanning(r)'
         /\ ~(InCharge(r) /\ state = "connecting")
         /\ connectionState' = state
         /\ socketHandle' = IF socketHandle = r THEN NoRun ELSE socketHandle
         /\ reconnectTimer' = reconnectTimer
  BY AttemptFailsIs
<1>4. LinkTypeOK'
  BY <1>1, <1>3, NoRunIsNone
     DEF LinkInv, PortLists, LinkTypeOK, StateIsOfScan, InCharge, Connected, ActiveConnect,
         userVars, RunsTyped
<1>5. HandleIsOwned'
  BY <1>2, <1>3 DEF LinkInv, LinkTypeOK, HandleIsOwned, Scanning, InCharge, Connected
<1>6. StateIsOfScan'
  BY <1>2, <1>3
     DEF LinkInv, LinkTypeOK, StateIsOfScan, Scanning, InCharge, Connected, ActiveConnect
<1>7. NoStraySocket'
  BY <1>2, <1>3 DEF LinkInv, HandleIsOwned, NoStraySocket, Scanning, Connected
<1>8. (paused => manualDisconnectRequested)' /\ QuietWhenOff'
  BY <1>2, <1>3 DEF LinkInv, LinkTypeOK, QuietWhenOff, Scanning, ActiveConnect
<1>9. StopsOnlyIfInterrupted'
  BY <1>2, <1>3
     DEF LinkInv, StopsOnlyIfInterrupted, Wanted, Trying, LinkTypeOK, StateIsOfScan, Scanning,
         InCharge, Connected, ActiveConnect, userVars
<1> QED BY <1>1, <1>4, <1>5, <1>6, <1>7, <1>8, <1>9 DEF LinkInv

\* A peer that vanishes leaves an open socket behind.
LEMMA PeerVanishesInv ==
  ASSUME LinkInv, NEW r \in Run, PeerVanishes(r)
  PROVE  LinkInv'
<1>1. run' = [run EXCEPT ![r].socket = "dead"] /\ run' \in [Run -> RunRecord]
  BY DEF PeerVanishes, LinkInv, RunRecord, SocketState
<1>2. /\ \A q \in Run : run'[q].left = run[q].left
      /\ \A q \in Run \ {r} : run'[q] = run[q]
      /\ run[r].socket = "open"
      /\ RunsTyped'
  BY <1>1 DEF LinkInv, RunRecord, PeerVanishes, RunsTyped
<1>3. LinkTypeOK'
  BY <1>2 DEF LinkInv, LinkTypeOK, PeerVanishes, userVars, RunsTyped
<1>4. HandleIsOwned'
  BY DEF LinkInv, HandleIsOwned, Scanning, InCharge, Connected, PeerVanishes
<1>5. StateIsOfScan'
  BY DEF LinkInv, StateIsOfScan, Scanning, Connected, ActiveConnect, PeerVanishes
<1>6. NoStraySocket'
  BY DEF LinkInv, NoStraySocket, Scanning, PeerVanishes
<1>7. (paused => manualDisconnectRequested)' /\ QuietWhenOff'
  BY DEF LinkInv, QuietWhenOff, Scanning, ActiveConnect, PeerVanishes
<1>8. StopsOnlyIfInterrupted'
  BY DEF LinkInv, StopsOnlyIfInterrupted, Wanted, Trying, Scanning, Connected, ActiveConnect,
         PeerVanishes, userVars
<1> QED BY <1>1, <1>3, <1>4, <1>5, <1>6, <1>7, <1>8 DEF LinkInv

\* A socket that opens becomes the handle, or is closed.
LEMMA SocketOpensInv ==
  ASSUME LinkInv, NEW r \in Run, SocketOpens(r)
  PROVE  LinkInv'
<1>1. /\ run' \in [Run -> RunRecord]
      /\ \A q \in Run : run'[q].left = run[q].left
      /\ \A q \in Run \ {r} : run'[q] = run[q]
      /\ \/ InCharge(r) /\ socketHandle' = r /\ run'[r].socket = "open"
         \/ /\ run'[r].socket = "closed"
            /\ socketHandle' = IF InCharge(r) THEN NoRun ELSE socketHandle
  <2>1. PICK sent \in BOOLEAN :
          IF InCharge(r) /\ sent
          THEN run' = [run EXCEPT ![r].socket = "open"] /\ socketHandle' = r
          ELSE run' = Closed(r) /\ socketHandle' = IF InCharge(r) THEN NoRun ELSE socketHandle
    BY DEF SocketOpens
  <2>2. CASE InCharge(r) /\ sent
    BY <2>1, <2>2 DEF LinkInv, RunRecord, SocketState
  <2>3. CASE ~(InCharge(r) /\ sent)
    BY <2>1, <2>3, ClosedIs DEF LinkInv
  <2> QED BY <2>2, <2>3
<1>2. RunsTyped'
  BY <1>1 DEF LinkInv, RunRecord, RunsTyped
<1>3. LinkTypeOK'
  BY <1>1, <1>2 DEF LinkInv, LinkTypeOK, SocketOpens, userVars, RunsTyped
<1>4. HandleIsOwned'
  BY <1>1 DEF LinkInv, LinkTypeOK, HandleIsOwned, Scanning, InCharge, Connected, SocketOpens
<1>5. StateIsOfScan'
  BY <1>1 DEF LinkInv, LinkTypeOK, StateIsOfScan, Scanning, Connected, ActiveConnect, SocketOpens
<1>6. NoStraySocket'
  BY <1>1, NoRunIsNone DEF LinkInv, HandleIsOwned, NoStraySocket, Scanning, InCharge
<1>7. (paused => manualDisconnectRequested)' /\ QuietWhenOff'
  BY <1>1 DEF LinkInv, LinkTypeOK, QuietWhenOff, Scanning, InCharge, ActiveConnect, SocketOpens
<1>8. StopsOnlyIfInterrupted'
  BY <1>1
     DEF LinkInv, StopsOnlyIfInterrupted, Wanted, Trying, LinkTypeOK, Scanning, Connected,
         ActiveConnect, SocketOpens, userVars
<1> QED BY <1>1, <1>3, <1>4, <1>5, <1>6, <1>7, <1>8 DEF LinkInv

\* register that does not call back gives way to a raw socket, or fails.
LEMMA RegisterFallbackInv ==
  ASSUME LinkInv, NEW r \in Run, RegisterFallback(r)
  PROVE  LinkInv'
<1>1. CASE AttemptFails(r, connectionState)
  BY <1>1, FailInv DEF RegisterFallback, LinkInv, LinkTypeOK
<1>2. CASE /\ run' = [run EXCEPT ![r].kind = "raw"]
           /\ socketHandle' = IF socketHandle = r THEN NoRun ELSE socketHandle
           /\ UNCHANGED <<connectionState, reconnectTimer>>
  <2>1. /\ run' \in [Run -> RunRecord]
        /\ \A q \in Run : run'[q].left = run[q].left /\ run'[q].socket = run[q].socket
    BY <1>2 DEF LinkInv, RunRecord, Kind
  <2>2. \A q \in Run : run'[q].left \in PortLists /\ run'[q].socket \in SocketState /\ run'[q].kind \in Kind
    BY <2>1 DEF RunRecord
  <2>3. run[r].socket = "opening"
    BY DEF RegisterFallback
  <2>4. LinkTypeOK'
    BY <1>2, <2>2 DEF LinkInv, RegisterFallback, userVars, LinkTypeOK
  <2>5. HandleIsOwned'
    BY <1>2 DEF LinkInv, RegisterFallback, HandleIsOwned, Scanning, InCharge
  <2>6. StateIsOfScan'
    BY <1>2 DEF LinkInv, RegisterFallback, StateIsOfScan, Scanning, Connected, ActiveConnect
  <2>7. NoStraySocket'
    BY <1>2, <2>3 DEF LinkInv, NoStraySocket, Scanning
  <2>8. (paused => manualDisconnectRequested)' /\ QuietWhenOff'
    BY <1>2 DEF LinkInv, RegisterFallback, QuietWhenOff, InCharge, ActiveConnect
  <2>9. StopsOnlyIfInterrupted'
    BY <2>1, NoRunIsNone
       DEF RegisterFallback, StopsOnlyIfInterrupted, Trying, Scanning, InCharge, ActiveConnect
  <2> QED BY <2>1, <2>4, <2>5, <2>6, <2>7, <2>8, <2>9 DEF LinkInv
<1> QED BY <1>1, <1>2 DEF RegisterFallback

\* An attempt that times out fails.
LEMMA AttemptTimesOutInv ==
  ASSUME LinkInv, NEW r \in Run, AttemptTimesOut(r)
  PROVE  LinkInv'
BY FailInv DEF AttemptTimesOut, LinkInv, LinkTypeOK

\* A connection that is given up is closed, and the timer set if it is wanted.
LEMMA RecoverInv ==
  ASSUME LinkInv, Recover
  PROVE  LinkInv'
<1>1. /\ run' = Closed(socketHandle) /\ run' \in [Run -> RunRecord]
      /\ \A q \in Run : run'[q].left = run[q].left
      /\ \A q \in Run : q # socketHandle => run'[q] = run[q]
      /\ socketHandle \in Run => run'[socketHandle].socket = "closed"
  BY ClosedIs DEF LinkInv, Recover
<1>2. RunsTyped'
  BY <1>1 DEF LinkInv, RunRecord, RunsTyped
<1>3. LinkTypeOK'
  BY <1>1, <1>2 DEF LinkInv, LinkTypeOK, Recover, userVars, RunsTyped
<1>4. HandleIsOwned'
  BY DEF HandleIsOwned, Recover
<1>5. StateIsOfScan'
  BY <1>1 DEF LinkInv, LinkTypeOK, StateIsOfScan, Scanning, ActiveConnect, Recover
<1>6. NoStraySocket'
  BY <1>1 DEF LinkInv, NoStraySocket, Scanning
<1>7. (paused => manualDisconnectRequested)' /\ QuietWhenOff'
  BY DEF LinkInv, QuietWhenOff, Connected, Recover
<1>8. StopsOnlyIfInterrupted'
  BY DEF StopsOnlyIfInterrupted, Wanted, Trying, Recover, userVars
<1> QED BY <1>1, <1>3, <1>4, <1>5, <1>6, <1>7, <1>8 DEF LinkInv

\* A disconnect leaves nobody in charge.
LEMMA DisconnectInv ==
  ASSUME LinkInv, disconnectInternal, activationStarted' \in BOOLEAN,
         UNCHANGED <<autoConnectEnabled, saved, settings>>
  PROVE  LinkInv'
<1>1. /\ run' = Closed(socketHandle) /\ run' \in [Run -> RunRecord]
      /\ \A q \in Run : run'[q].left = run[q].left
      /\ \A q \in Run : q # socketHandle => run'[q] = run[q]
      /\ socketHandle \in Run => run'[socketHandle].socket = "closed"
  BY ClosedIs DEF LinkInv, disconnectInternal
<1>2. RunsTyped'
  BY <1>1 DEF LinkInv, RunRecord, RunsTyped
<1>3. LinkTypeOK'
  BY <1>1, <1>2 DEF LinkInv, LinkTypeOK, disconnectInternal, RunsTyped
<1>4. HandleIsOwned'
  BY DEF HandleIsOwned, disconnectInternal
<1>5. StateIsOfScan'
  BY DEF StateIsOfScan, ActiveConnect, disconnectInternal
<1>6. NoStraySocket'
  BY <1>1 DEF LinkInv, NoStraySocket, Scanning
<1>7. (paused => manualDisconnectRequested)' /\ QuietWhenOff'
  BY DEF QuietWhenOff, ActiveConnect, disconnectInternal
<1>8. StopsOnlyIfInterrupted'
  BY DEF StopsOnlyIfInterrupted, Wanted, disconnectInternal
<1> QED BY <1>1, <1>3, <1>4, <1>5, <1>6, <1>7, <1>8 DEF LinkInv

\* The close of the connection, or of a socket that is not in charge.
LEMMA LateCloseInv ==
  ASSUME LinkInv, NEW r \in Run, SocketCloses(r), ~(InCharge(r) /\ Scanning(r))
  PROVE  LinkInv'
<1>1. /\ run' = Closed(r) /\ run' \in [Run -> RunRecord]
      /\ \A q \in Run : run'[q].left = run[q].left
      /\ \A q \in Run : q # r => run'[q] = run[q]
      /\ r \in Run => run'[r].socket = "closed"
  BY ClosedIs DEF LinkInv, SocketCloses
<1>2. RunsTyped'
  BY <1>1 DEF LinkInv, RunRecord, RunsTyped
<1>3. LinkTypeOK'
  BY <1>1, <1>2 DEF LinkInv, LinkTypeOK, SocketCloses, userVars, RunsTyped
<1>4. HandleIsOwned'
  BY <1>1 DEF LinkInv, LinkTypeOK, HandleIsOwned, Scanning, InCharge, Connected, SocketCloses
<1>5. StateIsOfScan'
  BY <1>1
     DEF LinkInv, LinkTypeOK, StateIsOfScan, Scanning, InCharge, Connected, ActiveConnect,
         SocketCloses
<1>6. NoStraySocket'
  BY <1>1 DEF LinkInv, NoStraySocket, Scanning, SocketCloses
<1>7. (paused => manualDisconnectRequested)' /\ QuietWhenOff'
  BY <1>1 DEF LinkInv, LinkTypeOK, QuietWhenOff, Scanning, ActiveConnect, SocketCloses
<1>8. StopsOnlyIfInterrupted'
  BY <1>1
     DEF LinkInv, StopsOnlyIfInterrupted, Wanted, Trying, LinkTypeOK, Scanning, Connected,
         ActiveConnect, SocketCloses, userVars
<1> QED BY <1>1, <1>3, <1>4, <1>5, <1>6, <1>7, <1>8 DEF LinkInv

\* A close event fails the attempt under way, or ends the connection.
LEMMA SocketClosesInv ==
  ASSUME LinkInv, NEW r \in Run, SocketCloses(r)
  PROVE  LinkInv'
<1>1. CASE ~(InCharge(r) /\ Scanning(r))
  BY <1>1, LateCloseInv
<1>2. CASE InCharge(r) /\ Scanning(r)
  <2> DEFINE mine  == socketHandle = r
             state == IF mine THEN "disconnected" ELSE connectionState
  <2>1. AttemptFails(r, state) /\ interrupted' = (interrupted \/ mine)
    BY <1>2 DEF SocketCloses
  <2>2. r # NoRun /\ ~Connected /\ connectedPort = NoPort /\ interrupted \in BOOLEAN
    BY <1>2, NoRunIsNone DEF LinkInv, StateIsOfScan, LinkTypeOK, ActiveConnect, InCharge, Connected
  <2>3. UNCHANGED <<connectedPort, preferredPort, connectRunId, manualDisconnectRequested, userVars, paused>>
    BY <1>2, <2>2 DEF SocketCloses
  <2>4. /\ state \in {connectionState, "disconnected"}
        /\ state # connectionState => InCharge(r)
        /\ interrupted' \in BOOLEAN /\ (interrupted \/ state # connectionState => interrupted')
    BY <1>2, <2>1, <2>2
  <2> HIDE DEF state
  <2> QED BY <1>2, <2>1, <2>3, <2>4, FailInv
<1> QED BY <1>1, <1>2

\* The error of a connection closes its socket.
LEMMA LateErrorInv ==
  ASSUME LinkInv, NEW r \in Run, SocketErrs(r), ~Scanning(r)
  PROVE  LinkInv'
<1>1. /\ run' = Closed(r) /\ run' \in [Run -> RunRecord]
      /\ \A q \in Run : run'[q].left = run[q].left
      /\ \A q \in Run : q # r => run'[q] = run[q]
      /\ r \in Run => run'[r].socket = "closed"
  BY ClosedIs DEF LinkInv, SocketErrs
<1>2. RunsTyped'
  BY <1>1 DEF LinkInv, RunRecord, RunsTyped
<1>3. LinkTypeOK'
  BY <1>1, <1>2 DEF LinkInv, LinkTypeOK, SocketErrs, userVars, RunsTyped
<1>4. HandleIsOwned'
  BY <1>1 DEF LinkInv, LinkTypeOK, HandleIsOwned, Scanning, InCharge, SocketErrs
<1>5. StateIsOfScan'
  BY <1>1 DEF LinkInv, StateIsOfScan, Scanning, InCharge, ActiveConnect, SocketErrs
<1>6. NoStraySocket'
  BY <1>1 DEF LinkInv, NoStraySocket, Scanning, SocketErrs
<1>7. (paused => manualDisconnectRequested)' /\ QuietWhenOff'
  BY <1>1 DEF LinkInv, QuietWhenOff, Scanning, InCharge, ActiveConnect, SocketErrs
<1>8. StopsOnlyIfInterrupted'
  BY DEF LinkInv, StopsOnlyIfInterrupted, Wanted, Trying, InCharge, Connected, ActiveConnect,
         SocketErrs, userVars
<1> QED BY <1>1, <1>3, <1>4, <1>5, <1>6, <1>7, <1>8 DEF LinkInv

\* An error event fails the attempt under way, or closes the connection's socket.
LEMMA SocketErrsInv ==
  ASSUME LinkInv, NEW r \in Run, SocketErrs(r)
  PROVE  LinkInv'
<1>1. CASE ~Scanning(r)
  BY <1>1, LateErrorInv
<1>2. CASE Scanning(r)
  BY <1>2, FailInv DEF SocketErrs, LinkInv, LinkTypeOK
<1> QED BY <1>1, <1>2

\* A new run is in charge, and scans unless there is no socket API.
LEMMA StartRunIs ==
  ASSUME LinkInv, NEW before \in {run, Closed(socketHandle)}, StartRun(before)
  PROVE  \E r \in Run \ {connectRunId, socketHandle} :
           /\ run[r] = Idle /\ run[r].left = <<>>
           /\ connectRunId' = r /\ ~manualDisconnectRequested' /\ interrupted' = FALSE
           /\ manualDisconnectRequested' \in BOOLEAN
           /\ run' \in [Run -> RunRecord]
           /\ \A q \in Run \ {r} : run'[q] = before[q]
           /\ run'[r].socket \in {"opening", "closed"}
           /\ \/ Scanning(r)' /\ connectionState' = "connecting" /\ reconnectTimer' = FALSE
              \/ ~Scanning(r)' /\ connectionState' = "disconnected" /\ reconnectTimer' = TRUE
<1>1. before \in [Run -> RunRecord] /\ \A q \in Run \ {socketHandle} : before[q] = run[q]
  BY ClosedIs DEF LinkInv
<1>2. PICK r \in Run \ {connectRunId, socketHandle} :
        /\ run[r] = Idle
        /\ connectRunId' = r /\ manualDisconnectRequested' = FALSE /\ interrupted' = FALSE
        /\ \/ /\ \E kind \in Kind : run' = [before EXCEPT ![r] = Attempt(AttemptOrder, kind)]
              /\ connectionState' = "connecting"
              /\ reconnectTimer' = FALSE
           \/ /\ run' = before
              /\ connectionState' = "disconnected"
              /\ reconnectTimer' = TRUE
  BY DEF StartRun
<1>3. /\ Idle.left = <<>> /\ Idle.socket = "closed" /\ Idle \in RunRecord
      /\ \A p \in PortLists, k \in Kind :
           /\ Attempt(p, k) \in RunRecord
           /\ Attempt(p, k).left = p /\ Attempt(p, k).socket = "opening"
  BY <1>2, RunFields DEF LinkInv
<1>4. AttemptOrder \in PortLists /\ AttemptOrder # <<>>
  BY OrderIsList DEF LinkInv, LinkTypeOK
<1>5. CASE /\ \E kind \in Kind : run' = [before EXCEPT ![r] = Attempt(AttemptOrder, kind)]
           /\ connectionState' = "connecting"
           /\ reconnectTimer' = FALSE
  <2>1. PICK kind \in Kind : run' = [before EXCEPT ![r] = Attempt(AttemptOrder, kind)]
    BY <1>5
  <2> DEFINE first == Attempt(AttemptOrder, kind)
  <2>2. first \in RunRecord /\ first.left # <<>> /\ first.socket = "opening"
    BY <1>3, <1>4
  <2> HIDE DEF first
  <2>3. run' = [before EXCEPT ![r] = first]
    BY <2>1 DEF first
  <2>4. run' \in [Run -> RunRecord] /\ run'[r] = first /\ \A q \in Run \ {r} : run'[q] = before[q]
    BY <1>1, <1>2, <2>2, <2>3
  <2>5. Scanning(r)' /\ run'[r].socket = "opening"
    BY <2>2, <2>4 DEF Scanning
  <2> QED BY <1>2, <1>3, <1>5, <2>4, <2>5
<1>6. CASE /\ run' = before
           /\ connectionState' = "disconnected"
           /\ reconnectTimer' = TRUE
  <2>1. run' \in [Run -> RunRecord] /\ \A q \in Run \ {r} : run'[q] = before[q]
    BY <1>1, <1>6
  <2>2. run'[r] = Idle
    BY <1>1, <1>2, <1>6
  <2>3. ~Scanning(r)' /\ run'[r].socket = "closed"
    BY <1>3, <2>2 DEF Scanning
  <2> QED BY <1>2, <1>3, <1>6, <2>1, <2>3
<1> QED BY <1>2, <1>5, <1>6

\* A new run takes over; a socket of the run before has its own timeout.
LEMMA StartRunInv ==
  ASSUME LinkInv, ~Connected, NEW before \in {run, Closed(socketHandle)}, StartRun(before),
         socketHandle' = NoRun \/ (~reconnectTimer' /\ socketHandle' = socketHandle),
         paused' \in BOOLEAN, ~paused', autoConnectEnabled' \in BOOLEAN, saved' \in BOOLEAN,
         activationStarted' \in BOOLEAN, settings' \subseteq BOOLEAN,
         UNCHANGED <<connectedPort, preferredPort>>
  PROVE  LinkInv'
<1>1. PICK r \in Run \ {connectRunId, socketHandle} :
        /\ run[r] = Idle /\ run[r].left = <<>>
        /\ connectRunId' = r /\ ~manualDisconnectRequested' /\ interrupted' = FALSE
        /\ manualDisconnectRequested' \in BOOLEAN
        /\ run' \in [Run -> RunRecord]
        /\ \A q \in Run \ {r} : run'[q] = before[q]
        /\ run'[r].socket \in {"opening", "closed"}
        /\ \/ Scanning(r)' /\ connectionState' = "connecting" /\ reconnectTimer' = FALSE
           \/ ~Scanning(r)' /\ connectionState' = "disconnected" /\ reconnectTimer' = TRUE
  BY StartRunIs
<1>2. \A q \in Run : /\ before[q].left = run[q].left
                     /\ before[q].socket \in {"open", "dead"} => before[q].socket = run[q].socket
  BY ClosedIs DEF LinkInv
<1>3. \A q \in Run \ {r} : /\ run'[q].left = run[q].left
                           /\ run'[q].socket \in {"open", "dead"} => run'[q].socket = run[q].socket
  BY <1>1, <1>2
<1>4. RunsTyped'
  BY <1>1 DEF LinkInv, RunRecord, RunsTyped
<1>5. LinkTypeOK'
  BY <1>1, <1>4 DEF LinkInv, PortLists, LinkTypeOK, Connected, RunsTyped
<1>6. HandleIsOwned'
  BY <1>3 DEF LinkInv, LinkTypeOK, HandleIsOwned, Scanning
<1>7. StateIsOfScan'
  BY <1>1, NoRunIsNone DEF StateIsOfScan, Connected, ActiveConnect
<1>8. NoStraySocket'
  BY <1>1, <1>3 DEF LinkInv, HandleIsOwned, NoStraySocket, Scanning
<1>9. (paused => manualDisconnectRequested)' /\ QuietWhenOff'
  BY <1>1 DEF QuietWhenOff
<1>10. StopsOnlyIfInterrupted'
  BY <1>1, NoRunIsNone DEF StopsOnlyIfInterrupted, Trying, ActiveConnect
<1> QED BY <1>1, <1>5, <1>6, <1>7, <1>8, <1>9, <1>10 DEF LinkInv

\* Where nothing starts, the extension is connected or scans.
LEMMA ConnectInv ==
  ASSUME LinkInv, Connect,
         paused' \in BOOLEAN, ~paused', autoConnectEnabled' \in BOOLEAN, saved' \in BOOLEAN,
         activationStarted' \in BOOLEAN, settings' \subseteq BOOLEAN,
         UNCHANGED <<connectedPort, preferredPort>>
  PROVE  LinkInv'
<1>1. CASE MayConnect
  <2>1. StartRun(run) /\ socketHandle' = IF reconnectTimer' THEN NoRun ELSE socketHandle
    BY <1>1 DEF Connect
  <2> QED BY <1>1, <2>1, StartRunInv DEF MayConnect
<1>2. CASE ~MayConnect
  <2>1. /\ UNCHANGED <<scanVars, connectRunId, manualDisconnectRequested, interrupted>>
        /\ Connected \/ ActiveConnect
    BY <1>2 DEF Connect, MayConnect
  <2> QED BY <2>1
             DEF LinkInv, LinkTypeOK, HandleIsOwned, StateIsOfScan, NoStraySocket, QuietWhenOff,
                 StopsOnlyIfInterrupted, Trying, scanVars, Scanning, InCharge, Connected,
                 ActiveConnect
<1> QED BY <1>1, <1>2

\* A step of flags and settings only, which sets the timer where it is wanted.
LEMMA FlagsInv ==
  ASSUME LinkInv,
         UNCHANGED <<connectionState, connectedPort, preferredPort, socketHandle, connectRunId, run, interrupted>>,
         autoConnectEnabled' \in BOOLEAN, saved' \in BOOLEAN,
         activationStarted' \in BOOLEAN, settings' \subseteq BOOLEAN,
         {manualDisconnectRequested', reconnectTimer', paused'} \subseteq BOOLEAN,
         paused' => paused /\ manualDisconnectRequested',
         manualDisconnectRequested' => ~reconnectTimer',
         StopsOnlyIfInterrupted'
  PROVE  LinkInv'
BY DEF LinkInv, LinkTypeOK, HandleIsOwned, StateIsOfScan, NoStraySocket, QuietWhenOff, Scanning,
       InCharge, Connected, ActiveConnect

LEMMA UserVarsTyped ==
  ASSUME LinkInv
  PROVE  /\ {manualDisconnectRequested, reconnectTimer, autoConnectEnabled, saved,
             activationStarted, interrupted, paused} \subseteq BOOLEAN
         /\ settings \subseteq BOOLEAN
         /\ reconnectTimer => ~manualDisconnectRequested
         /\ paused => manualDisconnectRequested
         /\ ~Connected /\ connectionState # "disconnected" => ActiveConnect
BY DEF LinkInv, LinkTypeOK, QuietWhenOff, StateIsOfScan, Connected

\* The timer connects, or has nothing to do.
LEMMA ReconnectFiresInv ==
  ASSUME LinkInv, ReconnectFires
  PROVE  LinkInv'
<1>1. reconnectTimer /\ ~manualDisconnectRequested /\ ~paused' /\ UNCHANGED userVars
  BY UserVarsTyped DEF ReconnectFires
<1>2. CASE connectionState = "disconnected"
  BY <1>1, <1>2, ConnectInv, UserVarsTyped DEF ReconnectFires, userVars
<1>3. CASE connectionState # "disconnected"
  <2>1. Trying'
    BY <1>3, UserVarsTyped DEF ReconnectFires, Trying, Connected, ActiveConnect, Scanning
  <2> QED BY <1>1, <1>3, <2>1, FlagsInv, UserVarsTyped DEF ReconnectFires, StopsOnlyIfInterrupted, userVars
<1> QED BY <1>2, <1>3

\* The Connect button starts a run, or finds the extension connected.
LEMMA ManualConnectInv ==
  ASSUME LinkInv, ManualConnect
  PROVE  LinkInv'
<1>1. CASE connectionState = "connecting" /\ ActiveConnect
  <2>1. StartRun(Closed(socketHandle)) /\ socketHandle' = NoRun /\ paused' = FALSE
    BY <1>1 DEF ManualConnect
  <2>2. UNCHANGED <<connectedPort, preferredPort, userVars>>
    BY DEF ManualConnect
  <2> QED BY <1>1, <2>1, <2>2, StartRunInv, UserVarsTyped DEF Connected, userVars
<1>2. CASE ~(connectionState = "connecting" /\ ActiveConnect)
  BY <1>2, ConnectInv, UserVarsTyped DEF ManualConnect, userVars
<1> QED BY <1>1, <1>2

\* The editor's start connects where the store says so and nothing is under way.
LEMMA ActivateInv ==
  ASSUME LinkInv, Activate
  PROVE  LinkInv'
<1>1. /\ activationStarted' = TRUE /\ autoConnectEnabled' = saved
      /\ UNCHANGED <<connectedPort, preferredPort, saved, settings>>
  BY DEF Activate
<1> DEFINE wanted == saved /\ (activationStarted => connectionState = "disconnected" /\ ~ActiveConnect)
<1>2. CASE wanted
  BY <1>1, <1>2, ConnectInv, UserVarsTyped DEF Activate
<1>3. CASE ~wanted
  <2>1. UNCHANGED <<scanVars, connectRunId, manualDisconnectRequested, interrupted, paused>>
    BY <1>3 DEF Activate
  <2>2. Wanted' => Trying'
    BY <1>1, <1>3, <2>1, UserVarsTyped
       DEF Wanted, Trying, Connected, ActiveConnect, Scanning, scanVars
  <2> QED BY <1>1, <2>1, <2>2, FlagsInv, UserVarsTyped DEF StopsOnlyIfInterrupted, scanVars
<1> QED BY <1>2, <1>3

\* The status shown sets the timer of a link that is down and wanted.
LEMMA ShowStatusInv ==
  ASSUME LinkInv, ShowStatus
  PROVE  LinkInv'
<1>1. Wanted' => Trying'
  BY UserVarsTyped DEF ShowStatus, Wanted, Trying, Connected, ActiveConnect, Scanning
<1> QED BY <1>1, FlagsInv, UserVarsTyped DEF ShowStatus, StopsOnlyIfInterrupted

\* While a setting is being stored, nothing is said of the link.
LEMMA SetAutoConnectInv ==
  ASSUME LinkInv, NEW enabled \in BOOLEAN, SetAutoConnect(enabled)
  PROVE  LinkInv'
<1>1. ~Wanted'
  BY DEF SetAutoConnect, Wanted
<1> QED BY <1>1, FlagsInv, UserVarsTyped DEF SetAutoConnect, StopsOnlyIfInterrupted, scanVars

\* The setting that was stored connects the extension, or forbids it to.
LEMMA AutoConnectStoredInv ==
  ASSUME LinkInv, NEW enabled \in BOOLEAN, AutoConnectStored(enabled)
  PROVE  LinkInv'
<1>1. /\ UNCHANGED <<connectedPort, preferredPort, autoConnectEnabled, activationStarted>>
      /\ saved' \in BOOLEAN /\ settings' \subseteq BOOLEAN
  BY UserVarsTyped DEF AutoConnectStored
<1>2. CASE enabled /\ connectionState = "disconnected"
  BY <1>1, <1>2, ConnectInv, UserVarsTyped DEF AutoConnectStored
<1>3. CASE enabled /\ connectionState # "disconnected"
  <2>1. Trying' 
    BY <1>3, UserVarsTyped DEF AutoConnectStored, Trying, Connected, ActiveConnect, Scanning, scanVars
  <2> QED BY <1>1, <1>3, <2>1, FlagsInv, UserVarsTyped DEF AutoConnectStored, StopsOnlyIfInterrupted, scanVars
<1>4. CASE ~enabled
  <2>1. ~Wanted'
    BY <1>4 DEF AutoConnectStored, Wanted
  <2> QED BY <1>1, <1>4, <2>1, FlagsInv, UserVarsTyped DEF AutoConnectStored, StopsOnlyIfInterrupted
<1> QED BY <1>2, <1>3, <1>4

-----------------------------------------------------------------------------
LEMMA LinkInitInv == LinkInit => LinkInv
<1> SUFFICES ASSUME LinkInit
             PROVE  LinkInv
  OBVIOUS
<1>1. Idle \in RunRecord /\ Idle.left = <<>> /\ Idle.socket = "closed"
  <2>1. Len(Port) \in Nat /\ <<>> \in [1..0 -> Ports]
    BY LinkAssumption
  <2> QED BY <2>1 DEF RunRecord, PortLists, Idle, SocketState, Kind
<1>2. run \in [Run -> RunRecord] /\ \A r \in Run : run[r] = Idle
  BY <1>1 DEF LinkInit
<1>3. Port[1] \in Ports
  BY LinkAssumption DEF Ports
<1>4. RunsTyped
  BY <1>1, <1>2 DEF RunRecord, RunsTyped
<1>5. LinkTypeOK
  BY <1>3, <1>4, NoRunIsNone DEF LinkInit, LinkTypeOK, PortLists, RunsTyped
<1>6. HandleIsOwned /\ StateIsOfScan /\ QuietWhenOff /\ StopsOnlyIfInterrupted
  BY DEF LinkInit, HandleIsOwned, StateIsOfScan, QuietWhenOff, StopsOnlyIfInterrupted, Wanted,
         ActiveConnect
<1>7. NoStraySocket /\ (paused => manualDisconnectRequested)
  BY <1>1, <1>2 DEF LinkInit, NoStraySocket
<1> QED BY <1>2, <1>5, <1>6, <1>7 DEF LinkInv

\* Every step keeps the invariant.
LEMMA LinkNextInv == LinkInv /\ [LinkNext]_linkVars => LinkInv'
<1> SUFFICES ASSUME LinkInv, [LinkNext]_linkVars
             PROVE  LinkInv'
  OBVIOUS
<1>1. ASSUME NEW r \in Run, SocketEvent(r)
      PROVE  LinkInv'
  BY <1>1, RegisterFallbackInv, SocketOpensInv, HelloInv, PeerVanishesInv, SocketClosesInv,
     SocketErrsInv, AttemptTimesOutInv DEF SocketEvent
<1>2. CASE Recover
  BY <1>2, RecoverInv
<1>3. CASE ReconnectFires
  BY <1>3, ReconnectFiresInv
<1>4. CASE UserStep
  <2>1. CASE ManualConnect
    BY <2>1, ManualConnectInv
  <2>2. CASE ManualDisconnect
    BY <2>2, DisconnectInv, UserVarsTyped DEF ManualDisconnect, userVars
  <2>3. CASE Activate
    BY <2>3, ActivateInv
  <2>4. CASE Deactivate
    BY <2>4, DisconnectInv DEF Deactivate
  <2>5. CASE ShowStatus
    BY <2>5, ShowStatusInv
  <2>6. ASSUME NEW enabled \in BOOLEAN, SetAutoConnect(enabled) \/ AutoConnectStored(enabled)
        PROVE  LinkInv'
    BY <2>6, SetAutoConnectInv, AutoConnectStoredInv
  <2> QED BY <1>4, <2>1, <2>2, <2>3, <2>4, <2>5, <2>6 DEF UserStep
<1>5. CASE UNCHANGED linkVars
  BY <1>5 DEF linkVars, scanVars, userVars, LinkInv, LinkTypeOK, HandleIsOwned, StateIsOfScan,
              NoStraySocket, QuietWhenOff, StopsOnlyIfInterrupted, Wanted, Trying, Scanning,
              InCharge, Connected, ActiveConnect
<1> QED BY <1>1, <1>2, <1>3, <1>4, <1>5 DEF LinkNext

\* The inductive invariant: the sockets, the runs and the flags of the
\* connection loop fit together after every event, command and timer.
THEOREM LinkInvariant == LinkSpec => []LinkInv
BY LinkInitInv, LinkNextInv, PTL DEF LinkSpec

\* The variables of the connection loop keep their types, and a port is
\* connected exactly when the state says so.
THEOREM LinkTypeCorrect == LinkSpec => []LinkTypeOK
<1>1. LinkInv => LinkTypeOK
  BY DEF LinkInv
<1> QED BY <1>1, LinkInvariant, PTL

\* A socket that is open is the handle's, or belongs to a scan whose timeout
\* closes it, whatever the order of opens, closes, cancels and timeouts.
THEOREM NoSocketIsForgotten == LinkSpec => []NoStraySocket
<1>1. LinkInv => NoStraySocket
  BY DEF LinkInv
<1> QED BY <1>1, LinkInvariant, PTL

\* After a disconnect of the user no late open, hello or timer connects.
THEOREM DisconnectIsFinal == LinkSpec => []QuietWhenOff
<1>1. LinkInv => QuietWhenOff
  BY DEF LinkInv
<1> QED BY <1>1, LinkInvariant, PTL

\* A link that is wanted is up, scanning or timed, unless a socket closed
\* before its hello.
THEOREM StopsOnlyAfterEarlyClose == LinkSpec => []StopsOnlyIfInterrupted
<1>1. LinkInv => StopsOnlyIfInterrupted
  BY DEF LinkInv
<1> QED BY <1>1, LinkInvariant, PTL
================================================================================
