---------------------- MODULE SessionDispatchQueueProofs ----------------------
(***************************************************************************)
(* The chain of promises is a queue per session, for any number of calls   *)
(* and sessions.                                                           *)
(***************************************************************************)
EXTENDS SessionDispatchQueue, TLAPS

\* Calls enter in the order of their numbers, each into a session.
InOrder ==
  \A c \in Call :
    turn[c] # "out" =>
      /\ session[c] \in Session
      /\ \A d \in Call : d < c => turn[d] # "out"

\* A call is chained behind every earlier call of its session that is not over.
Chained ==
  \A c, d \in Call :
    Active(c) /\ Active(d) /\ session[c] = session[d] /\ d < c => d <= previous[c]

\* What a call is chained to entered its session before it.
ChainGoesBack ==
  \A c \in Call :
    turn[c] # "out" /\ previous[c] # NoCall =>
      previous[c] < c /\ session[previous[c]] = session[c]

\* The tail of a session is its latest call that is not over.
TailIsLast ==
  /\ \A s \in Session : tails[s] # NoCall => Active(tails[s]) /\ session[tails[s]] = s
  /\ \A c \in Call : Active(c) => tails[session[c]] # NoCall /\ c <= tails[session[c]]

\* Those before a call that had its turn are over.
ServedInOrder ==
  \A c, d \in Call :
    turn[c] \in {"in", "left"} /\ session[c] = session[d] /\ d < c => turn[d] = "left"

QueueInv ==
  QueueTypeOK /\ InOrder /\ Chained /\ ChainGoesBack /\ TailIsLast /\ ServedInOrder

\* Whose turn it is has nobody before it: neither the call it is chained to,
\* nor one before that, nor one between the two.
LEMMA TurnIsFirst ==
  ASSUME QueueInv, NEW c \in Call, IsTurn(c) \/ turn[c] = "in"
  PROVE  \A d \in Call : session[d] = session[c] /\ d < c => turn[d] = "left"
<1>1. CASE turn[c] = "in"
  BY <1>1 DEF QueueInv, ServedInOrder
<1>2. CASE IsTurn(c)
  <2> SUFFICES ASSUME NEW d \in Call, session[d] = session[c], d < c, turn[d] # "left"
               PROVE  FALSE
    OBVIOUS
  <2>1. turn[c] = "waiting" /\ Active(c)
    BY <1>2 DEF IsTurn, Active
  <2>2. Active(d)
    BY <2>1 DEF QueueInv, QueueTypeOK, InOrder, Active
  <2>3. d <= previous[c]
    BY <2>1, <2>2 DEF QueueInv, Chained
  <2>4. previous[c] # NoCall /\ previous[c] \in Call
    BY <2>3 DEF QueueInv, QueueTypeOK, Call, NoCall
  <2>5. turn[previous[c]] = "left" /\ session[previous[c]] = session[c]
    BY <1>2, <2>1, <2>4 DEF IsTurn, PreviousIsOver, QueueInv, ChainGoesBack
  <2>6. d # previous[c]
    BY <2>5
  <2>7. d < previous[c]
    BY <2>3, <2>4, <2>6 DEF Call
  <2> QED BY <2>4, <2>5, <2>7 DEF QueueInv, ServedInOrder
<1> QED BY <1>1, <1>2

-----------------------------------------------------------------------------
\* Nobody has come.
LEMMA InitInv == QueueInit => QueueInv
BY QueueAssumption
   DEF QueueInit, QueueInv, QueueTypeOK, InOrder, Chained, ChainGoesBack, TailIsLast,
       ServedInOrder, Active, Call, NoCall

\* A call that comes is the latest of all.
LEMMA EnterInv ==
  ASSUME QueueInv, NEW c \in Call, NEW s \in Session, Enter(c, s)
  PROVE  QueueInv'
<1>1. /\ turn' = [turn EXCEPT ![c] = "waiting"]
      /\ session' = [session EXCEPT ![c] = s]
      /\ previous' = [previous EXCEPT ![c] = tails[s]]
      /\ tails' = [tails EXCEPT ![s] = c]
      /\ turn[c] = "out"
      /\ \A d \in Call : d < c => turn[d] # "out"
  BY DEF Enter, IsNext
<1>2. QueueTypeOK'
  BY <1>1 DEF QueueInv, QueueTypeOK
<1>3. \A d \in Call : d # c /\ turn[d] # "out" => d < c
  BY <1>1 DEF QueueInv, InOrder, Call
<1>4. /\ \A d \in Call : d # c => turn'[d] = turn[d] /\ session'[d] = session[d]
                                  /\ previous'[d] = previous[d] /\ (Active(d)' <=> Active(d))
      /\ turn'[c] = "waiting" /\ session'[c] = s /\ previous'[c] = tails[s] /\ Active(c)'
      /\ ~Active(c)
      /\ tails'[s] = c
      /\ \A r \in Session : r # s => tails'[r] = tails[r]
  BY <1>1 DEF QueueInv, QueueTypeOK, Active
<1>5. InOrder'
  BY <1>1, <1>3, <1>4 DEF QueueInv, InOrder
<1>6. Chained'
  <2> SUFFICES ASSUME NEW e \in Call, NEW d \in Call,
                      Active(e)', Active(d)', session'[e] = session'[d], d < e
               PROVE  d <= previous'[e]
    BY DEF Chained
  <2>1. CASE e = c
    BY <2>1, <1>4 DEF QueueInv, TailIsLast, Call
  <2>2. CASE e # c /\ d = c
    <3>1. e < c
      BY <2>2, <1>3, <1>4 DEF Active
    <3> QED BY <3>1, <2>2 DEF Call
  <2>3. CASE e # c /\ d # c
    BY <2>3, <1>4 DEF QueueInv, Chained
  <2> QED BY <2>1, <2>2, <2>3
<1>7. ChainGoesBack'
  <2> SUFFICES ASSUME NEW e \in Call, turn'[e] # "out", previous'[e] # NoCall
               PROVE  previous'[e] < e /\ session'[previous'[e]] = session'[e]
    BY DEF ChainGoesBack
  <2>1. CASE e = c
    <3>1. tails[s] \in Call /\ Active(tails[s]) /\ session[tails[s]] = s
      BY <2>1, <1>4 DEF QueueInv, QueueTypeOK, TailIsLast
    <3>2. tails[s] # c /\ tails[s] < c
      BY <3>1, <1>3, <1>4 DEF Active
    <3> QED BY <2>1, <3>1, <3>2, <1>4
  <2>2. CASE e # c
    <3>1. previous[e] \in Call /\ previous[e] < e /\ session[previous[e]] = session[e]
      BY <2>2, <1>4 DEF QueueInv, QueueTypeOK, ChainGoesBack
    <3>2. e < c
      BY <2>2, <1>3, <1>4
    <3>3. previous[e] # c
      BY <3>1, <3>2 DEF Call
    <3> QED BY <2>2, <3>1, <3>3, <1>4
  <2> QED BY <2>1, <2>2
<1>8. TailIsLast'
  <2>1. ASSUME NEW r \in Session, tails'[r] # NoCall
        PROVE  (Active(tails[r]) /\ session[tails[r]] = r)'
    <3>1. CASE r = s
      BY <3>1, <1>4
    <3>2. CASE r # s
      <4>1. tails[r] \in Call /\ Active(tails[r]) /\ session[tails[r]] = r
        BY <2>1, <3>2, <1>4 DEF QueueInv, QueueTypeOK, TailIsLast
      <4>2. tails[r] # c
        BY <4>1, <1>4
      <4> QED BY <3>2, <4>1, <4>2, <1>4
    <3> QED BY <3>1, <3>2
  <2>2. ASSUME NEW e \in Call, Active(e)'
        PROVE  tails'[session'[e]] # NoCall /\ e <= tails'[session'[e]]
    <3>1. CASE e = c
      BY <3>1, <1>4 DEF Call, NoCall
    <3>2. CASE e # c
      <4>1. Active(e) /\ e < c /\ session[e] \in Session
        BY <2>2, <3>2, <1>3, <1>4 DEF Active, QueueInv, InOrder
      <4>2. tails[session[e]] # NoCall /\ e <= tails[session[e]]
        BY <4>1 DEF QueueInv, TailIsLast
      <4> QED BY <3>2, <4>1, <4>2, <1>4 DEF Call, NoCall
    <3> QED BY <3>1, <3>2
  <2> QED BY <2>1, <2>2 DEF TailIsLast
<1>9. ServedInOrder'
  <2> SUFFICES ASSUME NEW e \in Call, NEW d \in Call,
                      turn'[e] \in {"in", "left"}, session'[e] = session'[d], d < e
               PROVE  turn'[d] = "left"
    BY DEF ServedInOrder
  <2>1. e # c /\ turn[e] \in {"in", "left"}
    BY <1>4
  <2>2. d # c
    BY <2>1, <1>3 DEF Call
  <2> QED BY <2>1, <2>2, <1>4 DEF QueueInv, ServedInOrder
<1> QED BY <1>2, <1>5, <1>6, <1>7, <1>8, <1>9 DEF QueueInv

\* A call that begins has nobody before it.
LEMMA BeginInv ==
  ASSUME QueueInv, NEW c \in Call, Begin(c)
  PROVE  QueueInv'
<1>1. /\ turn' = [turn EXCEPT ![c] = "in"] /\ turn[c] = "waiting"
      /\ session' = session /\ previous' = previous /\ tails' = tails
  BY DEF Begin, IsTurn
<1>2. QueueTypeOK'
  BY <1>1 DEF QueueInv, QueueTypeOK
<1>3. /\ \A d \in Call : d # c => turn'[d] = turn[d]
      /\ turn'[c] = "in"
      /\ \A d \in Call : (Active(d)' <=> Active(d)) /\ (turn'[d] # "out" <=> turn[d] # "out")
  BY <1>1 DEF QueueInv, QueueTypeOK, Active
<1>4. InOrder' /\ Chained' /\ ChainGoesBack'
  BY <1>1, <1>3 DEF QueueInv, InOrder, Chained, ChainGoesBack
<1>5. TailIsLast'
  BY <1>1, <1>3 DEF QueueInv, QueueTypeOK, TailIsLast
<1>6. ServedInOrder'
  <2>1. \A d \in Call : session[d] = session[c] /\ d < c => turn[d] = "left"
    BY TurnIsFirst DEF Begin
  <2> QED BY <2>1, <1>1, <1>3 DEF QueueInv, ServedInOrder
<1> QED BY <1>2, <1>4, <1>5, <1>6 DEF QueueInv

\* Nor has one that is over, so a tail that is over leaves its session empty.
LEMMA ReleaseInv ==
  ASSUME QueueInv, NEW c \in Call, IsTurn(c) \/ turn[c] = "in", Release(c)
  PROVE  QueueInv'
<1>1. /\ turn' = [turn EXCEPT ![c] = "left"] /\ turn[c] \in {"waiting", "in"}
      /\ session' = session /\ previous' = previous
      /\ tails' = [s \in Session |-> IF s = session[c] /\ tails[s] = c THEN NoCall ELSE tails[s]]
  BY DEF Release, IsTurn
<1>2. QueueTypeOK'
  BY <1>1 DEF QueueInv, QueueTypeOK
<1>3. /\ \A d \in Call : d # c => turn'[d] = turn[d] /\ (Active(d)' <=> Active(d))
      /\ turn'[c] = "left" /\ ~Active(c)' /\ Active(c)
      /\ \A d \in Call : turn'[d] # "out" <=> turn[d] # "out"
      /\ \A s \in Session : tails'[s] = IF s = session[c] /\ tails[s] = c THEN NoCall ELSE tails[s]
  BY <1>1 DEF QueueInv, QueueTypeOK, Active
<1>4. \A d \in Call : session[d] = session[c] /\ d < c => turn[d] = "left"
  BY TurnIsFirst
<1>5. InOrder' /\ Chained' /\ ChainGoesBack'
  BY <1>1, <1>3 DEF QueueInv, InOrder, Chained, ChainGoesBack
<1>6. TailIsLast'
  <2>1. ASSUME NEW s \in Session, tails'[s] # NoCall
        PROVE  (Active(tails[s]) /\ session[tails[s]] = s)'
    <3>1. tails'[s] = tails[s] /\ tails[s] \in Call /\ session[tails[s]] = s /\ Active(tails[s])
      BY <2>1, <1>3 DEF QueueInv, QueueTypeOK, TailIsLast
    <3>2. tails[s] # c
      BY <2>1, <3>1, <1>3
    <3> QED BY <3>1, <3>2, <1>1, <1>3
  <2>2. ASSUME NEW d \in Call, Active(d)'
        PROVE  tails'[session'[d]] # NoCall /\ d <= tails'[session'[d]]
    <3>1. d # c /\ Active(d) /\ session[d] \in Session
      BY <2>2, <1>3 DEF Active, QueueInv, InOrder
    <3>2. tails[session[d]] # NoCall /\ d <= tails[session[d]]
      BY <3>1 DEF QueueInv, TailIsLast
    <3>3. ~(session[d] = session[c] /\ tails[session[d]] = c)
      BY <3>1, <3>2, <1>4 DEF Active, Call
    <3> QED BY <3>1, <3>2, <3>3, <1>1, <1>3
  <2> QED BY <2>1, <2>2 DEF TailIsLast
<1>7. ServedInOrder'
  BY <1>1, <1>3, <1>4 DEF QueueInv, ServedInOrder
<1> QED BY <1>2, <1>5, <1>6, <1>7 DEF QueueInv

\* Every step keeps the chain in order.
LEMMA NextInv == QueueInv /\ [QueueNext]_queueVars => QueueInv'
<1> SUFFICES ASSUME QueueInv, [QueueNext]_queueVars PROVE QueueInv'
  OBVIOUS
<1>1. CASE UNCHANGED queueVars
  BY <1>1 DEF queueVars, QueueInv, QueueTypeOK, InOrder, Chained, ChainGoesBack, TailIsLast,
              ServedInOrder, Active
<1>2. CASE QueueNext
  <2> PICK c \in Call : \/ \E s \in Session : Enter(c, s)
                        \/ Begin(c) \/ Leave(c) \/ Skip(c)
    BY <1>2 DEF QueueNext
  <2> QED BY EnterInv, BeginInv, ReleaseInv DEF Leave, Skip
<1> QED BY <1>1, <1>2

\* The chain is in order in every state.
THEOREM QueueInvariant == QueueSpec => []QueueInv
<1> QED BY InitInv, NextInv, PTL DEF QueueSpec

\* One operation of a session at a time, and the map of tails does not leak.
THEOREM OperationsExclude == QueueSpec => []OneAtATime
<1>1. QueueInv => OneAtATime
  <2> SUFFICES ASSUME QueueInv PROVE OneAtATime
    OBVIOUS
  <2>1. \A c, d \in Call : turn[c] = "in" /\ turn[d] = "in" /\ session[c] = session[d] => c = d
    BY DEF QueueInv, ServedInOrder, Call
  <2>2. \A s \in Session : tails[s] # NoCall <=> \E c \in Call : Active(c) /\ session[c] = s
    BY DEF QueueInv, QueueTypeOK, TailIsLast
  <2> QED BY <2>1, <2>2 DEF OneAtATime
<1> QED BY <1>1, QueueInvariant, PTL
-----------------------------------------------------------------------------
(***************************************************************************)
(* Refinement: what the queue keeps per session is, to each call, the set  *)
(* of those it waits for.                                                  *)
(***************************************************************************)
PlaceOf(t) == CASE t = "out"     -> "away"
                [] t = "waiting" -> "waiting"
                [] t = "in"      -> "served"
                [] t = "left"    -> "gone"

Place == [c \in Call |-> PlaceOf(turn[c])]

Ahead == [c \in Call |-> IF Active(c)
                         THEN {d \in Call : d < c /\ session[d] = session[c] /\ Active(d)}
                         ELSE {}]

\* Where a call is in the chain says where it is in the queue.
LEMMA PlaceIs ==
  ASSUME QueueTypeOK, NEW c \in Call
  PROVE  /\ Place[c] = "away" <=> turn[c] = "out"
         /\ Place[c] = "waiting" <=> turn[c] = "waiting"
         /\ Place[c] = "served" <=> turn[c] = "in"
         /\ Place[c] = "gone" <=> turn[c] = "left"
<1>1. turn[c] \in {"out", "waiting", "in", "left"}
  BY DEF QueueTypeOK
<1>2. Place[c] = PlaceOf(turn[c])
  BY DEF Place
<1> QED BY <1>1, <1>2 DEF PlaceOf

\* The first of a session waits for nobody.
LEMMA FirstIsFree ==
  ASSUME QueueInv, NEW c \in Call, IsTurn(c) \/ turn[c] = "in"
  PROVE  Ahead[c] = {}
<1>1. \A d \in Call : session[d] = session[c] /\ d < c => ~Active(d)
  BY TurnIsFirst DEF Active
<1> QED BY <1>1 DEF Ahead

\* An empty chain is an empty queue.
LEMMA InitRefines == QueueInit => Mutex!Init
<1> SUFFICES ASSUME QueueInit PROVE Mutex!Init
  OBVIOUS
<1>1. Place = [c \in Call |-> "away"]
  BY DEF QueueInit, Place, PlaceOf
<1>2. Ahead = [c \in Call |-> {}]
  BY DEF QueueInit, Ahead, Active
<1> QED BY <1>1, <1>2 DEF QueueInit, Mutex!Init, Place, PlaceOf, Ahead

\* A call that is chained to the tail joins the queue behind everybody.
LEMMA EnterRefines ==
  ASSUME QueueInv, NEW c \in Call, NEW s \in Session, Enter(c, s)
  PROVE  Mutex!Join(c, s)
<1>1. /\ turn' = [turn EXCEPT ![c] = "waiting"]
      /\ session' = [session EXCEPT ![c] = s]
      /\ turn[c] = "out"
  BY DEF Enter, IsNext
<1> QueueTypeOK /\ QueueTypeOK'
  BY EnterInv DEF QueueInv
<1>2. \A d \in Call : d # c /\ turn[d] # "out" => d < c
  BY DEF QueueInv, InOrder, Call, Enter, IsNext
<1>3. /\ \A d \in Call : d # c => turn'[d] = turn[d] /\ session'[d] = session[d]
                                  /\ (Active(d)' <=> Active(d))
      /\ turn'[c] = "waiting" /\ session'[c] = s /\ Active(c)' /\ ~Active(c)
  BY <1>1 DEF QueueTypeOK, Active
<1>4. Place[c] = "away"
  BY <1>1, PlaceIs
<1>5. Place' = [Place EXCEPT ![c] = "waiting"]
  <2>1. PlaceOf("waiting") = "waiting"
    BY DEF PlaceOf
  <2>2. Place' = [d \in Call |-> PlaceOf(turn'[d])]
    BY DEF Place
  <2>3. turn' = [d \in Call |-> IF d = c THEN "waiting" ELSE turn[d]]
    BY <1>1 DEF QueueTypeOK
  <2> QED BY <2>1, <2>2, <2>3 DEF Place
<1>6. Mutex!InLine(s) = {d \in Call : session[d] = s /\ Active(d)}
  <2>1. Mutex!InLine(s) = {d \in Call : session[d] = s /\ Place[d] \in {"waiting", "served"}}
    BY DEF Mutex!InLine, Place, PlaceOf
  <2>2. \A d \in Call : Place[d] \in {"waiting", "served"} <=> Active(d)
    BY PlaceIs DEF Active
  <2> QED BY <2>1, <2>2
<1>7. Ahead' = [Ahead EXCEPT ![c] = {d \in Call : session[d] = s /\ Active(d)}]
  <2>1. Ahead'[c] = {d \in Call : session[d] = s /\ Active(d)}
    <3>1. Ahead'[c] = {d \in Call : d < c /\ session'[d] = session'[c] /\ Active(d)'}
      BY <1>3 DEF Ahead
    <3>2. \A d \in Call : (d < c /\ session'[d] = session'[c] /\ Active(d)')
                            <=> (session[d] = s /\ Active(d))
      BY <1>2, <1>3 DEF Active, Call
    <3> QED BY <3>1, <3>2
  <2>2. ASSUME NEW e \in Call, e # c
        PROVE  Ahead'[e] = Ahead[e]
    <3>1. Active(e) => \A d \in Call : (d < e /\ session'[d] = session'[e] /\ Active(d)')
                                         <=> (d < e /\ session[d] = session[e] /\ Active(d))
      <4> SUFFICES ASSUME Active(e), NEW d \in Call
                   PROVE  (d < e /\ session'[d] = session'[e] /\ Active(d)')
                            <=> (d < e /\ session[d] = session[e] /\ Active(d))
        OBVIOUS
      <4>1. e < c
        BY <2>2, <1>2 DEF Active
      <4>2. CASE d = c
        BY <4>1, <4>2 DEF Call
      <4>3. CASE d # c
        BY <4>3, <2>2, <1>3
      <4> QED BY <4>2, <4>3
    <3>2. Active(e)' <=> Active(e)
      BY <2>2, <1>3
    <3> QED BY <3>1, <3>2 DEF Ahead
  <2>3. Ahead' = [d \in Call |-> Ahead'[d]] /\ Ahead = [d \in Call |-> Ahead[d]]
    BY DEF Ahead
  <2> QED BY <2>1, <2>2, <2>3
<1> QED BY <1>1, <1>4, <1>5, <1>6, <1>7 DEF Mutex!Join, Place, PlaceOf, Ahead

\* An operation that begins is served: it had nobody to wait for.
LEMMA BeginRefines ==
  ASSUME QueueInv, NEW c \in Call, Begin(c)
  PROVE  Mutex!Serve(c)
<1>1. /\ turn' = [turn EXCEPT ![c] = "in"] /\ turn[c] = "waiting"
      /\ session' = session
  BY DEF Begin, IsTurn
<1> QueueTypeOK
  BY DEF QueueInv
<1>2. \A d \in Call : /\ d # c => turn'[d] = turn[d]
                      /\ Active(d)' <=> Active(d)
  BY <1>1 DEF QueueTypeOK, Active
<1>3. Place[c] = "waiting"
  BY <1>1, PlaceIs
<1>4. Place' = [Place EXCEPT ![c] = "served"]
  <2>1. PlaceOf("in") = "served"
    BY DEF PlaceOf
  <2>2. Place' = [d \in Call |-> PlaceOf(turn'[d])]
    BY DEF Place
  <2>3. turn' = [d \in Call |-> IF d = c THEN "in" ELSE turn[d]]
    BY <1>1 DEF QueueTypeOK
  <2> QED BY <2>1, <2>2, <2>3 DEF Place
<1>5. Ahead[c] = {}
  BY FirstIsFree DEF Begin
<1>6. Ahead' = Ahead
  BY <1>1, <1>2 DEF Ahead
<1> QED BY <1>1, <1>3, <1>4, <1>5, <1>6 DEF Mutex!Serve, Place, PlaceOf, Ahead

\* An operation that is over, or throws at once, goes, and nobody waits for it.
LEMMA ReleaseRefines ==
  ASSUME QueueInv, NEW c \in Call, IsTurn(c) \/ turn[c] = "in", Release(c)
  PROVE  Mutex!Go(c)
<1>1. /\ turn' = [turn EXCEPT ![c] = "left"] /\ turn[c] \in {"waiting", "in"}
      /\ session' = session
  BY DEF Release, IsTurn
<1> QueueTypeOK
  BY DEF QueueInv
<1>2. /\ \A d \in Call : d # c => turn'[d] = turn[d] /\ (Active(d)' <=> Active(d))
      /\ turn'[c] = "left" /\ ~Active(c)'
  BY <1>1 DEF QueueTypeOK, Active
<1>3. Place[c] \in {"waiting", "served"}
  BY <1>1, PlaceIs
<1>4. Place' = [Place EXCEPT ![c] = "gone"]
  <2>1. PlaceOf("left") = "gone"
    BY DEF PlaceOf
  <2>2. Place' = [d \in Call |-> PlaceOf(turn'[d])]
    BY DEF Place
  <2>3. turn' = [d \in Call |-> IF d = c THEN "left" ELSE turn[d]]
    BY <1>1 DEF QueueTypeOK
  <2> QED BY <2>1, <2>2, <2>3 DEF Place
<1>5. Ahead[c] = {}
  BY FirstIsFree
<1>6. Ahead' = [d \in Call |-> Ahead[d] \ {c}]
  <2>1. ASSUME NEW d \in Call
        PROVE  Ahead'[d] = Ahead[d] \ {c}
    <3>1. CASE d = c
      BY <3>1, <1>2, <1>5 DEF Ahead
    <3>2. CASE d # c
      <4>1. Ahead'[d] = IF Active(d)' THEN {e \in Call : e < d /\ session'[e] = session'[d] /\ Active(e)'}
                        ELSE {}
        BY DEF Ahead
      <4>2. Ahead[d] = IF Active(d) THEN {e \in Call : e < d /\ session[e] = session[d] /\ Active(e)}
                       ELSE {}
        BY DEF Ahead
      <4>3. {e \in Call : e < d /\ session'[e] = session'[d] /\ Active(e)'}
              = {e \in Call : e < d /\ session[e] = session[d] /\ Active(e)} \ {c}
        BY <1>1, <1>2
      <4> QED BY <4>1, <4>2, <4>3, <3>2, <1>2
    <3> QED BY <3>1, <3>2
  <2>2. Ahead' = [d \in Call |-> Ahead'[d]]
    BY DEF Ahead
  <2> QED BY <2>1, <2>2
<1> QED BY <1>1, <1>3, <1>4, <1>5, <1>6 DEF Mutex!Go, Place, PlaceOf, Ahead

\* Every step of the chain is one of the queue, or none.
LEMMA StepRefines == QueueInv /\ [QueueNext]_queueVars => [Mutex!Next]_(Mutex!fifoVars)
<1> SUFFICES ASSUME QueueInv, [QueueNext]_queueVars
             PROVE  Mutex!Next \/ UNCHANGED Mutex!fifoVars
  OBVIOUS
<1>1. CASE UNCHANGED queueVars
  BY <1>1 DEF queueVars, Mutex!fifoVars, Active
<1>2. CASE QueueNext
  <2> PICK c \in Call : \/ \E s \in Session : Enter(c, s)
                        \/ Begin(c) \/ Leave(c) \/ Skip(c)
    BY <1>2 DEF QueueNext
  <2>1. CASE \E s \in Session : Enter(c, s)
    BY <2>1, EnterRefines DEF Mutex!Next
  <2>2. CASE Begin(c)
    BY <2>2, BeginRefines DEF Mutex!Next
  <2>3. CASE Leave(c) \/ Skip(c)
    BY <2>3, ReleaseRefines DEF Mutex!Next, Leave, Skip
  <2> QED BY <2>1, <2>2, <2>3
<1> QED BY <1>1, <1>2

\* The chain of promises is a queue: each call waits for those who came to its
\* session before it and for nobody else.
THEOREM QueueImplementsMutex == QueueSpec => ImplementsMutex
<1> QED BY QueueInvariant, InitRefines, StepRefines, PTL
        DEF QueueSpec, ImplementsMutex, Mutex!FifoSpec
=============================================================================
