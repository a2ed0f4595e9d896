----------------------------- MODULE HotSwapProofs -----------------------------
(***************************************************************************)
(* Theorems about HotSwap, for any builds, chunks, tools and faults.       *)
(***************************************************************************)
EXTENDS HotSwap, SequenceTheorems, TLAPS

Source == Build \cup {NoBuild}

\* What a caller can be doing: it transfers a build, piece by piece.
Doing == {d \in [step : Step, source : Source, buildId : Source, sent : Nat,
                 outcome : {"none", "swapped", "failed"}] :
            /\ d.step \in {"status", "begin", "chunk", "commit"} => d.source \in Build
            /\ d.step = "begin" => d.sent = 0
            /\ d.step = "chunk" => d.sent \in 1..Chunks[d.source]}

\* What can be on the wire and in the loader.
Sent     == {r \in Requests : r.kind # "revert" => r.source \in Build}
Awaited  == [by : Caller, kind : {"commit", "refresh"}, of : Build]
Transfer == {f \in [source : Source, chunks : Seq(Source)] : f = NoTransfer \/ f.source \in Build}

\* Every request and every task of a caller is its call, and its only one:
\* pu is what the callers are doing, w the wire and q the loader's tasks.
OneCall(pu, w, q) ==
  /\ \A i \in DOMAIN w : w[i].by # Nobody => pu[w[i].by].step = w[i].kind
  /\ \A i \in DOMAIN q : q[i].by # Nobody => pu[q[i].by].step \in {"commit", "revert"}
  /\ \A i, j \in DOMAIN w : w[i].by = w[j].by => i = j \/ w[i].by = Nobody
  /\ \A i, j \in DOMAIN q : q[i].by = q[j].by => i = j \/ q[i].by = Nobody
  /\ \A i \in DOMAIN w, j \in DOMAIN q : w[i].by = q[j].by => w[i].by = Nobody

Calls(pu, w, q) ==
  /\ pu \in [Pusher -> Doing] /\ w \in Seq(Sent) /\ q \in Seq(Awaited)
  /\ OneCall(pu, w, q)

\* Neither the wire nor the loader has anything of p.
Quiet(p, w, q) == /\ \A i \in DOMAIN w : w[i].by # p
                  /\ \A i \in DOMAIN q : q[i].by # p

Flags == {watching, debounceTimer, pendingResync, stopped, connected} \subseteq BOOLEAN
Files == {bundle, sidecar} \subseteq Source

SwapInv ==
  /\ Files
  /\ Flags
  /\ Calls(push, wire, tasks)
  /\ hotSwapBuffer \in Transfer
  /\ activeDispatcher \in Build

-----------------------------------------------------------------------------
(* The callers. *)

LEMMA NamesAreFresh ==
  /\ Nobody \notin Pusher /\ Watcher \in Pusher /\ Pusher \subseteq Caller /\ Nobody \in Caller
  /\ NoBuild \notin Build /\ Baked \in Build
  /\ \A b \in Build : Chunks[b] \in Nat \ {0}
BY HotSwapAssumption DEF Pusher, Caller

LEMMA StillIsDoing ==
  ASSUME NEW o \in {"none", "swapped", "failed"}
  PROVE  Still(o) \in Doing
BY DEF Still, Doing, Step, Source

\* A caller with nothing on its way makes its next request, or rests.
LEMMA Asking ==
  ASSUME NEW pu, NEW rest, NEW q, NEW p \in Pusher, NEW d \in Doing, NEW r \in Sent,
         Calls(pu, rest, q), Quiet(p, rest, q), r.by = p, r.kind = d.step
  PROVE  Calls([pu EXCEPT ![p] = d], Append(rest, r), q)
<1> DEFINE w == Append(rest, r)  now == [pu EXCEPT ![p] = d]
<1>1. pu \in [Pusher -> Doing] /\ rest \in Seq(Sent) /\ q \in Seq(Awaited) /\ OneCall(pu, rest, q)
  BY DEF Calls
<1>2. /\ w \in Seq(Sent) /\ DOMAIN w = 1..(Len(rest) + 1) /\ DOMAIN rest = 1..Len(rest)
      /\ Len(rest) \in Nat
      /\ w[Len(rest) + 1] = r
      /\ \A i \in 1..Len(rest) : w[i] = rest[i]
  BY <1>1, AppendProperties, LenProperties
<1>3. now \in [Pusher -> Doing] /\ now[p] = d /\ \A c : c \in Pusher /\ c # p => now[c] = pu[c]
  BY <1>1
<1>4. \A i \in DOMAIN rest : rest[i].by \in Caller /\ rest[i].by # p
  BY <1>1, ElementOfSeq, <1>2 DEF Quiet, Sent, Requests
<1>5. \A i \in DOMAIN q : q[i].by \in Caller /\ q[i].by # p
  <2>1. DOMAIN q = 1..Len(q) /\ \A i \in 1..Len(q) : q[i] \in Awaited
    BY <1>1, ElementOfSeq, LenProperties
  <2> QED
    BY <2>1 DEF Quiet, Awaited
<1>6. \A c \in Caller : c # Nobody => c \in Pusher
  BY DEF Caller
<1> HIDE DEF w, now
<1>7. \A i \in DOMAIN w : w[i].by # Nobody => now[w[i].by].step = w[i].kind
  BY <1>1, <1>2, <1>3, <1>4, <1>6 DEF OneCall
<1>8. \A i \in DOMAIN q : q[i].by # Nobody => now[q[i].by].step \in {"commit", "revert"}
  BY <1>1, <1>3, <1>5, <1>6 DEF OneCall
<1>9. \A i, j \in DOMAIN w : w[i].by = w[j].by => i = j \/ w[i].by = Nobody
  BY <1>1, <1>2, <1>4 DEF OneCall
<1>10. \A i \in DOMAIN w, j \in DOMAIN q : w[i].by = q[j].by => w[i].by = Nobody
  BY <1>1, <1>2, <1>5 DEF OneCall
<1> QED
  BY <1>1, <1>2, <1>3, <1>7, <1>8, <1>9, <1>10 DEF Calls, OneCall, w, now

LEMMA Resting ==
  ASSUME NEW pu, NEW rest, NEW q, NEW p \in Pusher, NEW d \in Doing,
         Calls(pu, rest, q), Quiet(p, rest, q)
  PROVE  Calls([pu EXCEPT ![p] = d], rest, q)
<1> DEFINE now == [pu EXCEPT ![p] = d]
<1>1. pu \in [Pusher -> Doing] /\ rest \in Seq(Sent) /\ q \in Seq(Awaited) /\ OneCall(pu, rest, q)
  BY DEF Calls
<1>2. now \in [Pusher -> Doing] /\ \A c : c \in Pusher /\ c # p => now[c] = pu[c]
  BY <1>1
<1>3. \A i \in DOMAIN rest : rest[i].by \in Caller /\ rest[i].by # p
  BY <1>1, ElementOfSeq, LenProperties DEF Quiet, Sent, Requests
<1>4. \A i \in DOMAIN q : q[i].by \in Caller /\ q[i].by # p
  <2>1. DOMAIN q = 1..Len(q) /\ \A i \in 1..Len(q) : q[i] \in Awaited
    BY <1>1, ElementOfSeq, LenProperties
  <2> QED
    BY <2>1 DEF Quiet, Awaited
<1>5. \A c \in Caller : c # Nobody => c \in Pusher
  BY DEF Caller
<1> HIDE DEF now
<1>6. OneCall(now, rest, q)
  BY <1>1, <1>2, <1>3, <1>4, <1>5 DEF OneCall
<1> QED
  BY <1>1, <1>2, <1>6 DEF Calls, now

\* What has left the wire or the loader, or is Nobody's now, is no call any more.
LEMMA FewerCalls ==
  ASSUME NEW pu, NEW w, NEW q, Calls(pu, w, q)
  PROVE  /\ w # <<>> => Calls(pu, Tail(w), q)
         /\ w # <<>> => (Head(w).by # Nobody => Quiet(Head(w).by, Tail(w), q))
         /\ w # <<>> => Head(w) \in Sent /\ (Head(w).by # Nobody => pu[Head(w).by].step = Head(w).kind)
         /\ Calls(pu, <<>>, q)
<1>1. pu \in [Pusher -> Doing] /\ w \in Seq(Sent) /\ q \in Seq(Awaited) /\ OneCall(pu, w, q)
  BY DEF Calls
<1>2. DOMAIN w = 1..Len(w) /\ Len(w) \in Nat
  BY <1>1, LenProperties
<1>3. Calls(pu, <<>>, q)
  BY <1>1, EmptySeq DEF Calls, OneCall
<1>4. ASSUME w # <<>>
      PROVE  /\ Calls(pu, Tail(w), q)
             /\ Head(w).by # Nobody => Quiet(Head(w).by, Tail(w), q)
             /\ Head(w) \in Sent /\ (Head(w).by # Nobody => pu[Head(w).by].step = Head(w).kind)
  <2>1. /\ Tail(w) \in Seq(Sent) /\ Head(w) \in Sent /\ Len(Tail(w)) = Len(w) - 1
        /\ \A i \in 1..Len(Tail(w)) : Tail(w)[i] = w[i + 1]
    BY <1>1, <1>4, HeadTailProperties
  <2>2. DOMAIN Tail(w) = 1..(Len(w) - 1)
    BY <2>1, LenProperties
  <2>3. \A i \in DOMAIN Tail(w) : i + 1 \in DOMAIN w /\ Tail(w)[i] = w[i + 1] /\ i + 1 # 1
    BY <1>2, <2>1, <2>2
  <2>4. Head(w) = w[1] /\ 1 \in DOMAIN w
    BY <1>1, <1>2, <1>4, HeadTailProperties, EmptySeq
  <2>5. \A i, j \in DOMAIN Tail(w) : i + 1 = j + 1 => i = j
    BY <2>2, <1>2
  <2>6. OneCall(pu, Tail(w), q)
    BY <1>1, <2>3, <2>5 DEF OneCall
  <2> QED
    BY <1>1, <2>1, <2>3, <2>4, <2>6 DEF OneCall, Calls, Quiet
<1> QED
  BY <1>3, <1>4

\* The i-th task is done.
LEMMA OneTaskLess ==
  ASSUME NEW pu, NEW w, NEW q, Calls(pu, w, q), NEW i \in DOMAIN q
  PROVE  /\ Calls(pu, w, RemoveAt(q, i))
         /\ q[i].by # Nobody => Quiet(q[i].by, w, RemoveAt(q, i))
         /\ q[i] \in Awaited
         /\ q[i].by # Nobody => pu[q[i].by].step \in {"commit", "revert"}
<1> DEFINE left == SubSeq(q, 1, i - 1)  right == SubSeq(q, i + 1, Len(q))
<1>1. pu \in [Pusher -> Doing] /\ w \in Seq(Sent) /\ q \in Seq(Awaited) /\ OneCall(pu, w, q)
  BY DEF Calls
<1>2. DOMAIN q = 1..Len(q) /\ Len(q) \in Nat /\ i \in 1..Len(q)
  BY <1>1, LenProperties
<1>3. \A j \in 1..(i - 1) : j \in 1..Len(q)
  BY <1>2
<1>4. /\ left \in Seq(Awaited) /\ Len(left) = i - 1
      /\ \A j \in 1..(i - 1) : left[j] = q[j]
  <2>1. 1 \in Int /\ i - 1 \in Int /\ \A j \in 1..(i - 1) : q[j] \in Awaited
    BY <1>1, <1>2, ElementOfSeq
  <2>2. left \in Seq(Awaited) /\ Len(left) = IF 1 <= i - 1 THEN (i - 1) - 1 + 1 ELSE 0
    BY <1>1, <1>2, SubSeqProperties
  <2>3. \A j \in 1..(i - 1) : left[j] = q[1 + j - 1]
    BY <1>1, <1>2, SubSeqProperties
  <2> QED
    BY <1>2, <2>2, <2>3
<1>5. /\ right \in Seq(Awaited) /\ Len(right) = Len(q) - i
      /\ \A j \in 1..(Len(q) - i) : right[j] = q[i + j]
  <2>1. right \in Seq(Awaited) /\ Len(right) = IF i + 1 <= Len(q) THEN Len(q) - (i + 1) + 1 ELSE 0
    BY <1>1, <1>2, SubSeqProperties
  <2>2. \A j \in 1..(Len(q) - (i + 1) + 1) : right[j] = q[i + 1 + j - 1]
    BY <1>1, <1>2, SubSeqProperties
  <2> QED
    BY <1>2, <2>1, <2>2
<1> HIDE DEF left, right
<1>6. /\ left \o right \in Seq(Awaited) /\ Len(left \o right) = Len(q) - 1
      /\ \A j \in 1..(Len(q) - 1) :
           (left \o right)[j] = IF j <= i - 1 THEN left[j] ELSE right[j - (i - 1)]
  <2>1. /\ left \o right \in Seq(Awaited) /\ Len(left \o right) = Len(left) + Len(right)
        /\ \A j \in 1..(Len(left) + Len(right)) :
             (left \o right)[j] = IF j <= Len(left) THEN left[j] ELSE right[j - Len(left)]
    BY <1>4, <1>5, ConcatProperties
  <2>2. Len(left) = i - 1 /\ Len(left) + Len(right) = Len(q) - 1
    BY <1>2, <1>4, <1>5
  <2> QED
    BY <2>1, <2>2
<1>7. RemoveAt(q, i) = left \o right
  BY DEF RemoveAt, left, right
<1>8. /\ RemoveAt(q, i) \in Seq(Awaited) /\ DOMAIN RemoveAt(q, i) = 1..(Len(q) - 1)
      /\ \A j \in 1..(Len(q) - 1) : RemoveAt(q, i)[j] = q[IF j < i THEN j ELSE j + 1]
  <2>1. DOMAIN RemoveAt(q, i) = 1..(Len(q) - 1)
    BY <1>6, <1>7, LenProperties
  <2>2. ASSUME NEW j \in 1..(Len(q) - 1)
        PROVE  RemoveAt(q, i)[j] = q[IF j < i THEN j ELSE j + 1]
    <3>1. CASE j < i
      BY <1>2, <1>4, <1>6, <1>7, <2>2, <3>1
    <3>2. CASE ~(j < i)
      <4>1. RemoveAt(q, i)[j] = right[j - (i - 1)] /\ j - (i - 1) \in 1..(Len(q) - i)
        BY <1>2, <1>6, <1>7, <2>2, <3>2
      <4>2. right[j - (i - 1)] = q[i + (j - (i - 1))] /\ i + (j - (i - 1)) = j + 1
        BY <1>2, <1>5, <2>2, <4>1
      <4> QED
        BY <3>2, <4>1, <4>2
    <3> QED
      BY <3>1, <3>2
  <2> QED
    BY <1>6, <1>7, <2>1, <2>2
<1> DEFINE at(j) == IF j < i THEN j ELSE j + 1
<1>9. \A j \in DOMAIN RemoveAt(q, i) : at(j) \in DOMAIN q /\ at(j) # i /\ RemoveAt(q, i)[j] = q[at(j)]
  BY <1>2, <1>8
<1>10. \A j, k \in DOMAIN RemoveAt(q, i) : at(j) = at(k) => j = k
  BY <1>2, <1>8
<1> HIDE DEF at
<1>11. OneCall(pu, w, RemoveAt(q, i))
  BY <1>1, <1>9, <1>10 DEF OneCall
<1>12. q[i] \in Awaited
  BY <1>1, <1>2, ElementOfSeq
<1>13. q[i].by # Nobody => Quiet(q[i].by, w, RemoveAt(q, i))
  BY <1>1, <1>9 DEF OneCall, Quiet
<1> QED
  BY <1>1, <1>8, <1>11, <1>12, <1>13 DEF Calls, OneCall

\* A call goes from the wire to the loader, and on in it.
LEMMA OneTaskMore ==
  ASSUME NEW pu, NEW w, NEW q, NEW r \in Awaited, Calls(pu, w, q),
         r.by # Nobody => Quiet(r.by, w, q) /\ pu[r.by].step \in {"commit", "revert"}
  PROVE  Calls(pu, w, Append(q, r))
<1>1. pu \in [Pusher -> Doing] /\ w \in Seq(Sent) /\ q \in Seq(Awaited) /\ OneCall(pu, w, q)
  BY DEF Calls
<1>2. /\ Append(q, r) \in Seq(Awaited) /\ DOMAIN Append(q, r) = 1..(Len(q) + 1)
      /\ DOMAIN q = 1..Len(q) /\ Len(q) \in Nat /\ Append(q, r)[Len(q) + 1] = r
      /\ \A i \in 1..Len(q) : Append(q, r)[i] = q[i]
  BY <1>1, AppendProperties, LenProperties
<1>3. OneCall(pu, w, Append(q, r))
  BY <1>1, <1>2 DEF OneCall, Quiet
<1> QED
  BY <1>1, <1>2, <1>3 DEF Calls

LEMMA TaskGoesOn ==
  ASSUME NEW pu, NEW w, NEW q, Calls(pu, w, q), NEW i \in DOMAIN q
  PROVE  Calls(pu, w, [q EXCEPT ![i].kind = "refresh"])
<1> DEFINE now == [q EXCEPT ![i].kind = "refresh"]
<1>1. pu \in [Pusher -> Doing] /\ w \in Seq(Sent) /\ q \in Seq(Awaited) /\ OneCall(pu, w, q)
  BY DEF Calls
<1>2. DOMAIN q = 1..Len(q) /\ Len(q) \in Nat /\ \A j \in DOMAIN q : q[j] \in Awaited
  BY <1>1, LenProperties, ElementOfSeq
<1>3. q \in [1..Len(q) -> Awaited]
  BY <1>1, LenProperties
<1>4. now \in [1..Len(q) -> Awaited] /\ \A j \in DOMAIN q : now[j].by = q[j].by
  BY <1>2, <1>3 DEF Awaited
<1>5. now \in Seq(Awaited) /\ DOMAIN now = DOMAIN q
  BY <1>2, <1>4, IsASeq
<1>6. OneCall(pu, w, now)
  BY <1>1, <1>4, <1>5 DEF OneCall
<1> QED
  BY <1>1, <1>5, <1>6 DEF Calls

LEMMA GivenUp ==
  ASSUME NEW pu, NEW w, NEW q, Calls(pu, w, q), NEW P \in SUBSET Pusher
  PROVE  /\ Calls(pu, Orphan(P, w), Orphan(P, q))
         /\ Calls(pu, w, Orphan(P, q))
         /\ \A p \in P : Quiet(p, Orphan(P, w), Orphan(P, q))
         /\ \A p \in P : Quiet(p, <<>>, Orphan(P, q))
<1>1. pu \in [Pusher -> Doing] /\ w \in Seq(Sent) /\ q \in Seq(Awaited) /\ OneCall(pu, w, q)
  BY DEF Calls
<1>2. Nobody \in Caller /\ Nobody \notin P
  BY NamesAreFresh
<1>3. \A r \in Sent : [r EXCEPT !.by = Nobody] \in Sent
  BY <1>2 DEF Sent, Requests
<1>4. \A r \in Awaited : [r EXCEPT !.by = Nobody] \in Awaited
  BY <1>2 DEF Awaited
<1>5. DOMAIN w = 1..Len(w) /\ Len(w) \in Nat /\ \A i \in 1..Len(w) : w[i] \in Sent
  BY <1>1, LenProperties, ElementOfSeq
<1>6. DOMAIN q = 1..Len(q) /\ Len(q) \in Nat /\ \A i \in 1..Len(q) : q[i] \in Awaited
  BY <1>1, LenProperties, ElementOfSeq
<1>7. /\ Orphan(P, w) \in Seq(Sent) /\ DOMAIN Orphan(P, w) = DOMAIN w
      /\ \A i \in DOMAIN w : Orphan(P, w)[i] = IF w[i].by \in P THEN [w[i] EXCEPT !.by = Nobody]
                                               ELSE w[i]
  <2>1. Orphan(P, w) \in [1..Len(w) -> Sent]
    BY <1>3, <1>5 DEF Orphan
  <2> QED
    BY <1>1, <1>5, <2>1, IsASeq DEF Orphan
<1>8. /\ Orphan(P, q) \in Seq(Awaited) /\ DOMAIN Orphan(P, q) = DOMAIN q
      /\ \A i \in DOMAIN q : Orphan(P, q)[i] = IF q[i].by \in P THEN [q[i] EXCEPT !.by = Nobody]
                                               ELSE q[i]
  <2>1. Orphan(P, q) \in [1..Len(q) -> Awaited]
    BY <1>4, <1>6 DEF Orphan
  <2> QED
    BY <1>1, <1>6, <2>1, IsASeq DEF Orphan
<1>9. \A i \in DOMAIN w : /\ Orphan(P, w)[i].by = (IF w[i].by \in P THEN Nobody ELSE w[i].by)
                          /\ Orphan(P, w)[i].kind = w[i].kind
  BY <1>5, <1>7 DEF Sent, Requests
<1>10. \A i \in DOMAIN q : Orphan(P, q)[i].by = (IF q[i].by \in P THEN Nobody ELSE q[i].by)
  BY <1>6, <1>8 DEF Awaited
<1>11. OneCall(pu, Orphan(P, w), Orphan(P, q))
  BY <1>1, <1>7, <1>8, <1>9, <1>10 DEF OneCall
<1>12. OneCall(pu, w, Orphan(P, q))
  BY <1>1, <1>8, <1>10 DEF OneCall
<1>13. \A p \in P : Quiet(p, Orphan(P, w), Orphan(P, q)) /\ Quiet(p, <<>>, Orphan(P, q))
  BY <1>2, <1>7, <1>8, <1>9, <1>10 DEF Quiet
<1> QED
  BY <1>1, <1>7, <1>8, <1>11, <1>12, <1>13 DEF Calls

LEMMA IdleIsQuiet ==
  ASSUME NEW pu, NEW w, NEW q, Calls(pu, w, q), NEW p \in Pusher, pu[p].step = "idle"
  PROVE  Quiet(p, w, q)
<1>1. /\ DOMAIN w = 1..Len(w) /\ \A i \in 1..Len(w) : w[i] \in Sent
      /\ OneCall(pu, w, q)
  BY LenProperties, ElementOfSeq DEF Calls
<1> QED
  BY <1>1, NamesAreFresh DEF OneCall, Quiet, Sent, Requests

\* What Finish, StartSync, Proceed and Answer do to the calls.
LEMMA SyncStarts ==
  ASSUME NEW rest, NEW q, Calls(push, rest, q), Quiet(Watcher, rest, q), Files, StartSync(rest)
  PROVE  Calls(push', wire', q)
<1>1. CASE bundle = NoBuild
  <2>1. Still("failed") \in Doing
    BY StillIsDoing
  <2> QED
    BY <1>1, <2>1, Resting, NamesAreFresh DEF StartSync
<1>2. CASE bundle # NoBuild
  <2> DEFINE d == [step |-> "status", source |-> bundle, buildId |-> sidecar,
                   sent |-> 0, outcome |-> "none"]
             r == Request(Watcher, "status", bundle, 0)
  <2>1. bundle \in Build /\ sidecar \in Source
    BY <1>2 DEF Files, Source
  <2>2. d \in Doing
    BY <2>1 DEF Doing, Step, Source
  <2>3. r \in Sent /\ r.by = Watcher /\ r.kind = d.step
    BY <2>1, NamesAreFresh DEF Request, Sent, Requests, Step, Source
  <2>4. push' = [push EXCEPT ![Watcher] = d] /\ wire' = Append(rest, r)
    BY <1>2 DEF StartSync, Asks
  <2> HIDE DEF d, r
  <2>5. Calls([push EXCEPT ![Watcher] = d], Append(rest, r), q)
    BY <2>2, <2>3, Asking, NamesAreFresh
  <2> QED
    BY <2>4, <2>5
<1> QED
  BY <1>1, <1>2

LEMMA CallFinishes ==
  ASSUME NEW rest, NEW q, NEW p \in Pusher, NEW o \in {"none", "swapped", "failed"},
         Calls(push, rest, q), Quiet(p, rest, q), Files, pendingResync \in BOOLEAN,
         Finish(p, rest, o)
  PROVE  Calls(push', wire', q) /\ pendingResync' \in BOOLEAN
<1>1. CASE p = Watcher /\ pendingResync /\ connected /\ ~stopped
  BY <1>1, SyncStarts DEF Finish
<1>2. CASE ~(p = Watcher /\ pendingResync /\ connected /\ ~stopped)
  <2>1. Still(o) \in Doing
    BY StillIsDoing
  <2>2. push' = [push EXCEPT ![p] = Still(o)] /\ wire' = rest
    BY <1>2 DEF Finish
  <2>3. pendingResync' = (pendingResync /\ p # Watcher)
    BY <1>2, Zenon DEF Finish
  <2>4. Calls([push EXCEPT ![p] = Still(o)], rest, q)
    BY <2>1, Resting
  <2> QED
    BY <2>2, <2>3, <2>4
<1> QED
  BY <1>1, <1>2

LEMMA CallProceeds ==
  ASSUME NEW rest, NEW q, NEW p \in Pusher, NEW result,
         Calls(push, rest, q), Quiet(p, rest, q), Files, pendingResync \in BOOLEAN,
         push[p].step # "idle", Proceed(p, rest, result)
  PROVE  Calls(push', wire', q) /\ pendingResync' \in BOOLEAN
<1> DEFINE source == push[p].source
           Next(kind, seq) == Asks(p, rest, kind, source, push[p].buildId, seq)
                              /\ UNCHANGED pendingResync
<1>1. /\ push[p] \in Doing
      /\ push[p].step \in Step /\ source \in Source /\ push[p].buildId \in Source /\ push[p].sent \in Nat
      /\ push[p].step \in {"status", "begin", "chunk", "commit"} => source \in Build
      /\ push[p].step = "begin" => push[p].sent = 0
      /\ push[p].step = "chunk" => push[p].sent \in 1..Chunks[source]
  BY DEF Calls, Doing
<1>2. push[p].step \in {"begin", "chunk"} =>
        /\ Chunks[source] \in Nat \ {0}
        /\ push[p].sent < Chunks[source] \/ (push[p].step = "chunk" /\ push[p].sent = Chunks[source])
  BY <1>1, NamesAreFresh
<1>3. \/ push[p].step = "status" /\ result = push[p].buildId /\ Finish(p, rest, "none")
      \/ push[p].step = "status" /\ result # push[p].buildId /\ Next("begin", 0)
      \/ /\ push[p].step \in {"begin", "chunk"} /\ push[p].sent < Chunks[source]
         /\ Next("chunk", push[p].sent + 1)
      \/ push[p].step = "chunk" /\ push[p].sent = Chunks[source] /\ Next("commit", 0)
      \/ push[p].step = "commit" /\ Finish(p, rest, PushOutcome(p, result))
      \/ push[p].step = "revert" /\ Finish(p, rest, "none")
  BY <1>1, <1>2 DEF Proceed, Step
<1>4. PushOutcome(p, result) \in {"swapped", "failed"}
  BY DEF PushOutcome
<1>5. ASSUME NEW kind \in {"begin", "chunk", "commit"}, NEW seq \in Nat, Next(kind, seq),
             source \in Build, kind = "begin" => seq = 0, kind = "chunk" => seq \in 1..Chunks[source]
      PROVE  Calls(push', wire', q) /\ pendingResync' \in BOOLEAN
  <2> DEFINE d == [step |-> kind, source |-> source, buildId |-> push[p].buildId,
                   sent |-> seq, outcome |-> "none"]
             r == Request(p, kind, source, seq)
  <2>1. d \in Doing
    BY <1>1, <1>5 DEF Doing, Step, Source
  <2>2. r \in Sent /\ r.by = p /\ r.kind = d.step
    BY <1>5, NamesAreFresh DEF Request, Sent, Requests, Step, Source
  <2>3. push' = [push EXCEPT ![p] = d] /\ wire' = Append(rest, r) /\ pendingResync' = pendingResync
    BY <1>5 DEF Asks
  <2> HIDE DEF d, r
  <2>4. Calls([push EXCEPT ![p] = d], Append(rest, r), q)
    BY <2>1, <2>2, Asking
  <2> QED
    BY <2>3, <2>4
<1>6. CASE Finish(p, rest, "none") \/ Finish(p, rest, PushOutcome(p, result))
  BY <1>4, <1>6, CallFinishes
<1>7. CASE push[p].step = "status" /\ Next("begin", 0)
  BY <1>1, <1>5, <1>7
<1>8. CASE /\ push[p].step \in {"begin", "chunk"} /\ push[p].sent < Chunks[source]
           /\ Next("chunk", push[p].sent + 1)
  <2>1. source \in Build /\ push[p].sent + 1 \in 1..Chunks[source] /\ push[p].sent + 1 \in Nat
    BY <1>1, <1>2, <1>8
  <2> HIDE DEF Next
  <2> QED
    BY <1>5, <1>8, <2>1
<1>9. CASE push[p].step = "chunk" /\ Next("commit", 0)
  BY <1>1, <1>5, <1>9
<1> QED
  BY <1>3, <1>6, <1>7, <1>8, <1>9

LEMMA CallIsAnswered ==
  ASSUME NEW rest, NEW q, NEW p \in Caller, NEW ok \in BOOLEAN, NEW result,
         Calls(push, rest, q), Files, pendingResync \in BOOLEAN,
         p # Nobody => Quiet(p, rest, q) /\ push[p].step # "idle",
         Answer(p, rest, ok, result)
  PROVE  Calls(push', wire', q) /\ pendingResync' \in BOOLEAN
<1>1. CASE p = Nobody
  BY <1>1 DEF Answer
<1>2. CASE p # Nobody
  <2>1. p \in Pusher
    BY <1>2 DEF Caller
  <2>2. (ok /\ Proceed(p, rest, result)) \/ (~ok /\ Finish(p, rest, "failed"))
    BY <1>2 DEF Answer
  <2> QED
    BY <1>2, <2>1, <2>2, CallProceeds, CallFinishes
<1> QED
  BY <1>1, <1>2
-----------------------------------------------------------------------------
(* The invariant. *)

LEMMA InitIsTyped == SwapInit => SwapInv
<1> SUFFICES ASSUME SwapInit PROVE SwapInv
  OBVIOUS
<1>1. Still("none") \in Doing
  BY StillIsDoing
<1>2. Calls(push, wire, tasks)
  <2>1. push \in [Pusher -> Doing] /\ wire = <<>> /\ tasks = <<>>
    BY <1>1 DEF SwapInit
  <2> QED
    BY <2>1 DEF Calls, OneCall
<1>3. hotSwapBuffer \in Transfer
  <2>1. NoTransfer \in [source : Source, chunks : Seq(Source)]
    BY DEF NoTransfer, Source
  <2> QED
    BY <2>1 DEF Transfer, SwapInit
<1>4. Files /\ Flags /\ activeDispatcher \in Build
  BY NamesAreFresh DEF SwapInit, Files, Flags, Source
<1> QED
  BY <1>2, <1>3, <1>4 DEF SwapInv

\* The head of the wire is the only call of its caller, and leaves the wire.
LEMMA RequestIsServed ==
  ASSUME SwapInv, NEW kind, IsNextRequest(kind)
  PROVE  /\ Head1 \in Sent /\ Head1.kind = kind /\ Head1.by \in Caller
         /\ Calls(push, Tail(wire), tasks)
         /\ Head1.by # Nobody => /\ Quiet(Head1.by, Tail(wire), tasks)
                                 /\ push[Head1.by].step = kind
         /\ Head1.by # Nobody => push[Head1.by].step # "idle"
         /\ kind # "revert" => Head1.source \in Build
<1>1. wire # <<>> /\ Head1.kind = kind /\ Calls(push, wire, tasks)
  BY DEF IsNextRequest, SwapInv
<1>2. /\ Calls(push, Tail(wire), tasks)
      /\ Head1.by # Nobody => Quiet(Head1.by, Tail(wire), tasks)
      /\ Head1 \in Sent /\ (Head1.by # Nobody => push[Head1.by].step = Head1.kind)
  BY <1>1, FewerCalls DEF Head1
<1>3. Head1.by \in Caller /\ Head1.kind # "idle" /\ (kind # "revert" => Head1.source \in Build)
  BY <1>1, <1>2 DEF Sent, Requests
<1> QED
  BY <1>1, <1>2, <1>3

LEMMA BeginKeeps ==
  ASSUME SwapInv, Begin
  PROVE  Calls(push', wire', tasks') /\ hotSwapBuffer' \in Transfer
         /\ activeDispatcher' \in Build /\ pendingResync' \in BOOLEAN
<1>1. /\ Head1.by \in Caller /\ Calls(push, Tail(wire), tasks) /\ Head1.source \in Build
      /\ Head1.by # Nobody => Quiet(Head1.by, Tail(wire), tasks) /\ push[Head1.by].step # "idle"
  BY RequestIsServed DEF Begin
<1>2. Files /\ pendingResync \in BOOLEAN
  BY DEF SwapInv, Flags
<1>3. Answer(Head1.by, Tail(wire), TRUE, NoBuild) /\ tasks' = tasks /\ activeDispatcher' = activeDispatcher
  BY DEF Begin
<1>4. Calls(push', wire', tasks) /\ pendingResync' \in BOOLEAN
  BY <1>1, <1>2, <1>3, CallIsAnswered
<1>5. hotSwapBuffer' \in Transfer
  <2>1. Chunks[Head1.source] \in Nat
    BY <1>1, NamesAreFresh
  <2>2. [i \in 1..Chunks[Head1.source] |-> NoBuild] \in Seq(Source)
    BY <2>1, IsASeq DEF Source
  <2> QED
    BY <1>1, <2>2 DEF Begin, Transfer, Source
<1> QED
  BY <1>3, <1>4, <1>5 DEF SwapInv

LEMMA ChunkKeeps ==
  ASSUME SwapInv, Chunk
  PROVE  Calls(push', wire', tasks') /\ hotSwapBuffer' \in Transfer
         /\ activeDispatcher' \in Build /\ pendingResync' \in BOOLEAN
<1>1. /\ Head1.by \in Caller /\ Calls(push, Tail(wire), tasks) /\ Head1.source \in Build
      /\ Head1.by # Nobody => Quiet(Head1.by, Tail(wire), tasks) /\ push[Head1.by].step # "idle"
  BY RequestIsServed DEF Chunk
<1>2. Files /\ pendingResync \in BOOLEAN
  BY DEF SwapInv, Flags
<1>3. /\ Answer(Head1.by, Tail(wire), TRUE, NoBuild) \/ Answer(Head1.by, Tail(wire), FALSE, NoBuild)
      /\ tasks' = tasks /\ activeDispatcher' = activeDispatcher
  BY DEF Chunk
<1>4. Calls(push', wire', tasks) /\ pendingResync' \in BOOLEAN
  BY <1>1, <1>2, <1>3, CallIsAnswered
<1>5. hotSwapBuffer' \in Transfer
  <2>1. hotSwapBuffer \in Transfer /\ NoTransfer \in Transfer
    BY EmptySeq DEF SwapInv, Transfer, NoTransfer, Source
  <2>2. \/ hotSwapBuffer' \in {hotSwapBuffer, NoTransfer}
        \/ /\ Head1.seq \in DOMAIN hotSwapBuffer.chunks
           /\ hotSwapBuffer' = [hotSwapBuffer EXCEPT !.chunks[Head1.seq] = Head1.source]
    BY DEF Chunk
  <2>3. CASE hotSwapBuffer' \in {hotSwapBuffer, NoTransfer}
    BY <2>1, <2>3
  <2>4. CASE /\ Head1.seq \in DOMAIN hotSwapBuffer.chunks
             /\ hotSwapBuffer' = [hotSwapBuffer EXCEPT !.chunks[Head1.seq] = Head1.source]
    <3>1. hotSwapBuffer.chunks \in Seq(Source) /\ hotSwapBuffer.source \in Source
      BY <2>1 DEF Transfer
    <3>2. DOMAIN hotSwapBuffer.chunks = 1..Len(hotSwapBuffer.chunks)
      BY <3>1, LenProperties
    <3>3. hotSwapBuffer # NoTransfer
      <4>1. DOMAIN NoTransfer.chunks = {}
        BY DEF NoTransfer
      <4> QED
        BY <2>4, <4>1
    <3>4. hotSwapBuffer.source \in Build
      BY <2>1, <3>3 DEF Transfer
    <3>5. [hotSwapBuffer.chunks EXCEPT ![Head1.seq] = Head1.source] \in Seq(Source)
      BY <1>1, <2>4, <3>1, <3>2, ExceptSeq DEF Source
    <3>6. hotSwapBuffer \in [source : Source, chunks : Seq(Source)]
      BY <2>1 DEF Transfer
    <3>7. hotSwapBuffer' = [source |-> hotSwapBuffer.source,
                            chunks |-> [hotSwapBuffer.chunks EXCEPT ![Head1.seq] = Head1.source]]
      BY <2>4, <3>6
    <3> QED
      BY <3>4, <3>5, <3>7 DEF Transfer, Source
  <2> QED
    BY <2>2, <2>3, <2>4
<1> QED
  BY <1>3, <1>4, <1>5 DEF SwapInv

LEMMA CommitKeeps ==
  ASSUME SwapInv, Commit
  PROVE  Calls(push', wire', tasks') /\ hotSwapBuffer' \in Transfer
         /\ activeDispatcher' \in Build /\ pendingResync' \in BOOLEAN
<1>1. /\ Head1.by \in Caller /\ Calls(push, Tail(wire), tasks)
      /\ Head1.by # Nobody => /\ Quiet(Head1.by, Tail(wire), tasks)
                              /\ push[Head1.by].step = "commit" /\ push[Head1.by].step # "idle"
  BY RequestIsServed DEF Commit
<1>2. Files /\ pendingResync \in BOOLEAN
  BY DEF SwapInv, Flags
<1>3. hotSwapBuffer' \in Transfer
  BY EmptySeq DEF Commit, Transfer, NoTransfer, Source
<1>4. CASE /\ Complete(hotSwapBuffer)
           /\ Verified(hotSwapBuffer)
           /\ tasks' = Append(tasks, [by |-> Head1.by, kind |-> "commit",
                                      of |-> Assembled(hotSwapBuffer)])
           /\ wire' = Tail(wire)
           /\ UNCHANGED <<push, pendingResync>>
  <2>1. Assembled(hotSwapBuffer) \in Build
    BY <1>4 DEF Complete, Verified, SwapInv, Transfer
  <2> DEFINE r == [by |-> Head1.by, kind |-> "commit", of |-> Assembled(hotSwapBuffer)]
  <2>2. r \in Awaited /\ r.by = Head1.by
    BY <1>1, <2>1 DEF Awaited
  <2> HIDE DEF r
  <2>3. Calls(push, Tail(wire), Append(tasks, r))
    BY <1>1, <2>2, OneTaskMore
  <2>4. tasks' = Append(tasks, r) /\ push' = push /\ wire' = Tail(wire) /\ pendingResync' = pendingResync
    BY <1>4 DEF r
  <2> QED
    BY <1>2, <1>3, <2>3, <2>4 DEF Commit, SwapInv
<1>5. CASE Answer(Head1.by, Tail(wire), FALSE, NoBuild) /\ UNCHANGED tasks
  <2>1. Calls(push', wire', tasks) /\ pendingResync' \in BOOLEAN
    BY <1>1, <1>2, <1>5, CallIsAnswered
  <2> QED
    BY <1>3, <1>5, <2>1 DEF Commit, SwapInv
<1> QED
  BY <1>4, <1>5 DEF Commit

LEMMA RevertKeeps ==
  ASSUME SwapInv, Revert
  PROVE  Calls(push', wire', tasks') /\ hotSwapBuffer' \in Transfer
         /\ activeDispatcher' \in Build /\ pendingResync' \in BOOLEAN
<1>1. /\ Head1.by \in Caller /\ Calls(push, Tail(wire), tasks)
      /\ Head1.by # Nobody => Quiet(Head1.by, Tail(wire), tasks) /\ push[Head1.by].step = "revert"
  BY RequestIsServed DEF Revert
<1> DEFINE r == [by |-> Head1.by, kind |-> "refresh", of |-> Baked]
<1>2. r \in Awaited /\ r.by = Head1.by
  BY <1>1, NamesAreFresh DEF Awaited
<1> HIDE DEF r
<1>3. Calls(push, Tail(wire), Append(tasks, r))
  BY <1>1, <1>2, OneTaskMore
<1>4. /\ tasks' = Append(tasks, r) /\ push' = push /\ wire' = Tail(wire)
      /\ pendingResync' = pendingResync /\ hotSwapBuffer' = NoTransfer /\ activeDispatcher' = Baked
  BY DEF Revert, r
<1>5. hotSwapBuffer' \in Transfer
  BY <1>4, EmptySeq DEF Transfer, NoTransfer, Source
<1> QED
  BY <1>3, <1>4, <1>5, NamesAreFresh DEF SwapInv, Flags

LEMMA StatusKeeps ==
  ASSUME SwapInv, LoaderStatus
  PROVE  Calls(push', wire', tasks') /\ hotSwapBuffer' \in Transfer
         /\ activeDispatcher' \in Build /\ pendingResync' \in BOOLEAN
<1>1. /\ Head1.by \in Caller /\ Calls(push, Tail(wire), tasks)
      /\ Head1.by # Nobody => Quiet(Head1.by, Tail(wire), tasks) /\ push[Head1.by].step # "idle"
  BY RequestIsServed DEF LoaderStatus
<1>2. Files /\ pendingResync \in BOOLEAN
  BY DEF SwapInv, Flags
<1>3. Answer(Head1.by, Tail(wire), TRUE, activeDispatcher) /\ UNCHANGED loaderVars
  BY DEF LoaderStatus
<1>4. Calls(push', wire', tasks) /\ pendingResync' \in BOOLEAN
  BY <1>1, <1>2, <1>3, CallIsAnswered
<1> QED
  BY <1>3, <1>4 DEF loaderVars, SwapInv

LEMMA RequestKeeps ==
  ASSUME SwapInv, HandleRequest
  PROVE  SwapInv'
<1>1. /\ Calls(push', wire', tasks') /\ hotSwapBuffer' \in Transfer
      /\ activeDispatcher' \in Build /\ pendingResync' \in BOOLEAN
  BY BeginKeeps, ChunkKeeps, CommitKeeps, RevertKeeps, StatusKeeps DEF HandleRequest
<1>2. UNCHANGED <<bundle, sidecar, watching, debounceTimer, stopped, connected>>
  BY DEF HandleRequest, fileVars, watchVars
<1> QED
  BY <1>1, <1>2 DEF SwapInv, Files, Flags

LEMMA TaskKeeps ==
  ASSUME SwapInv, NEW p \in Caller, LoaderGoesOn(p)
  PROVE  SwapInv'
<1>1. PICK i \in DOMAIN tasks : Swap(i) \/ RefreshMethodListHash(i)
  BY DEF LoaderGoesOn
<1>2. Files /\ pendingResync \in BOOLEAN /\ Calls(push, wire, tasks)
  BY DEF SwapInv, Flags
<1>3. /\ Calls(push, wire, RemoveAt(tasks, i)) /\ tasks[i].by \in Caller /\ tasks[i].of \in Build
      /\ tasks[i].by # Nobody => /\ Quiet(tasks[i].by, wire, RemoveAt(tasks, i))
                                 /\ push[tasks[i].by].step # "idle"
  BY <1>2, OneTaskLess DEF Awaited
<1>4. Calls(push, wire, [tasks EXCEPT ![i].kind = "refresh"])
  BY <1>2, TaskGoesOn
<1>5. /\ UNCHANGED <<bundle, sidecar, watching, debounceTimer, stopped, connected, hotSwapBuffer>>
      /\ \/ /\ activeDispatcher' = tasks[i].of
            /\ tasks' = [tasks EXCEPT ![i].kind = "refresh"]
            /\ UNCHANGED <<pendingResync, push, wire>>
         \/ /\ tasks' = RemoveAt(tasks, i) /\ UNCHANGED activeDispatcher
            /\ \/ Answer(tasks[i].by, wire, FALSE, NoBuild)
               \/ Answer(tasks[i].by, wire, TRUE, tasks[i].of)
  BY <1>1 DEF Swap, RefreshMethodListHash, fileVars, watchVars, callVars
<1>6. CASE /\ activeDispatcher' = tasks[i].of
           /\ tasks' = [tasks EXCEPT ![i].kind = "refresh"]
           /\ UNCHANGED <<pendingResync, push, wire>>
  <2>1. Calls(push', wire', tasks')
    BY <1>4, <1>6
  <2> QED
    BY <1>2, <1>3, <1>5, <1>6, <2>1 DEF SwapInv, Files, Flags
<1>7. CASE /\ tasks' = RemoveAt(tasks, i) /\ UNCHANGED activeDispatcher
           /\ \/ Answer(tasks[i].by, wire, FALSE, NoBuild)
              \/ Answer(tasks[i].by, wire, TRUE, tasks[i].of)
  <2>1. Calls(push', wire', RemoveAt(tasks, i)) /\ pendingResync' \in BOOLEAN
    BY <1>2, <1>3, <1>7, CallIsAnswered
  <2>2. Calls(push', wire', tasks')
    BY <1>7, <2>1
  <2> QED
    BY <1>5, <1>7, <2>1, <2>2 DEF SwapInv, Files, Flags
<1> QED
  BY <1>5, <1>6, <1>7

LEMMA TimeoutKeeps ==
  ASSUME SwapInv, NEW p \in Pusher, CallTimesOut(p)
  PROVE  SwapInv'
<1>1. Files /\ pendingResync \in BOOLEAN /\ Calls(push, wire, tasks)
  BY DEF SwapInv, Flags
<1>2. Calls(push, Orphan({p}, wire), Orphan({p}, tasks)) /\ Quiet(p, Orphan({p}, wire), Orphan({p}, tasks))
  BY <1>1, GivenUp
<1>3. Finish(p, Orphan({p}, wire), "failed") /\ tasks' = Orphan({p}, tasks)
  BY DEF CallTimesOut
<1>4. Calls(push', wire', Orphan({p}, tasks)) /\ pendingResync' \in BOOLEAN
  BY <1>1, <1>2, <1>3, CallFinishes
<1>5. UNCHANGED <<bundle, sidecar, watching, debounceTimer, stopped, connected, hotSwapBuffer,
                  activeDispatcher>>
  BY DEF CallTimesOut, fileVars, watchVars
<1>6. Calls(push', wire', tasks')
  BY <1>3, <1>4
<1> QED
  BY <1>4, <1>5, <1>6 DEF SwapInv, Files, Flags

LEMMA DisconnectKeeps ==
  ASSUME SwapInv, Disconnect
  PROVE  SwapInv'
<1>1. Calls(push, wire, tasks) /\ push \in [Pusher -> Doing]
  BY DEF SwapInv, Calls
<1>2. /\ Calls(push, <<>>, tasks)
      /\ Orphan(Pusher, tasks) \in Seq(Awaited)
      /\ \A p \in Pusher : Quiet(p, <<>>, Orphan(Pusher, tasks))
  BY <1>1, FewerCalls, GivenUp DEF Calls
<1>3. \A i \in DOMAIN tasks' : tasks'[i].by = Nobody
  <2>1. tasks' = Orphan(Pusher, tasks)
    BY DEF Disconnect
  <2>2. DOMAIN tasks' = 1..Len(tasks') /\ \A i \in 1..Len(tasks') : tasks'[i] \in Awaited
    BY <1>2, <2>1, LenProperties, ElementOfSeq
  <2> QED
    BY <1>2, <2>1, <2>2 DEF Quiet, Awaited, Caller
<1>4. push' \in [Pusher -> Doing] /\ wire' = <<>> /\ tasks' \in Seq(Awaited)
  BY <1>1, <1>2, StillIsDoing DEF Disconnect
<1>5. Calls(push', wire', tasks')
  BY <1>3, <1>4, EmptySeq DEF Calls, OneCall
<1>6. /\ UNCHANGED <<bundle, sidecar, watching, debounceTimer, stopped, hotSwapBuffer, activeDispatcher>>
      /\ pendingResync' = FALSE /\ connected' = FALSE
  BY DEF Disconnect, fileVars, watchVars
<1> QED
  BY <1>5, <1>6 DEF SwapInv, Files, Flags

LEMMA SyncKeeps ==
  ASSUME SwapInv, Sync
  PROVE  SwapInv'
<1>1. Files /\ Calls(push, wire, tasks) /\ pendingResync \in BOOLEAN
  BY DEF SwapInv, Flags
<1>2. /\ UNCHANGED <<bundle, sidecar, watching, stopped, connected, hotSwapBuffer, activeDispatcher, tasks>>
      /\ debounceTimer' = FALSE
      /\ \/ UNCHANGED <<push, wire>> /\ pendingResync' \in {pendingResync, TRUE}
         \/ push[Watcher].step = "idle" /\ StartSync(wire) /\ pendingResync' = pendingResync
  BY DEF Sync, fileVars, loaderVars, callVars
<1>3. Calls(push', wire', tasks)
  <2>1. CASE UNCHANGED <<push, wire>>
    BY <1>1, <2>1
  <2>2. CASE push[Watcher].step = "idle" /\ StartSync(wire)
    <3>1. Quiet(Watcher, wire, tasks)
      BY <1>1, <2>2, IdleIsQuiet, NamesAreFresh
    <3> QED
      BY <1>1, <2>2, <3>1, SyncStarts
  <2> QED
    BY <1>2, <2>1, <2>2
<1>4. Calls(push', wire', tasks')
  BY <1>2, <1>3
<1> QED
  BY <1>2, <1>4 DEF SwapInv, Files, Flags

LEMMA ToolKeeps ==
  ASSUME SwapInv, NEW p \in Tool, ToolPushes(p) \/ ToolReverts(p)
  PROVE  SwapInv'
<1>1. Calls(push, wire, tasks) /\ p \in Pusher /\ push[p].step = "idle"
  BY DEF SwapInv, Pusher, ToolPushes, ToolReverts
<1>2. Quiet(p, wire, tasks)
  BY <1>1, IdleIsQuiet
<1>3. PICK kind \in {"begin", "revert"}, source \in Source, buildId \in Source :
        /\ kind = "begin" => source \in Build
        /\ Asks(p, wire, kind, source, buildId, 0)
  <2>1. CASE ToolPushes(p)
    BY <2>1 DEF ToolPushes, Source
  <2>2. CASE ToolReverts(p)
    BY <2>2 DEF ToolReverts, Source
  <2> QED
    BY <2>1, <2>2
<1> DEFINE d == [step |-> kind, source |-> source, buildId |-> buildId, sent |-> 0, outcome |-> "none"]
           r == Request(p, kind, source, 0)
<1>4. d \in Doing
  BY <1>3 DEF Doing, Step, Source
<1>5. r \in Sent /\ r.by = p /\ r.kind = d.step
  BY <1>1, <1>3, NamesAreFresh DEF Request, Sent, Requests, Step, Source
<1>6. push' = [push EXCEPT ![p] = d] /\ wire' = Append(wire, r)
  BY <1>3 DEF Asks
<1> HIDE DEF d, r
<1>7. Calls([push EXCEPT ![p] = d], Append(wire, r), tasks)
  BY <1>1, <1>2, <1>4, <1>5, Asking
<1>8. UNCHANGED <<bundle, sidecar, watching, debounceTimer, stopped, connected, hotSwapBuffer,
                  activeDispatcher, tasks, pendingResync>>
  BY DEF ToolPushes, ToolReverts, fileVars, watchVars, loaderVars
<1>9. Calls(push', wire', tasks')
  BY <1>6, <1>7, <1>8
<1> QED
  BY <1>8, <1>9 DEF SwapInv, Files, Flags

\* The rest leaves the calls alone.
LEMMA OtherStepsKeep ==
  ASSUME SwapInv,
         \/ StopWatcher \/ (\E b \in Build : Rebuild(b)) \/ WriteSidecar \/ StartFileWatcher
         \/ EditorRestarts \/ Connected \/ UNCHANGED swapVars
  PROVE  SwapInv'
<1>1. CASE StopWatcher \/ WriteSidecar \/ StartFileWatcher \/ Connected \/ UNCHANGED swapVars
           \/ \E b \in Build : Rebuild(b)
  <2>1. UNCHANGED <<push, wire, tasks, hotSwapBuffer, activeDispatcher, pendingResync>>
    BY <1>1 DEF StopWatcher, WriteSidecar, StartFileWatcher, Connected, Rebuild, callVars, loaderVars,
                swapVars
  <2>2. Files'
    BY <1>1 DEF SwapInv, Files, Source, StopWatcher, WriteSidecar, StartFileWatcher, Connected, Rebuild,
                fileVars, swapVars
  <2>3. Flags'
    BY <1>1, <2>1 DEF SwapInv, Flags, StopWatcher, WriteSidecar, StartFileWatcher, Connected, Rebuild,
                watchVars, swapVars
  <2>4. Calls(push', wire', tasks')
    BY <2>1 DEF SwapInv
  <2> QED
    BY <2>1, <2>2, <2>3, <2>4 DEF SwapInv
<1>2. CASE EditorRestarts
  <2>1. /\ UNCHANGED <<bundle, sidecar, watching, debounceTimer, stopped, connected, push, wire, pendingResync>>
        /\ hotSwapBuffer' = NoTransfer /\ tasks' = <<>> /\ activeDispatcher' = Baked
    BY <1>2 DEF EditorRestarts, fileVars, watchVars, callVars
  <2>2. Calls(push, wire, <<>>)
    BY EmptySeq DEF SwapInv, Calls, OneCall
  <2>3. NoTransfer \in Transfer
    BY EmptySeq DEF Transfer, NoTransfer, Source
  <2>4. Calls(push', wire', tasks')
    BY <2>1, <2>2
  <2> QED
    BY <2>1, <2>3, <2>4, NamesAreFresh DEF SwapInv, Files, Flags
<1> QED
  BY <1>1, <1>2

\* SwapInv is inductive.
THEOREM SwapInvariant == SwapSpec => []SwapInv
<1>1. SwapInv /\ [SwapNext]_swapVars => SwapInv'
  <2> SUFFICES ASSUME SwapInv, [SwapNext]_swapVars PROVE SwapInv'
    OBVIOUS
  <2> QED
    BY SyncKeeps, ToolKeeps, RequestKeeps, TaskKeeps, TimeoutKeeps, DisconnectKeeps, OtherStepsKeep
       DEF SwapNext
<1> QED
  BY InitIsTyped, <1>1, PTL DEF SwapSpec

\* The types of the swap's state: in particular, whatever callers send chunks
\* in whatever order, what serves requests was made of one build.
THEOREM SwapTypeCorrect == SwapSpec => []HotSwapTypeOK
<1>1. SwapInv => HotSwapTypeOK
  <2> SUFFICES ASSUME SwapInv PROVE HotSwapTypeOK
    OBVIOUS
  <2>1. \A i \in DOMAIN wire : wire[i] \in Requests
    <3>1. DOMAIN wire = 1..Len(wire) /\ \A i \in 1..Len(wire) : wire[i] \in Sent
      BY LenProperties, ElementOfSeq DEF SwapInv, Calls
    <3> QED
      BY <3>1 DEF Sent
  <2>2. \A i \in DOMAIN tasks : tasks[i] \in Tasks
    <3>1. DOMAIN tasks = 1..Len(tasks) /\ \A i \in 1..Len(tasks) : tasks[i] \in Awaited
      BY LenProperties, ElementOfSeq DEF SwapInv, Calls
    <3> QED
      BY <3>1 DEF Awaited, Tasks
  <2>3. \A p \in Pusher : push[p] \in Doing
    BY DEF SwapInv, Calls
  <2> QED
    BY <2>1, <2>2, <2>3 DEF SwapInv, HotSwapTypeOK, Files, Flags, Source, Doing
<1> QED
  BY <1>1, SwapInvariant, PTL
-----------------------------------------------------------------------------
(* What is reported. *)

\* c's call is reported as a swap in this step.
Reported(c) == push'[c].outcome = "swapped" /\ push[c].outcome # "swapped"

LEMMA FinishReports ==
  ASSUME push \in [Pusher -> Doing], NEW p \in Pusher, NEW rest, NEW o, NEW c \in Pusher,
         Finish(p, rest, o), Reported(c)
  PROVE  c = p /\ o = "swapped"
<1>1. push' = push
      \/ (\E d \in [step : {"status"}, source : {bundle}, buildId : {sidecar}, sent : {0},
                    outcome : {"none"}] : push' = [push EXCEPT ![Watcher] = d])
      \/ push' = [push EXCEPT ![Watcher] = Still("failed")]
      \/ push' = [push EXCEPT ![p] = Still(o)]
  BY DEF Finish, StartSync, Asks
<1>2. Watcher \in Pusher
  BY NamesAreFresh
<1> QED
  BY <1>1, <1>2 DEF Reported, Still

LEMMA AnswerReports ==
  ASSUME push \in [Pusher -> Doing], NEW p \in Caller, NEW rest, NEW ok \in BOOLEAN, NEW result,
         p # Nobody => push[p].step # "idle", NEW c \in Pusher,
         Answer(p, rest, ok, result), Reported(c)
  PROVE  c = p /\ ok /\ push[p].step = "commit" /\ result = push[p].buildId
<1>1. p # Nobody
  BY DEF Answer, Reported
<1>2. p \in Pusher
  BY <1>1 DEF Caller
<1>3. ok /\ Proceed(p, rest, result)
  <2>1. ~Finish(p, rest, "failed")
    BY <1>2, FinishReports
  <2> QED
    BY <1>1, <2>1 DEF Answer
<1> DEFINE Next(kind, seq) == Asks(p, rest, kind, push[p].source, push[p].buildId, seq)
<1>4. ASSUME NEW kind, NEW seq PROVE ~Next(kind, seq)
  BY <1>2 DEF Asks, Reported
<1>5. \/ Finish(p, rest, "none")
      \/ \E kind \in {"begin", "chunk", "commit"}, seq \in Nat \cup {push[p].sent + 1} : Next(kind, seq)
      \/ push[p].step = "commit" /\ Finish(p, rest, PushOutcome(p, result))
  <2>1. /\ push[p].step \in Step \ {"idle"} /\ push[p].sent \in Nat
        /\ push[p].step \in {"begin", "chunk"} => push[p].source \in Build
        /\ push[p].step = "begin" => push[p].sent = 0
        /\ push[p].step = "chunk" => push[p].sent \in 1..Chunks[push[p].source]
    BY <1>1, <1>2 DEF Doing
  <2>2. push[p].step \in {"begin", "chunk"} =>
          \/ push[p].sent < Chunks[push[p].source]
          \/ push[p].step = "chunk" /\ push[p].sent = Chunks[push[p].source]
    BY <2>1, NamesAreFresh
  <2> QED
    BY <1>3, <2>1, <2>2 DEF Proceed, Step
<1>6. push[p].step = "commit" /\ Finish(p, rest, PushOutcome(p, result))
  <2>1. ~Finish(p, rest, "none")
    BY <1>2, FinishReports
  <2> HIDE DEF Next
  <2> QED
    BY <1>4, <1>5, <2>1
<1>7. c = p /\ PushOutcome(p, result) = "swapped"
  BY <1>2, <1>6, FinishReports
<1> QED
  BY <1>3, <1>6, <1>7 DEF PushOutcome

\* A push is reported as a success only if the loader has put the build it
\* names in charge and now answers for it, however many callers share the
\* transfer's buffer, and whatever calls they have given up.
THEOREM PushIsInstalled == SwapSpec => PushedIsInstalled
<1> DEFINE Done(c) == \E i \in DOMAIN tasks : tasks[i] = [by |-> c, kind |-> "refresh",
                                                         of |-> push[c].buildId]
<1>1. ASSUME SwapInv, [SwapNext]_swapVars, NEW c \in Pusher, Reported(c)
      PROVE  Done(c)
  <2>1. push \in [Pusher -> Doing] /\ Calls(push, wire, tasks)
    BY <1>1 DEF SwapInv, Calls
  <2>2. ~HandleRequest
    <3> SUFFICES ASSUME HandleRequest PROVE FALSE
      OBVIOUS
    <3>1. PICK kind \in {"begin", "chunk", "commit", "status"}, ok \in BOOLEAN :
            /\ IsNextRequest(kind)
            /\ \E result : Answer(Head1.by, Tail(wire), ok, result)
            /\ kind = "commit" => ~ok
      <4>1. ~Revert /\ push' # push
        BY <1>1 DEF Revert, Reported
      <4>2. CASE Begin
        BY <4>2 DEF Begin
      <4>3. CASE Chunk
        BY <4>3 DEF Chunk
      <4>4. CASE Commit
        BY <4>1, <4>4 DEF Commit
      <4>5. CASE LoaderStatus
        BY <4>5 DEF LoaderStatus
      <4> QED
        BY <4>1, <4>2, <4>3, <4>4, <4>5 DEF HandleRequest
    <3>2. /\ Head1.by \in Caller
          /\ Head1.by # Nobody => push[Head1.by].step = kind /\ push[Head1.by].step # "idle"
      BY <1>1, <3>1, RequestIsServed
    <3>3. PICK result : Answer(Head1.by, Tail(wire), ok, result)
      BY <3>1
    <3>4. c = Head1.by /\ ok /\ push[Head1.by].step = "commit"
      BY <1>1, <2>1, <3>2, <3>3, AnswerReports
    <3> QED
      BY <3>1, <3>2, <3>4, NamesAreFresh
  <2>3. ASSUME NEW p \in Caller, LoaderGoesOn(p)
        PROVE  Done(c)
    <3>1. PICK i \in DOMAIN tasks : Swap(i) \/ RefreshMethodListHash(i)
      BY <2>3 DEF LoaderGoesOn
    <3>2. /\ tasks[i] \in Awaited /\ tasks[i].by \in Caller
          /\ tasks[i].by # Nobody => push[tasks[i].by].step # "idle"
      BY <2>1, OneTaskLess DEF Awaited
    <3>3. push' # push
      BY <1>1 DEF Reported
    <3>4. \/ Answer(tasks[i].by, wire, FALSE, NoBuild)
          \/ tasks[i].kind = "refresh" /\ Answer(tasks[i].by, wire, TRUE, tasks[i].of)
      BY <3>1, <3>3 DEF Swap, RefreshMethodListHash, callVars
    <3>5. ~Answer(tasks[i].by, wire, FALSE, NoBuild)
      BY <1>1, <2>1, <3>2, AnswerReports
    <3>6. c = tasks[i].by /\ tasks[i].of = push[c].buildId
      <4>1. Answer(tasks[i].by, wire, TRUE, tasks[i].of)
        BY <3>4, <3>5
      <4>2. c = tasks[i].by /\ tasks[i].of = push[tasks[i].by].buildId
        BY <1>1, <2>1, <3>2, <4>1, AnswerReports
      <4> QED
        BY <4>2
    <3> QED
      BY <3>2, <3>4, <3>5, <3>6 DEF Awaited
  <2>4. ASSUME NEW p \in Pusher, CallTimesOut(p)
        PROVE  FALSE
    BY <1>1, <2>1, <2>4, FinishReports DEF CallTimesOut
  <2>5. ~Sync
    <3> SUFFICES ASSUME Sync PROVE FALSE
      OBVIOUS
    <3>1. push' = push \/ StartSync(wire)
      BY DEF Sync, callVars
    <3> QED
      BY <1>1, <2>1, <3>1, NamesAreFresh DEF Reported, StartSync, Asks, Still
  <2>6. \A p \in Tool : ~ToolPushes(p) /\ ~ToolReverts(p)
    BY <1>1, <2>1 DEF Reported, ToolPushes, ToolReverts, Asks, Pusher
  <2>7. ~Disconnect
    BY <1>1, <2>1 DEF Reported, Disconnect, Still
  <2>8. push' # push
    BY <1>1 DEF Reported
  <2> QED
    BY <1>1, <2>2, <2>3, <2>4, <2>5, <2>6, <2>7, <2>8
       DEF SwapNext, StopWatcher, Rebuild, WriteSidecar, StartFileWatcher, EditorRestarts, Connected,
           callVars, swapVars
<1>2. SwapInv /\ [SwapNext]_swapVars
        => [\A p \in Pusher : push'[p].outcome = "swapped" /\ push[p].outcome # "swapped"
              => Done(p)]_swapVars
  BY <1>1 DEF Reported
<1> QED
  BY <1>2, SwapInvariant, PTL DEF SwapSpec, PushedIsInstalled
=============================================================================
