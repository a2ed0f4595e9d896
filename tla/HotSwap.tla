------------------------------- MODULE HotSwap -------------------------------
(***************************************************************************)
(* The hot swap of the extension's dispatcher: the watcher that pushes a   *)
(* rebuilt bundle (src/bridge/hotswap-watcher.ts), the transfer            *)
(* (src/bridge/hotswap.ts), the tool that pushes and reverts by hand       *)
(* (src/tools/L0_diagnostics_api.ts) and the loader in the editor          *)
(* (easyeda-bridge-extension/src/index.ts).                                *)
(*                                                                         *)
(* A bundle is the build it was made of.  The bridge delivers requests in  *)
(* order; an answer reaches its caller in the step that gives it, and none *)
(* reaches a caller whose call is over: its request is then Nobody's.      *)
(***************************************************************************)
EXTENDS Naturals, SequencesExt

CONSTANTS
  Build,        (* Builds of the dispatcher.                             *)
  Baked,        (* The one inside the extension.                         *)
  NoBuild,      (* No bundle, and the id made of a bundle's hash.        *)
  Mixed,        (* A bundle put together from pieces of several.         *)
  Chunks,       (* The chunks a bundle is sent in.                       *)
  Watcher, Tool,(* The callers of the bridge, *)
  Nobody,       (* and one that has given up.                            *)
  MaxRebuilds,  (* Bound on the changes of the file.                     *)
  MaxFaults     (* Bound on timeouts, disconnections and bad bundles.    *)

ASSUME HotSwapAssumption ==
  /\ Baked \in Build
  /\ NoBuild \notin Build /\ Mixed \notin Build
  /\ Chunks \in [Build -> Nat \ {0}]
  /\ Watcher \notin Tool /\ Nobody \notin Tool \cup {Watcher}
  /\ MaxRebuilds \in Nat /\ MaxFaults \in Nat

VARIABLES
  bundle, sidecar,        (* dispatcher.js and the build dispatcher.meta.json names.  *)
  watching,               (* The file is watched.                                     *)
  debounceTimer,          (* It is set.                                               *)
  pendingResync,          (* A sync was asked for during another.                     *)
  stopped,                (* The watcher was stopped.                                 *)
  connected,              (* The bridge has its extension.                            *)
  push,                   (* What a caller is doing, with which artifact.             *)
  wire,                   (* Requests on their way to the extension.                  *)
  hotSwapBuffer,          (* The transfer the loader has begun.                       *)
  tasks,                  (* Commits and reverts of the loader that await a digest.   *)
  activeDispatcher,       (* The build that serves requests.                          *)
  rebuilds, faults        (* Counted, for the bounds.                                 *)

fileVars   == <<bundle, sidecar, rebuilds>>
watchVars  == <<watching, debounceTimer, stopped>>
callVars   == <<pendingResync, push, wire>>
loaderVars == <<hotSwapBuffer, tasks, activeDispatcher>>
swapVars   == <<fileVars, watchVars, callVars, loaderVars, connected, faults>>

Pusher == Tool \cup {Watcher}
Caller == Pusher \cup {Nobody}
Step   == {"idle", "status", "begin", "chunk", "commit", "revert"}
NoTransfer == [source |-> NoBuild, chunks |-> <<>>]

Requests == [by : Caller, kind : Step \ {"idle"}, source : Build \cup {NoBuild}, seq : Nat]
Tasks    == [by : Caller, kind : {"commit", "refresh"}, of : Build \cup {Mixed}]

\* No dispatcher of several bundles is ever active, whoever sent chunks when.
HotSwapTypeOK ==
  /\ {bundle, sidecar} \subseteq Build \cup {NoBuild}
  /\ {watching, debounceTimer, pendingResync, stopped, connected} \subseteq BOOLEAN
  /\ \A p \in Pusher :
       /\ push[p].step \in Step
       /\ {push[p].source, push[p].buildId} \subseteq Build \cup {NoBuild}
       /\ push[p].outcome \in {"none", "swapped", "failed"}
  /\ \A i \in DOMAIN wire : wire[i] \in Requests
  /\ \A i \in DOMAIN tasks : tasks[i] \in Tasks
  /\ activeDispatcher \in Build

Still(outcome) == [step |-> "idle", source |-> NoBuild, buildId |-> NoBuild,
                   sent |-> 0, outcome |-> outcome]

\* The watcher starts with the server.  An extension that is there already
\* schedules a sync like one that connects.
SwapInit ==
  /\ bundle \in {NoBuild, Baked}
  /\ sidecar = bundle
  /\ watching = (bundle # NoBuild)
  /\ connected = FALSE
  /\ debounceTimer = FALSE
  /\ pendingResync = FALSE
  /\ stopped = FALSE
  /\ push = [p \in Pusher |-> Still("none")]
  /\ wire = <<>>
  /\ hotSwapBuffer = NoTransfer
  /\ tasks = <<>>
  /\ activeDispatcher = Baked
  /\ rebuilds = 0
  /\ faults = 0
-----------------------------------------------------------------------------
(* The callers. *)

Request(p, kind, source, seq) == [by |-> p, kind |-> kind, source |-> source, seq |-> seq]

\* What p does next, with `rest` on the wire before it.
Asks(p, rest, kind, source, buildId, seq) ==
  /\ wire' = Append(rest, Request(p, kind, source, seq))
  /\ push' = [push EXCEPT ![p] = [step |-> kind, source |-> source, buildId |-> buildId,
                                  sent |-> seq, outcome |-> "none"]]

\* sync reads the bundle and its sidecar, and asks for the loader's status.
\* Without a bundle it fails.
StartSync(rest) ==
  IF bundle = NoBuild
    THEN /\ push' = [push EXCEPT ![Watcher] = Still("failed")]
         /\ wire' = rest
    ELSE Asks(Watcher, rest, "status", bundle, sidecar, 0)

\* p is done; the watcher starts over if it was asked to.
Finish(p, rest, outcome) ==
  IF p = Watcher /\ pendingResync /\ connected /\ ~stopped
    THEN /\ pendingResync' = FALSE
         /\ StartSync(rest)
    ELSE /\ pendingResync' = (pendingResync /\ p # Watcher)
         /\ push' = [push EXCEPT ![p] = Still(outcome)]
         /\ wire' = rest

\* Any swap counts as the one that was asked for.
PushOutcome_Unchecked(p, swappedIn) == "swapped"

\* The commit's answer names the build that was swapped in: pushDispatcher
\* compares it with the one it pushed.
PushOutcome(p, swappedIn) == IF swappedIn = push[p].buildId THEN "swapped" ELSE "failed"

\* p learns that its call succeeded, and goes on.
Proceed(p, rest, result) ==
  LET source  == push[p].source
      buildId == push[p].buildId
      sent    == push[p].sent
      Next(kind, seq) == Asks(p, rest, kind, source, buildId, seq) /\ UNCHANGED pendingResync
  IN CASE push[p].step = "status" /\ result = buildId -> Finish(p, rest, "none")
       [] push[p].step = "status" /\ result # buildId -> Next("begin", 0)
       [] push[p].step \in {"begin", "chunk"} /\ sent < Chunks[source] -> Next("chunk", sent + 1)
       [] push[p].step = "chunk" /\ sent = Chunks[source] -> Next("commit", 0)
       [] push[p].step = "commit" -> Finish(p, rest, PushOutcome(p, result))
       [] push[p].step = "revert" -> Finish(p, rest, "none")

\* The answer to a request of p; nobody hears one to a call that is over.
Answer(p, rest, ok, result) ==
  IF p = Nobody THEN wire' = rest /\ UNCHANGED <<push, pendingResync>>
  ELSE IF ok THEN Proceed(p, rest, result)
  ELSE Finish(p, rest, "failed")

\* A sync asked for during another is not remembered.
Sync_Forgotten ==
  /\ debounceTimer
  /\ debounceTimer' = FALSE
  /\ IF stopped \/ ~connected \/ push[Watcher].step # "idle" THEN UNCHANGED callVars
     ELSE StartSync(wire) /\ UNCHANGED pendingResync
  /\ UNCHANGED <<fileVars, watching, stopped, loaderVars, connected, faults>>

\* The debounced sync.
Sync ==
  /\ debounceTimer
  /\ debounceTimer' = FALSE
  /\ IF stopped \/ ~connected THEN UNCHANGED callVars
     ELSE IF push[Watcher].step # "idle" THEN pendingResync' = TRUE /\ UNCHANGED <<push, wire>>
     ELSE StartSync(wire) /\ UNCHANGED pendingResync
  /\ UNCHANGED <<fileVars, watching, stopped, loaderVars, connected, faults>>

\* easyeda_dev_hot_swap with action push, on the watched bundle or another.
ToolPushes(p) ==
  /\ push[p].step = "idle"
  /\ connected
  /\ \E source \in Build, buildId \in Build \cup {NoBuild} :
       /\ source = buildId \/ (source = bundle /\ buildId = sidecar)
       /\ Asks(p, wire, "begin", source, buildId, 0)
  /\ UNCHANGED <<fileVars, watchVars, loaderVars, connected, faults, pendingResync>>

\* easyeda_dev_hot_swap with action revert.
ToolReverts(p) ==
  /\ push[p].step = "idle"
  /\ connected
  /\ Asks(p, wire, "revert", NoBuild, NoBuild, 0)
  /\ UNCHANGED <<fileVars, watchVars, loaderVars, connected, faults, pendingResync>>

StopWatcher ==
  /\ ~stopped
  /\ stopped' = TRUE
  /\ debounceTimer' = FALSE
  /\ watching' = FALSE
  /\ UNCHANGED <<fileVars, callVars, loaderVars, connected, faults>>
-----------------------------------------------------------------------------
(* The bundle on disk. *)

\* A build overwrites dispatcher.js, and a watched file schedules a sync.
Rebuild(b) ==
  /\ rebuilds < MaxRebuilds
  /\ b # bundle
  /\ bundle' = b
  /\ rebuilds' = rebuilds + 1
  /\ debounceTimer' = (debounceTimer \/ watching)
  /\ UNCHANGED <<sidecar, watching, stopped, callVars, loaderVars, connected, faults>>

\* The same build writes the sidecar at its end, if it gets there.  Nobody
\* watches that file.
WriteSidecar ==
  /\ sidecar # bundle
  /\ sidecar' = bundle
  /\ UNCHANGED <<bundle, rebuilds, watchVars, callVars, loaderVars, connected, faults>>

\* A file that was missing is tried again every five seconds.
StartFileWatcher ==
  /\ ~watching /\ ~stopped
  /\ bundle # NoBuild
  /\ watching' = TRUE
  /\ UNCHANGED <<fileVars, debounceTimer, stopped, callVars, loaderVars, connected, faults>>
-----------------------------------------------------------------------------
(* The loader. *)

\* A request is of no use to its caller any more.
Orphan(P, q) == [i \in DOMAIN q |-> IF q[i].by \in P THEN [q[i] EXCEPT !.by = Nobody] ELSE q[i]]

Head1 == Head(wire)
IsNextRequest(kind) == wire # <<>> /\ Head1.kind = kind

Begin ==
  /\ IsNextRequest("begin")
  /\ hotSwapBuffer' = [source |-> Head1.source,
                       chunks |-> [i \in 1..Chunks[Head1.source] |-> NoBuild]]
  /\ Answer(Head1.by, Tail(wire), TRUE, NoBuild)
  /\ UNCHANGED <<tasks, activeDispatcher>>

\* A piece of another bundle may be more than the transfer's budget.
Chunk ==
  /\ IsNextRequest("chunk")
  /\ \/ /\ Head1.seq \in DOMAIN hotSwapBuffer.chunks
        /\ hotSwapBuffer' = [hotSwapBuffer EXCEPT !.chunks[Head1.seq] = Head1.source]
        /\ Answer(Head1.by, Tail(wire), TRUE, NoBuild)
     \/ /\ \/ Head1.seq \notin DOMAIN hotSwapBuffer.chunks /\ UNCHANGED hotSwapBuffer
           \/ /\ Head1.seq \in DOMAIN hotSwapBuffer.chunks
              /\ Head1.source # hotSwapBuffer.source
              /\ hotSwapBuffer' = NoTransfer
        /\ Answer(Head1.by, Tail(wire), FALSE, NoBuild)
  /\ UNCHANGED <<tasks, activeDispatcher>>

\* What the pieces of a complete transfer make.
Assembled(buffer) ==
  IF \A i \in DOMAIN buffer.chunks : buffer.chunks[i] = buffer.chunks[1]
    THEN buffer.chunks[1] ELSE Mixed

Complete(buffer) == /\ buffer # NoTransfer
                    /\ \A i \in DOMAIN buffer.chunks : buffer.chunks[i] # NoBuild

\* Only the size of the bundle is compared.
Verified_BySize(buffer) == TRUE

\* The loader takes the transfer and awaits the digest of a complete one.  The
\* digest of anything but the bundle that was announced is refused.
Verified(buffer) == Assembled(buffer) = buffer.source

Commit ==
  /\ IsNextRequest("commit")
  /\ hotSwapBuffer' = NoTransfer
  /\ \/ /\ Complete(hotSwapBuffer)
        /\ Verified(hotSwapBuffer)
        /\ tasks' = Append(tasks, [by |-> Head1.by, kind |-> "commit",
                                   of |-> Assembled(hotSwapBuffer)])
        /\ wire' = Tail(wire)
        /\ UNCHANGED <<push, pendingResync>>
     \/ /\ ~(Complete(hotSwapBuffer) /\ Verified(hotSwapBuffer))
        /\ Answer(Head1.by, Tail(wire), FALSE, NoBuild)
        /\ UNCHANGED tasks
  /\ UNCHANGED activeDispatcher

Revert ==
  /\ IsNextRequest("revert")
  /\ hotSwapBuffer' = NoTransfer
  /\ activeDispatcher' = Baked
  /\ tasks' = Append(tasks, [by |-> Head1.by, kind |-> "refresh", of |-> Baked])
  /\ wire' = Tail(wire)
  /\ UNCHANGED <<push, pendingResync>>

LoaderStatus ==
  /\ IsNextRequest("status")
  /\ Answer(Head1.by, Tail(wire), TRUE, activeDispatcher)
  /\ UNCHANGED loaderVars

HandleRequest ==
  /\ connected
  /\ Begin \/ Chunk \/ Commit \/ Revert \/ LoaderStatus
  /\ UNCHANGED <<fileVars, watchVars, connected, faults>>

\* The digest of a bundle is there: the bundle is evaluated and, if that works,
\* becomes active; the hash of its methods, which the next handshake announces
\* and this module leaves out, is awaited next.
Swap(i) ==
  /\ tasks[i].kind = "commit"
  /\ \/ /\ activeDispatcher' = tasks[i].of
        /\ tasks' = [tasks EXCEPT ![i].kind = "refresh"]
        /\ UNCHANGED <<callVars, faults>>
     \/ /\ faults < MaxFaults
        /\ faults' = faults + 1
        /\ tasks' = RemoveAt(tasks, i)
        /\ Answer(tasks[i].by, wire, FALSE, NoBuild)
        /\ UNCHANGED activeDispatcher
  /\ UNCHANGED <<fileVars, watchVars, connected, hotSwapBuffer>>

\* The hash is there, and the commit or the revert answers.
RefreshMethodListHash(i) ==
  /\ tasks[i].kind = "refresh"
  /\ tasks' = RemoveAt(tasks, i)
  /\ Answer(tasks[i].by, wire, TRUE, tasks[i].of)
  /\ UNCHANGED <<fileVars, watchVars, connected, faults, hotSwapBuffer, activeDispatcher>>

LoaderGoesOn(p) ==
  \E i \in DOMAIN tasks : tasks[i].by = p /\ (Swap(i) \/ RefreshMethodListHash(i))
-----------------------------------------------------------------------------
(* Faults of the connection. *)

\* The bridge gives a call up; the request may still be served.
CallTimesOut(p) ==
  /\ push[p].step # "idle"
  /\ faults < MaxFaults
  /\ faults' = faults + 1
  /\ Finish(p, Orphan({p}, wire), "failed")
  /\ tasks' = Orphan({p}, tasks)
  /\ UNCHANGED <<fileVars, watchVars, connected, hotSwapBuffer, activeDispatcher>>

\* The bridge loses its extension and rejects every call.
Disconnect ==
  /\ connected
  /\ faults < MaxFaults
  /\ faults' = faults + 1
  /\ connected' = FALSE
  /\ wire' = <<>>
  /\ tasks' = Orphan(Pusher, tasks)
  /\ push' = [p \in Pusher |-> IF push[p].step = "idle" THEN push[p] ELSE Still("failed")]
  /\ pendingResync' = FALSE
  /\ UNCHANGED <<fileVars, watchVars, hotSwapBuffer, activeDispatcher>>

\* The editor starts again, with the dispatcher it was installed with.
EditorRestarts ==
  /\ ~connected
  /\ hotSwapBuffer' = NoTransfer
  /\ tasks' = <<>>
  /\ activeDispatcher' = Baked
  /\ UNCHANGED <<fileVars, watchVars, callVars, connected, faults>>

\* The extension's handshake; the watcher hears of it until it is stopped.
Connected ==
  /\ ~connected
  /\ connected' = TRUE
  /\ debounceTimer' = ~stopped
  /\ UNCHANGED <<fileVars, watching, stopped, callVars, loaderVars, faults>>
-----------------------------------------------------------------------------
SwapNext ==
  \/ Sync \/ StopWatcher
  \/ \E b \in Build : Rebuild(b)
  \/ WriteSidecar \/ StartFileWatcher
  \/ \E p \in Tool : ToolPushes(p) \/ ToolReverts(p)
  \/ HandleRequest
  \/ \E p \in Caller : LoaderGoesOn(p)
  \/ \E p \in Pusher : CallTimesOut(p)
  \/ Disconnect \/ EditorRestarts \/ Connected

SwapSpec == SwapInit /\ [][SwapNext]_swapVars

\* The timers of the watcher fire, the extension serves what reaches it, and
\* the digests of the watcher's pushes are computed.  Nothing makes anyone
\* rebuild, reconnect or call.
FairSwapSpec ==
  /\ SwapSpec
  /\ WF_swapVars(Sync)
  /\ WF_swapVars(StartFileWatcher)
  /\ WF_swapVars(HandleRequest)
  /\ WF_swapVars(LoaderGoesOn(Watcher))
-----------------------------------------------------------------------------
(* Properties. *)

\* A push that is reported as a success has put the build it names in charge,
\* although the transfers of several callers share one buffer.
PushedIsInstalled ==
  [][\A p \in Pusher :
       push'[p].outcome = "swapped" /\ push[p].outcome # "swapped"
         => \E i \in DOMAIN tasks : tasks[i] = [by |-> p, kind |-> "refresh",
                                                of |-> push[p].buildId]]_swapVars

\* Something other than the watcher may have changed what the extension runs.
ToolAtWork == \E p \in Tool : push[p].step # "idle"

\* The watcher has read build b, with the sidecar of b.
HasRead(b) == push[Watcher].step = "status" /\ push[Watcher].source = b /\ push[Watcher].buildId = b

\* A sync that is scheduled when bundle and sidecar agree reads that build, also
\* if another sync is under way; and what a sync read becomes active, unless
\* the sync failed, a later one has begun, the tool pushed or reverted, or the
\* extension went away.
CatchesUp ==
  \A b \in Build :
    /\ (debounceTimer /\ bundle = b /\ sidecar = b)
         ~> (HasRead(b) \/ bundle # b \/ sidecar # b \/ stopped \/ ~connected)
    /\ HasRead(b)
         ~> \/ activeDispatcher = b
            \/ push[Watcher].outcome = "failed" \/ ToolAtWork \/ ~connected
            \/ push[Watcher].step = "status" /\ ~HasRead(b)

\* The watcher pushes the bundle whenever the file changes on disk
\* (src/bridge/hotswap-watcher.ts:9-17).
ChangeIsPushed ==
  \A b \in Build :
    bundle = b ~> (activeDispatcher = b \/ bundle # b \/ stopped \/ ~connected)
=============================================================================
