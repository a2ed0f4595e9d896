# Verification of easyeda-mcp-pro

This directory holds TLA+ specifications of easyeda-mcp-pro, the TLC configurations that
check them on small instances, and theorems about them that TLAPS checks for every value of
the constants. The source is the reference: every definition of a model is a translation of
the lines that `PROJECT.json` ("map") names. Paths below are relative to `src/` unless they
start with `docs/` or `easyeda-bridge-extension/`.

## The system

easyeda-mcp-pro is an MCP server: an assistant calls tools, and the server carries them out
in EasyEDA Pro, a circuit editor that runs in a browser or as an Electron app. An extension
inside the editor connects to the server and executes its requests against the editor's API.

    client --MCP--> tools --> transaction manager --> bridge --WebSocket--> extension --> editor
                      |                                 |
                      |                                 +--CDP--> editor (no extension)
                      +--MCP over HTTP--> remote gateway --relay--> extension

| Component | State it keeps | Operations | Talks to |
|---|---|---|---|
| Transaction manager (`transactions/manager.ts`) | transactions with state, deadline, operations, verdicts; one lock per document | begin, get, runModify/runCreate/runDelete, validate, commit, rollback, expiry sweep | callers' hooks |
| Transaction hooks (`transactions/easyeda.ts`) | none | snapshot, exists, delete, recreate, list, rollback | bridge calls |
| Batch write (`tools/L1_schematic_batch.ts`) | one session per call | preflight, open, execute, validate and commit, roll back | manager, hooks |
| Transaction tools (`tools/L1_transactions.ts`, `tools/L1_schematic_write.ts`) | none | one tool per manager method | manager |
| WebSocket bridge (`bridge/manager.ts`) | connection state, active socket, pending requests, chunks, pairing challenges, heartbeat | listen, pair, handshake, call, response, timeout, sweep, disconnect | extension |
| CDP bridge (`bridge/cdp-manager.ts`) | connection state, target | connect, evaluate, close | editor |
| Hot swap (`bridge/hotswap.ts`, `hotswap-watcher.ts`) | pushed version, deferred push | push in chunks, watch a file | bridge |
| Extension connection (`easyeda-bridge-extension/src/index.ts`) | port being scanned, socket, timers | scan, hello, reconnect, heartbeat, dispatch | bridge |
| Extension dispatcher (`easyeda-bridge-extension/src/dispatcher.ts`) | caches | one function per bridge method | editor API |
| Relay client (`easyeda-bridge-extension/src/remote-client.ts`) | socket, session, heartbeat | register, dispatch, reconnect | gateway |
| Remote gateway (`remote/*.ts`) | sessions, pairing, queues, approvals, quarantine | register, route, dispatch with deadline, approve, close | relay client, HTTP |
| Transports (`server/transports/http.ts`) | MCP sessions, rate limiter | open, request, idle close | tools |
| Storage, vendors, catalog | SQLite, caches | lookups | services |
| Routing, layout, schematic model, quality, simulation | none | pure functions | tools |

What is hard here: the server is one JavaScript process, so a method runs alone between two
awaits, and every hazard is an interleaving of such stretches: calls that overlap on one
transaction, sockets that are replaced while their events are still to come, timeouts of
calls whose effect is still to come, rollbacks that themselves fail. Nothing of this is
persisted, so there is no crash recovery; but the extension outlives a restart of the server. `PROJECT.json` ("hazards") lists each of them at
its line, with the properties that cover it or the reason why none does.

What makes each component correct:

- *Manager*: one unresolved transaction per document; unresolved writes keep the lock; what is
  committed is what was judged; a rollback works backwards, and a failed one can be retried.
- *Hooks and batch*: a complete rollback leaves the document as it was; a committed batch is
  applied in full; every batch answers.
- *Bridge*: a response settles the call it answers, once; a replaced socket has no say; every
  call is settled; a connected manager has a live peer.
- *Extension*: exactly one scan or reconnect is under way until it is connected or switched off.
- *Gateway*: calls of a session never overlap, approvals are used once and for what they were
  given, rights end with their session, and no queued call waits for ever.
- *Hot swap*: what becomes active is a bundle that was pushed as a whole, a success names it,
  and the extension ends up with the bundle on disk.

## Modules

| Module | What it is |
|---|---|
| `DocumentLock` | Abstract: a lock per document, given to a fresh owner, kept or given up, never passed on without being given up, never given twice to one owner. |
| `Transactions` | The transaction manager and the calls in flight. |
| `SchematicBatch` | The batch tool, the transaction tools, the hooks and the document in the editor, composed with the actions of `Transactions`. |
| `RequestChannel` | Abstract: one peer at a time that never comes back, requests that are settled once and lost with their peer, answers that are a request's own unless the channel was reset. |
| `Bridge` | The WebSocket manager: server, sockets, client, calls. |
| `FifoMutex` | Abstract: a queue per session; a caller waits for those who were there before it and for nobody else. |
| `SessionDispatchQueue` | The chain of promises that is to be such a queue. |
| `RemoteGateway` | The gateway, the relay client and the tool invocations that use them, composed with the queue. |
| `ExtensionLink` | The extension's connection to the local bridge: port scan, timers, commands of the user. |
| `HotSwap` | The dispatcher's hot swap: the build, the watcher, the tool, the transfer and the loader. |
| `MCTransactions`, `MCSchematicBatch`, `MCBridge`, `MCRemoteGateway`, `MCExtensionLink`, `MCHotSwap` | Instances for TLC. |
| `TransactionsProofs` | Theorems about `Transactions`: without any discipline of its clients, and with the one the documentation assumes; it then implements `DocumentLock`. |
| `SchematicBatchProofs` | `SchematicBatch` implements `Transactions`; what batches do to the lock and to the document. |
| `BridgeProofs`, `BridgeRefinement` | Theorems about `Bridge`; `Bridge` implements `RequestChannel`. |
| `SessionDispatchQueueProofs` | The queue excludes, and implements `FifoMutex`. |
| `RemoteGatewayProofs` | Theorems about `RemoteGateway`, which uses the queue as it is meant to be used. |
| `ExtensionLinkProofs` | Theorems about `ExtensionLink`. |
| `HotSwapProofs` | Theorems about `HotSwap`. |

### Transactions

A transaction has a `state`, a `document`, a deadline that has passed or not (`overdue`), the
three-valued `rollbackComplete`, its `operations` in sequence order and the verdict of its
gates (`validations`, with the operations they judged). `activeByDocument` is the lock.
Identifiers are the order of the calls to `begin`, which is the order in which the sweep
visits them.

A call in flight has a program counter (`pc`), the transaction it is about (`callTx`), the
operations it has yet to settle (`todo`), and for a rollback whether all went well (`clean`),
for a validation the clone its gates were given (`seen`). An action is one stretch of a method
between two awaits:

| Method | Actions |
|---|---|
| `begin`, `get` | `Begin`, `Get` |
| `runModify`, `runDelete` | `StartModifyOrDelete` (until the before-snapshot is read), `Reserve` or `ReserveRefused`, then `Applied`, `Compensated` or `failTransaction` |
| `runCreate` | `StartCreate`, then as above |
| `validate` | `StartValidate`, `FinishValidate` |
| `commit` | `Commit` |
| `rollback` | `RollbackNothing`, or `StartRollback`, `RestoreOperation` for each operation, `FinishRollback` |
| `expireStaleTransactions` | no action: every method applies it first (`StateNow`, `CompleteNow`, `LockNow`); time is `Deadline` |

What a hook does is left to its outcome. Several gates run one after another on clones; they
are one wait, and the oldest clone is the one remembered. Snapshots, hashes, identifiers and
messages are left out; a snapshot that is too large is one of the reasons of `ReserveRefused`.

Three constants describe clients. `SerialCalls`: one call of a transaction in flight at a
time. `TimelyCalls`: no deadline passes during a call. `LeaveExpired`: nobody rolls back an
expired transaction. The manager enforces none of them, so what it guarantees is checked and
proved without them, and what the documentation promises is checked with them.

### SchematicBatch

The manager's variables, with one client (`client`), and: the content of each primitive
(`doc`), the identifiers used up (`fresh`), the writes whose call timed out and which the
extension will still carry out (`late`), what the manager's operations do to which primitive
(`details`), and the batch under way (`session`, `managed`, `plan`, `at`, `step`, `known`,
`answer`). `step` names the bridge call that comes next, so an action is one bridge call
with what the hook, the manager and the batch do with its answer; where the manager takes
part, the action contains the action of `Transactions`.

A bridge call can be refused, lose its answer, or time out and take effect later
(`refused`, `lost`, `late`), and a read can find nothing because the editor's API threw and
the extension logged that and went on (`unseen`, `dispatcher.ts:1846`, `2301`). A primitive
that is created again gets a new identifier. Contents name the transaction that wrote them,
so a property can tell whose traces a document shows.

Abstractions: the primitives are those of one document (`OneDocument`), the one the editor has open
and every transaction is about; primitives are of one recreatable kind; a primitive's properties are one value;
`pollAddedPrimitiveIds` is one list (thirty empty ones are one that went wrong); the user does
not draw at the same time. A dry run, a refused preflight and invalid input change nothing and
are no step. `easyeda_schematic_modify_primitive` with a `transactionId` is a batch of one
modification that is not rolled back by itself, and is left out.

### Bridge

`BridgeManager` awaits nothing but the connection a call waits for, so each method, timer and
socket event is one action:

| Code | Actions |
|---|---|
| `connect`, `startListening`, the reconnect timer | `Connect`, `Reconnect` |
| connection, pairing challenge and its timer | `Accept`, `Pair`, `PairingTimeout`, `Refuse` |
| `handleHandshake` | `Handshake` |
| heartbeats and the heartbeat timer | `Heartbeat`, `Silence`, `HeartbeatTick` |
| the `close` event | `Closed` |
| `call` | `StartCall`, `Resume` when the wait for a connection ends, `WaitExpires` |
| a call's timer, `sweepStaleRequests` | `Age`, `CallTimesOut`, `StaleSweep` |
| `handleResponse` | `handleResponse` |
| `disconnect` | `Disconnect` |
| the process ends and is started again | `Restart` |

A socket goes through `stage`: unused, unpaired, paired, shook (it has shaken hands), gone.
`close()` puts it in `closing`: its messages still arrive until its close event, which can come
after the handshake of the client that replaced it. `silent` stands for a `lastHeartbeat` that is
three intervals old. `strayTimers` are armed reconnect timers that `reconnectTimer` no longer
names, because `scheduleReconnect` overwrites it without clearing it; `disconnect` clears only
the one it names. `on` (the socket a request was sent on), `answer` (whose response settled a call),
`stopped`, `running` and `restarts` are there for the other end and for the properties.

The other end is an extension that keeps the protocol: one handshake per socket, each request
executed at most once and answered, by its number, on whatever socket it has by then
(`easyeda-bridge-extension/src/index.ts`). It may be slow without limit, silent, or vanish
(`dead`): then nothing arrives any more and no close event is owed but the one that `close()`
leads to. Frames in flight have no queue of their own: a request that was sent is with the
extension, which answers later or never.

Abstractions: chunks are one message, or one of the reasons of `Refuse`; requests of the
extension, which change no state of the manager, are left out; trying the ports is one step, with or without a
free one; a call waits for a connection (`waitMs` is positive); a token is right or wrong.
Closing a client also clears the challenges of the others, and their clients then stay unpaired
without a timer, and a reconnect timer that `disconnect` did not clear starts the server again:
the model has both, no property promises otherwise.

### SessionDispatchQueue and RemoteGateway

`SessionDispatchQueue` is `SessionDispatchQueue.run` (`remote/session-dispatch-queue.ts`): `tails`
is its map, `previous` the promise an operation awaits, `turn` where it is. Calls are numbered as
they enter. `Enter` is the part before the await, `Begin` the start of the operation, `Leave` its
end with the `finally`, `Skip` an operation that throws at once. `ImplementsMutex` maps it to
`FifoMutex`: what a call waits for is everybody who came to its session before it and has not
left, although the code remembers only the last one and forgets that one too.

`RemoteGateway` adds the rest of a remote tool call. A relay socket stands for its session, because
the client registers once on each.

| Code | Actions |
|---|---|
| `register_session` with a pairing code; `POST /remote/pairings` | `Open`, `PairByHttp` |
| the time to live of a session | `SessionExpires` |
| `requestRemoteApproval`, `approval_result`, expiry | `AskApproval`, `Decide`, `ApprovalExpires` |
| `authorizeToolInvocation`, `revokeInvocationGrant` | `Authorize`, `GrantEnds` |
| `routeToolRequest` from a tool; from `POST /remote/tool-requests` | `RouteCall`, `RouteDirect` |
| its turn in the queue, its answer, its deadline with the quarantine | `Dispatch` or `DispatchFails`, `Respond`, `DispatchTimesOut` |
| the request at the extension | `Deliver`, `Respond` |
| the relay socket, seen by the gateway | `ServerSeesClosing`, `ServerSeesClose` |
| `connect`, `disconnect`, the reconnect timer, the heartbeat, `onclose` of the client | `ClientConnect`, `ClientDisconnect`, `Reconnect`, `HeartbeatStale`, `ClientSeesClose` |

Each socket has two ends (`serverEnd`, `clientEnd`) that learn of its close at different times.
`request` follows a call's request beyond the call: it may still be on its way or executing when
the call has been given up. `consented` remembers what the user said yes to and `consent` which
approval an attempt used, for `ConsentCoversWork`.

Abstractions: one account, so a call for another one's session is left out; frames other than
requests are received as they are sent; a rejected or expired approval is as good as deleted, an
expired pairing code as good as spent; the code is spent by the first registration, so a session
after a reconnect is unpaired until `PairByHttp`; a session chosen by the gateway is any live one
(the caller names it, or `SESSION_AMBIGUOUS`); reads need no approval; scopes, the active
project, the audit log and rate limits are left out. The gateway starts no heartbeat of its own,
so a relay connection always goes stale after 45 s without traffic (`HeartbeatStale` is always
possible). `dispatchWithDeadline` sets its timer before the relay socket sets one for the same
request, so the deadline is the first of the two to fire and the other is left out.

### ExtensionLink

A call of `connectInternal` that scans is a *run*: `connectRunId` names the one in charge, `run`
has the ports each has left, and the socket it has in hand. A cancelled run goes on until its attempt
ends, and its events still come. The loop's step to the next port is part of the action in which
an attempt fails, as nothing is awaited in between.

| Code | Actions |
|---|---|
| `connectToPort`: socket opened, `hello`, close, error, timeout, fallback from `register` | `SocketOpens`, `Hello`, `SocketCloses`, `SocketErrs`, `AttemptTimesOut`, `RegisterFallback` |
| the loop and the `finally` of `connectInternal` | `NextAttempt`, `EndScan` in the above |
| `connectInternal` | `Connect`, `StartRun` in the actions that call it |
| `recoverConnection` from the heartbeat timer or a failed `send` | `Recover` |
| the reconnect timer | `ReconnectFires` |
| the menu: connect, disconnect, status, automatic connection | `ManualConnect`, `ManualDisconnect`, `ShowStatus`, `SetAutoConnect` until the setting is stored, then `AutoConnectStored` |
| `activate`, `deactivate` | `Activate`, `Deactivate` |

`paused` and `interrupted` are history, for the properties: the user disconnected and asked for
nothing since; a socket closed before its hello in this scan. Without a socket API the scan is
over at once. Closed sockets deliver no messages. The names of the settings' legacy keys, the dialogs and the
diagnostics are left out. Switching automatic connection off does not cancel a scan:
its hello then connects, and allows reconnects again. `QuietWhenOff` therefore speaks of users who
disconnected.

### HotSwap

A bundle is the build it was made of; `sidecar` is the build that `dispatcher.meta.json` names.
`push` is what the watcher and each tool call is doing, `wire` the requests on their way, `hotSwapBuffer` the
transfer the loader has begun, `tasks` the commits and reverts that await a digest. A request whose
caller has given up or lost its connection stays on the wire, or in the loader, as `Nobody`'s.

| Code | Actions |
|---|---|
| `sync` of the watcher, its debounce, its file watch, its end | `Sync` (with `StartSync`, `Finish`), `StartFileWatcher`, `StopWatcher` |
| `pushDispatcher`, step by step | `Proceed` in the actions that answer |
| `easyeda_dev_hot_swap` | `ToolPushes`, `ToolReverts` |
| `system.hotSwap.begin`, `chunk`, `commit`, `revert`, `system.loaderStatus` | `Begin`, `Chunk`, `Commit` until the digest, `Swap`, `Revert`, `RefreshMethodListHash`, `LoaderStatus` |
| `scripts/build.mjs` | `Rebuild`, `WriteSidecar` |
| the bridge and the editor | `Connected`, `Disconnect`, `CallTimesOut`, `EditorRestarts` |

Abstractions: a digest is the identity of what was assembled; a bundle is evaluated in one
step; builds without hot-swap support and the tool's status action are left out, as is the hash
of the method list, which only the next handshake shows. A sync that failed is not tried again until the next connection or change of
the file, and a swap whose answer was lost, or names another build than the artifact, is reported as a failure
although it happened. The comment at `bridge/hotswap.ts:81` ("Throws on any step failure; the
extension keeps its previous dispatcher in that case") is true of neither, so `PushedIsInstalled` claims
the other direction only.

## Runs

| Run | Configuration | What it shows |
|---|---|---|
| `transactions_open` | three transactions, one document, two calls, any client | types and limits; locks name a holder; what is judged and committed is settled and is what was judged; failed operations stay candidates; committed is final; no transaction validates or rolls back for ever |
| `transactions_disciplined` | the same, disciplined clients | one holder per document, unresolved writes locked, reverse order, rolled back means clean, and `DocumentLock` is implemented |
| `lock_after_expired_rollback` | without `LeaveExpired` | violation: rolling back an expired transaction deletes another one's lock |
| `schematic_batch` | one transaction, two batches of up to two operations, two faults of any kind | a complete rollback restores the document, traces are locked, a committed batch is applied in full, batches answer |
| `batch_failure_escapes` | no fault, a deadline | violation: a failed validation is not rolled back |
| `bridge` | two clients, two calls, a restart, pairing | one client, the others closed; calls are lost with their client; every call ends; a vanished client is dropped; the server keeps listening; `RequestChannel` is implemented |
| `answer_of_another_life` | the same, one restart | violation: after a restart, a call is settled by the response to a request of the process before |
| `remote_gateway` | two relay sockets, two calls of three attempts (two writes of one deed, a read), one approval | calls of a session never overlap at the editor; no change without consent; rights end with the session; one relay socket; the chain of promises is a queue; every queued call ends |
| `extension_link` | two ports, two runs | no socket is forgotten; quiet after a disconnect; trying stops in one way only; scans end; a dead connection is noticed |
| `hot_swap` | two builds of two chunks, the watcher and one tool, one rebuild, one fault | no mixture becomes active; a reported push is installed; a sync is never lost |
| `auto_connect_gives_up` | the same as `extension_link` | violation: a socket that closes before its hello ends the automatic connection for good |
| `bundle_change_missed` | no tool, no fault | violation: a sync between the two writes of a build misses the change |

Bounds. Three transactions are the fewest in which one loses a lock to the second while a third
begins; two calls are the fewest that overlap; two operations the fewest with an order. A
batch needs two faults for an operation to fail together with its compensation, and a second
batch for a transaction that is full, rolled back or committed when it is used again. The
identifiers (`MaxPrim`) are never used up: a create that found none would block the batch and
violate `BatchAnswers`. With one transaction, no batch of another one comes between its batches; the
theorems about batches are for any number of them. Two sockets are the fewest of which one replaces the other, and its
close event can come before or after; two calls the fewest that can be confused, or of which one
is swept while the other is not; the second is given more time than `BRIDGE_TIMEOUT_MS`, as
the tools do for slow methods. The numbers of the calls are bounded by the calls.
For the gateway, a second session takes over from the first; of two calls one waits for the other; two
attempts want the one approval, and the third needs none. Sockets, calls and the approval are used up, not
used again. Two ports are the fewest with a next one; a second run meets what the first has left,
and runs that are over are used again, so scans may follow one another without bound. Two chunks are the
fewest that two transfers can mix; one fault is one of a timeout, a disconnection and a bundle that does
not evaluate.

Deadlock is not checked: the bounds end every behaviour, and in the program clients may stop.

Fairness. `FairSpec` is weakly fair to each call in flight (`Resume`), `BatchSpec` to the batch:
what either waits for is a bridge call, and the bridge answers or times out every call
(`bridge/manager.ts:601-613`), which is `CallsEnd` of `Bridge`. Clients, deadlines and late
effects owe nothing. `FairBridgeSpec` is weakly fair to timers, to a call whose wait has ended, and to
the close event of a socket that `close()` was called on, which the library raises by its own
timeout. The extension, the network and the callers owe nothing. `CallsEnd` needs nothing but the
calls' own timers; `ZombieIsDropped` needs the heartbeat timer, and that a replaced client, whose
heartbeats also refresh `lastHeartbeat`, is itself being closed.

`FairGatewaySpec` is weakly fair to a call whose turn it is: the event loop runs it, and the timer of
its dispatch fires. Extension, network and user owe nothing. `FairLinkSpec` is weakly fair to the timer of each
attempt and to the heartbeat's while the server is silent; so `ScansEnd` holds though no socket ever
says anything. `FairSwapSpec` is weakly fair to the watcher's timers, to the extension's serving of what has
reached it and to its digests for the watcher; nothing makes anyone rebuild, reconnect or finish a build.

`Dependable`, the premise of the properties of the document, says that no call took effect
after its timeout and no read wrongly found nothing. It cannot be dropped: the bridge has no way to
withdraw a request, and a deletion is verified by not finding the primitive. The
documentation's "No delta means no side effect"
(`docs/architecture/production-schematic-engine.md:99`) is true only under it.
`TracesAreLocked` and `RollbackRestores` ask of a deleted primitive that it is back (`IsBack`), under its own
identifier or another, and nothing of how often. It can be there twice: after a deletion without effect whose outcome could
not be read, since compensation looks whether the primitive is still there before it creates
it again (`manager.ts:415`) and rollback does not (`easyeda.ts:170`), or when the answer to a
recreation was lost and the rollback is tried again. `TouchOnce` asks of clients, across the batches of a transaction, what a batch asks of
its own operations; see below for what happens without it.

### Known limitations of the code

These are behaviours of the models, too, that the properties are stated around:

- A primitive modified by one batch and deleted by the next of one transaction is recreated under
  a new id (`easyeda.ts:170`), and the restore of the modification does not find it: the rollback can never
  complete. Two modifications of one primitive, of which the restore of the second fails once: the
  retried rollback restores the second's before-snapshot last (`manager.ts:561`) and reports success over
  a modified document. With `TouchOnce = FALSE`, `MCSchematicBatch.cfg`
  violates `TracesAreLocked`, and without that property `RollbackRestores`.
- A deadline that passes while a write is in flight frees the document although the write is applied
  afterwards (`manager.ts:662`): `MCTransactionsDisciplined.cfg` with `TimelyCalls = FALSE` violates `UnresolvedIsLocked`.
- The stale sweep rejects a call that was given more time than `BRIDGE_TIMEOUT_MS` before its own timeout
  (`bridge/manager.ts:813`).
- A relay session that was quarantined is closed, but its extension may still execute the request when it
  has registered again: `NoOverlap` is one of sessions, not of editors (`remote/gateway.ts:739`).

## Proofs

Every safety property and every action property of the runs that pass is a theorem; the list in
`PROJECT.json` says which theorem states which property.

`TransactionsProofs` assumes only the bounds and the distinctness of `NoDoc`: it holds for any
number of transactions, documents, calls and operations. Its first part assumes no discipline of the clients.

The safety properties speak of transactions, and none is inductive alone, because the calls in
flight act on what they remembered. The inductive invariant `IInv` adds what each of them may
rely on when it resumes (`CallsOK`): while gates run, the transaction is still validating, still has
the operations they were given, and no other call validates it; a write's operation is pending and
no other call's; a rollback's transaction can not become active again, and none of the
operations it has left is being written. From it follow

- `TypeCorrect` (with the limit on operations, looked at again after the await),
- `LocksAreHeld`, `JudgedIsSettled`, `CommittedIsJudged`, `FailedIsRetried`, and
- `CommitIsFinal`, an action property.

`NextInvariant` has a lemma per action; the lemmas about the sweep, about the effect of setting one
operation and about reserving one are stated once and used by the actions that do so.

The second part is about clients that keep `SerialCalls`, `TimelyCalls` and `LeaveExpired`. Its
invariant `DInv` says what the callers have (`CallersFit`: a transaction has one call in flight,
which stays in a state that fits it; what is in flight was written by nobody else; what a
rollback has not listed needs no undoing) and what holds of the lock (`HolderIsLocked`, and `RolledBackIsClean`
itself). From it follow `HolderIsUnique`, `UnresolvedKeepsLock`, `RollbackIsComplete` and, as an action property,
`RollbackIsReversed`: a rollback undoes the latest operation first. `ManagerImplementsLock` maps
the manager to `DocumentLock`: whoever is undecided holds the lock, the sweep releases several at
once, and a step that ends one transaction starts none. Of `LeaveExpired` the proof needs only
`SparesLocks`, that a rollback without operations of a transaction that expired takes no lock from another:
that is what batches satisfy, which may well roll back a transaction that expired meanwhile.

`SchematicBatchProofs` first proves `BatchSpec => Spec`: every step of a batch, its tools or a late call is a
step of the manager or leaves it alone. The only invariant needed besides `TypeOK` is that a
batch under way has a transaction. So `IInv` and `CommittedIsFinal` hold of batches, for any plan,
number of primitives and faults (`BatchKeepsManagerInvariant`, `BatchCommitIsFinal`). It assumes
one client, whose calls are serial and end before the deadline, and one document (`OneClient`, `OneDocument`), but any number of
transactions and of batches.

`LeaveExpired` is not assumed: that batches take no lock from others is proved. `ControlInv` says where a batch
can be: its `step` fits the manager's call and the state of its transaction (`CallFits`), the operation in flight is the one
of its plan it has come to (`PlanFits`), a transaction with a failed operation is not a candidate for a
commit (`TxFits`), and a session that expired has no lock (`ExpiredIsUnlocked`). With it `DInv` is inductive here too (`BatchInvariant`), hence
`BatchTypeCorrect`, `BatchHasOneHolder` and `BatchImplementsLock`.

What is in the document needs `Dependable`. `DocInv` relates it to the log: identifiers are given in turn
(`NewOnes`); an operation remembers what it saw (`Remembered`); what is new since a create began is what it
made (`KnownFits`); whatever a transaction made is the target of one of its
operations, or of the create that is still looking for it (`MadeIsOwned`); what an undo verifies is what it
restored (`UndoneFits`); and a batch that met no failure has done its plan so far (`InProgress`). The actions are
first reduced to few shapes of steps, with what they read and write (`Dependably`), and to the ways the document moves (`Moves`);
each part of the invariant is then kept by each shape. `BatchCommitIsApplied` follows: after a commit,
the document shows every operation of the plan.

`BatchTracesAreLocked` and `BatchRollbackRestores` hold under `TouchOnce`, as the runs do. `TouchInv` adds that a
before-content that a transaction changed is that of a committed one (`BeforeIsFirm`), that a transaction does not come back to a primitive (`TouchedOnce`), that
what shows a change has a live operation that made it (`ChangedIsOwned`), and that what was undone while the lock is held
is back (`UndoneIsBack`). The argument is: only who holds the lock writes, there is one holder
(`DInv`), so between an operation and its undo nobody else has changed its primitive.

`BridgeProofs` holds for any number of clients, calls, restarts and any timeouts. `OneClient` and
`PendingOnClient` are kept by each step only together, and with `Up` (a manager that is neither stopped nor
listening has no live socket, so no close event can make it wait for a client it can not get), with
`Numbered` (no two requests have the same number) and with `Delivered`: what the extension
has been given is a request of this process under its own number, or one whose call ended with the
process before. From it follow `ClientIsUnique`, `PendingIsOnClient`, `ListensWhileUp` and, while
there was no restart, `AnswersInOneLife`: the violation `answer_of_another_life` is the only way to
a wrong answer. `BridgeTypes` is type correctness. `BridgeRefinement` maps every step to one of `RequestChannel` or a stutter
(`BridgeImplementsChannel`).

`SessionDispatchQueueProofs` holds for any number of calls and sessions. A call is run when the one it
is chained to is over, and that says nothing of the others before it; nor does a session that was
forgotten say that nobody of it is left. `QueueInv` therefore has the chain itself: calls enter in order (`InOrder`),
each is chained behind every earlier call of its session that is not over (`Chained`, `ChainGoesBack`),
the tail is the latest of them (`TailIsLast`), and who had its turn has nobody before it
(`ServedInOrder`). `TurnIsFirst` draws the conclusion that all actions need; with it `OperationsExclude` follows, and
`QueueImplementsMutex`, where `FifoMutex`'s set of those ahead is computed from the chain.

`RemoteGatewayProofs` assumes of the constants only that sockets are numbers and that the three names for
nothing (`NoSocket`, `NoApproval`, and `Unused` as opposed to `Gone`) are names for nothing. `GatewayInv`
adds to `QueueInv` and the properties themselves what each relies on. For `NoOverlap`: work at the
editor belongs to a call that had its turn (`WorkIsQueued`), and work that was given up belongs to a session
without a route (`GivenUpIsClosed`); that such a session never gets a route again needs `SocketsAreOld`, since only a
socket that was not open yet is registered. `DispatchIsAlone` then uses `TurnIsFirst`: whoever was before is answered
or quarantined, who comes after has not begun. For `ConsentCoversWork`: an approval in the store is what its user
said yes to (`ApprovedIsConsented`), one that was used is gone and used by one attempt (`UsedOnce`), and grants and
calls, queued ones too, have the consent of their attempt (`RightsAreCovered`), although the grant may end while a call waits.
Each part has a lemma with one case per action, and the actions a part does not concern are one case;
`GatewayImplementsMutex` carries the refinement of the queue over to the gateway.

`ExtensionLinkProofs` holds for any number of ports and of runs. `LinkInv` adds to the properties who
owns the handle: a scan that goes on, or the run in charge of the connection (`HandleIsOwned`); what the state says
of the scan in charge (`StateIsOfScan`): one goes on while it is connecting and none while it is connected, and
one in state disconnected was interrupted; and that who pauses has also set
`manualDisconnectRequested`. `NoSocketIsForgotten` allows a cancelled scan to have its socket open, since that scan's
own timeout closes it.

`HotSwapProofs` holds for any builds, pieces, callers and faults. `SwapInv` says that every request on the
wire and every task of the loader is the call its caller is at, and its only one (`Calls`), and that a transfer, a
request and a task name a bundle. `PushIsInstalled` then goes through all that can set an outcome: only the answer to a
`commit` can set `swapped`, only the loader's last task gives that answer, and `pushDispatcher` accepts it only for the
build it pushed. That what is assembled is that build (`Verified`) is by the hash, which
the model takes for the content itself.

Only model-checked are the properties with fairness: `TransitStatesEnd`, `BatchAnswers`, `CallsEnd`,
`ZombieIsDropped`, `QueuedCallsEnd`, `ScansEnd`, `DeadLinkIsNoticed` and `CatchesUp`. The prover can not reason about
`ENABLED`, which weak fairness is defined by, nor do induction on what is left to do.

## Plan

1. Parts the models leave out, each of which is a hazard without a property: the second
   registration on one relay socket (`remote/gateway.ts:962`), the challenges that the close of the active client clears
   (`bridge/manager.ts:399`), the reassembly of chunks (`bridge/manager.ts:274`), and the connect of the CDP bridge
   (`bridge/cdp-manager.ts:108`), with their proofs.
2. The steps that liveness rests on, as far as they are safety: what each call in flight waits for has a timer
   that is armed (`CallsEnd`, `QueuedCallsEnd`).

## Not modelled

The CDP bridge (a second transport whose socket is a library's); the HTTP and stdio transports (the
sessions and streams are the MCP library's); storage and vendor clients, which wrap libraries; the pure
algorithms (routing, layout, schematic model, validation, quality, simulation), which have no state
and are covered by the repository's unit tests; the command line, configuration and logs. Of the modelled components,
the sections above say what is left out.
