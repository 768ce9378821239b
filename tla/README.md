# Verification of vicoop-bridge

vicoop-bridge lets an A2A caller talk to an agent that has no public address. A *bridge
server* (`src/packages/server`) serves the A2A endpoints and accepts outbound WebSocket
connections from *client daemons* (`src/packages/client`), each running one agent backend. A
request becomes a `task.assign` frame; what the backend emits comes back as `task.status`,
`task.artifact` and `task.complete`/`task.fail` frames and is streamed to the caller, while the
task's row in Postgres keeps the durable state. Around that core stand the payment of a request,
the ways to sign in and to be authorized, the administration of agents, and on the daemon's side
the containers, processes and sessions of the native agents.

Most of what is hard about this program is what happens when connections break, daemons
restart, lookups are slow, requests for one task overlap, callers leave, and statements of two
calls interleave. The modules here model these parts, TLC checks them on small instances, and
TLAPS proves what twenty of them promise for every value of their constants.

## 1. Inventory

### Components, their state, operations and interactions

| Component | State it keeps | Operations | Talks to |
|---|---|---|---|
| Binding table (`server/registry.ts`) | agent -> connection, task -> binding, grace holds, terminal receipts, server-closed sockets, per-task dispatch queue | register, unregister by close code, bind, unbind, hold, resume, fail, disconnect a client, serialize a dispatch | connection handler, executor (both call it synchronously) |
| Connection handler (`server/ws.ts`) | per socket: `agentId`, `authed`, `closed`, the close code seen | hello, token lookup, every task frame, close event, hello timeout | table, event queues, store of approvals |
| Executor (`server/executor.ts`) | abort controllers per task; per request the generator's place and task copy | execute/executeStream, dispatch, watchdog, cancel | table, queue, task store, payment gate, agent socket |
| Event queue, detachable stream (`event-queue.ts`, `detachable-stream.ts`) | buffer, closed flag, parked reader; detached flag | push, end, iterate; pull, drain, cancel | handler pushes, executor iterates, HTTP response pulls |
| Task store (`postgres-task-store.ts`, `execution-marker.ts`, `task-access.ts`) | one row per task: status, owner, grant, dispatch id, history | create, guarded update, mark an execution, list, trim, prune | executor, A2A SDK handler, admin agent |
| Daemon connection and replay (`client/client.ts`) | socket, reconnect timer, stopped; runs in flight, sequence numbers, retained frames, suppressed runs | connect, hello, heartbeat, reconnect and collision back-off; run, emit, acknowledge, resend, expire, cancel | the server's handler over one WebSocket |
| Price and policy refresh (`x402/pricing-watch.ts`, `caller-policy-watch.ts`) | nothing of their own: they patch the registered connection | LISTEN/NOTIFY, re-read, patch | database, table |
| Agent administration, transfer (`admin-api.ts`, `admin.ts`, `agent-transfer.ts`) | rows of agents, clients, policies, API keys | create, reprice, delete, add and remove callers, mint keys, preview and commit a transfer | database, table of the serving instance, notifications |
| Tool approvals (`tool-approvals.ts`, `requester-approvals.ts`, `client/remote-approval.ts`) | one pending approval per binding with its expiry; the client's waiters | request, decide, deliver, receipt, invalidate, expire | handler, table, daemon |
| x402 gate (`server/x402/`) | an offering per task: claim, started, unknown outcome; usage rows | challenge, verify, claim, settle, publish, release, expire | executor, facilitator, database |
| Token exchange (`server/oauth`) and authorization (`agent-auth.ts`) | replay rows of assertions, access tokens with their grant | verify, use up, issue; authorize a request from cache or database | database, the connection's cached policy |
| Device flow, sessions (`server/auth`, `client/login.ts`, `logout.ts`) | device sessions, caller tokens, nonces, caches per instance, the session file | request, sign in, poll, issue; exchange a signed message; verify, revoke, sweep | database, Google, the wallet's signature |
| Caller-scoped runtime (`client/caller-*`) | records of scopes and conversations, reservations, images, volumes, containers, queues | open and migrate the store; allocate, work in, idle, reclaim, remove a scope; queue, admit, release | Docker, SQLite, backends |
| Execution and auth brokers (`client/execution-*`, `*-auth-broker.ts`) | grants of an execution, its requests, relay and supervisor processes | spawn, request, cancel, scan and kill, close, stop the container when in doubt | Docker, the provider |
| Backends (`client/backends/`) | sessions, locks and lines per context, app-servers, gateway connections, captured output | handle a task, resume a session, cancel, call tools, ask for permission | child processes, gateways |
| Daemon control (`client/daemon-control.ts`, `daemon-shutdown.ts`) | the pid file | start detached, stop, status, clean up on shutdown | operating system |
| Usage RPC, identity credentials, HTTP boundary, admin UI, CLI, containers | a map of pending calls; else no shared protocol state | settle a call; verification, parsing, rendering | - |

### What is hard

JavaScript runs each handler to completion, so nothing is torn *inside* a handler; everything
is interleaved *between* handlers, and the code awaits a lot: the token lookup of a hello, the
turn of a dispatch, each store write between two events, the caller's next read, each Docker
command, each statement of an administrative call.

- A connection is dead long before either end notices; a displaced socket still delivers what it
  has queued; a close event may be seen after the next hello.
- A lookup ends after its socket has gone, and then registers a connection nobody holds.
- Two requests for one task overlap; the older generator runs its `finally` after the newer bound.
- A frame is accepted and its acknowledgement is lost; it is sent again, perhaps after its run
  has been superseded, cancelled, timed out or completed.
- A cancel, the watchdog, an approval expiry and the agent's own terminal race for the one queue.
- The caller stops reading, leaves, or reads while the generator awaits a failing store.
- Two instances share the database but not their tables and caches; what one removes the other may
  still serve.
- A payment is verified, claimed, spent on work and settled in separate steps, any of which may be
  retried, lost or overtaken by a new price.
- A grant or key is removed while something is being issued, admitted or written under it.
- A Docker command that was given up takes effect later; the daemon is killed between a record and
  the thing recorded.
- A native agent outlives its task: a leftover turn, a late message, a forked process.
- Two command lines, or a command line and a dying daemon, race for one file.

`PROJECT.json` lists each of these under "hazards" at the line where it bites.

### What makes each component correct

- *Table*: a task has one owner that some executor consumes; whoever loses ownership has its stream
  closed; a hold is about the present owner; a condemned connection is never rescued by a hold.
- *Replay*: the caller sees every frame of a run once, in order, with no hole, whatever breaks.
- *Connection*: one connection speaks for an agent, the table never names a dead one, and the agent
  comes back by itself unless it was deleted or an attempt hangs in connecting.
- *Execution*: a stream ends with a verdict, after all the output before it, and the row agrees;
  a cancellation reaches the run that owns the task and stays.
- *Approval*: a tool runs only on one recorded decision by one entitled to make it, about the run that
  asked; a decision gets through; the caller sees that the run waits.
- *Payment*: no priced work without an accepted request, no settlement but under the terms signed, a
  metered fee only for work completed, an uncertain settlement kept.
- *Store*: a caller sees and owns only its own tasks; what is kept is the newest; running work is
  neither trimmed nor pruned.
- *Authorization*: a token lives with its grant, an assertion serves once, a failed exchange burns
  nothing, a removed grant stays closed to its old tasks.
- *Sessions*: what is polled belongs to the one who approved the code, once per client that calls one
  at a time; a message yields one token; a revoked token soon stops working everywhere.
- *Administration*: cached lists and owners converge on the row; a removed key is dead; a transfer
  commits only what was shown.
- *Caller runtime*: a caller works only on its own storage behind its firewall; executions of a scope
  do not overlap; a reset conversation is told; queues are fair; nothing leaks.
- *Backends*: a task is answered once, by its own output, and cancelled when cancelled; a session
  stays with its caller; two native processes never write one session.
- *Brokers*: nothing is used for an execution that ended; success is the agent's own; an execution
  reported closed is gone.
- *Daemon control*: one recorded daemon, no SIGTERM to a stranger, every command ends.

## 2. Modules

| Module | Models | Role |
|---|---|---|
| `TaskBindings` | the table, the handler's connection and frame handling, the executor as far as it touches the table | base specification |
| `TaskReplay` | extends `TaskBindings` with two byte streams per socket and the daemons | composition of server, network, client |
| `TaskDelivery` | what a caller is promised about one run's output | abstract specification `TaskReplay` implements |
| `AgentConnection` | handshake, lookups, displacement, reconnect loop, price refresh, deletion | component, with liveness |
| `TaskExecution` | dispatch, queue, generator, cancel, watchdog, store row of one task | component, with liveness |
| `ToolApproval` | requests, decisions, delivery and receipt between daemon, server and approvers, for one task | component, with liveness |
| `PaymentGate` | the x402 gate around the runs of one task, with executor, store and facilitator | component |
| `TaskStore` | the rows of tasks: ownership, listing, trimming, pruning, cancel | component |
| `FederatedAccess` | token exchange, its authorization, tokens and tasks under grants, removal | component |
| `DeviceFlow` | device codes, browser and popup sign-ins, polling, issue, sweep | component |
| `SessionTokens` | signed messages, tokens, caches, expiry, revocation, the session file | component, in discrete time |
| `CallerPolicy` | the list of callers, API keys, the copy at a connection | component |
| `AgentTransfer` | ownership of an agent: preview, transfer, delete, and what connections know | component |
| `CallerStore` | the state directory: lock, manifest, migration, records | component, with crashes |
| `CallerAllocation` | one scope's record, storage, network and container, with Docker's failures | component, with crashes |
| `CallerScopes` | serial scopes: leases, idle reclaim, reset, shutdown | component, with liveness |
| `CallerScheduler` | limits, order and turns of concurrent executions | component, with liveness |
| `CallerContexts` | concurrent scopes: `CallerScheduler` with allocation, preparation and quarantine | composition, with liveness |
| `ClaudeRun` | one claude task, its child and the corrective child | component, with liveness |
| `ClaudeSessions` | the session map of the claude backend | component |
| `ChatHistory` | the history of an OpenAI-style conversation as it is repaired and injected into a native session | component, sequential |
| `CodexBackend` | codex tasks over shared app-servers: locks, threads, handlers, interrupts | component, with liveness |
| `CodexExecution` | codex tasks with a process each: lines, workers, barriers | component, with liveness |
| `OpenclawBackend` | openclaw tasks over a gateway connection | component, with liveness |
| `VicoopCodexBackend` | tasks over the shared vicoop-codex server | component, with liveness |
| `ExecutionBroker` | spawn, supervisor, relay, agent processes and provider grants of an execution | component, with liveness |
| `DaemonControl` | start, stop and the daemon around one pid file | component, with liveness |
| `Tables` | the records of the database kind by kind: `DeviceFlow`, `SessionTokens`, `CallerPolicy`, `AgentTransfer`, `TaskStore` over constants of their own | instances, and the properties of each kind |
| `Backends`, `Daemons` | `CodexExecution`, `CodexBackend`, `ClaudeRun`, `ClaudeSessions`, `OpenclawBackend` and `VicoopCodexBackend`, and `DaemonControl`, over constants of their own | instances, and their properties |
| `*_proofs` | - | TLAPS proofs about the module named; `FederatedAccess_proofs` also about the instances of `Tables`, `ExecutionBroker_proofs` about those of `Backends`, `AgentConnection_proofs` about that of `Daemons`, `CallerAllocation_proofs` about `CallerStore` |
| `MC*` | small instances | model checking; `AgentConnection`, `TaskExecution` and `ToolApproval` are checked as they are |

The modules are cut where the code's components share no state but a call or a row. What one
takes from another is stated in its header: `TaskExecution` takes the table's verdicts on a binding,
`PaymentGate` the dispatch, `CallerContexts` the allocation that `CallerAllocation` has in detail,
`CodexBackend` the tasks that `CodexExecution` starts one at a time.


### Correspondence

Variables bear the names of the code's fields where it has one; "map" in `PROJECT.json` gives for
every definition the lines it stands for. A step is what the code does between two awaits.

`TaskBindings`. `agents`, `bindings`, `holds` (`graceHolds`), `receipts` (`terminalReceipts`) and
`serverClosed` are the table's maps. A `TaskBinding` object is a *run* (one per dispatch), so that
object identity, which the guards compare (`current === binding`), is equality of runs. `outcome[r]`
is how the run's queue was closed, `phase[r]` where its generator stands. `Authenticated` is
`authenticateAndRegister` from the answer of the lookup on, with `registerAgent` and the settling
of the displaced connection's tasks; `CloseEvent` is the close handler with `unregisterAgent`;
`HandleFrame` the task part of the message handler, split as the code splits it; `Dispatch`,
`Refuse`, `Cancel`, `Watchdog`, `Exit` are the executor's calls; `HoldExpires`, `ReceiptExpires` the timers.

`TaskReplay` adds `up`/`down` (frames in flight), each end's view of the socket, and the daemon's
fields (`ws`, `replayReady`, `inflight`, `pending`, `suppressed`). A socket delivers in order and
loses an arbitrary suffix when it breaks; each end learns of it by itself; a crash loses
everything a daemon holds. `pendingFrames` is a list in the code; its frames carry their run's sequence
number, so `pending` is a set and `Replays` gives the orders in which it may be sent: of one run by number, the runs
interleaved in any way, of which the code's order of insertion is one. `Emit` overflows when
`PendingLimit` frames are retained, or, as an upset, when the frame is too large for the bytes left.

`AgentConnection` has one agent. A query is *asked*, *read* by the database and *answered* in separate
steps, so a lookup sees the row at one moment and acts on it at another. `sock[s]` holds both ends of a
connection: the server's `readyState`, the lookup, what it read, the close code the server sent,
whether the path still carries anything, and the client's `readyState` (`end`). A connection is made in three steps: `Connect` creates
the WebSocket, `Accept` is the server's upgrade (`ws.ts:90`), `Opens` the client's open event, from which on it has a heartbeat; `ConnectFails` is a
refused attempt or one the system gives up.

`TaskExecution` has one task and several requests. `exec[r].stage` names the await or yield at which
the generator of a request stands. `iterate()`'s order of tests (abort before buffer before closed)
is `Take`; `binding` and `controller` are the two tables a cancel reads; `row` is the stored task;
`turn` and `reading` are the dispatch queue.

`ToolApproval` has one task whose runs follow one another. `entry` is `ToolApprovals.entries`, `audit`
the recorded decisions, `origin` what the binding says of the message that started it. A requester's
decision takes two steps, `MatchOrigin` and `RequesterDecides`, because the grant and the row are
awaited in between. On the daemon, `asker` and `tool` are the waiters of `RemoteApprovalBroker` and
what each was told. Frames to the server are numbered and replayed, so `up` keeps them across a break;
frames to the daemon are lost with their connection.

`PaymentGate`. `offering` is the row of `x402_offerings`, `turn[q].stage` the await at which a request
stands between the gate and its final write, `signed` what the payer of an authorization put his name
to, `settled` the facilitator's ledger. The facilitator may answer late, fail before, or fail after
it settled; the last is the unknown outcome the gate keeps.

`FederatedAccess`, `DeviceFlow`, `SessionTokens`, `CallerPolicy`, `AgentTransfer`, `TaskStore` each
hold the rows of their tables and, per caller under way, the place between two statements together
with what it has read. A transaction is one step where a lock or a condition in the statement makes
it one, and several where the code relies on what it read before. In `DeviceFlow` a sign-in keeps what its start URL asked for (`onsite`, signed into
the state): whether the callback answers with the token (`Deliver`, which looks at no status) or approves the row for the poll (`Approve`) is
up to it and not to the client of the code. `SessionTokens` counts time, because its
promises are about expiry; the others have a step for each thing that lapses. `TaskStore`'s `row[t].said` is whose messages a row holds,
`victims[s]` the rows a retention statement has chosen and not deleted yet (the trim of a call, or the hourly sweep `Prune`), and `may`, fixed in `Init`,
what callers do in a behaviour.

`CallerStore` has processes that are killed between any two file operations. `CallerAllocation` has one
scope; a Docker command that was given up is in `late` and may still take effect; `store` and `docker` survive a kill,
`step` does not. `CallerScopes` and `CallerContexts` follow a task through `execute` and `executeConcurrent`;
`CallerContexts` extends `CallerScheduler` and runs its admissions as the code calls it; `MCCallerRuntime` also takes the scheduler by itself, with more who wait.

`ClaudeRun` is one call of `handle`: `child[a]` are the two attempts, `wire` what the server was sent,
`captured` the tool calls taken, `tokens` and `tools` what was set up for the child. `ClaudeSessions`
is the session map across tasks, in discrete time. `CodexBackend` has shared app-servers (external,
as the code uses them), per-context lines of lock holders, and the handlers that are keyed by thread.
`ChatHistory` is sequential: a request brings the
whole conversation, and `view`, `frozen` and `split` are what the repair and the cutting for the prompt cache make of it.
`CodexExecution` has a process per task and `tail`, the promise chain of a context. `OpenclawBackend` and
`VicoopCodexBackend` follow a task through their promises; gateway and server are external.

`ExecutionBroker` follows an execution through host, supervisor, relay and agent processes, each a
process of its own that can die or be cut off. `DaemonControl` has process ids that come round again
and commands whose steps are the system calls on the pid file. A stop that polls asks only whether the id is alive, and the id may go to a stranger meanwhile. Its variable `may` is chosen once: whether
commands run side by side or one after the other, and whether a launcher may be killed.

## 3. Runs

Components that share no state are checked side by side in one run: a behaviour of `MCTables`,
`MCCallerRuntime`, `MCBackends`, `MCProcesses` or `MCLiveness` is *about* one component, chosen by its
initial state, and leaves the others as they began. Their graphs therefore add up and do not multiply.
Such a module states a component's initial states and properties on the wide instance (`Device`, `Store`, `Side`, ...; those of `tables` are in `Tables`, so that the proofs are about the same properties) and
takes its steps from smaller ones (`OneCode`, `StoreOfTwo`, `SideThree`, ...), each of which is cut
where another kind of interleaving is looked for. Where actors are alike and act once, they begin in the order of their names
(`InOrder`, `ComeInOrder`, `FirstComesNext`): every other behaviour is one of these with names exchanged, which no property tells apart.

| Run | Instance | Question |
|---|---|---|
| `bindings` | 2 agents, 2 connections, 1 task, 2 runs, frames 0..0, grace on | Does every interleaving of hellos, displacements, closes, timers, dispatches, cancels leave one live owner per task? |
| `replay` | server, 2 connections, 1 daemon, 2 runs, frames 0 and 1, 2 retained, 2 upsets | Does acknowledged replay deliver each run whole and in order? |
| `connection` | 1 daemon, 2 connections reused, each made in three steps, 1 price update, 2 upsets, a deletion | Who speaks for the agent, and does it come back? |
| `execution` | 2 requests, 1 progress or approval event each, 1 failed write | Do stream, row and verdict agree, and does the run end? |
| `approvals` | 2 runs, 2 requests, 2 frames under way each way beyond what a step adds, 1 upset | Who may allow a tool, and does the decision arrive? |
| `payment` | 4 requests over 1 authorization, 1 fixed and 1 metered price, 1 upset | Is priced work paid for, once, and is doubt kept? |
| `tables` | 2 or 3 callers for each kind of record | Do interleaved statements keep grants, codes, messages, keys, owners and tasks right? |
| `caller_runtime` | 1 scope with 8 faults; 2 or 3 processes; 2 or 3 tasks; 5 waiters for 1 slot, and for 3 of which a caller may have 2 | Is a caller's storage his own, and does what runs stay within its limits? |
| `backends` | 2 or 3 tasks that share a context, session, server or gateway | Is a task answered once, by its own output, to its own caller? |
| `processes` | 1 execution with 3 provider requests and 2 forks; 2 executions in 2 containers; 2 starts and a stop | Is nothing used after its end, and is one daemon told of? |
| `liveness` | 1 or 2 tasks of each | Does what is owed come? |
| `accepted_work_invalidated` | as `payment` | Section 7. |

**`bindings`**. `HoldIsCurrent`: no stale hold for a task another run took over. `NoOrphanStream`: a run
that lost its binding has had its stream closed. `TaskKeepsAgent`: a task in flight never passes to
another agent. `CondemnedIsNotRescued`: when a connection closed by the server, or one that cannot
replay, leaves the table, none of its tasks survives under a hold, whatever close code the peer
echoes and whichever of close and next hello is seen first. Two connections are enough for every
displacement, two runs for every supersession; a task is independent of the others except through
its agent, which the second agent and the proofs cover.

**`replay`**. `NoSpuriousGap`: a correct client never trips the gap check. `RetainedUntilAccepted`: what is
not accepted is still retained, without a gap and once. `OutputIsWhole`: a stream closed by a terminal
carried everything before it, no acknowledgement is for what was not accepted, and no task is worked on twice.
`DeliversInOrder` is the refinement of `TaskDelivery`. An upset is a break, a crash, a cancel or a
timeout: two allow a break during the recovery from another, which is where a prefix could be lost.
Two frames, of which the last may be the terminal, are the shortest output with a hole. The run explores 2.5 million states.

**`connection`**. `SoleSpeaker`, `StopsOnlyIfDeleted`; `ComesBack` joins two liveness properties: a daemon
that believes itself connected is not deaf for ever, and the agent is back on line in the end, both unless an attempt hangs in connecting (`Hung`): a
WebSocket is created without a handshake timeout (`client.ts:342`) and its heartbeat starts with the open event, so an attempt whose path dies before
that may last for ever, and the code has nothing that ends it. A path that dies once the socket is open must be overcome. A
second live connection beside a first that the server still believes in needs one upset; the second strikes during the
recovery. A socket is used again once both ends have let go of it, so the daemon may reconnect for ever.

**`execution`**. `RowAgrees`, `StreamIsComplete`, `CancelReachesOwner`, `CallersAreAnswered` and the
liveness property `DetachedRunsEnd`. Where a failed write legitimately changes the outcome the
property says `faults = 0`; the run still takes the failing steps.

**`approvals`**. `AllowedIsGranted`: a tool runs on exactly one recorded decision, an allow, by the owner or by
the requester whose own message started the run that asked. `NoFalseDuplicate`: a correct daemon is never failed for a
duplicate request. `DecisionGetsThrough` (liveness): a decision is consumed or its run ends. Two runs are enough for a
decision that begins under one and ends under the next. With two frames under way each way the second request may travel behind the receipt for the first, the
order that `NoFalseDuplicate` is about.

**`payment`**. `WorkIsPaidFor`: whoever was bound was paid for under the terms that hold, and whoever is past its claim holds it on record, alone, so that two
submissions of one authorization never both go on. `UncertainIsKept`. With one authorization four requests are the first that
is accepted, a retry, one that is verified late, and one under the next price.

**`tables`**. `OneExchangeEach`, `RevokedStaysClosed` (token exchange), `LoginsAreOwn` (device codes: what is polled belongs to the one approver, one poll token per code unless its client is hasty, an agent id registered
once, and nobody let through after the first token; both a code with and one without a hasty client are in the run, and each may be answered at a callback beside the poll),
`SessionsEnd` (signed messages and tokens), `KeysFollowPolicy` (allowlists and keys), `OwnershipMovesAsShown`
(transfer and deletion), `TasksStayOwn` (task rows and their retention). Where the code is right only
if something does not happen, the instance says so by name: `SlowExchange(s)` for an exchange that
outlasts the validity it judged, `Hasty` for the codes whose client calls again while its call is unanswered, and `may`, fixed in `Init`, for the orders of
administrative calls in `CallerPolicy` and for what callers do in `TaskStore`: the cap is kept, and what runs is not
deleted, where they neither send to a task that has ended nor cancel.
`CallerPolicy` promises an up-to-date copy on the instance where none of these occurs, and the ownership of keys everywhere.

**`caller_runtime`**. `OwnStorage`: a caller works only on storage made for its present record, whatever
command failed, was late, or was cut by a kill. `DirectoryIsSafe`, `ExecutionsAreOwn`, `TurnsAreFair`: the
state directory, the serial and the concurrent executions, the scheduler. The scheduler is looked at twice: with one slot, where the queues fill, and with three
slots of which a caller may have two, where conversations are busy at an admission, a caller at its limit is passed over, and limits differ. Five waiters come again and again;
of those that are idle the first comes next (`FirstComesNext`), which loses nothing, as an idle waiter has no state. Eight faults are more than
any recovery path of an allocation has steps that can fail in a row before it is quarantined.

**`backends`**. `ClaudeKeepsItsWord`, `ConversationsAreOwn` (which has `OneProcess` in it), `RunsAreHeard`, `HistoryIsWhole`, each a
conjunction over one to three backends' promises, listed at its definition. A conversation of up to seven messages with two calls in one answer, unnamed and repeated calls included, has every repair of `ChatHistory`. Of the four turns over the app-server two take part in
a behaviour: of one caller, of two callers in one room, or of two rooms. Three tasks in a line show one that
is cancelled between two others; elsewhere two tasks interfere with each other in every way a task can.

**`processes`**. `NoUseAfterEnd`, `DoubtIsContained`, `OneDaemonTold`. The executions are looked at twice: one with three provider
requests and two forks, and two side by side without, in one container or in two, since a provider request meets nothing of another
execution but the container's doubt. Three process ids let an id come
round while a daemon, its starter and a stranger live, also while a stop polls that id. What `OneDaemonTold` says of signals is about the SIGTERM; of the SIGKILL see section 7. That one daemon runs, is recorded and stops on its own word is
checked where commands come one after the other, the rest of `OneDaemonTold` also with commands side by side. A stranger takes only an id that the file or a stop has on record, as
nobody asks after any other. Where launchers are killed as well (`may` = `Faults`) the run has no strangers: the two together are left to the theorem `OneDaemonIsTold` (section 4), which has
every combination. Two executions side by side end with exit code 0, since neither property looks at the code of an agent.

**`liveness`**. `EveryTaskEnds`: what is owed to a task, to who cancels an execution and to who stops a
daemon comes in the end.

Every property of these runs has a mutant in `PROJECT.json`: a plausible bug in one mapped
definition, with which TLC finds that property violated. Deadlock is not checked, because the
system may stop: a bound on upsets or requests is used up and everything is quiet. Symmetry is used only where no liveness property is checked.

### Fairness

- `AgentConnection`: the daemon's timers fire (reconnect, heartbeat), an attempt on a live path is upgraded and opens, a socket that is open gets its
  hello processed, queries are answered, the hello timeout fires, a closed socket's event runs.
  Nothing makes an attempt fail, on a live path or a dead one. Nothing makes the server notice a dead path: it sends no keepalive, so its side of a
  half-open connection may stay open for ever. Upsets are not fair and are bounded, which is the
  usual "once the network behaves".
- `TaskExecution`: the store answers (possibly with a failure), timers fire, and a detached stream is
  drained. The turn is strongly fair for each waiting request, as `serializeDispatch` is a chain of
  promises and so first come, first served. An attached caller may stop reading and the agent may
  say nothing more for ever. The watchdog is assumed on, as it is by default.
- `ToolApproval`: both ends process what they receive, a lost connection is replaced, a hold runs out, and
  the server's tick resends and expires. Nothing is expected of approvers, of the backend or of the deadline.
- `CallerScopes`, `CallerContexts`: a task's own next step happens (Docker answers or times out), and the timers of idle scopes fire. Nothing is expected of callers.
- `ClaudeRun`, `CodexExecution`, `CodexBackend`, `OpenclawBackend`, `VicoopCodexBackend`: the steps of the
  daemon itself and the timeouts it set; of a child only that it dies when killed. A codex or vicoop-codex task that is
  not cancelled may last for ever, so only a cancelled one is owed an end there; openclaw and claude have time limits of their own.
- `ExecutionBroker`, `DaemonControl`: the host's and the supervisor's steps, the polls of a command. Nothing is
  expected of the agent in the container or of a daemon's cleanup.
- The other modules state safety only.
## 4. Proofs

Eight modules hold theorems, about twenty components. Each proof has the same frame: an inductive invariant `IInv`, `InitInvariant` (`Init => IInv`),
one lemma per action (or per kind of action), `StepInvariant` (`IInv /\ [Next]_vars => IInv'`), `Safety`
(`Spec => []IInv`), and the invariants the runs check as its consequences; action properties follow from `IInv` on both
sides of a step. The constants are arbitrary: sets of agents, tasks, requests and so on of any size, bounds of any value.
The only assumptions are each module's `ConstantsOK`: bounds are naturals, switches are booleans, and the value that stands
for "undefined" is none of the values it stands beside. Nothing uses fairness. "theorems" in `PROJECT.json` lists what is worth
knowing; the lemmas beside it are steps on the way.

**`TaskReplay_proofs`, the table.** Its first part is about `TaskBindings` alone. `IInv` is the conjunction of `TypeOK`, `RunsKnowTheirTask`, `HoldIsCurrent`, `BoundIsLive`,
`NoOrphanStream` and `ReceiptsAreFinal`. The parts need one another. `NoOrphanStream` speaks of the run *not* bound under its
task, so dropping a binding must find the run by its task: that is `BoundIsLive` (bound under its own task id). Dropping
a binding drops its hold only if they are the same run: `HoldIsCurrent`. `ReceiptsAreFinal` survives a new dispatch
only because a run that begins has no receipt, and `BoundIsLive` survives it only because a run that has begun has a
task: `RunsKnowTheirTask`. What handlers do to the table is either nothing or a *settled* step: every binding that is
dropped has its hold dropped and its stream closed, and nothing else about bindings changes. `SettledKeeps` shows that
a settled step keeps every part of the invariant; one lemma per action shows that the action is settled, and only
`Dispatch` and the steps of the executor need an argument of their own. The two action properties, `TasksKeepTheirAgent` and
`CondemnedStaysSo`, go through `StepKind`: a step either is `Dispatch` or binds nothing anew.

**`TaskReplay_proofs`, the replay.** The second part follows a frame from the run that made it to the stream that takes it, across any
number of connections, breaks, daemons and crashes. `ReplayIInv` adds to `IInv`:

- `TableFits`: connections and runs are of the daemons' one agent, what was accepted was made, and a run whose terminal was taken is bound no more;
- `AssignedOnce`: an assignment under way is the only one of its run, and no backend has begun it, so that two daemons
  never make frames of one run; with `AtHome`, what is in flight and what is retained of a run lie in one daemon;
- `FramesGenuine`: a numbered frame was made by its run, and the terminal is the last of them;
- `RetainedWhole`: a daemon that works for a run, *or retains any of it*, retains all that was not accepted. The property checked,
  `RetainedUntilAccepted`, speaks only of runs at work; a terminal whose backend has returned needs the second half;
- `UpOrdered`: on a socket, a frame of a bound run is at most the one expected next, or has the one before it in front of
  it on the same socket. This is `NoSpuriousGap` for all frames, not only the first;
- `UpCarries`: a connection that has replayed carries everything retained that is not yet accepted. Without it a fresh
  frame appended to a socket would not be known to follow its predecessor;
- `OutputIsWhole`: the run's property. With `UpOrdered` a terminal that is accepted has the number expected next, by `FramesGenuine` it is the last made.

A step of the server is known by a few effects: it goes *onward* (`Onward`: runs advance, sockets close, nothing else is bound anew),
what it accepts is expected (`AcceptedCounts`), and what it sends is harmless to the daemons (`AnswersOnly`). A daemon's step leaves the table alone
(`Unmoved`) and mostly makes it quieter (`QuieterKeeps`). The three with arguments of their own are the replay (`ReceiveHelloAckKeeps`, by
`AppendedOrder`: any sequence in `Replays` keeps a socket in order), `Emit`, and `RunTask`.

The assumptions are `ConstantsOK` and `ReplayConstantsOK`: the bounds are naturals, and there is an agent and a client.

**`TaskReplay_proofs`, the refinements.** `ReplayRefinesBindings`: every step of `TaskReplay` is a step of `TaskBindings` or leaves it alone, so
`TaskBindings`' theorems hold with the network in place. `EveryRunDelivers`: under the mapping of `DeliversInOrder` every step is one of `TaskDelivery` or stutters; a
frame that is taken is taken by its stream in order (`HandlesDelivers`), and every other end of a stream is a verdict other than the terminal (`GivesUpDelivers`).

**`ToolApproval_proofs`.** `AllowedIsGranted` is far from inductive: it speaks of what a backend was told, and the
reason for it travels. `IInv` follows the decision: what the record says agrees with the decisions granted (`RecordsAgree`),
every allow under way to the daemon is such a decision (`DecisionsGranted`), and a decision request that awaits the
database was matched with the run that asked (`CallIsRequesters`). That a decision is granted *once* needs that a record
is created once: a request in transit is unknown to the server so far and is there once (`RequestsFresh`,
`RequestsOnce`). Most actions decide nothing and know no new request; `QuietStep` preserves the invariant for all of
them, and only `Ask`, a request or receipt or status at the server, and the decisions have an argument of their own.

`RequestsNeverMeet` (`NoFalseDuplicate`) needs a second invariant on top, `OrderInv`, about the order within a mailbox. What is open at
the server, and what was asked in front of a request in the same mailbox, has its receipt in front of that request (`OpenBefore`,
`AskedBefore`); what the run at work does not ask any more has its receipt under way (`OpenAnswered`, `AskedAnswered`), so that the
next request is behind it. A run that starts work has asked nothing, because it is assigned once (`AssignedOnce`, `AssignedFresh`,
`RunsDispatched`): that is why a mailbox that a broken connection emptied is never written to again. The server accepts every receipt that is
about an open record: an allow the daemon claims is the decision on record (`DecisionsAlone`). A mailbox changes in
two ways, a frame taken (`TakenKeeps`) or frames added (`AppendedKeeps`, `AskedKeeps`).

**`AgentConnection_proofs`.** The invariant is about one socket at a time. `Fits(s)`: a registered socket is not closed, has
read its row and did not find it deleted; an authenticated socket that is open is the registered one (so two never speak); the close codes
a daemon takes for final, and a lookup that found no row, mean that the row is gone. `GoneIsGone` adds that a deletion under way has committed
and that a daemon stops only then. `OneSocket` covers the steps that touch one socket and neither table nor row; registration,
deletion and displacement have an argument of their own.

*The daemon* (`DaemonControl`, the instance `Daemon` of `Daemons`). `DaemonInv` has a part for every behaviour and one for commands that come one after the other. `Anyhow`: an id is had by a launcher
at work, by a daemon that is up or by a stranger (`IdHolds`, `StarterHolds`); what the file and a stop have on record is a launcher or a daemon that was
started, with the cleanup time of its start (`OnRecord`); a stop signals the process on its record or nobody, and when its wait is over that process is gone, whoever has the id by then (`StopHolds`). `InTurn`: a launcher past its look has found no daemon
up, a daemon whose launcher is done with it is in the file (`LaunchKnows`); a stop that waits has a daemon on record, which the file still names unless the daemon removed it after its
cleanup, and a stop past its wait left no daemon up (`StopKnows`). `OneDaemonIsTold` is `OneDaemonTold`; that a cleanup is not cut compares the two
time limits of the code. Its hypothesis `StartIds` is the setting of the runs: the platform tells when a process began. Ids may be handed out again at any time but between the judgement of a record and the
SIGTERM that follows it at once; whom the SIGKILL hits is not claimed, because there the code does not judge (section 7).

**`FederatedAccess_proofs`.** Three arguments. A token and the tasks under a grant end in the very transaction that removes
the grant (`TokensFollowGrants`, `Stamped`). What a request was admitted under carries how often the grant had been
removed by then, and a task that is still open has seen every removal (`Fits`), so that a request admitted before a
removal never changes a task revoked by it: `RemovalIsFinal`. And an assertion that was used up is remembered or
can no longer be used: `AssertionsServeOnce`, whose hypothesis `~SlowExchange` is the configuration of the run; with a slow
exchange the code really lets an assertion serve twice (section 7).

The module also proves the other records of the database: `Tables` instantiates each kind over constants of its own (`Store`, `Policies`, `Owning`,
`Device`, `Session`), states the property the run `tables` checks of it, and the instance's `ConstantsOK` is the hypothesis of each theorem.

*Tasks* (`Store`). `StoreInv` holds for any number of callers, calls, tasks and any cap. Ownership needs only that a call and what it is
about agree (`CallsFit`, `RowsFit`). That a trim deletes none of the newest is harder, since its snapshot is old when it deletes and other trims and the sweep
delete meanwhile: each victim that is still there has `Cap` newer ones of its owner beside it (`Backed`). A trim that deletes the ones above takes
their own newer ones for granted, so `Cap` of those stay; the sweep deletes with a task all that are older in its context (`Swept`), the victim
included. The cap is a second invariant, `CapInv`, for behaviours in which callers neither send to what has ended nor cancel: a caller's ended tasks, but for
those that some statement is to delete, are at most `Cap`, unless the call that ended one has yet to trim (`Bounded`, with and without the sweep's victims).
It needs that a task has one call and only ended ones are to go (`Ending`), and that a trim deletes its caller's own (`VictimsOwn`).
`StoredTasksStayOwn` puts the four properties together and is `TasksStayOwn`; counting uses the library's facts on finite sets and well-founded orders.

*Callers and keys* (`Policies`). `PolicyInv` is one invariant for all the sets of faults a behaviour may have. A key is drawn by one call and, once a call took it off the
list, does not come back (`DrawnOnce`, `StaysOff`); the rest is a part for each fault that does not occur. Where nothing stops, a key on the list has a row or a call that gives it
one or takes it off (`KeysBacked`); where nobody removes a key that is being minted, it is on the list (`MintsOnList`); where neither happens, every live key is, or is
about to be revoked (`LivesOnList`). `CatchesUp` is why the copy at the connection is right in the end: while no call is under way it is the row's list, or the last refresh
under way has still to read, or has read just that list. `PoliciesAreFollowed` is `KeysFollowPolicy`.

*Ownership* (`Owning`). `OwnerInv` says that the rows of agents, clients and policies agree on the owner and that client ids are handed out in turn (`Registered`), that a deletion
removes a client that was handed out (`Removable`), and that a preview which something has outlived can be told from the row (`PlanHolds`): if the agent's client is still the one shown, the revision shown
is no newer than the row's, and older if the owner changed since. `OwnershipMoves` is `OwnershipMovesAsShown`: the invariant `RowsAgree` and three action
properties, each from `OwnerInv` before the step.

*Logins* (`Device`). `LoginInv`: a code is approved once and its row says by whom (`CodeHolds`), a call that was told of an approval carries whose it was (`CallHolds`), a client that is not hasty has one
call under way (`OneCall`), and a code that has yielded any token has no row any more; if it was polled by such a client, no call is left but the one that was answered (`TokenHolds` with `Spent`).
`LoginsBelong` is `LoginsAreOwn` for every set of hasty codes and every choice of start URLs. It does not say that a code yields one token: a callback may answer with one beside the poll, and a hasty
client may poll two. What holds of these is `SpentLetsNobodyThrough`, from `PollsInTime` and `SignInsInTime`: they were all let through before the first.

*Sessions* (`Session`). `SessionInv` follows times. The nonce of a message stays until the message is past use, and what it bought ends with it (`BoughtOnce`, `RowHolds`); a cache entry ends with its row, and a cache
lifetime after the row was revoked at the latest (`EntryHolds`), so what a request that is served was shown was good when it came, or revoked no longer ago than that (`ShownHolds`). `SessionsEndInTime` is
`SessionsEnd` under `Alone`: no time passes between the verification of a message and its transaction, and one command line uses the session file. Both are the settings of
the run, and both are needed: a slow exchange lets a message serve twice (section 7), and of two command lines one may remove the file the other has just saved.

**`PaymentGate_proofs`.** `Good(r)` says what a request knows at each stage: what it has not done yet (`Stages`), whose
claim it holds and that the claim is on record for it (`Owned`), that what was admitted or bound was paid
(`Funded`), and that what is submitted is under the terms signed (`Submitted`). Of the table: an unclaimed offering has no uncertain
settlement (`Unclaimed`); of the facilitator: a metered payment was taken for a request past the point of no return
(`MeteredIsLate`). `UncertainStays` is an action property and needs `Owned` to tell whose claim a step may delete.

**`CallerAllocation_proofs`.** The steps of an acquisition and of a removal each rely on what earlier ones recorded. `IInv` says at
which steps a helper may be left and that it is on record while it may run (`HelperOnRecord`), that an image has a
record of the scope and of the pool (`ImageHasRecord`), that what the caller worked on is the present record's storage and
that no late command can still make another (`StorageIsOwn`), and that a container behind its firewall goes on running
(`Walled`).

Its second part is about `CallerStore`, any number of processes over one state directory. `DirectoryInv` says of
each process where it stands (`Stands`): from reading the manifest until it is named the owner it has `.guard`
*and* has seen no living owner, so nobody else is at the manifest or the database, and what it has read there is still so. Two
cases want care. A process that was killed leaves `.guard` to the dead, and the operator may remove it: whoever works under a
guard is alive, so what is removed was nobody's. And a process that was killed in the middle of the import leaves a marker that the next one
reads: the database may be whole already, which is why `DirectoryInv` ties a database that is there to its scopes
while the marker stands. `Writes` says that the version of every manifest write is at least that of
the manifest, that of its row, and that which each caller still waiting has asked for: this is what lets the queue of
writes end in any order of levels. `OthersStand` is the frame: a step under the lock, by the owner, or of neither file, moves nobody
else. `DirectoryStaysSafe` joins three state predicates and `ImportIsWhole`, an action property, which follows from the invariant
before the step: only `FinishImport` turns the marker off, since whoever writes a row has found it off.

**`TaskExecution_proofs`.** `IInv` has three layers. `Sound` is about one run: before it is bound nothing reaches it (`Fresh`), a
verdict that was given is the run's and nothing is behind it (`Given`), a generator in its loop has no verdict yet but will have
one once its queue is closed (`Looks`), a queue holds one terminal event at most, the last (`Lasts`), and what was pushed bounds what
waits (`Counted`). `Holder` and `Turned` are about who has the task: a bound run is the one a cancel would
abort, a loop with an open queue is bound, whoever has the turn is dispatching and knows what the row said when it was
read. `Known`, with `Announced`, ties a cancellation under way to the row: what a run heard of it the row says already or is about to.
`Ends`, `Labels` and `RowAgrees` itself close the circle, since a dispatch relies on the row that the run before it left. A
step concerns one run, for which a lemma per action shows `Sound`; frame lemmas keep the others. `CallersAreToldTheTruth` is
the conjunction of two action properties, `WaitingStep` and `CanceledStep`, each a consequence of `IInv` before the step.

**`ExecutionBroker_proofs`.** `Good(e)` relates, for each execution, its broker, its codes, its doubt and its container; every step but the three that stop several
executions at once concerns one execution only, so the step lemmas show `Good` for that one and `Others` for the rest.
`StopsOnlyDoubted` is part of the invariant because an execution's doubt is what stops the container it shares with others. The
cardinality of open requests uses the library's facts on finite sets. `DoubtStaysContained` is the conjunction of the two safety properties about doubt.

The module also proves `CodexExecution`, the instance `Codex` of `Backends`; each theorem has `ConstantsOK` of that module as its hypothesis. The promise chain of a
context is in order: each task in it can be given the place at which it joined (`InLine`), nobody shares a place, who has somebody before it
waits for one who is not before that one, and the last is the worker's tail. The places are a witness of the invariant, not state of the
model: joining takes a place above all of the context, leaving keeps the places of the others. `ProcessesAlone` is `OneProcess`,
the first part of `ConversationsAreOwn`.

*A task of claude* (`ClaudeRun`, the instance `Claude` of `Backends`). `ClaudeInv` has three parts beside the types. `AtPhase` says what is set up at which point of
`handle`: while the child runs the cancellation and the abort are one, artifacts are held back exactly in the corrective attempt, and a task that has settled holds
nothing. `Current` ties the rest to the child at work: only it has a capability, what is asked of the operator it asked for, captured calls were announced by it, and the
attempt put aside had neither a call nor a question. `Said` follows the wire: nothing of the corrective attempt before the task settles, nothing terminal before it is done, and
a verdict owed or given that has all captured calls and is the first attempt's when that one is restored (`IsVerdict`). One lemma (`AtWork`) is about any step
of a working child, one (`Settles`) about any way to settle. `ClaudeKeeps` is `ClaudeKeepsItsWord`: three invariants and four action properties; `ClaudeSpeaks` says what a step may
put on the wire. `ConstantsOK` of the module asks that the value `Nothing` differs from the states of a request and from a set of held artifacts.

*Tasks of other programs* (`OpenclawBackend` and `VicoopCodexBackend`, the instances `Openclaw` and `Vicoop` of `Backends`). At the gateway a task is at one
connection, and connections do not come back. `Attuned` follows its run there: what comes before the acknowledgement is kept until it, an end that
was reported is either kept or has settled the task, and a task that is done with a run has noted it as finalized. `Heeded` says how far a cancellation has come at each point, `Passes`
that what is queued is read until the task has ended. `ServerInv`: a server of vicoop-codex that was not told to end is the one in use or the one that starts, and starting one leaves
none in use. `Folded`: the accumulator and the artifacts hold what the stream said, an error among it. `RunsAreAlwaysHeard` is `RunsAreHeard`, from the two specifications, which
share no variable; both `ConstantsOK` ask that `Nothing` differs from tasks, events and servers.

*Conversations* (`CodexBackend` and `ClaudeSessions`, the instances `Threads` and `Chats` of `Backends`). Over an app-server whoever holds the lock of a
context is the first in its line (`Placed`): that is why release can take the head. `Threaded`: the thread a task has is of its context and its caller, alone with the openai
extension, and while the task works the handlers of that thread are its own. `Turned`: an answered task is out of its turn, has no
interrupt pending, and the calls taken for it are its own. `Remembered`: a context's session is the thread of a task that opened it and was not answered without success. For `ClaudeSessions`, no two writes to the table of sessions have the same number (`WritesDiffer`); an entry
is that of the last writer of its context, session, time and caller (`Written`); and where there is none the last writer has failed or a later task found it too old (`Missing`). `ConversationsStayOwn` is
`ConversationsAreOwn`, from the three specifications; the `ConstantsOK` ask that `Nothing` differs from tasks, contexts, verdicts and entries.

## 5. Model-checked only

Seven of the forty properties of the runs have no theorem:

- Liveness (`ComesBack`, `DetachedRunsEnd`, `DecisionGetsThrough`, `EveryTaskEnds`):
  fairness and `ENABLED` are beyond the proof system's backends.
- `TurnsAreFair`, and with it `ExecutionsAreOwn`, whose concurrent part admits through the same scheduler: one admission is a loop over the free places, and what such
  a recursive function computes needs induction over data, which the backends cannot instantiate.
- `HistoryIsWhole`: what the repairs and the segments of a history are is a fold over sequences, and that they fit for every history is induction over data as well.

The components without a theorem are therefore `CallerScopes`, `CallerContexts`, `CallerScheduler`, `ChatHistory`.

## 6. What the models leave out

Frames, cards, tokens, prices and paths are model values; formats and their validation are left out
everywhere. Further, by module:

- `TaskReplay` leaves to `TaskBindings`: the owner's deletion, rejections by the server, refused
  dispatches, malformed approval frames. All daemons share one token. A backend that returns without
  a terminal frame is excluded (the client makes a terminal of it). A retained frame too large for a
  newly negotiated limit (`flushPendingFrames`) is left out; the order in which the frames of different runs are replayed is left open.
- `AgentConnection` is untimed; TCP and TLS are part of the attempt. The rejections 4006, 4008
  and 4011 change no table and are left out. A hello timeout that strikes while a hello or a
  lookup is outstanding counts as an upset. Two daemons with one token that displace each other at
  every collision back-off (`client.ts:582`) are not claimed to settle.
- `TaskExecution` has one task of one agent and no payment. A status heartbeat is a progress event.
  What the A2A SDK saves by itself is external (`SdkSaves`). The dispatch queue is local to an instance: a
  cancel served by one instance against a dispatch on another is not modelled.
- `ToolApproval` assumes that both ends negotiated the capability, and leaves out the checks of a request's
  size, expiry form and repeated id. Which of token, opt-in, grant and row refuses a decision is not told apart.
- `PaymentGate`: the refusal of version 1 for metered prices is left out; retention is longer than the longest
  execution; the SDK's order of verify, patch and claim is taken from the tests; completed events carry no message.
- `FederatedAccess`: the verifier, DID documents and the clock are external, an instance's copy of the policy may lag,
  listing, pruning and error codes are left out. `SlowExchange` is off in the run.
- `DeviceFlow`: Google, the browser and the clock are external; user codes do not collide; a client is its
  code; there is one agent id.
- `SessionTokens`: signatures and wallets are external; a message is a signer and a nonce; which
  entry a full cache drops is open; the environment's token and the listing are left out. `SlowExchanges` is off in the run.
- `CallerPolicy` has one agent whose home instance is fixed; labels and row-level security are left out.
- `AgentTransfer` has one agent id; rotation and renaming are left out; preview and delete are atomic.
- `TaskStore`: what the SDK writes is external, listing is one query, statements do not fail, the cap is 1.
- `CallerStore` leaves out what a file system reorders: a file operation that returned is on disk.
- `CallerAllocation`: the death of a container between its firewall and the end of the acquisition is
  revived by no late command, and no command is delayed past the next successful acquisition.
- `CallerScopes`, `CallerContexts`: late starts of a container by its id are left out; `stop()` is the abort of each task.
- `ClaudeRun`: frames are a set; errors of stdin and stderr are one flag; a tool call comes before the MCP
  call; a spawn error only before output; usage sums, the model gate, the history cache and the
  trailing close chunk are left out. `ClaudeSessions`: when the CLI writes a session is external.
- `CodexBackend`: the age of a session is abstract, `lastUsedAt`, capabilities, close and stop are left out, a
  killed server is closed at once, tasks with the openai extension always inject their history. `CodexExecution`:
  when a worker's time is over is open.
- `ChatHistory`: content is whether it is there and good, a prompt's length is the number of its entries.
- `OpenclawBackend`: the file tool, the heartbeat, caps of buffers, the capability probe and formatting are
  left out; the gateway is taken to answer. `VicoopCodexBackend`: building messages, the model gate, the
  probe are left out; a stream that ends early without an error is a whole answer.
- `ExecutionBroker`: file delivery, staging limits, Docker's arguments, headers and credential readers are
  left out; a scan with its kills is one step; a lost transport and an expired grant are doubts; `docker stop` answers.
- `DaemonControl`: reading the record and probing its process is one step, and no id is handed out between that and the SIGTERM; zombies, Windows and the
  granularity of start times on macOS are left out; that there is one daemon is claimed for commands one after the other only.
- Whole components: see "components" in `PROJECT.json`.

## 7. Where code and text disagree

The run `accepted_work_invalidated` checks what `gate.test.ts:799` says, "a losing verification cannot
invalidate accepted metered work", and TLC finds it violated: a retry is refused and its FAILED is written,
because the task was not dispatched yet (`executor.ts:478`); the accepted request then reads a terminal task
in its turn and is not dispatched.

The model of `processes` also contradicts `daemon-control.ts:323`, "Never signal a stale/recycled PID": `stopDaemon` judges
the record before its SIGTERM, but its poll and its SIGKILL (`:379`-`:391`) ask only whether the id is alive, so a stranger that got the id while the stop polled is killed
(`DaemonControl.Escalate`; the invariant `\A x \in signalled : x.to = x.meant` fails on it at once). `OneDaemonTold` therefore claims the SIGTERM only, and what a stop may
say whoever was hit.

While the models were written more places came up where the code does other than a comment or document beside it says. The
models follow the code in each; what the text says is then no property of a run. The most consequential ones:

- `server/ws.ts:673`: a displaced socket that still delivers lifts a grace hold; `docs/design.md:84` reserves that to
  the next authenticated connection.
- `server/ws.ts:178`: a slow lookup registers a connection nobody holds and closes its live successor with 4009.
- `x402/pricing-watch.ts:66`, `caller-policy-watch.ts:29`: the answers of two refreshes may be applied in the reverse
  order, and `admin-api.ts:138` may overwrite a newer list, `registry.ts:784` may miss a price.
- `executor.ts:948`: a CANCELED that finds the generator at a yield is dropped with the buffer; `executor.ts:852`: a
  failed save of a progress event ends the generator and leaves the agent working; `executor.ts:905`: a cancel may overwrite a verdict.
- `executor.ts:797`: a cancel at a yield leaves the claim of a paid offering until its retention ends.
- `postgres-task-store.ts:253`: a task inserted after its grant was removed escapes the revocation until the next one; `:620`, `:738`:
  retention may delete a row marked running meanwhile; `:443`: canceled tasks are not trimmed.
- `token-exchange/routes.ts:287`, `siwe-exchange.ts:112`: an assertion or message may serve twice if the call outlasts its validity;
  `device-ui.ts:393`: a callback that answers looks at no status, so two sign-ins of one code, or a sign-in and the poll, may both yield a token, where `:400` has it that the poll finds nothing.
- `admin-api.ts:201`, `:495`: a key may outlive its removal from the list; `:658`: a transfer that overtakes a deletion closes the new owner's daemon.
- `claude.ts:3736`: a cancelled first run leaves its session id to be resumed; `codex.ts:749`: an entry of the lock map is never dropped;
  `codex.ts:1748`: events of other turns are taken before the own turn is known; `openclaw.ts:1763`: an artifact may follow the terminal
  frame; `vicoop-codex.ts:1272`: a server that is still starting outlives the daemon.
- `client.ts:342`: an attempt whose path dies before the open event has no timer over it, and the daemon may stay away for good.
- `daemon-control.ts:284`, `:369`: two starts at once may both come up, a stop in the start window takes the launcher for the daemon; `execution-broker-supervisor.ts:71`: staged prompt files stay behind.

## 8. Plan

1. The usage RPC, the upgrade command, and the listing of tasks over several queries.
