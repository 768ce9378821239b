------------------------------ MODULE TaskBindings ------------------------------
(***************************************************************************)
(* The bridge server's binding table: which connection serves an agent,    *)
(* which dispatch (run) owns a task, which owned tasks are under a         *)
(* reconnect grace hold, and how the stream of each run was closed.        *)
(*                                                                         *)
(* Code: packages/server/src/registry.ts (the table), the connection       *)
(* handler of packages/server/src/ws.ts (frames, late authentication,      *)
(* closes) and the part of packages/server/src/executor.ts that binds,     *)
(* cancels, times out and unbinds.  JavaScript runs every handler to       *)
(* completion, so a handler is one step; what the code awaits between two  *)
(* handlers (the token lookup, the dispatch queue, the executor's own      *)
(* persistence) is a separate step that anything may precede.              *)
(***************************************************************************)
EXTENDS Naturals, FiniteSets

CONSTANTS
  Agents,      \* agent ids
  Clients,     \* client rows (one CLIENT_TOKEN each)
  Sockets,     \* WebSocket connections, each used once
  Tasks,       \* A2A task ids
  Runs,        \* dispatches: one TaskBinding object each (executionId when reliable)
  None,        \* undefined
  MaxSeq,      \* bound: highest frame sequence number considered
  GraceOn      \* BRIDGE_DISCONNECT_GRACE_MS > 0

ASSUME ConstantsOK ==
  /\ None \notin Agents \cup Sockets \cup Runs
  /\ MaxSeq \in Nat
  /\ GraceOn \in BOOLEAN

VARIABLES
  agents,        \* Registry.agents: the socket registered for each agent
  conn,          \* the ClientConnection record built for a socket
  ready,         \* the socket's readyState
  ident,         \* handleConnection's agentId
  authed,        \* handleConnection's authed
  graceable,     \* isGraceableCloseCode(observedCloseCode)
  serverClosed,  \* Registry.serverClosed
  bindings,      \* Registry.bindings
  holds,         \* Registry.graceHolds
  receipts,      \* Registry.terminalReceipts (a run's acceptedSeq is nextSeq - 1)
  taskOf, agentOf, reliable,   \* the TaskBinding's identity, fixed when it is built
  nextSeq,       \* TaskBinding.nextClientSeq
  phase,         \* where the run's executeStream generator stands
  outcome        \* how the run's event queue was closed; "open" while it is not

connVars == <<conn, ready, ident, authed, graceable, serverClosed>>
runVars  == <<taskOf, agentOf, reliable>>
vars == <<agents, connVars, bindings, holds, receipts, runVars, nextSeq, phase, outcome>>

Connections == [agent : Agents, client : Clients, replay : BOOLEAN]
Outcomes == {"open", "terminal", "failed", "canceled", "timedout"}
Phases == {"idle", "starting", "running", "unsent", "done"}
Frames == [task : Tasks, exec : Runs \cup {None}, seq : 0..MaxSeq,
           kind : {"output", "terminal", "badApproval"}]

TypeOK ==
  /\ agents \in [Agents -> Sockets \cup {None}]
  /\ conn \in [Sockets -> Connections \cup {None}]
  /\ ready \in [Sockets -> {"idle", "open", "closing", "closed"}]
  /\ ident \in [Sockets -> Agents \cup {None}]
  /\ authed \in [Sockets -> BOOLEAN]
  /\ graceable \in [Sockets -> BOOLEAN]
  /\ serverClosed \subseteq Sockets
  /\ bindings \in [Tasks -> Runs \cup {None}]
  /\ holds \in [Tasks -> Runs \cup {None}]
  /\ receipts \subseteq Runs
  /\ taskOf \in [Runs -> Tasks \cup {None}]
  /\ agentOf \in [Runs -> Agents \cup {None}]
  /\ reliable \in [Runs -> BOOLEAN]
  /\ nextSeq \in [Runs -> 0..(MaxSeq + 1)]
  /\ phase \in [Runs -> Phases]
  /\ outcome \in [Runs -> Outcomes]

Init ==
  /\ agents = [a \in Agents |-> None]
  /\ conn = [s \in Sockets |-> None]
  /\ ready = [s \in Sockets |-> "idle"]
  /\ ident = [s \in Sockets |-> None]
  /\ authed = [s \in Sockets |-> FALSE]
  /\ graceable = [s \in Sockets |-> TRUE]
  /\ serverClosed = {}
  /\ bindings = [t \in Tasks |-> None]
  /\ holds = [t \in Tasks |-> None]
  /\ receipts = {}
  /\ taskOf = [r \in Runs |-> None]
  /\ agentOf = [r \in Runs |-> None]
  /\ reliable = [r \in Runs |-> FALSE]
  /\ nextSeq = [r \in Runs |-> 0]
  /\ phase = [r \in Runs |-> "idle"]
  /\ outcome = [r \in Runs |-> "open"]

-----------------------------------------------------------------------------
(* What a handler does to the table. *)

(* The tasks whose binding belongs to agent a. *)
TasksOf(a) == {t \in Tasks : bindings[t] # None /\ agentOf[bindings[t]] = a}

(* pushStatus(final) then finish(): only a queue still open takes it, for    *)
(* AsyncEventQueue drops everything after end().                             *)
CloseStreams(R, why) ==
  outcome' = [r \in Runs |-> IF r \in R /\ outcome[r] = "open" THEN why ELSE outcome[r]]

(* With a bug: the hold outlives the binding it was about. *)
DropBindingsOnly(T) ==
  /\ bindings' = [t \in Tasks |-> IF t \in T THEN None ELSE bindings[t]]
  /\ UNCHANGED holds

(* Remove the bindings of tasks T and the holds that were about them. *)
DropBindings(T) ==
  /\ bindings' = [t \in Tasks |-> IF t \in T THEN None ELSE bindings[t]]
  /\ holds' = [t \in Tasks |->
                 IF t \in T /\ holds[t] = bindings[t] THEN None ELSE holds[t]]

failBindingsForAgent(a) ==
  /\ CloseStreams({bindings[t] : t \in TasksOf(a)}, "failed")
  /\ DropBindings(TasksOf(a))

(* Hold what is not held yet; a pending hold keeps its deadline. *)
holdBindingsForAgent(a) ==
  /\ holds' = [t \in Tasks |->
                 IF t \in TasksOf(a) /\ holds[t] = None THEN bindings[t] ELSE holds[t]]
  /\ UNCHANGED <<bindings, outcome>>

(* With the grace switched off a hold is an immediate failure. *)
SettleBindings(a, hold) ==
  IF hold /\ GraceOn THEN holdBindingsForAgent(a) ELSE failBindingsForAgent(a)

(* May the tasks of a socket that leaves the table be waited for? *)
MayHold(s) == conn[s].replay /\ s \notin serverClosed

(* With a bug: the close code alone decides, as if it could be trusted. *)
unregisterAgentByCode(a, s, code) ==
  IF agents[a] = s
  THEN /\ agents' = [agents EXCEPT ![a] = None]
       /\ SettleBindings(a, conn[s].replay /\ code)
  ELSE UNCHANGED <<agents, bindings, holds, outcome>>

unregisterAgent(a, s, code) ==
  IF agents[a] = s
  THEN /\ agents' = [agents EXCEPT ![a] = None]
       /\ SettleBindings(a, MayHold(s) /\ code)
  ELSE UNCHANGED <<agents, bindings, holds, outcome>>

(* Drop a hold because the client proved alive. *)
Resume(t, a) ==
  holds' = IF holds[t] # None /\ agentOf[holds[t]] = a /\ bindings[t] = holds[t]
           THEN [holds EXCEPT ![t] = None] ELSE holds

(* With a bug: the binding goes, the stream stays open. *)
failTaskBindingQuietly(r) ==
  DropBindings({t \in Tasks : bindings[t] = r}) /\ UNCHANGED outcome

failTaskBinding(r) ==
  /\ CloseStreams({r}, "failed")
  /\ DropBindings({t \in Tasks : bindings[t] = r})

-----------------------------------------------------------------------------
(* Connections. *)

Accept(s) ==
  /\ ready[s] = "idle"
  /\ ready' = [ready EXCEPT ![s] = "open"]
  /\ UNCHANGED <<agents, conn, ident, authed, graceable, serverClosed, bindings, holds,
                 receipts, runVars, nextSeq, phase, outcome>>

(* The token lookup of s's hello has finished: registerAgent, then the        *)
(* reconciliation with a socket that went away meanwhile.                     *)
Authenticated(s, c) ==
  /\ ready[s] # "idle" /\ conn[s] = None
  /\ conn' = [conn EXCEPT ![s] = c]
  /\ LET a == c.agent
         old == agents[a]
         late == ready[s] = "closed"
         stays == c.replay /\ s \notin serverClosed /\ graceable[s]
     IN IF old # None /\ conn[old].client # c.client
        THEN \* refused with 4006
             /\ ready' = [ready EXCEPT ![s] = IF @ = "open" THEN "closing" ELSE @]
             /\ UNCHANGED <<agents, ident, authed, bindings, holds, outcome>>
        ELSE /\ agents' = [agents EXCEPT ![a] = IF late THEN None ELSE s]
             /\ ready' = [x \in Sockets |->
                            IF x = old /\ ready[x] = "open" THEN "closing" ELSE ready[x]]
             /\ ident' = [ident EXCEPT ![s] = IF late THEN None ELSE a]
             /\ authed' = [authed EXCEPT ![s] = ready[s] = "open"]
             /\ IF old # None
                THEN SettleBindings(a, MayHold(old) /\ (late => stays))
                ELSE IF late THEN SettleBindings(a, stays)
                ELSE UNCHANGED <<bindings, holds, outcome>>
  /\ UNCHANGED <<graceable, serverClosed, receipts, runVars, nextSeq, phase>>

(* The socket's close event, with a code that can or cannot be waited out. *)
CloseEvent(s, code) ==
  /\ ready[s] \in {"open", "closing"}
  /\ ready' = [ready EXCEPT ![s] = "closed"]
  /\ graceable' = [graceable EXCEPT ![s] = code]
  /\ IF ident[s] # None THEN unregisterAgent(ident[s], s, code)
     ELSE UNCHANGED <<agents, bindings, holds, outcome>>
  /\ UNCHANGED <<conn, ident, authed, serverClosed, receipts, runVars, nextSeq, phase>>

(* A verdict of this server on the connection (invalid frame, frame before    *)
(* hello, hello timeout, duplicate hello, oversized message): noted before    *)
(* the close is sent, because the code observed later cannot be trusted.      *)
ServerVerdict(s) ==
  /\ ready[s] \in {"open", "closing"}
  /\ serverClosed' = serverClosed \cup {s}
  /\ ready' = [ready EXCEPT ![s] = "closing"]
  /\ UNCHANGED <<agents, conn, ident, authed, graceable, bindings, holds, receipts,
                 runVars, nextSeq, phase, outcome>>

(* The owner deleted the client: every registered socket of it is condemned. *)
disconnectClient(c) ==
  LET S == {s \in Sockets : \E a \in Agents : agents[a] = s /\ conn[s].client = c}
  IN /\ S # {}
     /\ serverClosed' = serverClosed \cup S
     /\ ready' = [s \in Sockets |->
                    IF s \in S /\ ready[s] = "open" THEN "closing" ELSE ready[s]]
     /\ UNCHANGED <<agents, conn, ident, authed, graceable, bindings, holds, receipts,
                    runVars, nextSeq, phase, outcome>>

-----------------------------------------------------------------------------
(* Task frames of an authenticated connection.  ws delivers messages while    *)
(* the socket is OPEN or CLOSING, and ownership is checked by agent.          *)

CanReceive(s) == authed[s] /\ ready[s] \in {"open", "closing"}

Owned(s, t) == bindings[t] # None /\ agentOf[bindings[t]] = ident[s]

(* With a bug: the last frame is taken again when it is replayed. *)
AcceptedAgain(s, f) ==
  LET r == bindings[f.task]
  IN /\ Owned(s, f.task)
     /\ IF reliable[r] THEN f.exec = r /\ f.seq <= nextSeq[r] ELSE f.exec = None

(* acceptTaskFrame lets the frame through to its handler. *)
Accepted(s, f) ==
  LET r == bindings[f.task]
  IN /\ Owned(s, f.task)
     /\ IF reliable[r] THEN f.exec = r /\ f.seq = nextSeq[r] ELSE f.exec = None

(* A repeat of what was accepted already: acknowledged, and proof of life. *)
Repeated(s, f) ==
  LET r == bindings[f.task]
  IN Owned(s, f.task) /\ reliable[r] /\ f.exec = r /\ f.seq < nextSeq[r]

(* Anonymous frame for a reliable run, or a hole in its sequence. *)
Broken(s, f) ==
  LET r == bindings[f.task]
  IN /\ Owned(s, f.task) /\ reliable[r]
     /\ f.exec = None \/ (f.exec = r /\ f.seq > nextSeq[r])

FrameRepeated(s, f) ==
  /\ CanReceive(s) /\ Repeated(s, f)
  /\ Resume(f.task, ident[s])
  /\ UNCHANGED <<agents, connVars, bindings, receipts, runVars, nextSeq, phase, outcome>>

FrameBroken(s, f) ==
  /\ CanReceive(s) /\ Broken(s, f)
  /\ failTaskBinding(bindings[f.task])
  /\ UNCHANGED <<agents, connVars, receipts, runVars, nextSeq, phase>>

CountFrame(r) ==
  nextSeq' = IF reliable[r] THEN [nextSeq EXCEPT ![r] = @ + 1] ELSE nextSeq

(* task.status, task.artifact, approval.request, approval.received *)
FrameOutput(s, f) ==
  /\ CanReceive(s) /\ Accepted(s, f) /\ f.kind = "output"
  /\ CountFrame(bindings[f.task])
  /\ Resume(f.task, ident[s])
  /\ UNCHANGED <<agents, connVars, bindings, receipts, runVars, phase, outcome>>

(* With a bug: the terminal frame is taken, but not counted as accepted. *)
FrameTerminalUncounted(s, f) ==
  /\ CanReceive(s) /\ Accepted(s, f) /\ f.kind = "terminal"
  /\ LET r == bindings[f.task]
     IN /\ CloseStreams({r}, "terminal")
        /\ receipts' = IF reliable[r] THEN receipts \cup {r} ELSE receipts
        /\ DropBindings({f.task})
  /\ UNCHANGED <<agents, connVars, runVars, phase, nextSeq>>

(* task.complete, task.fail: close the stream, keep a receipt, unbind. *)
FrameTerminal(s, f) ==
  /\ CanReceive(s) /\ Accepted(s, f) /\ f.kind = "terminal"
  /\ LET r == bindings[f.task]
     IN /\ CountFrame(r)
        /\ CloseStreams({r}, "terminal")
        /\ receipts' = IF reliable[r] THEN receipts \cup {r} ELSE receipts
        /\ DropBindings({f.task})
  /\ UNCHANGED <<agents, connVars, runVars, phase>>

(* approval.request the server cannot take: the run is cancelled and failed. *)
FrameBadApproval(s, f) ==
  /\ CanReceive(s) /\ Accepted(s, f) /\ f.kind = "badApproval"
  /\ CountFrame(bindings[f.task])
  /\ failTaskBinding(bindings[f.task])
  /\ UNCHANGED <<agents, connVars, receipts, runVars, phase>>

(* No binding, another agent's, another generation's, or a reliable frame for *)
(* a legacy binding: at most acknowledged from a receipt.                     *)
FrameIgnored(s, f) ==
  /\ CanReceive(s) /\ ~Accepted(s, f) /\ ~Repeated(s, f) /\ ~Broken(s, f)
  /\ UNCHANGED vars

HandleFrame(s, f) ==
  \/ FrameRepeated(s, f)
  \/ FrameBroken(s, f)
  \/ FrameOutput(s, f)
  \/ FrameTerminal(s, f)
  \/ FrameBadApproval(s, f)
  \/ FrameIgnored(s, f)

-----------------------------------------------------------------------------
(* The executor, one run per dispatch. *)

(* executeStream builds the binding; the replay capability is read off the    *)
(* connection registered now, before the dispatch waits for its turn.         *)
Begin(r, t, a) ==
  /\ phase[r] = "idle"
  /\ phase' = [phase EXCEPT ![r] = "starting"]
  /\ taskOf' = [taskOf EXCEPT ![r] = t]
  /\ agentOf' = [agentOf EXCEPT ![r] = a]
  /\ reliable' = [reliable EXCEPT ![r] = agents[a] # None /\ conn[agents[a]].replay]
  /\ UNCHANGED <<agents, connVars, bindings, holds, receipts, nextSeq, outcome>>

(* A live binding of the same agent is failed first; another agent's refuses. *)
Supersede(t, r) ==
  LET old == bindings[t]
  IN /\ bindings' = [bindings EXCEPT ![t] = r]
     /\ IF old = None THEN UNCHANGED <<holds, outcome>>
        ELSE /\ holds' = IF holds[t] = old THEN [holds EXCEPT ![t] = None] ELSE holds
             /\ CloseStreams({old}, "failed")

(* With a bug: whoever owns the task is replaced. *)
bindTaskOfAnyAgent(t, r) == Supersede(t, r)

bindTask(t, r) ==
  /\ bindings[t] # None => agentOf[bindings[t]] = agentOf[r]
  /\ Supersede(t, r)

(* bindTask and sendToAgent; the assignment is lost with no error if the       *)
(* socket is registered but no longer OPEN.                                   *)
Dispatch(r) ==
  /\ phase[r] = "starting"
  /\ bindTask(taskOf[r], r)
  /\ phase' = [phase EXCEPT ![r] = IF agents[agentOf[r]] = None THEN "unsent" ELSE "running"]
  /\ UNCHANGED <<agents, connVars, receipts, runVars, nextSeq>>

(* The task is terminal in the store, owned by another agent, or its marker   *)
(* could not be written: the run reports that itself and never binds.         *)
Refuse(r) ==
  /\ phase[r] = "starting"
  /\ phase' = [phase EXCEPT ![r] = "done"]
  /\ CloseStreams({r}, "failed")
  /\ UNCHANGED <<agents, connVars, bindings, holds, receipts, runVars, nextSeq>>

(* tasks/cancel by the agent that owns the binding. *)
Cancel(t) ==
  /\ bindings[t] # None
  /\ CloseStreams({bindings[t]}, "canceled")
  /\ UNCHANGED <<agents, connVars, bindings, holds, receipts, runVars, nextSeq, phase>>

(* The inactivity backstop. *)
Watchdog(r) ==
  /\ phase[r] = "running" /\ outcome[r] = "open"
  /\ CloseStreams({r}, "timedout")
  /\ UNCHANGED <<agents, connVars, bindings, holds, receipts, runVars, nextSeq, phase>>

unbindTask(r) == DropBindings({t \in Tasks : bindings[t] = r})

(* The generator finishes: the stream closed, a terminal status, a payment     *)
(* refusal, an abort or an error ended the loop; then unbindTask.              *)
Exit(r) ==
  /\ phase[r] \in {"running", "unsent"}
  /\ phase' = [phase EXCEPT ![r] = "done"]
  /\ unbindTask(r)
  /\ UNCHANGED <<agents, connVars, receipts, runVars, nextSeq, outcome>>

-----------------------------------------------------------------------------
(* Timers. *)

HoldExpires(t) ==
  /\ holds[t] # None
  /\ IF bindings[t] = holds[t]
     THEN failTaskBinding(holds[t])
     ELSE /\ holds' = [holds EXCEPT ![t] = None]
          /\ UNCHANGED <<bindings, outcome>>
  /\ UNCHANGED <<agents, connVars, receipts, runVars, nextSeq, phase>>

ReceiptExpires(r) ==
  /\ r \in receipts
  /\ receipts' = receipts \ {r}
  /\ UNCHANGED <<agents, connVars, bindings, holds, runVars, nextSeq, phase, outcome>>

-----------------------------------------------------------------------------
ConnectionStep ==
  \E s \in Sockets :
    \/ Accept(s)
    \/ \E c \in Connections : Authenticated(s, c)
    \/ \E code \in BOOLEAN : CloseEvent(s, code)
    \/ ServerVerdict(s)

RunStep ==
  \E r \in Runs :
    \/ \E t \in Tasks, a \in Agents : Begin(r, t, a)
    \/ Dispatch(r)
    \/ Refuse(r)
    \/ Watchdog(r)
    \/ Exit(r)
    \/ ReceiptExpires(r)

Next ==
  \/ ConnectionStep
  \/ RunStep
  \/ \E s \in Sockets, f \in Frames : HandleFrame(s, f)
  \/ \E c \in Clients : disconnectClient(c)
  \/ \E t \in Tasks : Cancel(t) \/ HoldExpires(t)

Spec == Init /\ [][Next]_vars

-----------------------------------------------------------------------------
(* Properties *)

(* A hold always belongs to the binding that owns the task now                *)
(* (registry.ts: the identity guards of clearGraceHold and the hold's timer): *)
(* no stale timer can exist for a task another run has taken over.            *)
HoldIsCurrent == \A t \in Tasks : holds[t] # None => holds[t] = bindings[t]

(* A bound run has an executor still consuming it, and is bound under its own *)
(* task id: no path leaves a binding behind its executor.                     *)
BoundIsLive ==
  \A t \in Tasks : bindings[t] # None =>
    taskOf[bindings[t]] = t /\ phase[bindings[t]] \in {"running", "unsent"}

(* A run that lost its binding has had its stream closed (issue #365): the     *)
(* executor is never left parked on a queue nobody can write to.              *)
NoOrphanStream ==
  \A r \in Runs :
    phase[r] \in {"running", "unsent"} /\ bindings[taskOf[r]] # r => outcome[r] # "open"

(* A receipt stands for a run whose terminal was taken: acknowledging a replay *)
(* from it never discards output of a run still in progress.                   *)
ReceiptsAreFinal ==
  \A r \in receipts : /\ reliable[r]
                      /\ outcome[r] # "open"
                      /\ \A t \in Tasks : bindings[t] # r

(* What the inductive argument needs besides: a run that has begun knows its    *)
(* task and agent, and a receipt is only kept for a run that was bound.        *)
RunsKnowTheirTask ==
  /\ \A r \in Runs : phase[r] # "idle" => taskOf[r] \in Tasks /\ agentOf[r] \in Agents
  /\ \A r \in receipts : phase[r] \notin {"idle", "starting"}

IInv == TypeOK /\ RunsKnowTheirTask /\ HoldIsCurrent /\ BoundIsLive /\ NoOrphanStream
          /\ ReceiptsAreFinal

(* Issue #476: a task in flight never passes to another agent. *)
TaskKeepsAgent ==
  [][\A t \in Tasks : bindings[t] # None /\ bindings'[t] # None
        => agentOf'[bindings'[t]] = agentOf[bindings[t]]]_vars

(* When a connection this server condemned, or one that cannot replay, leaves  *)
(* the table, none of its agent's bindings survives, whatever close code the   *)
(* peer echoes and whether the close or the next hello is seen first.          *)
CondemnedIsNotRescued ==
  [][\A a \in Agents : agents[a] # None /\ agents'[a] # agents[a]
            /\ ~(conn[agents[a]].replay /\ agents[a] \notin serverClosed)
        => \A t \in TasksOf(a) : bindings'[t] # bindings[t]]_vars

=============================================================================
