------------------------------ MODULE CodexBackend ------------------------------
(***************************************************************************)
(* The codex backend: the tasks of several contexts over one shared        *)
(* app-server.  Each context has a lock, a session that later tasks        *)
(* resume, and a thread on the server on which a task starts one turn.     *)
(* The server tells every task everything; a task picks out its own turn.  *)
(*                                                                         *)
(* Code: createCodexBackend in packages/client/src/backends/codex.ts and   *)
(* AppServerRpcClient in codex-rpc.ts.  The app-server is external.        *)
(***************************************************************************)
EXTENDS Naturals, Sequences, FiniteSets, SequencesExt

CONSTANTS
  Tasks, Contexts, Callers,
  ctx,          \* the context of each task
  caller,       \* and its caller
  Native,       \* tasks with the openai extension
  MaxServers,   \* bound: app-servers started
  Nothing

(* Nothing is no task and no verdict.                                         *)
ConstantsOK ==
  /\ ctx \in [Tasks -> Contexts] /\ caller \in [Tasks -> Callers]
  /\ Native \subseteq Tasks /\ MaxServers \in Nat
  /\ Nothing \notin Tasks \cup {"completed", "failed", "canceled"}

VARIABLES
  pc,           \* where handle() is, by task
  signal,       \* the tasks that were cancelled
  line,         \* the holder of a context's lock and those that wait, in order
  locks,        \* contexts with an entry in contextLocks
  servers,      \* app-servers started so far
  starting,     \* initInFlight
  ready,        \* those that were initialised
  alive,        \* liveClients: those that run
  on,           \* the app-server a task uses
  sessions,     \* sessions: thread and caller of a context's last one
  thread,       \* thread of a task, named for the task that started it
  turn,         \* the task's turn at the server
  active,       \* tasks that know the id of their turn: activeTurnId
  interrupts,   \* turns asked to stop
  text,         \* turns whose text a task has passed on as its own
  calls,        \* capturedToolCalls: the turns they come from
  hold,         \* the deferred interrupt
  approvals,    \* approvalHandlers, by thread
  tools,        \* toolCallHandlers, by thread
  asked,        \* turns that have asked for an approval
  asks,         \* what is before an operator: <<turn, task it is shown for>>
  temp,         \* tasks whose temporary directory exists
  verdict       \* terminal frame of each task

vars == <<pc, signal, line, locks, servers, starting, ready, alive, on, sessions, thread, turn,
          active, interrupts, text, calls, hold, approvals, tools, asked, asks, temp, verdict>>

Sets == <<interrupts, asked>>
Server == <<servers, starting, ready, alive>>
Lock == <<line, locks>>
Stream == <<active, text, calls, hold>>
Handlers == <<approvals, tools, asks>>

InLock == {"mapping", "client", "thread", "inject", "turning", "ending"}
Holds(t) == pc[t] \in InLock

(* The holder of a lock is the first in line.                                 *)
TypeOK ==
  /\ pc \in [Tasks -> {"new", "queued", "done"} \cup InLock]
  /\ signal \subseteq Tasks
  /\ \A c \in Contexts :
       /\ ToSet(line[c]) = {t \in Tasks : ctx[t] = c /\ pc[t] \notin {"new", "done"}}
       /\ \A t \in ToSet(line[c]) : Holds(t) => t = Head(line[c])
  /\ locks \subseteq Contexts
  /\ servers \in 0..MaxServers /\ starting \in BOOLEAN
  /\ ready \subseteq 1..servers /\ alive \subseteq 1..servers
  /\ on \in [Tasks -> 0..servers]
  /\ sessions \in [Contexts -> [thread : Tasks, caller : Callers] \cup {Nothing}]
  /\ thread \in [Tasks -> Tasks \cup {Nothing}]
  /\ turn \in [Tasks -> {"none", "asked", "running", "ended"}]
  /\ active \subseteq Tasks /\ interrupts \subseteq Tasks /\ asked \subseteq Tasks
  /\ text \in [Tasks -> SUBSET Tasks] /\ calls \in [Tasks -> SUBSET Tasks]
  /\ hold \in [Tasks -> {"no", "armed", "sent"}]
  /\ approvals \in [Tasks -> Tasks \cup {Nothing}] /\ tools \in [Tasks -> Tasks \cup {Nothing}]
  /\ asks \subseteq Tasks \X Tasks /\ temp \subseteq Tasks
  /\ verdict \in [Tasks -> {Nothing, "completed", "failed", "canceled"}]

Init ==
  /\ pc = [t \in Tasks |-> "new"] /\ signal = {}
  /\ line = [c \in Contexts |-> <<>>] /\ locks = {}
  /\ servers = 0 /\ starting = FALSE /\ ready = {} /\ alive = {}
  /\ on = [t \in Tasks |-> 0]
  /\ sessions = [c \in Contexts |-> Nothing]
  /\ thread = [t \in Tasks |-> Nothing] /\ turn = [t \in Tasks |-> "none"]
  /\ active = {} /\ interrupts = {} /\ asked = {}
  /\ text = [t \in Tasks |-> {}] /\ calls = [t \in Tasks |-> {}]
  /\ hold = [t \in Tasks |-> "no"]
  /\ approvals = [t \in Tasks |-> Nothing] /\ tools = [t \in Tasks |-> Nothing]
  /\ asks = {} /\ temp = {} /\ verdict = [t \in Tasks |-> Nothing]

---------------------------------------------------------------------------
(* The lock, the input, the server.                                           *)

(* acquireContextLock: a task joins its context's line; one that was          *)
(* cancelled is answered at once.                                             *)
Arrive(t) ==
  /\ pc[t] = "new"
  /\ IF t \in signal
     THEN /\ pc' = [pc EXCEPT ![t] = "done"] /\ verdict' = [verdict EXCEPT ![t] = "canceled"]
          /\ UNCHANGED Lock
     ELSE /\ pc' = [pc EXCEPT ![t] = "queued"] /\ UNCHANGED verdict
          /\ line' = [line EXCEPT ![ctx[t]] = Append(@, t)] /\ locks' = locks \cup {ctx[t]}
  /\ UNCHANGED <<signal, Server, on, sessions, thread, turn, Stream, Handlers, Sets, temp>>

(* release(), by the first in line: the chain moves on and the next may go.   *)
(* The entry of the map is a promise derived from the one it is compared      *)
(* with, so it is never dropped.                                              *)
Release(t) ==
  /\ line' = [line EXCEPT ![ctx[t]] = Tail(@)]
  /\ UNCHANGED locks

(* The lock is the task's; it may have been cancelled meanwhile.              *)
Enter(t) ==
  /\ pc[t] = "queued" /\ Head(line[ctx[t]]) = t
  /\ IF t \in signal
     THEN /\ pc' = [pc EXCEPT ![t] = "done"] /\ verdict' = [verdict EXCEPT ![t] = "canceled"]
          /\ Release(t)
     ELSE pc' = [pc EXCEPT ![t] = "mapping"] /\ UNCHANGED <<verdict, Lock>>
  /\ UNCHANGED <<signal, Server, on, sessions, thread, turn, Stream, Handlers, Sets, temp>>

(* mapPartsToCodexInput fails: a part is no good, or the task was cancelled.  *)
MapFails(t) ==
  /\ pc[t] = "mapping"
  /\ pc' = [pc EXCEPT ![t] = "done"]
  /\ verdict' = [verdict EXCEPT ![t] = IF t \in signal THEN "canceled" ELSE "failed"]
  /\ Release(t)
  /\ UNCHANGED <<signal, Server, on, sessions, thread, turn, Stream, Handlers, Sets, temp>>

(* rpcClient, unless it is closed.                                            *)
Current == IF servers \in ready \cap alive THEN servers ELSE 0

(* ensureClient: the current app-server, or the one being started, or a new   *)
(* one, or none; a task cancelled while its parts were mapped asks for none.  *)
Mapped(t) ==
  /\ pc[t] = "mapping"
  /\ temp' = temp \cup {t}
  /\ \/ /\ t \in signal
        /\ pc' = [pc EXCEPT ![t] = "ending"] /\ verdict' = [verdict EXCEPT ![t] = "canceled"]
        /\ UNCHANGED <<Server, on>>
     \/ /\ t \notin signal /\ (Current # 0 \/ starting)
        /\ pc' = [pc EXCEPT ![t] = "client"] /\ on' = [on EXCEPT ![t] = servers]
        /\ UNCHANGED <<Server, verdict>>
     \/ /\ t \notin signal /\ Current = 0 /\ ~starting /\ servers < MaxServers
        /\ servers' = servers + 1 /\ starting' = TRUE /\ alive' = alive \cup {servers'}
        /\ pc' = [pc EXCEPT ![t] = "client"] /\ on' = [on EXCEPT ![t] = servers']
        /\ UNCHANGED <<ready, verdict>>
     \/ /\ t \notin signal /\ Current = 0 /\ ~starting
        /\ pc' = [pc EXCEPT ![t] = "ending"] /\ verdict' = [verdict EXCEPT ![t] = "failed"]
        /\ UNCHANGED <<Server, on>>
  /\ UNCHANGED <<signal, Lock, sessions, thread, turn, Stream, Handlers, Sets>>

(* initialize and the login are answered; or refused or late, and the server  *)
(* is killed.                                                                 *)
Initialised ==
  /\ starting /\ servers \in alive
  /\ starting' = FALSE /\ ready' = ready \cup {servers}
  /\ UNCHANGED <<pc, signal, Lock, servers, alive, on, sessions, thread, turn, Stream,
                 Handlers, Sets, temp, verdict>>

InitFails ==
  /\ starting
  /\ starting' = FALSE /\ alive' = alive \ {servers}
  /\ UNCHANGED <<pc, signal, Lock, servers, ready, on, sessions, thread, turn, Stream,
                 Handlers, Sets, temp, verdict>>

---------------------------------------------------------------------------
(* The end of a task: its verdict, what it kept of its session, its handlers. *)

Fresh(t) == thread[t] = t

(* rollbackFreshThread.  A resumed session keeps its entry either way.        *)
SessionsAfter(S, v) ==
  [c \in Contexts |->
    IF \E t \in S : /\ ctx[t] = c /\ v[t] # "completed" /\ Fresh(t)
                    /\ sessions[c] # Nothing /\ sessions[c].thread = t
    THEN Nothing ELSE sessions[c]]

(* finish(), the verdict, and the start of handle()'s last block.             *)
Settle(S, v) ==
  /\ pc' = [t \in Tasks |-> IF t \in S THEN "ending" ELSE pc[t]]
  /\ verdict' = [t \in Tasks |-> IF t \in S THEN v[t] ELSE verdict[t]]
  /\ sessions' = SessionsAfter(S, v)
  /\ UNCHANGED <<active, text, calls>>
  /\ hold' = [t \in Tasks |-> IF t \in S /\ hold[t] = "armed" THEN "no" ELSE hold[t]]
  /\ approvals' = [h \in Tasks |-> IF approvals[h] \in S THEN Nothing ELSE approvals[h]]
  /\ tools' = [h \in Tasks |-> IF tools[h] \in S THEN Nothing ELSE tools[h]]
  /\ asks' = {a \in asks : a[2] \notin S}
  /\ UNCHANGED <<signal, Lock, Server, on, thread, temp>>

Fails(t) == Settle({t}, [u \in {t} |-> "failed"])

(* The temporary directory is removed and the lock released.  What the run    *)
(* kept goes with it.                                                         *)
End(t) ==
  /\ pc[t] = "ending"
  /\ pc' = [pc EXCEPT ![t] = "done"] /\ temp' = temp \ {t}
  /\ signal' = signal \ {t} /\ active' = active \ {t} /\ hold' = [hold EXCEPT ![t] = "no"]
  /\ text' = [text EXCEPT ![t] = {}] /\ calls' = [calls EXCEPT ![t] = {}]
  /\ Release(t)
  /\ UNCHANGED <<Server, on, sessions, thread, turn, Handlers, Sets, verdict>>

---------------------------------------------------------------------------
(* The thread and the turn.                                                   *)

(* No app-server: the one it waited for did not start.                        *)
NoServer(t) ==
  /\ pc[t] = "client" /\ on[t] \notin ready /\ ~(starting /\ on[t] = servers)
  /\ Fails(t) /\ UNCHANGED <<turn, Sets>>

(* existing: the session a task resumes.                                      *)
Resumes(t, kept) ==
  t \notin Native /\ kept[ctx[t]] # Nothing /\ kept[ctx[t]].caller = caller[t]

(* The session is looked up, those too old dropped, and the thread asked for. *)
OpenThread(t) ==
  /\ pc[t] = "client" /\ on[t] \in ready
  /\ \E old \in SUBSET {c \in Contexts : sessions[c] # Nothing} :
       /\ t \in Native => old = {}
       /\ sessions' = [c \in Contexts |-> IF c \in old THEN Nothing ELSE sessions[c]]
       /\ thread' = [thread EXCEPT ![t] = IF Resumes(t, sessions')
                                          THEN sessions'[ctx[t]].thread ELSE t]
  /\ pc' = [pc EXCEPT ![t] = "thread"]
  /\ UNCHANGED <<signal, Lock, Server, on, turn, Stream, Handlers, Sets, temp, verdict>>

(* turn/start goes out.                                                       *)
StartTurn(t) ==
  /\ pc' = [pc EXCEPT ![t] = "turning"] /\ turn' = [turn EXCEPT ![t] = "asked"]

(* The thread is there: a new one is the context's session from now on.  The  *)
(* history of an openai task goes in before its turn.                         *)
ThreadReady(t) ==
  /\ pc[t] = "thread" /\ on[t] \in alive
  /\ sessions' = IF Fresh(t) /\ t \notin Native
                 THEN [sessions EXCEPT ![ctx[t]] = [thread |-> t, caller |-> caller[t]]]
                 ELSE sessions
  /\ approvals' = [approvals EXCEPT ![thread[t]] = t]
  /\ IF t \in Native THEN pc' = [pc EXCEPT ![t] = "inject"] /\ UNCHANGED turn
                      ELSE StartTurn(t)
  /\ UNCHANGED <<signal, Lock, Server, on, thread, Stream, tools, asks, Sets, temp, verdict>>

Injected(t) ==
  /\ pc[t] = "inject" /\ on[t] \in alive
  /\ StartTurn(t)
  /\ tools' = [tools EXCEPT ![thread[t]] = t]
  /\ UNCHANGED <<signal, Lock, Server, on, sessions, thread, Stream, approvals, asks, Sets,
                 temp, verdict>>

(* The server refuses the thread or the history.                              *)
ThreadFails(t) ==
  /\ pc[t] \in {"thread", "inject"} /\ on[t] \in alive
  /\ Fails(t) /\ UNCHANGED <<turn, Sets>>

(* The app-server is gone: whatever the task waits for is refused.            *)
Lost(t) ==
  /\ pc[t] \in {"thread", "inject", "turning"} /\ on[t] \notin alive
  /\ Fails(t) /\ UNCHANGED <<turn, Sets>>

(* The response to turn/start: from now on the task knows its turn.           *)
Started(t) ==
  /\ pc[t] = "turning" /\ turn[t] = "running" /\ t \notin active
  /\ active' = active \cup {t}
  /\ UNCHANGED <<pc, signal, Lock, Server, on, sessions, thread, turn, text, calls, hold,
                 Handlers, Sets, temp, verdict>>

---------------------------------------------------------------------------
(* The events of the server.  A task takes every event of its own turn, and   *)
(* as long as it does not know its turn, every other's.                       *)
Listeners(u) ==
  {t \in Tasks : pc[t] = "turning" /\ on[t] = on[u] /\ (t \in active => t = u)}

Busy(h) == \E u \in Tasks : thread[u] = h /\ turn[u] = "running"
Running(u) == turn[u] = "running" /\ on[u] \in alive

TurnBegins(t) ==
  /\ turn[t] = "asked" /\ on[t] \in alive /\ ~Busy(thread[t])
  /\ turn' = [turn EXCEPT ![t] = "running"]
  /\ UNCHANGED <<pc, signal, Lock, Server, on, sessions, thread, Stream, Handlers, Sets,
                 temp, verdict>>

(* The turn is refused, as it is while another runs in the thread.            *)
TurnRefused(t) ==
  /\ turn[t] = "asked" /\ on[t] \in alive
  /\ turn' = [turn EXCEPT ![t] = "ended"]
  /\ IF pc[t] = "turning"
     THEN Fails(t)
     ELSE UNCHANGED <<pc, signal, Lock, Server, on, sessions, thread, Stream, Handlers,
                      temp, verdict>>
  /\ UNCHANGED Sets

(* item/agentMessage/delta and item/completed.                                *)
Speaks(u) ==
  /\ Running(u) /\ \E t \in Listeners(u) : u \notin text[t]
  /\ text' = [t \in Tasks |-> IF t \in Listeners(u) THEN text[t] \cup {u} ELSE text[t]]
  /\ UNCHANGED <<pc, signal, Lock, Server, on, sessions, thread, turn, active, calls, hold,
                 Handlers, Sets, temp, verdict>>

(* sendDeferredInterrupt: once, and only by a task that knows its turn.       *)
Interrupting(S) ==
  /\ hold' = [t \in Tasks |-> IF t \in S THEN "sent" ELSE hold[t]]
  /\ interrupts' = interrupts \cup (S \cap active)

(* thread/tokenUsage/updated: what a captured call held back may stop.        *)
Accounts(u) ==
  /\ Running(u) /\ \E t \in Listeners(u) : hold[t] = "armed"
  /\ Interrupting({t \in Listeners(u) : hold[t] = "armed"})
  /\ UNCHANGED <<pc, signal, Lock, Server, on, sessions, thread, turn, active, text, calls,
                 Handlers, asked, temp, verdict>>

(* toolCallUsageWaitMs have passed without.                                   *)
HoldExpires(t) ==
  /\ hold[t] = "armed"
  /\ Interrupting({t})
  /\ UNCHANGED <<pc, signal, Lock, Server, on, sessions, thread, turn, active, text, calls,
                 Handlers, asked, temp, verdict>>

(* item/tool/call: put down for the task whose handler the thread has.        *)
ToolCall(u) ==
  /\ Running(u) /\ tools[thread[u]] # Nothing
  /\ LET t == tools[thread[u]] IN
       /\ u \notin calls[t]
       /\ calls' = [calls EXCEPT ![t] = @ \cup {u}]
       /\ hold' = [hold EXCEPT ![t] = IF @ = "no" THEN "armed" ELSE @]
  /\ UNCHANGED <<pc, signal, Lock, Server, on, sessions, thread, turn, active, text,
                 Handlers, Sets, temp, verdict>>

(* item/.../requestApproval: shown for the task whose handler the thread has, *)
(* declined when it has none.                                                 *)
AsksApproval(u) ==
  /\ Running(u) /\ u \notin asked
  /\ asked' = asked \cup {u}
  /\ asks' = IF approvals[thread[u]] = Nothing THEN asks
             ELSE asks \cup {<<u, approvals[thread[u]]>>}
  /\ UNCHANGED <<pc, signal, Lock, Server, on, sessions, thread, turn, Stream, approvals,
                 tools, interrupts, temp, verdict>>

Decided(u) ==
  /\ \E t \in Tasks : <<u, t>> \in asks
  /\ asks' = {a \in asks : a[1] # u}
  /\ UNCHANGED <<pc, signal, Lock, Server, on, sessions, thread, turn, Stream, approvals,
                 tools, Sets, temp, verdict>>

(* An interrupted turn completes its task when it was stopped for a captured  *)
(* call and not by the caller.                                                *)
Verdict(t, status) ==
  IF status # "interrupted" THEN status
  ELSE IF calls[t] # {} /\ t \notin signal THEN "completed" ELSE "canceled"

(* turn/completed.                                                            *)
TurnEnds(u) ==
  /\ Running(u)
  /\ \E status \in {"completed", "failed", "interrupted"} :
       /\ status = "interrupted" => u \in interrupts
       /\ Settle(Listeners(u), [t \in Listeners(u) |-> Verdict(t, status)])
  /\ turn' = [turn EXCEPT ![u] = "ended"]
  /\ UNCHANGED Sets

---------------------------------------------------------------------------
(* The caller, the clock, a crash.                                            *)

(* onAbort: the turn is asked to stop if it is known.                         *)
Abort(t) ==
  /\ t \notin signal /\ pc[t] \notin {"ending", "done"}
  /\ signal' = signal \cup {t}
  /\ interrupts' = interrupts \cup ({t} \cap active)
  /\ UNCHANGED <<pc, Lock, Server, on, sessions, thread, turn, Stream, Handlers, asked,
                 temp, verdict>>

(* Two seconds after the abort the task no longer waits for the server.       *)
GraceOver(t) ==
  /\ pc[t] = "turning" /\ t \in signal
  /\ Settle({t}, [u \in {t} |-> "canceled"]) /\ UNCHANGED <<turn, Sets>>

(* turnTimeoutMs, where it is set: the turn is not stopped.                   *)
TurnTimeout(t) ==
  /\ pc[t] = "turning"
  /\ Fails(t) /\ UNCHANGED <<turn, Sets>>

(* The app-server ends and all that ran in it.                                *)
Crash ==
  /\ \E g \in alive \cap ready :
       /\ alive' = alive \ {g}
       /\ turn' = [t \in Tasks |-> IF on[t] = g /\ turn[t] # "none" THEN "ended" ELSE turn[t]]
  /\ UNCHANGED <<pc, signal, Lock, servers, starting, ready, on, sessions, thread, Stream,
                 Handlers, Sets, temp, verdict>>

---------------------------------------------------------------------------
Bridge(t) == Enter(t) \/ MapFails(t) \/ Mapped(t) \/ NoServer(t) \/ OpenThread(t) \/ Lost(t)
             \/ End(t) \/ HoldExpires(t) \/ GraceOver(t)

Reply(t) == ThreadReady(t) \/ Injected(t) \/ ThreadFails(t) \/ TurnBegins(t) \/ TurnRefused(t)
            \/ Started(t) \/ TurnEnds(t)

Next ==
  \/ Initialised \/ InitFails \/ Crash
  \/ \E t \in Tasks :
       \/ Bridge(t) \/ Reply(t)
       \/ Arrive(t) \/ Abort(t) \/ TurnTimeout(t)
       \/ Speaks(t) \/ Accounts(t) \/ ToolCall(t) \/ AsksApproval(t) \/ Decided(t)

Spec == Init /\ [][Next]_vars

(* The daemon's own steps and timers happen, the app-server answers what it   *)
(* is asked and ends its turns, or crashes.                                   *)
Fairness ==
  /\ WF_vars(Initialised \/ InitFails)
  /\ \A t \in Tasks : WF_vars(Bridge(t)) /\ WF_vars(Reply(t))

FairSpec == Spec /\ Fairness

---------------------------------------------------------------------------
(* Of two tasks of a context only one works at a time, and what a thread's    *)
(* turn asks for goes to the task that works on the thread: both handlers of  *)
(* a thread are those of the one task that has it, and gone when it is.       *)
HandlersAreOwn ==
  /\ \A t \in Tasks : pc[t] = "turning" =>
       /\ approvals[thread[t]] = t
       /\ t \in Native => tools[thread[t]] = t
  /\ \A h \in Tasks : /\ approvals[h] # Nothing => pc[approvals[h]] \in {"inject", "turning"}
                      /\ tools[h] # Nothing => pc[tools[h]] = "turning"

(* A tool call a task reports came from its own turn: the leftover turn of a  *)
(* cancelled task of the context has no thread in common with it.             *)
CallsAreOwn == \A t \in Tasks : calls[t] \subseteq {t}

(* An operator is asked on behalf of a task only for turns of its context     *)
(* and caller, and no longer than the task lives; a leftover turn of a        *)
(* resumed thread may be among them.                                          *)
ApprovalsStayWithCaller ==
  \A a \in asks : /\ ctx[a[1]] = ctx[a[2]] /\ caller[a[1]] = caller[a[2]]
                  /\ pc[a[2]] \in {"inject", "turning"}

(* The thread of a task that failed or was cancelled is no context's session  *)
(* if that task started it.                                                   *)
FailedIsForgotten ==
  \A t \in Tasks : verdict[t] \in {"failed", "canceled"} =>
    \A c \in Contexts : sessions[c] # Nothing => sessions[c].thread # t

(* sendDeferredInterrupt never pokes a turn after its task was answered.      *)
NoDeadPoke == [][\A t \in interrupts' \ interrupts : pc[t] = "turning"]_vars

(* A turn stopped for the call it made completes its task, unless the caller  *)
(* cancelled it too.                                                          *)
StoppedByCallCompletes ==
  [][\A t \in Tasks : verdict[t] = Nothing /\ verdict'[t] = "canceled" =>
                        t \in signal \/ calls[t] = {}]_vars

(* A task is answered once and says nothing afterwards.                       *)
AnsweredOnce ==
  [][\A t \in Tasks : verdict[t] # Nothing =>
       verdict'[t] = verdict[t] /\ text'[t] \subseteq text[t] /\ calls'[t] \subseteq calls[t]]_vars
=============================================================================
