----------------------------- MODULE CodexExecution -----------------------------
(***************************************************************************)
(* The codex backend where every task has a process of its own: the tasks  *)
(* of a context wait for one another's process to close, a cancelled one   *)
(* is answered without waiting, and what the context remembers between     *)
(* them lives in a worker.                                                 *)
(*                                                                         *)
(* Code: createCodexExecutionBackend in                                    *)
(* packages/client/src/backends/codex-execution.ts.                        *)
(***************************************************************************)
EXTENDS Naturals

CONSTANTS
  Tasks, Contexts,
  ctx,          \* the context of each task
  Nothing

ConstantsOK == ctx \in [Tasks -> Contexts] /\ Nothing \notin Tasks

VARIABLES
  state,        \* where handle() is, by task
  signal,       \* cancelled tasks
  stopped,
  worker,       \* workers: named for the task that created it
  uses,         \* the worker a task uses
  tail,         \* worker.tail: the last task to join
  prev,         \* the task a task waits for
  held,         \* barriers not released yet; worker.pending counts them
  proc,         \* the task's process
  buffer,       \* terminal frame held back until the process has closed
  verdict       \* terminal frame sent, or that handle() threw

vars == <<state, signal, stopped, worker, uses, tail, prev, held, proc, buffer, verdict>>

Ends == {"completed", "failed", "canceled", "thrown"}
Pending(c) == {t \in held : ctx[t] = c}

(* A task that is queued or works has its barrier up.                         *)
TypeOK ==
  /\ state \in [Tasks -> {"new", "waiting", "running", "closing", "done"}]
  /\ signal \subseteq Tasks /\ stopped \in BOOLEAN
  /\ worker \in [Contexts -> Tasks \cup {Nothing}]
  /\ uses \in [Tasks -> Tasks \cup {Nothing}]
  /\ tail \in [Contexts -> Tasks \cup {Nothing}]
  /\ prev \in [Tasks -> Tasks \cup {Nothing}]
  /\ held \subseteq Tasks
  /\ \A t \in Tasks : state[t] \in {"waiting", "running", "closing"} => t \in held
  /\ proc \in [Tasks -> {"none", "alive", "killed", "dead"}]
  /\ buffer \in [Tasks -> Ends \cup {Nothing}] /\ verdict \in [Tasks -> Ends \cup {Nothing}]

Init ==
  /\ state = [t \in Tasks |-> "new"] /\ signal = {} /\ stopped = FALSE
  /\ worker = [c \in Contexts |-> Nothing] /\ uses = [t \in Tasks |-> Nothing]
  /\ tail = [c \in Contexts |-> Nothing] /\ prev = [t \in Tasks |-> Nothing]
  /\ held = {} /\ proc = [t \in Tasks |-> "none"]
  /\ buffer = [t \in Tasks |-> Nothing] /\ verdict = [t \in Tasks |-> Nothing]

(* Workers that may be too old: those nobody uses.                            *)
Idle(c) == Pending(c) = {}

(* handle(): the worker of the context, or a new one, and a place in its line.*)
Arrive(t) ==
  /\ state[t] = "new"
  /\ IF stopped
     THEN /\ state' = [state EXCEPT ![t] = "done"] /\ verdict' = [verdict EXCEPT ![t] = "thrown"]
          /\ UNCHANGED <<worker, uses, tail, prev, held>>
     ELSE \E old \in SUBSET {c \in Contexts : worker[c] # Nothing /\ Idle(c)} :
            LET c == ctx[t]
                new == worker[c] = Nothing \/ c \in old
            IN /\ worker' = [d \in Contexts |-> IF d = c THEN IF new THEN t ELSE worker[c]
                                               ELSE IF d \in old THEN Nothing ELSE worker[d]]
               /\ uses' = [uses EXCEPT ![t] = worker'[c]]
               /\ prev' = [prev EXCEPT ![t] = IF new THEN Nothing ELSE tail[c]]
               /\ tail' = [tail EXCEPT ![c] = t]
               /\ held' = held \cup {t}
               /\ state' = [state EXCEPT ![t] = "waiting"]
               /\ UNCHANGED verdict
  /\ UNCHANGED <<signal, stopped, proc, buffer>>

Turn(t) == prev[t] \notin held

(* The predecessor has closed.                                                *)
Proceed(t) ==
  /\ state[t] = "waiting" /\ Turn(t) /\ t \notin signal
  /\ IF stopped
     THEN state' = [state EXCEPT ![t] = "closing"] /\ buffer' = [buffer EXCEPT ![t] = "thrown"]
     ELSE state' = [state EXCEPT ![t] = "running"] /\ UNCHANGED buffer
  /\ UNCHANGED <<signal, stopped, worker, uses, tail, prev, held, proc, verdict>>

(* Cancelled while it waits: answered now; its barrier stays.                 *)
CancelQueued(t) ==
  /\ state[t] = "waiting" /\ t \in signal
  /\ state' = [state EXCEPT ![t] = "done"] /\ verdict' = [verdict EXCEPT ![t] = "canceled"]
  /\ UNCHANGED <<signal, stopped, worker, uses, tail, prev, held, proc, buffer>>

(* The barrier of such a task comes down when its predecessor's does.         *)
Lapse(t) ==
  /\ state[t] = "done" /\ t \in held /\ Turn(t)
  /\ held' = held \ {t}
  /\ UNCHANGED <<state, signal, stopped, worker, uses, tail, prev, proc, buffer, verdict>>

(* The task's app-server is started; a cancelled task starts none.            *)
Spawn(t) ==
  /\ state[t] = "running" /\ proc[t] = "none" /\ t \notin signal
  /\ proc' = [proc EXCEPT ![t] = "alive"]
  /\ UNCHANGED <<state, signal, stopped, worker, uses, tail, prev, held, buffer, verdict>>

Killed(S) == [t \in Tasks |-> IF t \in S /\ proc[t] = "alive" THEN "killed" ELSE proc[t]]

(* A cancelled task's process is stopped.                                     *)
Abort(t) ==
  /\ t \notin signal /\ state[t] \in {"waiting", "running", "closing"}
  /\ signal' = signal \cup {t}
  /\ proc' = IF state[t] = "running" THEN Killed({t}) ELSE proc
  /\ UNCHANGED <<state, stopped, worker, uses, tail, prev, held, buffer, verdict>>

Stop ==
  /\ ~stopped /\ stopped' = TRUE
  /\ proc' = Killed(Tasks)
  /\ UNCHANGED <<state, signal, worker, uses, tail, prev, held, buffer, verdict>>

Dies(t) ==
  /\ proc[t] \in {"alive", "killed"}
  /\ proc' = [proc EXCEPT ![t] = "dead"]
  /\ UNCHANGED <<state, signal, stopped, worker, uses, tail, prev, held, buffer, verdict>>

(* The backend's handle() has returned, with a process or without; its frame  *)
(* is held back and the process closed.                                       *)
Returns(t) ==
  /\ state[t] = "running"
  /\ \E end \in {"completed", "failed", "canceled"} :
       /\ end = "completed" => proc[t] \in {"alive", "killed"}
       /\ end = "canceled" => t \in signal
       /\ buffer' = [buffer EXCEPT ![t] = end]
  /\ state' = [state EXCEPT ![t] = "closing"]
  /\ proc' = Killed({t})
  /\ UNCHANGED <<signal, stopped, worker, uses, tail, prev, held, verdict>>

(* The process is closed: the answer goes out and the next task may start.    *)
Close(t) ==
  /\ state[t] = "closing" /\ proc[t] \in {"none", "dead"}
  /\ state' = [state EXCEPT ![t] = "done"]
  /\ verdict' = [verdict EXCEPT ![t] = IF t \in signal THEN "canceled" ELSE buffer[t]]
  /\ held' = held \ {t}
  /\ UNCHANGED <<signal, stopped, worker, uses, tail, prev, proc, buffer>>

Next == Stop \/ \E t \in Tasks : Arrive(t) \/ Proceed(t) \/ CancelQueued(t) \/ Lapse(t)
                  \/ Spawn(t) \/ Abort(t) \/ Dies(t) \/ Returns(t) \/ Close(t)

Spec == Init /\ [][Next]_vars

(* What the daemon owes, and that a process that was told to end does; a turn *)
(* may last for ever.                                                         *)
Fairness == \A t \in Tasks :
  /\ WF_vars(CancelQueued(t)) /\ WF_vars(Lapse(t)) /\ WF_vars(Close(t)) /\ WF_vars(Proceed(t))
  /\ WF_vars(proc[t] = "killed" /\ Dies(t))
  /\ WF_vars((proc[t] = "dead" \/ t \in signal) /\ Returns(t))

FairSpec == Spec /\ Fairness

---------------------------------------------------------------------------
(* Two tasks of a context never have processes at the same time, and so never *)
(* two app-servers that write one session.                                    *)
OneProcess ==
  \A t, u \in {s \in Tasks : proc[s] \in {"alive", "killed"}} : ctx[t] = ctx[u] => t = u

(* Who is told that a task has ended finds no process of it.                  *)
ClosedBeforeAnswer ==
  \A t \in Tasks : verdict[t] # Nothing => proc[t] \in {"none", "dead"}

(* The tasks in a context's line use one worker, and so know one session.     *)
MemoryIsShared ==
  \A t, u \in held : ctx[t] = ctx[u] => uses[t] = uses[u]

(* A task cancelled before it was answered is answered as cancelled, also     *)
(* when the cancellation comes while its process closes.                      *)
CancelWins == \A t \in signal : state[t] = "done" => verdict[t] = "canceled"
=============================================================================
