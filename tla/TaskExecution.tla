------------------------------ MODULE TaskExecution ------------------------------
(***************************************************************************)
(* The executor's side of one task: message requests (runs) that dispatch  *)
(* to the agent, the event queue and generator that carry each run's       *)
(* output to its caller, cancellation, and the task's row.                 *)
(*                                                                         *)
(* Code: packages/server/src/executor.ts, event-queue.ts,                  *)
(* detachable-stream.ts and the write rules of postgres-task-store.ts and  *)
(* execution-marker.ts.  A generator runs from one await or yield to the   *)
(* next in one step; what it awaits there (its turn, the database, the     *)
(* caller's next read) lets every other actor in.  Payment is left out.    *)
(***************************************************************************)
EXTENDS Naturals, Sequences

CONSTANTS
  Runs,       \* message requests for the task
  None,       \* undefined
  MaxOutput,  \* bound: progress events and approval requests of one run
  MaxFaults   \* bound: failed writes of the task store

VARIABLES
  row,         \* the stored task: [dispatch, status]
  turn,        \* Registry.dispatchLocks: who is inside serializeDispatch
  reading,     \* the stored status the holder of the turn has read
  binding,     \* Registry.bindings for this task
  controller,  \* ClientForwardingExecutor.abortControllers for this task
  exec,        \* one record per run
  faults

vars == <<row, turn, reading, binding, controller, exec, faults>>

Terminal == {"completed", "failed", "canceled"}
Statuses == {"working", "auth-required"} \cup Terminal
Events == {"progress"} \cup Statuses

ASSUME ConstantsOK ==
  /\ None \notin Runs \cup Statuses \cup {"cancel"} /\ "cancel" \notin Runs
  /\ MaxOutput \in Nat /\ MaxFaults \in Nat

Executions == [
  stage : {"idle", "waiting", "dispatching", "marked",  \* before the binding
           "parked",    \* iterate() waits for an event
           "saving",    \* awaits updateTask between an event and its yield
           "paused",    \* at a yield, until the caller asks for more
           "closing",   \* past the loop, awaits the final updateTask
           "done"},
  queue : Seq(Events), closed : BOOLEAN,       \* AsyncEventQueue
  aborted : BOOLEAN,                           \* the run's AbortController
  status : Statuses,                           \* this request's task.status
  told : Terminal \cup {None},                 \* the terminal event yielded
  pushed : Nat,                                \* progress and approval requests
  asking : BOOLEAN,                            \* approvals.waiting(binding)
  attached : BOOLEAN,                          \* the caller reads the stream itself
  marked : BOOLEAN]                            \* ExecutionWriter.marked

NewExecution == [stage |-> "idle", queue |-> <<>>, closed |-> FALSE, aborted |-> FALSE,
                 status |-> "working", told |-> None, pushed |-> 0,
                 asking |-> FALSE, attached |-> TRUE, marked |-> FALSE]

TypeOK ==
  /\ row \in [dispatch : Runs \cup {None}, status : Statuses]
  /\ turn \in Runs \cup {None, "cancel"}
  /\ reading \in Statuses \cup {None}
  /\ binding \in Runs \cup {None} /\ controller \in Runs \cup {None}
  /\ exec \in [Runs -> Executions]
  /\ \A r \in Runs : exec[r].pushed <= MaxOutput /\ Len(exec[r].queue) <= 2 * MaxOutput
  /\ faults \in 0..MaxFaults

Init ==
  /\ row = [dispatch |-> None, status |-> "working"]
  /\ turn = None /\ reading = None /\ binding = None /\ controller = None
  /\ exec = [r \in Runs |-> NewExecution]
  /\ faults = 0

-----------------------------------------------------------------------------
(* The event queue and the loop that consumes it.                             *)

(* The loop ends: closed or aborted, or broken out of after a terminal. *)
Leave(x) ==
  [x EXCEPT !.stage = "closing",
            !.status = IF x.aborted /\ @ \notin Terminal THEN "canceled" ELSE @]

(* The body of the loop for event e, up to its yield or its await. *)
Consume(x, e) ==
  IF e \in Terminal THEN [x EXCEPT !.stage = "paused", !.status = e, !.told = e]
  ELSE [x EXCEPT
         !.status = IF e = "progress" THEN @ ELSE e,
         !.stage = IF e # "progress" /\ (e = "auth-required") # (x.status = "auth-required")
                   THEN "saving" ELSE "paused"]

(* With a bug: the buffer is popped from its end. *)
TakeLast(x) ==
  IF x.aborted THEN Leave(x)
  ELSE IF x.queue # <<>>
  THEN Consume([x EXCEPT !.queue = SubSeq(@, 1, Len(@) - 1)], x.queue[Len(x.queue)])
  ELSE IF x.closed THEN Leave(x)
  ELSE [x EXCEPT !.stage = "parked"]

(* AsyncEventQueue.iterate, from one yield to the next: an abort is seen first. *)
Take(x) ==
  IF x.aborted THEN Leave(x)
  ELSE IF x.queue # <<>> THEN Consume([x EXCEPT !.queue = Tail(@)], Head(x.queue))
  ELSE IF x.closed THEN Leave(x)
  ELSE [x EXCEPT !.stage = "parked"]

Push(x, e) ==
  IF x.closed THEN x
  ELSE IF x.stage = "parked" THEN Consume(x, e)
  ELSE [x EXCEPT !.queue = Append(@, e)]

End(x) ==
  IF x.closed THEN x
  ELSE IF x.stage = "parked" THEN Leave([x EXCEPT !.closed = TRUE])
  ELSE [x EXCEPT !.closed = TRUE]

(* pushStatus(final), finish(); the binding's approvals go with it. *)
FinishWith(x, verdict) == End(Push([x EXCEPT !.asking = FALSE], verdict))

Abort(x) ==
  IF x.aborted THEN x
  ELSE IF x.stage = "parked" THEN Leave([x EXCEPT !.aborted = TRUE])
  ELSE [x EXCEPT !.aborted = TRUE]

-----------------------------------------------------------------------------
(* The row.                                                                   *)

(* With a bug: a superseded run still writes. *)
updateTaskUnguarded(r, status) ==
  row' = IF row.status = "canceled" /\ (exec[r].marked => row.dispatch = r)
         THEN row ELSE [row EXCEPT !.status = status]

(* updateTask in the context of run r, with the rules of ExecutionWriter. *)
updateTask(r, status) ==
  LET skipped == \/ row.status = "canceled" /\ (exec[r].marked => row.dispatch = r)
                 \/ IF exec[r].marked THEN row.dispatch # r ELSE row.dispatch # None
  IN row' = IF skipped THEN row ELSE [row EXCEPT !.status = status]

StoreFails == faults < MaxFaults /\ faults' = faults + 1 /\ UNCHANGED row

-----------------------------------------------------------------------------
(* Dispatch.                                                                  *)

Become(r, x) == exec' = [exec EXCEPT ![r] = x]

(* The request reaches its dispatch. *)
Begin(r) ==
  /\ exec[r].stage = "idle"
  /\ Become(r, [exec[r] EXCEPT !.stage = "waiting"])
  /\ UNCHANGED <<row, turn, reading, binding, controller, faults>>

(* serializeDispatch lets r in, and getTask answers. *)
DispatchReads(r) ==
  /\ exec[r].stage = "waiting" /\ turn = None
  /\ turn' = r /\ reading' = row.status
  /\ Become(r, [exec[r] EXCEPT !.stage = "dispatching"])
  /\ UNCHANGED <<row, binding, controller, faults>>

Leaves == turn' = None /\ reading' = None

(* Interrupted: the task was terminal when r got its turn. *)
DispatchInterrupted(r) ==
  /\ exec[r].stage = "dispatching" /\ reading \in Terminal
  /\ Leaves
  /\ Become(r, [exec[r] EXCEPT !.stage = "done", !.closed = TRUE,
                               !.status = reading, !.told = reading])
  /\ UNCHANGED <<row, binding, controller, faults>>

(* markExecution commits. *)
DispatchMarks(r) ==
  /\ exec[r].stage = "dispatching" /\ reading \notin Terminal
  /\ row' = [dispatch |-> r, status |-> "working"]
  /\ Become(r, [exec[r] EXCEPT !.stage = "marked", !.marked = TRUE])
  /\ UNCHANGED <<turn, reading, binding, controller, faults>>

(* markExecution throws: rejected, unbound. *)
DispatchFails(r) ==
  /\ exec[r].stage = "dispatching" /\ reading \notin Terminal
  /\ StoreFails
  /\ Leaves
  /\ Become(r, [exec[r] EXCEPT !.stage = "paused", !.closed = TRUE,
                               !.status = "failed", !.told = "failed"])
  /\ UNCHANGED <<binding, controller>>

(* dispatch(): bindTask fails the run it supersedes, and the assignment is      *)
(* sent, or the agent is gone.                                                *)
DispatchBinds(r, sent) ==
  /\ exec[r].stage = "marked"
  /\ Leaves
  /\ exec' = [q \in Runs |->
                IF q = r THEN IF sent THEN [exec[r] EXCEPT !.stage = "parked"]
                              ELSE [exec[r] EXCEPT !.stage = "paused", !.status = "failed",
                                                   !.told = "failed"]
                ELSE IF q = binding THEN FinishWith(exec[q], "failed")
                ELSE exec[q]]
  /\ binding' = IF sent THEN r ELSE None
  /\ controller' = IF sent THEN r ELSE None
  /\ UNCHANGED <<row, faults>>

-----------------------------------------------------------------------------
(* What the connection handler and the timers do to a bound run.               *)

Bound(r) == binding = r

Progress(x, e) == Push([x EXCEPT !.pushed = @ + 1], e)

(* task.artifact, and task.status, which keeps showing auth-required while an    *)
(* approval is waited for: neither changes the state the loop compares.        *)
Output(r) ==
  /\ Bound(r) /\ exec[r].pushed < MaxOutput
  /\ Become(r, Progress(exec[r], "progress"))
  /\ UNCHANGED <<row, turn, reading, binding, controller, faults>>

ApprovalRequested(r) ==
  /\ Bound(r) /\ exec[r].pushed < MaxOutput /\ ~exec[r].asking
  /\ Become(r, Progress([exec[r] EXCEPT !.asking = TRUE], "auth-required"))
  /\ UNCHANGED <<row, turn, reading, binding, controller, faults>>

ApprovalReceived(r) ==
  /\ Bound(r) /\ exec[r].asking
  /\ Become(r, Push([exec[r] EXCEPT !.asking = FALSE], "working"))
  /\ UNCHANGED <<row, turn, reading, binding, controller, faults>>

(* task.complete or task.fail; and disconnection, a broken sequence or an       *)
(* expired approval, which fail the binding.                                  *)
Unbinds(r, verdict) ==
  /\ Bound(r)
  /\ Become(r, FinishWith(exec[r], verdict))
  /\ binding' = None
  /\ UNCHANGED <<row, turn, reading, controller, faults>>

(* With a bug: an expiry is recorded, and the binding is not failed. *)
ApprovalExpiresQuietly(r) == exec[r].asking /\ UNCHANGED vars

ApprovalExpires(r) == exec[r].asking /\ Unbinds(r, "failed")

InLoop(r) ==
  exec[r].stage \in {"parked", "saving", "paused"} /\ exec[r].marked /\ exec[r].told = None

(* The inactivity backstop, which waits for approvals. *)
Watchdog(r) ==
  /\ InLoop(r) /\ ~exec[r].closed /\ ~exec[r].asking
  /\ Become(r, End(Push(exec[r], "failed")))
  /\ UNCHANGED <<row, turn, reading, binding, controller, faults>>

-----------------------------------------------------------------------------
(* The generator and its caller.                                              *)

(* The caller goes away, or its request was unary: the stream is drained. *)
Detach(r) ==
  /\ exec[r].attached /\ exec[r].stage \notin {"idle", "done"}
  /\ Become(r, [exec[r] EXCEPT !.attached = FALSE])
  /\ UNCHANGED <<row, turn, reading, binding, controller, faults>>

(* The caller, or the drain, asks for the next event. *)
Resume(r) ==
  /\ exec[r].stage = "paused"
  /\ Become(r, IF exec[r].told # None THEN Leave(exec[r]) ELSE Take(exec[r]))
  /\ UNCHANGED <<row, turn, reading, binding, controller, faults>>

(* The save around an approval, which the yield of its event waits for. *)
Saved(r) ==
  /\ exec[r].stage = "saving"
  /\ updateTask(r, exec[r].status)
  /\ Become(r, [exec[r] EXCEPT !.stage = "paused"])
  /\ UNCHANGED <<turn, reading, binding, controller, faults>>

(* With a bug: whatever controller the task has is deleted. *)
ReleaseAny(r) ==
  /\ binding' = IF binding = r THEN None ELSE binding
  /\ controller' = None

(* The finally block of executeStream. *)
Release(r) ==
  /\ binding' = IF binding = r THEN None ELSE binding
  /\ controller' = IF controller = r THEN None ELSE controller

(* A progress save throws, in the generator or in the SDK's loop around it: the *)
(* generator is closed where it stands.                                       *)
Breaks(r) ==
  /\ exec[r].stage = "saving" \/ (exec[r].stage = "paused" /\ exec[r].told = None)
  /\ StoreFails
  /\ Become(r, [exec[r] EXCEPT !.stage = "done", !.asking = FALSE])
  /\ Release(r)
  /\ UNCHANGED <<turn, reading>>

(* The final updateTask, whose failure is only logged, then finally. *)
Finish(r) ==
  /\ exec[r].stage = "closing"
  /\ \/ updateTask(r, exec[r].status) /\ UNCHANGED faults
     \/ StoreFails
  /\ Become(r, [exec[r] EXCEPT !.stage = "done", !.asking = FALSE])
  /\ Release(r)
  /\ UNCHANGED <<turn, reading>>

(* External: the SDK saves what it has seen of the stream, as it goes and when  *)
(* the stream is over.                                                        *)
SdkSaves(r) ==
  /\ exec[r].stage = "done" \/ (exec[r].stage = "paused" /\ exec[r].told = None)
  /\ updateTask(r, exec[r].status)
  /\ UNCHANGED <<turn, reading, binding, controller, exec, faults>>

-----------------------------------------------------------------------------
(* tasks/cancel, inside serializeDispatch.                                     *)

CancelReads ==
  /\ turn = None /\ \E r \in Runs : exec[r].stage # "idle"
  /\ turn' = "cancel" /\ reading' = row.status
  /\ UNCHANGED <<row, binding, controller, exec, faults>>

CancelRefused ==
  /\ turn = "cancel" /\ reading \in Terminal
  /\ Leaves
  /\ UNCHANGED <<row, binding, controller, exec, faults>>

(* With a bug: the abort comes first, the sink after it. *)
CancelActsAbortFirst ==
  /\ turn = "cancel" /\ reading \notin Terminal \cup {None}
  /\ reading' = None
  /\ exec' = [r \in Runs |->
                LET x == IF r = controller THEN Abort(exec[r]) ELSE exec[r]
                IN IF r = binding THEN End(Push(x, "canceled")) ELSE x]
  /\ UNCHANGED <<row, turn, binding, controller, faults>>

(* CANCELED goes through the sink, then the controller is aborted. *)
CancelActs ==
  /\ turn = "cancel" /\ reading \notin Terminal \cup {None}
  /\ reading' = None
  /\ exec' = [r \in Runs |->
                LET x == IF r = binding THEN End(Push(exec[r], "canceled")) ELSE exec[r]
                IN IF r = controller THEN Abort(x) ELSE x]
  /\ UNCHANGED <<row, turn, binding, controller, faults>>

(* The cancel's own save is no message request's: no rule holds it back. *)
CancelWrites ==
  /\ turn = "cancel" /\ reading = None
  /\ \/ row' = [row EXCEPT !.status = "canceled"] /\ UNCHANGED faults
     \/ StoreFails
  /\ turn' = None
  /\ UNCHANGED <<reading, binding, controller, exec>>

-----------------------------------------------------------------------------
Cancel == CancelReads \/ CancelRefused \/ CancelActs \/ CancelWrites

Dispatch(r) == \/ DispatchInterrupted(r) \/ DispatchMarks(r) \/ DispatchFails(r)
               \/ \E sent \in BOOLEAN : DispatchBinds(r, sent)

Next ==
  \/ Cancel
  \/ \E r \in Runs :
       \/ Begin(r) \/ DispatchReads(r) \/ Dispatch(r)
       \/ Output(r) \/ ApprovalRequested(r) \/ ApprovalReceived(r) \/ ApprovalExpires(r)
       \/ \E verdict \in {"completed", "failed"} : Unbinds(r, verdict)
       \/ Watchdog(r) \/ Detach(r) \/ Resume(r) \/ Saved(r) \/ Breaks(r) \/ Finish(r)
       \/ SdkSaves(r)

(* Turns are a promise chain, so nobody waits for ever; queries are answered;    *)
(* timers fire; a drain reads on.  An attached caller may stop reading, and      *)
(* nothing is expected of the agent.                                          *)
Fairness ==
  /\ WF_vars(CancelRefused \/ CancelActs \/ CancelWrites)
  /\ \A r \in Runs :
       /\ SF_vars(DispatchReads(r)) /\ WF_vars(Dispatch(r))
       /\ WF_vars(ApprovalExpires(r)) /\ WF_vars(Watchdog(r))
       /\ WF_vars(~exec[r].attached /\ Resume(r))
       /\ WF_vars(Saved(r)) /\ WF_vars(Finish(r))

Spec == Init /\ [][Next]_vars /\ Fairness

-----------------------------------------------------------------------------
(* Properties *)

(* A verdict in the row is the verdict of the run it is labelled with: a run    *)
(* that was superseded, rejected or interrupted never relabels another's state *)
(* (execution-marker.ts, ExecutionWriter).                                    *)
StoredVerdictIsOwn ==
  row.dispatch # None /\ row.status \in {"completed", "failed"} =>
    row.status = exec[row.dispatch].status

(* tasks/get agrees with the stream: unless a write failed, what the latest run *)
(* ended with is what the row says, or the task was canceled.                  *)
VerdictReachesStore ==
  \A r \in Runs : exec[r].stage = "done" /\ row.dispatch = r /\ faults = 0 =>
    row.status \in {exec[r].status, "canceled"}

(* What the row says of a task is what its run came to, and says it.           *)
RowAgrees == StoredVerdictIsOwn /\ VerdictReachesStore

(* A caller that is told of completion was given all the output before it. *)
OutputBeforeVerdict ==
  \A r \in Runs : exec[r].told = "completed" => exec[r].queue = <<>>

(* The stream of a run never just stops: it ends with a terminal event unless   *)
(* the task was canceled or the store failed (issue #365).                     *)
EndsWithVerdict ==
  \A r \in Runs : exec[r].stage = "done" /\ ~exec[r].aborted /\ faults = 0 =>
    exec[r].told # None

(* Whoever reads a run's stream to its end has all of it. *)
StreamIsComplete == OutputBeforeVerdict /\ EndsWithVerdict

(* The run that owns the task is the run a cancel would abort, however many     *)
(* older generators of the task finish meanwhile.                             *)
CancelReachesOwner == binding # None => controller = binding

(* A caller waiting for the next event gets one: whatever ends the run at that   *)
(* moment, a cancellation included, it is told of before its stream closes.    *)
WaitingCallerIsAnswered ==
  [][\A r \in Runs : exec[r].stage = "parked" => exec'[r].stage \notin {"closing", "done"}]_vars

(* A cancellation that was saved is final: no dispatch waiting its turn and no  *)
(* late save of a run brings the task back (executor.ts, dispatch).            *)
CanceledStaysCanceled ==
  [][row.status = "canceled" /\ faults = 0 => row'.status = "canceled"]_vars

(* Neither a caller that waits nor one that canceled is deceived. *)
CallersAreAnswered == WaitingCallerIsAnswered /\ CanceledStaysCanceled

(* A run nobody reads any more still ends, with the agent silent for ever. *)
DetachedRunsEnd ==
  \A r \in Runs : exec[r].stage # "idle" /\ ~exec[r].attached ~> exec[r].stage = "done"

=============================================================================
