------------------------------ MODULE CallerScopes ------------------------------
(***************************************************************************)
(* Executions in callers' containers, one at a time per scope: the chain   *)
(* of leases, admission and capacity, the worker that lives on between     *)
(* executions, the idle timer that reclaims it, and shutdown.              *)
(*                                                                         *)
(* Code: packages/client/src/caller-scoped-backend.ts without              *)
(* `concurrency`, and caller-runtime.ts.  The pool is used as              *)
(* CallerAllocation models it: an acquisition may fail before its first    *)
(* Docker mutation or after it, a stop may be unconfirmed.                 *)
(***************************************************************************)
EXTENDS Naturals, Sequences, FiniteSets

CONSTANTS
  Tasks, Scopes, Contexts,
  None,
  MaxScopes, QueueLimit, MaxContexts,  \* the options of these names
  MaxFaults                            \* bound: failures, deaths, aborts and restarts

ConstantsOK ==
  /\ None \notin Tasks
  /\ MaxScopes \in Nat \ {0} /\ QueueLimit \in Nat /\ MaxContexts \in Nat \ {0}
  /\ MaxFaults \in Nat

VARIABLES
  entry,    \* entries: per scope its entry, or None
  lease,    \* the chain of `tail`: what has not settled yet, in order
  task,     \* one record per task
  stored,   \* scopes with a record
  running,  \* scopes whose container runs
  stopped,  \* the backend is shut down
  memory,   \* conversations that the scope's present worker has held
  held,     \* conversations the scope has ever had
  faults

vars == <<entry, lease, task, stored, running, stopped, memory, held, faults>>

Entries == [retained : BOOLEAN, worker : BOOLEAN, contexts : SUBSET Contexts,
            recovered : BOOLEAN, quarantined : BOOLEAN,
            armed : BOOLEAN,   \* the idle timer runs
            due : BOOLEAN]     \* its decision waits for its turn, and was not overtaken

Active == {"allocating", "building", "working", "settling", "stopping"}
TaskStates == [
  scope : Scopes \cup {None}, context : Contexts \cup {None},
  stage : {"new", "queued", "done"} \cup Active,
  resuming : BOOLEAN,
  aborted : BOOLEAN,
  told : BOOLEAN,   \* the caller was told that the conversation is reset
  cold : BOOLEAN,   \* its conversation had been held by an earlier worker
  verdict : {"completed", "failed", "refused", "lost", None}]

(* An entry that is still waited for is never dropped.                        *)
TypeOK ==
  /\ \A s \in Scopes : entry[s] = None => lease[s] = <<>>
  /\ entry \in [Scopes -> Entries \cup {None}]
  /\ \A s \in Scopes : lease[s] \in Seq(Tasks \cup {"idle", "reclaim"})
  /\ task \in [Tasks -> TaskStates]
  /\ stored \subseteq Scopes /\ running \subseteq Scopes
  /\ stopped \in BOOLEAN
  /\ memory \in [Scopes -> SUBSET Contexts] /\ held \in [Scopes -> SUBSET Contexts]
  /\ faults \in 0..MaxFaults

NewEntry(recovered) ==
  [retained |-> recovered, worker |-> FALSE, contexts |-> {}, recovered |-> recovered,
   quarantined |-> FALSE, armed |-> FALSE, due |-> FALSE]

NewTask == [scope |-> None, context |-> None, stage |-> "new", resuming |-> FALSE,
            aborted |-> FALSE, told |-> FALSE, cold |-> FALSE, verdict |-> None]

Init ==
  /\ entry = [s \in Scopes |-> None]
  /\ lease = [s \in Scopes |-> <<>>]
  /\ task = [t \in Tasks |-> NewTask]
  /\ stored = {} /\ running = {}
  /\ stopped = FALSE
  /\ memory = [s \in Scopes |-> {}] /\ held = [s \in Scopes |-> {}]
  /\ faults = 0

Fault == faults < MaxFaults /\ faults' = faults + 1

-----------------------------------------------------------------------------
(* Leases.                                                                    *)

Waiting(q) == {q[i] : i \in DOMAIN q} \cap Tasks
HasTurn(t) == /\ task[t].scope # None
              /\ lease[task[t].scope] # <<>> /\ Head(lease[task[t].scope]) = t

(* What is left of a chain when the tasks in `done` have released their lease: *)
(* a lease settles only after those before it.                               *)
Unsettled(q, done) ==
  LET open == {i \in DOMAIN q : q[i] \notin done} IN
  IF open = {} THEN <<>>
  ELSE SubSeq(q, CHOOSE i \in open : \A j \in open : i <= j, Len(q))

(* releaseSlot of everything that settles in scope s, where entry e is left:  *)
(* an entry that keeps nothing goes, one without users arms its idle timer.  *)
Release(s, e, done) ==
  LET rest == Unsettled(lease[s], done)
      idle == Waiting(rest) = {}
  IN
  /\ lease' = [lease EXCEPT ![s] = rest]
  /\ entry' = [entry EXCEPT ![s] =
       IF idle /\ ~e.retained /\ ~e.quarantined THEN None
       ELSE IF idle THEN [e EXCEPT !.armed = e.worker /\ ~e.quarantined /\ ~stopped]
       ELSE e]

Done(t) == {x \in Tasks : task[x].stage = "done"} \cup {t}

(* The execution ends: its caller gets `verdict` and its lease is released.   *)
End(t, e, verdict) ==
  /\ task' = [task EXCEPT ![t].stage = "done", ![t].verdict = verdict]
  /\ Release(task[t].scope, e, Done(t))

Refuse(t, s, c) ==
  /\ task' = [task EXCEPT ![t].scope = s, ![t].context = c,
                          ![t].stage = "done", ![t].verdict = "refused"]
  /\ UNCHANGED <<entry, lease>>

Present == {s \in Scopes : entry[s] # None}
Pending == UNION {Waiting(lease[s]) : s \in Scopes}

(* execute: admission.  It invalidates a decision of the idle timer that has  *)
(* not begun, and waits behind one that has.                                 *)
Admit(t, s, c) ==
  /\ task[t].stage = "new" /\ ~stopped
  /\ IF \/ Cardinality(Pending) >= MaxScopes + QueueLimit
        \/ entry[s] = None /\ Cardinality(Present) >= MaxScopes
        \/ entry[s] # None /\ entry[s].quarantined
     THEN Refuse(t, s, c)
     ELSE /\ entry' = [entry EXCEPT ![s] =
               IF entry[s] = None THEN NewEntry(FALSE)
               ELSE [entry[s] EXCEPT !.armed = FALSE, !.due = FALSE]]
          /\ lease' = [lease EXCEPT ![s] = Append(@, t)]
          /\ task' = [task EXCEPT ![t].scope = s, ![t].context = c, ![t].stage = "queued"]
  /\ UNCHANGED <<stored, running, stopped, memory, held, faults>>

-----------------------------------------------------------------------------
(* One execution.                                                             *)

Goto(t, stage) == task' = [task EXCEPT ![t].stage = stage]

(* With a bug: the lease of an execution that is turned away is never released. *)
TurnHoldingLease(t) ==
  LET s == task[t].scope  e == entry[s] IN
  /\ task[t].stage = "queued" /\ HasTurn(t)
  /\ IF stopped \/ e.quarantined \/ task[t].aborted
     THEN /\ task' = [task EXCEPT ![t].stage = "done", ![t].verdict = "failed"]
          /\ UNCHANGED <<entry, lease>>
     ELSE IF task[t].context \notin e.contexts /\ Cardinality(e.contexts) >= MaxContexts
     THEN End(t, e, "refused")
     ELSE Goto(t, "allocating") /\ UNCHANGED <<entry, lease>>
  /\ UNCHANGED <<stored, running, stopped, memory, held, faults>>

(* The leases before it have settled.                                         *)
Turn(t) ==
  LET s == task[t].scope  e == entry[s] IN
  /\ task[t].stage = "queued" /\ HasTurn(t)
  /\ IF stopped \/ e.quarantined \/ task[t].aborted THEN End(t, e, "failed")
     ELSE IF task[t].context \notin e.contexts /\ Cardinality(e.contexts) >= MaxContexts
     THEN End(t, e, "refused")
     ELSE Goto(t, "allocating") /\ UNCHANGED <<entry, lease>>
  /\ UNCHANGED <<stored, running, stopped, memory, held, faults>>

(* Cancelled while it waits: answered at once, its lease settles in its turn. *)
LeaveQueue(t) ==
  /\ task[t].stage = "queued" /\ task[t].aborted
  /\ End(t, entry[task[t].scope], "failed")
  /\ UNCHANGED <<stored, running, stopped, memory, held, faults>>

(* pool.acquire succeeds.  Where the container is not the one the worker was  *)
(* made for, or was restarted, the worker is closed and its conversations    *)
(* are forgotten.                                                            *)
Acquired(t) ==
  LET s == task[t].scope  e == entry[s]
      lost == s \notin running /\ e.worker
  IN
  /\ task[t].stage = "allocating" /\ ~task[t].aborted
  /\ stored' = stored \cup {s} /\ running' = running \cup {s}
  /\ entry' = [entry EXCEPT ![s] =
       [e EXCEPT !.retained = TRUE, !.worker = @ /\ ~lost,
                 !.contexts = IF lost THEN {} ELSE @, !.recovered = @ \/ lost]]
  /\ task' = [task EXCEPT ![t].stage = "building",
                          ![t].resuming = (e.recovered /\ ~e.worker) \/ lost]
  /\ UNCHANGED <<lease, stopped, memory, held, faults>>

(* It fails before its first mutation: nothing of the scope is touched.  A    *)
(* new reservation is rolled back, or kept, or its rollback is unconfirmed;  *)
(* unconfirmed, missing or foreign resources quarantine the scope.           *)
NotAcquired(t) ==
  LET s == task[t].scope  e == entry[s] IN
  /\ task[t].stage = "allocating" /\ Fault
  /\ \/ End(t, e, "failed") /\ UNCHANGED stored
     \/ End(t, [e EXCEPT !.retained = TRUE], "failed") /\ stored' = stored \cup {s}
     \/ End(t, [e EXCEPT !.quarantined = TRUE], "failed") /\ stored' \in {stored, stored \cup {s}}
  /\ UNCHANGED <<running, stopped, memory, held>>

(* It fails after that.                                                       *)
AcquireFails(t) ==
  LET s == task[t].scope IN
  /\ task[t].stage = "allocating" /\ Fault
  /\ stored' = stored \cup {s}
  /\ running' \in {running, running \cup {s}}
  /\ entry' = [entry EXCEPT ![s].retained = TRUE]
  /\ Goto(t, "stopping")
  /\ UNCHANGED <<lease, stopped, memory, held>>

(* The worker is made if there is none, the resumption is recorded, a caller  *)
(* whose conversation is not in this worker is told, and the work begins.    *)
Begin(t) ==
  LET s == task[t].scope  c == task[t].context  e == entry[s]
      known == IF e.worker THEN memory[s] ELSE {}
  IN
  /\ task[t].stage = "building" /\ ~task[t].aborted
  /\ task' = [task EXCEPT ![t].stage = "working", ![t].resuming = FALSE,
                          ![t].told = e.recovered /\ c \notin e.contexts,
                          ![t].cold = c \in held[s] \ known]
  /\ entry' = [entry EXCEPT ![s].worker = TRUE, ![s].contexts = @ \cup {c}]
  /\ memory' = [memory EXCEPT ![s] = known \cup {c}]
  /\ held' = [held EXCEPT ![s] = @ \cup {c}]
  /\ UNCHANGED <<lease, stored, running, stopped, faults>>

(* The backend's handle() returns.                                            *)
Finish(t) ==
  /\ task[t].stage = "working" /\ ~task[t].aborted
  /\ Goto(t, "settling")
  /\ UNCHANGED <<entry, lease, stored, running, stopped, memory, held, faults>>

(* Its helpers have settled, it is healthy, its storage is within its limit:  *)
(* only now does the caller get the terminal event.                          *)
Complete(t) ==
  /\ task[t].stage = "settling" /\ ~task[t].aborted
  /\ End(t, entry[task[t].scope], "completed")
  /\ UNCHANGED <<stored, running, stopped, memory, held, faults>>

(* Anything else ends in the catch block; an abort does not wait for handle(). *)
Break(t) ==
  /\ task[t].stage \in {"building", "working", "settling"}
  /\ (task[t].aborted /\ UNCHANGED faults) \/ Fault
  /\ Goto(t, "stopping")
  /\ UNCHANGED <<entry, lease, stored, running, stopped, memory, held>>

(* The worker is closed and the container stopped before the caller is told;  *)
(* a stop that is not confirmed, or a lost resumption, quarantines the scope. *)
Stop(t) ==
  LET s == task[t].scope
      left == [entry[s] EXCEPT !.worker = FALSE, !.contexts = {}, !.recovered = TRUE]
  IN
  /\ task[t].stage = "stopping"
  /\ \/ /\ End(t, left, "failed")
        /\ running' = running \ {s} /\ UNCHANGED faults
     \/ /\ Fault
        /\ End(t, [left EXCEPT !.quarantined = TRUE], "failed")
        /\ running' \in {running, running \ {s}}
  /\ UNCHANGED <<stored, stopped, memory, held>>

(* The task is cancelled or times out; it may also be over already.           *)
Abort(t) ==
  /\ task[t].stage \in {"queued"} \cup (Active \ {"stopping"}) /\ ~task[t].aborted
  /\ Fault
  /\ task' = [task EXCEPT ![t].aborted = TRUE]
  /\ UNCHANGED <<entry, lease, stored, running, stopped, memory, held>>

(* An acquisition that is aborted fails at its next command.                  *)
AcquireAborted(t) ==
  LET s == task[t].scope  e == entry[s] IN
  /\ task[t].stage = "allocating" /\ task[t].aborted
  /\ \/ End(t, e, "failed") /\ UNCHANGED <<stored, running>>
     \/ /\ entry' = [entry EXCEPT ![s].retained = TRUE]
        /\ stored' = stored \cup {s} /\ running' = running \cup {s}
        /\ Goto(t, "stopping") /\ UNCHANGED lease
  /\ UNCHANGED <<stopped, memory, held, faults>>

-----------------------------------------------------------------------------
(* The idle timer.                                                            *)

(* It installs its barrier behind what waits in the chain.                    *)
IdleFires(s) ==
  /\ entry[s] # None /\ entry[s].armed
  /\ entry' = [entry EXCEPT ![s].armed = FALSE, ![s].due = TRUE]
  /\ lease' = [lease EXCEPT ![s] = Append(@, "idle")]
  /\ UNCHANGED <<task, stored, running, stopped, memory, held, faults>>

(* In its turn the decision is looked at again.                               *)
IdleTurn(s) ==
  /\ lease[s] # <<>> /\ Head(lease[s]) = "idle"
  /\ lease' = [lease EXCEPT ![s] = IF entry[s] # None /\ entry[s].due /\ ~stopped
                                   THEN <<"reclaim">> \o Tail(@)
                                   ELSE Unsettled(Tail(@), Done(None))]
  /\ UNCHANGED <<entry, task, stored, running, stopped, memory, held, faults>>

(* reclaimIdle: the worker is closed, the container stopped, the stop recorded. *)
Reclaim(s) ==
  LET left == [entry[s] EXCEPT !.worker = FALSE, !.contexts = {}, !.recovered = TRUE,
                               !.due = FALSE]
  IN
  /\ lease[s] # <<>> /\ Head(lease[s]) = "reclaim"
  /\ lease' = [lease EXCEPT ![s] = Unsettled(Tail(@), Done(None))]
  /\ \/ /\ entry' = [entry EXCEPT ![s] = left]
        /\ running' = running \ {s} /\ UNCHANGED faults
     \/ /\ Fault
        /\ entry' = [entry EXCEPT ![s] = [left EXCEPT !.quarantined = TRUE]]
        /\ running' \in {running, running \ {s}}
  /\ UNCHANGED <<task, stored, stopped, memory, held>>

-----------------------------------------------------------------------------
(* The surroundings.                                                          *)

(* Someone stops the container.                                               *)
Die(s) ==
  /\ s \in running /\ Fault
  /\ running' = running \ {s}
  /\ UNCHANGED <<entry, lease, task, stored, stopped, memory, held>>

(* stop(): no more admissions, every execution is aborted.                    *)
Shutdown ==
  /\ ~stopped /\ Fault
  /\ stopped' = TRUE
  /\ entry' = [s \in Scopes |-> IF entry[s] = None THEN None
                                ELSE [entry[s] EXCEPT !.armed = FALSE, !.due = FALSE]]
  /\ task' = [t \in Tasks |-> IF task[t].stage \in {"new", "done"} THEN task[t]
                              ELSE [task[t] EXCEPT !.aborted = TRUE]]
  /\ UNCHANGED <<lease, stored, running, memory, held>>

(* A new process, after close() or a kill: retained scopes are stopped before *)
(* anything is admitted.                                                     *)
Restart ==
  /\ Fault
  /\ entry' = [s \in Scopes |-> IF s \in stored THEN NewEntry(TRUE) ELSE None]
  /\ lease' = [s \in Scopes |-> <<>>]
  /\ task' = [t \in Tasks |-> IF task[t].stage \in {"new", "done"} THEN task[t]
                              ELSE [task[t] EXCEPT !.stage = "done", !.verdict = "lost"]]
  /\ running' = {} /\ stopped' = FALSE
  /\ UNCHANGED <<stored, memory, held>>

-----------------------------------------------------------------------------

Step(t) ==
  \/ Turn(t) \/ LeaveQueue(t) \/ Acquired(t) \/ NotAcquired(t) \/ AcquireFails(t)
  \/ AcquireAborted(t) \/ Begin(t) \/ Finish(t) \/ Complete(t) \/ Break(t) \/ Stop(t)

IdleStep(s) == IdleTurn(s) \/ Reclaim(s)

Next ==
  \/ \E t \in Tasks : \/ Step(t) \/ Abort(t)
                      \/ \E s \in Scopes, c \in Contexts : Admit(t, s, c)
  \/ \E s \in Scopes : IdleStep(s) \/ IdleFires(s) \/ Die(s)
  \/ Shutdown \/ Restart

(* Every await of an execution ends: Docker commands and settling have         *)
(* time-outs, and the task's own timer aborts handle().                      *)
Fairness == /\ \A t \in Tasks : WF_vars(Step(t))
            /\ \A s \in Scopes : WF_vars(IdleStep(s))

Spec == Init /\ [][Next]_vars /\ Fairness

-----------------------------------------------------------------------------

(* A scope has one execution at a time, and none while its idle container is  *)
(* being reclaimed.                                                          *)
OneExecution ==
  \A s \in Scopes :
    LET active == {t \in Tasks : task[t].scope = s /\ task[t].stage \in Active} IN
    /\ Cardinality(active) <= 1
    /\ lease[s] # <<>> /\ Head(lease[s]) = "reclaim" => active = {}

(* Every scope on record has an entry, so that retained scopes never exceed   *)
(* the limit: also those whose reservation failed or is unconfirmed.         *)
RetainedAreCounted ==
  /\ \A s \in stored : entry[s] # None
  /\ Cardinality(stored) <= MaxScopes

(* A caller whose conversation a former worker held is told that it is reset, *)
(* whatever ended that worker: a failure, an idle stop, a death, a restart.  *)
ResetIsTold == \A t \in Tasks : task[t].cold => task[t].told

(* The caller of an execution that failed in the container hears of it when   *)
(* nothing of it runs any more, or the scope is closed to everyone.          *)
FailedIsStopped ==
  [][\A t \in Tasks :
       task[t].stage \in {"building", "working", "settling", "stopping"}
         /\ task'[t].verdict = "failed"
       => LET s == task[t].scope IN s \notin running' \/ entry'[s].quarantined]_vars
=============================================================================
