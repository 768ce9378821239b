----------------------------- MODULE CallerContexts -----------------------------
(***************************************************************************)
(* Concurrent executions of a caller's conversations, each in a container  *)
(* of its own: the slot they run in, the allocation they take turns for,   *)
(* the workers that stay, and what a failure costs.                        *)
(*                                                                         *)
(* Code: executeConcurrent in                                              *)
(* packages/client/src/caller-scoped-backend.ts, acquireContext and        *)
(* stopContext in caller-runtime-docker.ts; the slots are those of         *)
(* CallerScheduler.                                                        *)
(***************************************************************************)
EXTENDS Naturals, Sequences, FiniteSets

CONSTANTS
  Tasks, Scopes, Contexts,
  None,
  PerCaller, Global, QueuePerCaller, QueueLimit,
  MaxScopes, MaxContexts,
  MaxFaults               \* bound: failures, aborts and restarts

ConstantsOK ==
  /\ None \notin Contexts
  /\ MaxScopes \in Nat \ {0} /\ MaxContexts \in Nat \ {0} /\ MaxFaults \in Nat

VARIABLES
  entry,        \* entries: per scope its entry, or None
  sched,        \* the scheduler
  waiter,       \* its waiters, one per task
  task,         \* one record per task
  turn,         \* allocationTails: who waits for the allocation of a scope, in order
  prepared,     \* preparedScopes
  quarantined,  \* quarantinedScopes
  reserved,     \* scopes on record
  contexts,     \* conversations on record
  live,         \* containers that run or may still: <<scope, context>>, or <<scope, None>>
  held,         \* conversations whose files the container has held
  faults

vars == <<entry, sched, waiter, task, turn, prepared, quarantined, reserved, contexts,
          live, held, faults>>

Slots == INSTANCE CallerScheduler WITH Waiters <- Tasks

Entries == [users : 0..Cardinality(Tasks), retained : BOOLEAN, recovered : BOOLEAN,
            quarantined : BOOLEAN, contexts : SUBSET Contexts, failed : SUBSET Contexts,
            workers : SUBSET Contexts]  \* contextWorkers

TaskStates == [scope : Scopes \cup {None}, context : Contexts \cup {None},
               stage : {"new", "waiting", "allocating", "preparing", "building", "working", "settling",
                        "stopping", "done"},
               error : {None, "plain", "scope", "unconfirmed"},  \* kind of what was thrown
               touched : BOOLEAN,   \* acquired: cleanup is due
               aborted : BOOLEAN,
               told : BOOLEAN,      \* that the conversation is reset
               cold : BOOLEAN,      \* it had been held by an earlier worker
               verdict : {None, "completed", "failed", "refused", "lost"}]

(* An entry counts the executions that use it.                                *)
TypeOK ==
  /\ Slots!TypeOK
  /\ \A s \in Scopes :
       LET users == {t \in Tasks : task[t].scope = s /\ task[t].stage # "done"} IN
       IF entry[s] = None THEN users = {} ELSE entry[s].users = Cardinality(users)
  /\ entry \in [Scopes -> Entries \cup {None}]
  /\ task \in [Tasks -> TaskStates]
  /\ \A s \in Scopes : turn[s] \in Seq(Tasks)
  /\ prepared \subseteq Scopes /\ quarantined \subseteq Scopes /\ reserved \subseteq Scopes
  /\ contexts \in [Scopes -> SUBSET Contexts] /\ held \in [Scopes -> SUBSET Contexts]
  /\ live \subseteq Scopes \X (Contexts \cup {None})
  /\ faults \in 0..MaxFaults

NewEntry(recovered) ==
  [users |-> 0, retained |-> recovered, recovered |-> recovered, quarantined |-> FALSE,
   contexts |-> {}, failed |-> {}, workers |-> {}]

NewTask == [scope |-> None, context |-> None, stage |-> "new", error |-> None,
            touched |-> FALSE, aborted |-> FALSE, told |-> FALSE, cold |-> FALSE,
            verdict |-> None]

Init ==
  /\ Slots!SchedulerInit
  /\ entry = [s \in Scopes |-> None]
  /\ task = [t \in Tasks |-> NewTask]
  /\ turn = [s \in Scopes |-> <<>>]
  /\ prepared = {} /\ quarantined = {} /\ reserved = {}
  /\ contexts = [s \in Scopes |-> {}] /\ held = [s \in Scopes |-> {}]
  /\ live = {}
  /\ faults = 0

Fault == faults < MaxFaults /\ faults' = faults + 1

pool == <<turn, prepared, quarantined, reserved, contexts, live>>
slots == <<sched, waiter>>

-----------------------------------------------------------------------------
(* Admission, and the way out.                                                *)

(* A finished task keeps only what was said of it.                            *)
Ended(t, verdict) ==
  [NewTask EXCEPT !.stage = "done", !.verdict = verdict, !.scope = task[t].scope,
                  !.context = task[t].context, !.told = task[t].told, !.cold = task[t].cold]

(* The entry of which a user leaves: it goes with the last one, unless it     *)
(* keeps something.                                                          *)
Left(e) == IF ~e.retained /\ ~e.quarantined /\ e.users = 1 THEN None
           ELSE [e EXCEPT !.users = @ - 1]

(* finally: the slot goes back ...                                            *)
End(t, e, verdict) ==
  /\ task' = [task EXCEPT ![t] = Ended(t, verdict)]
  /\ entry' = [entry EXCEPT ![task[t].scope] = Left(e)]
  /\ Slots!Release(t)

(* ... unless the container may still run.                                    *)
EndHolding(t, e) ==
  /\ task' = [task EXCEPT ![t] = Ended(t, "failed")]
  /\ entry' = [entry EXCEPT ![task[t].scope] = Left([e EXCEPT !.failed = @ \cup {task[t].context}])]
  /\ UNCHANGED slots

(* executeConcurrent, up to the scheduler.                                    *)
Admit(t, s, c) ==
  LET e == entry[s] IN
  /\ task[t].stage = "new"
  /\ IF \/ e = None /\ Cardinality({x \in Scopes : entry[x] # None}) >= MaxScopes
        \/ e # None /\ (e.quarantined \/ c \in e.failed)
     THEN /\ task' = [task EXCEPT ![t].scope = s, ![t].context = c,
                                  ![t].stage = "done", ![t].verdict = "refused"]
          /\ UNCHANGED <<entry, slots>>
     ELSE /\ entry' = [entry EXCEPT ![s] = [(IF e = None THEN NewEntry(FALSE) ELSE e)
                                              EXCEPT !.users = @ + 1]]
          /\ task' = [task EXCEPT ![t].scope = s, ![t].context = c, ![t].stage = "waiting"]
          /\ Slots!Acquire(t, s, c)
  /\ UNCHANGED <<pool, held, faults>>

(* The queue was full.                                                        *)
TurnedAway(t) ==
  LET s == task[t].scope IN
  /\ task[t].stage = "waiting" /\ Slots!Return(t)
  /\ task' = [task EXCEPT ![t] = Ended(t, "refused")]
  /\ entry' = [entry EXCEPT ![s] = Left(entry[s])]
  /\ UNCHANGED <<pool, held, faults>>

(* queueTimeoutMs, or a cancellation.                                         *)
LeaveQueue(t) ==
  LET s == task[t].scope IN
  /\ task[t].stage = "waiting" /\ Slots!GiveUp(t)
  /\ task' = [task EXCEPT ![t] = Ended(t, "failed")]
  /\ entry' = [entry EXCEPT ![s] = Left(entry[s])]
  /\ UNCHANGED <<pool, held, faults>>

(* The slot is there.  What happened while it waited is looked at again.      *)
Granted(t) ==
  LET s == task[t].scope  c == task[t].context  e == entry[s] IN
  /\ task[t].stage = "waiting" /\ waiter[t].stage = "granted"
  /\ IF task[t].aborted \/ e.quarantined \/ c \in e.failed
     THEN End(t, e, "failed") /\ UNCHANGED turn
     ELSE IF c \notin e.contexts /\ Cardinality(e.contexts) >= MaxContexts
     THEN End(t, e, "refused") /\ UNCHANGED turn
     ELSE /\ task' = [task EXCEPT ![t].stage = "allocating", ![t].touched = TRUE]
          /\ turn' = [turn EXCEPT ![s] = Append(@, t)]
          /\ UNCHANGED <<entry, slots>>
  /\ UNCHANGED <<prepared, quarantined, reserved, contexts, live, held, faults>>

-----------------------------------------------------------------------------
(* acquireContext.  Conversations of one scope take turns.                    *)

HasTurn(t) == LET q == turn[task[t].scope] IN q # <<>> /\ Head(q) = t

(* What it throws goes to the catch block; its turn is over.                  *)
Throw(t, kind) ==
  /\ task' = [task EXCEPT ![t].stage = "stopping", ![t].error = kind]
  /\ turn' = [turn EXCEPT ![task[t].scope] = SelectSeq(@, LAMBDA x : x # t)]

(* Who is aborted, or whose scope has been marked meanwhile, goes no further. *)
Reject(t) ==
  /\ task[t].stage = "allocating" /\ HasTurn(t)
  /\ \/ task[t].aborted /\ Throw(t, "plain")
     \/ ~task[t].aborted /\ task[t].scope \in quarantined /\ Throw(t, "unconfirmed")
  /\ UNCHANGED <<entry, slots, prepared, quarantined, reserved, contexts, live, held, faults>>

(* The scope's own container is made once, to prepare its storage.            *)
Prepare(t) ==
  LET s == task[t].scope IN
  /\ task[t].stage = "allocating" /\ HasTurn(t) /\ ~task[t].aborted
  /\ s \notin quarantined \cup prepared
  /\ task' = [task EXCEPT ![t].stage = "preparing"]
  /\ entry' = [entry EXCEPT ![s].retained = TRUE]
  /\ reserved' = reserved \cup {s} /\ live' = live \cup {<<s, None>>}
  /\ UNCHANGED <<slots, turn, prepared, quarantined, contexts, held, faults>>

(* It fails before any mutation, with or without a mark on the scope.         *)
PrepareRefused(t) ==
  LET s == task[t].scope IN
  /\ task[t].stage = "allocating" /\ HasTurn(t) /\ s \notin quarantined \cup prepared
  /\ Fault
  /\ \/ Throw(t, "plain") /\ UNCHANGED quarantined
     \/ Throw(t, "scope") /\ quarantined' = quarantined \cup {s}
  /\ UNCHANGED <<entry, slots, prepared, reserved, contexts, live, held>>

Prepared(t) ==
  LET s == task[t].scope IN
  /\ task[t].stage = "preparing" /\ ~task[t].aborted
  /\ task' = [task EXCEPT ![t].stage = "allocating"]
  /\ prepared' = prepared \cup {s} /\ live' = live \ {<<s, None>>}
  /\ UNCHANGED <<entry, slots, turn, quarantined, reserved, contexts, held, faults>>

(* It fails after a mutation: the container is stopped, confirmed or not.     *)
PrepareFails(t) ==
  LET s == task[t].scope IN
  /\ task[t].stage = "preparing"
  /\ \/ /\ (task[t].aborted /\ UNCHANGED faults) \/ Fault
        /\ live' = live \ {<<s, None>>} /\ Throw(t, "plain")
        /\ UNCHANGED quarantined
     \/ /\ Fault
        /\ live' \in {live, live \ {<<s, None>>}} /\ Throw(t, "unconfirmed")
        /\ quarantined' = quarantined \cup {s}
  /\ UNCHANGED <<entry, slots, prepared, reserved, contexts, held>>

(* The conversation is put on record, if there is room, and its directory is  *)
(* made; the turn is over.                                                   *)
Allocate(t) ==
  LET s == task[t].scope  c == task[t].context IN
  /\ task[t].stage = "allocating" /\ HasTurn(t) /\ ~task[t].aborted
  /\ s \in prepared \ quarantined
  /\ IF c \notin contexts[s] /\ Cardinality(contexts[s]) >= MaxContexts
     THEN Throw(t, "plain") /\ UNCHANGED contexts
     ELSE /\ contexts' = [contexts EXCEPT ![s] = @ \cup {c}]
          /\ task' = [task EXCEPT ![t].stage = "building"]
          /\ turn' = [turn EXCEPT ![s] = Tail(@)]
  /\ entry' = [entry EXCEPT ![s].retained = TRUE]
  /\ UNCHANGED <<slots, prepared, quarantined, reserved, live, held, faults>>

(* Storage is missing or foreign, or the helper fails, confirmed or not.      *)
AllocateFails(t) ==
  LET s == task[t].scope  c == task[t].context IN
  /\ task[t].stage = "allocating" /\ HasTurn(t) /\ s \in prepared \ quarantined
  /\ Fault
  /\ \/ Throw(t, "scope") /\ UNCHANGED <<contexts, quarantined>>
     \/ /\ c \in contexts[s] \/ Cardinality(contexts[s]) < MaxContexts
        /\ contexts' = [contexts EXCEPT ![s] = @ \cup {c}]
        /\ \/ Throw(t, "plain") /\ UNCHANGED quarantined
           \/ Throw(t, "unconfirmed") /\ quarantined' = quarantined \cup {s}
  /\ entry' = [entry EXCEPT ![s].retained = TRUE]
  /\ UNCHANGED <<slots, prepared, reserved, live, held>>

-----------------------------------------------------------------------------
(* The execution in its container.                                            *)

(* The container is created and started; the start may fail after it took     *)
(* effect.                                                                   *)
Start(t) ==
  LET s == task[t].scope  c == task[t].context IN
  /\ task[t].stage = "building" /\ <<s, c>> \notin live /\ ~task[t].aborted
  /\ live' = live \cup {<<s, c>>}
  /\ UNCHANGED <<entry, slots, task, turn, prepared, quarantined, reserved, contexts, held,
                 faults>>

(* The conversation's worker is made, and its caller told of a reset, or the  *)
(* old one is bound to the new container; the work begins.                   *)
Begin(t) ==
  LET s == task[t].scope  c == task[t].context  e == entry[s] IN
  /\ task[t].stage = "building" /\ <<s, c>> \in live /\ ~task[t].aborted
  /\ task' = [task EXCEPT ![t].stage = "working",
                          ![t].told = c \notin e.workers /\ (e.recovered \/ c \in e.contexts),
                          ![t].cold = c \notin e.workers /\ c \in held[s]]
  /\ entry' = [entry EXCEPT ![s].workers = @ \cup {c}, ![s].contexts = @ \cup {c}]
  /\ held' = [held EXCEPT ![s] = @ \cup {c}]
  /\ UNCHANGED <<slots, pool, faults>>

Finish(t) ==
  /\ task[t].stage = "working" /\ ~task[t].aborted
  /\ task' = [task EXCEPT ![t].stage = "settling"]
  /\ UNCHANGED <<entry, slots, pool, held, faults>>

(* The container is removed; only then is the terminal event sent.            *)
Complete(t) ==
  LET s == task[t].scope  c == task[t].context IN
  /\ task[t].stage = "settling" /\ task[t].touched
  /\ live' = live \ {<<s, c>>}
  /\ IF task[t].aborted
     THEN /\ task' = [task EXCEPT ![t].stage = "stopping", ![t].touched = FALSE]
          /\ UNCHANGED <<entry, slots>>
     ELSE End(t, entry[s], "completed")
  /\ UNCHANGED <<turn, prepared, quarantined, reserved, contexts, held, faults>>

Break(t) ==
  /\ task[t].stage \in {"building", "working", "settling"}
  /\ (task[t].aborted /\ UNCHANGED faults) \/ Fault
  /\ task' = [task EXCEPT ![t].stage = "stopping", ![t].error = "plain"]
  /\ UNCHANGED <<entry, slots, pool, held>>

(* With a bug: the worker is closed, but its container stays.                 *)
StopWorker(t) ==
  LET s == task[t].scope  c == task[t].context
      left == [entry[s] EXCEPT !.workers = @ \ {c},
                               !.quarantined = @ \/ task[t].error \in {"scope", "unconfirmed"}]
  IN
  /\ task[t].stage = "stopping" /\ UNCHANGED <<live, faults>>
  /\ \/ task[t].error # "unconfirmed" /\ End(t, left, "failed")
     \/ task[t].error = "unconfirmed" /\ EndHolding(t, left)
  /\ UNCHANGED <<turn, prepared, quarantined, reserved, contexts, held>>

(* The catch block: the conversation's own worker is closed and its container *)
(* removed; what is not confirmed keeps its slot.                            *)
Stop(t) ==
  LET s == task[t].scope  c == task[t].context
      left == [entry[s] EXCEPT !.workers = @ \ {c},
                               !.quarantined = @ \/ task[t].error \in {"scope", "unconfirmed"}]
  IN
  /\ task[t].stage = "stopping"
  /\ \/ /\ live' = live \ {<<s, c>>} /\ UNCHANGED faults
        /\ \/ task[t].error # "unconfirmed" /\ End(t, left, "failed")
           \/ task[t].error = "unconfirmed" /\ EndHolding(t, left)
     \/ /\ task[t].touched /\ c \in contexts[s] /\ Fault
        /\ live' \in {live, live \ {<<s, c>>}}
        /\ EndHolding(t, left)
  /\ UNCHANGED <<turn, prepared, quarantined, reserved, contexts, held>>

(* A cancellation, taskTimeoutMs, or stop().                                  *)
Abort(t) ==
  /\ \/ task[t].stage \in {"allocating", "preparing", "building", "working", "settling"}
     \/ task[t].stage = "waiting" /\ waiter[t].stage = "granted"
  /\ ~task[t].aborted /\ Fault
  /\ task' = [task EXCEPT ![t].aborted = TRUE]
  /\ UNCHANGED <<entry, slots, pool, held>>

(* A new process: initialize removes every container before it admits anyone. *)
Restart ==
  /\ Fault
  /\ entry' = [s \in Scopes |-> IF s \in reserved THEN NewEntry(TRUE) ELSE None]
  /\ sched' = Slots!NoScheduling /\ waiter' = [t \in Tasks |-> Slots!Idle]
  /\ task' = [t \in Tasks |-> IF task[t].stage \in {"new", "done"} THEN task[t]
                              ELSE Ended(t, "lost")]
  /\ turn' = [s \in Scopes |-> <<>>]
  /\ prepared' = {} /\ quarantined' = {} /\ live' = {}
  /\ UNCHANGED <<reserved, contexts, held>>

-----------------------------------------------------------------------------

Step(t) ==
  \/ TurnedAway(t) \/ LeaveQueue(t) \/ Granted(t)
  \/ Reject(t) \/ Prepare(t) \/ PrepareRefused(t) \/ Prepared(t) \/ PrepareFails(t)
  \/ Allocate(t) \/ AllocateFails(t)
  \/ Start(t) \/ Begin(t) \/ Finish(t) \/ Complete(t) \/ Break(t) \/ Stop(t)

Next ==
  \/ \E t \in Tasks : \/ Step(t) \/ Abort(t)
                      \/ \E s \in Scopes, c \in Contexts : Admit(t, s, c)
  \/ Restart

(* The queue has a time-out, every Docker command has one, and the task's own *)
(* ends handle().                                                            *)
Spec == Init /\ [][Next]_vars /\ \A t \in Tasks : WF_vars(Step(t))

-----------------------------------------------------------------------------

Active(t) == task[t].stage \in {"allocating", "preparing", "building", "working",
                                "settling", "stopping"}

(* Containers that run, or may, never exceed the limits: also those of failed *)
(* conversations, and the scope's own while its storage is prepared.         *)
ContainersBounded ==
  /\ Cardinality(live) <= Global
  /\ \A s \in Scopes : Cardinality({p \in live : p[1] = s}) <= PerCaller

(* Every container belongs to an execution in progress, or its conversation   *)
(* or scope is closed; and every slot in use is used.                        *)
NothingLeaks ==
  /\ \A p \in live :
       \/ \E t \in Tasks : Active(t) /\ task[t].scope = p[1] /\ p[2] \in {task[t].context, None}
       \/ p[2] \in entry[p[1]].failed
       \/ p[2] = None /\ p[1] \in quarantined
  /\ \A s \in Scopes : \A c \in sched.busy[s] :
       \/ \E t \in Tasks : task[t].stage \notin {"new", "done"} /\ task[t].scope = s
                                                             /\ task[t].context = c
       \/ c \in entry[s].failed

(* Scopes on record keep their entry, within the limit.                       *)
RetainedAreCounted ==
  /\ \A s \in reserved : entry[s] # None
  /\ Cardinality(reserved) <= MaxScopes

(* A caller whose conversation another worker held is told that it is reset.  *)
ResetIsTold == \A t \in Tasks : task[t].cold => task[t].told

(* Who is told of an end hears of it when the container is gone, or its       *)
(* conversation is closed.                                                   *)
EndedIsStopped ==
  [][\A t \in Tasks :
       task[t].stage \in {"settling", "stopping"} /\ task'[t].verdict \in {"completed", "failed"}
       => LET s == task[t].scope  c == task[t].context IN
          <<s, c>> \notin live' \/ c \in entry'[s].failed]_vars
=============================================================================
