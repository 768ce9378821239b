-------------------------------- MODULE TaskStore --------------------------------
(***************************************************************************)
(* The table of tasks that every instance shares: whose a task is, what a  *)
(* turn is shown of its context, and what retention takes away.            *)
(*                                                                         *)
(* Code: packages/server/src/postgres-task-store.ts, task-access.ts, the   *)
(* executor of admin.ts, POST / of http.tsx and cleanupStaleTasks of       *)
(* index.ts.  A call is one message sent to an agent.  The execution       *)
(* marker and the events of an execution are TaskExecution's; here a turn  *)
(* is marked running, shown its context, and writes its verdict.  A DELETE *)
(* chooses its rows from a snapshot and deletes them when it gets their    *)
(* locks, whatever they hold by then.                                      *)
(***************************************************************************)
EXTENDS Naturals, FiniteSets

CONSTANTS
  Principals,
  Agents,       \* owner_agent scopes
  Admin,        \* the scope of the bridge's own agent
  Contexts,     \* contexts; any caller may name any
  MaxTasks,     \* bound: tasks ever created, numbered in order of creation
  Cap,          \* MAX_CONTEXT_TASKS
  Calls,
  MaxIdle,      \* bound: how often retentionDays go by
  None

Prune == "prune"  \* the hourly sweep, beside the calls

States == {"submitted", "working", "completed", "canceled"}
RowRecords == [agent : Agents, ctx : Contexts, owner : Principals, state : States,
               old : BOOLEAN, said : SUBSET Principals]

ConstantsOK ==
  /\ MaxTasks \in Nat /\ Cap \in Nat \ {0} /\ MaxIdle \in Nat
  /\ None \notin Principals \cup Agents \cup RowRecords /\ Prune \notin Calls

VARIABLES
  row,     \* infra.a2a_tasks by task id: scope, context, owner_principal, state, whether
           \* it is older than the retention time, and whose messages its history holds;
           \* or None
  call,    \* where a call is, whose it is, its task, and whose messages it has been shown
  victims, \* the rows each retention statement under way is to delete
  drawn,   \* task ids drawn so far
  idle,
  may      \* what callers do in this behaviour: "reopen", send to a task that has
           \* ended; "cancel", cancel a task

vars == <<row, call, victims, drawn, idle, may>>

Tasks == 1..MaxTasks
Ended == {"completed", "canceled"}
NotYet == [pc |-> "idle", who |-> None, task |-> 0, saw |-> {}]

TypeOK ==
  /\ drawn \in 0..MaxTasks /\ idle \in 0..MaxIdle
  /\ row \in [Tasks -> RowRecords \cup {None}]
  /\ call \in [Calls -> [pc : {"idle", "sent", "working", "shown", "trim", "trimming", "cancel", "read"},
                        who : Principals \cup {None}, task : 0..MaxTasks, saw : SUBSET Principals]]
  /\ victims \in [Calls \cup {Prune} -> SUBSET Tasks]
  /\ may \subseteq {"reopen", "cancel"}

Init ==
  /\ row = [t \in Tasks |-> None] /\ drawn = 0 /\ idle = 0
  /\ call = [c \in Calls |-> NotYet]
  /\ victims = [s \in Calls \cup {Prune} |-> {}]
  /\ may \subseteq {"reopen", "cancel"}

Live(t) == row[t] # None
Rows == {t \in Tasks : Live(t)}

-----------------------------------------------------------------------------
(* Sending a message.                                                      *)

Sends(c, p, t) ==
  /\ call[c].pc = "idle"
  /\ call' = [call EXCEPT ![c] = [pc |-> "sent", who |-> p, task |-> t, saw |-> {}]]

\* A message without a task id.  The caller's internal keys are dropped and the
\* verified principal is stamped on the request, so the INSERT has the owner.
createTask(c, p, a, x) ==
  /\ drawn < MaxTasks
  /\ drawn' = drawn + 1
  /\ row' = [row EXCEPT ![drawn'] = [agent |-> a, ctx |-> x, owner |-> p,
                                     state |-> "submitted", old |-> FALSE, said |-> {}]]
  /\ Sends(c, p, drawn')
  /\ UNCHANGED <<victims, idle>>

\* enforceAdminTaskOperation, and its like for the other agents.
Reaches(p, t) == Live(t) /\ row[t].owner = p

\* A message to a task that is there.
Reuse(c, p, t) ==
  /\ Reaches(p, t)
  /\ row[t].state \in Ended /\ "reopen" \in may
  /\ Sends(c, p, t)
  /\ UNCHANGED <<row, victims, drawn, idle>>

\* The owner columns keep what they hold: COALESCE(stored, EXCLUDED).  History
\* read back from the table names no principal, since the keys are stripped.
OwnerKept(t, named) == IF row[t].owner # None THEN row[t].owner ELSE named

\* writeTask on a row that is there and locked.
writeTask(t, state, who, named) ==
  row' = [row EXCEPT ![t].state = state, ![t].old = FALSE,
                     ![t].owner = OwnerKept(t, named),
                     ![t].said = @ \cup who]

\* The task is marked running: markExecution, or the write of the first status.
Works(c) ==
  LET t == call[c].task IN
  /\ call[c].pc = "sent" /\ Live(t)
  /\ writeTask(t, "working", {call[c].who}, call[c].who)
  /\ call' = [call EXCEPT ![c].pc = "working"]
  /\ UNCHANGED <<victims, drawn, idle>>

\* A write finds no row: "Task not found".
NotFound(c) ==
  /\ call[c].pc \in {"sent", "shown", "cancel"} /\ ~Live(call[c].task)
  /\ call' = [call EXCEPT ![c] = NotYet]
  /\ UNCHANGED <<row, victims, drawn, idle>>

\* The Cap newest of a set of tasks.
Newest(S) == {t \in S : Cardinality({u \in S : u > t}) < Cap}

\* With a bug: a context's tasks are loaded whoever's they are.
OfContext(a, x, p) == {t \in Rows : row[t].agent = a /\ row[t].ctx = x}

OwnOfContext(a, x, p) == {t \in Rows : row[t].agent = a /\ row[t].ctx = x /\ row[t].owner = p}

Said(S) == UNION {row[t].said : t \in S}

\* The turns before this one in its context, with the task's own.
loadByContextId(c) ==
  LET t == call[c].task
      before == IF Live(t) THEN OwnOfContext(row[t].agent, row[t].ctx, call[c].who) \ {t} ELSE {}
  IN /\ call[c].pc = "working"
     /\ call' = [call EXCEPT ![c].pc = "shown",
                             ![c].saw = Said(Newest(before)) \cup (IF Live(t) THEN row[t].said ELSE {})]
     /\ UNCHANGED <<row, victims, drawn, idle>>

Shows(c, p, S) ==
  /\ call[c].pc = "idle"
  /\ call' = [call EXCEPT ![c] = [NotYet EXCEPT !.pc = "read", !.who = p, !.saw = Said(S)]]
  /\ UNCHANGED <<row, victims, drawn, idle>>

\* A read of one task, and a listing of the caller's own in one scope.
getTask(c, p, t) == Reaches(p, t) /\ Shows(c, p, {t})

listTasks(c, p, a) == Shows(c, p, {t \in Rows : row[t].agent = a /\ row[t].owner = p})

Answered(c) ==
  /\ call[c].pc = "read"
  /\ call' = [call EXCEPT ![c] = NotYet]
  /\ UNCHANGED <<row, victims, drawn, idle>>

\* A verdict that finds its task canceled leaves it so, and goes without
\* retention; the admin executor writes its own verdict over it.
Preserved(c) ==
  LET t == call[c].task IN
  /\ call[c].pc = "shown" /\ Live(t)
  /\ row[t].state = "canceled" /\ row[t].agent # Admin
  /\ call' = [call EXCEPT ![c] = NotYet]
  /\ UNCHANGED <<row, victims, drawn, idle>>

Finishes(c) ==
  LET t == call[c].task IN
  /\ call[c].pc = "shown" /\ Live(t)
  /\ ~(row[t].state = "canceled" /\ row[t].agent # Admin)
  /\ \E verdict \in {"completed"} \cup (IF row[t].state = "canceled" THEN {"canceled"} ELSE {}) :
       writeTask(t, verdict, {call[c].who}, call[c].who)
  /\ call' = [call EXCEPT ![c].pc = "trim"]
  /\ UNCHANGED <<victims, drawn, idle>>

\* tasks/cancel: a task that has ended "cannot be canceled".
CancelReads(c, p, t) ==
  /\ "cancel" \in may
  /\ call[c].pc = "idle" /\ Reaches(p, t) /\ row[t].state \notin Ended
  /\ call' = [call EXCEPT ![c] = [NotYet EXCEPT !.pc = "cancel", !.who = p, !.task = t]]
  /\ UNCHANGED <<row, victims, drawn, idle>>

\* The update carries a status only, so it names no owner and starts no
\* retention.
CancelWrites(c) ==
  LET t == call[c].task IN
  /\ call[c].pc = "cancel" /\ Live(t)
  /\ writeTask(t, "canceled", {}, None)
  /\ call' = [call EXCEPT ![c] = NotYet]
  /\ UNCHANGED <<victims, drawn, idle>>

-----------------------------------------------------------------------------
(* Retention.                                                              *)

\* OFFSET Cap, newest first.
Beyond(S) == S \ Newest(S)

\* enforceRetention after the verdict: the statement's snapshot.
TrimScans(c) ==
  LET t == call[c].task
      ended == IF Live(t) THEN {u \in OwnOfContext(row[t].agent, row[t].ctx, call[c].who) :
                                  row[u].state \in Ended}
               ELSE {}
  IN /\ call[c].pc = "trim"
     /\ victims' = [victims EXCEPT ![c] = Beyond(ended)]
     /\ call' = [call EXCEPT ![c].pc = "trimming"]
     /\ UNCHANGED <<row, drawn, idle>>

Deletes(s) == /\ row' = [t \in Tasks |-> IF t \in victims[s] THEN None ELSE row[t]]
              /\ victims' = [victims EXCEPT ![s] = {}]

TrimDeletes(c) ==
  /\ call[c].pc = "trimming"
  /\ Deletes(c)
  /\ call' = [call EXCEPT ![c] = NotYet]
  /\ UNCHANGED <<drawn, idle>>

\* retentionDays go by without a write.
Idles ==
  /\ idle < MaxIdle /\ Rows # {}
  /\ idle' = idle + 1
  /\ row' = [t \in Tasks |-> IF Live(t) THEN [row[t] EXCEPT !.old = TRUE] ELSE None]
  /\ UNCHANGED <<call, victims, drawn>>

Pair(t) == {u \in Rows : row[u].agent = row[t].agent /\ row[u].ctx = row[t].ctx}

Stale(S) == \A t \in S : row[t].old /\ row[t].state \in Ended

\* pruneStaleContexts, at the start and every hour.
PruneScans ==
  /\ victims[Prune] = {}
  /\ victims' = [victims EXCEPT ![Prune] = {t \in Rows : Stale(Pair(t))}]
  /\ victims' # victims
  /\ UNCHANGED <<row, call, drawn, idle>>

PruneDeletes ==
  /\ victims[Prune] # {}
  /\ Deletes(Prune)
  /\ UNCHANGED <<call, drawn, idle>>

-----------------------------------------------------------------------------
Acts ==
  \/ \E c \in Calls :
       \/ \E p \in Principals :
            \/ \E a \in Agents, x \in Contexts : createTask(c, p, a, x)
            \/ \E t \in Tasks : Reuse(c, p, t) \/ getTask(c, p, t) \/ CancelReads(c, p, t)
            \/ \E a \in Agents : listTasks(c, p, a)
       \/ Works(c) \/ NotFound(c) \/ loadByContextId(c) \/ Preserved(c) \/ Finishes(c)
       \/ CancelWrites(c) \/ Answered(c)
       \/ TrimScans(c) \/ TrimDeletes(c)
  \/ Idles \/ PruneScans \/ PruneDeletes

Next == UNCHANGED may /\ Acts

Spec == Init /\ [][Next]_vars

-----------------------------------------------------------------------------
(* Properties.                                                             *)

\* Nobody is shown a message of somebody else: not by the context of a turn,
\* which any caller may name, nor by a read or a listing, in a table that all
\* callers and agents share (loadByContextId, listTasks, http.tsx POST /).
SeesOnlyItsOwn == \A c \in Calls : call[c].saw \subseteq {call[c].who}

\* A task stays its owner's through every write, those included whose history
\* has been read back without its principals (writeTask's COALESCE).
OwnerStays ==
  [][\A t \in Tasks : row[t] # None /\ row'[t] # None => row'[t].owner = row[t].owner]_vars

\* Only the hourly sweep deletes one of a caller's Cap newest tasks in a context,
\* however many retention statements run beside each other.
NewestStay ==
  [][\A t \in Tasks :
       (row[t] # None /\ row'[t] = None /\ t \notin victims[Prune]) =>
         Cardinality({u \in OwnOfContext(row[t].agent, row[t].ctx, row[t].owner) : u > t}) >= Cap]_vars

\* When no turn of theirs is under way, a caller has at most Cap ended tasks in
\* a context (enforceRetention, and the comment of pruneStaleContexts on it).
CapHolds ==
  \A a \in Agents, x \in Contexts, p \in Principals :
    (\A c \in Calls : call[c].who # p) =>
      Cardinality({t \in OwnOfContext(a, x, p) : row[t].state \in Ended}) <= Cap

\* Where nobody sends to what has ended or cancels, retention deletes only what
\* has ended (enforceRetention and pruneStaleContexts look for ended tasks).
RunningStays ==
  [][may = {} => \A t \in Rows : row[t].state \notin Ended => row'[t] # None]_vars

\* Nobody is shown another's messages, a task keeps its owner, and retention
\* deletes neither one of the newest nor, with callers who do not send to what
\* has ended, one that runs, and leaves no more than the cap.
TasksStayOwn ==
  /\ [](SeesOnlyItsOwn /\ (may = {} => CapHolds))
  /\ OwnerStays /\ NewestStay /\ RunningStays
=============================================================================
