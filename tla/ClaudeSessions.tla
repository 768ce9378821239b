----------------------------- MODULE ClaudeSessions -----------------------------
(***************************************************************************)
(* The claude backend's memory of which session a conversation is in: what *)
(* concurrent tasks of one context resume, what a failure takes back, and  *)
(* what expires.                                                           *)
(*                                                                         *)
(* Code: evictExpired, the session lookup and rollbackFreshSession in      *)
(* packages/client/src/backends/claude.ts.  A run itself is ClaudeRun.     *)
(***************************************************************************)
EXTENDS Naturals, FiniteSets

CONSTANTS
  Tasks, Contexts, Callers,
  Nothing,
  Ttl,          \* sessionTtlMs
  MaxTime       \* bound: ticks of the clock

(* Nothing is no context, no entry and no verdict.                            *)
ConstantsOK ==
  /\ Ttl \in Nat \ {0} /\ MaxTime \in Nat
  /\ Nothing \notin Contexts \cup {"completed", "failed", "canceled"}
  /\ Nothing \notin [session : Tasks, used : Nat, write : Nat, caller : Callers]

VARIABLES
  now,
  counter,      \* writeCounter
  sessions,     \* per context its entry, or Nothing
  task,         \* one record per task
  persisted     \* sessions claude has on disk

vars == <<now, counter, sessions, task, persisted>>

(* A session is named by the task that minted it.                             *)
Entries == [session : Tasks, used : 0..MaxTime, write : 1..Cardinality(Tasks), caller : Callers]

TaskStates == [stage : {"new", "starting", "running", "done"},
               context : Contexts \cup {Nothing}, caller : Callers \cup {Nothing},
               session : Tasks \cup {Nothing}, resume : BOOLEAN,
               write : 0..Cardinality(Tasks), at : 0..MaxTime, aborted : BOOLEAN,
               verdict : {Nothing, "completed", "failed", "canceled"}]

Bound(t) == task[t].context # Nothing
Busy(t) == task[t].stage \in {"starting", "running"}

(* No two writes to the map share a number.                                   *)
TypeOK ==
  /\ now \in 0..MaxTime /\ counter \in 0..Cardinality(Tasks)
  /\ sessions \in [Contexts -> Entries \cup {Nothing}]
  /\ task \in [Tasks -> TaskStates]
  /\ persisted \subseteq Tasks
  /\ \A t \in Tasks : Bound(t) = (task[t].write \in 1..counter)
  /\ \A t, u \in Tasks : Bound(t) /\ task[t].write = task[u].write => t = u

NewTask == [stage |-> "new", context |-> Nothing, caller |-> Nothing, session |-> Nothing,
            resume |-> FALSE, write |-> 0, at |-> 0, aborted |-> FALSE, verdict |-> Nothing]

Init ==
  /\ now = 0 /\ counter = 0 /\ persisted = {}
  /\ sessions = [c \in Contexts |-> Nothing]
  /\ task = [t \in Tasks |-> NewTask]

---------------------------------------------------------------------------
(* evictExpired                                                               *)
Kept == [c \in Contexts |->
           IF sessions[c] # Nothing /\ now - sessions[c].used > Ttl THEN Nothing ELSE sessions[c]]

(* The entry of the context, when it is the caller's own.                     *)
Existing(c, k) == IF Kept[c] # Nothing /\ Kept[c].caller = k THEN Kept[c] ELSE Nothing

(* A task gets its session: the one its context is in, or a new one; either   *)
(* way the entry is written anew before anything is awaited.                  *)
Bind(t, c, k) ==
  LET existing == Existing(c, k)
      session == IF existing = Nothing THEN t ELSE existing.session IN
  /\ counter' = counter + 1
  /\ sessions' = [Kept EXCEPT ![c] = [session |-> session, used |-> now, write |-> counter + 1,
                                      caller |-> k]]
  /\ task' = [task EXCEPT ![t].stage = "starting", ![t].context = c, ![t].caller = k,
                          ![t].session = session, ![t].resume = existing # Nothing,
                          ![t].write = counter + 1, ![t].at = now]
  /\ UNCHANGED <<now, persisted>>

Start(t) ==
  /\ task[t].stage = "new"
  /\ \E c \in Contexts, k \in Callers : Bind(t, c, k)

Spawn(t) ==
  /\ task[t].stage = "starting"
  /\ task' = [task EXCEPT ![t].stage = "running"]
  /\ UNCHANGED <<now, counter, sessions, persisted>>

(* claude writes the session it was told to open.                             *)
Persist(t) ==
  /\ task[t].stage = "running" /\ ~task[t].resume
  /\ persisted' = persisted \cup {t}
  /\ UNCHANGED <<now, counter, sessions, task>>

(* With a bug: the entry goes whoever has written it since.                   *)
RolledBackAny(t) ==
  LET c == task[t].context IN
  IF ~task[t].resume /\ sessions[c] # Nothing /\ sessions[c].session = task[t].session
  THEN [sessions EXCEPT ![c] = Nothing] ELSE sessions

(* rollbackFreshSession: a run that minted its session takes the entry back   *)
(* unless another task has refreshed it.                                      *)
RolledBack(t) ==
  LET c == task[t].context IN
  IF ~task[t].resume /\ sessions[c] # Nothing
     /\ sessions[c].session = task[t].session /\ sessions[c].write = task[t].write
  THEN [sessions EXCEPT ![c] = Nothing] ELSE sessions

(* The servers, the prompt file or the spawn fail, or the child ends badly; a *)
(* child told to resume what is not on disk always does.                      *)
Fail(t) ==
  /\ Busy(t) /\ (task[t].stage = "running" => ~task[t].aborted)
  /\ sessions' = RolledBack(t)
  /\ task' = [task EXCEPT ![t].stage = "done", ![t].verdict = "failed"]
  /\ UNCHANGED <<now, counter, persisted>>

Complete(t) ==
  /\ task[t].stage = "running" /\ ~task[t].aborted /\ task[t].session \in persisted
  /\ task' = [task EXCEPT ![t].stage = "done", ![t].verdict = "completed"]
  /\ UNCHANGED <<now, counter, sessions, persisted>>

(* The child that was told to stop has: the entry stays.                      *)
Cancel(t) ==
  /\ task[t].stage = "running" /\ task[t].aborted
  /\ task' = [task EXCEPT ![t].stage = "done", ![t].verdict = "canceled"]
  /\ UNCHANGED <<now, counter, sessions, persisted>>

Abort(t) ==
  /\ Busy(t) /\ ~task[t].aborted
  /\ task' = [task EXCEPT ![t].aborted = TRUE]
  /\ UNCHANGED <<now, counter, sessions, persisted>>

Tick ==
  /\ now < MaxTime
  /\ now' = now + 1
  /\ UNCHANGED <<counter, sessions, task, persisted>>

Next ==
  \/ \E t \in Tasks : Start(t) \/ Spawn(t) \/ Persist(t) \/ Fail(t) \/ Complete(t) \/ Cancel(t)
                      \/ Abort(t)
  \/ Tick

Spec == Init /\ [][Next]_vars

---------------------------------------------------------------------------
(* Properties.                                                                *)

(* A session belongs to one conversation of one caller, whatever callers      *)
(* alternate in the context: nobody is shown the other's turns.               *)
OwnSession ==
  \A t, u \in Tasks : (Bound(t) /\ Bound(u) /\ task[t].session = task[u].session) =>
    task[t].context = task[u].context /\ task[t].caller = task[u].caller

LastWriter(t) == Bound(t) /\ \A u \in Tasks : task[u].context = task[t].context =>
                                task[u].write <= task[t].write

(* A task that refreshed the entry, and works or has succeeded, is resumed by *)
(* the next one: the failure of the run that minted the session does not      *)
(* take it away.                                                              *)
RefreshedStays ==
  \A t \in Tasks : (LastWriter(t) /\ (Busy(t) \/ task[t].verdict = "completed")) =>
    LET e == sessions[task[t].context] IN
    IF e = Nothing THEN \E u \in Tasks : Bound(u) /\ task[u].at > task[t].at + Ttl
    ELSE e.session = task[t].session /\ e.write = task[t].write

(* A session whose only run failed is not resumed.                            *)
FailedIsForgotten ==
  \A t \in Tasks : (LastWriter(t) /\ ~task[t].resume /\ task[t].verdict = "failed") =>
    sessions[task[t].context] = Nothing

=============================================================================
