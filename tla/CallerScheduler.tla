----------------------------- MODULE CallerScheduler -----------------------------
(***************************************************************************)
(* The admission of concurrent executions: round robin across callers, in  *)
(* order within a conversation, bounded per caller and in all.             *)
(*                                                                         *)
(* Code: packages/client/src/caller-execution-scheduler.ts.  `order` and   *)
(* `queue` are the Map `queues` (its keys in insertion order, its values); *)
(* `running` and `queued` are counters in the code, counted here.          *)
(***************************************************************************)
EXTENDS Naturals, Sequences, FiniteSets, SequencesExt

CONSTANTS
  Waiters, Scopes, Contexts,
  None,
  PerCaller, Global, QueuePerCaller, QueueLimit  \* the limits of these names

LimitsOK ==
  /\ PerCaller \in Nat \ {0} /\ Global \in Nat \ {0}
  /\ QueuePerCaller \in Nat /\ QueueLimit \in Nat

VARIABLES
  sched,   \* queues (order, queue), busy, and the history `passed`
  waiter   \* per waiter, what its promise and its lease are at

Items == [who : Waiters, context : Contexts]
Idle == [scope |-> None, context |-> None, stage |-> "idle", before |-> {}]

(* passed[s][a]: how often a was admitted while s could have been.            *)
TypeOK ==
  /\ sched.order \in Seq(Scopes) /\ IsInjective(sched.order)
  /\ ToSet(sched.order) = {s \in Scopes : sched.queue[s] # <<>>}
  /\ \A s \in Scopes : sched.queue[s] \in Seq(Items)
  /\ sched.busy \in [Scopes -> SUBSET Contexts]
  /\ sched.passed \in [Scopes -> [Scopes -> 0..2]]
  /\ waiter \in [Waiters -> [scope : Scopes \cup {None}, context : Contexts \cup {None},
                             stage : {"idle", "queued", "granted", "refused"},
                             before : SUBSET Waiters]]

NoScheduling == [order |-> <<>>, queue |-> [s \in Scopes |-> <<>>],
                 busy |-> [s \in Scopes |-> {}],
                 passed |-> [s \in Scopes |-> [a \in Scopes |-> 0]]]

SchedulerInit == sched = NoScheduling /\ waiter = [w \in Waiters |-> Idle]

-----------------------------------------------------------------------------

Running(sc) == Cardinality({p \in Scopes \X Contexts : p[2] \in sc.busy[p[1]]})
QueueOf(sc, s) == {sc.queue[s][i].who : i \in DOMAIN sc.queue[s]}
Queued(sc) == UNION {QueueOf(sc, s) : s \in Scopes}

(* With a bug: a conversation that is busy is admitted once more.             *)
EligibleBusy(sc, s) ==
  IF Cardinality(sc.busy[s]) >= PerCaller THEN {} ELSE DOMAIN sc.queue[s]

(* The positions of a caller's queue that may be admitted.                    *)
Eligible(sc, s) ==
  IF Cardinality(sc.busy[s]) >= PerCaller THEN {}
  ELSE {i \in DOMAIN sc.queue[s] : sc.queue[s][i].context \notin sc.busy[s]}

(* The foremost of some positions.                                            *)
First(S) == CHOOSE i \in S : \A j \in S : i <= j

(* remove: the waiter leaves, and its caller the map if none is left.         *)
Dequeue(sc, s, w) ==
  LET rest == SelectSeq(sc.queue[s], LAMBDA x : x.who # w) IN
  [sc EXCEPT !.queue[s] = rest,
             !.order = IF rest = <<>> THEN SelectSeq(@, LAMBDA x : x # s) ELSE @]

(* An admitted caller goes behind the others.                                 *)
Rotate(sc, s) ==
  IF sc.queue[s] = <<>> THEN sc
  ELSE [sc EXCEPT !.order = Append(SelectSeq(@, LAMBDA x : x # s), s)]

(* History: who was not eligible has not been passed over.                    *)
Passing(sc, s) ==
  [sc EXCEPT !.passed = [r \in Scopes |->
     IF r = s \/ Eligible(sc, r) = {} THEN [a \in Scopes |-> 0]
     ELSE [@[r] EXCEPT ![s] = IF @ = 2 THEN 2 ELSE @ + 1]]]

(* One round of drain: the first caller in the map with an eligible waiter.   *)
AdmitOne(sc) ==
  LET able == {k \in DOMAIN sc.order : Eligible(sc, sc.order[k]) # {}} IN
  IF Running(sc) >= Global \/ able = {} THEN sc
  ELSE LET s == sc.order[First(able)]
           item == sc.queue[s][First(Eligible(sc, s))]
       IN [Rotate(Dequeue(Passing(sc, s), s, item.who), s)
             EXCEPT !.busy[s] = @ \cup {item.context}]

(* drain: as many rounds as there can be free places.                         *)
Drain(sc) ==
  LET round[n \in 0..Global] ==
        IF n = 0 THEN sc
        ELSE CHOOSE next \in {AdmitOne(prev) : prev \in {round[n - 1]}} : TRUE
  IN CHOOSE next \in {[last EXCEPT !.passed = [s \in Scopes |->
                         IF Eligible(last, s) = {} THEN [a \in Scopes |-> 0] ELSE @[s]]] :
                       last \in {round[Global]}} : TRUE

(* What the promises of all waiters are, when the scheduler has become sc.    *)
Resolved(sc, wt) ==
  [v \in Waiters |->
     LET granted == wt[v].stage = "queued" /\ v \notin Queued(sc) IN
     [wt[v] EXCEPT !.stage = IF granted THEN "granted" ELSE @,
                   !.before = IF wt[v].stage = "queued" THEN @ \cap Queued(sc) ELSE {}]]

-----------------------------------------------------------------------------

(* acquire.  A waiter that is still queued after the drain and exceeds a      *)
(* limit is turned away; only waiters before it in its own conversation can  *)
(* be `before` it.                                                           *)
Acquire(w, s, c) ==
  LET pushed == [sched EXCEPT !.queue[s] = Append(@, [who |-> w, context |-> c]),
                              !.order = IF sched.queue[s] = <<>> THEN Append(@, s) ELSE @]
      drained == Drain(pushed)
      full == /\ w \in Queued(drained)
              /\ \/ Cardinality(Queued(drained)) > QueueLimit
                 \/ Len(drained.queue[s]) > QueuePerCaller
      ahead == {v \in QueueOf(sched, s) : waiter[v].context = c}
      arrived == [waiter EXCEPT ![w] = [scope |-> s, context |-> c, stage |-> "queued",
                                        before |-> ahead]]
  IN
  /\ waiter[w].stage = "idle"
  /\ IF full
     THEN /\ sched' = Dequeue(drained, s, w)
          /\ waiter' = Resolved(sched', [arrived EXCEPT ![w].stage = "refused"])
     ELSE /\ sched' = drained
          /\ waiter' = Resolved(drained, arrived)

(* The signal of a waiter aborts; once admitted, it is no longer listened to. *)
GiveUp(w) ==
  LET s == waiter[w].scope IN
  /\ waiter[w].stage = "queued"
  /\ sched' = Drain(Dequeue(sched, s, w))
  /\ waiter' = Resolved(sched', [waiter EXCEPT ![w] = Idle])

(* The lease is released, once.                                               *)
Release(w) ==
  LET s == waiter[w].scope IN
  /\ waiter[w].stage = "granted"
  /\ sched' = Drain([sched EXCEPT !.busy[s] = @ \ {waiter[w].context}])
  /\ waiter' = Resolved(sched', [waiter EXCEPT ![w] = Idle])

(* A caller that was turned away may come back.                               *)
Return(w) ==
  /\ waiter[w].stage = "refused"
  /\ waiter' = [waiter EXCEPT ![w] = Idle] /\ UNCHANGED sched

Next ==
  \E w \in Waiters : \/ \E s \in Scopes, c \in Contexts : Acquire(w, s, c)
                     \/ GiveUp(w) \/ Release(w) \/ Return(w)

svars == <<sched, waiter>>

(* Every execution ends, by its own time-out if need be.                      *)
Spec == SchedulerInit /\ [][Next]_svars /\ \A w \in Waiters : WF_svars(Release(w))

-----------------------------------------------------------------------------

(* Never more executions than the limits allow, and each conversation is      *)
(* busy with one.                                                            *)
SlotsBounded ==
  /\ Running(sched) <= Global
  /\ \A s \in Scopes : Cardinality(sched.busy[s]) <= PerCaller
  /\ \A s \in Scopes, c \in Contexts :
       Cardinality({w \in Waiters : /\ waiter[w].stage = "granted"
                                    /\ waiter[w].scope = s /\ waiter[w].context = c})
         = IF c \in sched.busy[s] THEN 1 ELSE 0

(* Whoever could run does not wait: another caller's backlog, or an earlier   *)
(* waiter of a busy conversation, holds nobody up.                           *)
NothingAdmissibleWaits ==
  Running(sched) < Global =>
    \A s \in Scopes : Cardinality(sched.busy[s]) < PerCaller =>
      \A i \in DOMAIN sched.queue[s] : sched.queue[s][i].context \in sched.busy[s]

(* Between two admissions of one caller every caller that could run had its   *)
(* turn.                                                                     *)
RoundRobin == \A s, a \in Scopes : sched.passed[s][a] <= 1

(* Executions of a conversation begin in the order in which they arrived.     *)
InOrder == [][\A w \in Waiters :
                waiter[w].stage = "queued" /\ waiter'[w].stage = "granted"
                  => \A v \in waiter[w].before : waiter'[v].stage # "queued"]_svars

=============================================================================
