---------------------------- MODULE MCCallerRuntime ----------------------------
(* The caller-scoped runtime of one daemon: the Docker resources of a scope,  *)
(* the state directory, the executions of the serial backend and of the one   *)
(* with a container per conversation, and the scheduler of the latter, here   *)
(* with more who wait.  A behaviour is about one of them: what they share is  *)
(* the directory's rows, which each has as variables of its own.              *)
EXTENDS CallerAllocation, CallerStore

VARIABLES
  about,
  entry, lease, task, stored, running, stopped, memory, held, mishaps,   \* CallerScopes
  place, sched, waiter, work, turn, prepared, quarantined, reserved,     \* CallerContexts
  contexts, live, kept, accidents,
  slots, queued                                                          \* CallerScheduler

scopeVars == <<entry, lease, task, stored, running, stopped, memory, held, mishaps>>
contextVars == <<place, sched, waiter, work, turn, prepared, quarantined, reserved, contexts,
                 live, kept, accidents>>
slotVars == <<slots, queued>>

(* Beside three processes of which each writes once, two that write twice.    *)
StoreOfTwo == INSTANCE CallerStore WITH Procs <- {"p1", "p2"}, MaxOps <- 2

(* Tasks of two scopes that compete for one place: three with a conversation  *)
(* per scope, or two with two.                                                *)
Serial == INSTANCE CallerScopes WITH
  Tasks <- {"t1", "t2", "t3"}, Scopes <- {"s1", "s2"}, Contexts <- {"c1", "c2"},
  MaxScopes <- 1, QueueLimit <- 1, MaxContexts <- 1, MaxFaults <- 3, faults <- mishaps
SerialThree == INSTANCE CallerScopes WITH
  Tasks <- {"t1", "t2", "t3"}, Scopes <- {"s1", "s2"}, Contexts <- {"c1"},
  MaxScopes <- 1, QueueLimit <- 1, MaxContexts <- 1, MaxFaults <- 3, faults <- mishaps
SerialTwo == INSTANCE CallerScopes WITH
  Tasks <- {"t1", "t2"}, Scopes <- {"s1", "s2"}, Contexts <- {"c1", "c2"},
  MaxScopes <- 1, QueueLimit <- 1, MaxContexts <- 1, MaxFaults <- 3, faults <- mishaps

(* Conversations that share places: three tasks and one mishap, or two tasks  *)
(* that may meet two in three conversations.                                  *)
Side == INSTANCE CallerContexts WITH
  Tasks <- {"t1", "t2", "t3"}, Scopes <- {"s1", "s2"}, Contexts <- {"c1", "c2", "c3"},
  PerCaller <- 2, Global <- 2, QueuePerCaller <- 2, QueueLimit <- 1, MaxScopes <- 2, MaxContexts <- 2,
  MaxFaults <- 2, entry <- place, task <- work, held <- kept, faults <- accidents
SideThree == INSTANCE CallerContexts WITH
  Tasks <- {"t1", "t2", "t3"}, Scopes <- {"s1", "s2"}, Contexts <- {"c1", "c2"},
  PerCaller <- 2, Global <- 2, QueuePerCaller <- 2, QueueLimit <- 1, MaxScopes <- 2, MaxContexts <- 2,
  MaxFaults <- 1, entry <- place, task <- work, held <- kept, faults <- accidents
SideTwo == INSTANCE CallerContexts WITH
  Tasks <- {"t1", "t2"}, Scopes <- {"s1", "s2"}, Contexts <- {"c1", "c2", "c3"},
  PerCaller <- 2, Global <- 2, QueuePerCaller <- 2, QueueLimit <- 1, MaxScopes <- 2, MaxContexts <- 2,
  MaxFaults <- 2, entry <- place, task <- work, held <- kept, faults <- accidents

(* Five who come back again and again, for one slot, and for three of which a *)
(* caller may have two.  They are alike, and who has left and who never came  *)
(* are too: the first of these comes next.                                    *)
Slots == INSTANCE CallerScheduler WITH
  Waiters <- 1..5, Scopes <- {"s1", "s2"}, Contexts <- {"c1", "c2"},
  PerCaller <- 1, Global <- 1, QueuePerCaller <- 2, QueueLimit <- 3, sched <- slots, waiter <- queued
SlotsWide == INSTANCE CallerScheduler WITH
  Waiters <- 1..5, Scopes <- {"s1", "s2"}, Contexts <- {"c1", "c2", "c3"},
  PerCaller <- 2, Global <- 3, QueuePerCaller <- 2, QueueLimit <- 3, sched <- slots, waiter <- queued

FirstComesNext ==
  \A w \in 1..5 : queued[w].stage = "idle" /\ queued'[w].stage # "idle" =>
    \A v \in 1..(w - 1) : queued[v].stage # "idle"

(* So are three tasks, of which each comes once.                              *)
ComeInOrder(before, after) ==
  /\ after["t2"].stage # "new" => before["t1"].stage # "new"
  /\ after["t3"].stage # "new" => before["t2"].stage # "new"

ASSUME RuntimeConstantsOK ==
  /\ Serial!ConstantsOK /\ Side!ConstantsOK /\ Slots!LimitsOK /\ SlotsWide!LimitsOK

-----------------------------------------------------------------------------
RuntimeInit ==
  /\ about \in {"allocation", "store", "store of two", "serial three", "serial two", "side three",
                "side two", "slots", "slots wide"}
  /\ Init /\ StoreInit /\ Serial!Init /\ Side!Init /\ Slots!SchedulerInit
  /\ about # "allocation" => fixed
  /\ about \notin {"store", "store of two"} => manifest.version = 0

StoreStep == (about = "store" /\ StoreNext) \/ (about = "store of two" /\ StoreOfTwo!StoreNext)
SerialStep ==
  \/ about = "serial three" /\ SerialThree!Next /\ ComeInOrder(task, task')
  \/ about = "serial two" /\ SerialTwo!Next
SideStep ==
  \/ about = "side three" /\ SideThree!Next /\ ComeInOrder(work, work')
  \/ about = "side two" /\ SideTwo!Next
SlotStep ==
  ((about = "slots" /\ Slots!Next) \/ (about = "slots wide" /\ SlotsWide!Next)) /\ FirstComesNext

RuntimeNext ==
  /\ UNCHANGED about
  /\ \/ about = "allocation" /\ Next /\ UNCHANGED <<storeVars, scopeVars, contextVars, slotVars>>
     \/ StoreStep /\ UNCHANGED <<vars, scopeVars, contextVars, slotVars>>
     \/ SerialStep /\ UNCHANGED <<vars, storeVars, contextVars, slotVars>>
     \/ SideStep /\ UNCHANGED <<vars, storeVars, scopeVars, slotVars>>
     \/ SlotStep /\ UNCHANGED <<vars, storeVars, scopeVars, contextVars>>

runtimeVars == <<about, vars, storeVars, scopeVars, contextVars, slotVars>>
RuntimeSpec == RuntimeInit /\ [][RuntimeNext]_runtimeVars

-----------------------------------------------------------------------------
(* One execution per scope, or containers within their limits, all accounted  *)
(* for; and a caller whose conversation another worker held is told that it   *)
(* begins anew, whatever ended that worker.  Who is told of an end hears of   *)
(* it when nothing of it runs any more, or the scope or the conversation is   *)
(* closed to everyone: tasks are alike, so two stand for the third.           *)
ExecutionsAreOwn ==
  /\ [](about = "serial three" =>
          SerialThree!OneExecution /\ SerialThree!RetainedAreCounted /\ SerialThree!ResetIsTold)
  /\ [](about = "serial two" =>
          SerialTwo!OneExecution /\ SerialTwo!RetainedAreCounted /\ SerialTwo!ResetIsTold)
  /\ [](about = "side three" =>
          /\ SideThree!ContainersBounded /\ SideThree!NothingLeaks
          /\ SideThree!RetainedAreCounted /\ SideThree!ResetIsTold)
  /\ [](about = "side two" =>
          /\ SideTwo!ContainersBounded /\ SideTwo!NothingLeaks
          /\ SideTwo!RetainedAreCounted /\ SideTwo!ResetIsTold)
  /\ SerialTwo!FailedIsStopped /\ SideTwo!EndedIsStopped

(* Slots stay within the limits and a conversation has one; nobody waits who  *)
(* could run, behind another caller or behind a busy conversation of its own; *)
(* between two admissions of one caller each that could run had its turn; and *)
(* a conversation's executions begin in the order in which they were asked.   *)
TurnsAreFair ==
  /\ [](about = "slots" => Slots!SlotsBounded /\ Slots!NothingAdmissibleWaits /\ Slots!RoundRobin)
  /\ [](about = "slots wide" =>
          SlotsWide!SlotsBounded /\ SlotsWide!NothingAdmissibleWaits /\ SlotsWide!RoundRobin)
  /\ Slots!InOrder
=============================================================================
