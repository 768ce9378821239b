------------------------------ MODULE MCLiveness ------------------------------
(* What is owed in the end, by the backends of a daemon, by the executions of *)
(* its caller-scoped runtime, and by the commands that stop an execution or   *)
(* the daemon: on less of each than where safety is checked, so that the      *)
(* graph stays small.  A behaviour is about one of them, and has the fairness *)
(* which the module of that one states.                                       *)
EXTENDS MCBackends

VARIABLES
  entry, lease, work, stored, running, halted, memory, kept, mishaps,        \* CallerScopes
  spot, sched, waiter, job, queued, prepared, quarantined, reserved, contexts, boxes, known,
  accidents,                                                                 \* CallerContexts
  adapter, box, host, grant, request, sup, relay, agent,                     \* ExecutionBroker
  live, file, starter, daemon, stopper, signalled, may                            \* DaemonControl

scopeVars == <<entry, lease, work, stored, running, halted, memory, kept, mishaps>>
contextVars == <<spot, sched, waiter, job, queued, prepared, quarantined, reserved, contexts, boxes,
                 known, accidents>>
brokerVars == <<adapter, box, host, grant, request, sup, relay, agent>>
daemonVars == <<live, file, starter, daemon, stopper, signalled>>
backVars == <<execVars, claudeVars, chatVars, codexVars, openclawVars, vicoopVars, historyVars>>
restVars == <<scopeVars, contextVars, brokerVars, daemonVars, may>>

Alone == INSTANCE OpenclawBackend WITH
  Tasks <- {"t1"}, Keys <- {"k1"}, key <- [t \in {"t1"} |-> "k1"], MaxConns <- 2,
  MaxQueue <- 1, pc <- stage, signal <- aborts, asked <- requested, out <- passed, verdict <- outcome
OneServe == INSTANCE VicoopCodexBackend WITH
  Tasks <- {"t1", "t2"}, MaxServers <- 1,
  alive <- up, pc <- doing, signal <- ended, verdict <- answer

(* Tasks of two scopes that compete for one place, or for one slot.           *)
Scoped == INSTANCE CallerScopes WITH
  Tasks <- {"t1", "t2"}, Scopes <- {"s1", "s2"}, Contexts <- {"c1"}, MaxScopes <- 1, QueueLimit <- 1,
  MaxContexts <- 1, MaxFaults <- 2, None <- Nothing,
  task <- work, stopped <- halted, held <- kept, faults <- mishaps
Sided == INSTANCE CallerContexts WITH
  Tasks <- {"t1", "t2"}, Scopes <- {"s1", "s2"}, Contexts <- {"c1"}, PerCaller <- 1, Global <- 1,
  QueuePerCaller <- 1, QueueLimit <- 1, MaxScopes <- 2, MaxContexts <- 1, MaxFaults <- 2,
  None <- Nothing, entry <- spot, task <- job, turn <- queued, live <- boxes, held <- known,
  faults <- accidents

(* One execution and its request; one daemon and who stops it.                *)
Broker == INSTANCE ExecutionBroker WITH
  Execs <- {"e1"}, Slots <- {"r1"}, Boxes <- {"b1"}, MaxConcurrent <- 1, MaxRequests <- 1,
  MaxForks <- 1, Doubts <- TRUE, Staged <- FALSE, Nobody <- Nothing
Control == INSTANCE DaemonControl WITH
  Starters <- {"s1"}, Stoppers <- {"t1", "t2"}, Pids <- {"p1", "p2"}, Modes <- {TRUE},
  Strangers <- {"other"}, StartsAtOnce <- 1, StartIds <- TRUE,
  Nobody <- Nothing

ASSUME LivenessConstantsOK ==
  /\ Scoped!ConstantsOK /\ Sided!ConstantsOK /\ Control!ConstantsOK

-----------------------------------------------------------------------------
LiveInit ==
  /\ about \in {"execution", "asking", "retrying", "line", "openclaw", "vicoop", "scopes", "contexts",
                "broker", "control"}
  /\ AllInit /\ Scoped!Init /\ Sided!Init /\ Broker!Init
  /\ may = Control!Faults /\ Control!Init

BackendStep ==
  \/ about = "execution" /\ Codex!Next
     /\ UNCHANGED <<claudeVars, chatVars, codexVars, openclawVars, vicoopVars>>
  \/ Claudes /\ UNCHANGED <<execVars, chatVars, codexVars, openclawVars, vicoopVars>>
  \/ Codexes /\ UNCHANGED <<execVars, claudeVars, chatVars, openclawVars, vicoopVars>>
  \/ about = "openclaw" /\ Alone!Next
     /\ UNCHANGED <<execVars, claudeVars, chatVars, codexVars, vicoopVars>>
  \/ about = "vicoop" /\ OneServe!Next
     /\ UNCHANGED <<execVars, claudeVars, chatVars, codexVars, openclawVars>>

LiveNext ==
  /\ UNCHANGED <<about, may>>
  /\ \/ BackendStep /\ UNCHANGED <<historyVars, restVars>>
     \/ about = "scopes" /\ Scoped!Next /\ UNCHANGED <<backVars, contextVars, brokerVars, daemonVars>>
     \/ about = "contexts" /\ Sided!Next /\ UNCHANGED <<backVars, scopeVars, brokerVars, daemonVars>>
     \/ about = "broker" /\ Broker!Next /\ UNCHANGED <<backVars, scopeVars, contextVars, daemonVars>>
     \/ about = "control" /\ Control!Next /\ UNCHANGED <<backVars, scopeVars, contextVars, brokerVars>>

ExecutionFairness == \A t \in Tasks :
  /\ WF_execVars(about = "execution" /\ Codex!CancelQueued(t))
  /\ WF_execVars(about = "execution" /\ Codex!Lapse(t))
  /\ WF_execVars(about = "execution" /\ Codex!Close(t))
  /\ WF_execVars(about = "execution" /\ Codex!Proceed(t))
  /\ WF_execVars(about = "execution" /\ proc[t] = "killed" /\ Codex!Dies(t))
  /\ WF_execVars(about = "execution" /\ (proc[t] = "dead" \/ t \in signal) /\ Codex!Returns(t))

Claudish == about \in {"asking", "retrying"}
ClaudeFairness ==
  /\ WF_claudeVars(about = "asking" /\ Asking!Begin)
  /\ WF_claudeVars(about = "asking" /\ Asking!Mapped)
  /\ WF_claudeVars(about = "asking" /\ Asking!Launch)
  /\ WF_claudeVars(about = "asking" /\ Asking!Decide)
  /\ WF_claudeVars(about = "asking" /\ Asking!Closes)
  /\ WF_claudeVars(about = "asking" /\ Asking!Close)
  /\ WF_claudeVars(about = "retrying" /\ Retrying!Begin)
  /\ WF_claudeVars(about = "retrying" /\ Retrying!Mapped)
  /\ WF_claudeVars(about = "retrying" /\ Retrying!Launch)
  /\ WF_claudeVars(about = "retrying" /\ Retrying!Closes)
  /\ WF_claudeVars(about = "retrying" /\ Retrying!Close)

CodexFairness ==
  /\ WF_codexVars(about = "line" /\ (Threads!Initialised \/ Threads!InitFails))
  /\ \A t \in {"t1", "t2"} :
       /\ WF_codexVars(about = "line" /\ Threads!Bridge(t)) /\ WF_codexVars(about = "line" /\ Threads!Reply(t))

OpenclawFairness ==
  /\ WF_openclawVars(about = "openclaw" /\ (Alone!Opened \/ Alone!OpenFails))
  /\ WF_openclawVars(about = "openclaw" /\ Alone!Bridge("t1"))
  /\ WF_openclawVars(about = "openclaw" /\ Alone!Subscribed("t1"))
  /\ WF_openclawVars(about = "openclaw" /\ Alone!RunStarts("t1"))
  /\ WF_openclawVars(about = "openclaw" /\ Alone!Ack("t1"))
  /\ WF_openclawVars(about = "openclaw" /\ Alone!Read("t1"))
  /\ WF_openclawVars(about = "openclaw" /\ Alone!Pass("t1"))
  /\ WF_openclawVars(about = "openclaw" /\ Alone!Timeout("t1"))

VicoopFairness ==
  /\ WF_vicoopVars(about = "vicoop" /\ OneServe!StartFails(1))
  /\ \A t \in {"t1", "t2"} :
       /\ WF_vicoopVars(about = "vicoop" /\ OneServe!Waited(t))
       /\ WF_vicoopVars(about = "vicoop" /\ t \in failing /\ OneServe!Answer(t))
       /\ WF_vicoopVars(about = "vicoop" /\ (t \in ended \/ at[t] \notin up) /\ OneServe!RequestFails(t))

RuntimeFairness ==
  /\ \A t \in {"t1", "t2"} : WF_scopeVars(about = "scopes" /\ Scoped!Step(t))
  /\ \A s \in {"s1", "s2"} : WF_scopeVars(about = "scopes" /\ Scoped!IdleStep(s))
  /\ \A t \in {"t1", "t2"} : WF_contextVars(about = "contexts" /\ Sided!Step(t))

ProcessFairness ==
  /\ WF_brokerVars(about = "broker" /\ Broker!HostStep("e1"))
  /\ WF_brokerVars(about = "broker" /\ Broker!SupStep("e1"))
  /\ WF_daemonVars(about = "control" /\ Control!StarterStep("s1"))
  /\ WF_daemonVars(about = "control" /\ Control!CleanupStep("s1"))
  /\ \A t \in {"t1", "t2"} : WF_daemonVars(about = "control" /\ Control!StopperStep(t))

LiveSpec ==
  LiveInit /\ [][LiveNext]_<<about, backVars, restVars>>
    /\ ExecutionFairness /\ ClaudeFairness /\ CodexFairness /\ OpenclawFairness /\ VicoopFairness
    /\ RuntimeFairness /\ ProcessFairness

-----------------------------------------------------------------------------
(* What is owed to a task: the end of one that was cancelled, in a line of    *)
(* codex executions and at vicoop-codex, where a task may last for ever, and  *)
(* the end of every one that has begun elsewhere.  To who cancels an          *)
(* execution in a container its close, to who stops a daemon an answer.       *)
Owed(t) ==
  \/ about = "execution" /\ t \in signal
  \/ Claudish /\ t = "t1"
  \/ about = "line" /\ step[t] # "new"
  \/ about = "openclaw" /\ t = "t1" /\ stage[t] # "new"
  \/ about = "vicoop" /\ (doing[t] = "wait" \/ (t \in ended /\ doing[t] # "new"))
  \/ about = "scopes" /\ work[t].stage # "new"
  \/ about = "contexts" /\ job[t].stage # "new"
  \/ about = "broker" /\ t = "t1" /\ host["e1"].terminating
  \/ about = "control" /\ Control!Stopping(t)

Given(t) ==
  \/ about = "execution" /\ state[t] = "done"
  \/ Claudish /\ Claude!Ended
  \/ about = "line" /\ step[t] = "done"
  \/ about = "openclaw" /\ t = "t1" /\ stage[t] = "done"
  \/ about = "vicoop" /\ (doing[t] = "done" \/ (t \notin ended /\ doing[t] # "wait") \/ exited)
  \/ about = "scopes" /\ work[t].stage = "done"
  \/ about = "contexts" /\ job[t].stage = "done"
  \/ about = "broker" /\ t = "t1" /\ host["e1"].pc = "closed"
  \/ about = "control" /\ stopper[t].pc = "done"

(* What is owed is given in the end: behind a task that never ends, over a    *)
(* gateway or a server that falls silent, crashes or never comes up, with a   *)
(* question of its own unanswered, in whatever it waits for, and although the *)
(* agent in the container or the daemon's cleanup hangs.                      *)
EveryTaskEnds == \A t \in Tasks : Owed(t) ~> Given(t)
=============================================================================
