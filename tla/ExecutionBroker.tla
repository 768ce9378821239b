---------------------------- MODULE ExecutionBroker ----------------------------
(***************************************************************************)
(* One agent process in a caller's container and what the host keeps for   *)
(* it: the broker that turns its grant into provider requests, the docker  *)
(* exec it is reached through, and, inside the container, the relay that   *)
(* runs the agent and the supervisor that removes whatever is left.        *)
(*                                                                         *)
(* Code: packages/client/src/execution-broker-spawn.ts,                    *)
(* execution-auth-broker.ts, claude-auth-broker.ts, codex-auth-broker.ts,  *)
(* execution-broker-relay.ts and execution-broker-supervisor.ts.  Docker,  *)
(* the provider and the agent's processes are external: processes may fork *)
(* and detach, and may kill the relay, which has their user id.            *)
(***************************************************************************)
EXTENDS Naturals, Sequences, FiniteSets

CONSTANTS
  Execs,         \* spawns through one adapter
  Slots,         \* requests an agent may have open at once
  Boxes,         \* containers the adapter is bound to, one after the other
  MaxConcurrent, \* maxConcurrent of a broker
  MaxRequests,   \* maxRequests of a broker
  MaxForks,      \* bound: processes an execution forks
  Doubts,        \* docker and the supervisor may fail
  Staged,        \* the spawn stages prompt files
  Nobody

ASSUME ConstantsOK ==
  /\ {MaxConcurrent, MaxRequests, MaxForks} \subseteq Nat /\ {Doubts, Staged} \subseteq BOOLEAN
  /\ Nobody \notin Boxes /\ IsFiniteSet(Slots)

VARIABLES
  adapter,  \* the container a spawn would use, and stopped
  box,      \* external: which containers were stopped by docker stop
  host,     \* the host's side of a spawn
  grant,    \* its broker
  request,  \* requests at that broker
  sup,      \* the supervisor
  relay,    \* the relay, the prompt files it wrote and the frames it sent
  agent     \* external: the agent, and processes seen and not seen by a scan

vars == <<adapter, box, host, grant, request, sup, relay, agent>>

NoHost == [pc |-> "idle", box |-> Nobody, stdin |-> FALSE, terminating |-> FALSE, code |-> "none", doubt |-> FALSE]
NoGrant == [revoked |-> FALSE, admitted |-> 0, forwarded |-> 0]
NoRequest == [st |-> "idle", aborted |-> FALSE]
NoRelay == [st |-> "none", prompts |-> FALSE, out |-> <<>>]
NoAgent == [st |-> "none", code |-> "none", seen |-> 0, fresh |-> 0, forks |-> 0]

Active(e) == {r \in Slots : request[e][r].st \in {"body", "prepare", "upstream"}}
Open(e) == host[e].pc \in {"starting", "ready", "doubt"}
Left(e) == agent[e].seen + agent[e].fresh

(* The slots in use are those the broker counts, a spawn that ended holds no  *)
(* good grant, and processes are in a container that runs.                    *)
TypeOK ==
  /\ adapter \in [bound : Boxes, stopped : BOOLEAN] /\ box \in [Boxes -> BOOLEAN]
  /\ \A e \in Execs :
       /\ host[e].pc \in {"idle", "starting", "ready", "doubt", "failed", "closed"}
       /\ Cardinality(Active(e)) <= MaxConcurrent /\ grant[e].forwarded <= grant[e].admitted
       /\ grant[e].admitted <= MaxRequests
       /\ sup[e] \in {"none", "up", "closing", "exited", "dead"}
       /\ relay[e].st \in {"none", "up", "gone"} /\ relay[e].out \in Seq({"ready", "error", "exit0", "exit1"})
       /\ Left(e) > 0 => host[e].box # Nobody /\ ~box[host[e].box]
       /\ relay[e].prompts => Staged
       /\ host[e].stdin => Open(e)
       /\ host[e].pc \in {"failed", "closed"} \/ host[e].terminating => grant[e].revoked

Init ==
  /\ \E b \in Boxes : adapter = [bound |-> b, stopped |-> FALSE]
  /\ box = [b \in Boxes |-> FALSE]
  /\ host = [e \in Execs |-> NoHost] /\ grant = [e \in Execs |-> NoGrant]
  /\ request = [e \in Execs |-> [r \in Slots |-> NoRequest]]
  /\ sup = [e \in Execs |-> "none"] /\ relay = [e \in Execs |-> NoRelay]
  /\ agent = [e \in Execs |-> NoAgent]

-----------------------------------------------------------------------------
(* The broker.                                                                *)

(* A request that is aborted ends at once, unless its credential is being     *)
(* read: then it ends when it notices.                                        *)
Abort(q) == IF q.st = "prepare" THEN [q EXCEPT !.aborted = TRUE] ELSE NoRequest

Aborted(S) ==
  request' = [e \in Execs |-> IF e \in S THEN [r \in Slots |-> Abort(request[e][r])] ELSE request[e]]

(* revoke() of the brokers of S.                                              *)
RevokesAll(S) ==
  /\ grant' = [e \in Execs |-> IF e \in S THEN [grant[e] EXCEPT !.revoked = TRUE] ELSE grant[e]]
  /\ Aborted(S)
(* stop() also closes the input of the supervisor.                            *)
Stopped(e) == [host[e] EXCEPT !.stdin = FALSE]

Request(e, r, st) == request' = [request EXCEPT ![e][r] = st]

(* A request of the agent that is let in.                                     *)
Admit(e, r) ==
  /\ Left(e) > 0 /\ relay[e].st = "up" /\ host[e].stdin /\ request[e][r].st = "idle"
  /\ ~grant[e].revoked
  /\ Cardinality(Active(e)) < MaxConcurrent /\ grant[e].admitted < MaxRequests
  /\ Request(e, r, [NoRequest EXCEPT !.st = "body"])
  /\ grant' = [grant EXCEPT ![e].admitted = @ + 1]
  /\ UNCHANGED <<adapter, box, host, sup, relay, agent>>

(* Its body is complete; the host's credential is read anew.                  *)
Prepare(e, r) ==
  /\ request[e][r].st = "body" /\ Request(e, r, [NoRequest EXCEPT !.st = "prepare"])
  /\ UNCHANGED <<adapter, box, host, grant, sup, relay, agent>>

(* With a bug: nobody asks again once the credential is read.                 *)
AlwaysGoes(e, r) == TRUE
MayGo(e, r) == ~request[e][r].aborted /\ ~grant[e].revoked

Forward(e, r) ==
  /\ request[e][r].st = "prepare"
  /\ IF MayGo(e, r)
     THEN /\ Request(e, r, [NoRequest EXCEPT !.st = "upstream"])
          /\ grant' = [grant EXCEPT ![e].forwarded = @ + 1]
     ELSE Request(e, r, NoRequest) /\ UNCHANGED grant
  /\ UNCHANGED <<adapter, box, host, sup, relay, agent>>

(* Its model or its credential is refused.                                    *)
Refuse(e, r) ==
  /\ request[e][r].st \in {"body", "prepare"} /\ Request(e, r, NoRequest)
  /\ UNCHANGED <<adapter, box, host, grant, sup, relay, agent>>

(* The answer is complete or is an error.                                     *)
Answer(e, r) ==
  /\ request[e][r].st = "upstream" /\ Request(e, r, NoRequest)
  /\ UNCHANGED <<adapter, box, host, grant, sup, relay, agent>>

(* The agent hangs up, or the request outlasts its time.                      *)
GiveUp(e, r) ==
  /\ request[e][r].st \in {"body", "prepare", "upstream"} /\ Request(e, r, Abort(request[e][r]))
  /\ UNCHANGED <<adapter, box, host, grant, sup, relay, agent>>

(* The grant ends by itself.                                                  *)
Expire(e) ==
  /\ Open(e) /\ ~grant[e].revoked /\ RevokesAll({e})
  /\ UNCHANGED <<adapter, box, host, sup, relay, agent>>

-----------------------------------------------------------------------------
(* The host: createExecutionBrokerSpawn.                                      *)

Spawn(e) ==
  /\ host[e].pc = "idle" /\ ~adapter.stopped
  /\ host' = [host EXCEPT ![e] = [@ EXCEPT !.pc = "starting", !.box = adapter.bound, !.stdin = TRUE]]
  /\ sup' = [sup EXCEPT ![e] = "up"] /\ relay' = [relay EXCEPT ![e].st = "up"]
  /\ UNCHANGED <<adapter, box, grant, request, agent>>

(* docker cannot be run at all.                                               *)
SpawnFails(e) ==
  /\ host[e].pc = "idle" /\ ~adapter.stopped
  /\ host' = [host EXCEPT ![e].pc = "failed"] /\ RevokesAll({e})
  /\ UNCHANGED <<adapter, box, sup, relay, agent>>

(* External: the worker is bound to another container.                        *)
Rebind(b) ==
  /\ adapter.bound # b /\ ~box[b] /\ adapter' = [adapter EXCEPT !.bound = b]
  /\ UNCHANGED <<box, host, grant, request, sup, relay, agent>>

(* fail(): a cancel, a timeout of the start or of the whole, a bad frame.     *)
Failed(h) == IF h.terminating THEN h ELSE [h EXCEPT !.terminating = TRUE, !.code = "exit1", !.stdin = FALSE]

Fail(e) ==
  /\ host[e].pc \in {"starting", "ready"} /\ ~host[e].terminating
  /\ host' = [host EXCEPT ![e] = Failed(@)] /\ RevokesAll({e})
  /\ UNCHANGED <<adapter, box, sup, relay, agent>>

(* The first code stands; the execution does not end on it.                   *)
KeepsCode(h, f) == IF h.code = "none" THEN [h EXCEPT !.code = f] ELSE h

Read(e) ==
  /\ Open(e) /\ relay[e].out # <<>>
  /\ relay' = [relay EXCEPT ![e].out = Tail(@)]
  /\ LET f == Head(relay[e].out) IN
       \/ /\ f = "ready" /\ host' = [host EXCEPT ![e].pc = IF @ = "starting" THEN "ready" ELSE @]
          /\ UNCHANGED <<grant, request>>
       \/ f = "error" /\ host' = [host EXCEPT ![e] = Failed(@)] /\ RevokesAll({e})
       \/ f \in {"exit0", "exit1"} /\ host' = [host EXCEPT ![e] = KeepsCode(@, f)] /\ UNCHANGED <<grant, request>>
  /\ UNCHANGED <<adapter, box, sup, agent>>

Closed(h, code) == [h EXCEPT !.pc = "closed", !.stdin = FALSE, !.code = code]

(* The supervisor's own exit ends the execution.                              *)
Finish(e) ==
  /\ host[e].pc \in {"starting", "ready"} /\ sup[e] = "exited" /\ relay[e].out = <<>>
  /\ host' = [host EXCEPT ![e] = Closed(@, IF @.code = "none" THEN "exit1" ELSE @.code)]
  /\ RevokesAll({e})
  /\ UNCHANGED <<adapter, box, sup, relay, agent>>

Running == {e \in Execs : Open(e)}

StopsAdapter == [adapter EXCEPT !.stopped = TRUE]

(* docker exec ends in any other way: the adapter stops, and so does every    *)
(* spawn that runs.                                                           *)
Doubt(e) ==
  /\ host[e].pc \in {"starting", "ready"}
  /\ sup[e] = "dead" \/ Doubts
  /\ adapter' = StopsAdapter
  /\ host' = [v \in Execs |->
       IF v = e THEN [Stopped(e) EXCEPT !.pc = "doubt", !.doubt = TRUE] ELSE IF Open(v) THEN Stopped(v) ELSE host[v]]
  /\ RevokesAll(Running)
  /\ relay' = [relay EXCEPT ![e].out = <<>>]
  /\ UNCHANGED <<box, sup, agent>>

(* With a bug: the container that is bound now is stopped.                    *)
BoundBox(e) == adapter.bound
OwnBox(e) == host[e].box

(* docker stop of the container the execution was started in: nothing there   *)
(* goes on.                                                                   *)
StopBox(e) ==
  /\ host[e].pc = "doubt"
  /\ box' = [box EXCEPT ![OwnBox(e)] = TRUE]
  /\ LET there == {v \in Execs : host[v].box = OwnBox(e)} IN
       /\ sup' = [v \in Execs |-> IF v \in there /\ sup[v] \in {"up", "closing"} THEN "dead" ELSE sup[v]]
       /\ relay' = [v \in Execs |-> IF v \in there THEN [relay[v] EXCEPT !.st = "gone"] ELSE relay[v]]
       /\ agent' = [v \in Execs |-> IF v \in there THEN [agent[v] EXCEPT !.st = "gone", !.seen = 0, !.fresh = 0] ELSE agent[v]]
  /\ host' = [host EXCEPT ![e] = Closed(@, "exit1")]
  /\ RevokesAll({e}) /\ UNCHANGED adapter

(* It fails: that is all the host can say.                                    *)
StopBoxFails(e) ==
  /\ Doubts /\ host[e].pc = "doubt"
  /\ host' = [host EXCEPT ![e] = Closed(@, "unconfirmed")] /\ RevokesAll({e})
  /\ UNCHANGED <<adapter, box, sup, relay, agent>>

(* close() of the adapter.                                                    *)
CloseAll ==
  /\ ~adapter.stopped /\ adapter' = StopsAdapter
  /\ host' = [e \in Execs |-> IF Open(e) THEN Stopped(e) ELSE host[e]] /\ RevokesAll(Running)
  /\ UNCHANGED <<box, sup, relay, agent>>

-----------------------------------------------------------------------------
(* In the container: the relay and the agent.                                 *)

(* The start frame: the prompt files are written, the agent is spawned.       *)
RelayStarts(e) ==
  /\ relay[e].st = "up" /\ agent[e].st = "none" /\ sup[e] = "up" /\ host[e].stdin
  /\ agent' = [agent EXCEPT ![e].st = "up", ![e].fresh = 1]
  /\ relay' = [relay EXCEPT ![e].prompts = Staged, ![e].out = Append(@, "ready")]
  /\ UNCHANGED <<adapter, box, host, grant, request, sup>>

(* The agent cannot be spawned.                                               *)
RelayFails(e) ==
  /\ relay[e].st = "up" /\ agent[e].st = "none" /\ sup[e] = "up" /\ host[e].stdin
  /\ agent' = [agent EXCEPT ![e].st = "gone"]
  /\ relay' = [relay EXCEPT ![e].st = "gone", ![e].out = Append(@, "error")]
  /\ UNCHANGED <<adapter, box, host, grant, request, sup>>

Fork(e) ==
  /\ Left(e) > 0 /\ agent[e].forks < MaxForks
  /\ agent' = [agent EXCEPT ![e].fresh = @ + 1, ![e].forks = @ + 1]
  /\ UNCHANGED <<adapter, box, host, grant, request, sup, relay>>

(* With a group of its own killed, n detached processes of the agent remain.  *)
GroupKilled(e, n, code) == [agent[e] EXCEPT !.st = "gone", !.code = code, !.seen = 0, !.fresh = n]

AgentExits(e, code, n) ==
  /\ relay[e].st = "up" /\ agent[e].st = "up" /\ n < Left(e)
  /\ agent' = [agent EXCEPT ![e] = GroupKilled(e, n, code)]
  /\ UNCHANGED <<adapter, box, host, grant, request, sup, relay>>

(* It tells how the agent ended, removes the files and ends.                  *)
RelayFinishes(e) ==
  /\ relay[e].st = "up" /\ agent[e].code # "none"
  /\ relay' = [relay EXCEPT ![e].st = "gone", ![e].prompts = FALSE, ![e].out = Append(@, agent[e].code)]
  /\ UNCHANGED <<adapter, box, host, grant, request, sup, agent>>

(* Its input ends, before the supervisor gets to kill it, or a queue is full. *)
RelayShutsDown(e) ==
  /\ relay[e].st = "up" /\ (sup[e] \in {"closing", "dead"} \/ Doubts)
  /\ relay' = [relay EXCEPT ![e].st = "gone", ![e].prompts = FALSE]
  /\ \E n \in 0 .. Left(e) : agent' = [agent EXCEPT ![e] = GroupKilled(e, n, agent[e].code)]
  /\ UNCHANGED <<adapter, box, host, grant, request, sup>>

(* External: the agent kills the relay.                                       *)
RelayKilled(e) ==
  /\ Doubts /\ relay[e].st = "up" /\ Left(e) > 0
  /\ relay' = [relay EXCEPT ![e].st = "gone"]
  /\ UNCHANGED <<adapter, box, host, grant, request, sup, agent>>

-----------------------------------------------------------------------------
(* In the container: the supervisor.                                          *)

(* Its input ended or the relay did; Doubts covers the end of its time.       *)
MustClose(e) == ~host[e].stdin \/ relay[e].st = "gone"

SupCloses(e) ==
  /\ sup[e] = "up" /\ (MustClose(e) \/ Doubts)
  /\ sup' = [sup EXCEPT ![e] = "closing"]
  /\ UNCHANGED <<adapter, box, host, grant, request, relay, agent>>

(* One scan: what it finds is stopped and killed, the relay included; some of *)
(* what was forked since the last scan may not be in it.                      *)
Kill(e) ==
  /\ sup[e] = "closing" /\ (Left(e) > 0 \/ relay[e].st = "up")
  /\ \E n \in 0 .. agent[e].fresh :
       agent' = [agent EXCEPT ![e].st = "gone", ![e].seen = n, ![e].fresh = 0]
  /\ relay' = [relay EXCEPT ![e].st = "gone"]
  /\ UNCHANGED <<adapter, box, host, grant, request, sup>>

NoRoots(e) == agent[e].fresh = 0

(* It exits when the scan is empty and nobody has a child left.               *)
SupExits(e) ==
  /\ sup[e] = "closing" /\ relay[e].st = "gone" /\ agent[e].seen = 0 /\ NoRoots(e)
  /\ sup' = [sup EXCEPT ![e] = "exited"]
  /\ UNCHANGED <<adapter, box, host, grant, request, relay, agent>>

(* External: it is killed or fails; nothing it watched is gone by that.       *)
SupDies(e) ==
  /\ Doubts /\ sup[e] \in {"up", "closing"} /\ sup' = [sup EXCEPT ![e] = "dead"]
  /\ UNCHANGED <<adapter, box, host, grant, request, relay, agent>>

-----------------------------------------------------------------------------
HostStep(e) == Read(e) \/ Finish(e) \/ (sup[e] = "dead" /\ Doubt(e)) \/ StopBox(e) \/ StopBoxFails(e)
SupStep(e) == (MustClose(e) /\ SupCloses(e)) \/ Kill(e) \/ SupExits(e)

Next ==
  \/ CloseAll \/ \E b \in Boxes : Rebind(b)
  \/ \E e \in Execs :
       \/ Spawn(e) \/ SpawnFails(e) \/ Fail(e) \/ Read(e) \/ Finish(e) \/ Doubt(e)
       \/ StopBox(e) \/ StopBoxFails(e) \/ Expire(e)
       \/ RelayStarts(e) \/ RelayFails(e) \/ Fork(e) \/ RelayFinishes(e) \/ RelayShutsDown(e) \/ RelayKilled(e)
       \/ \E c \in {"exit0", "exit1"}, n \in 0 .. MaxForks : AgentExits(e, c, n)
       \/ SupCloses(e) \/ Kill(e) \/ SupExits(e) \/ SupDies(e)
       \/ \E r \in Slots :
            Admit(e, r) \/ Prepare(e, r) \/ Forward(e, r) \/ Refuse(e, r) \/ Answer(e, r) \/ GiveUp(e, r)

Spec == Init /\ [][Next]_vars

(* The host reads and the supervisor works; docker answers a stop.            *)
FairSpec == Spec /\ \A e \in Execs : WF_vars(HostStep(e)) /\ WF_vars(SupStep(e))

-----------------------------------------------------------------------------
(* An execution that is reported closed has left no process in a container,   *)
(* unless docker refused to stop it: then the host says so and takes no more. *)
ClosedIsGone ==
  \A e \in Execs : host[e].pc = "closed" /\ Left(e) > 0 => host[e].code = "unconfirmed" /\ adapter.stopped

(* No provider request runs for an execution that was canceled or has ended.  *)
NoUseAfterEnd ==
  \A e \in Execs, r \in Slots :
    request[e][r].st = "upstream" => Open(e) /\ ~host[e].terminating /\ ~adapter.stopped

(* A code of success is the agent's own: it exited so before anybody          *)
(* canceled the execution.                                                    *)
SuccessIsOwn ==
  \A e \in Execs :
    host[e].pc = "closed" /\ host[e].code = "exit0" => agent[e].code = "exit0" /\ ~host[e].terminating

(* docker stop hits only the container of an execution whose end is in doubt, *)
(* wherever the worker is bound by then.                                      *)
StopsOnlyDoubted ==
  \A b \in Boxes : box[b] => \E e \in Execs : host[e].box = b /\ host[e].doubt

(* An execution that is reported closed has left no process behind in any     *)
(* container, unless that is what the report says, and docker stop hits a     *)
(* container only for a doubt of its own.                                     *)
DoubtIsContained == ClosedIsGone /\ StopsOnlyDoubted

(* Once a cleanup is in doubt no execution starts.                            *)
NoStartInDoubt ==
  [][\A e, v \in Execs : host[v].doubt /\ host[e].pc = "idle" => host'[e].pc = "idle"]_vars
=============================================================================
