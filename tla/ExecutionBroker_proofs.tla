------------------------ MODULE ExecutionBroker_proofs ------------------------
(***************************************************************************)
(* The safety of an agent's process for any number of executions, of       *)
(* requests and of containers.  The inductive invariant says, for each     *)
(* execution, what its broker, its codes, its doubt and its container have *)
(* to do with each other; every step but the three that stop several       *)
(* executions at once concerns one execution only.  The processes around   *)
(* it follow: the lines of a codex backend, a task of claude with its      *)
(* child, tasks over a gateway or a shared server, and the conversations   *)
(* that tasks go on with.                                                  *)
(***************************************************************************)
EXTENDS ExecutionBroker, Backends, FiniteSetTheorems, TLAPS

Hosts == [pc : {"idle", "starting", "ready", "doubt", "failed", "closed"}, box : Boxes \cup {Nobody},
          stdin : BOOLEAN, terminating : BOOLEAN,
          code : {"none", "exit0", "exit1", "unconfirmed"}, doubt : BOOLEAN]
Grants == [revoked : BOOLEAN, admitted : Nat, forwarded : Nat]
Reqs == [st : {"idle", "body", "prepare", "upstream"}, aborted : BOOLEAN]
Sups == {"none", "up", "closing", "exited", "dead"}
Frames == {"ready", "error", "exit0", "exit1"}
Relays == [st : {"none", "up", "gone"}, prompts : BOOLEAN, out : Seq(Frames)]
Agents == [st : {"none", "up", "gone"}, code : {"none", "exit0", "exit1"},
           seen : Nat, fresh : Nat, forks : Nat]

Types ==
  /\ adapter \in [bound : Boxes, stopped : BOOLEAN] /\ box \in [Boxes -> BOOLEAN]
  /\ host \in [Execs -> Hosts] /\ grant \in [Execs -> Grants]
  /\ request \in [Execs -> [Slots -> Reqs]] /\ sup \in [Execs -> Sups]
  /\ relay \in [Execs -> Relays] /\ agent \in [Execs -> Agents]

(* Nothing has happened yet to an execution that was not begun.              *)
Unborn(e) == host[e].pc \in {"idle", "failed"}
Begun(e) ==
  /\ Unborn(e) => /\ host[e].box = Nobody /\ ~host[e].stdin /\ ~host[e].terminating
                  /\ host[e].code = "none" /\ ~host[e].doubt
                  /\ sup[e] = "none" /\ relay[e].st = "none" /\ relay[e].out = <<>>
                  /\ agent[e].st = "none" /\ Left(e) = 0
                  /\ \A r \in Slots : request[e][r].st = "idle"
  /\ ~Unborn(e) => host[e].box \in Boxes
  /\ host[e].stdin => Open(e)

(* A grant ends with its execution, and its requests with the grant: those   *)
(* that still read a credential find out.                                    *)
Granted(e) ==
  /\ \/ host[e].pc \in {"failed", "closed"}
     \/ host[e].terminating
     \/ adapter.stopped /\ Open(e)
     => grant[e].revoked
  /\ grant[e].revoked => \A r \in Slots : request[e][r].st \in {"idle", "prepare"}

(* Whatever was admitted is forwarded once at most.                          *)
Pending(e) == {r \in Slots : request[e][r].st \in {"body", "prepare"}}
Counted(e) ==
  /\ Cardinality(Active(e)) <= MaxConcurrent
  /\ grant[e].forwarded + Cardinality(Pending(e)) <= grant[e].admitted
  /\ grant[e].admitted <= MaxRequests

(* A code of success comes from the agent, by the relay; a canceled          *)
(* execution has another.                                                    *)
Sent(e, f) == \E i \in 1 .. Len(relay[e].out) : relay[e].out[i] = f
Coded(e) ==
  /\ agent[e].code # "none" => agent[e].st = "gone"
  /\ Sent(e, "exit0") \/ host[e].code = "exit0" => agent[e].code = "exit0"
  /\ host[e].terminating => host[e].code \in {"exit1", "unconfirmed"}

Doubted(e) ==
  /\ host[e].pc = "doubt" => host[e].doubt
  /\ host[e].doubt => adapter.stopped

(* Where the supervisor or docker has ended an execution nothing is left.    *)
Ended(e) ==
  /\ sup[e] = "exited" => relay[e].st = "gone" /\ Left(e) = 0
  /\ host[e].box # Nobody /\ box[host[e].box] =>
       relay[e].st = "gone" /\ Left(e) = 0
  /\ host[e].pc = "closed" /\ Left(e) > 0 => host[e].code = "unconfirmed" /\ adapter.stopped
  /\ relay[e].prompts => Staged

Good(e) == Begun(e) /\ Granted(e) /\ Counted(e) /\ Coded(e) /\ Doubted(e) /\ Ended(e)

IInv == Types /\ (\A e \in Execs : Good(e)) /\ StopsOnlyDoubted

-----------------------------------------------------------------------------
(* At the start no execution was begun and every container runs. *)
THEOREM InitInvariant == Init => IInv
<1> USE ConstantsOK
<1> SUFFICES ASSUME Init PROVE IInv
  OBVIOUS
<1>1. Types
  <2>1. NoHost \in Hosts /\ NoGrant \in Grants /\ NoRequest \in Reqs /\ NoAgent \in Agents /\ NoRelay \in Relays
    BY DEF NoHost, NoGrant, NoRequest, NoAgent, NoRelay, Hosts, Grants, Reqs, Agents, Relays
  <2> QED BY <2>1 DEF Init, Types, Sups
<1>2. ASSUME NEW e \in Execs PROVE Good(e)
  <2>1. /\ host[e] = NoHost /\ grant[e] = NoGrant /\ sup[e] = "none" /\ relay[e] = NoRelay
        /\ agent[e] = NoAgent /\ \A r \in Slots : request[e][r] = NoRequest
    BY <1>2 DEF Init
  <2>2. Active(e) = {} /\ Pending(e) = {}
    BY <2>1 DEF Active, Pending, NoRequest
  <2>3. Counted(e)
    BY <2>1, <2>2, FS_EmptySet DEF Counted, NoGrant
  <2>4. Left(e) = 0
    BY <2>1 DEF Left, NoAgent
  <2>5. ~Sent(e, "exit0")
    BY <2>1 DEF Sent, NoRelay
  <2>6. Begun(e) /\ Granted(e)
    BY <2>1, <2>4 DEF Begun, Granted, Unborn, Open, NoHost, NoGrant, NoRequest, NoRelay, NoAgent
  <2>7. Coded(e) /\ Doubted(e) /\ Ended(e)
    BY <2>1, <2>4, <2>5 DEF Coded, Doubted, Ended, NoHost, NoRelay, NoAgent
  <2> QED BY <2>3, <2>6, <2>7 DEF Good
<1>3. StopsOnlyDoubted
  BY DEF Init, StopsOnlyDoubted
<1> QED BY <1>1, <1>2, <1>3 DEF IInv

-----------------------------------------------------------------------------
(* An execution stays good in a step that leaves its parts alone.            *)
Untouched(v) ==
  /\ host'[v] = host[v] /\ grant'[v] = grant[v] /\ request'[v] = request[v]
  /\ sup'[v] = sup[v] /\ relay'[v] = relay[v] /\ agent'[v] = agent[v]

(* Whatever a step does to one execution, the untouched ones stay good.       *)
LEMMA OthersKeep ==
  ASSUME NEW v \in Execs, Good(v), Untouched(v), UNCHANGED box, adapter'.stopped = adapter.stopped
  PROVE  Good(v)'
<1>1. Left(v)' = Left(v) /\ (Open(v)' <=> Open(v)) /\ (Unborn(v)' <=> Unborn(v))
  BY DEF Untouched, Left, Open, Unborn
<1>2. Active(v)' = Active(v) /\ Pending(v)' = Pending(v)
  BY DEF Untouched, Active, Pending
<1>3. Begun(v)' /\ Granted(v)'
  BY <1>1 DEF Good, Untouched, Begun, Granted
<1>4. Counted(v)'
  BY <1>2 DEF Good, Untouched, Counted
<1>5. Coded(v)'
  BY DEF Good, Untouched, Coded, Sent
<1>6. Doubted(v)' /\ Ended(v)'
  BY <1>1 DEF Good, Untouched, Doubted, Ended
<1> QED BY <1>3, <1>4, <1>5, <1>6 DEF Good

(* A step of one execution: it is enough to look at that one.                *)
LEMMA OneKeeps ==
  ASSUME IInv, NEW e \in Execs, Types', Good(e)', \A v \in Execs \ {e} : Untouched(v),
         UNCHANGED box, adapter'.stopped = adapter.stopped,
         host[e].doubt => host'[e].doubt, host[e].box \in Boxes => host'[e].box = host[e].box
  PROVE  IInv'
<1>1. ASSUME NEW v \in Execs PROVE Good(v)'
  BY OthersKeep DEF IInv
<1>2. StopsOnlyDoubted'
  <2> SUFFICES ASSUME NEW b \in Boxes, box[b]
               PROVE  \E v \in Execs : host'[v].box = b /\ host'[v].doubt
    BY DEF StopsOnlyDoubted
  <2>1. PICK v \in Execs : host[v].box = b /\ host[v].doubt
    BY DEF IInv, StopsOnlyDoubted
  <2>2. host'[v].box = b /\ host'[v].doubt
    BY <2>1 DEF Untouched
  <2> QED BY <2>2
<1> QED BY <1>1, <1>2 DEF IInv

(* The requests that remain are those that were there: no more than before.  *)
LEMMA FewerKeep ==
  ASSUME NEW v \in Execs, Types, Types', Counted(v),
         grant'[v].admitted = grant[v].admitted, grant'[v].forwarded = grant[v].forwarded,
         \A r \in Slots : request'[v][r].st \in {"idle", request[v][r].st}
  PROVE  Counted(v)'
<1> USE ConstantsOK
<1>1. /\ Active(v) \in SUBSET Slots /\ Pending(v) \in SUBSET Slots
      /\ Active(v)' \in SUBSET Active(v) /\ Pending(v)' \in SUBSET Pending(v)
  BY DEF Active, Pending
<1>2. IsFiniteSet(Active(v)) /\ IsFiniteSet(Pending(v))
  BY <1>1, FS_Subset
<1>3. IsFiniteSet(Active(v)') /\ IsFiniteSet(Pending(v)')
  BY <1>1, <1>2, FS_Subset
<1>4. Cardinality(Active(v)') <= Cardinality(Active(v)) /\ Cardinality(Pending(v)') <= Cardinality(Pending(v))
  BY <1>1, <1>2, FS_Subset
<1>5. /\ Cardinality(Active(v)) \in Nat /\ Cardinality(Pending(v)) \in Nat
      /\ Cardinality(Active(v)') \in Nat /\ Cardinality(Pending(v)') \in Nat
  BY <1>2, <1>3, FS_CardinalityType
<1>6. grant[v].admitted \in Nat /\ grant[v].forwarded \in Nat
  BY DEF Types, Grants
<1> QED BY <1>4, <1>5, <1>6 DEF Counted

(* An aborted request is over, or is one that reads a credential.            *)
LEMMA AbortEnds ==
  ASSUME NEW q \in Reqs
  PROVE  Abort(q) \in Reqs /\ Abort(q).st \in {"idle", "prepare"} /\ Abort(q).st \in {"idle", q.st}
BY DEF Abort, Reqs, NoRequest

(* revoke() leaves the counts and the requests of other brokers alone.       *)
LEMMA RevokeKeeps ==
  ASSUME Types, NEW S \in SUBSET Execs, RevokesAll(S)
  PROVE  /\ grant' \in [Execs -> Grants] /\ request' \in [Execs -> [Slots -> Reqs]]
         /\ \A v \in Execs \ S : grant'[v] = grant[v] /\ request'[v] = request[v]
         /\ \A v \in Execs : /\ grant'[v].admitted = grant[v].admitted
                             /\ grant'[v].forwarded = grant[v].forwarded
                             /\ \A r \in Slots : request'[v][r].st \in {"idle", request[v][r].st}
         /\ \A v \in S : /\ grant'[v].revoked
                         /\ \A r \in Slots : request'[v][r].st \in {"idle", "prepare"}
<1>1. ASSUME NEW v \in Execs
      PROVE  /\ grant'[v] \in Grants /\ request'[v] \in [Slots -> Reqs]
             /\ v \notin S => grant'[v] = grant[v] /\ request'[v] = request[v]
             /\ grant'[v].admitted = grant[v].admitted /\ grant'[v].forwarded = grant[v].forwarded
             /\ \A r \in Slots : request'[v][r].st \in {"idle", request[v][r].st}
             /\ v \in S => grant'[v].revoked /\ \A r \in Slots : request'[v][r].st \in {"idle", "prepare"}
  <2>1. grant[v] \in Grants /\ request[v] \in [Slots -> Reqs]
    BY DEF Types
  <2>2. CASE v \in S
    <3>1. grant'[v] = [grant[v] EXCEPT !.revoked = TRUE]
      BY <2>2 DEF RevokesAll
    <3>2. request'[v] = [r \in Slots |-> Abort(request[v][r])]
      BY <2>2 DEF RevokesAll, Aborted
    <3>3. \A r \in Slots : request[v][r] \in Reqs /\ request'[v][r] = Abort(request[v][r])
      BY <2>1, <3>2
    <3>4. grant'[v] \in Grants /\ grant'[v].revoked
          /\ grant'[v].admitted = grant[v].admitted /\ grant'[v].forwarded = grant[v].forwarded
      BY <2>1, <3>1 DEF Grants
    <3> QED BY <2>2, <3>2, <3>3, <3>4, AbortEnds
  <2>3. CASE v \notin S
    BY <2>1, <2>3 DEF RevokesAll, Aborted
  <2> QED BY <2>2, <2>3
<1>2. grant' = [v \in Execs |-> grant'[v]] /\ request' = [v \in Execs |-> request'[v]]
  BY DEF RevokesAll, Aborted
<1> QED BY <1>1, <1>2

-----------------------------------------------------------------------------
(* A step of the broker of e alone.                                          *)
LEMMA BrokerKeeps ==
  ASSUME IInv, NEW e \in Execs, UNCHANGED <<adapter, box, host, sup, relay, agent>>,
         grant' \in [Execs -> Grants], request' \in [Execs -> [Slots -> Reqs]],
         \A v \in Execs \ {e} : grant'[v] = grant[v] /\ request'[v] = request[v],
         ~Unborn(e), Granted(e)', Counted(e)'
  PROVE  IInv'
<1>1. Types' /\ Good(e)
  BY DEF IInv, Types
<1>2. Left(e)' = Left(e) /\ (Open(e)' <=> Open(e)) /\ ~Unborn(e)'
  BY DEF Left, Open, Unborn
<1>3. Begun(e)' /\ Coded(e)' /\ Doubted(e)' /\ Ended(e)'
  BY <1>1, <1>2 DEF Good, Begun, Coded, Sent, Doubted, Ended
<1>4. \A v \in Execs \ {e} : Untouched(v)
  BY DEF Untouched
<1> QED BY <1>1, <1>3, <1>4, OneKeeps DEF Good

(* One slot of it is written.                                                *)
LEMMA OneRequest ==
  ASSUME Types, NEW e \in Execs, NEW r \in Slots, NEW q \in Reqs, Request(e, r, q)
  PROVE  /\ request' \in [Execs -> [Slots -> Reqs]]
         /\ \A v \in Execs \ {e} : request'[v] = request[v]
         /\ request'[e][r] = q /\ \A s \in Slots \ {r} : request'[e][s] = request[e][s]
BY DEF Types, Request

(* A request that ends, or waits on, keeps the counts.                       *)
LEMMA RequestEnds ==
  ASSUME IInv, NEW e \in Execs, NEW r \in Slots, NEW q \in Reqs, Request(e, r, q),
         request[e][r].st # "idle", q.st \in {"idle", request[e][r].st},
         UNCHANGED <<adapter, box, host, grant, sup, relay, agent>>
  PROVE  IInv'
<1>1. Types /\ Good(e)
  BY DEF IInv
<1>2. Types'
  BY <1>1, OneRequest DEF Types
<1>3. \A s \in Slots : request'[e][s].st \in {"idle", request[e][s].st}
  BY <1>1, OneRequest
<1>4. ~Unborn(e)
  BY <1>1 DEF Good, Begun
<1>5. Counted(e)'
  BY <1>1, <1>2, <1>3, FewerKeep DEF Good
<1>6. Granted(e)'
  BY <1>1, <1>3 DEF Good, Granted, Open
<1>7. grant' \in [Execs -> Grants] /\ request' \in [Execs -> [Slots -> Reqs]]
  BY <1>2 DEF Types
<1> QED BY <1>1, <1>4, <1>5, <1>6, <1>7, OneRequest, BrokerKeeps

(* The request whose body is complete is counted as before.                  *)
LEMMA PrepareKeeps ==
  ASSUME IInv, NEW e \in Execs, NEW r \in Slots, Prepare(e, r)
  PROVE  IInv'
<1>1. Types /\ Good(e)
  BY DEF IInv
<1> DEFINE q == [NoRequest EXCEPT !.st = "prepare"]
<1>2. q \in Reqs /\ q.st = "prepare" /\ Request(e, r, q) /\ request[e][r].st = "body"
  BY DEF Prepare, NoRequest, Reqs
<1> HIDE DEF q
<1>3. Active(e)' = Active(e) /\ Pending(e)' = Pending(e)
  BY <1>1, <1>2, OneRequest DEF Active, Pending
<1>4. Counted(e)'
  BY <1>1, <1>3 DEF Good, Counted, Prepare
<1>5. Granted(e)'
  BY <1>1, <1>2, OneRequest DEF Good, Granted, Open, Prepare
<1>6. ~Unborn(e)
  BY <1>1, <1>2 DEF Good, Begun
<1>7. grant' \in [Execs -> Grants] /\ request' \in [Execs -> [Slots -> Reqs]]
  BY <1>1, <1>2, OneRequest DEF Types, Prepare
<1> QED BY <1>1, <1>2, <1>4, <1>5, <1>6, <1>7, OneRequest, BrokerKeeps DEF Prepare

(* The broker's limits are asked before it is let in.                        *)
LEMMA AdmitKeeps ==
  ASSUME IInv, NEW e \in Execs, NEW r \in Slots, Admit(e, r)
  PROVE  IInv'
<1> USE ConstantsOK
<1>1. Types /\ Good(e)
  BY DEF IInv
<1> DEFINE q == [NoRequest EXCEPT !.st = "body"]
<1>2. /\ q \in Reqs /\ q.st = "body" /\ Request(e, r, q) /\ request[e][r].st = "idle"
      /\ host[e].stdin /\ ~grant[e].revoked
      /\ Cardinality(Active(e)) < MaxConcurrent /\ grant[e].admitted < MaxRequests
  BY DEF Admit, NoRequest, Reqs
<1> HIDE DEF q
<1>3. grant[e] \in Grants /\ grant' = [grant EXCEPT ![e].admitted = @ + 1]
  BY <1>1 DEF Types, Admit
<1>4. /\ grant' \in [Execs -> Grants] /\ grant'[e].admitted = grant[e].admitted + 1
      /\ grant'[e].forwarded = grant[e].forwarded /\ grant'[e].revoked = grant[e].revoked
      /\ \A v \in Execs \ {e} : grant'[v] = grant[v]
  <2>1. grant[e].admitted + 1 \in Nat
    BY <1>3 DEF Grants
  <2> QED BY <1>1, <1>3, <2>1 DEF Types, Grants
<1>5. Active(e)' = Active(e) \cup {r} /\ Pending(e)' = Pending(e) \cup {r}
      /\ r \notin Active(e) /\ r \notin Pending(e)
  BY <1>1, <1>2, OneRequest DEF Active, Pending
<1>6. IsFiniteSet(Active(e)) /\ IsFiniteSet(Pending(e))
  <2>1. Active(e) \in SUBSET Slots /\ Pending(e) \in SUBSET Slots
    BY DEF Active, Pending
  <2> QED BY <2>1, FS_Subset
<1>7. /\ Cardinality(Active(e)') = Cardinality(Active(e)) + 1
      /\ Cardinality(Pending(e)') = Cardinality(Pending(e)) + 1
      /\ Cardinality(Active(e)) \in Nat /\ Cardinality(Pending(e)) \in Nat
  BY <1>5, <1>6, FS_AddElement, FS_CardinalityType
<1>8. Counted(e)'
  <2>1. grant[e].admitted \in Nat /\ grant[e].forwarded \in Nat /\ MaxRequests \in Nat /\ MaxConcurrent \in Nat
    BY <1>3 DEF Grants
  <2>2. Counted(e)
    BY <1>1 DEF Good
  <2> QED BY <1>2, <1>4, <1>7, <2>1, <2>2 DEF Counted
<1>9. Granted(e)'
  BY <1>1, <1>2, <1>4 DEF Good, Granted, Open, Admit
<1>10. ~Unborn(e)
  BY <1>1, <1>2 DEF Good, Begun
<1>11. UNCHANGED <<adapter, box, host, sup, relay, agent>>
  BY DEF Admit
<1> QED BY <1>1, <1>2, <1>4, <1>8, <1>9, <1>10, <1>11, OneRequest, BrokerKeeps

(* What is forwarded was pending; an aborted or revoked request ends.        *)
LEMMA ForwardKeeps ==
  ASSUME IInv, NEW e \in Execs, NEW r \in Slots, Forward(e, r)
  PROVE  IInv'
<1> USE ConstantsOK
<1>1. Types /\ Good(e) /\ request[e][r].st = "prepare" /\ UNCHANGED <<adapter, box, host, sup, relay, agent>>
  BY DEF IInv, Forward
<1>2. CASE ~MayGo(e, r)
  <2>1. NoRequest \in Reqs /\ NoRequest.st = "idle"
    BY DEF NoRequest, Reqs
  <2> QED BY <1>1, <1>2, <2>1, RequestEnds DEF Forward
<1>3. CASE MayGo(e, r)
  <2> DEFINE q == [NoRequest EXCEPT !.st = "upstream"]
  <2>1. q \in Reqs /\ q.st = "upstream" /\ Request(e, r, q) /\ ~grant[e].revoked
    BY <1>3 DEF Forward, MayGo, NoRequest, Reqs
  <2> HIDE DEF q
  <2>2. grant[e] \in Grants /\ grant' = [grant EXCEPT ![e].forwarded = @ + 1]
    BY <1>1, <1>3 DEF Types, Forward
  <2>3. /\ grant' \in [Execs -> Grants] /\ grant'[e].forwarded = grant[e].forwarded + 1
        /\ grant'[e].admitted = grant[e].admitted /\ grant'[e].revoked = grant[e].revoked
        /\ \A v \in Execs \ {e} : grant'[v] = grant[v]
    <3>1. grant[e].forwarded + 1 \in Nat
      BY <2>2 DEF Grants
    <3> QED BY <1>1, <2>2, <3>1 DEF Types, Grants
  <2>4. Active(e)' = Active(e) /\ Pending(e)' = Pending(e) \ {r} /\ r \in Pending(e)
    BY <1>1, <2>1, OneRequest DEF Active, Pending
  <2>5. IsFiniteSet(Pending(e))
    <3>1. Pending(e) \in SUBSET Slots
      BY DEF Pending
    <3> QED BY <3>1, FS_Subset
  <2>6. Cardinality(Pending(e)') = Cardinality(Pending(e)) - 1 /\ Cardinality(Pending(e)) \in Nat
    BY <2>4, <2>5, FS_RemoveElement, FS_CardinalityType
  <2>7. Counted(e)'
    <3>1. grant[e].admitted \in Nat /\ grant[e].forwarded \in Nat
      BY <2>2 DEF Grants
    <3>2. Counted(e)
      BY <1>1 DEF Good
    <3> QED BY <2>3, <2>4, <2>6, <3>1, <3>2 DEF Counted
  <2>8. Granted(e)'
    BY <1>1, <2>1, <2>3 DEF Good, Granted, Open
  <2>9. ~Unborn(e)
    BY <1>1 DEF Good, Begun
  <2> QED BY <1>1, <2>1, <2>3, <2>7, <2>8, <2>9, OneRequest, BrokerKeeps
<1> QED BY <1>2, <1>3

(* The remaining steps of a request only end it.                             *)
LEMMA RequestKeeps ==
  ASSUME IInv, NEW e \in Execs, NEW r \in Slots, Refuse(e, r) \/ Answer(e, r) \/ GiveUp(e, r)
  PROVE  IInv'
<1>1. request[e][r] \in Reqs
  BY DEF IInv, Types
<1>2. NoRequest \in Reqs /\ NoRequest.st = "idle"
  BY DEF NoRequest, Reqs
<1>3. CASE Refuse(e, r) \/ Answer(e, r)
  BY <1>2, <1>3, RequestEnds DEF Refuse, Answer
<1>4. CASE GiveUp(e, r)
  <2>1. Abort(request[e][r]) \in Reqs /\ Abort(request[e][r]).st \in {"idle", request[e][r].st}
    BY <1>1, AbortEnds
  <2> QED BY <1>4, <2>1, RequestEnds DEF GiveUp
<1> QED BY <1>3, <1>4

(* The grant that ends by itself takes its requests along.                   *)
LEMMA ExpireKeeps ==
  ASSUME IInv, NEW e \in Execs, Expire(e)
  PROVE  IInv'
<1>1. Types /\ Good(e) /\ RevokesAll({e}) /\ Open(e) /\ UNCHANGED <<adapter, box, host, sup, relay, agent>>
  BY DEF IInv, Expire
<1>2. ~Unborn(e)
  BY <1>1 DEF Unborn, Open
<1>3. Types'
  BY <1>1, RevokeKeeps DEF Types
<1>4. Counted(e)'
  BY <1>1, <1>3, RevokeKeeps, FewerKeep DEF Good
<1>5. Granted(e)'
  BY <1>1, RevokeKeeps DEF Granted
<1>6. \A v \in Execs \ {e} : grant'[v] = grant[v] /\ request'[v] = request[v]
  BY <1>1, RevokeKeeps
<1> QED BY <1>1, <1>2, <1>3, <1>4, <1>5, <1>6, BrokerKeeps DEF Types

-----------------------------------------------------------------------------
(* A step in the container of e.                                             *)
LEMMA InsideKeeps ==
  ASSUME IInv, NEW e \in Execs, UNCHANGED <<adapter, box, host, grant, request>>,
         sup' \in [Execs -> Sups], relay' \in [Execs -> Relays], agent' \in [Execs -> Agents],
         \A v \in Execs \ {e} : sup'[v] = sup[v] /\ relay'[v] = relay[v] /\ agent'[v] = agent[v],
         ~Unborn(e),
         agent'[e].code # "none" => agent'[e].st = "gone",
         \A i \in 1 .. Len(relay'[e].out) : relay'[e].out[i] = "exit0" => agent'[e].code = "exit0",
         agent[e].code = "exit0" => agent'[e].code = "exit0",
         sup'[e] = "exited" => relay'[e].st = "gone" /\ Left(e)' = 0,
         relay'[e].st # "gone" => relay[e].st # "gone",
         Left(e)' > 0 => Left(e) > 0 \/ (relay[e].st = "up" /\ host[e].pc # "closed"),
         relay'[e].prompts => Staged
  PROVE  IInv'
<1>1. Types /\ Good(e)
  BY DEF IInv
<1>2. \A v \in Execs \ {e} : Untouched(v)
  BY DEF Untouched
<1>3. Types'
  BY <1>1 DEF Types
<1>4. Begun(e)'
  BY <1>1 DEF Good, Begun, Unborn, Open
<1>5. Granted(e)'
  BY <1>1 DEF Good, Granted, Open
<1>6. Counted(e)'
  BY <1>1 DEF Good, Counted, Active, Pending
<1>7. Coded(e)'
  BY <1>1 DEF Good, Coded, Sent
<1>8. Doubted(e)'
  BY <1>1 DEF Good, Doubted
<1>9. Ended(e)'
  <2>1. Left(e)' \in Nat /\ Left(e) \in Nat
    <3>1. /\ agent[e].seen \in Nat /\ agent[e].fresh \in Nat
          /\ agent'[e].seen \in Nat /\ agent'[e].fresh \in Nat
      BY <1>1, <1>3 DEF Types, Agents
    <3> QED BY <3>1 DEF Left
  <2>2. Left(e)' = 0 \/ Left(e)' > 0
    BY <2>1
  <2>3. Left(e) = 0 => ~(Left(e) > 0)
    OBVIOUS
  <2> HIDE DEF Left
  <2> QED BY <1>1, <2>2, <2>3 DEF Good, Ended
<1> QED BY <1>2, <1>3, <1>4, <1>5, <1>6, <1>7, <1>8, <1>9, OneKeeps DEF Good

(* What a step in the container leaves or writes, one part at a time.        *)
LEMMA OneRelay ==
  ASSUME Types, NEW e \in Execs, NEW l \in Relays, relay' = [relay EXCEPT ![e] = l]
  PROVE  relay' \in [Execs -> Relays] /\ relay'[e] = l /\ \A v \in Execs \ {e} : relay'[v] = relay[v]
BY DEF Types

(* A step of one agent leaves the others, and its descendants counted.        *)
LEMMA OneAgent ==
  ASSUME Types, NEW e \in Execs, NEW a \in Agents, agent' = [agent EXCEPT ![e] = a]
  PROVE  /\ agent' \in [Execs -> Agents] /\ agent'[e] = a /\ \A v \in Execs \ {e} : agent'[v] = agent[v]
         /\ Left(e)' = a.seen + a.fresh
BY DEF Types, Left

(* A frame more, or a frame less.                                            *)
LEMMA Appended ==
  ASSUME NEW s \in Seq(Frames), NEW g \in Frames
  PROVE  /\ Append(s, g) \in Seq(Frames)
         /\ \A i \in 1 .. Len(Append(s, g)) : Append(s, g)[i] = g \/ \E j \in 1 .. Len(s) : s[j] = Append(s, g)[i]
OBVIOUS

(* Taking the first frame leaves frames that were there before.               *)
LEMMA Behead ==
  ASSUME NEW s \in Seq(Frames), s # <<>>
  PROVE  /\ Tail(s) \in Seq(Frames) /\ Head(s) \in Frames
         /\ \E j \in 1 .. Len(s) : s[j] = Head(s)
         /\ \A i \in 1 .. Len(Tail(s)) : \E j \in 1 .. Len(s) : s[j] = Tail(s)[i]
<1>1. Len(s) \in Nat \ {0} /\ Head(s) = s[1] /\ Len(Tail(s)) = Len(s) - 1 /\ Tail(s) \in Seq(Frames)
  OBVIOUS
<1>2. \A i \in 1 .. Len(Tail(s)) : Tail(s)[i] = s[i + 1] /\ i + 1 \in 1 .. Len(s)
  BY <1>1
<1>3. s[1] \in Frames
  BY <1>1
<1> QED BY <1>1, <1>2, <1>3

(* What the steps in the container have in common.                           *)
LEMMA InsideFacts ==
  ASSUME IInv, NEW e \in Execs
  PROVE  /\ Types /\ sup[e] \in Sups /\ relay[e] \in Relays /\ agent[e] \in Agents
         /\ sup \in [Execs -> Sups] /\ relay \in [Execs -> Relays] /\ agent \in [Execs -> Agents]
         /\ agent[e].code # "none" => agent[e].st = "gone"
         /\ \A i \in 1 .. Len(relay[e].out) : relay[e].out[i] = "exit0" => agent[e].code = "exit0"
         /\ Unborn(e) => sup[e] = "none" /\ relay[e].st = "none" /\ Left(e) = 0
         /\ sup[e] = "exited" => relay[e].st = "gone" /\ Left(e) = 0
         /\ relay[e].prompts => Staged
         /\ host[e].stdin => Open(e)
         /\ agent[e].seen \in Nat /\ agent[e].fresh \in Nat /\ Left(e) = agent[e].seen + agent[e].fresh
         /\ Left(e) \in Nat
<1>1. Types /\ Good(e)
  BY DEF IInv
<1>2. sup[e] \in Sups /\ relay[e] \in Relays /\ agent[e] \in Agents
  BY <1>1 DEF Types
<1>3. /\ sup \in [Execs -> Sups] /\ relay \in [Execs -> Relays] /\ agent \in [Execs -> Agents]
  BY <1>1 DEF Types
<1>4. agent[e].seen \in Nat /\ agent[e].fresh \in Nat
  BY <1>2 DEF Agents
<1>5. Left(e) \in Nat
  BY <1>4 DEF Left
<1> QED BY <1>1, <1>2, <1>3, <1>4, <1>5 DEF Good, Begun, Coded, Sent, Ended, Left

(* The relay starts the agent, or cannot.                                    *)
LEMMA StartKeeps ==
  ASSUME IInv, NEW e \in Execs, RelayStarts(e) \/ RelayFails(e)
  PROVE  IInv'
<1> USE ConstantsOK
<1>1. /\ relay[e].st = "up" /\ agent[e].st = "none" /\ sup[e] = "up" /\ host[e].stdin
      /\ UNCHANGED <<adapter, box, host, grant, request, sup>>
  BY DEF RelayStarts, RelayFails
<1>2. ~Unborn(e) /\ host[e].pc # "closed" /\ agent[e].code = "none"
  BY <1>1, InsideFacts DEF Open, Unborn
<1>3. relay[e].out \in Seq(Frames) /\ {"ready", "error"} \subseteq Frames /\ Types
      /\ relay[e] \in Relays /\ agent[e] \in Agents /\ agent[e].seen \in Nat /\ agent[e].fresh \in Nat
  BY InsideFacts DEF Relays, Frames
<1>4. CASE RelayStarts(e)
  <2> DEFINE a == [agent[e] EXCEPT !.st = "up", !.fresh = 1]
             l == [relay[e] EXCEPT !.prompts = Staged, !.out = Append(@, "ready")]
  <2>1. a \in Agents /\ a.code = "none"
    BY <1>2, <1>3 DEF Agents
  <2>2. l \in Relays /\ l.st = "up" /\ l.prompts = Staged /\ l.out = Append(relay[e].out, "ready")
    BY <1>1, <1>3, Appended DEF Relays
  <2>3. agent' = [agent EXCEPT ![e] = a] /\ relay' = [relay EXCEPT ![e] = l]
    BY <1>4 DEF RelayStarts
  <2> HIDE DEF a, l
  <2>4. \A i \in 1 .. Len(l.out) : l.out[i] # "exit0"
    BY <1>2, <1>3, <2>2, Appended, InsideFacts
  <2>5. /\ agent' \in [Execs -> Agents] /\ agent'[e] = a /\ \A v \in Execs \ {e} : agent'[v] = agent[v]
        /\ relay' \in [Execs -> Relays] /\ relay'[e] = l /\ \A v \in Execs \ {e} : relay'[v] = relay[v]
    BY <1>3, <2>1, <2>2, <2>3, OneRelay, OneAgent
  <2> QED BY <1>1, <1>2, <2>1, <2>2, <2>4, <2>5, InsideFacts, InsideKeeps
<1>5. CASE RelayFails(e)
  <2> DEFINE a == [agent[e] EXCEPT !.st = "gone"]
             l == [relay[e] EXCEPT !.st = "gone", !.out = Append(@, "error")]
  <2>1. a \in Agents /\ a.code = "none" /\ a.seen = agent[e].seen /\ a.fresh = agent[e].fresh
    BY <1>2, <1>3 DEF Agents
  <2>2. l \in Relays /\ l.st = "gone" /\ l.prompts = relay[e].prompts /\ l.out = Append(relay[e].out, "error")
    BY <1>1, <1>3, Appended DEF Relays
  <2>3. agent' = [agent EXCEPT ![e] = a] /\ relay' = [relay EXCEPT ![e] = l]
    BY <1>5 DEF RelayFails
  <2> HIDE DEF a, l
  <2>4. \A i \in 1 .. Len(l.out) : l.out[i] # "exit0"
    BY <1>2, <1>3, <2>2, Appended, InsideFacts
  <2>5. /\ agent' \in [Execs -> Agents] /\ agent'[e] = a /\ \A v \in Execs \ {e} : agent'[v] = agent[v]
        /\ relay' \in [Execs -> Relays] /\ relay'[e] = l /\ \A v \in Execs \ {e} : relay'[v] = relay[v]
    BY <1>3, <2>1, <2>2, <2>3, OneRelay, OneAgent
  <2>6. Left(e)' = Left(e)
    BY <2>1, <2>5 DEF Left
  <2> QED BY <1>1, <1>2, <2>1, <2>2, <2>4, <2>5, <2>6, InsideFacts, InsideKeeps
<1> QED BY <1>4, <1>5

(* The agent forks, exits by itself, or is killed with its group.            *)
LEMMA AgentKeeps ==
  ASSUME IInv, NEW e \in Execs,
         \/ Fork(e) \/ RelayShutsDown(e)
         \/ \E c \in {"exit0", "exit1"}, n \in 0 .. MaxForks : AgentExits(e, c, n)
  PROVE  IInv'
<1> USE ConstantsOK
<1>1. Types /\ agent[e] \in Agents /\ relay[e] \in Relays /\ Left(e) \in Nat
  BY InsideFacts
<1>2. ASSUME NEW n \in Nat, NEW c \in {"none", "exit0", "exit1"}
      PROVE  LET a == GroupKilled(e, n, c) IN
             a \in Agents /\ a.code = c /\ a.st = "gone" /\ a.seen + a.fresh = n
  <2>1. GroupKilled(e, n, c) \in Agents
    BY <1>1 DEF GroupKilled, Agents
  <2>2. /\ GroupKilled(e, n, c).code = c /\ GroupKilled(e, n, c).st = "gone"
        /\ GroupKilled(e, n, c).seen = 0 /\ GroupKilled(e, n, c).fresh = n
    BY <1>1 DEF GroupKilled, Agents
  <2> QED BY <2>1, <2>2
<1>3. CASE Fork(e)
  <2> DEFINE a == [agent[e] EXCEPT !.fresh = @ + 1, !.forks = @ + 1]
  <2>1. a \in Agents /\ a.code = agent[e].code /\ a.st = agent[e].st
    <3>1. agent[e].fresh + 1 \in Nat /\ agent[e].forks + 1 \in Nat
      BY <1>1 DEF Agents
    <3> QED BY <1>1, <3>1 DEF Agents
  <2>2. agent' = [agent EXCEPT ![e] = a] /\ Left(e) > 0
        /\ UNCHANGED <<adapter, box, host, grant, request, sup, relay>>
    BY <1>3 DEF Fork
  <2> HIDE DEF a
  <2>3. agent' \in [Execs -> Agents] /\ agent'[e] = a /\ \A v \in Execs \ {e} : agent'[v] = agent[v]
    BY <1>1, <2>1, <2>2, OneAgent
  <2>4. ~Unborn(e) /\ sup[e] # "exited"
    <3>1. Left(e) # 0
      BY <2>2
    <3> QED BY <3>1, InsideFacts
  <2> QED BY <1>1, <2>1, <2>2, <2>3, <2>4, InsideFacts, InsideKeeps
<1>4. ASSUME NEW c \in {"exit0", "exit1"}, NEW n \in 0 .. MaxForks, AgentExits(e, c, n)
      PROVE  IInv'
  <2> DEFINE a == GroupKilled(e, n, c)
  <2>1. n \in Nat /\ n < Left(e) /\ relay[e].st = "up" /\ agent[e].code = "none"
        /\ UNCHANGED <<adapter, box, host, grant, request, sup, relay>>
    BY <1>4, InsideFacts DEF AgentExits
  <2>2. a \in Agents /\ a.code = c /\ a.st = "gone" /\ a.seen + a.fresh = n
    BY <1>2, <2>1
  <2>3. agent' = [agent EXCEPT ![e] = a]
    BY <1>4 DEF AgentExits
  <2> HIDE DEF a
  <2>4. Left(e) > 0
    BY <1>1, <2>1
  <2>5. agent' \in [Execs -> Agents] /\ agent'[e] = a /\ \A v \in Execs \ {e} : agent'[v] = agent[v]
    BY <1>1, <2>2, <2>3, OneAgent
  <2>6. ~Unborn(e) /\ sup[e] # "exited"
    BY <2>1, InsideFacts
  <2> QED BY <1>1, <2>1, <2>2, <2>4, <2>5, <2>6, InsideFacts, InsideKeeps
<1>5. CASE RelayShutsDown(e)
  <2>1. PICK n \in 0 .. Left(e) : agent' = [agent EXCEPT ![e] = GroupKilled(e, n, agent[e].code)]
    BY <1>5 DEF RelayShutsDown
  <2> DEFINE a == GroupKilled(e, n, agent[e].code)
             l == [relay[e] EXCEPT !.st = "gone", !.prompts = FALSE]
  <2>2. n \in Nat /\ n <= Left(e)
    BY <1>1
  <2>3. a \in Agents /\ a.code = agent[e].code /\ a.st = "gone" /\ a.seen + a.fresh = n
    <3>1. agent[e].code \in {"none", "exit0", "exit1"}
      BY <1>1 DEF Agents
    <3> QED BY <1>2, <2>2, <3>1
  <2>4. l \in Relays /\ l.st = "gone" /\ ~l.prompts /\ l.out = relay[e].out
    BY <1>1 DEF Relays
  <2>5. relay' = [relay EXCEPT ![e] = l] /\ agent' = [agent EXCEPT ![e] = a] /\ relay[e].st = "up"
        /\ UNCHANGED <<adapter, box, host, grant, request, sup>>
    BY <1>5, <2>1 DEF RelayShutsDown
  <2> HIDE DEF a, l
  <2>6. /\ agent' \in [Execs -> Agents] /\ agent'[e] = a /\ \A v \in Execs \ {e} : agent'[v] = agent[v]
        /\ relay' \in [Execs -> Relays] /\ relay'[e] = l /\ \A v \in Execs \ {e} : relay'[v] = relay[v]
        /\ Left(e)' = n
    BY <1>1, <2>3, <2>4, <2>5, OneRelay, OneAgent
  <2>7. ~Unborn(e) /\ sup[e] # "exited"
    BY <2>5, InsideFacts
  <2>8. Left(e)' > 0 => Left(e) > 0
    BY <1>1, <2>2, <2>6
  <2> QED BY <1>1, <2>3, <2>4, <2>5, <2>6, <2>7, <2>8, InsideFacts, InsideKeeps
<1> QED BY <1>3, <1>4, <1>5

(* The relay tells how the agent ended, or is killed and tells nothing.      *)
LEMMA RelayKeeps ==
  ASSUME IInv, NEW e \in Execs, RelayFinishes(e) \/ RelayKilled(e)
  PROVE  IInv'
<1>1. relay[e].st = "up" /\ UNCHANGED <<adapter, box, host, grant, request, sup, agent>>
  BY DEF RelayFinishes, RelayKilled
<1>2. /\ Types /\ relay[e] \in Relays /\ agent[e] \in Agents
      /\ ~Unborn(e) /\ sup[e] # "exited" /\ Left(e)' = Left(e)
  BY <1>1, InsideFacts DEF Left
<1>3. CASE RelayFinishes(e)
  <2> DEFINE l == [relay[e] EXCEPT !.st = "gone", !.prompts = FALSE, !.out = Append(@, agent[e].code)]
  <2>1. agent[e].code \in Frames /\ relay[e].out \in Seq(Frames)
    BY <1>2, <1>3 DEF RelayFinishes, Agents, Relays, Frames
  <2>2. l \in Relays /\ l.st = "gone" /\ ~l.prompts /\ l.out = Append(relay[e].out, agent[e].code)
    BY <1>2, <2>1, Appended DEF Relays
  <2>3. relay' = [relay EXCEPT ![e] = l]
    BY <1>3 DEF RelayFinishes
  <2> HIDE DEF l
  <2>4. \A i \in 1 .. Len(l.out) : l.out[i] = "exit0" => agent[e].code = "exit0"
    BY <2>1, <2>2, Appended, InsideFacts
  <2>5. relay' \in [Execs -> Relays] /\ relay'[e] = l /\ \A v \in Execs \ {e} : relay'[v] = relay[v]
    BY <1>2, <2>2, <2>3, OneRelay
  <2> QED BY <1>1, <1>2, <2>2, <2>4, <2>5, InsideFacts, InsideKeeps
<1>4. CASE RelayKilled(e)
  <2> DEFINE l == [relay[e] EXCEPT !.st = "gone"]
  <2>1. l \in Relays /\ l.st = "gone" /\ l.prompts = relay[e].prompts /\ l.out = relay[e].out
    BY <1>2 DEF Relays
  <2>2. relay' = [relay EXCEPT ![e] = l]
    BY <1>4 DEF RelayKilled
  <2> HIDE DEF l
  <2>3. relay' \in [Execs -> Relays] /\ relay'[e] = l /\ \A v \in Execs \ {e} : relay'[v] = relay[v]
    BY <1>2, <2>1, <2>2, OneRelay
  <2>4. \A i \in 1 .. Len(l.out) : l.out[i] = "exit0" => agent[e].code = "exit0"
    BY <2>1, InsideFacts
  <2> QED BY <1>1, <1>2, <2>1, <2>3, <2>4, InsideFacts, InsideKeeps
<1> QED BY <1>3, <1>4

(* The supervisor reports an exit only when a scan has found nothing.        *)
LEMMA SupKeeps ==
  ASSUME IInv, NEW e \in Execs, SupCloses(e) \/ Kill(e) \/ SupExits(e) \/ SupDies(e)
  PROVE  IInv'
<1>1. UNCHANGED <<adapter, box, host, grant, request>> /\ sup[e] \in {"up", "closing"}
  BY DEF SupCloses, Kill, SupExits, SupDies
<1>2. ~Unborn(e) /\ Types /\ relay[e] \in Relays /\ agent[e] \in Agents
      /\ agent[e].seen \in Nat /\ agent[e].fresh \in Nat /\ Left(e) = agent[e].seen + agent[e].fresh
  BY <1>1, InsideFacts
<1>3. ASSUME NEW s \in Sups, sup' = [sup EXCEPT ![e] = s], UNCHANGED <<relay, agent>>,
             s = "exited" => relay[e].st = "gone" /\ Left(e) = 0
      PROVE  IInv'
  <2>1. sup' \in [Execs -> Sups] /\ sup'[e] = s /\ \A v \in Execs \ {e} : sup'[v] = sup[v]
    BY <1>2, <1>3 DEF Types
  <2>2. Left(e)' = Left(e)
    BY <1>3 DEF Left
  <2> QED BY <1>1, <1>2, <1>3, <2>1, <2>2, InsideFacts, InsideKeeps
<1>4. CASE SupCloses(e)
  BY <1>3, <1>4 DEF SupCloses, Sups
<1>5. CASE SupDies(e)
  BY <1>3, <1>5 DEF SupDies, Sups
<1>6. CASE SupExits(e)
  <2>1. relay[e].st = "gone" /\ Left(e) = 0
    BY <1>2, <1>6 DEF SupExits, NoRoots
  <2> QED BY <1>3, <1>6, <2>1 DEF SupExits, Sups
<1>7. CASE Kill(e)
  <2>1. PICK n \in 0 .. agent[e].fresh :
          agent' = [agent EXCEPT ![e].st = "gone", ![e].seen = n, ![e].fresh = 0]
    BY <1>7 DEF Kill
  <2> DEFINE a == [agent[e] EXCEPT !.st = "gone", !.seen = n, !.fresh = 0]
             l == [relay[e] EXCEPT !.st = "gone"]
  <2>2. n \in Nat /\ n <= agent[e].fresh
    BY <1>2
  <2>3. a \in Agents /\ a.code = agent[e].code /\ a.st = "gone" /\ a.seen = n /\ a.fresh = 0
    BY <1>2, <2>2 DEF Agents
  <2>4. l \in Relays /\ l.st = "gone" /\ l.prompts = relay[e].prompts /\ l.out = relay[e].out
    BY <1>2 DEF Relays
  <2>5. relay' = [relay EXCEPT ![e] = l] /\ agent' = [agent EXCEPT ![e] = a] /\ UNCHANGED sup
        /\ sup[e] = "closing"
    BY <1>7, <2>1 DEF Kill
  <2> HIDE DEF a, l
  <2>6. /\ agent' \in [Execs -> Agents] /\ agent'[e] = a /\ \A v \in Execs \ {e} : agent'[v] = agent[v]
        /\ relay' \in [Execs -> Relays] /\ relay'[e] = l /\ \A v \in Execs \ {e} : relay'[v] = relay[v]
        /\ Left(e)' = a.seen + a.fresh
    BY <1>2, <2>3, <2>4, <2>5, OneRelay, OneAgent
  <2>7. Left(e)' > 0 => Left(e) > 0
    BY <1>2, <2>2, <2>3, <2>6
  <2>8. /\ sup' \in [Execs -> Sups] /\ sup'[e] # "exited"
        /\ \A v \in Execs \ {e} : sup'[v] = sup[v] /\ relay'[v] = relay[v] /\ agent'[v] = agent[v]
    BY <2>5, <2>6, InsideFacts
  <2>9. /\ agent'[e].code = agent[e].code /\ agent'[e].st = "gone" /\ relay'[e].st = "gone"
        /\ relay'[e].prompts => Staged
        /\ \A i \in 1 .. Len(relay'[e].out) : relay'[e].out[i] = "exit0" => agent'[e].code = "exit0"
    BY <2>3, <2>4, <2>6, InsideFacts
  <2> QED BY <1>1, <1>2, <2>6, <2>7, <2>8, <2>9, InsideKeeps
<1> QED BY <1>4, <1>5, <1>6, <1>7

-----------------------------------------------------------------------------
(* A step of the host about e, an execution that was begun.                  *)
LEMMA HostKeeps ==
  ASSUME IInv, NEW e \in Execs, UNCHANGED <<adapter, box, sup, agent>>,
         host' \in [Execs -> Hosts], grant' \in [Execs -> Grants],
         request' \in [Execs -> [Slots -> Reqs]], relay' \in [Execs -> Relays],
         \A v \in Execs \ {e} : /\ host'[v] = host[v] /\ grant'[v] = grant[v]
                                /\ request'[v] = request[v] /\ relay'[v] = relay[v],
         relay'[e].st = relay[e].st, relay'[e].prompts = relay[e].prompts,
         \A i \in 1 .. Len(relay'[e].out) : relay'[e].out[i] = "exit0" => agent[e].code = "exit0",
         ~Unborn(e), ~Unborn(e)', host'[e].box = host[e].box, host'[e].doubt = host[e].doubt,
         host'[e].stdin => Open(e)', Granted(e)', Counted(e)',
         host'[e].code = "exit0" => agent[e].code = "exit0",
         host'[e].terminating => host'[e].code \in {"exit1", "unconfirmed"},
         host'[e].pc = "doubt" => host'[e].doubt,
         host'[e].pc = "closed" /\ Left(e) > 0 => host'[e].code = "unconfirmed" /\ adapter.stopped
  PROVE  IInv'
<1>1. Types /\ Good(e)
  BY DEF IInv
<1>2. Types'
  BY <1>1 DEF Types
<1>3. \A v \in Execs \ {e} : Untouched(v)
  BY DEF Untouched
<1>4. Left(e)' = Left(e)
  BY DEF Left
<1>5. Begun(e)'
  BY <1>1 DEF Good, Begun
<1>6. Coded(e)' /\ Doubted(e)'
  BY <1>1 DEF Good, Coded, Sent, Doubted
<1>7. Ended(e)'
  BY <1>1, <1>4 DEF Good, Ended
<1> QED BY <1>2, <1>3, <1>5, <1>6, <1>7, OneKeeps DEF Good

(* What the host's steps have in common.                                     *)
LEMMA OneHost ==
  ASSUME Types, NEW e \in Execs, NEW h \in Hosts, host' = [host EXCEPT ![e] = h]
  PROVE  host' \in [Execs -> Hosts] /\ host'[e] = h /\ \A v \in Execs \ {e} : host'[v] = host[v]
BY DEF Types

(* What the host side of an execution knows of the relay and the agent.       *)
LEMMA HostFacts ==
  ASSUME IInv, NEW e \in Execs
  PROVE  /\ Types /\ host[e] \in Hosts /\ relay[e] \in Relays
         /\ \A i \in 1 .. Len(relay[e].out) : relay[e].out[i] = "exit0" => agent[e].code = "exit0"
         /\ host[e].code = "exit0" => agent[e].code = "exit0"
         /\ host[e].terminating => host[e].code \in {"exit1", "unconfirmed"}
         /\ host[e].pc = "doubt" => host[e].doubt /\ adapter.stopped
         /\ sup[e] = "exited" => Left(e) = 0
         /\ host[e].stdin => Open(e)
         /\ Left(e) \in Nat
<1>1. Types /\ Good(e)
  BY DEF IInv
<1>2. Left(e) \in Nat
  BY <1>1, InsideFacts
<1> QED BY <1>1, <1>2 DEF Types, Good, Coded, Sent, Doubted, Ended, Begun

(* A step of the host that revokes the grant of e.                           *)
LEMMA EndKeeps ==
  ASSUME IInv, NEW e \in Execs, NEW h \in Hosts, host' = [host EXCEPT ![e] = h], RevokesAll({e}),
         UNCHANGED <<adapter, box, sup, relay, agent>>,
         Open(e), h.pc \in {host[e].pc, "closed"}, h.box = host[e].box, h.doubt = host[e].doubt, ~h.stdin,
         h.code = "exit0" => agent[e].code = "exit0",
         h.terminating => h.code \in {"exit1", "unconfirmed"},
         h.pc = "closed" /\ Left(e) > 0 => h.code = "unconfirmed" /\ adapter.stopped
  PROVE  IInv'
<1>1. Types /\ Good(e)
  BY DEF IInv
<1>2. host' \in [Execs -> Hosts] /\ host'[e] = h /\ \A v \in Execs \ {e} : host'[v] = host[v]
  BY <1>1, OneHost
<1>3. /\ grant' \in [Execs -> Grants] /\ request' \in [Execs -> [Slots -> Reqs]] /\ relay' \in [Execs -> Relays]
      /\ \A v \in Execs \ {e} : grant'[v] = grant[v] /\ request'[v] = request[v] /\ relay'[v] = relay[v]
  BY <1>1, RevokeKeeps DEF Types
<1>4. Types'
  BY <1>1, <1>2, <1>3 DEF Types
<1>5. Counted(e)'
  BY <1>1, <1>4, RevokeKeeps, FewerKeep DEF Good
<1>6. Granted(e)'
  BY <1>1, RevokeKeeps DEF Granted
<1>7. ~Unborn(e) /\ ~Unborn(e)'
  BY <1>2 DEF Unborn, Open
<1>8. host'[e].pc = "doubt" => host'[e].doubt
  BY <1>2, HostFacts
<1>9. relay'[e] = relay[e] /\ \A i \in 1 .. Len(relay'[e].out) : relay'[e].out[i] = "exit0" => agent[e].code = "exit0"
  BY HostFacts
<1> QED BY <1>2, <1>3, <1>5, <1>6, <1>7, <1>8, <1>9, HostKeeps

(* A cancel, a timeout or a bad frame; the end of the execution.             *)
LEMMA FailKeeps ==
  ASSUME IInv, NEW e \in Execs, Fail(e) \/ Finish(e) \/ StopBoxFails(e)
  PROVE  IInv'
<1>1. host[e] \in Hosts
  BY HostFacts
<1>2. CASE Fail(e)
  <2> DEFINE h == Failed(host[e])
  <2>1. h \in Hosts /\ h.pc = host[e].pc /\ h.box = host[e].box /\ h.doubt = host[e].doubt
        /\ ~h.stdin /\ h.code = "exit1"
    BY <1>1, <1>2 DEF Fail, Failed, Hosts
  <2>2. host' = [host EXCEPT ![e] = h] /\ RevokesAll({e}) /\ Open(e) /\ host[e].pc # "closed"
    BY <1>2 DEF Fail, Open
  <2> HIDE DEF h
  <2> QED BY <1>2, <2>1, <2>2, EndKeeps DEF Fail
<1>3. CASE Finish(e)
  <2> DEFINE c == IF host[e].code = "none" THEN "exit1" ELSE host[e].code
             h == Closed(host[e], c)
  <2>1. c \in {"exit0", "exit1", "unconfirmed"} /\ (c = "exit0" => agent[e].code = "exit0")
        /\ (host[e].terminating => c \in {"exit1", "unconfirmed"})
    BY <1>1, HostFacts DEF Hosts
  <2> HIDE DEF c
  <2>2. h \in Hosts /\ h.pc = "closed" /\ h.box = host[e].box /\ h.doubt = host[e].doubt
        /\ ~h.stdin /\ h.code = c /\ h.terminating = host[e].terminating
    BY <1>1, <2>1 DEF Closed, Hosts
  <2>3. host' = [host EXCEPT ![e] = h] /\ RevokesAll({e}) /\ Open(e)
    BY <1>3 DEF Finish, Open, c
  <2>4. ~(Left(e) > 0)
    <3>1. Left(e) = 0
      BY <1>3, HostFacts DEF Finish
    <3> QED BY <3>1
  <2> HIDE DEF h
  <2> QED BY <1>3, <2>1, <2>2, <2>3, <2>4, EndKeeps DEF Finish
<1>4. CASE StopBoxFails(e)
  <2> DEFINE h == Closed(host[e], "unconfirmed")
  <2>1. h \in Hosts /\ h.pc = "closed" /\ h.box = host[e].box /\ h.doubt = host[e].doubt
        /\ ~h.stdin /\ h.code = "unconfirmed"
    BY <1>1 DEF Closed, Hosts
  <2>2. host' = [host EXCEPT ![e] = h] /\ RevokesAll({e}) /\ Open(e) /\ adapter.stopped
    BY <1>4, HostFacts DEF StopBoxFails, Open
  <2> HIDE DEF h
  <2> QED BY <1>4, <2>1, <2>2, EndKeeps DEF StopBoxFails
<1> QED BY <1>2, <1>3, <1>4

(* What the relay says: the first code counts.                               *)
LEMMA ReadKeeps ==
  ASSUME IInv, NEW e \in Execs, Read(e)
  PROVE  IInv'
<1>1. /\ Types /\ Good(e) /\ host[e] \in Hosts /\ relay[e] \in Relays /\ Open(e) /\ relay[e].out # <<>>
      /\ UNCHANGED <<adapter, box, sup, agent>>
  BY HostFacts DEF IInv, Read
<1>2. relay[e].out \in Seq(Frames)
  BY <1>1 DEF Relays
<1> DEFINE f == Head(relay[e].out)
           l == [relay[e] EXCEPT !.out = Tail(@)]
<1>3. Tail(relay[e].out) \in Seq(Frames) /\ f \in Frames /\ (f = "exit0" => agent[e].code = "exit0")
      /\ \A i \in 1 .. Len(Tail(relay[e].out)) : Tail(relay[e].out)[i] = "exit0" => agent[e].code = "exit0"
  BY <1>1, <1>2, Behead, HostFacts
<1>4. l \in Relays /\ l.out = Tail(relay[e].out) /\ l.st = relay[e].st /\ l.prompts = relay[e].prompts
  BY <1>1, <1>3 DEF Relays
<1>5. relay' = [relay EXCEPT ![e] = l]
  BY DEF Read
<1>6. PICK h : /\ host' = [host EXCEPT ![e] = h]
               /\ \/ /\ h = [host[e] EXCEPT !.pc = IF @ = "starting" THEN "ready" ELSE @]
                     /\ UNCHANGED <<grant, request>>
                  \/ h = Failed(host[e]) /\ RevokesAll({e})
                  \/ f \in {"exit0", "exit1"} /\ h = KeepsCode(host[e], f) /\ UNCHANGED <<grant, request>>
  <2>1. CASE f = "ready" /\ host' = [host EXCEPT ![e].pc = IF @ = "starting" THEN "ready" ELSE @]
             /\ UNCHANGED <<grant, request>>
    BY <2>1
  <2>2. CASE host' = [host EXCEPT ![e] = Failed(@)] /\ RevokesAll({e})
    BY <2>2
  <2>3. CASE f \in {"exit0", "exit1"} /\ host' = [host EXCEPT ![e] = KeepsCode(@, f)] /\ UNCHANGED <<grant, request>>
    BY <2>3
  <2> QED BY <2>1, <2>2, <2>3 DEF Read
<1> HIDE DEF f, l
<1>7. /\ h \in Hosts /\ h.box = host[e].box /\ h.doubt = host[e].doubt /\ h.pc \in {"starting", "ready", "doubt"}
      /\ h.pc = "doubt" => host[e].pc = "doubt"
      /\ h.code = "exit0" => agent[e].code = "exit0"
      /\ h.terminating => h.code \in {"exit1", "unconfirmed"}
      /\ h.terminating /\ ~host[e].terminating => RevokesAll({e})
  <2>1. CASE h = [host[e] EXCEPT !.pc = IF @ = "starting" THEN "ready" ELSE @]
    BY <1>1, <2>1, HostFacts DEF Hosts, Open
  <2>2. CASE h = Failed(host[e]) /\ RevokesAll({e})
    BY <1>1, <2>2, HostFacts DEF Failed, Hosts, Open
  <2>3. CASE f \in {"exit0", "exit1"} /\ h = KeepsCode(host[e], f)
    BY <1>1, <1>3, <2>3, HostFacts DEF KeepsCode, Hosts, Open
  <2> QED BY <1>6, <2>1, <2>2, <2>3
<1>8. host' \in [Execs -> Hosts] /\ host'[e] = h /\ \A v \in Execs \ {e} : host'[v] = host[v]
  BY <1>1, <1>6, <1>7, OneHost
<1>9. relay' \in [Execs -> Relays] /\ relay'[e] = l /\ \A v \in Execs \ {e} : relay'[v] = relay[v]
  BY <1>1, <1>4, <1>5, OneRelay
<1>10. ~Unborn(e) /\ ~Unborn(e)' /\ Open(e)'
  BY <1>1, <1>7, <1>8 DEF Unborn, Open
<1>11. /\ grant' \in [Execs -> Grants] /\ request' \in [Execs -> [Slots -> Reqs]]
       /\ \A v \in Execs \ {e} : grant'[v] = grant[v] /\ request'[v] = request[v]
       /\ Counted(e)' /\ Granted(e)'
  <2>1. CASE UNCHANGED <<grant, request>> /\ (h.terminating => host[e].terminating)
    <3>1. Counted(e)'
      BY <1>1, <2>1 DEF Good, Counted, Active, Pending
    <3>2. Granted(e)'
      BY <1>1, <1>7, <1>8, <2>1 DEF Good, Granted, Open
    <3> QED BY <1>1, <2>1, <3>1, <3>2 DEF Types
  <2>2. CASE RevokesAll({e})
    <3>1. /\ grant' \in [Execs -> Grants] /\ request' \in [Execs -> [Slots -> Reqs]]
          /\ \A v \in Execs \ {e} : grant'[v] = grant[v] /\ request'[v] = request[v]
      BY <1>1, <2>2, RevokeKeeps
    <3>2. Types'
      BY <1>1, <1>8, <1>9, <3>1 DEF Types
    <3>3. Counted(e)'
      BY <1>1, <2>2, <3>2, RevokeKeeps, FewerKeep DEF Good
    <3>4. Granted(e)'
      BY <1>1, <2>2, RevokeKeeps DEF Granted
    <3> QED BY <3>1, <3>3, <3>4
  <2> QED BY <1>6, <1>7, <2>1, <2>2
<1>12. \A i \in 1 .. Len(relay'[e].out) : relay'[e].out[i] = "exit0" => agent[e].code = "exit0"
  BY <1>3, <1>4, <1>9
<1>13. host'[e].pc = "doubt" => host'[e].doubt
  BY <1>7, <1>8, HostFacts
<1> QED BY <1>1, <1>4, <1>7, <1>8, <1>9, <1>10, <1>11, <1>12, <1>13, HostKeeps

(* A spawn goes to a container that runs; docker may not be there.           *)
LEMMA SpawnKeeps ==
  ASSUME IInv, NEW e \in Execs, Spawn(e) \/ SpawnFails(e)
  PROVE  IInv'
<1> USE ConstantsOK
<1>1. Types /\ Good(e) /\ host[e] \in Hosts /\ relay[e] \in Relays /\ Unborn(e) /\ ~adapter.stopped
      /\ adapter.bound \in Boxes /\ UNCHANGED <<adapter, box, agent>>
  BY HostFacts DEF IInv, Types, Spawn, SpawnFails, Unborn
<1>2. host[e].box = Nobody /\ ~host[e].stdin /\ ~host[e].terminating /\ host[e].code = "none" /\ ~host[e].doubt
      /\ sup[e] = "none" /\ relay[e].st = "none" /\ relay[e].out = <<>> /\ agent[e].st = "none" /\ Left(e) = 0
      /\ \A r \in Slots : request[e][r].st = "idle"
  BY <1>1 DEF Good, Begun
<1>3. Left(e)' = Left(e) /\ ~(Left(e) > 0)
  BY <1>1, <1>2 DEF Left
<1>4. CASE Spawn(e)
  <2> DEFINE h == [host[e] EXCEPT !.pc = "starting", !.box = adapter.bound, !.stdin = TRUE]
             l == [relay[e] EXCEPT !.st = "up"]
  <2>1. h \in Hosts /\ h.pc = "starting" /\ h.box = adapter.bound /\ h.stdin /\ ~h.terminating
        /\ h.code = "none" /\ ~h.doubt
    BY <1>1, <1>2 DEF Hosts
  <2>2. l \in Relays /\ l.st = "up" /\ l.out = <<>> /\ l.prompts = relay[e].prompts
    BY <1>1, <1>2 DEF Relays
  <2>3. host' = [host EXCEPT ![e] = h] /\ relay' = [relay EXCEPT ![e] = l] /\ sup' = [sup EXCEPT ![e] = "up"]
        /\ UNCHANGED <<grant, request>>
    BY <1>4 DEF Spawn
  <2> HIDE DEF h, l
  <2>4. host' \in [Execs -> Hosts] /\ host'[e] = h /\ \A v \in Execs \ {e} : host'[v] = host[v]
    BY <1>1, <2>1, <2>3, OneHost
  <2>5. relay' \in [Execs -> Relays] /\ relay'[e] = l /\ \A v \in Execs \ {e} : relay'[v] = relay[v]
    BY <1>1, <2>2, <2>3, OneRelay
  <2>6. sup' \in [Execs -> Sups] /\ sup'[e] = "up" /\ \A v \in Execs \ {e} : sup'[v] = sup[v]
    BY <1>1, <2>3 DEF Types, Sups
  <2>7. Types'
    BY <1>1, <2>3, <2>4, <2>5, <2>6 DEF Types
  <2>8. ~box[adapter.bound]
    <3>1. \A v \in Execs : host[v].doubt => adapter.stopped
      BY DEF IInv, Good, Doubted
    <3> QED BY <1>1, <3>1 DEF IInv, StopsOnlyDoubted
  <2>9. Begun(e)'
    BY <1>1, <2>1, <2>4 DEF Begun, Unborn, Open
  <2>10. Granted(e)'
    BY <1>1, <2>1, <2>3, <2>4 DEF Good, Granted
  <2>11. Counted(e)'
    BY <1>1, <2>3 DEF Good, Counted, Active, Pending
  <2>12. Coded(e)'
    <3>1. ~Sent(e, "exit0")'
      BY <2>2, <2>5 DEF Sent
    <3> QED BY <1>1, <2>1, <2>4, <3>1 DEF Good, Coded
  <2>13. Doubted(e)' /\ Ended(e)'
    BY <1>1, <2>1, <2>2, <2>4, <2>5, <2>6, <2>8 DEF Good, Doubted, Ended
  <2>14. \A v \in Execs \ {e} : Untouched(v)
    BY <1>1, <2>3, <2>4, <2>5, <2>6 DEF Untouched
  <2>15. Good(e)'
    BY <2>9, <2>10, <2>11, <2>12, <2>13 DEF Good
  <2> QED BY <1>1, <1>2, <2>7, <2>14, <2>15, OneKeeps
<1>5. CASE SpawnFails(e)
  <2> DEFINE h == [host[e] EXCEPT !.pc = "failed"]
  <2>1. h \in Hosts /\ h.pc = "failed" /\ h.box = host[e].box /\ h.stdin = host[e].stdin
        /\ h.terminating = host[e].terminating /\ h.code = host[e].code /\ h.doubt = host[e].doubt
    BY <1>1 DEF Hosts
  <2>2. host' = [host EXCEPT ![e] = h] /\ RevokesAll({e}) /\ UNCHANGED <<sup, relay>>
    BY <1>5 DEF SpawnFails
  <2> HIDE DEF h
  <2>3. host' \in [Execs -> Hosts] /\ host'[e] = h /\ \A v \in Execs \ {e} : host'[v] = host[v]
    BY <1>1, <2>1, <2>2, OneHost
  <2>4. /\ grant' \in [Execs -> Grants] /\ request' \in [Execs -> [Slots -> Reqs]]
        /\ \A v \in Execs \ {e} : grant'[v] = grant[v] /\ request'[v] = request[v]
        /\ grant'[e].revoked /\ \A r \in Slots : request'[e][r].st \in {"idle", request[e][r].st}
    BY <1>1, <2>2, RevokeKeeps
  <2>5. Types'
    BY <1>1, <2>2, <2>3, <2>4 DEF Types
  <2>6. Counted(e)'
    BY <1>1, <2>2, <2>5, RevokeKeeps, FewerKeep DEF Good
  <2>7. \A r \in Slots : request'[e][r].st = "idle"
    BY <1>2, <2>4
  <2>8. Granted(e)'
    BY <2>4, <2>7 DEF Granted
  <2>9. Begun(e)'
    BY <1>2, <1>3, <2>1, <2>2, <2>3, <2>7, <1>1 DEF Begun, Unborn, Open
  <2>10. Coded(e)' /\ Doubted(e)' /\ Ended(e)'
    BY <1>1, <1>2, <1>3, <2>1, <2>2, <2>3 DEF Good, Coded, Sent, Doubted, Ended
  <2>11. \A v \in Execs \ {e} : Untouched(v)
    BY <1>1, <2>2, <2>3, <2>4 DEF Untouched
  <2>12. Good(e)'
    BY <2>6, <2>8, <2>9, <2>10 DEF Good
  <2> QED BY <1>1, <1>2, <2>3, <2>5, <2>11, <2>12, OneKeeps
<1> QED BY <1>4, <1>5

-----------------------------------------------------------------------------
(* The adapter stops: whatever runs loses its grant and its input.           *)
LEMMA StopsKeep ==
  ASSUME IInv, adapter' = StopsAdapter, RevokesAll(Running), UNCHANGED <<box, sup, agent>>,
         host' \in [Execs -> Hosts], relay' \in [Execs -> Relays],
         \A v \in Execs :
           /\ ~Open(v) => host'[v] = host[v] /\ relay'[v] = relay[v]
           /\ Open(v) =>
                /\ host'[v].box = host[v].box /\ host'[v].terminating = host[v].terminating
                /\ host'[v].code = host[v].code
                /\ host[v].doubt => host'[v].doubt
                /\ host'[v].pc \in {host[v].pc, "doubt"}
                /\ host'[v].pc = "doubt" => host[v].pc = "doubt" \/ host'[v].doubt
                /\ ~host'[v].stdin
                /\ relay'[v].st = relay[v].st /\ relay'[v].prompts = relay[v].prompts
                /\ relay'[v].out \in {relay[v].out, <<>>}
  PROVE  IInv'
<1>1. Types
  BY DEF IInv
<1>2. adapter' \in [bound : Boxes, stopped : BOOLEAN] /\ adapter'.stopped
  BY <1>1 DEF Types, StopsAdapter
<1>3. Running \in SUBSET Execs
  BY DEF Running
<1>4. Types'
  BY <1>1, <1>2, <1>3, RevokeKeeps DEF Types
<1>5. ASSUME NEW v \in Execs PROVE Good(v)'
  <2>1. Good(v) /\ Left(v)' = Left(v)
    BY DEF IInv, Left
  <2>2. Counted(v)'
    BY <1>1, <1>3, <1>4, <2>1, RevokeKeeps, FewerKeep DEF Good
  <2>3. CASE Open(v)
    <3>1. v \in Running
      BY <2>3 DEF Running
    <3>2. Granted(v)'
      BY <1>1, <1>3, <3>1, RevokeKeeps DEF Granted
    <3>3. Begun(v)' /\ Doubted(v)'
      BY <1>2, <2>1, <2>3 DEF Good, Begun, Doubted, Unborn, Open
    <3>4. Coded(v)'
      <4>1. Sent(v, "exit0")' => Sent(v, "exit0")
        BY <2>3 DEF Sent
      <4> QED BY <2>1, <2>3, <4>1 DEF Good, Coded
    <3>5. Ended(v)'
      BY <1>2, <2>1, <2>3 DEF Good, Ended, Open
    <3> QED BY <2>2, <3>2, <3>3, <3>4, <3>5 DEF Good
  <2>4. CASE ~Open(v)
    <3>1. host'[v] = host[v] /\ relay'[v] = relay[v] /\ grant'[v] = grant[v] /\ request'[v] = request[v]
      BY <1>1, <1>3, <2>4, RevokeKeeps DEF Running
    <3>2. Begun(v)' /\ Granted(v)' /\ Doubted(v)'
      BY <1>2, <2>1, <2>4, <3>1 DEF Good, Begun, Granted, Doubted, Unborn, Open
    <3>3. Coded(v)' /\ Ended(v)'
      BY <1>2, <2>1, <3>1 DEF Good, Coded, Sent, Ended
    <3> QED BY <2>2, <3>2, <3>3 DEF Good
  <2> QED BY <2>3, <2>4
<1>6. StopsOnlyDoubted'
  <2>1. ASSUME NEW v \in Execs
        PROVE  host'[v].box = host[v].box /\ (host[v].doubt => host'[v].doubt)
    <3>1. CASE Open(v)
      BY <3>1
    <3>2. CASE ~Open(v)
      BY <3>2
    <3> QED BY <3>1, <3>2
  <2> QED BY <2>1 DEF IInv, StopsOnlyDoubted
<1> QED BY <1>4, <1>5, <1>6 DEF IInv

(* One end is in doubt, or the adapter is closed.                            *)
LEMMA DoubtKeeps ==
  ASSUME IInv, CloseAll \/ \E e \in Execs : Doubt(e)
  PROVE  IInv'
<1>1. Types
  BY DEF IInv
<1>2. ASSUME NEW v \in Execs
      PROVE  /\ host[v] \in Hosts /\ Stopped(v) \in Hosts /\ ~Stopped(v).stdin
             /\ Stopped(v).pc = host[v].pc /\ Stopped(v).box = host[v].box
             /\ Stopped(v).terminating = host[v].terminating /\ Stopped(v).code = host[v].code
             /\ Stopped(v).doubt = host[v].doubt
  BY ZenonT(30), <1>1 DEF Types, Stopped, Hosts
<1>3. CASE CloseAll
  <2>1. \A v \in Execs : host'[v] = IF Open(v) THEN Stopped(v) ELSE host[v]
    BY <1>3 DEF CloseAll
  <2>2. host' \in [Execs -> Hosts]
    BY <1>2, <1>3 DEF CloseAll
  <2>3. relay' = relay /\ relay' \in [Execs -> Relays]
    BY <1>1, <1>3 DEF CloseAll, Types
  <2> QED BY <1>2, <1>3, <2>1, <2>2, <2>3, StopsKeep DEF CloseAll
<1>4. ASSUME NEW e \in Execs, Doubt(e) PROVE IInv'
  <2>1. PICK h : h = [Stopped(e) EXCEPT !.pc = "doubt", !.doubt = TRUE]
    OBVIOUS
  <2>2. h \in Hosts /\ h.pc = "doubt" /\ h.doubt /\ ~h.stdin /\ h.box = host[e].box
        /\ h.terminating = host[e].terminating /\ h.code = host[e].code
    BY ZenonT(30), <1>2, <2>1 DEF Hosts
  <2>3. host' = [v \in Execs |-> IF v = e THEN h ELSE IF Open(v) THEN Stopped(v) ELSE host[v]]
    BY <1>4, <2>1 DEF Doubt
  <2>4. host' \in [Execs -> Hosts] /\ host'[e] = h
        /\ \A v \in Execs \ {e} : host'[v] = IF Open(v) THEN Stopped(v) ELSE host[v]
    BY <1>2, <2>2, <2>3
  <2>5. PICK l : l = [relay[e] EXCEPT !.out = <<>>]
    OBVIOUS
  <2>6. l \in Relays /\ l.st = relay[e].st /\ l.prompts = relay[e].prompts /\ l.out = <<>>
    <3>1. relay[e] \in Relays /\ <<>> \in Seq(Frames)
      BY <1>1 DEF Types
    <3> QED BY <2>5, <3>1 DEF Relays
  <2>7. relay' = [relay EXCEPT ![e] = l]
    BY <1>4, <2>5 DEF Doubt
  <2>8. relay' \in [Execs -> Relays] /\ relay'[e] = l /\ \A v \in Execs \ {e} : relay'[v] = relay[v]
    BY <1>1, <2>6, <2>7, OneRelay
  <2>9. Open(e)
    BY <1>4 DEF Doubt, Open
  <2>10. ASSUME NEW v \in Execs
         PROVE  /\ ~Open(v) => host'[v] = host[v] /\ relay'[v] = relay[v]
                /\ Open(v) =>
                     /\ host'[v].box = host[v].box /\ host'[v].terminating = host[v].terminating
                     /\ host'[v].code = host[v].code
                     /\ host[v].doubt => host'[v].doubt
                     /\ host'[v].pc \in {host[v].pc, "doubt"}
                     /\ host'[v].pc = "doubt" => host[v].pc = "doubt" \/ host'[v].doubt
                     /\ ~host'[v].stdin
                     /\ relay'[v].st = relay[v].st /\ relay'[v].prompts = relay[v].prompts
                     /\ relay'[v].out \in {relay[v].out, <<>>}
    <3>1. CASE v = e
      BY <2>2, <2>4, <2>6, <2>8, <2>9, <3>1
    <3>2. CASE v # e
      BY <1>2, <2>4, <2>8, <3>2
    <3> QED BY <3>1, <3>2
  <2>11. adapter' = StopsAdapter /\ RevokesAll(Running) /\ UNCHANGED <<box, sup, agent>>
    BY <1>4 DEF Doubt
  <2> QED BY <2>4, <2>8, <2>10, <2>11, StopsKeep
<1> QED BY <1>3, <1>4

(* docker stop leaves nothing of any execution in that container.            *)
LEMMA StopBoxKeeps ==
  ASSUME IInv, NEW e \in Execs, StopBox(e)
  PROVE  IInv'
<1> USE ConstantsOK
<1>1. Types /\ Good(e) /\ host[e].pc = "doubt" /\ host[e] \in Hosts /\ RevokesAll({e}) /\ UNCHANGED adapter
  BY DEF IInv, Types, StopBox
<1>2. host[e].box \in Boxes /\ host[e].doubt /\ adapter.stopped
  BY <1>1 DEF Good, Begun, Unborn, Doubted
<1> DEFINE there == {v \in Execs : host[v].box = host[e].box}
<1>3. PICK h : h = Closed(host[e], "exit1")
  OBVIOUS
<1>4. h \in Hosts /\ h.pc = "closed" /\ h.box = host[e].box /\ ~h.stdin /\ h.code = "exit1"
      /\ h.doubt = host[e].doubt
  BY <1>1, <1>3 DEF Closed, Hosts
<1>5. host' \in [Execs -> Hosts] /\ host'[e] = h /\ \A v \in Execs \ {e} : host'[v] = host[v]
  <2>1. host' = [host EXCEPT ![e] = h]
    BY <1>3 DEF StopBox
  <2> QED BY <1>1, <1>4, <2>1, OneHost
<1>6. box' \in [Boxes -> BOOLEAN] /\ box'[host[e].box] /\ \A b \in Boxes \ {host[e].box} : box'[b] = box[b]
  BY <1>1, <1>2 DEF StopBox, OwnBox, Types
<1>7. ASSUME NEW v \in Execs
      PROVE  /\ sup'[v] \in Sups /\ relay'[v] \in Relays /\ agent'[v] \in Agents
             /\ sup'[v] = "exited" => sup[v] = "exited"
             /\ v \notin there => sup'[v] = sup[v] /\ relay'[v] = relay[v] /\ agent'[v] = agent[v]
             /\ v \in there => /\ relay'[v].st = "gone" /\ relay'[v].out = relay[v].out
                               /\ relay'[v].prompts = relay[v].prompts
                               /\ agent'[v].st = "gone" /\ agent'[v].code = agent[v].code /\ Left(v)' = 0
  <2>1. sup[v] \in Sups /\ relay[v] \in Relays /\ agent[v] \in Agents
    BY <1>1 DEF Types
  <2>2. CASE v \in there
    <3>1. /\ sup'[v] = IF sup[v] \in {"up", "closing"} THEN "dead" ELSE sup[v]
          /\ relay'[v] = [relay[v] EXCEPT !.st = "gone"]
          /\ agent'[v] = [agent[v] EXCEPT !.st = "gone", !.seen = 0, !.fresh = 0]
      BY <2>2 DEF StopBox, OwnBox
    <3>2. sup'[v] \in Sups /\ (sup'[v] = "exited" => sup[v] = "exited")
      BY <2>1, <3>1 DEF Sups
    <3>3. relay'[v] \in Relays /\ relay'[v].st = "gone" /\ relay'[v].out = relay[v].out
          /\ relay'[v].prompts = relay[v].prompts
      BY <2>1, <3>1 DEF Relays
    <3>4. agent'[v] \in Agents /\ agent'[v].st = "gone" /\ agent'[v].code = agent[v].code
          /\ agent'[v].seen = 0 /\ agent'[v].fresh = 0
      <4>1. PICK a : a = [agent[v] EXCEPT !.st = "gone", !.seen = 0, !.fresh = 0]
        OBVIOUS
      <4>2. a \in Agents /\ a.st = "gone" /\ a.code = agent[v].code /\ a.seen = 0 /\ a.fresh = 0
        BY <2>1, <4>1 DEF Agents
      <4> QED BY <3>1, <4>1, <4>2
    <3>5. Left(v)' = 0
      BY <3>4 DEF Left
    <3> QED BY <2>2, <3>2, <3>3, <3>4, <3>5
  <2>3. CASE v \notin there
    BY <2>1, <2>3 DEF StopBox, OwnBox
  <2> QED BY <2>2, <2>3
<1>8. sup' \in [Execs -> Sups] /\ relay' \in [Execs -> Relays] /\ agent' \in [Execs -> Agents]
  <2>1. /\ sup' = [v \in Execs |-> sup'[v]] /\ relay' = [v \in Execs |-> relay'[v]]
        /\ agent' = [v \in Execs |-> agent'[v]]
    BY DEF StopBox
  <2> QED BY <1>7, <2>1
<1>9. Types'
  BY <1>1, <1>5, <1>6, <1>8, RevokeKeeps DEF Types
<1>10. ASSUME NEW v \in Execs PROVE Good(v)'
  <2>1. Good(v)
    BY DEF IInv
  <2>2. Counted(v)'
    BY <1>1, <1>9, <2>1, RevokeKeeps, FewerKeep DEF Good
  <2>3. Granted(v)'
    <3>1. CASE v = e
      BY <1>1, <3>1, RevokeKeeps DEF Granted
    <3>2. CASE v # e
      BY <1>1, <1>5, <2>1, <3>2, RevokeKeeps DEF Good, Granted, Open
    <3> QED BY <3>1, <3>2
  <2>4. Doubted(v)'
    BY <1>1, <1>2, <1>4, <1>5, <2>1 DEF Good, Doubted
  <2>5. Coded(v)'
    BY <1>4, <1>5, <1>7, <2>1 DEF Good, Coded, Sent
  <2>6. CASE v \in there
    <3>1. ~Unborn(v)
      BY <1>2, <2>1, <2>6 DEF Good, Begun
    <3>2. Begun(v)'
      BY <1>4, <1>5, <2>1, <3>1 DEF Good, Begun, Unborn, Open
    <3>3. Ended(v)'
      <4>1. ~(Left(v)' > 0)
        <5>1. Left(v)' = 0
          BY <1>7, <2>6
        <5> QED BY <5>1
      <4> QED BY <1>7, <2>1, <2>6, <4>1 DEF Good, Ended
    <3> QED BY <2>2, <2>3, <2>4, <2>5, <3>2, <3>3 DEF Good
  <2>7. CASE v \notin there
    <3>1. v # e /\ host'[v] = host[v] /\ sup'[v] = sup[v] /\ relay'[v] = relay[v] /\ agent'[v] = agent[v]
          /\ Left(v)' = Left(v)
      BY <1>5, <1>7, <2>7 DEF Left
    <3>2. request'[v] = request[v]
      BY <1>1, <3>1, RevokeKeeps
    <3>3. Begun(v)'
      BY <2>1, <3>1, <3>2 DEF Good, Begun, Unborn, Open
    <3>4. host[v].box # Nobody => box'[host[v].box] = box[host[v].box]
      <4>1. host[v].box \in Boxes \cup {Nobody} /\ host[v].box # host[e].box
        BY <1>1, <2>7 DEF Types, Hosts
      <4> QED BY <1>6, <4>1
    <3>5. Ended(v)'
      BY <1>1, <2>1, <3>1, <3>4 DEF Good, Ended
    <3> QED BY <2>2, <2>3, <2>4, <2>5, <3>3, <3>5 DEF Good
  <2> QED BY <2>6, <2>7
<1>11. StopsOnlyDoubted'
  <2> SUFFICES ASSUME NEW b \in Boxes, box'[b]
               PROVE  \E v \in Execs : host'[v].box = b /\ host'[v].doubt
    BY DEF StopsOnlyDoubted
  <2>1. CASE b = host[e].box
    BY <1>2, <1>4, <1>5, <2>1
  <2>2. CASE b # host[e].box
    <3>1. PICK v \in Execs : host[v].box = b /\ host[v].doubt
      BY <1>6, <2>2 DEF IInv, StopsOnlyDoubted
    <3> QED BY <1>5, <2>2, <3>1
  <2> QED BY <2>1, <2>2
<1> QED BY <1>9, <1>10, <1>11 DEF IInv

(* A new container is one that runs; no execution moves.                     *)
LEMMA RebindKeeps ==
  ASSUME IInv, NEW b \in Boxes, Rebind(b)
  PROVE  IInv'
<1>1. Types /\ UNCHANGED <<box, host, grant, request, sup, relay, agent>>
  BY DEF IInv, Rebind
<1>2. adapter' \in [bound : Boxes, stopped : BOOLEAN] /\ adapter'.stopped = adapter.stopped
  BY <1>1 DEF Rebind, Types
<1>3. Types'
  BY <1>1, <1>2 DEF Types
<1>4. \A v \in Execs : Good(v) /\ Untouched(v)
  BY <1>1 DEF IInv, Untouched
<1>5. \A v \in Execs : Good(v)'
  BY <1>1, <1>2, <1>4, OthersKeep
<1>6. StopsOnlyDoubted'
  BY <1>1 DEF IInv, StopsOnlyDoubted
<1> QED BY <1>3, <1>5, <1>6 DEF IInv

-----------------------------------------------------------------------------
(* Every step keeps what an execution's parts have to do with each other. *)
THEOREM StepInvariant == IInv /\ [Next]_vars => IInv'
<1> SUFFICES ASSUME IInv, [Next]_vars PROVE IInv'
  OBVIOUS
<1>1. CASE CloseAll
  BY <1>1, DoubtKeeps
<1>2. ASSUME NEW b \in Boxes, Rebind(b) PROVE IInv'
  BY <1>2, RebindKeeps
<1>3. ASSUME NEW e \in Execs,
             \/ Spawn(e) \/ SpawnFails(e) \/ Fail(e) \/ Read(e) \/ Finish(e) \/ Doubt(e)
             \/ StopBox(e) \/ StopBoxFails(e) \/ Expire(e)
      PROVE  IInv'
  BY <1>3, SpawnKeeps, FailKeeps, ReadKeeps, DoubtKeeps, StopBoxKeeps, ExpireKeeps
<1>4. ASSUME NEW e \in Execs,
             \/ RelayStarts(e) \/ RelayFails(e) \/ Fork(e) \/ RelayFinishes(e) \/ RelayShutsDown(e)
             \/ RelayKilled(e) \/ SupCloses(e) \/ Kill(e) \/ SupExits(e) \/ SupDies(e)
             \/ \E c \in {"exit0", "exit1"}, n \in 0 .. MaxForks : AgentExits(e, c, n)
      PROVE  IInv'
  BY <1>4, StartKeeps, AgentKeeps, RelayKeeps, SupKeeps
<1>5. ASSUME NEW e \in Execs, NEW r \in Slots,
             Admit(e, r) \/ Prepare(e, r) \/ Forward(e, r) \/ Refuse(e, r) \/ Answer(e, r) \/ GiveUp(e, r)
      PROVE  IInv'
  BY <1>5, AdmitKeeps, PrepareKeeps, ForwardKeeps, RequestKeeps
<1>6. CASE UNCHANGED vars
  <2>1. Types /\ UNCHANGED <<adapter, box, host, grant, request, sup, relay, agent>>
    BY <1>6 DEF IInv, vars
  <2>2. Types'
    BY <2>1 DEF Types
  <2>3. \A v \in Execs : Good(v)'
    BY <2>1, OthersKeep DEF IInv, Untouched
  <2>4. StopsOnlyDoubted'
    BY <2>1 DEF IInv, StopsOnlyDoubted
  <2> QED BY <2>2, <2>3, <2>4 DEF IInv
<1> QED BY <1>1, <1>2, <1>3, <1>4, <1>5, <1>6 DEF Next

(* It holds at all times. *)
THEOREM Safety == Spec => []IInv
BY InitInvariant, StepInvariant, PTL DEF Spec

(* Every variable keeps to its type, and the broker to its limits. *)
THEOREM TypeCorrect == Spec => []TypeOK
<1> USE ConstantsOK
<1>1. ASSUME IInv PROVE TypeOK
  <2>1. Types
    BY <1>1 DEF IInv
  <2>2. ASSUME NEW e \in Execs
        PROVE  /\ host[e].pc \in {"idle", "starting", "ready", "doubt", "failed", "closed"}
               /\ Cardinality(Active(e)) <= MaxConcurrent /\ grant[e].forwarded <= grant[e].admitted
               /\ grant[e].admitted <= MaxRequests
               /\ sup[e] \in {"none", "up", "closing", "exited", "dead"}
               /\ relay[e].st \in {"none", "up", "gone"} /\ relay[e].out \in Seq({"ready", "error", "exit0", "exit1"})
               /\ Left(e) > 0 => host[e].box # Nobody /\ ~box[host[e].box]
               /\ relay[e].prompts => Staged
               /\ host[e].stdin => Open(e)
               /\ host[e].pc \in {"failed", "closed"} \/ host[e].terminating => grant[e].revoked
    <3>1. Good(e) /\ host[e] \in Hosts /\ grant[e] \in Grants /\ sup[e] \in Sups /\ relay[e] \in Relays
      BY <1>1 DEF IInv, Types
    <3>2. grant[e].forwarded <= grant[e].admitted
      <4>1. Pending(e) \in SUBSET Slots
        BY DEF Pending
      <4>2. Cardinality(Pending(e)) \in Nat
        BY <4>1, FS_Subset, FS_CardinalityType
      <4>3. grant[e].forwarded + Cardinality(Pending(e)) <= grant[e].admitted
            /\ grant[e].forwarded \in Nat /\ grant[e].admitted \in Nat
        BY <3>1 DEF Good, Counted, Grants
      <4> QED BY <4>2, <4>3
    <3>3. Left(e) > 0 => host[e].box # Nobody /\ ~box[host[e].box]
      <4>1. Left(e) > 0 => Left(e) # 0
        OBVIOUS
      <4> QED BY <3>1, <4>1 DEF Good, Begun, Ended
    <3> QED BY <3>1, <3>2, <3>3 DEF Good, Counted, Ended, Begun, Granted, Hosts, Sups, Relays, Frames
  <2> QED BY <2>1, <2>2 DEF Types, TypeOK
<1> QED BY <1>1, Safety, PTL

(* No provider request runs for an execution that was canceled or has ended, *)
(* nor for one whose adapter has stopped. *)
THEOREM NothingUsedAfterEnd == Spec => []NoUseAfterEnd
<1>1. ASSUME IInv PROVE NoUseAfterEnd
  <2> SUFFICES ASSUME NEW e \in Execs, NEW r \in Slots, request[e][r].st = "upstream"
               PROVE  Open(e) /\ ~host[e].terminating /\ ~adapter.stopped
    BY DEF NoUseAfterEnd
  <2>1. Good(e) /\ host[e] \in Hosts
    BY <1>1 DEF IInv, Types
  <2>2. ~grant[e].revoked /\ ~Unborn(e)
    BY <2>1 DEF Good, Granted, Begun
  <2> QED BY <2>1, <2>2 DEF Good, Granted, Open, Unborn, Hosts
<1> QED BY <1>1, Safety, PTL

(* A code of success is the agent's own, of an execution nobody canceled. *)
THEOREM SuccessIsTheAgents == Spec => []SuccessIsOwn
<1>1. IInv => SuccessIsOwn
  BY DEF IInv, Good, Coded, SuccessIsOwn
<1> QED BY <1>1, Safety, PTL

(* docker stop hits only the container of an execution in doubt. *)
THEOREM OnlyDoubtedStop == Spec => []StopsOnlyDoubted
<1>1. IInv => StopsOnlyDoubted
  BY DEF IInv
<1> QED BY <1>1, Safety, PTL

(* What is reported closed is gone, or the host says that it cannot tell. *)
THEOREM ClosedMeansGone == Spec => []ClosedIsGone
<1>1. IInv => ClosedIsGone
  BY DEF IInv, Good, Ended, ClosedIsGone
<1> QED BY <1>1, Safety, PTL

(* Both at once: a doubt about an execution is seen, and stays in its         *)
(* container.                                                                 *)
THEOREM DoubtStaysContained == Spec => []DoubtIsContained
BY OnlyDoubtedStop, ClosedMeansGone, PTL DEF DoubtIsContained

(* No execution starts once a cleanup is in doubt: the adapter has stopped, *)
(* and never starts again. *)
THEOREM NothingStartsInDoubt == Spec => NoStartInDoubt
<1> DEFINE Kept == \A e, v \in Execs : host[v].doubt /\ host[e].pc = "idle" => host'[e].pc = "idle"
<1>1. ASSUME IInv, [Next]_vars PROVE Kept
  <2> SUFFICES ASSUME NEW e \in Execs, NEW v \in Execs, host[v].doubt, host[e].pc = "idle"
               PROVE  host'[e].pc = "idle"
    OBVIOUS
  <2>1. Types /\ adapter.stopped /\ Unborn(e) /\ ~Open(e)
    BY <1>1 DEF IInv, Good, Doubted, Unborn, Open
  <2>2. CASE UNCHANGED host
    BY <2>2
  <2>3. ASSUME NEW w \in Execs, w # e, NEW h, host' = [host EXCEPT ![w] = h]
        PROVE  host'[e].pc = "idle"
    BY <2>1, <2>3 DEF Types
  <2>4. ASSUME NEW w \in Execs, Fail(w) \/ Read(w) \/ Finish(w) \/ StopBox(w) \/ StopBoxFails(w)
        PROVE  host'[e].pc = "idle"
    <3>1. w # e
      BY <2>1, <2>4 DEF Fail, Read, Finish, StopBox, StopBoxFails, Open
    <3>2. CASE Fail(w)
      BY <2>3, <3>1, <3>2 DEF Fail
    <3>3. CASE Finish(w)
      BY <2>3, <3>1, <3>3 DEF Finish
    <3>4. CASE StopBox(w)
      BY <2>3, <3>1, <3>4 DEF StopBox
    <3>5. CASE StopBoxFails(w)
      BY <2>3, <3>1, <3>5 DEF StopBoxFails
    <3>6. CASE Read(w)
      <4>1. \E h : host' = [host EXCEPT ![w] = h]
        BY <3>6 DEF Read
      <4> QED BY <2>3, <3>1, <4>1
    <3> QED BY <2>4, <3>2, <3>3, <3>4, <3>5, <3>6
  <2>5. ASSUME NEW w \in Execs, Spawn(w) \/ SpawnFails(w) PROVE FALSE
    BY <2>1, <2>5 DEF Spawn, SpawnFails
  <2>6. ASSUME NEW w \in Execs, Doubt(w) PROVE host'[e].pc = "idle"
    <3>1. w # e
      BY <2>6 DEF Doubt
    <3>2. host' = [u \in Execs |-> IF u = w THEN [Stopped(w) EXCEPT !.pc = "doubt", !.doubt = TRUE]
                                   ELSE IF Open(u) THEN Stopped(u) ELSE host[u]]
      BY <2>6 DEF Doubt
    <3> QED BY <2>1, <3>1, <3>2
  <2>7. CASE CloseAll
    BY <2>1, <2>7 DEF CloseAll
  <2>8. ASSUME NEW w \in Execs,
               \/ Expire(w) \/ RelayStarts(w) \/ RelayFails(w) \/ Fork(w) \/ RelayFinishes(w)
               \/ RelayShutsDown(w) \/ RelayKilled(w) \/ SupCloses(w) \/ Kill(w) \/ SupExits(w) \/ SupDies(w)
               \/ \E c \in {"exit0", "exit1"}, n \in 0 .. MaxForks : AgentExits(w, c, n)
               \/ \E r \in Slots : \/ Admit(w, r) \/ Prepare(w, r) \/ Forward(w, r)
                                   \/ Refuse(w, r) \/ Answer(w, r) \/ GiveUp(w, r)
        PROVE  UNCHANGED host
    BY <2>8 DEF Expire, RelayStarts, RelayFails, Fork, RelayFinishes, RelayShutsDown, RelayKilled, SupCloses,
       Kill, SupExits, SupDies, AgentExits, Admit, Prepare, Forward, Refuse, Answer, GiveUp
  <2>9. ASSUME NEW b \in Boxes, Rebind(b) PROVE UNCHANGED host
    BY <2>9 DEF Rebind
  <2>10. UNCHANGED vars => UNCHANGED host
    BY DEF vars
  <2> QED BY <1>1, <2>2, <2>4, <2>5, <2>6, <2>7, <2>8, <2>9, <2>10 DEF Next
<1>2. IInv /\ [Next]_vars => [Kept]_vars
  BY <1>1
<1> QED BY <1>2, Safety, PTL DEF Spec, NoStartInDoubt

-----------------------------------------------------------------------------
(* Codex has an execution for every task.  The line of a context's tasks is   *)
(* in order for every number of tasks and contexts: only the head of a line   *)
(* may have a process.                                                        *)
(* The place at which each task joined its line, for the tasks in it: nobody  *)
(* shares a place, who has somebody before it waits for one who is not before *)
(* that one, and the last is the worker's tail.                               *)
InLine(n) ==
  /\ n \in [Tasks -> Nat]
  /\ \A t, u \in held : ctx[t] = ctx[u] /\ t # u =>
       /\ n[t] # n[u]
       /\ n[u] < n[t] => prev[t] \in held /\ n[u] <= n[prev[t]] /\ n[prev[t]] < n[t] /\ ctx[prev[t]] = ctx[t]
  /\ \A t \in held : tail[ctx[t]] \in held /\ ctx[tail[ctx[t]]] = ctx[t] /\ n[t] <= n[tail[ctx[t]]]

(* Who works has the turn; who is in the line uses the present worker.        *)
Lines ==
  /\ \E n \in [Tasks -> Nat] : InLine(n)
  /\ \A t \in held : state[t] # "new" /\ worker[ctx[t]] # Nothing /\ uses[t] = worker[ctx[t]]
  /\ \A t \in Tasks : state[t] \in {"running", "closing"} => t \in held /\ Codex!Turn(t)
  /\ \A t \in Tasks : proc[t] \in {"alive", "killed"} => state[t] \in {"running", "closing"}

Answers ==
  /\ \A t \in Tasks : verdict[t] # Nothing => state[t] = "done"
  /\ \A t \in signal : state[t] # "new"

(* Nobody waits for a task that has not come.                                 *)
Precedes == \A t \in Tasks : prev[t] # Nothing => state[prev[t]] # "new"

Tails == \A c \in Contexts : tail[c] # Nothing => state[tail[c]] # "new"

LinesInv == Codex!ConstantsOK /\ Codex!TypeOK /\ Lines /\ Precedes /\ Tails /\ Answers /\ Codex!CancelWins

-----------------------------------------------------------------------------
(* Nothing is there before a task arrives. *)
THEOREM LinesInit == Codex!ConstantsOK /\ Codex!Init => LinesInv
<1> SUFFICES ASSUME Codex!ConstantsOK, Codex!Init PROVE LinesInv
  OBVIOUS
<1> USE DEF Codex!Init
<1>1. Codex!TypeOK
  BY DEF Codex!ConstantsOK, Codex!TypeOK
<1>2. InLine([t \in Tasks |-> 0]) /\ [t \in Tasks |-> 0] \in [Tasks -> Nat]
  BY DEF InLine
<1>3. Lines
  BY <1>2 DEF Lines
<1>4. Precedes /\ Tails /\ Answers /\ Codex!CancelWins
  BY DEF Precedes, Tails, Answers, Codex!CancelWins
<1> QED BY <1>1, <1>3, <1>4 DEF LinesInv

-----------------------------------------------------------------------------
LEMMA Smaller == \A a, b \in Nat : a <= b /\ a # b => a < b
  OBVIOUS

(* A barrier that comes down is the head's, so the others stay in their order. *)
LEMMA HeadLeaves ==
  ASSUME Codex!ConstantsOK, NEW n \in [Tasks -> Nat], InLine(n), Codex!TypeOK,
         NEW x \in held, Codex!Turn(x), held' = held \ {x},
         UNCHANGED <<prev, tail>>
  PROVE  InLine(n)'
<1> USE DEF InLine, Codex!Turn, Codex!TypeOK
<1>1. ASSUME NEW t \in held', NEW u \in held', ctx[t] = ctx[u], t # u
      PROVE  /\ n[t] # n[u]
             /\ n[u] < n[t] => /\ prev[t] \in held' /\ n[u] <= n[prev[t]]
                               /\ n[prev[t]] < n[t] /\ ctx[prev[t]] = ctx[t]
  <2>1. t \in held /\ u \in held /\ u # x
    BY <1>1
  <2>2. ASSUME n[u] < n[t] PROVE prev[t] # x
    <3>1. prev[t] \in held /\ n[u] <= n[prev[t]] /\ ctx[prev[t]] = ctx[t]
      BY <1>1, <2>1, <2>2
    <3>2. ASSUME prev[t] = x PROVE FALSE
      <4>1. n[u] <= n[x] /\ ctx[x] = ctx[u] /\ n[u] # n[x]
        BY <1>1, <2>1, <3>1, <3>2
      <4>2. n[u] \in Nat /\ n[x] \in Nat
        BY <2>1
      <4>3. n[u] < n[x]
        BY <4>1, <4>2, Smaller
      <4> QED BY <2>1, <4>1, <4>3
    <3> QED BY <3>2
  <2> QED BY <1>1, <2>1, <2>2
<1>2. ASSUME NEW t \in held'
      PROVE  tail'[ctx[t]] \in held' /\ ctx[tail'[ctx[t]]] = ctx[t] /\ n[t] <= n[tail'[ctx[t]]]
  <2>1. t \in held /\ t # x
    BY <1>2
  <2>2. tail[ctx[t]] \in held /\ ctx[tail[ctx[t]]] = ctx[t] /\ n[t] <= n[tail[ctx[t]]]
    BY <2>1
  <2>3. ASSUME tail[ctx[t]] = x PROVE FALSE
    <3>1. n[t] <= n[x] /\ ctx[x] = ctx[t] /\ n[t] # n[x]
      BY <2>1, <2>2, <2>3
    <3>2. n[t] \in Nat /\ n[x] \in Nat
      BY <2>1
    <3>3. n[t] < n[x]
      BY <3>1, <3>2, Smaller
    <3> QED BY <2>1, <3>1, <3>3
  <2> QED BY <1>2, <2>2, <2>3
<1> QED BY <1>1, <1>2

(* A task that joins takes the place behind the tail of its line. *)
LEMMA TailJoins ==
  ASSUME LinesInv, NEW t \in Tasks, Codex!Arrive(t), ~stopped
  PROVE  \E n \in [Tasks -> Nat] : InLine(n)'
<1>0. Codex!ConstantsOK
  BY DEF LinesInv
<1> USE <1>0 DEF Codex!ConstantsOK
<1>1. PICK n \in [Tasks -> Nat] : InLine(n)
  BY DEF LinesInv, Lines
<1>2. PICK old \in SUBSET {c \in Contexts : worker[c] # Nothing /\ Codex!Idle(c)} :
        /\ tail' = [tail EXCEPT ![ctx[t]] = t]
        /\ held' = held \cup {t}
        /\ prev' = [prev EXCEPT ![t] = IF worker[ctx[t]] = Nothing \/ ctx[t] \in old THEN Nothing
                                       ELSE tail[ctx[t]]]
  BY DEF Codex!Arrive
<1>3. t \notin held /\ ctx[t] \in Contexts
  BY DEF Codex!Arrive, LinesInv, Lines
<1>4. ASSUME NEW u \in held, ctx[u] = ctx[t]
      PROVE  prev'[t] = tail[ctx[t]] /\ tail[ctx[t]] \in held
  <2>1. worker[ctx[t]] # Nothing /\ ctx[t] \notin old
    BY <1>4 DEF LinesInv, Lines, Codex!Idle, Codex!Pending
  <2> QED BY <1>1, <1>2, <1>4, <2>1 DEF InLine, LinesInv, Codex!TypeOK
<1> DEFINE last == tail[ctx[t]]
<1>5. PICK m \in [Tasks -> Nat] : /\ \A u \in held : m[u] = n[u]
                                  /\ last \in Tasks => m[t] = n[last] + 1
  <2> DEFINE place == IF last \in Tasks THEN n[last] + 1 ELSE 0
  <2>1. place \in Nat
    OBVIOUS
  <2> HIDE DEF place
  <2>2. [n EXCEPT ![t] = place] \in [Tasks -> Nat] /\ [n EXCEPT ![t] = place][t] = place
    BY <2>1
  <2>3. \A u \in held : [n EXCEPT ![t] = place][u] = n[u]
    BY <1>3 DEF LinesInv, Codex!TypeOK
  <2> QED BY <2>2, <2>3 DEF place
<1>6. InLine(m)'
  <2>1. ASSUME NEW u \in held, ctx[u] = ctx[t] PROVE n[u] <= n[last] /\ last \in held /\ m[t] = n[last] + 1
    <3>1. last \in held /\ n[u] <= n[last]
      BY <1>1, <2>1 DEF InLine
    <3> QED BY <3>1, <1>5 DEF LinesInv, Codex!TypeOK
  <2>2. \A u \in held : prev'[u] = prev[u]
    BY <1>2, <1>3 DEF LinesInv, Codex!TypeOK
  <2>3. ASSUME NEW a \in held', NEW b \in held', ctx[a] = ctx[b], a # b
        PROVE  /\ m[a] # m[b]
               /\ m[b] < m[a] => /\ prev'[a] \in held' /\ m[b] <= m[prev'[a]]
                                 /\ m[prev'[a]] < m[a] /\ ctx[prev'[a]] = ctx[a]
    <3>1. CASE a = t
      <4>1. b \in held /\ ctx[b] = ctx[t]
        BY <2>3, <3>1, <1>2
      <4>2. prev'[t] = last /\ last \in held /\ ctx[last] = ctx[t]
        BY <1>4, <4>1, <1>1 DEF InLine
      <4> QED BY <2>1, <4>1, <4>2, <3>1, <1>5, <1>2 DEF LinesInv, Codex!TypeOK
    <3>2. CASE b = t
      <4>1. a \in held /\ ctx[a] = ctx[t]
        BY <2>3, <3>2, <1>2
      <4> QED BY <2>1, <4>1, <3>2, <1>5 DEF LinesInv, Codex!TypeOK
    <3>3. CASE a # t /\ b # t
      <4>1. a \in held /\ b \in held
        BY <3>3, <1>2
      <4> QED BY <1>1, <1>2, <2>2, <2>3, <4>1, <1>5 DEF InLine
    <3> QED BY <3>1, <3>2, <3>3
  <2>4. ASSUME NEW a \in held'
        PROVE  tail'[ctx[a]] \in held' /\ ctx[tail'[ctx[a]]] = ctx[a] /\ m[a] <= m[tail'[ctx[a]]]
    <3>1. CASE ctx[a] = ctx[t]
      <4>1. tail'[ctx[a]] = t
        BY <3>1, <1>2, <1>3 DEF LinesInv, Codex!TypeOK
      <4>2. a # t => m[a] <= m[t]
        BY <3>1, <1>2, <2>1, <1>5 DEF LinesInv, Codex!TypeOK
      <4>3. m[t] \in Nat
        BY <1>5
      <4> QED BY <4>1, <4>2, <4>3, <3>1, <1>2
    <3>2. CASE ctx[a] # ctx[t]
      <4>1. a \in held /\ tail'[ctx[a]] = tail[ctx[a]]
        BY <3>2, <1>2, <1>3 DEF LinesInv, Codex!TypeOK
      <4> QED BY <1>1, <1>2, <4>1, <1>5 DEF InLine
    <3> QED BY <3>1, <3>2
  <2> QED BY <2>3, <2>4, <1>5 DEF InLine
<1> QED BY <1>5, <1>6

(* Nobody joins or leaves a line. *)
LEMMA SameLine ==
  ASSUME LinesInv, UNCHANGED <<prev, tail, held>>
  PROVE  \E n \in [Tasks -> Nat] : InLine(n)'
<1>1. PICK n \in [Tasks -> Nat] : InLine(n)
  BY DEF LinesInv, Lines
<1>2. InLine(n)'
  BY <1>1 DEF InLine
<1> QED BY <1>2

(* The head of a line, known as such, leaves it. *)
LEMMA ShorterLine ==
  ASSUME LinesInv, NEW x \in held, Codex!Turn(x), held' = held \ {x}, UNCHANGED <<prev, tail>>
  PROVE  \E n \in [Tasks -> Nat] : InLine(n)'
<1>1. PICK n \in [Tasks -> Nat] : InLine(n)
  BY DEF LinesInv, Lines
<1>2. InLine(n)'
  BY <1>1, HeadLeaves DEF LinesInv
<1> QED BY <1>2

-----------------------------------------------------------------------------
(* A task joins its line, or is turned away. *)
LEMMA ArriveKeeps ==
  ASSUME LinesInv, NEW t \in Tasks, Codex!Arrive(t)
  PROVE  LinesInv'
<1>0. Codex!ConstantsOK
  BY DEF LinesInv
<1> USE <1>0 DEF Codex!ConstantsOK
<1>1. CASE stopped
  <2> USE <1>1 DEF Codex!Arrive
  <2>1. Codex!TypeOK'
    BY DEF LinesInv, Codex!TypeOK, Codex!Ends
  <2>2. Lines'
    BY SameLine DEF LinesInv, Codex!TypeOK, Lines, Codex!Turn
  <2>3. Precedes' /\ Tails' /\ Answers' /\ Codex!CancelWins'
    BY DEF LinesInv, Codex!TypeOK, Precedes, Tails, Answers, Codex!CancelWins
  <2> QED BY <2>1, <2>2, <2>3 DEF LinesInv
<1>2. CASE ~stopped
  <2> DEFINE c == ctx[t]
  <2>1. PICK old \in SUBSET {d \in Contexts : worker[d] # Nothing /\ Codex!Idle(d)} :
          LET new == worker[c] = Nothing \/ c \in old IN
          /\ worker' = [d \in Contexts |-> IF d = c THEN IF new THEN t ELSE worker[c]
                                           ELSE IF d \in old THEN Nothing ELSE worker[d]]
          /\ uses' = [uses EXCEPT ![t] = worker'[c]]
          /\ prev' = [prev EXCEPT ![t] = IF new THEN Nothing ELSE tail[c]]
          /\ tail' = [tail EXCEPT ![c] = t]
          /\ held' = held \cup {t}
          /\ state' = [state EXCEPT ![t] = "waiting"]
          /\ UNCHANGED verdict
    BY <1>2 DEF Codex!Arrive
  <2>2. c \in Contexts /\ state[t] = "new" /\ t \notin held /\ UNCHANGED <<signal, stopped, proc, buffer>>
    BY DEF Codex!Arrive, LinesInv, Lines
  <2>3. worker' \in [Contexts -> Tasks \cup {Nothing}] /\ worker'[c] \in Tasks
    BY <2>1, <2>2 DEF LinesInv, Codex!TypeOK
  <2>4. Codex!TypeOK'
    <3>1. /\ uses' \in [Tasks -> Tasks \cup {Nothing}] /\ tail' \in [Contexts -> Tasks \cup {Nothing}]
          /\ prev' \in [Tasks -> Tasks \cup {Nothing}] /\ held' \subseteq Tasks
      BY <2>1, <2>2, <2>3 DEF LinesInv, Codex!TypeOK
    <3> QED BY <2>1, <2>2, <2>3, <3>1 DEF LinesInv, Codex!TypeOK
  <2>5. ASSUME NEW u \in held PROVE worker'[ctx[u]] = worker[ctx[u]] /\ worker[ctx[u]] # Nothing
    <3>1. ctx[u] \in Contexts /\ ctx[u] \notin old /\ worker[ctx[u]] # Nothing
      BY DEF LinesInv, Codex!TypeOK, Lines, Codex!Idle, Codex!Pending
    <3> QED BY <2>1, <3>1
  <2>6. \A u \in held' : state'[u] # "new" /\ worker'[ctx[u]] # Nothing /\ uses'[u] = worker'[ctx[u]]
    <3>1. ASSUME NEW u \in held PROVE state'[u] # "new" /\ uses'[u] = worker'[ctx[u]]
      BY <2>1, <2>2, <2>5 DEF LinesInv, Codex!TypeOK, Lines
    <3>2. state'[t] # "new" /\ uses'[t] = worker'[ctx[t]] /\ worker'[ctx[t]] # Nothing
      BY <2>1, <2>3 DEF LinesInv, Codex!TypeOK
    <3> QED BY <2>1, <2>5, <3>1, <3>2
  <2>7. ASSUME NEW u \in Tasks, state'[u] \in {"running", "closing"} PROVE u \in held' /\ Codex!Turn(u)'
    <3>1. u # t /\ state[u] \in {"running", "closing"}
      BY <2>1, <2>7 DEF LinesInv, Codex!TypeOK
    <3>2. u \in held /\ prev[u] \notin held /\ prev'[u] = prev[u]
      BY <2>1, <3>1 DEF LinesInv, Codex!TypeOK, Lines, Codex!Turn
    <3>3. prev[u] # t
      BY <2>2, <3>2 DEF LinesInv, Precedes
    <3> QED BY <2>1, <3>2, <3>3 DEF Codex!Turn
  <2>8. Lines'
    <3>1. \A u \in Tasks : proc'[u] \in {"alive", "killed"} => state'[u] \in {"running", "closing"}
      BY <2>1, <2>2 DEF LinesInv, Codex!TypeOK, Lines
    <3> QED BY <1>2, <2>6, <2>7, <3>1, TailJoins DEF Lines
  <2>9. Answers' /\ Codex!CancelWins'
    BY <2>1, <2>2 DEF LinesInv, Codex!TypeOK, Answers, Codex!CancelWins
  <2>10. Precedes' /\ Tails'
    <3>1. ASSUME NEW u \in Tasks, prev'[u] # Nothing PROVE state'[prev'[u]] # "new"
      <4>1. prev'[u] \in {prev[u], tail[c], Nothing}
        BY <2>1 DEF LinesInv, Codex!TypeOK
      <4>2. prev'[u] \in Tasks /\ state[prev'[u]] # "new"
        BY <2>2, <3>1, <4>1 DEF LinesInv, Codex!TypeOK, Precedes, Tails
      <4> QED BY <2>1, <4>2 DEF LinesInv, Codex!TypeOK
    <3>2. ASSUME NEW d \in Contexts, tail'[d] # Nothing PROVE state'[tail'[d]] # "new"
      <4>1. tail'[d] = t \/ tail'[d] = tail[d]
        BY <2>1 DEF LinesInv, Codex!TypeOK
      <4>2. CASE tail'[d] = t
        BY <2>1, <4>2 DEF LinesInv, Codex!TypeOK
      <4>3. CASE tail'[d] = tail[d]
        <5>1. tail[d] \in Tasks /\ state[tail[d]] # "new"
          BY <3>2, <4>3 DEF LinesInv, Codex!TypeOK, Tails
        <5> QED BY <2>1, <4>3, <5>1 DEF LinesInv, Codex!TypeOK
      <4> QED BY <4>1, <4>2, <4>3
    <3> QED BY <3>1, <3>2 DEF Precedes, Tails
  <2> QED BY <2>4, <2>8, <2>9, <2>10 DEF LinesInv
<1> QED BY <1>1, <1>2

(* The head of a line goes on. *)
LEMMA ProceedKeeps ==
  ASSUME LinesInv, NEW t \in Tasks, Codex!Proceed(t)
  PROVE  LinesInv'
<1>0. Codex!ConstantsOK
  BY DEF LinesInv
<1> USE <1>0 DEF Codex!ConstantsOK
<1>1. Codex!TypeOK'
  BY DEF Codex!Proceed, LinesInv, Codex!TypeOK, Codex!Ends
<1>2. Lines'
  BY SameLine DEF Codex!Proceed, LinesInv, Codex!TypeOK, Lines, Codex!Turn
<1>3. Precedes' /\ Tails'
  BY DEF Codex!Proceed, LinesInv, Codex!TypeOK, Precedes, Tails
<1>4. Answers' /\ Codex!CancelWins'
  BY DEF Codex!Proceed, LinesInv, Codex!TypeOK, Lines, Answers, Codex!CancelWins
<1> QED BY <1>1, <1>2, <1>3, <1>4 DEF LinesInv

(* A task answered in the line stays in it. *)
LEMMA CancelQueuedKeeps ==
  ASSUME LinesInv, NEW t \in Tasks, Codex!CancelQueued(t)
  PROVE  LinesInv'
<1>0. Codex!ConstantsOK
  BY DEF LinesInv
<1> USE <1>0 DEF Codex!ConstantsOK
<1>1. Codex!TypeOK'
  BY DEF Codex!CancelQueued, LinesInv, Codex!TypeOK, Codex!Ends
<1>2. Lines'
  BY SameLine DEF Codex!CancelQueued, LinesInv, Codex!TypeOK, Lines, Codex!Turn
<1>3. Precedes' /\ Tails'
  BY DEF Codex!CancelQueued, LinesInv, Codex!TypeOK, Precedes, Tails
<1>4. Answers' /\ Codex!CancelWins'
  BY DEF Codex!CancelQueued, LinesInv, Codex!TypeOK, Lines, Answers, Codex!CancelWins
<1> QED BY <1>1, <1>2, <1>3, <1>4 DEF LinesInv

(* An answered task leaves the line as its head. *)
LEMMA LapseKeeps ==
  ASSUME LinesInv, NEW t \in Tasks, Codex!Lapse(t)
  PROVE  LinesInv'
<1>0. Codex!ConstantsOK
  BY DEF LinesInv
<1> USE <1>0 DEF Codex!ConstantsOK
<1>1. Codex!TypeOK'
  BY DEF Codex!Lapse, LinesInv, Codex!TypeOK, Codex!Ends
<1>2. Lines'
  <2>1. t \in held /\ Codex!Turn(t) /\ held' = held \ {t} /\ UNCHANGED <<prev, tail>>
    BY DEF Codex!Lapse, LinesInv, Lines
  <2>2. \E n \in [Tasks -> Nat] : InLine(n)'
    BY <2>1, ShorterLine
  <2>3. \A u \in held' : state'[u] # "new" /\ worker'[ctx[u]] # Nothing /\ uses'[u] = worker'[ctx[u]]
    BY <2>1 DEF Codex!Lapse, LinesInv, Codex!TypeOK, Lines
  <2>4. \A u \in Tasks : state'[u] \in {"running", "closing"} => u \in held' /\ Codex!Turn(u)'
    BY <2>1 DEF Codex!Lapse, LinesInv, Codex!TypeOK, Lines, Codex!Turn
  <2>5. \A u \in Tasks : proc'[u] \in {"alive", "killed"} => state'[u] \in {"running", "closing"}
    BY DEF Codex!Lapse, LinesInv, Codex!TypeOK, Lines
  <2> QED BY <2>2, <2>3, <2>4, <2>5 DEF Lines
<1>3. Precedes' /\ Tails'
  BY DEF Codex!Lapse, LinesInv, Codex!TypeOK, Precedes, Tails
<1>4. Answers' /\ Codex!CancelWins'
  BY DEF Codex!Lapse, LinesInv, Codex!TypeOK, Lines, Answers, Codex!CancelWins
<1> QED BY <1>1, <1>2, <1>3, <1>4 DEF LinesInv

(* Only the head of a line starts a process. *)
LEMMA SpawnsKeeps ==
  ASSUME LinesInv, NEW t \in Tasks, Codex!Spawn(t)
  PROVE  LinesInv'
<1>0. Codex!ConstantsOK
  BY DEF LinesInv
<1> USE <1>0 DEF Codex!ConstantsOK
<1>1. Codex!TypeOK'
  BY DEF Codex!Spawn, LinesInv, Codex!TypeOK, Codex!Ends
<1>2. Lines'
  BY SameLine DEF Codex!Spawn, LinesInv, Codex!TypeOK, Lines, Codex!Turn
<1>3. Precedes' /\ Tails'
  BY DEF Codex!Spawn, LinesInv, Codex!TypeOK, Precedes, Tails
<1>4. Answers' /\ Codex!CancelWins'
  BY DEF Codex!Spawn, LinesInv, Codex!TypeOK, Lines, Answers, Codex!CancelWins
<1> QED BY <1>1, <1>2, <1>3, <1>4 DEF LinesInv

(* A cancellation moves nobody. *)
LEMMA AbortKeeps ==
  ASSUME LinesInv, NEW t \in Tasks, Codex!Abort(t)
  PROVE  LinesInv'
<1>0. Codex!ConstantsOK
  BY DEF LinesInv
<1> USE <1>0 DEF Codex!ConstantsOK
<1>1. Codex!TypeOK'
  BY DEF Codex!Abort, Codex!Killed, LinesInv, Codex!TypeOK, Codex!Ends
<1>2. Lines'
  BY SameLine DEF Codex!Abort, Codex!Killed, LinesInv, Codex!TypeOK, Lines, Codex!Turn
<1>3. Precedes' /\ Tails'
  BY DEF Codex!Abort, Codex!Killed, LinesInv, Codex!TypeOK, Precedes, Tails
<1>4. Answers' /\ Codex!CancelWins'
  BY DEF Codex!Abort, Codex!Killed, LinesInv, Codex!TypeOK, Lines, Answers, Codex!CancelWins
<1> QED BY <1>1, <1>2, <1>3, <1>4 DEF LinesInv

(* The end of a process moves nobody. *)
LEMMA DiesKeeps ==
  ASSUME LinesInv, NEW t \in Tasks, Codex!Dies(t)
  PROVE  LinesInv'
<1>0. Codex!ConstantsOK
  BY DEF LinesInv
<1> USE <1>0 DEF Codex!ConstantsOK
<1>1. Codex!TypeOK'
  BY DEF Codex!Dies, LinesInv, Codex!TypeOK, Codex!Ends
<1>2. Lines'
  BY SameLine DEF Codex!Dies, LinesInv, Codex!TypeOK, Lines, Codex!Turn
<1>3. Precedes' /\ Tails'
  BY DEF Codex!Dies, LinesInv, Codex!TypeOK, Precedes, Tails
<1>4. Answers' /\ Codex!CancelWins'
  BY DEF Codex!Dies, LinesInv, Codex!TypeOK, Lines, Answers, Codex!CancelWins
<1> QED BY <1>1, <1>2, <1>3, <1>4 DEF LinesInv

(* A turn that is over keeps its place until its process has closed. *)
LEMMA ReturnsKeeps ==
  ASSUME LinesInv, NEW t \in Tasks, Codex!Returns(t)
  PROVE  LinesInv'
<1>0. Codex!ConstantsOK
  BY DEF LinesInv
<1> USE <1>0 DEF Codex!ConstantsOK
<1>1. Codex!TypeOK'
  BY DEF Codex!Returns, Codex!Killed, LinesInv, Codex!TypeOK, Codex!Ends
<1>2. Lines'
  BY SameLine DEF Codex!Returns, Codex!Killed, LinesInv, Codex!TypeOK, Lines, Codex!Turn
<1>3. Precedes' /\ Tails'
  BY DEF Codex!Returns, Codex!Killed, LinesInv, Codex!TypeOK, Precedes, Tails
<1>4. Answers' /\ Codex!CancelWins'
  BY DEF Codex!Returns, Codex!Killed, LinesInv, Codex!TypeOK, Lines, Answers, Codex!CancelWins
<1> QED BY <1>1, <1>2, <1>3, <1>4 DEF LinesInv

(* It leaves the line as its head, with no process. *)
LEMMA CloseKeeps ==
  ASSUME LinesInv, NEW t \in Tasks, Codex!Close(t)
  PROVE  LinesInv'
<1>0. Codex!ConstantsOK
  BY DEF LinesInv
<1> USE <1>0 DEF Codex!ConstantsOK
<1>1. Codex!TypeOK'
  BY DEF Codex!Close, LinesInv, Codex!TypeOK, Codex!Ends
<1>2. Lines'
  <2>1. t \in held /\ Codex!Turn(t) /\ held' = held \ {t} /\ UNCHANGED <<prev, tail>>
    BY DEF Codex!Close, LinesInv, Lines
  <2>2. \E n \in [Tasks -> Nat] : InLine(n)'
    BY <2>1, ShorterLine
  <2>3. \A u \in held' : state'[u] # "new" /\ worker'[ctx[u]] # Nothing /\ uses'[u] = worker'[ctx[u]]
    BY <2>1 DEF Codex!Close, LinesInv, Codex!TypeOK, Lines
  <2>4. \A u \in Tasks : state'[u] \in {"running", "closing"} => u \in held' /\ Codex!Turn(u)'
    BY <2>1 DEF Codex!Close, LinesInv, Codex!TypeOK, Lines, Codex!Turn
  <2>5. \A u \in Tasks : proc'[u] \in {"alive", "killed"} => state'[u] \in {"running", "closing"}
    BY DEF Codex!Close, LinesInv, Codex!TypeOK, Lines
  <2> QED BY <2>2, <2>3, <2>4, <2>5 DEF Lines
<1>3. Precedes' /\ Tails'
  BY DEF Codex!Close, LinesInv, Codex!TypeOK, Precedes, Tails
<1>4. Answers' /\ Codex!CancelWins'
  BY DEF Codex!Close, LinesInv, Codex!TypeOK, Lines, Answers, Codex!CancelWins
<1> QED BY <1>1, <1>2, <1>3, <1>4 DEF LinesInv

(* The backend's stop kills and moves nobody. *)
LEMMA StoppingKeeps ==
  ASSUME LinesInv, Codex!Stop
  PROVE  LinesInv'
<1> USE DEF Codex!Stop, Codex!Killed
<1>1. Codex!TypeOK'
  BY DEF LinesInv, Codex!TypeOK
<1>2. Lines'
  BY SameLine DEF LinesInv, Codex!TypeOK, Lines, Codex!Turn
<1>3. Precedes' /\ Tails' /\ Answers' /\ Codex!CancelWins'
  BY DEF LinesInv, Precedes, Tails, Answers, Codex!CancelWins
<1> QED BY <1>1, <1>2, <1>3 DEF LinesInv

(* Every step keeps the lines in order. *)
THEOREM LinesStep == LinesInv /\ [Codex!Next]_(Codex!vars) => LinesInv'
<1> SUFFICES ASSUME LinesInv, [Codex!Next]_(Codex!vars) PROVE LinesInv'
  OBVIOUS
<1>1. CASE Codex!Stop
  BY <1>1, StoppingKeeps
<1>2. ASSUME NEW t \in Tasks,
             \/ Codex!Arrive(t) \/ Codex!Proceed(t) \/ Codex!CancelQueued(t) \/ Codex!Lapse(t)
             \/ Codex!Spawn(t) \/ Codex!Abort(t) \/ Codex!Dies(t) \/ Codex!Returns(t) \/ Codex!Close(t)
      PROVE  LinesInv'
  BY <1>2, ArriveKeeps, ProceedKeeps, CancelQueuedKeeps, LapseKeeps, SpawnsKeeps, AbortKeeps,
     DiesKeeps, ReturnsKeeps, CloseKeeps
<1>3. CASE UNCHANGED Codex!vars
  <2> USE <1>3 DEF Codex!vars
  <2>1. Lines'
    BY SameLine DEF LinesInv, Lines, Codex!Turn
  <2>2. Codex!TypeOK' /\ Precedes' /\ Tails' /\ Answers' /\ Codex!CancelWins'
    BY DEF LinesInv, Codex!TypeOK, Precedes, Tails, Answers, Codex!CancelWins
  <2> QED BY <2>1, <2>2 DEF LinesInv
<1> QED BY <1>1, <1>2, <1>3 DEF Codex!Next

(* The lines are in order for ever. *)
THEOREM LinesSafety == Codex!ConstantsOK /\ Codex!Spec => []LinesInv
BY LinesInit, LinesStep, PTL DEF Codex!Spec

-----------------------------------------------------------------------------
(* The variables keep to their types, and who waits or works has its barrier  *)
(* up.                                                                        *)
THEOREM LinesTyped == Codex!ConstantsOK /\ Codex!Spec => []Codex!TypeOK
<1>1. LinesInv => Codex!TypeOK
  BY DEF LinesInv
<1> QED BY <1>1, LinesSafety, PTL

(* Two tasks of a context that have processes would both be heads of its line. *)
LEMMA OneHead ==
  ASSUME LinesInv, NEW t \in Tasks, NEW u \in Tasks, ctx[t] = ctx[u],
         proc[t] \in {"alive", "killed"}, proc[u] \in {"alive", "killed"}
  PROVE  t = u
<1>1. PICK n \in [Tasks -> Nat] : InLine(n)
  BY DEF LinesInv, Lines
<1>2. t \in held /\ u \in held /\ prev[t] \notin held /\ prev[u] \notin held
  BY DEF LinesInv, Lines, Codex!Turn
<1>3. SUFFICES ASSUME t # u PROVE FALSE
  OBVIOUS
<1>4. n[t] # n[u] /\ ~(n[u] < n[t]) /\ ~(n[t] < n[u])
  BY <1>1, <1>2, <1>3 DEF InLine
<1>5. n[t] \in Nat /\ n[u] \in Nat
  OBVIOUS
<1> QED BY <1>4, <1>5

(* Never do two tasks of a context have processes, and so app-servers that    *)
(* write one session, at the same time.                                       *)
THEOREM ProcessesAlone == Codex!ConstantsOK /\ Codex!Spec => []OneProcess
<1>1. LinesInv => OneProcess
  BY OneHead DEF Codex!OneProcess, OneProcess
<1> QED BY <1>1, LinesSafety, PTL

(* Who is told that a task has ended finds no process of it. *)
THEOREM AnswersAreLast == Codex!ConstantsOK /\ Codex!Spec => []Codex!ClosedBeforeAnswer
<1>1. LinesInv => Codex!ClosedBeforeAnswer
  BY DEF LinesInv, Codex!TypeOK, Lines, Answers, Codex!ClosedBeforeAnswer
<1> QED BY <1>1, LinesSafety, PTL

(* The tasks in a line use one worker, and so know one session. *)
THEOREM LinesShareMemory == Codex!ConstantsOK /\ Codex!Spec => []Codex!MemoryIsShared
<1>1. LinesInv => Codex!MemoryIsShared
  BY DEF LinesInv, Lines, Codex!MemoryIsShared
<1> QED BY <1>1, LinesSafety, PTL

(* A task cancelled before its answer is answered as cancelled. *)
THEOREM CancellationWins == Codex!ConstantsOK /\ Codex!Spec => []Codex!CancelWins
<1>1. LinesInv => Codex!CancelWins
  BY DEF LinesInv
<1> QED BY <1>1, LinesSafety, PTL

-----------------------------------------------------------------------------
(***************************************************************************)
(* A task of claude.  While its child runs, cancelled and aborted are one; *)
(* what the child may use, what it asked for and what it called is its own.*)
(***************************************************************************)
Children == [state : {"none", "alive", "exited", "gone"}, killed : BOOLEAN, told : BOOLEAN, stdin : BOOLEAN]
Waiting == phase \in {"queued", "mapping", "servers"}

ClaudeTypes ==
  /\ claude \in [native : BOOLEAN, staged : BOOLEAN, files : BOOLEAN]
  /\ phase \in {"queued", "mapping", "servers", "running", "closing", "done"}
  /\ cancelled \in BOOLEAN /\ aborted \in BOOLEAN /\ staged \in BOOLEAN /\ bridge \in BOOLEAN
  /\ cur \in 0..2 /\ child \in [{1, 2} -> Children]
  /\ stream \in Claude!Runs
  /\ withheld = Nothing \/ withheld \subseteq {Claude!Frame("text", 2), Claude!Frame("file", 2)}
  /\ captured \in Seq({cur})
  /\ sent \in [{1, 2} -> SUBSET Requests]
  /\ prompts \in [Requests -> {Nothing, "pending", "settled", "withdrawn"}]

(* What stands at which point of handle().                                    *)
AtPhase ==
  /\ Waiting => /\ cur = 0 /\ ~staged /\ ~bridge /\ tokens = {} /\ captured = <<>> /\ ~aborted
                /\ withheld = Nothing /\ stream = Claude!NewRun
  /\ phase = "running" =>
       /\ cur \in {1, 2} /\ child[cur].state \in {"alive", "exited"} /\ aborted = cancelled
       /\ staged = claude.staged /\ bridge = claude.native
       /\ (withheld = Nothing) = (cur = 1) /\ (cur = 1 => stream.final # 2)
  /\ Claude!Settled => ~staged /\ tokens = {} /\ withheld = Nothing
  /\ phase = "done" => ~bridge
  /\ aborted => cancelled

(* The capability of the current child, the calls it has made, and what is    *)
(* known of the attempt before it.                                            *)
Current ==
  /\ tokens \subseteq {cur} /\ (tokens # {} => phase = "running" /\ ~cancelled /\ child[cur].state = "alive")
  /\ \A r \in Requests : prompts[r] = "pending" => phase = "running" /\ ~cancelled /\ r \in sent[cur]
  /\ captured # <<>> => claude.native /\ (phase = "running" => stream.used)
  /\ stream.asked => ~claude.native
  /\ cur # 2 => first = Nothing
  /\ cur = 2 => /\ claude.native /\ first.exit \in {"zero", "nonzero"}
                /\ first.run \in Claude!Runs /\ first.run.final # 2 /\ ~first.run.asked

Restored ==
  /\ first # Nothing /\ ~aborted /\ Claude!FirstWouldSucceed(first.run, first.exit)
  /\ ~Claude!Contains(captured, 2)

(* The verdict, owed or given.                                                *)
IsVerdict(f) ==
  /\ f.kind \in Claude!Terminal
  /\ captured # <<>> => (f.kind = "canceled" /\ aborted) \/ (f.kind = "completed" /\ f.calls = Len(captured))
  /\ Restored => /\ f = [kind |-> "completed", by |-> first.run.final, calls |-> 0]
                 /\ \A g \in wire : g.by # 2

Said ==
  /\ ~Claude!Settled => \A f \in wire : f.by # 2
  /\ phase # "done" => \A f \in wire : f.kind \notin Claude!Terminal
  /\ phase = "closing" => IsVerdict(due)
  /\ phase = "done" => \E f \in wire : Claude!Answers(wire) = {f} /\ IsVerdict(f)

ClaudeInv == ClaudeTypes /\ AtPhase /\ Current /\ Said

LEMMA ChildIs ==
  ASSUME child \in [{1, 2} -> Children], NEW a \in {1, 2}, NEW x \in Children, child' = [child EXCEPT ![a] = x]
  PROVE  child' \in [{1, 2} -> Children] /\ child'[a] = x /\ \A b \in {1, 2} : b # a => child'[b] = child[b]
OBVIOUS

LEMMA ChildrenChange ==
  \A d \in Children :
    /\ [d EXCEPT !.stdin = FALSE] \in {e \in Children : e.state = d.state}
    /\ [d EXCEPT !.told = TRUE, !.stdin = FALSE] \in {e \in Children : e.state = d.state}
    /\ [d EXCEPT !.killed = TRUE] \in {e \in Children : e.state = d.state}
    /\ [d EXCEPT !.state = "exited"] \in {e \in Children : e.state = "exited"}
    /\ [d EXCEPT !.state = "gone"] \in {e \in Children : e.state = "gone"}
    /\ [d EXCEPT !.state = "gone", !.stdin = FALSE] \in {e \in Children : e.state = "gone"}
BY DEF Children

LEMMA NewOnes ==
  /\ Claude!Idle \in Children /\ Claude!NewChild \in Children /\ Claude!NewChild.state = "alive"
  /\ \A b \in BOOLEAN : [Claude!NewChild EXCEPT !.killed = b] \in {e \in Children : e.state = "alive"}
  /\ [Claude!NewChild EXCEPT !.killed = TRUE, !.stdin = FALSE] \in Children
  /\ Claude!NewRun \in Claude!Runs /\ Claude!NewRun.final = 0 /\ ~Claude!NewRun.asked /\ ~Claude!NewRun.used
<1>1. Claude!Idle \in Children /\ Claude!NewChild \in Children /\ Claude!NewChild.state = "alive"
  BY DEF Claude!Idle, Claude!NewChild, Children
<1>2. \A d \in Children : /\ \A b \in BOOLEAN : [d EXCEPT !.killed = b] \in {e \in Children : e.state = d.state}
                         /\ [d EXCEPT !.killed = TRUE, !.stdin = FALSE] \in Children
  BY DEF Children
<1>3. Claude!NewRun \in Claude!Runs /\ Claude!NewRun.final = 0 /\ ~Claude!NewRun.asked /\ ~Claude!NewRun.used
  BY DEF Claude!NewRun, Claude!Runs
<1> QED
  BY ONLY <1>1, <1>2, <1>3

LEMMA ClaudeStarts ==
  ASSUME Claude!ConstantsOK, Claude!Init
  PROVE  ClaudeInv
<1> USE DEF Claude!Init
<1>1. ClaudeTypes
  <2>1. child \in [{1, 2} -> Children]
    BY NewOnes DEF Claude!Attempts
  <2>2. captured \in Seq({cur})
    OBVIOUS
  <2>3. sent \in [{1, 2} -> SUBSET Requests] /\ prompts \in [Requests -> {Nothing, "pending", "settled", "withdrawn"}]
    BY DEF Claude!Attempts
  <2>4. claude \in [native : BOOLEAN, staged : BOOLEAN, files : BOOLEAN]
    OBVIOUS
  <2>5. /\ phase \in {"queued", "mapping", "servers", "running", "closing", "done"}
        /\ cur \in 0..2 /\ withheld = Nothing
    OBVIOUS
  <2>7. cancelled \in BOOLEAN /\ aborted \in BOOLEAN /\ staged \in BOOLEAN /\ bridge \in BOOLEAN
    OBVIOUS
  <2>6. stream \in Claude!Runs
    BY NewOnes
  <2> QED
    BY ONLY <2>1, <2>2, <2>3, <2>4, <2>5, <2>6, <2>7 DEF ClaudeTypes
<1>2. AtPhase
  BY DEF AtPhase, Waiting, Claude!Settled
<1>3. Said
  BY DEF Said
<1>4. Current
  <2>1. \A r \in Requests : prompts[r] # "pending"
    BY DEF Claude!ConstantsOK
  <2> QED
    BY <2>1, NewOnes DEF Current
<1> QED
  BY <1>1, <1>2, <1>3, <1>4 DEF ClaudeInv

(* A task that is answered before it has a child.                             *)
LEMMA GivenUp ==
  ASSUME ClaudeInv, Waiting, phase' = "done", NEW k \in Claude!Terminal, wire' = wire \cup {Claude!Frame(k, 0)},
         UNCHANGED <<claude, cancelled, aborted, cur, child, stream, first, withheld, captured, staged, bridge,
                     tokens, sent, prompts>>
  PROVE  ClaudeInv'
<1>1. /\ captured = <<>> /\ first = Nothing /\ ~bridge /\ ~staged /\ tokens = {} /\ cur = 0 /\ withheld = Nothing
      /\ ~aborted /\ \A f \in wire : f.kind \notin Claude!Terminal
  BY DEF ClaudeInv, AtPhase, Current, Said, Waiting
<1>2. ClaudeTypes'
  BY DEF ClaudeInv, ClaudeTypes
<1>3. AtPhase' /\ Current'
  BY <1>1 DEF ClaudeInv, AtPhase, Current, Waiting, Claude!Settled
<1>4. Claude!Frame(k, 0).kind = k
  BY DEF Claude!Frame
<1>5. Claude!Answers(wire)' = {Claude!Frame(k, 0)} /\ Claude!Frame(k, 0) \in wire'
  BY <1>1, <1>4 DEF Claude!Answers
<1>6. IsVerdict(Claude!Frame(k, 0))'
  BY <1>1, <1>4 DEF IsVerdict, Restored, Claude!Frame
<1>7. Said'
  BY <1>5, <1>6 DEF Said, Claude!Settled, Claude!Frame
<1> QED
  BY <1>2, <1>3, <1>7 DEF ClaudeInv

LEMMA ClaudeWaits ==
  ASSUME Claude!ConstantsOK, ClaudeInv,
         \/ Claude!Begin \/ Claude!Mapped \/ Claude!FilesUnavailable \/ Claude!ToolsFail
         \/ Claude!LaunchFails \/ Claude!LaunchMute \/ Claude!Launch
  PROVE  ClaudeInv'
<1>1. Waiting
  BY DEF Waiting, Claude!Begin, Claude!Mapped, Claude!FilesUnavailable, Claude!ToolsFail, Claude!LaunchFails,
         Claude!LaunchMute, Claude!Launch
<1>2. /\ captured = <<>> /\ first = Nothing /\ ~bridge /\ ~staged /\ tokens = {} /\ cur = 0 /\ withheld = Nothing
      /\ ~aborted /\ stream = Claude!NewRun
      /\ \A f \in wire : f.kind \notin Claude!Terminal /\ f.by # 2
      /\ \A r \in Requests : prompts[r] # "pending"
      /\ ClaudeTypes
  BY <1>1 DEF ClaudeInv, AtPhase, Current, Said, Waiting, Claude!Settled
<1>3. CASE Claude!Begin
  <2>1. CASE cancelled
    <3>1. "canceled" \in Claude!Terminal
      BY DEF Claude!Terminal
    <3> QED
      BY <1>1, <1>3, <2>1, <3>1, GivenUp DEF Claude!Begin, Claude!Streams
  <2>2. CASE ~cancelled
    BY <1>3, <2>2 DEF Claude!Begin, Claude!Streams, ClaudeInv, ClaudeTypes, AtPhase, Current, Said, Waiting,
                      Claude!Settled
  <2> QED
    BY <2>1, <2>2
<1>4. CASE Claude!Mapped
  <2>1. CASE phase' = "servers" /\ UNCHANGED wire
    BY <1>4, <2>1 DEF Claude!Mapped, Claude!Streams, ClaudeInv, ClaudeTypes, AtPhase, Current, Said, Waiting,
                      Claude!Settled
  <2>2. CASE phase' = "done" /\ wire' = wire \cup {Claude!Frame("failed", 0)}
    <3>1. "failed" \in Claude!Terminal
      BY DEF Claude!Terminal
    <3> QED
      BY <1>1, <1>4, <2>2, <3>1, GivenUp DEF Claude!Mapped, Claude!Streams
  <2> QED
    BY <1>4, <2>1, <2>2 DEF Claude!Mapped
<1>5. CASE Claude!FilesUnavailable
  <2>1. /\ claude' = [claude EXCEPT !.files = FALSE] /\ phase = "servers"
        /\ UNCHANGED <<phase, cancelled, aborted, cur, child, wire, staged, bridge, tokens, due, stream, exit, first,
                       withheld, captured, fetching, sent, prompts, answers>>
    BY <1>5 DEF Claude!FilesUnavailable, Claude!Streams
  <2>2. claude' \in [native : BOOLEAN, staged : BOOLEAN, files : BOOLEAN] /\ claude'.native = claude.native
    BY <1>2, <2>1 DEF ClaudeTypes
  <2>3. ClaudeTypes'
    BY <1>2, <2>1, <2>2 DEF ClaudeTypes
  <2>4. AtPhase' /\ Current'
    BY <2>1, <2>2 DEF ClaudeInv, AtPhase, Current, Waiting, Claude!Settled
  <2>5. Said'
    BY <2>1 DEF ClaudeInv, Said, Claude!Settled
  <2> QED
    BY <2>3, <2>4, <2>5 DEF ClaudeInv
<1>6. CASE Claude!ToolsFail
  <2>1. "failed" \in Claude!Terminal
    BY DEF Claude!Terminal
  <2> QED
    BY <1>1, <1>6, <2>1, GivenUp DEF Claude!ToolsFail, Claude!Streams
<1>7. CASE Claude!LaunchFails \/ Claude!LaunchMute
  <2>1. /\ phase' = "closing" /\ due' = Claude!Frame("failed", 0) /\ wire' = wire \cup {Claude!Frame("working", 0)}
        /\ bridge' = claude.native /\ cur' \in {0, 1}
        /\ UNCHANGED <<claude, cancelled, aborted, staged, tokens, stream, first, withheld, captured, sent, prompts>>
    BY <1>2, <1>7 DEF Claude!LaunchFails, Claude!LaunchMute, Claude!Streams
  <2>2. child' \in [{1, 2} -> Children]
    <3>1. CASE Claude!LaunchFails
      BY <1>2, <3>1 DEF Claude!LaunchFails, ClaudeTypes
    <3>2. CASE Claude!LaunchMute
      BY <1>2, <3>2, ChildIs, NewOnes DEF Claude!LaunchMute, ClaudeTypes
    <3> QED
      BY <1>7, <3>1, <3>2
  <2>3. ClaudeTypes'
    BY <1>2, <2>1, <2>2 DEF ClaudeTypes
  <2>4. AtPhase' /\ Current'
    BY <1>2, <2>1, NewOnes DEF ClaudeInv, AtPhase, Current, Waiting, Claude!Settled
  <2>5. Said'
    BY <1>2, <2>1 DEF ClaudeInv, Said, Claude!Settled, Claude!Frame, Claude!Terminal, IsVerdict, Restored
  <2> QED
    BY <2>3, <2>4, <2>5 DEF ClaudeInv
<1>8. CASE Claude!Launch
  <2>1. /\ phase' = "running" /\ wire' = wire \cup {Claude!Frame("working", 0)} /\ bridge' = claude.native
        /\ staged' = claude.staged /\ cur' = 1 /\ aborted' = cancelled
        /\ tokens' = (IF claude.files /\ ~cancelled THEN {1} ELSE {})
        /\ child' = [child EXCEPT ![1] = [Claude!NewChild EXCEPT !.killed = cancelled]]
        /\ UNCHANGED <<claude, cancelled, stream, first, withheld, captured, sent, prompts>>
    BY <1>8 DEF Claude!Launch, Claude!Streams
  <2>2. child' \in [{1, 2} -> Children] /\ child'[1].state = "alive"
    BY <1>2, <2>1, ChildIs, NewOnes DEF ClaudeTypes
  <2>3. ClaudeTypes'
    BY <1>2, <2>1, <2>2 DEF ClaudeTypes
  <2>4. AtPhase'
    BY <1>2, <2>1, <2>2, NewOnes DEF AtPhase, Waiting, Claude!Settled
  <2>5. Current'
    BY <1>2, <2>1, <2>2, NewOnes DEF Current
  <2>6. Said'
    BY <1>2, <2>1 DEF Said, Claude!Settled, Claude!Frame, Claude!Terminal
  <2> QED
    BY <2>3, <2>4, <2>5, <2>6 DEF ClaudeInv
<1> QED
  BY <1>3, <1>4, <1>5, <1>6, <1>7, <1>8

(* The child's stream: what a frame of it, a call and an end of stdin leave.  *)
LEMMA StreamChanges ==
  \A d \in Claude!Runs :
    /\ [d EXCEPT !.art = TRUE] \in {e \in Claude!Runs : e.used = d.used /\ e.asked = d.asked /\ e.final = d.final}
    /\ [d EXCEPT !.stained = TRUE] \in {e \in Claude!Runs : e.used = d.used /\ e.asked = d.asked /\ e.final = d.final}
    /\ [d EXCEPT !.used = TRUE] \in {e \in Claude!Runs : e.used /\ e.asked = d.asked /\ e.final = d.final}
    /\ [d EXCEPT !.used = TRUE, !.asked = TRUE] \in {e \in Claude!Runs : e.used /\ e.final = d.final}
BY DEF Claude!Runs

(* While a child works, a step that leaves phase, attempt and verdict alone,  *)
(* and what it may do to the rest.                                            *)
LEMMA AtWork ==
  ASSUME Claude!ConstantsOK, ClaudeInv, phase = "running",
         UNCHANGED <<claude, phase, cancelled, aborted, cur, staged, bridge, first>>,
         child' \in [{1, 2} -> Children], child'[cur].state \in {"alive", "exited"},
         tokens' \subseteq tokens, tokens' # {} => child'[cur].state = "alive",
         stream' \in Claude!Runs, cur = 1 => stream'.final # 2, stream.used => stream'.used,
         stream'.asked => stream.asked \/ ~claude.native,
         captured' \in Seq({cur}), captured' = captured \/ (claude.native /\ stream.used),
         sent' \in [{1, 2} -> SUBSET Requests],
         prompts' \in [Requests -> {Nothing, "pending", "settled", "withdrawn"}],
         \A r \in Requests : prompts'[r] = "pending" =>
           (prompts[r] = "pending" \/ (~cancelled /\ r \in sent'[cur])) /\ (r \in sent[cur] => r \in sent'[cur]),
         \/ UNCHANGED <<wire, withheld>>
         \/ UNCHANGED withheld /\ wire' = wire \cup {Claude!Frame("beat", 0)}
         \/ \E k \in {"text", "file"} : Claude!EmitArtifact(Claude!Frame(k, cur))
  PROVE  ClaudeInv'
<1>1. /\ ClaudeTypes /\ cur \in {1, 2} /\ aborted = cancelled /\ staged = claude.staged /\ bridge = claude.native
      /\ (withheld = Nothing) = (cur = 1) /\ (\A f \in wire : f.by # 2 /\ f.kind \notin Claude!Terminal)
      /\ tokens \subseteq {cur} /\ (tokens # {} => ~cancelled)
  BY DEF ClaudeInv, AtPhase, Current, Said, Claude!Settled
<1>2. /\ (withheld' = Nothing) = (withheld = Nothing)
      /\ withheld' = Nothing \/ withheld' \subseteq {Claude!Frame("text", 2), Claude!Frame("file", 2)}
      /\ \A f \in wire' : f.by # 2 /\ f.kind \notin Claude!Terminal
  <2>1. CASE UNCHANGED <<wire, withheld>>
    BY <1>1, <2>1 DEF ClaudeTypes
  <2>2. CASE UNCHANGED withheld /\ wire' = wire \cup {Claude!Frame("beat", 0)}
    BY <1>1, <2>2 DEF ClaudeTypes, Claude!Frame, Claude!Terminal
  <2>3. ASSUME NEW k \in {"text", "file"}, Claude!EmitArtifact(Claude!Frame(k, cur))
        PROVE  /\ (withheld' = Nothing) = (withheld = Nothing)
               /\ withheld' = Nothing \/ withheld' \subseteq {Claude!Frame("text", 2), Claude!Frame("file", 2)}
               /\ \A f \in wire' : f.by # 2 /\ f.kind \notin Claude!Terminal
    <3>1. CASE withheld = Nothing
      <4>1. wire' = wire \cup {Claude!Frame(k, cur)} /\ UNCHANGED withheld /\ cur = 1
        BY <1>1, <2>3, <3>1 DEF Claude!EmitArtifact
      <4>2. Claude!Frame(k, 1).by # 2 /\ Claude!Frame(k, 1).kind \notin Claude!Terminal
        BY DEF Claude!Frame, Claude!Terminal
      <4> QED
        BY <1>1, <3>1, <4>1, <4>2
    <3>2. CASE withheld # Nothing
      <4>1. withheld' = withheld \cup {Claude!Frame(k, 2)} /\ UNCHANGED wire
        BY <1>1, <2>3, <3>2 DEF Claude!EmitArtifact
      <4>2. withheld \subseteq {Claude!Frame("text", 2), Claude!Frame("file", 2)}
        BY <1>1, <3>2 DEF ClaudeTypes
      <4>3. withheld' \in SUBSET {Claude!Frame("text", 2), Claude!Frame("file", 2)}
        BY <4>1, <4>2
      <4>4. withheld' # Nothing
        BY <4>3 DEF Claude!ConstantsOK
      <4> QED
        BY <1>1, <3>2, <4>1, <4>3, <4>4
    <3> QED
      BY <3>1, <3>2
  <2> QED
    BY <2>1, <2>2, <2>3
<1>3. ClaudeTypes'
  BY <1>1, <1>2 DEF ClaudeTypes
<1>4. AtPhase'
  BY <1>1, <1>2 DEF AtPhase, Waiting, Claude!Settled
<1>5. Current'
  <2>1. \A r \in Requests : prompts'[r] = "pending" => ~cancelled /\ r \in sent'[cur]
    BY DEF ClaudeInv, Current
  <2> QED
    BY <1>1, <2>1 DEF ClaudeInv, Current
<1>6. Said'
  BY <1>2 DEF Said, Claude!Settled
<1> QED
  BY <1>3, <1>4, <1>5, <1>6 DEF ClaudeInv

(* What stands while the child works.                                         *)
LEMMA Working ==
  ASSUME ClaudeInv, phase = "running"
  PROVE  /\ ClaudeTypes /\ cur \in {1, 2} /\ child[cur] \in Children /\ child[cur].state \in {"alive", "exited"}
         /\ (tokens # {} => child[cur].state = "alive") /\ tokens \subseteq {cur} /\ (cur = 1 => stream.final # 2)
         /\ stream \in Claude!Runs
         /\ \A r \in Requests : prompts[r] = "pending" => r \in sent[cur]
BY DEF ClaudeInv, ClaudeTypes, AtPhase, Current

LEMMA ClaudeStreams ==
  ASSUME Claude!ConstantsOK, ClaudeInv, Claude!Stream
  PROVE  ClaudeInv'
<1>1. phase = "running" /\ child[cur].state = "alive"
  BY DEF Claude!Stream, Claude!Attached, Claude!Living, Claude!Text, Claude!ToolUse, Claude!Ask, Claude!Result,
         Claude!Complains, Claude!Invoke
<1>2. /\ UNCHANGED <<claude, phase, cancelled, aborted, cur, staged, bridge, first, tokens, sent, prompts>>
  BY DEF Claude!Stream, Claude!Held, Claude!Text, Claude!ToolUse, Claude!Ask, Claude!Result,
         Claude!Complains, Claude!Invoke
<1>3. /\ ClaudeTypes /\ cur \in {1, 2} /\ child[cur] \in Children /\ (tokens # {} => child[cur].state = "alive")
      /\ tokens' \subseteq tokens /\ (cur = 1 => stream.final # 2)
      /\ \A r \in Requests : prompts[r] = "pending" => r \in sent[cur]
      /\ stream \in Claude!Runs
  BY <1>1, <1>2, Working
<1>4. /\ sent' \in [{1, 2} -> SUBSET Requests]
      /\ prompts' \in [Requests -> {Nothing, "pending", "settled", "withdrawn"}]
      /\ child \in [{1, 2} -> Children] /\ captured \in Seq({cur})
  BY <1>2, <1>3 DEF ClaudeTypes
<1>5. CASE Claude!Text
  <2>1. /\ Claude!EmitArtifact(Claude!Frame("text", cur)) /\ stream' = [stream EXCEPT !.art = TRUE]
        /\ UNCHANGED <<child, captured>>
    BY <1>5 DEF Claude!Text
  <2>2. stream' \in {e \in Claude!Runs : e.used = stream.used /\ e.asked = stream.asked /\ e.final = stream.final}
    BY <1>3, <2>1, StreamChanges
  <2> QED
    BY <1>1, <1>2, <1>3, <1>4, <2>1, <2>2, AtWork
<1>6. CASE Claude!ToolUse
  <2>1. stream' = [stream EXCEPT !.used = TRUE] /\ UNCHANGED <<child, captured, wire, withheld>>
    BY <1>6 DEF Claude!ToolUse
  <2>2. stream' \in {e \in Claude!Runs : e.used /\ e.asked = stream.asked /\ e.final = stream.final}
    BY <1>3, <2>1, StreamChanges
  <2> QED
    BY <1>1, <1>2, <1>3, <1>4, <2>1, <2>2, AtWork
<1>7. CASE Claude!Ask
  <2>1. /\ stream' = [stream EXCEPT !.used = TRUE, !.asked = TRUE] /\ ~claude.native
        /\ child' = [child EXCEPT ![cur].stdin = FALSE] /\ UNCHANGED <<captured, wire, withheld>>
    BY <1>7 DEF Claude!Ask
  <2>2. stream' \in {e \in Claude!Runs : e.used /\ e.final = stream.final}
    BY <1>3, <2>1, StreamChanges
  <2>3. child' = [child EXCEPT ![cur] = [child[cur] EXCEPT !.stdin = FALSE]]
    BY <2>1
  <2>4. child' \in [{1, 2} -> Children] /\ child'[cur].state = child[cur].state
    BY <1>3, <1>4, <2>3, ChildIs, ChildrenChange
  <2> QED
    BY <1>1, <1>2, <1>3, <1>4, <2>1, <2>2, <2>4, AtWork
<1>8. CASE Claude!Result
  <2>1. PICK completed \in BOOLEAN, error \in BOOLEAN, narrated \in BOOLEAN :
          stream' = [stream EXCEPT !.final = IF stream.asked THEN @ ELSE cur,
                                   !.narrated = IF stream.asked THEN @ ELSE narrated,
                                   !.completed = @ \/ completed, !.error = @ \/ error]
    BY <1>8 DEF Claude!Result
  <2>2. stream' = [stream EXCEPT !.final = IF stream.asked THEN stream.final ELSE cur,
                                 !.narrated = IF stream.asked THEN stream.narrated ELSE narrated,
                                 !.completed = stream.completed \/ completed, !.error = stream.error \/ error]
    BY <2>1
  <2>3. /\ (IF stream.asked THEN stream.final ELSE cur) \in 0..2
        /\ (IF stream.asked THEN stream.narrated ELSE narrated) \in BOOLEAN
        /\ (stream.completed \/ completed) \in BOOLEAN /\ (stream.error \/ error) \in BOOLEAN
    BY <1>3 DEF Claude!Runs
  <2>4. stream' \in {e \in Claude!Runs : e.used = stream.used /\ e.asked = stream.asked
                                          /\ e.final = IF stream.asked THEN stream.final ELSE cur}
    <3> DEFINE f == IF stream.asked THEN stream.final ELSE cur
               n == IF stream.asked THEN stream.narrated ELSE narrated
               c == stream.completed \/ completed
               x == stream.error \/ error
    <3>1. f \in 0..2 /\ n \in BOOLEAN /\ c \in BOOLEAN /\ x \in BOOLEAN
      BY <2>3
    <3>2. stream' = [stream EXCEPT !.final = f, !.narrated = n, !.completed = c, !.error = x]
      BY <2>2
    <3>4. stream \in Claude!Runs
      BY <1>3
    <3> HIDE DEF f, n, c, x
    <3>3. stream' \in {e \in Claude!Runs : e.used = stream.used /\ e.asked = stream.asked /\ e.final = f}
      <4>1. [stream EXCEPT !.final = f, !.narrated = n, !.completed = c, !.error = x] \in
              {e \in Claude!Runs : e.used = stream.used /\ e.asked = stream.asked /\ e.final = f}
        BY ONLY <3>1, <3>4 DEF Claude!Runs
      <4> QED
        BY ONLY <4>1, <3>2
    <3> QED
      BY <3>3 DEF f
  <2>5. /\ child' = [child EXCEPT ![cur] = [child[cur] EXCEPT !.told = TRUE, !.stdin = FALSE]]
        /\ UNCHANGED <<captured, wire, withheld>>
    BY <1>8 DEF Claude!Result
  <2>6. child' \in [{1, 2} -> Children] /\ child'[cur].state = child[cur].state
    BY <1>3, <1>4, <2>5, ChildIs, ChildrenChange
  <2> QED
    BY <1>1, <1>2, <1>3, <1>4, <2>4, <2>5, <2>6, AtWork
<1>9. CASE Claude!Complains
  <2>1. stream' = [stream EXCEPT !.stained = TRUE] /\ UNCHANGED <<child, captured, wire, withheld>>
    BY <1>9 DEF Claude!Complains
  <2>2. stream' \in {e \in Claude!Runs : e.used = stream.used /\ e.asked = stream.asked /\ e.final = stream.final}
    BY <1>3, <2>1, StreamChanges
  <2> QED
    BY <1>1, <1>2, <1>3, <1>4, <2>1, <2>2, AtWork
<1>10. CASE Claude!Invoke
  <2>1. captured' = Append(captured, cur) /\ stream.used /\ bridge /\ UNCHANGED <<child, stream, wire, withheld>>
    BY <1>10 DEF Claude!Invoke
  <2>2. claude.native
    BY <1>1, <2>1 DEF ClaudeInv, AtPhase
  <2>3. captured' \in Seq({cur})
    BY <1>4, <2>1
  <2> QED
    BY <1>1, <1>2, <1>3, <1>4, <2>1, <2>2, <2>3, AtWork
<1> QED
  BY <1>5, <1>6, <1>7, <1>8, <1>9, <1>10 DEF Claude!Stream

LEMMA ClaudeFiles ==
  ASSUME Claude!ConstantsOK, ClaudeInv, Claude!Files
  PROVE  ClaudeInv'
<1>1. /\ UNCHANGED <<claude, phase, cancelled, aborted, cur, staged, bridge, first, tokens, sent, prompts, child,
                     captured, due>>
      /\ UNCHANGED <<stream, wire, withheld>>
         \/ \E a \in tokens : /\ Claude!EmitArtifact(Claude!Frame("file", a))
                              /\ stream' = [stream EXCEPT !.art = TRUE]
  BY DEF Claude!Files, Claude!SendFile, Claude!FileRead, Claude!Held
<1>2. CASE UNCHANGED <<stream, wire, withheld>>
  BY <1>1, <1>2 DEF ClaudeInv, ClaudeTypes, AtPhase, Current, Said, Waiting, Claude!Settled, IsVerdict, Restored
<1>3. ASSUME NEW a \in tokens, Claude!EmitArtifact(Claude!Frame("file", a)), stream' = [stream EXCEPT !.art = TRUE]
      PROVE  ClaudeInv'
  <2>1. phase = "running" /\ a = cur /\ child[cur].state = "alive"
    BY DEF ClaudeInv, Current
  <2>2. ClaudeTypes /\ (cur = 1 => stream.final # 2) /\ \A r \in Requests : prompts[r] = "pending" => r \in sent[cur]
    BY <2>1, Working
  <2>3. stream' \in {e \in Claude!Runs : e.used = stream.used /\ e.asked = stream.asked /\ e.final = stream.final}
    BY <1>3, <2>2, StreamChanges DEF ClaudeTypes
  <2>4. /\ sent' \in [{1, 2} -> SUBSET Requests] /\ captured' \in Seq({cur})
        /\ prompts' \in [Requests -> {Nothing, "pending", "settled", "withdrawn"}] /\ child' \in [{1, 2} -> Children]
    BY <1>1, <2>2 DEF ClaudeTypes
  <2> QED
    BY <1>1, <1>3, <2>1, <2>2, <2>3, <2>4, AtWork
<1> QED
  BY <1>1, <1>2, <1>3

LEMMA ClaudePermissions ==
  ASSUME Claude!ConstantsOK, ClaudeInv, Claude!Permissions
  PROVE  ClaudeInv'
<1>1. phase = "running"
  BY DEF Claude!Permissions, Claude!Control, Claude!Withdraw, Claude!Decide, Claude!Attached, ClaudeInv, Current
<1>2. UNCHANGED <<claude, phase, cancelled, aborted, cur, staged, bridge, first, tokens, child, captured, wire, withheld>>
  BY DEF Claude!Permissions, Claude!Control, Claude!Withdraw, Claude!Decide, Claude!Held
<1>3. /\ ClaudeTypes /\ (cur = 1 => stream.final # 2) /\ cur \in {1, 2} /\ child[cur].state \in {"alive", "exited"}
      /\ (tokens # {} => child[cur].state = "alive")
      /\ (\A r \in Requests : prompts[r] = "pending" => r \in sent[cur])
  BY <1>1, Working
<1>4. child' \in [{1, 2} -> Children] /\ captured' \in Seq({cur}) /\ stream \in Claude!Runs
      /\ sent \in [{1, 2} -> SUBSET Requests] /\ prompts \in [Requests -> {Nothing, "pending", "settled", "withdrawn"}]
  BY <1>2, <1>3 DEF ClaudeTypes
<1>5. CASE Claude!Control
  <2>1. PICK r \in Requests :
          /\ sent' = [sent EXCEPT ![cur] = sent[cur] \cup {r}]
          /\ prompts' = [prompts EXCEPT ![r] = IF prompts[r] # Nothing THEN prompts[r]
                                               ELSE IF cancelled THEN "settled" ELSE "pending"]
          /\ UNCHANGED stream
    BY <1>5 DEF Claude!Control
  <2>2. /\ sent' \in [{1, 2} -> SUBSET Requests] /\ sent'[cur] = sent[cur] \cup {r}
        /\ prompts' \in [Requests -> {Nothing, "pending", "settled", "withdrawn"}]
    BY <1>3, <1>4, <2>1
  <2>3. \A q \in Requests : prompts'[q] = "pending" => prompts[q] = "pending" \/ (~cancelled /\ q \in sent'[cur])
    BY <1>4, <2>1, <2>2
  <2> QED
    BY <1>1, <1>2, <1>3, <1>4, <2>1, <2>2, <2>3, AtWork
<1>6. CASE Claude!Withdraw
  <2>1. PICK r \in Requests : prompts' = [prompts EXCEPT ![r] = "withdrawn"] /\ UNCHANGED <<stream, sent>>
    BY <1>3, <1>4, <1>6 DEF Claude!Withdraw
  <2>2. /\ prompts' \in [Requests -> {Nothing, "pending", "settled", "withdrawn"}]
        /\ \A q \in Requests : prompts'[q] = "pending" => prompts[q] = "pending"
    BY <1>4, <2>1
  <2> QED
    BY <1>1, <1>2, <1>3, <1>4, <2>1, <2>2, AtWork
<1>7. CASE Claude!Decide
  <2>1. PICK r \in Requests : /\ prompts' = [prompts EXCEPT ![r] = "settled"] /\ UNCHANGED sent
                              /\ UNCHANGED stream \/ stream' = [stream EXCEPT !.stained = TRUE]
    BY <1>7 DEF Claude!Decide
  <2>2. /\ prompts' \in [Requests -> {Nothing, "pending", "settled", "withdrawn"}]
        /\ \A q \in Requests : prompts'[q] = "pending" => prompts[q] = "pending"
    BY <1>4, <2>1
  <2>3. stream' \in {e \in Claude!Runs : e.used = stream.used /\ e.asked = stream.asked /\ e.final = stream.final}
    BY <1>4, <2>1, StreamChanges
  <2> QED
    BY <1>1, <1>2, <1>3, <1>4, <2>1, <2>2, <2>3, AtWork
<1> QED
  BY <1>5, <1>6, <1>7 DEF Claude!Permissions

LEMMA ClaudeExitsBeats ==
  ASSUME Claude!ConstantsOK, ClaudeInv, Claude!Exits \/ Claude!Beat
  PROVE  ClaudeInv'
<1>1. /\ phase = "running"
      /\ UNCHANGED <<claude, phase, cancelled, aborted, cur, staged, bridge, first, captured, withheld, stream, sent, prompts>>
  BY DEF Claude!Exits, Claude!Beat, Claude!Attached, Claude!Held, Claude!Streams
<1>2. /\ ClaudeTypes /\ (cur = 1 => stream.final # 2) /\ cur \in {1, 2} /\ child[cur] \in Children
      /\ child[cur].state \in {"alive", "exited"} /\ (tokens # {} => child[cur].state = "alive") /\ tokens \subseteq {cur}
      /\ \A r \in Requests : prompts[r] = "pending" => r \in sent[cur]
  BY <1>1, Working
<1>3. /\ captured' \in Seq({cur}) /\ stream' \in Claude!Runs /\ child \in [{1, 2} -> Children]
      /\ sent' \in [{1, 2} -> SUBSET Requests] /\ prompts' \in [Requests -> {Nothing, "pending", "settled", "withdrawn"}]
  BY <1>1, <1>2 DEF ClaudeTypes
<1>4. CASE Claude!Exits
  <2>1. /\ child' = [child EXCEPT ![cur] = [child[cur] EXCEPT !.state = "exited"]]
        /\ tokens' = tokens \ {cur} /\ UNCHANGED wire
    BY <1>4 DEF Claude!Exits
  <2>2. child' \in [{1, 2} -> Children] /\ child'[cur].state = "exited"
    BY <1>2, <1>3, <2>1, ChildIs, ChildrenChange
  <2>3. tokens' = {}
    BY <1>2, <2>1
  <2> QED
    BY <1>1, <1>2, <1>3, <2>1, <2>2, <2>3, AtWork
<1>5. CASE Claude!Beat
  <2>1. UNCHANGED <<child, tokens>> /\ wire' = wire \cup {Claude!Frame("beat", 0)}
    BY <1>5 DEF Claude!Beat
  <2> QED
    BY <1>1, <1>2, <1>3, <2>1, AtWork
<1> QED
  BY <1>4, <1>5

LEMMA NoneCaptured ==
  ASSUME NEW a, NEW s \in Seq({a}), ~Claude!Contains(s, a)
  PROVE  s = <<>>
<1>1. CASE Len(s) = 0
  BY <1>1
<1>2. CASE Len(s) > 0
  BY <1>2 DEF Claude!Contains
<1> QED
  BY <1>1, <1>2

LEMMA DroppedIs ==
  ASSUME Claude!ConstantsOK, ClaudeTypes
  PROVE  /\ Claude!Dropped \in [Requests -> {Nothing, "pending", "settled", "withdrawn"}]
         /\ \A r \in Requests : Claude!Dropped[r] # "pending"
BY DEF Claude!Dropped, ClaudeTypes

(* The verdict agrees with what was captured, and with the first attempt when *)
(* that one is restored.                                                      *)
LEMMA VerdictIs ==
  ASSUME NEW r \in Claude!Runs, NEW e, NEW n \in Nat
  PROVE  /\ Claude!Verdict(r, e, n).kind \in Claude!Terminal
         /\ (n # 0 /\ e # "error" /\ ~r.asked) =>
               \/ Claude!Verdict(r, e, n).kind = "canceled" /\ aborted
               \/ Claude!Verdict(r, e, n).kind = "completed" /\ Claude!Verdict(r, e, n).calls = n
         /\ aborted => Claude!Verdict(r, e, n).kind = "canceled"
         /\ (~aborted /\ ~r.asked /\ e \in {"zero", "nonzero"} /\ Claude!FirstWouldSucceed(r, e)) =>
              Claude!Verdict(r, e, n) = [kind |-> "completed", by |-> r.final, calls |-> n]
<1>1. /\ Claude!Frame("canceled", 0).kind = "canceled" /\ Claude!Frame("failed", 0).kind = "failed"
      /\ Claude!Frame("input-required", 0).kind = "input-required"
  BY DEF Claude!Frame
<1>2. CASE aborted
  BY <1>1, <1>2 DEF Claude!Verdict, Claude!Terminal
<1>3. CASE ~aborted
  BY <1>1, <1>3 DEF Claude!Verdict, Claude!Terminal, Claude!FirstWouldSucceed
<1> QED
  BY <1>2, <1>3

LEMMA Settles ==
  ASSUME Claude!ConstantsOK, ClaudeInv, phase = "running", UNCHANGED <<cur, first>>,
         child' \in [{1, 2} -> Children], prompts' = Claude!Dropped,
         NEW r \in Claude!Runs, NEW e, NEW out, Claude!Settle(r, e, out),
         r.asked => ~claude.native, captured # <<>> => e # "error",
         \A f \in out : f.kind \notin Claude!Terminal,
         Restored => r = first.run /\ e = first.exit /\ out = {}
  PROVE  ClaudeInv'
<1>1. /\ ClaudeTypes /\ (\A f \in wire : f.by # 2 /\ f.kind \notin Claude!Terminal)
      /\ (aborted => cancelled) /\ (captured # <<>> => claude.native)
      /\ (cur # 2 => first = Nothing)
      /\ cur = 2 => /\ claude.native /\ first.exit \in {"zero", "nonzero"}
                    /\ first.run \in Claude!Runs /\ first.run.final # 2 /\ ~first.run.asked
  BY DEF ClaudeInv, AtPhase, Current, Said, Claude!Settled
<1> DEFINE v == Claude!Verdict(r, e, Len(captured))
           more == IF v.kind = "completed" /\ ~r.art /\ r.final # 0 THEN {Claude!Frame("result", r.final)} ELSE {}
<1>2. /\ phase' = "closing" /\ stream' = r /\ staged' = FALSE /\ tokens' = {} /\ withheld' = Nothing
      /\ wire' = wire \cup out \cup more /\ due' = v
      /\ UNCHANGED <<claude, cancelled, aborted, captured, bridge, sent>>
  BY DEF Claude!Settle
<1>3. Len(captured) \in Nat /\ (captured # <<>> => Len(captured) # 0) /\ (captured = <<>> => Len(captured) = 0)
  BY <1>1 DEF ClaudeTypes
<1>4. \A f \in more : f.kind \notin Claude!Terminal /\ f.by = r.final
  BY DEF Claude!Frame, Claude!Terminal
<1>5. /\ v.kind \in Claude!Terminal
      /\ captured # <<>> => (v.kind = "canceled" /\ aborted) \/ (v.kind = "completed" /\ v.calls = Len(captured))
  BY <1>1, <1>3, VerdictIs
<1>6. Restored => /\ v = [kind |-> "completed", by |-> first.run.final, calls |-> 0]
                  /\ r.final # 2 /\ out = {}
  <2> SUFFICES ASSUME Restored PROVE v = [kind |-> "completed", by |-> first.run.final, calls |-> 0] /\ r.final # 2 /\ out = {}
    OBVIOUS
  <2>1. cur = 2 /\ r = first.run /\ e = first.exit /\ out = {} /\ ~Claude!Contains(captured, 2)
    BY <1>1 DEF Restored
  <2>2. captured = <<>>
    BY <1>1, <2>1, NoneCaptured DEF ClaudeTypes
  <2>3. v = [kind |-> "completed", by |-> r.final, calls |-> Len(captured)]
    BY <1>1, <1>3, <2>1, VerdictIs DEF Restored
  <2> QED
    BY <1>1, <1>3, <2>1, <2>2, <2>3
<1>7. Restored' = Restored
  BY <1>2 DEF Restored
<1> HIDE DEF v, more
<1>8. IsVerdict(due)'
  <2>1. Restored => \A g \in wire' : g.by # 2
    BY <1>1, <1>2, <1>4, <1>6
  <2> QED
    BY <1>2, <1>5, <1>6, <1>7, <2>1 DEF IsVerdict
<1>9. Said'
  BY <1>1, <1>2, <1>4, <1>8 DEF Said, Claude!Settled
<1>10. ClaudeTypes'
  BY <1>1, <1>2, DroppedIs DEF ClaudeTypes
<1>11. AtPhase'
  BY <1>1, <1>2 DEF AtPhase, Waiting, Claude!Settled
<1>12. Current'
  BY <1>1, <1>2, DroppedIs DEF Current
<1> QED
  BY <1>9, <1>10, <1>11, <1>12 DEF ClaudeInv

LEMMA ClaudeSettles ==
  ASSUME Claude!ConstantsOK, ClaudeInv, phase = "running", NEW e, captured # <<>> => e # "error",
         Claude!RetryFails(e) \/ Claude!SettleRetry(e) \/ Claude!SettleOnly(e)
  PROVE  ClaudeInv'
<1>1. /\ ClaudeTypes /\ stream \in Claude!Runs /\ child \in [{1, 2} -> Children]
      /\ (stream.asked => ~claude.native) /\ (cur # 2 => first = Nothing)
      /\ (withheld = Nothing) = (cur = 1)
      /\ cur = 2 => /\ first.exit \in {"zero", "nonzero"} /\ first.run \in Claude!Runs /\ ~first.run.asked
  BY DEF ClaudeInv, ClaudeTypes, AtPhase, Current
<1>2. prompts' = Claude!Dropped /\ UNCHANGED <<cur, first>>
  BY DEF Claude!RetryFails, Claude!SettleRetry, Claude!SettleOnly
<1>3. child' \in [{1, 2} -> Children]
  <2>1. PICK a \in {1, 2} : child' = [child EXCEPT ![a].state = "gone", ![a].stdin = FALSE]
    BY DEF Claude!RetryFails, Claude!SettleRetry, Claude!SettleOnly
  <2>2. child' = [child EXCEPT ![a] = [child[a] EXCEPT !.state = "gone", !.stdin = FALSE]]
    BY <2>1
  <2> QED
    BY <1>1, <2>2, ChildIs, ChildrenChange
<1>4. CASE cur # 2
  <2>1. Claude!Settle(stream, e, {})
    BY <1>4 DEF Claude!RetryFails, Claude!SettleRetry, Claude!SettleOnly
  <2>2. ~Restored
    BY <1>1, <1>4 DEF Restored
  <2> QED
    BY <1>1, <1>2, <1>3, <2>1, <2>2, Settles
<1>5. CASE cur = 2
  <2>1. IF ~Claude!Contains(captured, 2) /\ Claude!FirstWouldSucceed(first.run, first.exit)
        THEN Claude!Settle(first.run, first.exit, {}) ELSE Claude!Settle(stream, e, withheld)
    BY <1>5 DEF Claude!RetryFails, Claude!SettleRetry, Claude!SettleOnly, Claude!Narrated
  <2>2. CASE ~Claude!Contains(captured, 2) /\ Claude!FirstWouldSucceed(first.run, first.exit)
    <3>1. first.exit # "error"
      BY <1>1, <1>5
    <3> QED
      BY <1>1, <1>2, <1>3, <1>5, <2>1, <2>2, <3>1, Settles
  <2>3. CASE ~(~Claude!Contains(captured, 2) /\ Claude!FirstWouldSucceed(first.run, first.exit))
    <3>1. ~Restored
      BY <2>3 DEF Restored
    <3>2. \A f \in withheld : f.kind \notin Claude!Terminal
      BY <1>1, <1>5 DEF ClaudeTypes, Claude!Frame, Claude!Terminal
    <3> QED
      BY <1>1, <1>2, <1>3, <2>1, <2>3, <3>1, <3>2, Settles
  <2> QED
    BY <2>2, <2>3
<1> QED
  BY <1>4, <1>5

LEMMA ClaudeRetries ==
  ASSUME Claude!ConstantsOK, ClaudeInv, phase = "running", NEW e \in {"zero", "nonzero"}, Claude!RetryOnce(e)
  PROVE  ClaudeInv'
<1>1. /\ ClaudeTypes /\ stream \in Claude!Runs /\ child \in [{1, 2} -> Children] /\ cur = 1 /\ ~aborted
      /\ aborted = cancelled /\ claude.native /\ ~stream.used /\ captured = <<>> /\ ~stream.asked /\ stream.final # 2
      /\ staged = claude.staged /\ bridge = claude.native
      /\ \A f \in wire : f.by # 2 /\ f.kind \notin Claude!Terminal
  BY DEF ClaudeInv, ClaudeTypes, AtPhase, Current, Said, Claude!Settled, Claude!RetryOnce, Claude!Narrated
<1>2. /\ first' = [run |-> stream, exit |-> e] /\ withheld' = {} /\ cur' = 2
      /\ child' = [child EXCEPT ![1].state = "gone", ![1].stdin = FALSE, ![2] = Claude!NewChild]
      /\ tokens' \subseteq {2} /\ prompts' = [r \in Requests |-> Nothing]
      /\ UNCHANGED <<claude, phase, cancelled, aborted, stream, wire, captured, staged, bridge, sent>>
  BY DEF Claude!RetryOnce
<1>3. child' \in [{1, 2} -> Children] /\ child'[2].state = "alive"
  <2>1. child' = [a \in {1, 2} |-> IF a = 2 THEN Claude!NewChild ELSE [child[1] EXCEPT !.state = "gone", !.stdin = FALSE]]
    BY <1>1, <1>2
  <2>2. [child[1] EXCEPT !.state = "gone", !.stdin = FALSE] \in Children
    BY <1>1, ChildrenChange
  <2> QED
    BY <2>1, <2>2, NewOnes
<1>4. withheld' # Nothing
  BY <1>2 DEF Claude!ConstantsOK
<1>5. ClaudeTypes'
  BY <1>1, <1>2, <1>3 DEF ClaudeTypes
<1>6. AtPhase'
  <2>1. /\ cur' \in {1, 2} /\ child'[cur'].state \in {"alive", "exited"} /\ aborted' = cancelled'
        /\ staged' = claude'.staged /\ bridge' = claude'.native
        /\ withheld' # Nothing /\ cur' # 1 /\ phase' = "running" /\ ~aborted'
    <3>1. cur' = 2 /\ child'[cur'].state \in {"alive", "exited"} /\ withheld' # Nothing
      BY <1>2, <1>3, <1>4
    <3>2. phase' = "running" /\ ~aborted'
      BY <1>1, <1>2
    <3>3. aborted' = cancelled'
      BY <1>1, <1>2
    <3>4. staged' = claude'.staged /\ bridge' = claude'.native
      BY <1>1, <1>2
    <3> QED
      BY <3>1, <3>2, <3>3, <3>4
  <2> QED
    BY <2>1 DEF AtPhase, Waiting, Claude!Settled
<1>7. Current'
  <2>1. \A r \in Requests : prompts'[r] # "pending"
    BY <1>2 DEF Claude!ConstantsOK
  <2>2. /\ first'.exit \in {"zero", "nonzero"} /\ first'.run \in Claude!Runs /\ first'.run.final # 2 /\ ~first'.run.asked
    BY <1>1, <1>2
  <2> QED
    BY <1>1, <1>2, <1>3, <2>1, <2>2 DEF Current
<1>8. Said'
  BY <1>1, <1>2 DEF Said, Claude!Settled
<1> QED
  BY <1>5, <1>6, <1>7, <1>8 DEF ClaudeInv

LEMMA ClaudeEnds ==
  ASSUME Claude!ConstantsOK, ClaudeInv, Claude!Closes \/ Claude!Errs
  PROVE  ClaudeInv'
<1>1. CASE Claude!Closes
  <2>1. PICK e \in {"zero", "nonzero"} : phase = "running" /\ Claude!Closed(e)
    BY <1>1 DEF Claude!Closes
  <2> QED
    BY <2>1, ClaudeRetries, ClaudeSettles DEF Claude!Closed
<1>2. CASE Claude!Errs
  <2>1. phase = "running" /\ ~Claude!Contains(captured, cur) /\ (Claude!SettleRetry("error") \/ Claude!SettleOnly("error"))
    BY <1>2 DEF Claude!Errs, Claude!Attached
  <2>2. captured = <<>>
    BY <2>1, NoneCaptured DEF ClaudeInv, ClaudeTypes
  <2> QED
    BY <2>1, <2>2, ClaudeSettles
<1> QED
  BY <1>1, <1>2

LEMMA ClaudeCloses ==
  ASSUME Claude!ConstantsOK, ClaudeInv, Claude!Close
  PROVE  ClaudeInv'
<1>1. /\ phase = "closing" /\ phase' = "done" /\ bridge' = FALSE /\ wire' = wire \cup {due}
      /\ UNCHANGED <<claude, cancelled, aborted, cur, child, staged, tokens, stream, first, withheld, captured, sent,
                     prompts>>
  BY DEF Claude!Close, Claude!Streams
<1>2. /\ ClaudeTypes /\ IsVerdict(due) /\ \A f \in wire : f.kind \notin Claude!Terminal
  BY <1>1 DEF ClaudeInv, Said
<1>3. ClaudeTypes'
  BY <1>1, <1>2 DEF ClaudeTypes
<1>4. AtPhase' /\ Current'
  BY <1>1 DEF ClaudeInv, AtPhase, Current, Waiting, Claude!Settled
<1>5. Claude!Answers(wire)' = {due} /\ due \in wire'
  BY <1>1, <1>2 DEF Claude!Answers, IsVerdict
<1>6. Restored' = Restored /\ (Restored => due.by # 2)
  <2>1. Restored => due.by = first.run.final /\ cur = 2 /\ first.run.final # 2
    BY <1>2 DEF IsVerdict, Restored, ClaudeInv, Current
  <2> QED
    BY <1>1, <2>1 DEF Restored
<1>7. /\ due.kind \in Claude!Terminal
      /\ captured' # <<>> => (due.kind = "canceled" /\ aborted') \/ (due.kind = "completed" /\ due.calls = Len(captured'))
      /\ Restored' => /\ due = [kind |-> "completed", by |-> first'.run.final, calls |-> 0]
                      /\ \A g \in wire' : g.by # 2
  BY <1>1, <1>2, <1>6 DEF IsVerdict
<1>8. Said'
  BY <1>1, <1>5, <1>7 DEF Said, Claude!Settled, IsVerdict
<1> QED
  BY <1>3, <1>4, <1>8 DEF ClaudeInv

LEMMA ClaudeLeaves ==
  ASSUME Claude!ConstantsOK, ClaudeInv, Claude!Gone \/ Claude!Abort
  PROVE  ClaudeInv'
<1>1. /\ UNCHANGED <<claude, phase, cur, stream, exit, first, withheld, wire, captured, staged, bridge, sent, due>>
      /\ tokens' \subseteq tokens
  BY DEF Claude!Gone, Claude!Abort, Claude!Held, Claude!Streams
<1>2. ClaudeTypes /\ child \in [{1, 2} -> Children]
  BY DEF ClaudeInv, ClaudeTypes
<1>3. CASE Claude!Gone
  <2>1. /\ Claude!Settled /\ cur # 0 /\ child' = [child EXCEPT ![cur].state = "gone"]
        /\ UNCHANGED <<cancelled, aborted, tokens, prompts>>
    BY <1>3 DEF Claude!Gone, Claude!Living, Claude!Held, Claude!Streams
  <2>2. cur \in {1, 2}
    BY <1>2, <2>1 DEF ClaudeTypes
  <2>3. child' = [child EXCEPT ![cur] = [child[cur] EXCEPT !.state = "gone"]]
    BY <2>1
  <2>4. child' \in [{1, 2} -> Children]
    BY <1>2, <2>2, <2>3, ChildIs, ChildrenChange
  <2>5. ClaudeTypes'
    BY <1>1, <1>2, <2>1, <2>4 DEF ClaudeTypes
  <2>6. AtPhase' /\ Current'
    BY <1>1, <2>1 DEF ClaudeInv, AtPhase, Current, Waiting, Claude!Settled
  <2>7. Said'
    BY <1>1, <2>1 DEF ClaudeInv, Said, IsVerdict, Restored, Claude!Settled
  <2> QED
    BY <2>5, <2>6, <2>7 DEF ClaudeInv
<1>4. CASE Claude!Abort
  <2>1. /\ ~cancelled /\ cancelled' = TRUE /\ aborted' = (phase = "running") /\ tokens' = {} /\ phase # "done"
        /\ child' = IF phase = "running" THEN [child EXCEPT ![cur].killed = TRUE] ELSE child
        /\ prompts' = Claude!Dropped
    BY <1>4 DEF Claude!Abort, Claude!Ended
  <2>2. child' \in [{1, 2} -> Children] /\ (phase = "running" => child'[cur].state = child[cur].state)
    <3>1. CASE phase = "running"
      <4>1. child' = [child EXCEPT ![cur] = [child[cur] EXCEPT !.killed = TRUE]] /\ cur \in {1, 2} /\ child[cur] \in Children
        BY <2>1, <3>1, Working
      <4> QED
        BY <1>2, <4>1, ChildIs, ChildrenChange
    <3> QED
      BY <1>2, <2>1, <3>1
  <2>3. ClaudeTypes'
    <3>1. /\ aborted' \in BOOLEAN /\ cancelled' \in BOOLEAN
          /\ prompts' \in [Requests -> {Nothing, "pending", "settled", "withdrawn"}]
      BY <1>2, <2>1, DroppedIs
    <3> QED
      BY <1>1, <1>2, <2>2, <3>1 DEF ClaudeTypes
  <2>4. ~aborted
    BY <2>1 DEF ClaudeInv, AtPhase
  <2>5. AtPhase'
    BY <1>1, <2>1, <2>2, <2>4 DEF ClaudeInv, AtPhase, Waiting, Claude!Settled
  <2>6. Current'
    BY <1>1, <1>2, <2>1, <2>4, DroppedIs DEF ClaudeInv, Current
  <2>7. Said'
    <3>1. phase = "closing" => IsVerdict(due)'
      BY <1>1, <2>1, <2>4 DEF ClaudeInv, Said, IsVerdict, Restored
    <3> QED
      BY <1>1, <2>1, <3>1 DEF ClaudeInv, Said, Claude!Settled
  <2> QED
    BY <2>3, <2>5, <2>6, <2>7 DEF ClaudeInv
<1> QED
  BY <1>3, <1>4

LEMMA ClaudeStays ==
  ASSUME Claude!ConstantsOK, ClaudeInv, [Claude!Next]_Claude!vars
  PROVE  ClaudeInv'
<1>1. CASE UNCHANGED Claude!vars
  BY <1>1 DEF Claude!vars, ClaudeInv, ClaudeTypes, AtPhase, Current, Said, Waiting, Claude!Settled, IsVerdict, Restored
<1> QED
  BY <1>1, ClaudeWaits, ClaudeStreams, ClaudeFiles, ClaudePermissions, ClaudeEnds, ClaudeExitsBeats, ClaudeLeaves,
     ClaudeCloses DEF Claude!Next

(* What a step may put on the wire or hold back.                              *)
LEMMA ClaudeSpeaks ==
  ASSUME Claude!ConstantsOK, ClaudeInv, [Claude!Next]_Claude!vars
  PROVE  \/ UNCHANGED <<wire, withheld>>
         \/ /\ phase # "done" /\ UNCHANGED withheld
            /\ \E k \in {"canceled", "failed", "working", "beat"} : wire' = wire \cup {Claude!Frame(k, 0)}
         \/ phase = "closing" /\ UNCHANGED withheld /\ wire' = wire \cup {due}
         \/ phase = "running" /\ Claude!EmitArtifact(Claude!Frame("text", cur))
         \/ \E a \in tokens : Claude!EmitArtifact(Claude!Frame("file", a)) /\ fetching' = fetching \ {a}
         \/ phase = "running" /\ UNCHANGED wire /\ withheld' = {}
         \/ \E r, e, out : /\ phase = "running" /\ Claude!Settle(r, e, out)
                           /\ out = {} \/ (out = withheld /\ withheld # Nothing)
<1>1. ASSUME NEW e, phase = "running", Claude!RetryFails(e) \/ Claude!SettleRetry(e) \/ Claude!SettleOnly(e)
      PROVE  \E r, x, out : /\ phase = "running" /\ Claude!Settle(r, x, out)
                            /\ out = {} \/ (out = withheld /\ withheld # Nothing)
  <2>1. cur = 2 => withheld # Nothing
    BY <1>1 DEF ClaudeInv, AtPhase
  <2>2. CASE Claude!Settle(stream, e, {})
    BY <1>1, <2>2
  <2>3. CASE Claude!SettleRetry(e)
    <3>1. Claude!Settle(first.run, first.exit, {}) \/ Claude!Settle(stream, e, withheld)
      BY <2>3 DEF Claude!SettleRetry
    <3>2. cur = 2
      BY <2>3 DEF Claude!SettleRetry
    <3> QED
      BY <1>1, <2>1, <3>1, <3>2
  <2> QED
    BY <1>1, <2>2, <2>3 DEF Claude!RetryFails, Claude!SettleOnly
<1>2. CASE UNCHANGED Claude!vars
  BY <1>2 DEF Claude!vars
<1>3. CASE \/ Claude!Begin \/ Claude!Mapped \/ Claude!FilesUnavailable \/ Claude!ToolsFail
           \/ Claude!LaunchFails \/ Claude!LaunchMute \/ Claude!Launch \/ Claude!Beat
  BY <1>3 DEF Claude!Begin, Claude!Mapped, Claude!FilesUnavailable, Claude!ToolsFail, Claude!LaunchFails,
              Claude!LaunchMute, Claude!Launch, Claude!Beat, Claude!Streams
<1>4. CASE Claude!Stream
  BY <1>4 DEF Claude!Stream, Claude!Attached, Claude!Text, Claude!ToolUse, Claude!Ask, Claude!Result,
              Claude!Complains, Claude!Invoke
<1>5. CASE Claude!Files
  BY <1>5 DEF Claude!Files, Claude!SendFile, Claude!FileRead
<1>6. CASE Claude!Permissions \/ Claude!Exits
  BY <1>6 DEF Claude!Permissions, Claude!Control, Claude!Withdraw, Claude!Decide, Claude!Exits
<1>7. CASE Claude!Gone \/ Claude!Abort \/ Claude!Close
  BY <1>7 DEF Claude!Gone, Claude!Abort, Claude!Close, Claude!Streams
<1>8. CASE Claude!Closes
  <2>1. PICK e \in {"zero", "nonzero"} : phase = "running" /\ Claude!Closed(e)
    BY <1>8 DEF Claude!Closes
  <2>2. CASE Claude!RetryOnce(e)
    BY <2>1, <2>2 DEF Claude!RetryOnce
  <2> QED
    BY <1>1, <2>1, <2>2 DEF Claude!Closed
<1>9. CASE Claude!Errs
  <2>1. phase = "running" /\ (Claude!SettleRetry("error") \/ Claude!SettleOnly("error"))
    BY <1>9 DEF Claude!Errs, Claude!Attached
  <2> QED
    BY <1>1, <2>1
<1> QED
  BY <1>2, <1>3, <1>4, <1>5, <1>6, <1>7, <1>8, <1>9 DEF Claude!Next

LEMMA ClaudeOneCard ==
  ASSUME NEW f
  PROVE  Claude!Cardinality({f}) = 1
<1>1. ASSUME NEW S
      PROVE  Claude!Cardinality(S) = Cardinality(S)
  BY DEF Claude!Cardinality, Cardinality
<1> QED
  BY <1>1, FS_Singleton

OneVerdict ==
  [/\ Claude!Ended => wire' = wire
   /\ Claude!Answers(wire') = {} \/ (Claude!Ended' /\ Claude!Cardinality(Claude!Answers(wire')) = 1)]_Claude!vars

LEMMA OneVerdictStep ==
  ASSUME Claude!ConstantsOK, ClaudeInv, ClaudeInv', [Claude!Next]_Claude!vars
  PROVE  OneVerdict
<1>1. Claude!Ended => wire' = wire
  <2>1. Claude!Ended => phase = "done" /\ tokens = {}
    BY DEF Claude!Ended, ClaudeInv, AtPhase, Claude!Settled
  <2> QED
    BY <2>1, ClaudeSpeaks
<1>2. Claude!Answers(wire') = {} \/ (Claude!Ended' /\ Claude!Cardinality(Claude!Answers(wire')) = 1)
  <2>1. CASE phase' = "done"
    <3>1. PICK f : Claude!Answers(wire') = {f}
      BY <2>1 DEF ClaudeInv, Said
    <3> QED
      BY <2>1, <3>1, ClaudeOneCard DEF Claude!Ended
  <2>2. CASE phase' # "done"
    BY <2>2 DEF ClaudeInv, Said, Claude!Answers
  <2> QED
    BY <2>1, <2>2
<1> QED
  BY <1>1, <1>2 DEF OneVerdict

(* Only a decision is written, and only to the child that waits for it.       *)
AskersHear ==
  [\A p \in answers' \ answers :
     /\ p[2] \in sent[p[1]] /\ prompts[p[2]] # "withdrawn"
     /\ child[p[1]].state # "gone" /\ ~cancelled]_Claude!vars

LEMMA AskersHearStep ==
  ASSUME Claude!ConstantsOK, ClaudeInv, [Claude!Next]_Claude!vars
  PROVE  AskersHear
<1>1. CASE Claude!Decide
  <2>1. PICK r \in Requests : prompts[r] = "pending" /\ answers' \subseteq answers \cup {<<cur, r>>}
    BY <1>1 DEF Claude!Decide
  <2>2. phase = "running" /\ ~cancelled /\ r \in sent[cur]
    BY <2>1 DEF ClaudeInv, Current
  <2>3. child[cur].state # "gone"
    BY <2>2 DEF ClaudeInv, AtPhase
  <2> QED
    BY <2>1, <2>2, <2>3 DEF AskersHear
<1>2. CASE ~Claude!Decide
  <2>1. UNCHANGED answers
    <3>1. ASSUME NEW e, Claude!Closed(e) \/ Claude!SettleRetry(e) \/ Claude!SettleOnly(e)
          PROVE  UNCHANGED answers
      BY <3>1 DEF Claude!Closed, Claude!RetryOnce, Claude!RetryFails, Claude!SettleRetry, Claude!SettleOnly, Claude!Settle
    <3>2. CASE Claude!Closes \/ Claude!Errs
      BY <3>1, <3>2 DEF Claude!Closes, Claude!Errs
    <3>3. CASE \/ UNCHANGED Claude!vars \/ Claude!Begin \/ Claude!Mapped \/ Claude!FilesUnavailable \/ Claude!ToolsFail
               \/ Claude!LaunchFails \/ Claude!LaunchMute \/ Claude!Launch \/ Claude!Beat \/ Claude!Gone
               \/ Claude!Abort \/ Claude!Close \/ Claude!Exits
      BY <3>3 DEF Claude!vars, Claude!Begin, Claude!Mapped, Claude!FilesUnavailable, Claude!ToolsFail, Claude!LaunchFails,
                  Claude!LaunchMute, Claude!Launch, Claude!Beat, Claude!Gone, Claude!Abort, Claude!Close, Claude!Exits,
                  Claude!Streams
    <3>4. CASE Claude!Stream \/ Claude!Files \/ Claude!Control \/ Claude!Withdraw
      BY <3>4 DEF Claude!Stream, Claude!Text, Claude!ToolUse, Claude!Ask, Claude!Result, Claude!Complains, Claude!Invoke,
                  Claude!Files, Claude!SendFile, Claude!FileRead, Claude!Control, Claude!Withdraw
    <3> QED
      BY <1>2, <3>2, <3>3, <3>4 DEF Claude!Next, Claude!Permissions
  <2> QED
    BY <2>1 DEF AskersHear
<1> QED
  BY <1>1, <1>2

(* Only the read file of the current child goes out as a file.                *)
FilesLive ==
  [\A a \in Claude!Attempts :
     (~Claude!From(a, "file") /\ ~Claude!Buffered("file") /\ (Claude!From(a, "file")' \/ Claude!Buffered("file")')) =>
     /\ phase = "running" /\ ~cancelled /\ child[cur].state = "alive"
     /\ cur \notin fetching']_Claude!vars

LEMMA FilesLiveStep ==
  ASSUME Claude!ConstantsOK, ClaudeInv, [Claude!Next]_Claude!vars
  PROVE  FilesLive
<1> SUFFICES ASSUME NEW a \in Claude!Attempts, ~Claude!From(a, "file"), ~Claude!Buffered("file"),
                    Claude!From(a, "file")' \/ Claude!Buffered("file")'
             PROVE  phase = "running" /\ ~cancelled /\ child[cur].state = "alive" /\ cur \notin fetching'
  BY DEF FilesLive
<1>1. \A k, n : Claude!Frame(k, n).kind = k
  BY DEF Claude!Frame
<1>2. PICK f : f.kind = "file" /\ \/ f \in wire' /\ f \notin wire
                                  \/ withheld' # Nothing /\ f \in withheld' /\ ~(withheld # Nothing /\ f \in withheld)
  <2>1. CASE Claude!From(a, "file")'
    BY <1>1, <2>1 DEF Claude!From
  <2>2. CASE Claude!Buffered("file")'
    BY <2>2 DEF Claude!Buffered
  <2> QED
    BY <2>1, <2>2
<1>3. ~(withheld # Nothing /\ f \in withheld)
  BY <1>2 DEF Claude!Buffered
<1>4. ASSUME NEW g, Claude!EmitArtifact(g)
      PROVE  f = g
  BY <1>2, <1>4 DEF Claude!EmitArtifact
<1>5. CASE \E b \in tokens : Claude!EmitArtifact(Claude!Frame("file", b)) /\ fetching' = fetching \ {b}
  <2>1. PICK b \in tokens : fetching' = fetching \ {b}
    BY <1>5
  <2> QED
    BY <2>1 DEF ClaudeInv, Current
<1>6. CASE phase = "running" /\ Claude!EmitArtifact(Claude!Frame("text", cur))
  BY <1>1, <1>2, <1>4, <1>6
<1>7. CASE \E k \in {"canceled", "failed", "working", "beat"} : UNCHANGED withheld /\ wire' = wire \cup {Claude!Frame(k, 0)}
  BY <1>1, <1>2, <1>7
<1>8. CASE phase = "closing" /\ UNCHANGED withheld /\ wire' = wire \cup {due}
  <2>1. due.kind \in Claude!Terminal
    BY <1>8 DEF ClaudeInv, Said, IsVerdict
  <2> QED
    BY <1>2, <1>8, <2>1 DEF Claude!Terminal
<1>9. CASE \E r, e, out : /\ phase = "running" /\ Claude!Settle(r, e, out)
                          /\ out = {} \/ (out = withheld /\ withheld # Nothing)
  <2>1. PICK r, e, out : Claude!Settle(r, e, out) /\ (out = {} \/ (out = withheld /\ withheld # Nothing))
    BY <1>9
  <2>2. withheld' = Nothing /\ f \in wire' /\ f \notin wire
    BY <1>2, <2>1 DEF Claude!Settle
  <2>3. f \in out \/ f = Claude!Frame("result", r.final)
    BY <2>1, <2>2 DEF Claude!Settle
  <2> QED
    BY <1>1, <1>2, <1>3, <2>1, <2>3
<1> QED
  BY <1>2, <1>5, <1>6, <1>7, <1>8, <1>9, ClaudeSpeaks

CancelDecides == [(phase = "running" /\ cancelled /\ phase' = "closing") => due'.kind = "canceled"]_Claude!vars

LEMMA CancelDecidesStep ==
  ASSUME Claude!ConstantsOK, ClaudeInv, [Claude!Next]_Claude!vars
  PROVE  CancelDecides
<1> SUFFICES ASSUME phase = "running", cancelled, phase' = "closing" PROVE due'.kind = "canceled"
  BY DEF CancelDecides
<1>1. aborted
  BY DEF ClaudeInv, AtPhase
<1>2. ASSUME NEW r, NEW e, NEW out, Claude!Settle(r, e, out) PROVE due'.kind = "canceled"
  BY <1>1, <1>2 DEF Claude!Settle, Claude!Verdict, Claude!Frame
<1>3. ASSUME NEW e, Claude!Closed(e) \/ Claude!SettleRetry(e) \/ Claude!SettleOnly(e) PROVE due'.kind = "canceled"
  BY <1>1, <1>2, <1>3 DEF Claude!Closed, Claude!RetryOnce, Claude!RetryFails, Claude!SettleRetry, Claude!SettleOnly,
                          Claude!Narrated
<1>4. CASE Claude!Closes \/ Claude!Errs
  BY <1>3, <1>4 DEF Claude!Closes, Claude!Errs
<1>5. ~UNCHANGED Claude!vars
  BY DEF Claude!vars
<1>6. CASE \/ Claude!Begin \/ Claude!Mapped \/ Claude!FilesUnavailable \/ Claude!ToolsFail
           \/ Claude!LaunchFails \/ Claude!LaunchMute \/ Claude!Launch \/ Claude!Beat \/ Claude!Gone
           \/ Claude!Abort \/ Claude!Close \/ Claude!Exits
  BY <1>6 DEF Claude!Begin, Claude!Mapped, Claude!FilesUnavailable, Claude!ToolsFail, Claude!LaunchFails, Claude!Held,
              Claude!LaunchMute, Claude!Launch, Claude!Beat, Claude!Gone, Claude!Abort, Claude!Close, Claude!Exits,
              Claude!Settled
<1>7. CASE Claude!Stream \/ Claude!Files \/ Claude!Permissions
  BY <1>7 DEF Claude!Stream, Claude!Text, Claude!ToolUse, Claude!Ask, Claude!Result, Claude!Complains, Claude!Invoke,
              Claude!Files, Claude!SendFile, Claude!FileRead, Claude!Permissions, Claude!Control, Claude!Withdraw,
              Claude!Decide, Claude!Held
<1> QED
  BY <1>4, <1>5, <1>6, <1>7 DEF Claude!Next

ClaudeGood == Claude!DiscardLeavesNoTrace /\ Claude!CallsReachCaller /\ Claude!SetUpLasts

LEMMA ClaudeIsGood ==
  ASSUME ClaudeInv
  PROVE  ClaudeGood
<1>1. CASE phase = "done"
  <2>1. PICK f : Claude!Answers(wire) = {f} /\ IsVerdict(f)
    BY <1>1 DEF ClaudeInv, Said
  <2>2. Claude!DiscardLeavesNoTrace
    BY <2>1 DEF Claude!DiscardLeavesNoTrace, IsVerdict, Restored
  <2>3. Claude!CallsReachCaller
    BY <2>1 DEF Claude!CallsReachCaller, IsVerdict
  <2>4. Claude!SetUpLasts
    BY <1>1 DEF Claude!SetUpLasts, Claude!Ended, Claude!Settled, ClaudeInv, AtPhase
  <2> QED
    BY <2>2, <2>3, <2>4 DEF ClaudeGood
<1>2. CASE phase # "done"
  BY <1>2 DEF ClaudeGood, Claude!DiscardLeavesNoTrace, Claude!CallsReachCaller, Claude!SetUpLasts, Claude!Ended,
              ClaudeInv, AtPhase
<1> QED
  BY <1>1, <1>2

ClaudeHolds == Claude!ConstantsOK /\ ClaudeInv

(* A task of claude, from its turn to its verdict: its child, its permissions,*)
(* its capability and its corrective attempt stay within ClaudeInv.           *)
THEOREM ClaudeInvariant == Claude!ConstantsOK /\ Claude!Spec => []ClaudeHolds
<1>1. Claude!ConstantsOK /\ Claude!Init => ClaudeHolds
  BY ClaudeStarts DEF ClaudeHolds
<1>2. ClaudeHolds /\ [Claude!Next]_Claude!vars => ClaudeHolds'
  BY ClaudeStays DEF ClaudeHolds, Claude!ConstantsOK
<1> QED
  BY <1>1, <1>2, PTL DEF Claude!Spec

(* Every task of claude is answered once, with its captured calls, without a  *)
(* trace of a discarded attempt, and as cancelled when it was; permissions    *)
(* and files go where they belong.                                            *)
THEOREM ClaudeKeeps == Claude!ConstantsOK /\ Claude!Spec => ClaudeKeepsItsWord
<1>1. ClaudeHolds => ClaudeGood
  BY ClaudeIsGood DEF ClaudeHolds
<1>2. ClaudeHolds /\ ClaudeHolds' /\ [Claude!Next]_Claude!vars => OneVerdict /\ AskersHear /\ FilesLive /\ CancelDecides
  BY OneVerdictStep, AskersHearStep, FilesLiveStep, CancelDecidesStep DEF ClaudeHolds
<1>3. Claude!ConstantsOK /\ Claude!Spec => []ClaudeGood
  BY <1>1, ClaudeInvariant, PTL
<1>4. Claude!ConstantsOK /\ Claude!Spec => [][OneVerdict /\ AskersHear /\ FilesLive /\ CancelDecides]_Claude!vars
  BY <1>2, ClaudeInvariant, PTL DEF Claude!Spec
<1> QED
  BY <1>3, <1>4, PTL DEF ClaudeKeepsItsWord, ClaudeGood, OneVerdict, AskersHear, FilesLive, CancelDecides,
     Claude!OneTerminal, Claude!AnswersReachAsker, Claude!FilesFromLiving, Claude!CancelWins

-----------------------------------------------------------------------------
(***************************************************************************)
(* Tasks of openclaw.  A task is at one connection, and connections do not *)
(* come back; what is kept of its run is kept until the acknowledgement.   *)
(***************************************************************************)
GateTypes ==
  /\ conn \in Nat /\ link \in {"down", "connecting", "up"} /\ (link # "down" => conn > 0)
  /\ owner \in [Keys -> Jobs \cup {Nothing}]
  /\ stage \in [Jobs -> {"new", "connect", "subscribe", "send", "running", "draining", "final", "done"}]
  /\ gw \in [Jobs -> Nat] /\ aborts \subseteq Jobs
  /\ run \in [Jobs -> {"none", "live", "over"}]
  /\ settled \in [Jobs -> Openclaw!Ends \cup Openclaw!Causes \cup {Nothing}]
  /\ pend \in [Jobs -> Openclaw!Ends \cup {"delta", Nothing}]
  /\ finalized \subseteq Jobs
  /\ requested \in [Jobs -> {"no", "pending", "sent", "answered"}]
  /\ queue \in [Jobs -> Seq(Jobs)] /\ reading \subseteq Jobs
  /\ passed \in [Jobs -> SUBSET Jobs]
  /\ outcome \in [Jobs -> {Nothing, "completed", "failed", "canceled"}]

(* The run of a task on its connection, and its end.                          *)
Attuned(t) ==
  /\ gw[t] <= conn /\ (stage[t] = "new" => gw[t] = 0)
  /\ link = "connecting" /\ gw[t] = conn => stage[t] = "connect"
  /\ stage[t] \in {"new", "connect", "subscribe"} => run[t] = "none"
  /\ pend[t] # Nothing => stage[t] = "send" /\ Openclaw!Up(t) /\ run[t] # "none"
  /\ stage[t] = "send" /\ run[t] = "over" /\ Openclaw!Up(t) => pend[t] \in Openclaw!Ends
  /\ stage[t] = "running" /\ run[t] = "over" /\ Openclaw!Up(t) => settled[t] # Nothing
  /\ stage[t] = "done" /\ run[t] # "none" /\ Openclaw!Up(t) => t \in finalized
  /\ t \in finalized => stage[t] = "done"

(* Its cancellation.                                                          *)
Heeded(t) ==
  t \in aborts => /\ stage[t] = "send" => requested[t] = "pending"
                  /\ stage[t] \in Openclaw!Bound => requested[t] \in {"sent", "answered"}

(* What it passes on.                                                         *)
Passes(t) ==
  /\ t \in reading => queue[t] # <<>>
  /\ queue[t] # <<>> => stage[t] \in {"send", "running", "draining", "done"}
  /\ outcome[t] # Nothing => stage[t] = "done"
  /\ outcome[t] \in {"completed", "canceled"} => t \notin reading

GateInv == GateTypes /\ \A t \in Jobs : Attuned(t) /\ Heeded(t) /\ Passes(t)

LEMMA GateStarts ==
  ASSUME Openclaw!ConstantsOK, Openclaw!Init
  PROVE  GateInv
<1>1. GateTypes
  BY DEF Openclaw!Init, GateTypes
<1>2. \A t \in Jobs : Attuned(t) /\ Heeded(t)
  BY DEF Openclaw!Init, Attuned, Heeded, Openclaw!Up
<1>3. \A t \in Jobs : Passes(t)
  BY DEF Openclaw!Init, Passes
<1> QED
  BY <1>1, <1>2, <1>3 DEF GateInv

LEMMA GateConstants ==
  ASSUME Openclaw!ConstantsOK
  PROVE  /\ Nothing \notin Jobs /\ Nothing \notin Openclaw!Ends /\ Nothing \notin Openclaw!Causes
         /\ Nothing \notin {"delta", "completed", "failed", "canceled"} /\ key \in [Jobs -> Keys]
BY DEF Openclaw!ConstantsOK

(* The connection comes and goes.                                             *)
LEMMA LinkSteps ==
  ASSUME Openclaw!ConstantsOK, GateInv, Openclaw!Opened \/ Openclaw!OpenFails \/ Openclaw!Close
  PROVE  GateInv'
<1>1. GateTypes /\ \A t \in Jobs : Attuned(t) /\ Heeded(t) /\ Passes(t)
  BY DEF GateInv
<1>2. UNCHANGED <<conn, stage, gw, aborts, requested, queue, reading, passed, outcome>>
  BY DEF Openclaw!Opened, Openclaw!OpenFails, Openclaw!Close, Openclaw!Passing
<1>3. ASSUME NEW t \in Jobs PROVE Heeded(t)' /\ Passes(t)'
  BY <1>1, <1>2 DEF Heeded, Passes
<1>4. CASE Openclaw!Opened \/ Openclaw!OpenFails
  <2>1. link = "connecting" /\ link' \in {"up", "down"} /\ UNCHANGED <<owner, run, settled, pend, finalized>>
    BY <1>4 DEF Openclaw!Opened, Openclaw!OpenFails, Openclaw!Streaming, Openclaw!Events
  <2>2. GateTypes'
    BY <1>1, <1>2, <2>1 DEF GateTypes
  <2>3. ASSUME NEW t \in Jobs PROVE Attuned(t)'
    <3>1. Attuned(t) /\ pend[t] = Nothing
      BY <1>1, <2>1 DEF Attuned, Openclaw!Up
    <3> QED
      BY <1>1, <1>2, <2>1, <3>1 DEF Attuned, Openclaw!Up, GateTypes
  <2> QED
    BY <1>3, <2>2, <2>3 DEF GateInv
<1>5. CASE Openclaw!Close
  <2>1. /\ link' = "down" /\ pend' = [t \in Jobs |-> Nothing] /\ finalized' = {} /\ owner' = [k \in Keys |-> Nothing]
        /\ run' = [t \in Jobs |-> IF run[t] = "live" THEN "over" ELSE run[t]]
        /\ settled' = [t \in Jobs |-> IF stage[t] \in Openclaw!Registered /\ settled[t] = Nothing
                                      THEN "gateway_closed" ELSE settled[t]]
    BY <1>5 DEF Openclaw!Close
  <2>2. "gateway_closed" \in Openclaw!Causes
    BY DEF Openclaw!Causes
  <2>3. GateTypes'
    BY <1>1, <1>2, <2>1, <2>2 DEF GateTypes
  <2>4. ASSUME NEW t \in Jobs PROVE Attuned(t)'
    BY <1>1, <1>2, <2>1 DEF Attuned, Openclaw!Up, GateTypes
  <2> QED
    BY <1>3, <2>3, <2>4 DEF GateInv
<1> QED
  BY <1>4, <1>5

(* A task that ends.                                                          *)
LEMMA GateEnds ==
  ASSUME Openclaw!ConstantsOK, GateInv, NEW t \in Jobs, NEW v \in {"completed", "failed", "canceled"},
         Openclaw!EndsWith(t, v), stage[t] # "done",
         stage[t] = "connect" => gw[t] # conn \/ link = "down",
         stage[t] = "send" => run[t] = "none" \/ ~Openclaw!Up(t), v # "failed" => t \notin reading,
         UNCHANGED <<conn, link, gw, aborts, run, settled, requested, queue, reading>>,
         passed' \in [Jobs -> SUBSET Jobs]
  PROVE  GateInv'
<1>1. GateTypes /\ \A u \in Jobs : Attuned(u) /\ Heeded(u) /\ Passes(u)
  BY DEF GateInv
<1>2. /\ stage' = [stage EXCEPT ![t] = "done"] /\ outcome' = [outcome EXCEPT ![t] = v]
      /\ finalized' = IF stage[t] \in Openclaw!Bound THEN finalized \cup {t} ELSE finalized
      /\ pend' = IF stage[t] \in Openclaw!Bound THEN [pend EXCEPT ![t] = Nothing] ELSE pend
      /\ owner' = [k \in Keys |-> IF owner[k] = t THEN Nothing ELSE owner[k]]
  BY DEF Openclaw!EndsWith
<1>3. GateTypes'
  BY <1>1, <1>2 DEF GateTypes
<1>4. link = "connecting" => gw[t] # conn
  BY <1>1 DEF Attuned
<1>5. ASSUME NEW u \in Jobs PROVE Attuned(u)'
  <2>1. CASE u # t
    BY <1>1, <1>2, <2>1 DEF Attuned, Openclaw!Up, GateTypes
  <2>2. CASE u = t /\ stage[t] \in Openclaw!Bound
    BY <1>1, <1>2, <1>4, <2>2 DEF Attuned, Openclaw!Up, GateTypes
  <2>3. CASE u = t /\ stage[t] \notin Openclaw!Bound
    <3>1. stage[t] \in {"new", "connect", "subscribe", "send"} /\ stage'[t] = "done"
      BY <1>1, <1>2, <2>3 DEF GateTypes, Openclaw!Bound
    <3>2. run[t] = "none" \/ ~Openclaw!Up(t)
      BY <1>1, <3>1 DEF Attuned
    <3>3. pend'[t] = Nothing
      BY <1>1, <1>2, <2>3, <3>2 DEF Attuned
    <3>4. t \notin finalized'
      BY <1>1, <1>2, <2>3 DEF Attuned
    <3> QED
      BY <1>1, <1>4, <2>3, <3>1, <3>2, <3>3, <3>4 DEF Attuned, Openclaw!Up, GateTypes
  <2> QED
    BY <2>1, <2>2, <2>3
<1>6. ASSUME NEW u \in Jobs PROVE Heeded(u)' /\ Passes(u)'
  BY <1>1, <1>2, GateConstants DEF Heeded, Passes, Openclaw!Bound, GateTypes
<1> QED
  BY <1>3, <1>5, <1>6 DEF GateInv

(* A task arrives, and its message goes out.                                  *)
LEMMA GateArrives ==
  ASSUME Openclaw!ConstantsOK, GateInv, NEW t \in Jobs, Openclaw!Arrive(t)
  PROVE  GateInv'
<1>1. GateTypes /\ \A u \in Jobs : Attuned(u) /\ Heeded(u) /\ Passes(u)
  BY DEF GateInv
<1>2. stage[t] = "new" /\ gw[t] = 0 /\ t \notin reading /\ run[t] = "none"
  BY <1>1 DEF Openclaw!Arrive, Attuned, Passes
<1>3. CASE Openclaw!EndsWith(t, "canceled") \/ Openclaw!EndsWith(t, "failed")
  <2>1. UNCHANGED <<conn, link, gw, aborts, run, settled, requested, queue, reading, passed>>
    <3>1. stage'[t] = "done"
      BY <1>1, <1>3 DEF Openclaw!EndsWith, GateTypes
    <3> QED
      BY <3>1, <1>1 DEF Openclaw!Arrive, Openclaw!Link, Openclaw!Passing, GateTypes
  <2> QED
    BY <1>1, <1>2, <1>3, <2>1, GateEnds DEF GateTypes
<1>4. CASE /\ stage' = [stage EXCEPT ![t] = "connect"]
           /\ \/ link # "down" /\ UNCHANGED Openclaw!Link
              \/ /\ link = "down" /\ conn < MaxConns
                 /\ conn' = conn + 1 /\ link' = "connecting" /\ UNCHANGED lacks
           /\ gw' = [gw EXCEPT ![t] = conn']
           /\ UNCHANGED <<owner, outcome, finalized, pend>>
  <2>1. UNCHANGED <<aborts, run, settled, requested, queue, reading, passed>>
    BY DEF Openclaw!Arrive, Openclaw!Passing
  <2>2. \/ link # "down" /\ UNCHANGED <<conn, link>>
        \/ link = "down" /\ conn' = conn + 1 /\ link' = "connecting"
    BY <1>4 DEF Openclaw!Link
  <2>3. conn' \in Nat /\ conn' > 0 /\ conn <= conn' /\ link' \in {"connecting", "up"}
    BY <1>1, <2>2 DEF GateTypes
  <2>4. GateTypes'
    BY <1>1, <1>4, <2>1, <2>3 DEF GateTypes
  <2>5. ASSUME NEW u \in Jobs PROVE Attuned(u)'
    <3>1. CASE u = t
      <4>1. pend[t] = Nothing /\ t \notin finalized
        BY <1>1, <1>2 DEF Attuned
      <4> QED
        BY <1>1, <1>2, <1>4, <2>1, <2>3, <3>1, <4>1 DEF Attuned, GateTypes
    <3>2. CASE u # t /\ UNCHANGED <<conn, link>>
      BY <1>1, <1>4, <2>1, <3>2 DEF Attuned, Openclaw!Up, GateTypes
    <3>3. CASE u # t /\ link = "down" /\ conn' = conn + 1 /\ link' = "connecting"
      <4>1. ~Openclaw!Up(u) /\ ~Openclaw!Up(u)' /\ gw[u] <= conn' /\ gw[u] # conn' /\ gw'[u] = gw[u] /\ stage'[u] = stage[u]
        BY <1>1, <1>4, <3>3 DEF Attuned, Openclaw!Up, GateTypes
      <4> QED
        BY <1>1, <1>4, <2>1, <4>1 DEF Attuned
    <3> QED
      BY <2>2, <3>1, <3>2, <3>3
  <2>6. ASSUME NEW u \in Jobs PROVE Heeded(u)' /\ Passes(u)'
    BY <1>1, <1>2, <1>4, <2>1 DEF Heeded, Passes, Openclaw!Bound, GateTypes
  <2> QED
    BY <2>4, <2>5, <2>6 DEF GateInv
<1> QED
  BY <1>3, <1>4 DEF Openclaw!Arrive

LEMMA GateSends ==
  ASSUME Openclaw!ConstantsOK, GateInv, NEW t \in Jobs,
         Openclaw!Connected(t) \/ Openclaw!Subscribed(t)
  PROVE  GateInv'
<1>1. GateTypes /\ \A u \in Jobs : Attuned(u) /\ Heeded(u) /\ Passes(u)
  BY DEF GateInv
<1>2. /\ stage[t] \in {"connect", "subscribe"} /\ Openclaw!Up(t)
      /\ UNCHANGED <<conn, link, gw, aborts, run, settled, pend, finalized, queue, reading, passed, outcome>>
  BY DEF Openclaw!Connected, Openclaw!Subscribed, Openclaw!Link, Openclaw!Events, Openclaw!Passing
<1>3. run[t] = "none" /\ pend[t] = Nothing /\ t \notin finalized /\ t \notin reading /\ queue[t] = <<>>
      /\ outcome[t] = Nothing /\ link = "up" /\ gw[t] = conn
  BY <1>1, <1>2 DEF Attuned, Passes, Openclaw!Up
<1>4. \/ stage' = [stage EXCEPT ![t] = "subscribe"] /\ UNCHANGED <<owner, requested>>
      \/ Openclaw!Send(t)
  BY DEF Openclaw!Connected, Openclaw!Subscribed
<1>5. CASE stage' = [stage EXCEPT ![t] = "subscribe"] /\ UNCHANGED <<owner, requested>>
  <2>1. GateTypes'
    BY <1>1, <1>2, <1>5 DEF GateTypes
  <2>2. ASSUME NEW u \in Jobs PROVE Attuned(u)' /\ Heeded(u)' /\ Passes(u)'
    BY <1>1, <1>2, <1>3, <1>5 DEF Attuned, Heeded, Passes, Openclaw!Up, Openclaw!Bound, GateTypes
  <2> QED
    BY <2>1, <2>2 DEF GateInv
<1>6. CASE Openclaw!Send(t)
  <2>1. /\ stage' = [stage EXCEPT ![t] = "send"]
        /\ requested' = [requested EXCEPT ![t] = IF t \in aborts THEN "pending" ELSE "no"]
        /\ owner' = [owner EXCEPT ![key[t]] = t] \/ owner' = owner
    BY <1>6 DEF Openclaw!Send
  <2>2. GateTypes'
    <3>1. owner' \in [Keys -> Jobs \cup {Nothing}]
      BY <1>1, <2>1, GateConstants DEF GateTypes
    <3>2. requested' \in [Jobs -> {"no", "pending", "sent", "answered"}]
      BY <1>1, <2>1 DEF GateTypes
    <3>3. stage' \in [Jobs -> {"new", "connect", "subscribe", "send", "running", "draining", "final", "done"}]
      BY <1>1, <2>1 DEF GateTypes
    <3> QED
      BY <1>1, <1>2, <3>1, <3>2, <3>3 DEF GateTypes
  <2>3. ASSUME NEW u \in Jobs PROVE Attuned(u)'
    BY <1>1, <1>2, <1>3, <2>1 DEF Attuned, Openclaw!Up, GateTypes
  <2>4. ASSUME NEW u \in Jobs PROVE Heeded(u)' /\ Passes(u)'
    BY <1>1, <1>2, <1>3, <2>1 DEF Heeded, Passes, Openclaw!Bound, GateTypes
  <2> QED
    BY <2>2, <2>3, <2>4 DEF GateInv
<1> QED
  BY <1>4, <1>5, <1>6

(* A task that fails before its run is known.                                 *)
LEMMA GateFails ==
  ASSUME Openclaw!ConstantsOK, GateInv, NEW t \in Jobs,
         Openclaw!NoGateway(t) \/ Openclaw!SubscribeLost(t) \/ Openclaw!SendFails(t)
  PROVE  GateInv'
<1>1. /\ Openclaw!EndsWith(t, "failed") /\ stage[t] \in {"connect", "subscribe", "send"}
      /\ stage[t] = "connect" => gw[t] # conn \/ link = "down"
      /\ stage[t] = "send" => run[t] = "none" \/ ~Openclaw!Up(t)
      /\ UNCHANGED <<conn, link, gw, aborts, run, settled, requested, queue, reading, passed>>
  BY DEF Openclaw!NoGateway, Openclaw!SubscribeLost, Openclaw!SendFails, Openclaw!Link, Openclaw!Passing
<1>2. passed' \in [Jobs -> SUBSET Jobs]
  BY <1>1 DEF GateInv, GateTypes
<1> QED
  BY <1>1, <1>2, GateEnds

(* The run at the gateway.                                                    *)
LEMMA GateRuns ==
  ASSUME Openclaw!ConstantsOK, GateInv, NEW t \in Jobs,
         Openclaw!RunStarts(t) \/ Openclaw!Ack(t) \/ Openclaw!ChatEvent(t)
  PROVE  GateInv'
<1>1. GateTypes /\ (\A u \in Jobs : Attuned(u) /\ Heeded(u) /\ Passes(u)) /\ Openclaw!Up(t)
  BY DEF GateInv, Openclaw!RunStarts, Openclaw!Ack, Openclaw!ChatEvent
<1>2. UNCHANGED <<conn, link, owner, gw, aborts, finalized, queue, reading, passed, outcome>>
  BY DEF Openclaw!RunStarts, Openclaw!Ack, Openclaw!ChatEvent, Openclaw!Link, Openclaw!Streaming, Openclaw!Events,
         Openclaw!Passing
<1>3. CASE Openclaw!RunStarts(t)
  <2>1. run' = [run EXCEPT ![t] = "live"] /\ stage[t] = "send" /\ UNCHANGED <<stage, settled, pend, requested>>
    BY <1>3 DEF Openclaw!RunStarts, Openclaw!Events
  <2>2. GateTypes'
    BY <1>1, <1>2, <2>1 DEF GateTypes
  <2>3. ASSUME NEW u \in Jobs PROVE Attuned(u)' /\ Heeded(u)' /\ Passes(u)'
    BY <1>1, <1>2, <2>1 DEF Attuned, Heeded, Passes, Openclaw!Up, GateTypes
  <2> QED
    BY <2>2, <2>3 DEF GateInv
<1>4. CASE Openclaw!Ack(t)
  <2>1. /\ stage[t] = "send" /\ run[t] # "none" /\ stage' = [stage EXCEPT ![t] = "running"]
        /\ pend' = [pend EXCEPT ![t] = Nothing]
        /\ settled' = [settled EXCEPT ![t] = IF settled[t] = Nothing /\ pend[t] \in Openclaw!Ends THEN pend[t] ELSE settled[t]]
        /\ requested' = [requested EXCEPT ![t] = IF requested[t] = "pending" THEN "sent" ELSE requested[t]]
        /\ UNCHANGED run
    BY <1>4 DEF Openclaw!Ack
  <2>2. GateTypes'
    BY <1>1, <1>2, <2>1 DEF GateTypes
  <2>3. ASSUME NEW u \in Jobs PROVE Attuned(u)'
    <3>1. CASE u = t
      <4>1. run[t] = "over" => settled'[t] # Nothing
        BY <1>1, <2>1, GateConstants DEF Attuned, GateTypes
      <4> QED
        BY <1>1, <1>2, <2>1, <3>1, <4>1 DEF Attuned, Openclaw!Up, GateTypes
    <3>2. CASE u # t
      BY <1>1, <1>2, <2>1, <3>2 DEF Attuned, Openclaw!Up, GateTypes
    <3> QED
      BY <3>1, <3>2
  <2>4. ASSUME NEW u \in Jobs PROVE Heeded(u)' /\ Passes(u)'
    BY <1>1, <1>2, <2>1 DEF Heeded, Passes, Openclaw!Bound, GateTypes
  <2> QED
    BY <2>2, <2>3, <2>4 DEF GateInv
<1>5. CASE Openclaw!ChatEvent(t)
  <2>1. PICK e \in Openclaw!Ends \cup {"delta"} :
          /\ run' = [run EXCEPT ![t] = IF e = "delta" THEN run[t] ELSE "over"] /\ Openclaw!Take(t, e)
    BY <1>5 DEF Openclaw!ChatEvent
  <2>2. run[t] # "none" /\ UNCHANGED <<stage, requested>>
    BY <1>5 DEF Openclaw!ChatEvent
  <2>3. stage[t] \in Openclaw!Bound \cup {"send", "done"} /\ (stage[t] = "done" => t \in finalized)
        /\ (t \in finalized => stage[t] = "done") /\ "delta" \notin Openclaw!Ends
    BY <1>1, <2>2 DEF Attuned, GateTypes, Openclaw!Bound, Openclaw!Ends
  <2>4. /\ run'[t] \in {"live", "over"} /\ run' \in [Jobs -> {"none", "live", "over"}] /\ (e = "delta" => run' = run)
        /\ \A u \in Jobs : u # t => run'[u] = run[u]
    BY <1>1, <2>1, <2>2 DEF GateTypes
  <2>5. ASSUME NEW u \in Jobs PROVE Heeded(u)' /\ Passes(u)'
    BY <1>1, <1>2, <2>2 DEF Heeded, Passes
  <2>6. CASE stage[t] \in Openclaw!Bound
    <3>1. /\ settled' = [settled EXCEPT ![t] = IF settled[t] = Nothing /\ e \in Openclaw!Ends THEN e ELSE settled[t]]
          /\ UNCHANGED pend
      BY <2>1, <2>6 DEF Openclaw!Take
    <3>2. GateTypes'
      BY <1>1, <1>2, <2>1, <2>2, <2>4, <3>1 DEF GateTypes
    <3>3. ASSUME NEW u \in Jobs PROVE Attuned(u)'
      <4>1. CASE u = t
        <5>1. run'[t] = "over" /\ stage[t] = "running" => settled'[t] # Nothing
          BY <1>1, <2>1, <2>4, <3>1, GateConstants DEF Attuned, GateTypes
        <5>2. stage[t] \notin {"new", "connect", "subscribe", "send", "done"}
          BY <2>6 DEF Openclaw!Bound
        <5> QED
          BY <1>1, <1>2, <2>2, <2>4, <2>6, <3>1, <4>1, <5>1, <5>2 DEF Attuned, Openclaw!Up
      <4>2. CASE u # t
        BY <1>1, <1>2, <2>2, <2>4, <3>1, <4>2 DEF Attuned, Openclaw!Up, GateTypes
      <4> QED
        BY <4>1, <4>2
    <3> QED
      BY <2>5, <3>2, <3>3 DEF GateInv
  <2>7. CASE stage[t] = "done"
    <3>1. UNCHANGED <<settled, pend>>
      BY <2>1, <2>3, <2>7 DEF Openclaw!Take, Openclaw!Bound
    <3>2. GateTypes'
      BY <1>1, <1>2, <2>2, <2>4, <3>1 DEF GateTypes
    <3>3. ASSUME NEW u \in Jobs PROVE Attuned(u)'
      BY <1>1, <1>2, <2>2, <2>3, <2>4, <2>7, <3>1 DEF Attuned, Openclaw!Up
    <3> QED
      BY <2>5, <3>2, <3>3 DEF GateInv
  <2>8. CASE stage[t] = "send"
    <3>1. /\ pend' = [pend EXCEPT ![t] = IF pend[t] \in Openclaw!Ends THEN pend[t] ELSE e] /\ UNCHANGED settled
      BY <2>1, <2>3, <2>8 DEF Openclaw!Take, Openclaw!Bound
    <3>2. GateTypes'
      BY <1>1, <1>2, <2>1, <2>2, <2>4, <3>1 DEF GateTypes
    <3>3. run'[t] = "over" => pend'[t] \in Openclaw!Ends
      BY <1>1, <2>1, <2>4, <2>8, <3>1 DEF Attuned, GateTypes
    <3>4. ASSUME NEW u \in Jobs PROVE Attuned(u)'
      <4>1. CASE u = t
        BY <1>1, <1>2, <2>2, <2>3, <2>4, <2>8, <3>3, <4>1 DEF Attuned, Openclaw!Up
      <4>2. CASE u # t
        BY <1>1, <1>2, <2>2, <2>4, <3>1, <4>2 DEF Attuned, Openclaw!Up, GateTypes
      <4> QED
        BY <4>1, <4>2
    <3> QED
      BY <2>5, <3>2, <3>4 DEF GateInv
  <2> QED
    BY <2>3, <2>6, <2>7, <2>8
<1> QED
  BY <1>3, <1>4, <1>5

-----------------------------------------------------------------------------
(***************************************************************************)
(* Jobs of vicoop-codex.  A server that was not told to end is the one in *)
(* use or the one being started, and there is one of the two at most; what *)
(* the accumulator and the artifacts hold is what the stream said.         *)
(***************************************************************************)
ServerInv ==
  /\ serve \in Vicoop!Servers \cup {Nothing}
  /\ promise \in [Vicoop!Servers -> {"none", "pending", "ok", "failed"}]
  /\ up \subseteq Vicoop!Servers
  /\ \A n \in up \ told : promise[n] = "pending" \/ serve = n
  /\ \A n, m \in Vicoop!Servers : promise[n] = "pending" /\ promise[m] = "pending" => n = m
  /\ (\E n \in Vicoop!Servers : promise[n] = "pending") => serve = Nothing

StreamTypes ==
  /\ doing \in [Jobs -> {"new", "wait", "request", "stream", "done"}]
  /\ said \in [Jobs -> SUBSET Vicoop!Chunks] /\ acc \in [Jobs -> SUBSET Vicoop!Chunks]
  /\ shown \in [Jobs -> SUBSET Vicoop!Chunks]
  /\ answer \in [Jobs -> {Nothing, "completed", "failed", "canceled"}]

Folded(t) ==
  /\ "error" \in said[t] => t \in failing
  /\ "text" \in said[t] => "text" \in shown[t]
  /\ "usage" \in said[t] <=> "usage" \in acc[t]
  /\ doing[t] # "done" => t \notin usage /\ answer[t] = Nothing
  /\ answer[t] = "completed" => t \notin failing /\ (t \in usage <=> "usage" \in acc[t])

VicoopInv == ServerInv /\ StreamTypes /\ \A t \in Jobs : Folded(t)

LEMMA VicoopStarts ==
  ASSUME Vicoop!ConstantsOK, Vicoop!Init
  PROVE  VicoopInv
<1>1. ServerInv
  BY DEF Vicoop!Init, ServerInv
<1>2. StreamTypes
  BY DEF Vicoop!Init, StreamTypes
<1>3. \A t \in Jobs : Folded(t)
  BY DEF Vicoop!Init, Folded, Vicoop!ConstantsOK
<1> QED
  BY <1>1, <1>2, <1>3 DEF VicoopInv

(* What a step does to the servers.                                           *)
LEMMA ServersStay ==
  ASSUME Vicoop!ConstantsOK, VicoopInv, [Vicoop!Next]_Vicoop!vars
  PROVE  ServerInv'
<1>1. ServerInv /\ Nothing \notin Vicoop!Servers
  BY DEF VicoopInv, Vicoop!ConstantsOK, Vicoop!Servers
<1>2. CASE UNCHANGED Vicoop!Server
  BY <1>1, <1>2 DEF Vicoop!Server, ServerInv
<1>3. ASSUME NEW n \in Vicoop!Servers, serve = Nothing, Vicoop!Starting = {}, Vicoop!StartServe(n)
      PROVE  ServerInv'
  <2>1. \A m \in Vicoop!Servers : promise[m] # "pending"
    BY <1>3 DEF Vicoop!Starting
  <2>2. up \ told = {}
    BY <1>1, <1>3, <2>1 DEF ServerInv
  <2>3. CASE promise' = [promise EXCEPT ![n] = "pending"] /\ up' = up \cup {n}
    BY <1>1, <1>3, <2>1, <2>2, <2>3 DEF ServerInv, Vicoop!StartServe
  <2>4. CASE promise' = [promise EXCEPT ![n] = "failed"] /\ UNCHANGED up
    BY <1>1, <1>3, <2>1, <2>2, <2>4 DEF ServerInv, Vicoop!StartServe
  <2> QED
    BY <1>3, <2>3, <2>4 DEF Vicoop!StartServe
<1>4. ASSUME NEW t \in Jobs, Vicoop!Arrive(t)
      PROVE  ServerInv'
  <2>1. UNCHANGED Vicoop!Server \/ \E n \in Vicoop!Servers : Vicoop!EnsureServe(n)
    BY <1>4 DEF Vicoop!Arrive
  <2>2. ASSUME NEW n \in Vicoop!Servers, Vicoop!EnsureServe(n)
        PROVE  UNCHANGED Vicoop!Server \/ (serve = Nothing /\ Vicoop!Starting = {} /\ Vicoop!StartServe(n))
    BY <2>2 DEF Vicoop!EnsureServe
  <2> QED
    BY <1>2, <1>3, <2>1, <2>2
<1>5. ASSUME NEW n \in Vicoop!Servers, Vicoop!Listening(n)
      PROVE  ServerInv'
  BY <1>1, <1>5 DEF Vicoop!Listening, ServerInv
<1>6. ASSUME NEW n \in Vicoop!Servers, Vicoop!StartFails(n)
      PROVE  ServerInv'
  BY <1>1, <1>6 DEF Vicoop!StartFails, ServerInv
<1>7. ASSUME NEW n \in Vicoop!Servers, Vicoop!Dies(n)
      PROVE  ServerInv'
  BY <1>1, <1>7 DEF Vicoop!Dies, ServerInv
<1>8. CASE Vicoop!Stop
  BY <1>1, <1>8 DEF Vicoop!Stop, ServerInv
<1>9. ASSUME NEW t \in Jobs, \/ Vicoop!Cancel(t) \/ Vicoop!Waited(t) \/ Vicoop!Response(t) \/ Vicoop!RequestFails(t)
                              \/ Vicoop!Chunk(t) \/ Vicoop!Answer(t)
      PROVE  UNCHANGED Vicoop!Server
  BY <1>9 DEF Vicoop!Cancel, Vicoop!Waited, Vicoop!Response, Vicoop!RequestFails, Vicoop!Chunk, Vicoop!Answer
<1>10. CASE UNCHANGED Vicoop!vars
  BY <1>2, <1>10 DEF Vicoop!vars, Vicoop!Server
<1> QED
  BY <1>2, <1>4, <1>5, <1>6, <1>7, <1>8, <1>9, <1>10 DEF Vicoop!Next

(* A task goes on without a verdict, or ends with one that is not completed.  *)
LEMMA GoesOn ==
  ASSUME VicoopInv, Vicoop!ConstantsOK, UNCHANGED <<said, acc, shown, failing, usage>>, NEW t \in Jobs,
         \/ UNCHANGED <<doing, answer>>
         \/ doing[t] # "done" /\ UNCHANGED answer /\ \E p \in {"wait", "request", "stream"} : doing' = [doing EXCEPT ![t] = p]
         \/ \E v \in {"failed", "canceled"} : Vicoop!Ends(t, v)
  PROVE  StreamTypes' /\ \A u \in Jobs : Folded(u)'
<1>1. StreamTypes /\ (\A u \in Jobs : Folded(u)) /\ Nothing # "completed"
  BY DEF VicoopInv, Vicoop!ConstantsOK
<1>2. StreamTypes'
  BY <1>1 DEF StreamTypes, Vicoop!Ends
<1>3. ASSUME NEW u \in Jobs PROVE Folded(u)'
  BY <1>1 DEF Folded, StreamTypes, Vicoop!Ends
<1> QED
  BY <1>2, <1>3

LEMMA VicoopStays ==
  ASSUME Vicoop!ConstantsOK, VicoopInv, [Vicoop!Next]_Vicoop!vars
  PROVE  VicoopInv'
<1>1. StreamTypes /\ (\A u \in Jobs : Folded(u)) /\ Nothing # "completed"
  BY DEF VicoopInv, Vicoop!ConstantsOK
<1>2. ASSUME NEW t \in Jobs, Vicoop!Arrive(t) \/ Vicoop!Waited(t) \/ Vicoop!Response(t) \/ Vicoop!RequestFails(t)
      PROVE  StreamTypes' /\ \A u \in Jobs : Folded(u)'
  <2>1. UNCHANGED <<said, acc, shown, failing, usage>>
    BY <1>2 DEF Vicoop!Arrive, Vicoop!Waited, Vicoop!Response, Vicoop!RequestFails, Vicoop!Fails, Vicoop!Verdict,
                Vicoop!Stream
  <2>2. \/ doing[t] # "done" /\ UNCHANGED answer /\ \E p \in {"wait", "request", "stream"} : doing' = [doing EXCEPT ![t] = p]
        \/ \E v \in {"failed", "canceled"} : Vicoop!Ends(t, v)
    BY <1>2 DEF Vicoop!Arrive, Vicoop!Waited, Vicoop!Response, Vicoop!RequestFails, Vicoop!Fails, Vicoop!Verdict
  <2> QED
    BY <2>1, <2>2, GoesOn
<1>3. ASSUME NEW t \in Jobs, Vicoop!Chunk(t)
      PROVE  StreamTypes' /\ \A u \in Jobs : Folded(u)'
  <2>1. PICK c \in Vicoop!Chunks :
          /\ said' = [said EXCEPT ![t] = said[t] \cup {c}]
          /\ acc' = [acc EXCEPT ![t] = acc[t] \cup ({c} \cap {"text", "tool", "usage"})]
          /\ shown' = [shown EXCEPT ![t] = shown[t] \cup ({c} \cap {"text", "reasoning"})]
          /\ failing' = IF c = "error" THEN failing \cup {t} ELSE failing
    BY <1>3 DEF Vicoop!Chunk
  <2>2. doing[t] = "stream" /\ UNCHANGED <<doing, answer, usage>>
    BY <1>3 DEF Vicoop!Chunk, Vicoop!Verdict
  <2>3. StreamTypes'
    BY <1>1, <2>1, <2>2 DEF StreamTypes, Vicoop!Chunks
  <2>4. ASSUME NEW u \in Jobs PROVE Folded(u)'
    BY <1>1, <2>1, <2>2 DEF StreamTypes, Folded
  <2> QED
    BY <2>3, <2>4
<1>4. ASSUME NEW t \in Jobs, Vicoop!Answer(t)
      PROVE  StreamTypes' /\ \A u \in Jobs : Folded(u)'
  <2>1. UNCHANGED <<said, acc, shown, failing>> /\ doing[t] = "stream"
    BY <1>4 DEF Vicoop!Answer, Vicoop!Stream
  <2>2. CASE UNCHANGED usage /\ \E v \in {"failed", "canceled"} : Vicoop!Ends(t, v)
    BY <2>1, <2>2, GoesOn
  <2>3. CASE /\ Vicoop!Ends(t, "completed") /\ t \notin failing
             /\ usage' = IF "usage" \in acc[t] THEN usage \cup {t} ELSE usage
    <3>1. doing' = [doing EXCEPT ![t] = "done"] /\ answer' = [answer EXCEPT ![t] = "completed"]
      BY <2>3 DEF Vicoop!Ends
    <3>2. StreamTypes'
      BY <1>1, <2>1, <3>1 DEF StreamTypes
    <3>3. ASSUME NEW u \in Jobs PROVE Folded(u)'
      BY <1>1, <2>1, <2>3, <3>1 DEF StreamTypes, Folded
    <3> QED
      BY <3>2, <3>3
  <2> QED
    BY <1>4, <2>2, <2>3 DEF Vicoop!Answer, Vicoop!Fails
<1>5. ASSUME \/ Vicoop!Stop \/ UNCHANGED Vicoop!vars
             \/ \E n \in Vicoop!Servers : Vicoop!Listening(n) \/ Vicoop!StartFails(n) \/ Vicoop!Dies(n)
             \/ \E t \in Jobs : Vicoop!Cancel(t)
      PROVE  StreamTypes' /\ \A u \in Jobs : Folded(u)'
  <2>1. UNCHANGED <<doing, said, acc, shown, failing, answer, usage>>
    BY <1>5 DEF Vicoop!Stop, Vicoop!vars, Vicoop!Listening, Vicoop!StartFails, Vicoop!Dies, Vicoop!Cancel,
                Vicoop!Stream, Vicoop!Verdict
  <2>2. StreamTypes'
    BY <1>1, <2>1 DEF StreamTypes
  <2>3. ASSUME NEW u \in Jobs PROVE Folded(u)'
    BY <1>1, <2>1 DEF Folded
  <2> QED
    BY <2>2, <2>3
<1>6. \/ Vicoop!Stop \/ UNCHANGED Vicoop!vars
      \/ \E n \in Vicoop!Servers : Vicoop!Listening(n) \/ Vicoop!StartFails(n) \/ Vicoop!Dies(n)
      \/ \E t \in Jobs : Vicoop!Cancel(t)
      \/ \E t \in Jobs : \/ Vicoop!Arrive(t) \/ Vicoop!Waited(t) \/ Vicoop!Response(t) \/ Vicoop!RequestFails(t)
                         \/ Vicoop!Chunk(t) \/ Vicoop!Answer(t)
  BY DEF Vicoop!Next
<1>7. StreamTypes' /\ \A u \in Jobs : Folded(u)'
  BY ONLY <1>2, <1>3, <1>4, <1>5, <1>6
<1> QED
  BY <1>7, ServersStay DEF VicoopInv

VicoopCancels ==
  [\A t \in Jobs :
     doing[t] # "new" /\ answer[t] = Nothing /\ answer'[t] # Nothing /\ t \in ended
     => answer'[t] = "canceled"]_Vicoop!vars

LEMMA VicoopCancelsStep ==
  ASSUME Vicoop!ConstantsOK, VicoopInv, [Vicoop!Next]_Vicoop!vars
  PROVE  VicoopCancels
<1> SUFFICES ASSUME NEW t \in Jobs, doing[t] # "new", answer[t] = Nothing, answer'[t] # Nothing, t \in ended
             PROVE  answer'[t] = "canceled"
  BY DEF VicoopCancels
<1>1. StreamTypes
  BY DEF VicoopInv
<1>2. ASSUME NEW u \in Jobs, NEW v, Vicoop!Ends(u, v), answer'[t] # v PROVE FALSE
  BY <1>1, <1>2 DEF Vicoop!Ends, StreamTypes
<1>3. ASSUME NEW u \in Jobs, NEW v, Vicoop!Ends(u, v) PROVE u = t /\ answer'[t] = v
  BY <1>1, <1>3 DEF Vicoop!Ends, StreamTypes
<1>4. answer' # answer
  OBVIOUS
<1>5. PICK u \in Jobs : Vicoop!Arrive(u) \/ Vicoop!Waited(u) \/ Vicoop!RequestFails(u) \/ Vicoop!Answer(u)
  BY <1>4 DEF Vicoop!Next, Vicoop!vars, Vicoop!Verdict, Vicoop!Stop, Vicoop!Listening, Vicoop!StartFails, Vicoop!Dies,
              Vicoop!Cancel, Vicoop!Response, Vicoop!Chunk
<1>6. CASE Vicoop!Arrive(u)
  BY <1>3, <1>4, <1>6 DEF Vicoop!Arrive
<1>7. ASSUME Vicoop!Fails(u) PROVE answer'[t] = "canceled"
  BY <1>3, <1>7 DEF Vicoop!Fails
<1>8. CASE Vicoop!Waited(u) \/ Vicoop!RequestFails(u)
  BY <1>4, <1>7, <1>8 DEF Vicoop!Waited, Vicoop!RequestFails, Vicoop!Verdict
<1>9. CASE Vicoop!Answer(u)
  BY <1>3, <1>7, <1>9 DEF Vicoop!Answer
<1> QED
  BY <1>5, <1>6, <1>8, <1>9

VicoopGood == Vicoop!OneServer /\ Vicoop!NoSilentError /\ Vicoop!BilledAsReported

LEMMA VicoopIsGood ==
  ASSUME Vicoop!ConstantsOK, VicoopInv
  PROVE  VicoopGood
<1>1. Vicoop!OneServer
  BY DEF VicoopInv, ServerInv, Vicoop!OneServer, Vicoop!ConstantsOK, Vicoop!Servers
<1>2. Vicoop!NoSilentError
  BY DEF VicoopInv, Folded, Vicoop!NoSilentError
<1>3. Vicoop!BilledAsReported
  BY DEF VicoopInv, Folded, Vicoop!BilledAsReported
<1> QED
  BY <1>1, <1>2, <1>3 DEF VicoopGood

(* What is passed on.                                                         *)
LEMMA GatePasses ==
  ASSUME Openclaw!ConstantsOK, GateInv, NEW t \in Jobs,
         Openclaw!Message(t) \/ Openclaw!Read(t) \/ Openclaw!Pass(t)
  PROVE  GateInv'
<1>1. GateTypes /\ \A u \in Jobs : Attuned(u) /\ Heeded(u) /\ Passes(u)
  BY DEF GateInv
<1>2. UNCHANGED <<conn, link, owner, stage, gw, aborts, run, settled, pend, finalized, requested, outcome>>
  BY DEF Openclaw!Message, Openclaw!Read, Openclaw!Pass, Openclaw!Link, Openclaw!Streaming, Openclaw!Events
<1>3. ASSUME NEW u \in Jobs PROVE Attuned(u)' /\ Heeded(u)'
  BY <1>1, <1>2 DEF Attuned, Heeded, Openclaw!Up
<1>4. CASE Openclaw!Message(t)
  <2> DEFINE s == owner[key[t]]
  <2>1. s \in Jobs /\ stage[s] \in {"send", "running"} /\ queue' = [queue EXCEPT ![s] = Append(queue[s], t)]
        /\ UNCHANGED <<reading, passed>>
    BY <1>1, <1>4, GateConstants DEF Openclaw!Message, GateTypes
  <2> HIDE DEF s
  <2>2. queue' \in [Jobs -> Seq(Jobs)] /\ queue'[s] # <<>> /\ \A u \in Jobs : u # s => queue'[u] = queue[u]
    <3>1. queue \in [Jobs -> Seq(Jobs)] /\ queue[s] \in Seq(Jobs)
      BY <1>1, <2>1 DEF GateTypes
    <3>2. Append(queue[s], t) \in Seq(Jobs)
      BY <3>1
    <3>3. Append(queue[s], t) # <<>>
      <4>1. Len(Append(queue[s], t)) = Len(queue[s]) + 1 /\ Len(queue[s]) \in Nat
        BY <3>1
      <4>2. Len(<<>>) = 0
        OBVIOUS
      <4> QED
        BY ONLY <4>1, <4>2
    <3> QED
      BY <2>1, <3>1, <3>2, <3>3
  <2>3. GateTypes'
    BY <1>1, <1>2, <2>1, <2>2 DEF GateTypes
  <2>4. ASSUME NEW u \in Jobs PROVE Passes(u)'
    BY <1>1, <1>2, <2>1, <2>2 DEF Passes
  <2> QED
    BY <1>3, <2>3, <2>4 DEF GateInv
<1>5. CASE Openclaw!Read(t)
  <2>1. queue[t] # <<>> /\ t \notin reading /\ UNCHANGED passed
        /\ \/ stage[t] = "done" /\ queue' = [queue EXCEPT ![t] = <<>>] /\ UNCHANGED reading
           \/ stage[t] # "done" /\ reading' = reading \cup {t} /\ UNCHANGED queue
    BY <1>5 DEF Openclaw!Read
  <2>2. GateTypes'
    <3>1. queue \in [Jobs -> Seq(Jobs)] /\ reading \subseteq Jobs
      BY <1>1 DEF GateTypes
    <3>2. <<>> \in Seq(Jobs)
      OBVIOUS
    <3>3. queue' \in [Jobs -> Seq(Jobs)]
      BY <2>1, <3>1, <3>2
    <3>4. reading' \subseteq Jobs
      BY <2>1, <3>1
    <3> QED
      BY <1>1, <1>2, <2>1, <3>3, <3>4 DEF GateTypes
  <2>3. ASSUME NEW u \in Jobs PROVE Passes(u)'
    BY <1>1, <1>2, <2>1, GateConstants DEF Passes, GateTypes
  <2> QED
    BY <1>3, <2>2, <2>3 DEF GateInv
<1>6. CASE Openclaw!Pass(t)
  <2>1. /\ t \in reading /\ reading' = reading \ {t} /\ queue' = [queue EXCEPT ![t] = Tail(queue[t])]
        /\ passed' = [passed EXCEPT ![t] = passed[t] \cup {Head(queue[t])}]
    BY <1>6 DEF Openclaw!Pass
  <2>2. queue[t] \in Seq(Jobs) /\ queue[t] # <<>>
    BY <1>1, <2>1 DEF Passes, GateTypes
  <2>3. Tail(queue[t]) \in Seq(Jobs) /\ Head(queue[t]) \in Jobs
    BY <2>2
  <2>4. GateTypes'
    <3>1. queue' \in [Jobs -> Seq(Jobs)] /\ passed' \in [Jobs -> SUBSET Jobs] /\ reading' \subseteq Jobs
      BY <1>1, <2>1, <2>3 DEF GateTypes
    <3> QED
      BY <1>1, <1>2, <3>1 DEF GateTypes
  <2>5. ASSUME NEW u \in Jobs PROVE Passes(u)'
    <3>1. u # t => queue'[u] = queue[u]
      BY <1>1, <2>1 DEF GateTypes
    <3> QED
      BY <1>1, <1>2, <2>1, <2>2, <3>1 DEF Passes
  <2> QED
    BY <1>3, <2>4, <2>5 DEF GateInv
<1> QED
  BY <1>4, <1>5, <1>6

(* Aborts and time-outs, and the end of the wait.                             *)
LEMMA GateWaits ==
  ASSUME Openclaw!ConstantsOK, GateInv, NEW t \in Jobs,
         Openclaw!Abort(t) \/ Openclaw!AbortFails(t) \/ Openclaw!Timeout(t) \/ Openclaw!Settled(t)
  PROVE  GateInv'
<1>1. GateTypes /\ \A u \in Jobs : Attuned(u) /\ Heeded(u) /\ Passes(u)
  BY DEF GateInv
<1>2. UNCHANGED <<conn, link, owner, gw, run, pend, finalized, queue, reading, passed, outcome>>
  BY DEF Openclaw!Abort, Openclaw!AbortFails, Openclaw!Timeout, Openclaw!Settled, Openclaw!Link, Openclaw!Streaming,
         Openclaw!Events, Openclaw!Passing
<1>3. CASE Openclaw!Abort(t)
  <2>1. /\ aborts' = aborts \cup {t} /\ UNCHANGED <<stage, settled>>
        /\ requested' = [requested EXCEPT ![t] = IF stage[t] \in Openclaw!Bound THEN "sent"
                                                ELSE IF stage[t] = "send" THEN "pending" ELSE requested[t]]
    BY <1>3 DEF Openclaw!Abort, Openclaw!Events
  <2>2. GateTypes'
    BY <1>1, <1>2, <2>1 DEF GateTypes
  <2>3. ASSUME NEW u \in Jobs PROVE Attuned(u)' /\ Passes(u)'
    BY <1>1, <1>2, <2>1 DEF Attuned, Passes, Openclaw!Up
  <2>4. ASSUME NEW u \in Jobs PROVE Heeded(u)'
    BY <1>1, <2>1 DEF Heeded, Openclaw!Bound, GateTypes
  <2> QED
    BY <2>2, <2>3, <2>4 DEF GateInv
<1>4. CASE Openclaw!AbortFails(t) \/ Openclaw!Timeout(t)
  <2>1. /\ UNCHANGED <<stage, aborts>>
        /\ \E c \in {"abort_failed", "timeout"} :
             settled' = [settled EXCEPT ![t] = IF settled[t] = Nothing THEN c ELSE settled[t]]
        /\ UNCHANGED requested \/ (stage[t] \in Openclaw!Bound /\ requested' = [requested EXCEPT ![t] = "answered"])
    BY <1>4 DEF Openclaw!AbortFails, Openclaw!Timeout
  <2>2. settled' \in [Jobs -> Openclaw!Ends \cup Openclaw!Causes \cup {Nothing}]
        /\ \A u \in Jobs : settled[u] # Nothing => settled'[u] # Nothing
    BY <1>1, <2>1 DEF GateTypes, Openclaw!Causes
  <2>3. GateTypes'
    BY <1>1, <1>2, <2>1, <2>2 DEF GateTypes
  <2>4. ASSUME NEW u \in Jobs PROVE Attuned(u)' /\ Passes(u)'
    BY <1>1, <1>2, <2>1, <2>2 DEF Attuned, Passes, Openclaw!Up
  <2>5. ASSUME NEW u \in Jobs PROVE Heeded(u)'
    BY <1>1, <2>1 DEF Heeded, Openclaw!Bound, GateTypes
  <2> QED
    BY <2>3, <2>4, <2>5 DEF GateInv
<1>5. CASE Openclaw!Settled(t)
  <2>1. stage[t] = "running" /\ stage' = [stage EXCEPT ![t] = "draining"] /\ UNCHANGED <<aborts, settled, requested>>
    BY <1>5 DEF Openclaw!Settled, Openclaw!Events
  <2>2. GateTypes'
    BY <1>1, <1>2, <2>1 DEF GateTypes
  <2>3. ASSUME NEW u \in Jobs PROVE Attuned(u)'
    BY <1>1, <1>2, <2>1 DEF Attuned, Openclaw!Up, GateTypes
  <2>4. ASSUME NEW u \in Jobs PROVE Heeded(u)' /\ Passes(u)'
    BY <1>1, <1>2, <2>1 DEF Heeded, Passes, Openclaw!Bound, GateTypes
  <2> QED
    BY <2>2, <2>3, <2>4 DEF GateInv
<1> QED
  BY <1>3, <1>4, <1>5

LEMMA GateFinishes ==
  ASSUME Openclaw!ConstantsOK, GateInv, NEW t \in Jobs, Openclaw!Drained(t) \/ Openclaw!Finish(t)
  PROVE  GateInv'
<1>1. GateTypes /\ \A u \in Jobs : Attuned(u) /\ Heeded(u) /\ Passes(u)
  BY DEF GateInv
<1>2. /\ UNCHANGED <<conn, link, gw, aborts, run, settled, requested, queue, reading>>
      /\ stage[t] \in {"draining", "final"} /\ t \notin reading
  BY <1>1 DEF Openclaw!Drained, Openclaw!Finish, Openclaw!Link, Openclaw!Passing, Passes
<1>3. CASE stage[t] = "draining" /\ queue[t] = <<>> /\ stage' = [stage EXCEPT ![t] = "final"]
           /\ UNCHANGED <<owner, outcome, finalized, pend, passed>>
  <2>1. GateTypes'
    BY <1>1, <1>2, <1>3 DEF GateTypes
  <2>2. ASSUME NEW u \in Jobs PROVE Attuned(u)'
    BY <1>1, <1>2, <1>3 DEF Attuned, Openclaw!Up, GateTypes
  <2>3. ASSUME NEW u \in Jobs PROVE Heeded(u)' /\ Passes(u)'
    BY <1>1, <1>2, <1>3 DEF Heeded, Passes, Openclaw!Bound, GateTypes
  <2> QED
    BY <2>1, <2>2, <2>3 DEF GateInv
<1>4. CASE \E v \in {"completed", "failed", "canceled"} : Openclaw!EndsWith(t, v)
  <2>1. passed' \in [Jobs -> SUBSET Jobs]
    <3>1. passed \in [Jobs -> SUBSET Jobs]
      BY <1>1 DEF GateTypes
    <3>2. passed' = passed \/ passed' = [passed EXCEPT ![t] = IF passed[t] = {} THEN {t} ELSE passed[t]]
      BY DEF Openclaw!Drained, Openclaw!Finish, Openclaw!Passing
    <3> QED
      BY <3>1, <3>2
  <2> QED
    BY <1>2, <1>4, <2>1, GateEnds
<1> QED
  BY <1>3, <1>4 DEF Openclaw!Drained, Openclaw!Finish, Openclaw!Passing

LEMMA GateStays ==
  ASSUME Openclaw!ConstantsOK, GateInv, [Openclaw!Next]_Openclaw!vars
  PROVE  GateInv'
<1>1. CASE UNCHANGED Openclaw!vars
  BY <1>1 DEF Openclaw!vars, GateInv, GateTypes, Attuned, Heeded, Passes, Openclaw!Up
<1>2. ASSUME NEW t \in Jobs,
             \/ Openclaw!Bridge(t) \/ Openclaw!Arrive(t) \/ Openclaw!Subscribed(t) \/ Openclaw!RunStarts(t)
             \/ Openclaw!Ack(t) \/ Openclaw!ChatEvent(t) \/ Openclaw!Message(t) \/ Openclaw!Read(t) \/ Openclaw!Pass(t)
             \/ Openclaw!Abort(t) \/ Openclaw!AbortFails(t) \/ Openclaw!Timeout(t)
      PROVE  GateInv'
  BY <1>2, GateArrives, GateSends, GateFails, GateRuns, GatePasses, GateWaits, GateFinishes DEF Openclaw!Bridge
<1> QED
  BY <1>1, <1>2, LinkSteps DEF Openclaw!Next

NothingAfter == [\A t \in Jobs : outcome[t] \in {"completed", "canceled"} => passed'[t] = passed[t]]_Openclaw!vars

LEMMA NothingAfterStep ==
  ASSUME Openclaw!ConstantsOK, GateInv, [Openclaw!Next]_Openclaw!vars
  PROVE  NothingAfter
<1> SUFFICES ASSUME NEW t \in Jobs, outcome[t] \in {"completed", "canceled"} PROVE passed'[t] = passed[t]
  BY DEF NothingAfter
<1>1. t \notin reading /\ stage[t] = "done" /\ passed \in [Jobs -> SUBSET Jobs]
  BY GateConstants DEF GateInv, Passes, GateTypes
<1>2. ASSUME NEW u \in Jobs, Openclaw!Pass(u) PROVE passed'[t] = passed[t]
  BY <1>1, <1>2 DEF Openclaw!Pass
<1>3. ASSUME NEW u \in Jobs, Openclaw!Finish(u) PROVE passed'[t] = passed[t]
  BY <1>1, <1>3 DEF Openclaw!Finish
<1>4. ASSUME NEW u \in Jobs,
             \/ Openclaw!NoGateway(u) \/ Openclaw!Connected(u) \/ Openclaw!SubscribeLost(u) \/ Openclaw!SendFails(u)
             \/ Openclaw!Settled(u) \/ Openclaw!Drained(u)
             \/ Openclaw!Arrive(u) \/ Openclaw!Subscribed(u) \/ Openclaw!RunStarts(u)
             \/ Openclaw!Ack(u) \/ Openclaw!ChatEvent(u) \/ Openclaw!Message(u) \/ Openclaw!Read(u)
             \/ Openclaw!Abort(u) \/ Openclaw!AbortFails(u) \/ Openclaw!Timeout(u)
      PROVE  UNCHANGED passed
  BY <1>4 DEF Openclaw!NoGateway, Openclaw!Connected, Openclaw!SubscribeLost, Openclaw!SendFails, Openclaw!Settled,
     Openclaw!Drained, Openclaw!Arrive, Openclaw!Subscribed, Openclaw!RunStarts, Openclaw!Ack, Openclaw!ChatEvent,
     Openclaw!Message, Openclaw!Read, Openclaw!Abort, Openclaw!AbortFails, Openclaw!Timeout, Openclaw!Passing
<1>5. CASE Openclaw!Opened \/ Openclaw!OpenFails \/ Openclaw!Close \/ UNCHANGED Openclaw!vars
  BY <1>5 DEF Openclaw!Opened, Openclaw!OpenFails, Openclaw!Close, Openclaw!vars, Openclaw!Passing
<1> QED
  BY <1>2, <1>3, <1>4, <1>5 DEF Openclaw!Next, Openclaw!Bridge

GateGood == Openclaw!EndIsHeard /\ Openclaw!AbortReachesRun /\ Openclaw!NoEventsPileUp

LEMMA GateIsGood ==
  ASSUME GateInv
  PROVE  GateGood
<1>1. Openclaw!EndIsHeard
  BY DEF GateInv, Attuned, Openclaw!EndIsHeard
<1>2. Openclaw!AbortReachesRun
  BY DEF GateInv, Heeded, Openclaw!AbortReachesRun, Openclaw!Bound
<1>3. Openclaw!NoEventsPileUp
  BY DEF GateInv, Attuned, Openclaw!NoEventsPileUp
<1> QED
  BY <1>1, <1>2, <1>3 DEF GateGood

GateHolds == Openclaw!ConstantsOK /\ GateInv
VicoopHolds == Vicoop!ConstantsOK /\ VicoopInv

(* Openclaw: connections, runs, cancellations and queues stay within GateInv. *)
THEOREM OpenclawInvariant == Openclaw!ConstantsOK /\ Openclaw!Spec => []GateHolds
<1>1. Openclaw!ConstantsOK /\ Openclaw!Init => GateHolds
  BY GateStarts DEF GateHolds
<1>2. GateHolds /\ [Openclaw!Next]_Openclaw!vars => GateHolds'
  BY GateStays DEF GateHolds, Openclaw!ConstantsOK, Openclaw!Ends, Openclaw!Causes
<1> QED
  BY <1>1, <1>2, PTL DEF Openclaw!Spec

(* Vicoop-codex: its servers and streams stay within VicoopInv.               *)
THEOREM VicoopInvariant == Vicoop!ConstantsOK /\ Vicoop!Spec => []VicoopHolds
<1>1. Vicoop!ConstantsOK /\ Vicoop!Init => VicoopHolds
  BY VicoopStarts DEF VicoopHolds
<1>2. VicoopHolds /\ [Vicoop!Next]_Vicoop!vars => VicoopHolds'
  BY VicoopStays DEF VicoopHolds, Vicoop!ConstantsOK
<1> QED
  BY <1>1, <1>2, PTL DEF Vicoop!Spec

(* At the gateway no end of a run and no cancellation is lost, nothing is     *)
(* kept of ended tasks and nothing said after a verdict; vicoop-codex has one *)
(* server, no silent error, reported usage, and cancellations that count.     *)
(* The two backends share no variable.                                        *)
THEOREM RunsAreAlwaysHeard ==
  (Openclaw!ConstantsOK /\ Openclaw!Spec) /\ (Vicoop!ConstantsOK /\ Vicoop!Spec) => RunsAreHeard
<1>1. GateHolds => GateGood
  BY GateIsGood DEF GateHolds
<1>2. GateHolds /\ [Openclaw!Next]_Openclaw!vars => NothingAfter
  BY NothingAfterStep DEF GateHolds
<1>3. VicoopHolds => VicoopGood
  BY VicoopIsGood DEF VicoopHolds
<1>4. VicoopHolds /\ [Vicoop!Next]_Vicoop!vars => VicoopCancels
  BY VicoopCancelsStep DEF VicoopHolds
<1>5. Openclaw!ConstantsOK /\ Openclaw!Spec => []GateGood /\ [][NothingAfter]_Openclaw!vars
  BY <1>1, <1>2, OpenclawInvariant, PTL DEF Openclaw!Spec
<1>6. Vicoop!ConstantsOK /\ Vicoop!Spec => []VicoopGood /\ [][VicoopCancels]_Vicoop!vars
  BY <1>3, <1>4, VicoopInvariant, PTL DEF Vicoop!Spec
<1> QED
  BY <1>5, <1>6, PTL DEF RunsAreHeard, GateGood, NothingAfter, VicoopGood, VicoopCancels, Openclaw!QuietOnceDone,
     Vicoop!CancelWins

-----------------------------------------------------------------------------
(***************************************************************************)
(* Tasks of codex over one app-server.  The first in a context's line is   *)
(* the one that works there, so the thread of a context has one task that  *)
(* works on it, and its handlers are of that task.                         *)
(***************************************************************************)
Stands(t, s) == \E i \in 1..Len(s) : s[i] = t

ThreadTypes ==
  /\ step \in [Turns -> {"new", "queued", "done"} \cup Threads!InLock]
  /\ line \in [Rooms -> Seq(Turns)]
  /\ sessions = [c \in Rooms |-> sessions[c]]
  /\ thread \in [Turns -> Turns \cup {Nothing}] /\ active \subseteq Turns
  /\ turn \in [Turns -> {"none", "asked", "running", "ended"}]
  /\ text \in [Turns -> SUBSET Turns] /\ invoked \in [Turns -> SUBSET Turns]
  /\ hold \in [Turns -> {"no", "armed", "sent"}]
  /\ approvals \in [Turns -> Turns \cup {Nothing}] /\ tools \in [Turns -> Turns \cup {Nothing}]
  /\ asks \subseteq Turns \X Turns
  /\ reply \in [Turns -> {Nothing, "completed", "failed", "canceled"}]

(* A task in the lock is the first in line.                                   *)
Placed(t) ==
  /\ step[t] \notin {"new", "done"} => Stands(t, line[room[t]])
  /\ step[t] \in Threads!InLock => Head(line[room[t]]) = t

(* Its thread is of its context and its caller, and so are the handlers while *)
(* it works.                                                                  *)
Threaded(t) ==
  /\ step[t] \in {"new", "queued", "mapping", "client"} => thread[t] = Nothing
  /\ step[t] \in {"thread", "inject", "turning"} => thread[t] # Nothing
  /\ turn[t] # "none" => thread[t] # Nothing
  /\ thread[t] # Nothing => /\ room[thread[t]] = room[t] /\ caller[thread[t]] = caller[t]
                            /\ t \in Native \/ thread[t] \in Native => thread[t] = t
  /\ step[t] \in {"inject", "turning"} => approvals[thread[t]] = t
  /\ step[t] = "inject" => t \in Native
  /\ step[t] = "turning" /\ t \in Native => tools[thread[t]] = t

(* What it has kept of its turn.                                              *)
Turned(t) ==
  /\ reply[t] # Nothing => step[t] \in {"ending", "done"}
  /\ t \in active => step[t] \in {"turning", "ending"}
  /\ hold[t] = "armed" => step[t] = "turning"
  /\ invoked[t] \subseteq {t}

(* Who handles what a thread asks for.                                        *)
Handled(h) ==
  /\ approvals[h] # Nothing =>
       step[approvals[h]] \in {"inject", "turning"} /\ thread[approvals[h]] = h
  /\ tools[h] # Nothing =>
       step[tools[h]] = "turning" /\ thread[tools[h]] = h /\ tools[h] \in Native

(* The session of a context is the thread of a task that opened it and was    *)
(* not answered without success.                                              *)
Remembered(c) ==
  sessions[c] # Nothing =>
    LET s == sessions[c].thread
    IN s \in Turns \ Native /\ room[s] = c /\ caller[s] = sessions[c].caller /\ thread[s] = s
       /\ reply[s] \notin {"failed", "canceled"}

AskedFor(a) == room[a[1]] = room[a[2]] /\ caller[a[1]] = caller[a[2]] /\ step[a[2]] \in {"inject", "turning"}

ThreadInv ==
  /\ ThreadTypes
  /\ \A t \in Turns : Placed(t) /\ Threaded(t) /\ Turned(t) /\ Handled(t)
  /\ \A c \in Rooms : Remembered(c)
  /\ \A a \in asks : AskedFor(a)

(* Who stands in a line stands in it when another joins, and when the first   *)
(* leaves.                                                                    *)
LEMMA LineGrows ==
  ASSUME NEW S, NEW s \in Seq(S), NEW e \in S
  PROVE  /\ Append(s, e) \in Seq(S) /\ Stands(e, Append(s, e))
         /\ \A x : Stands(x, s) => Stands(x, Append(s, e)) /\ Head(Append(s, e)) = Head(s)
<1> DEFINE n == Append(s, e)
<1>1. n \in Seq(S) /\ Len(s) \in Nat /\ Len(n) = Len(s) + 1
  OBVIOUS
<1>2. n[Len(s) + 1] = e /\ \A i \in 1..Len(s) : n[i] = s[i]
  OBVIOUS
<1>3. Len(s) + 1 \in 1..Len(n) /\ \A i \in 1..Len(s) : i \in 1..Len(n)
  BY <1>1
<1>4. Stands(e, n)
  BY <1>2, <1>3 DEF Stands
<1>5. ASSUME NEW x, Stands(x, s) PROVE Stands(x, n) /\ Head(n) = Head(s)
  <2>1. PICK i \in 1..Len(s) : s[i] = x
    BY <1>5 DEF Stands
  <2>2. 1 \in 1..Len(s)
    BY <1>1, <2>1
  <2>3. s # <<>> /\ n # <<>>
    BY <1>1, <2>2
  <2>4. Head(n) = n[1] /\ Head(s) = s[1]
    BY <1>1, <2>3
  <2> QED
    BY <1>2, <1>3, <2>1, <2>2, <2>4 DEF Stands
<1> QED
  BY <1>1, <1>4, <1>5

LEMMA LineMoves ==
  ASSUME NEW S, NEW s \in Seq(S), NEW e, Stands(e, s)
  PROVE  Tail(s) \in Seq(S) /\ \A x : Stands(x, s) /\ x # Head(s) => Stands(x, Tail(s))
<1>1. Len(s) \in Nat /\ s # <<>> /\ 1 \in 1..Len(s)
  BY DEF Stands
<1>2. Tail(s) \in Seq(S) /\ Len(Tail(s)) = Len(s) - 1 /\ Head(s) = s[1]
  BY <1>1
<1>3. \A i \in 1..Len(s) : i # 1 => i - 1 \in 1..Len(Tail(s)) /\ Tail(s)[i - 1] = s[i]
  BY <1>1, <1>2
<1> QED
  BY <1>2, <1>3 DEF Stands

LEMMA ThreadStarts ==
  ASSUME Threads!ConstantsOK, Threads!Init
  PROVE  ThreadInv
<1>1. ThreadTypes
  BY DEF Threads!Init, Threads!ConstantsOK, ThreadTypes
<1>2. ASSUME NEW t \in Turns PROVE Placed(t) /\ Threaded(t) /\ Turned(t) /\ Handled(t)
  BY <1>2 DEF Threads!Init, Threads!InLock, Placed, Threaded, Turned, Handled
<1>3. \A c \in Rooms : Remembered(c)
  BY DEF Threads!Init, Remembered
<1> QED
  BY <1>1, <1>2, <1>3 DEF ThreadInv, Threads!Init

(* Only one task of a context is in its lock.                                 *)
LEMMA OneInLock ==
  ASSUME ThreadInv, NEW t \in Turns, NEW u \in Turns, room[t] = room[u],
         step[t] \in Threads!InLock, step[u] \in Threads!InLock
  PROVE  t = u
BY DEF ThreadInv, Placed

(* Steps that change nothing the invariant is about but the queue of asks, a  *)
(* hold that is over, a turn that is known, and what was said.                *)
LEMMA ThreadRests ==
  ASSUME Threads!ConstantsOK, ThreadInv,
         UNCHANGED <<step, line, sessions, thread, invoked, approvals, tools, reply>>,
         asks' \subseteq asks,
         active' \subseteq Turns, \A t \in active' : t \in active \/ step[t] = "turning",
         hold' \in [Turns -> {"no", "armed", "sent"}], \A t \in Turns : hold'[t] = "armed" => hold[t] = "armed",
         text' \in [Turns -> SUBSET Turns], turn' \in [Turns -> {"none", "asked", "running", "ended"}],
         \A t \in Turns : turn'[t] # "none" => turn[t] # "none"
  PROVE  ThreadInv'
<1>1. ThreadTypes'
  BY DEF ThreadInv, ThreadTypes
<1>2. ASSUME NEW t \in Turns PROVE (Placed(t) /\ Threaded(t) /\ Handled(t))'
  BY DEF ThreadInv, Placed, Threaded, Handled
<1>3. ASSUME NEW t \in Turns PROVE Turned(t)'
  BY DEF ThreadInv, Turned
<1>4. (\A c \in Rooms : Remembered(c))' /\ (\A a \in asks : AskedFor(a))'
  BY DEF ThreadInv, Remembered, AskedFor
<1> QED
  BY <1>1, <1>2, <1>3, <1>4 DEF ThreadInv

(* A verdict before there was a thread takes nothing of a session away.       *)
LEMMA NoSession ==
  ASSUME Threads!ConstantsOK, ThreadInv, NEW t \in Turns, thread[t] = Nothing,
         NEW c \in Rooms, sessions[c] # Nothing
  PROVE  sessions[c].thread # t
BY DEF ThreadInv, Remembered, Threads!ConstantsOK

(* A task that is first in line leaves it.                                    *)
LEMMA FirstLeaves ==
  ASSUME Threads!ConstantsOK, ThreadInv, NEW t \in Turns,
         step[t] \notin {"new", "done"}, Head(line[room[t]]) = t,
         step' = [step EXCEPT ![t] = "done"], Threads!Release(t)
  PROVE  line' \in [Rooms -> Seq(Turns)] /\ \A u \in Turns : Placed(u)'
<1> DEFINE c == room[t]
<1>1. c \in Rooms /\ line \in [Rooms -> Seq(Turns)] /\ line[c] \in Seq(Turns) /\ Stands(t, line[c])
  BY DEF ThreadInv, ThreadTypes, Placed, Threads!ConstantsOK
<1>2. Tail(line[c]) \in Seq(Turns) /\ \A x : Stands(x, line[c]) /\ x # t => Stands(x, Tail(line[c]))
  BY <1>1, LineMoves
<1>3. line' = [line EXCEPT ![c] = Tail(line[c])]
  BY DEF Threads!Release
<1> HIDE DEF c
<1>4. line' \in [Rooms -> Seq(Turns)] /\ line'[c] = Tail(line[c]) /\ \A d \in Rooms : d # c => line'[d] = line[d]
  BY <1>1, <1>2, <1>3
<1>5. ASSUME NEW u \in Turns PROVE Placed(u)'
  <2>1. CASE u = t
    BY <2>1 DEF Placed, Threads!InLock, ThreadInv, ThreadTypes
  <2>2. CASE u # t /\ room[u] # c
    <3>1. line'[room[u]] = line[room[u]] /\ step'[u] = step[u]
      BY <2>2, <1>4 DEF Threads!ConstantsOK, ThreadInv, ThreadTypes
    <3> QED
      BY <3>1 DEF Placed, ThreadInv
  <2>3. CASE u # t /\ room[u] = c
    <3>1. step'[u] = step[u] /\ Placed(u)
      BY <2>3 DEF ThreadInv, ThreadTypes
    <3>2. step[u] \notin Threads!InLock
      BY <2>3, <3>1 DEF Placed, c
    <3> QED
      BY <3>1, <3>2, <2>3, <1>2, <1>4 DEF Placed
  <2> QED
    BY <2>1, <2>2, <2>3
<1> QED
  BY <1>4, <1>5

(* A task without a thread is answered at once, or goes on.                   *)
LEMMA Onward ==
  ASSUME Threads!ConstantsOK, ThreadInv, NEW t \in Turns,
         step[t] \in {"new", "queued", "mapping"},
         NEW s \in {"queued", "mapping", "client", "ending", "done"}, step' = [step EXCEPT ![t] = s],
         UNCHANGED <<sessions, thread, turn, active, text, invoked, hold, approvals, tools, asks>>,
         \/ UNCHANGED reply
         \/ s \in {"ending", "done"} /\ \E v \in {"failed", "canceled"} : reply' = [reply EXCEPT ![t] = v],
         line' \in [Rooms -> Seq(Turns)], \A u \in Turns : Placed(u)'
  PROVE  ThreadInv'
<1>1. ThreadTypes /\ \A u \in Turns : Threaded(u) /\ Turned(u) /\ Handled(u)
  BY DEF ThreadInv
<1>2. step' \in [Turns -> {"new", "queued", "done"} \cup Threads!InLock]
  BY <1>1 DEF ThreadTypes, Threads!InLock
<1>3. reply' \in [Turns -> {Nothing, "completed", "failed", "canceled"}]
  BY <1>1 DEF ThreadTypes
<1>4. ThreadTypes'
  BY <1>1, <1>2, <1>3 DEF ThreadTypes
<1>5. step'[t] = s /\ \A u \in Turns : u # t => step'[u] = step[u] /\ reply'[u] = reply[u]
  BY <1>1 DEF ThreadTypes
<1>6. thread[t] = Nothing
  BY <1>1 DEF Threaded
<1>7. ASSUME NEW u \in Turns PROVE Threaded(u)' /\ Handled(u)'
  BY <1>1, <1>5, <1>6 DEF Threaded, Handled, ThreadTypes
<1>8. ASSUME NEW u \in Turns PROVE Turned(u)'
  <2>1. CASE u = t
    <3>1. t \notin active /\ hold[t] # "armed" /\ invoked[t] \subseteq {t} /\ reply[t] = Nothing
      BY <1>1 DEF Turned
    <3> QED
      BY <2>1, <3>1, <1>5 DEF Turned
  <2>2. CASE u # t
    BY <2>2, <1>1, <1>5 DEF Turned
  <2> QED
    BY <2>1, <2>2
<1>9. ASSUME NEW c \in Rooms PROVE Remembered(c)'
  <2>1. CASE sessions[c] # Nothing
    <3>1. sessions[c].thread # t /\ Remembered(c)
      BY <2>1, <1>6, NoSession DEF ThreadInv
    <3> QED
      BY <2>1, <3>1, <1>5 DEF Remembered
  <2>2. CASE sessions[c] = Nothing
    BY <2>2 DEF Remembered
  <2> QED
    BY <2>1, <2>2
<1>10. ASSUME NEW a \in asks PROVE AskedFor(a)'
  <2>1. AskedFor(a) /\ a \in Turns \X Turns
    BY <1>1 DEF ThreadInv, ThreadTypes
  <2>2. a[2] # t /\ a[2] \in Turns
    BY <2>1 DEF AskedFor
  <2> QED
    BY <2>1, <2>2, <1>5 DEF AskedFor
<1> QED
  BY <1>4, <1>7, <1>8, <1>9, <1>10 DEF ThreadInv

LEMMA ThreadEnters ==
  ASSUME Threads!ConstantsOK, ThreadInv, NEW t \in Turns,
         Threads!Arrive(t) \/ Threads!Enter(t) \/ Threads!MapFails(t) \/ Threads!Mapped(t)
  PROVE  ThreadInv'
<1>1. ThreadTypes /\ \A u \in Turns : Placed(u)
  BY DEF ThreadInv
<1>2. UNCHANGED <<sessions, thread, turn, active, text, invoked, hold, approvals, tools, asks>>
      /\ step[t] \in {"new", "queued", "mapping"}
  BY DEF Threads!Arrive, Threads!Enter, Threads!MapFails, Threads!Mapped, Threads!Stream, Threads!Handlers
<1>3. ASSUME NEW s \in {"mapping", "client", "ending", "done"}, step' = [step EXCEPT ![t] = s], UNCHANGED line,
             \/ step[t] = "new" /\ s = "done"
             \/ step[t] = "mapping" /\ s # "done"
             \/ step[t] = "queued" /\ s = "mapping" /\ Head(line[room[t]]) = t
      PROVE  line' \in [Rooms -> Seq(Turns)] /\ \A u \in Turns : Placed(u)'
  <2>1. step'[t] = s /\ \A u \in Turns : u # t => step'[u] = step[u]
    BY <1>1, <1>3 DEF ThreadTypes
  <2>2. ASSUME NEW u \in Turns PROVE Placed(u)'
    BY <1>1, <1>3, <2>1 DEF Placed, Threads!InLock
  <2> QED
    BY <1>1, <1>3, <2>2 DEF ThreadTypes
<1>4. CASE Threads!Arrive(t)
  <2>1. CASE t \in stop
    <3>1. /\ step[t] = "new" /\ step' = [step EXCEPT ![t] = "done"] /\ UNCHANGED line
          /\ reply' = [reply EXCEPT ![t] = "canceled"]
      BY <1>4, <2>1 DEF Threads!Arrive, Threads!Lock
    <3>2. line' \in [Rooms -> Seq(Turns)] /\ \A u \in Turns : Placed(u)'
      BY <1>3, <3>1
    <3> QED
      BY <1>2, <3>1, <3>2, Onward
  <2>2. CASE t \notin stop
    <3> DEFINE c == room[t]
    <3>1. step' = [step EXCEPT ![t] = "queued"] /\ line' = [line EXCEPT ![c] = Append(line[c], t)] /\ UNCHANGED reply
      BY <1>4, <2>2 DEF Threads!Arrive
    <3>2. c \in Rooms /\ line[c] \in Seq(Turns)
      BY <1>1 DEF ThreadTypes, Threads!ConstantsOK
    <3>3. Append(line[c], t) \in Seq(Turns) /\ Stands(t, Append(line[c], t))
          /\ \A x : Stands(x, line[c]) => Stands(x, Append(line[c], t)) /\ Head(Append(line[c], t)) = Head(line[c])
      BY <3>2, LineGrows
    <3> HIDE DEF c
    <3>4. line' \in [Rooms -> Seq(Turns)] /\ line'[c] = Append(line[c], t) /\ \A d \in Rooms : d # c => line'[d] = line[d]
      BY <1>1, <3>1, <3>2, <3>3 DEF ThreadTypes
    <3>5. step'[t] = "queued" /\ \A u \in Turns : u # t => step'[u] = step[u]
      BY <1>1, <3>1 DEF ThreadTypes
    <3>6. ASSUME NEW u \in Turns PROVE Placed(u)'
      <4>1. CASE u = t
        BY <4>1, <3>3, <3>4, <3>5 DEF Placed, Threads!InLock, c
      <4>2. CASE u # t /\ room[u] = c
        <5>1. Placed(u) /\ step'[u] = step[u]
          BY <1>1, <3>5, <4>2
        <5>2. step[u] \in Threads!InLock => step[u] \notin {"new", "done"}
          BY DEF Threads!InLock
        <5> QED
          BY <5>1, <5>2, <4>2, <3>3, <3>4 DEF Placed
      <4>3. CASE u # t /\ room[u] # c
        <5>1. line'[room[u]] = line[room[u]] /\ step'[u] = step[u] /\ Placed(u)
          BY <1>1, <3>4, <3>5, <4>3 DEF Threads!ConstantsOK
        <5> QED
          BY <5>1 DEF Placed
      <4> QED
        BY <4>1, <4>2, <4>3
    <3> QED
      BY <1>2, <3>1, <3>4, <3>6, Onward
  <2> QED
    BY <2>1, <2>2
<1>5. CASE Threads!Enter(t)
  <2>1. step[t] = "queued" /\ Head(line[room[t]]) = t
    BY <1>5 DEF Threads!Enter
  <2>2. CASE t \in stop
    <3>1. step' = [step EXCEPT ![t] = "done"] /\ reply' = [reply EXCEPT ![t] = "canceled"] /\ Threads!Release(t)
      BY <1>5, <2>2 DEF Threads!Enter
    <3> QED
      BY <1>2, <2>1, <3>1, FirstLeaves, Onward
  <2>3. CASE t \notin stop
    <3>1. step' = [step EXCEPT ![t] = "mapping"] /\ UNCHANGED <<reply, line>>
      BY <1>5, <2>3 DEF Threads!Enter, Threads!Lock
    <3> QED
      BY <1>2, <1>3, <2>1, <3>1, Onward
  <2> QED
    BY <2>2, <2>3
<1>6. CASE Threads!MapFails(t)
  <2>1. /\ step[t] = "mapping" /\ step' = [step EXCEPT ![t] = "done"] /\ Threads!Release(t)
        /\ \E v \in {"failed", "canceled"} : reply' = [reply EXCEPT ![t] = v]
    BY <1>6 DEF Threads!MapFails
  <2>2. Head(line[room[t]]) = t
    BY <1>1, <2>1 DEF Placed, Threads!InLock
  <2> QED
    BY <1>2, <2>1, <2>2, FirstLeaves, Onward
<1>7. CASE Threads!Mapped(t)
  <2>1. /\ step[t] = "mapping" /\ UNCHANGED line
        /\ \/ step' = [step EXCEPT ![t] = "client"] /\ UNCHANGED reply
           \/ step' = [step EXCEPT ![t] = "ending"] /\ \E v \in {"failed", "canceled"} : reply' = [reply EXCEPT ![t] = v]
    BY <1>7 DEF Threads!Mapped, Threads!Lock
  <2>2. line' \in [Rooms -> Seq(Turns)] /\ \A u \in Turns : Placed(u)'
    BY <1>3, <2>1
  <2> QED
    BY <1>2, <2>1, <2>2, Onward
<1> QED
  BY <1>4, <1>5, <1>6, <1>7

(* finish() of some tasks.                                                    *)
LEMMA ThreadSettles ==
  ASSUME Threads!ConstantsOK, ThreadInv, NEW S \in SUBSET Turns, NEW v,
         \A t \in S : v[t] \in {"completed", "failed", "canceled"},
         \A t \in S : step[t] \in {"client", "thread", "inject", "turning"},
         Threads!Settle(S, v),
         turn' \in [Turns -> {"none", "asked", "running", "ended"}],
         \A t \in Turns : turn'[t] # "none" => turn[t] # "none"
  PROVE  ThreadInv'
<1>1. ThreadTypes /\ \A u \in Turns : Placed(u) /\ Threaded(u) /\ Turned(u) /\ Handled(u)
  BY DEF ThreadInv
<1>2. UNCHANGED <<line, thread, active, text, invoked>>
  BY DEF Threads!Settle, Threads!Lock
<1>3. /\ step' = [t \in Turns |-> IF t \in S THEN "ending" ELSE step[t]]
      /\ reply' = [t \in Turns |-> IF t \in S THEN v[t] ELSE reply[t]]
      /\ hold' = [t \in Turns |-> IF t \in S /\ hold[t] = "armed" THEN "no" ELSE hold[t]]
      /\ approvals' = [h \in Turns |-> IF approvals[h] \in S THEN Nothing ELSE approvals[h]]
      /\ tools' = [h \in Turns |-> IF tools[h] \in S THEN Nothing ELSE tools[h]]
      /\ asks' = {a \in asks : a[2] \notin S}
      /\ sessions' = Threads!SessionsAfter(S, v)
  BY DEF Threads!Settle
<1>4. ThreadTypes'
  <2>1. step' \in [Turns -> {"new", "queued", "done"} \cup Threads!InLock]
    BY <1>1, <1>3 DEF ThreadTypes, Threads!InLock
  <2>2. reply' \in [Turns -> {Nothing, "completed", "failed", "canceled"}]
    BY <1>1, <1>3 DEF ThreadTypes
  <2>3. hold' \in [Turns -> {"no", "armed", "sent"}]
    BY <1>1, <1>3 DEF ThreadTypes
  <2>4. approvals' \in [Turns -> Turns \cup {Nothing}] /\ tools' \in [Turns -> Turns \cup {Nothing}]
    BY <1>1, <1>3 DEF ThreadTypes
  <2>5. sessions' = [c \in Rooms |-> sessions'[c]] /\ asks' \subseteq Turns \X Turns
    BY <1>1, <1>3 DEF ThreadTypes, Threads!SessionsAfter
  <2> QED
    BY <1>1, <1>2, <2>1, <2>2, <2>3, <2>4, <2>5 DEF ThreadTypes
<1>5. ASSUME NEW u \in Turns PROVE Placed(u)'
  <2>1. step'[u] = step[u] \/ (step'[u] = "ending" /\ step[u] \in Threads!InLock)
    BY <1>3 DEF Threads!InLock
  <2> QED
    BY <1>1, <1>2, <2>1 DEF Placed, Threads!InLock
<1>6. Nothing \notin Turns
  BY DEF Threads!ConstantsOK
<1>7. ASSUME NEW u \in Turns PROVE Threaded(u)'
  <2>1. CASE u \in S
    BY <1>1, <1>2, <1>3, <2>1 DEF Threaded
  <2>2. CASE u \notin S
    <3>1. step'[u] = step[u] /\ Threaded(u)
      BY <1>1, <1>3, <2>2
    <3>2. step[u] \in {"inject", "turning"} => approvals'[thread[u]] = u
      BY <3>1, <1>1, <1>3, <2>2 DEF Threaded, ThreadTypes
    <3>3. step[u] = "turning" /\ u \in Native => tools'[thread[u]] = u
      BY <3>1, <1>1, <1>3, <2>2 DEF Threaded, ThreadTypes
    <3> QED
      BY <3>1, <3>2, <3>3, <1>2 DEF Threaded
  <2> QED
    BY <2>1, <2>2
<1>8. ASSUME NEW u \in Turns PROVE Turned(u)'
  BY <1>1, <1>2, <1>3 DEF Turned
<1>9. ASSUME NEW h \in Turns PROVE Handled(h)'
  <2>1. approvals'[h] # Nothing => approvals'[h] = approvals[h] /\ approvals[h] \in Turns \ S
    BY <1>1, <1>3 DEF ThreadTypes
  <2>2. tools'[h] # Nothing => tools'[h] = tools[h] /\ tools[h] \in Turns \ S
    BY <1>1, <1>3 DEF ThreadTypes
  <2> QED
    BY <1>1, <1>2, <1>3, <2>1, <2>2 DEF Handled
<1>10. ASSUME NEW c \in Rooms PROVE Remembered(c)'
  <2> SUFFICES ASSUME sessions'[c] # Nothing PROVE Remembered(c)'
    BY DEF Remembered
  <2>1. /\ sessions[c] # Nothing /\ sessions'[c] = sessions[c]
        /\ \A t \in S : ~(room[t] = c /\ v[t] # "completed" /\ Threads!Fresh(t) /\ sessions[c].thread = t)
    BY <1>3 DEF Threads!SessionsAfter
  <2> DEFINE s == sessions[c].thread
  <2>2. s \in Turns \ Native /\ room[s] = c /\ caller[s] = sessions[c].caller /\ thread[s] = s
        /\ reply[s] \notin {"failed", "canceled"}
    BY <2>1 DEF ThreadInv, Remembered
  <2>3. s \in S => v[s] = "completed"
    BY <2>1, <2>2 DEF Threads!Fresh
  <2> QED
    BY <1>2, <1>3, <2>1, <2>2, <2>3 DEF Remembered
<1>11. ASSUME NEW a \in asks' PROVE AskedFor(a)'
  <2>1. AskedFor(a) /\ a \in Turns \X Turns /\ a[2] \notin S
    BY <1>1, <1>3 DEF ThreadInv, ThreadTypes
  <2> QED
    BY <2>1, <1>3 DEF AskedFor
<1> QED
  BY <1>4, <1>5, <1>7, <1>8, <1>9, <1>10, <1>11 DEF ThreadInv

(* A turn that is refused or over was asked for.                              *)
LEMMA TurnStays ==
  ASSUME ThreadInv, NEW t \in Turns,
         UNCHANGED turn \/ (turn[t] # "none" /\ turn' = [turn EXCEPT ![t] = "ended"])
  PROVE  /\ turn' \in [Turns -> {"none", "asked", "running", "ended"}]
         /\ \A u \in Turns : turn'[u] # "none" => turn[u] # "none"
BY DEF ThreadInv, ThreadTypes

LEMMA ThreadFinishes ==
  ASSUME Threads!ConstantsOK, ThreadInv, NEW t \in Turns,
         \/ Threads!NoServer(t) \/ Threads!ThreadFails(t) \/ Threads!Lost(t) \/ Threads!TurnRefused(t)
         \/ Threads!TurnEnds(t) \/ Threads!GraceOver(t) \/ Threads!TurnTimeout(t)
  PROVE  ThreadInv'
<1>0. /\ turn' \in [Turns -> {"none", "asked", "running", "ended"}]
      /\ \A u \in Turns : turn'[u] # "none" => turn[u] # "none"
  BY TurnStays DEF Threads!NoServer, Threads!ThreadFails, Threads!Lost, Threads!TurnRefused, Threads!TurnEnds,
     Threads!GraceOver, Threads!TurnTimeout, Threads!Running
<1>1. CASE step[t] \in {"client", "thread", "inject", "turning"} /\ Threads!Fails(t)
  BY <1>0, <1>1, ThreadSettles DEF Threads!Fails
<1>2. CASE Threads!GraceOver(t)
  BY <1>0, <1>2, ThreadSettles DEF Threads!GraceOver
<1>3. CASE Threads!TurnEnds(t)
  <2> DEFINE L == Threads!Listeners(t)
  <2>1. L \in SUBSET Turns /\ \A u \in L : step[u] = "turning"
    BY DEF Threads!Listeners
  <2>2. PICK status \in {"completed", "failed", "interrupted"} :
          Threads!Settle(L, [u \in L |-> Threads!Verdict(u, status)])
    BY <1>3 DEF Threads!TurnEnds
  <2> DEFINE v == [u \in L |-> Threads!Verdict(u, status)]
  <2>3. \A u \in L : v[u] \in {"completed", "failed", "canceled"}
    BY DEF Threads!Verdict
  <2> HIDE DEF L, v
  <2>4. Threads!Settle(L, v)
    BY <2>2 DEF v
  <2> QED
    BY <1>0, <2>1, <2>3, <2>4, ThreadSettles
<1>4. CASE UNCHANGED <<step, stop, Threads!Lock, Threads!Server, on, sessions, thread, Threads!Stream,
                       Threads!Handlers, temp, reply>>
  BY <1>0, <1>4, ThreadRests DEF Threads!Lock, Threads!Stream, Threads!Handlers, ThreadInv, ThreadTypes
<1>5. CASE Threads!TurnRefused(t)
  BY <1>1, <1>4, <1>5 DEF Threads!TurnRefused
<1> QED
  BY <1>1, <1>2, <1>3, <1>5 DEF Threads!NoServer, Threads!ThreadFails, Threads!Lost, Threads!TurnTimeout

(* handle()'s last block.                                                     *)
LEMMA ThreadEnds ==
  ASSUME Threads!ConstantsOK, ThreadInv, NEW t \in Turns, Threads!End(t)
  PROVE  ThreadInv'
<1>1. ThreadTypes /\ \A u \in Turns : Placed(u) /\ Threaded(u) /\ Turned(u) /\ Handled(u)
  BY DEF ThreadInv
<1>2. /\ step[t] = "ending" /\ step' = [step EXCEPT ![t] = "done"] /\ Threads!Release(t)
      /\ active' = active \ {t} /\ hold' = [hold EXCEPT ![t] = "no"]
      /\ text' = [text EXCEPT ![t] = {}] /\ invoked' = [invoked EXCEPT ![t] = {}]
      /\ UNCHANGED <<sessions, thread, turn, approvals, tools, asks, reply>>
  BY DEF Threads!End, Threads!Handlers
<1>3. line' \in [Rooms -> Seq(Turns)] /\ \A u \in Turns : Placed(u)'
  BY <1>1, <1>2, FirstLeaves DEF Placed, Threads!InLock
<1>4. ThreadTypes'
  <2>1. step' \in [Turns -> {"new", "queued", "done"} \cup Threads!InLock]
    BY <1>1, <1>2 DEF ThreadTypes
  <2>2. hold' \in [Turns -> {"no", "armed", "sent"}]
    BY <1>1, <1>2 DEF ThreadTypes
  <2>3. text' \in [Turns -> SUBSET Turns] /\ invoked' \in [Turns -> SUBSET Turns]
    BY <1>1, <1>2 DEF ThreadTypes
  <2> QED
    BY <1>1, <1>2, <1>3, <2>1, <2>2, <2>3 DEF ThreadTypes
<1>5. step'[t] = "done" /\ \A u \in Turns : u # t => step'[u] = step[u]
  BY <1>1, <1>2 DEF ThreadTypes
<1>6. ASSUME NEW u \in Turns PROVE Threaded(u)' /\ Handled(u)'
  BY <1>1, <1>2, <1>5 DEF Threaded, Handled, ThreadTypes
<1>7. ASSUME NEW u \in Turns PROVE Turned(u)'
  BY <1>1, <1>2, <1>5 DEF Turned, ThreadTypes
<1>8. (\A c \in Rooms : Remembered(c))'
  BY <1>2 DEF ThreadInv, Remembered
<1>9. ASSUME NEW a \in asks PROVE AskedFor(a)'
  <2>1. AskedFor(a) /\ a \in Turns \X Turns
    BY <1>1 DEF ThreadInv, ThreadTypes
  <2> QED
    BY <1>2, <1>5, <2>1 DEF AskedFor
<1> QED
  BY <1>2, <1>3, <1>4, <1>6, <1>7, <1>8, <1>9 DEF ThreadInv

(* The thread, and the handlers of what it asks for.                          *)
LEMMA ThreadOpens ==
  ASSUME Threads!ConstantsOK, ThreadInv, NEW t \in Turns, Threads!OpenThread(t)
  PROVE  ThreadInv'
<1>1. ThreadTypes /\ \A u \in Turns : Placed(u) /\ Threaded(u) /\ Turned(u) /\ Handled(u)
  BY DEF ThreadInv
<1>2. PICK old \in SUBSET {c \in Rooms : sessions[c] # Nothing} :
        /\ sessions' = [c \in Rooms |-> IF c \in old THEN Nothing ELSE sessions[c]]
        /\ thread' = [thread EXCEPT ![t] = IF Threads!Resumes(t, sessions') THEN sessions'[room[t]].thread ELSE t]
  BY DEF Threads!OpenThread
<1>3. /\ step[t] = "client" /\ step' = [step EXCEPT ![t] = "thread"]
      /\ UNCHANGED <<line, turn, active, text, invoked, hold, approvals, tools, asks, reply>>
  BY DEF Threads!OpenThread, Threads!Lock, Threads!Stream, Threads!Handlers
<1>4. thread[t] = Nothing /\ room[t] \in Rooms /\ Nothing \notin Turns
  BY <1>1, <1>3 DEF Threaded, Threads!ConstantsOK
<1>5. ASSUME NEW c \in Rooms, sessions'[c] # Nothing
      PROVE  sessions'[c] = sessions[c] /\ sessions[c] # Nothing /\ Remembered(c) /\ sessions[c].thread # t
  BY <1>2, <1>4, <1>5, NoSession DEF ThreadInv
<1>6. /\ thread'[t] \in Turns /\ room[thread'[t]] = room[t] /\ caller[thread'[t]] = caller[t]
      /\ t \in Native \/ thread'[t] \in Native => thread'[t] = t
      /\ \A u \in Turns : u # t => thread'[u] = thread[u]
      /\ thread' \in [Turns -> Turns \cup {Nothing}]
  <2>1. CASE Threads!Resumes(t, sessions')
    <3>1. /\ t \notin Native /\ sessions'[room[t]] # Nothing /\ sessions'[room[t]].caller = caller[t]
          /\ thread' = [thread EXCEPT ![t] = sessions'[room[t]].thread]
      BY <1>2, <2>1 DEF Threads!Resumes
    <3>2. sessions'[room[t]] = sessions[room[t]] /\ Remembered(room[t]) /\ sessions[room[t]] # Nothing
      BY <1>4, <1>5, <3>1
    <3> DEFINE s == sessions[room[t]].thread
    <3>3. s \in Turns \ Native /\ room[s] = room[t] /\ caller[s] = caller[t] /\ thread' = [thread EXCEPT ![t] = s]
      BY <3>1, <3>2 DEF Remembered
    <3> HIDE DEF s
    <3> QED
      BY <1>1, <3>1, <3>3 DEF ThreadTypes
  <2>2. CASE ~Threads!Resumes(t, sessions')
    <3>1. thread' = [thread EXCEPT ![t] = t]
      BY <1>2, <2>2
    <3> QED
      BY <1>1, <3>1 DEF ThreadTypes
  <2> QED
    BY <2>1, <2>2
<1>7. step'[t] = "thread" /\ \A u \in Turns : u # t => step'[u] = step[u]
  BY <1>1, <1>3 DEF ThreadTypes
<1>8. ThreadTypes'
  <2>1. step' \in [Turns -> {"new", "queued", "done"} \cup Threads!InLock]
    BY <1>1, <1>3 DEF ThreadTypes, Threads!InLock
  <2>2. sessions' = [c \in Rooms |-> sessions'[c]]
    BY <1>2
  <2> QED
    BY <1>1, <1>3, <1>6, <2>1, <2>2 DEF ThreadTypes
<1>9. ASSUME NEW u \in Turns PROVE Placed(u)' /\ Threaded(u)' /\ Turned(u)'
  <2>1. CASE u = t
    <3>1. Placed(t)'
      BY <1>1, <1>3, <1>7 DEF Placed, Threads!InLock
    <3>2. Threaded(t)'
      BY <1>4, <1>6, <1>7 DEF Threaded
    <3>3. Turned(t)'
      BY <1>1, <1>3, <1>7 DEF Turned
    <3> QED
      BY <2>1, <3>1, <3>2, <3>3
  <2>2. CASE u # t
    BY <2>2, <1>1, <1>3, <1>6, <1>7 DEF Placed, Threaded, Turned
  <2> QED
    BY <2>1, <2>2
<1>10. ASSUME NEW h \in Turns PROVE Handled(h)'
  BY <1>1, <1>3, <1>6, <1>7 DEF Handled, ThreadTypes
<1>11. ASSUME NEW c \in Rooms PROVE Remembered(c)'
  BY <1>3, <1>5, <1>6 DEF Remembered
<1>12. ASSUME NEW a \in asks PROVE AskedFor(a)'
  <2>1. AskedFor(a) /\ a \in Turns \X Turns
    BY <1>1 DEF ThreadInv, ThreadTypes
  <2> QED
    BY <1>3, <1>7, <2>1 DEF AskedFor
<1> QED
  BY <1>3, <1>8, <1>9, <1>10, <1>11, <1>12 DEF ThreadInv

LEMMA ThreadGoesOn ==
  ASSUME Threads!ConstantsOK, ThreadInv, NEW t \in Turns, Threads!ThreadReady(t) \/ Threads!Injected(t)
  PROVE  ThreadInv'
<1>1. ThreadTypes /\ \A u \in Turns : Placed(u) /\ Threaded(u) /\ Turned(u) /\ Handled(u)
  BY DEF ThreadInv
<1>2. /\ UNCHANGED <<line, thread, active, text, invoked, hold, asks, reply>>
      /\ UNCHANGED turn \/ turn' = [turn EXCEPT ![t] = "asked"]
      /\ \/ /\ step[t] = "thread" /\ t \in Native /\ step' = [step EXCEPT ![t] = "inject"]
            /\ approvals' = [approvals EXCEPT ![thread[t]] = t] /\ UNCHANGED <<sessions, tools>>
         \/ /\ step[t] = "thread" /\ t \notin Native /\ step' = [step EXCEPT ![t] = "turning"]
            /\ approvals' = [approvals EXCEPT ![thread[t]] = t] /\ UNCHANGED tools
            /\ \/ UNCHANGED sessions
               \/ thread[t] = t /\ sessions' = [sessions EXCEPT ![room[t]] = [thread |-> t, caller |-> caller[t]]]
         \/ /\ step[t] = "inject" /\ step' = [step EXCEPT ![t] = "turning"]
            /\ tools' = [tools EXCEPT ![thread[t]] = t] /\ UNCHANGED <<sessions, approvals>>
  BY DEF Threads!ThreadReady, Threads!Injected, Threads!StartTurn, Threads!Lock, Threads!Stream, Threads!Fresh
<1> DEFINE h == thread[t]
<1>3. /\ h \in Turns /\ room[h] = room[t] /\ caller[h] = caller[t] /\ (t \in Native => h = t)
      /\ Nothing \notin Turns /\ step[t] \in Threads!InLock
      /\ step[t] = "inject" => approvals[h] = t /\ t \in Native
  BY <1>1, <1>2 DEF Threaded, ThreadTypes, Threads!ConstantsOK, Threads!InLock
<1>4. ASSUME NEW u \in Turns, thread[u] = h, step[u] \in {"inject", "turning"} PROVE u = t
  <2>1. room[u] = room[t] /\ step[u] \in Threads!InLock
    BY <1>1, <1>3, <1>4 DEF Threaded, Threads!InLock
  <2> QED
    BY <1>3, <2>1, OneInLock
<1> HIDE DEF h
<1>5. /\ step'[t] \in {"inject", "turning"} /\ (step'[t] = "inject" => t \in Native)
      /\ \A u \in Turns : u # t => step'[u] = step[u]
  BY <1>1, <1>2 DEF ThreadTypes
<1>6. /\ approvals'[h] = t /\ \A g \in Turns : g # h => approvals'[g] = approvals[g]
      /\ \A g \in Turns : g # h => tools'[g] = tools[g]
      /\ tools'[h] = tools[h] \/ (tools'[h] = t /\ t \in Native /\ step'[t] = "turning")
      /\ step'[t] = "turning" /\ t \in Native => tools'[h] = t
  BY <1>1, <1>2, <1>3 DEF ThreadTypes, h
<1>7. ThreadTypes'
  <2>1. step' \in [Turns -> {"new", "queued", "done"} \cup Threads!InLock]
    <3>1. \E s \in {"inject", "turning"} : step' = [step EXCEPT ![t] = s]
      BY <1>2
    <3>2. step \in [Turns -> {"new", "queued", "done"} \cup Threads!InLock]
      BY <1>1 DEF ThreadTypes
    <3> QED
      BY <3>1, <3>2 DEF Threads!InLock
  <2>2. approvals' \in [Turns -> Turns \cup {Nothing}] /\ tools' \in [Turns -> Turns \cup {Nothing}]
    BY <1>1, <1>2 DEF ThreadTypes
  <2>4. turn' \in [Turns -> {"none", "asked", "running", "ended"}]
    BY <1>1, <1>2 DEF ThreadTypes
  <2>3. sessions' = [c \in Rooms |-> sessions'[c]]
    BY <1>1, <1>2 DEF ThreadTypes
  <2> QED
    BY <1>1, <1>2, <2>1, <2>2, <2>3, <2>4 DEF ThreadTypes
<1>8. ASSUME NEW u \in Turns PROVE Placed(u)' /\ Turned(u)'
  <2>1. Placed(u)'
    BY <1>1, <1>2, <1>3, <1>5 DEF Placed, Threads!InLock
  <2>2. CASE u = t
    <3>1. reply[t] = Nothing /\ t \notin active /\ hold[t] # "armed" /\ invoked[t] \subseteq {t}
      BY <1>1, <1>2 DEF Turned
    <3> QED
      BY <2>1, <2>2, <3>1, <1>2 DEF Turned
  <2>3. CASE u # t
    BY <2>1, <2>3, <1>1, <1>2, <1>5 DEF Turned
  <2> QED
    BY <2>2, <2>3
<1>9. ASSUME NEW u \in Turns PROVE Threaded(u)'
  <2>1. CASE u = t
    <3>1. thread'[t] = h /\ h # Nothing
      BY <1>2, <1>3 DEF h
    <3>2. h \in Native => h = t
      BY <1>1, <3>1 DEF Threaded, h
    <3> QED
      BY <2>1, <3>1, <3>2, <1>3, <1>5, <1>6 DEF Threaded
  <2>2. CASE u # t
    <3>1. step'[u] = step[u] /\ Threaded(u) /\ thread'[u] = thread[u] /\ turn'[u] = turn[u]
      BY <2>2, <1>1, <1>2, <1>5 DEF ThreadTypes
    <3>2. step[u] \in {"inject", "turning"} => thread[u] # h /\ thread[u] \in Turns
      BY <2>2, <1>4, <3>1, <1>1 DEF Threaded, ThreadTypes
    <3> QED
      BY <3>1, <3>2, <1>6 DEF Threaded
  <2> QED
    BY <2>1, <2>2
<1>10. ASSUME NEW g \in Turns PROVE Handled(g)'
  <2>1. approvals'[g] # Nothing => step'[approvals'[g]] \in {"inject", "turning"} /\ thread[approvals'[g]] = g
    <3>1. CASE g = h
      BY <3>1, <1>5, <1>6 DEF h
    <3>2. CASE g # h
      <4>1. approvals'[g] = approvals[g] /\ Handled(g) /\ approvals[g] \in Turns \cup {Nothing}
        BY <3>2, <1>1, <1>6 DEF ThreadTypes
      <4> QED
        BY <4>1, <1>5 DEF Handled
    <3> QED
      BY <3>1, <3>2
  <2>2. tools'[g] # Nothing => step'[tools'[g]] = "turning" /\ thread[tools'[g]] = g /\ tools'[g] \in Native
    <3>1. CASE tools'[g] = tools[g]
      <4>1. Handled(g) /\ tools[g] \in Turns \cup {Nothing}
        BY <1>1 DEF ThreadTypes
      <4>2. step[t] # "turning"
        BY <1>2
      <4> QED
        BY <3>1, <4>1, <4>2, <1>5 DEF Handled
    <3>2. CASE tools'[g] # tools[g]
      BY <3>2, <1>6 DEF h
    <3> QED
      BY <3>1, <3>2
  <2> QED
    BY <1>2, <2>1, <2>2 DEF Handled
<1>11. ASSUME NEW c \in Rooms PROVE Remembered(c)'
  <2>1. CASE sessions'[c] = sessions[c]
    BY <2>1, <1>2 DEF Remembered, ThreadInv
  <2>2. CASE sessions'[c] # sessions[c]
    <3>1. /\ t \notin Native /\ h = t /\ c = room[t] /\ sessions'[c] = [thread |-> t, caller |-> caller[t]]
          /\ step[t] = "thread"
      BY <1>1, <1>2, <2>2 DEF ThreadTypes, h
    <3>2. reply[t] = Nothing
      BY <3>1, <1>1 DEF Turned
    <3> QED
      BY <3>1, <3>2, <1>2 DEF Remembered, h, Threads!ConstantsOK
  <2> QED
    BY <2>1, <2>2
<1>12. ASSUME NEW a \in asks PROVE AskedFor(a)'
  <2>1. AskedFor(a) /\ a \in Turns \X Turns
    BY <1>1 DEF ThreadInv, ThreadTypes
  <2> QED
    BY <1>2, <1>5, <2>1 DEF AskedFor
<1> QED
  BY <1>2, <1>7, <1>8, <1>9, <1>10, <1>11, <1>12 DEF ThreadInv

(* What the turn asks for and calls.                                          *)
LEMMA ThreadAsks ==
  ASSUME Threads!ConstantsOK, ThreadInv, NEW u \in Turns, Threads!ToolCall(u) \/ Threads!AsksApproval(u)
  PROVE  ThreadInv'
<1>1. ThreadTypes /\ \A t \in Turns : Placed(t) /\ Threaded(t) /\ Turned(t) /\ Handled(t)
  BY DEF ThreadInv
<1>2. UNCHANGED <<step, line, sessions, thread, turn, active, text, approvals, tools, reply>> /\ Nothing \notin Turns
  BY DEF Threads!ToolCall, Threads!AsksApproval, Threads!Lock, Threads!Stream, Threads!Handlers, Threads!ConstantsOK
<1>3. (\A t \in Turns : Placed(t) /\ Threaded(t) /\ Handled(t))' /\ (\A c \in Rooms : Remembered(c))'
  BY <1>1, <1>2 DEF ThreadInv, Placed, Threaded, Handled, Remembered
<1>4. thread[u] \in Turns
  BY <1>1 DEF Threads!ToolCall, Threads!AsksApproval, Threads!Running, Threaded, ThreadTypes
<1>5. CASE Threads!ToolCall(u)
  <2> DEFINE t == tools[thread[u]]
  <2>1. /\ t # Nothing /\ invoked' = [invoked EXCEPT ![t] = invoked[t] \cup {u}]
        /\ hold' = [hold EXCEPT ![t] = IF hold[t] = "no" THEN "armed" ELSE hold[t]] /\ UNCHANGED asks
    BY <1>5 DEF Threads!ToolCall, Threads!Handlers
  <2>2. thread[u] \in Turns /\ t \in Turns /\ step[t] = "turning" /\ thread[t] = thread[u] /\ t \in Native
    BY <1>1, <1>4, <2>1 DEF Handled, ThreadTypes
  <2>3. t = u
    BY <1>1, <1>2, <2>2 DEF Threaded
  <2> HIDE DEF t
  <2>4. invoked' \in [Turns -> SUBSET Turns] /\ hold' \in [Turns -> {"no", "armed", "sent"}]
    BY <1>1, <2>1, <2>2 DEF ThreadTypes
  <2>5. ThreadTypes'
    BY <1>1, <1>2, <2>1, <2>4 DEF ThreadTypes
  <2>6. ASSUME NEW w \in Turns PROVE Turned(w)'
    <3>1. CASE w = t
      <4>1. invoked'[u] \subseteq {u} /\ reply[u] = Nothing
        BY <1>1, <2>1, <2>2, <2>3 DEF Turned, ThreadTypes
      <4> QED
        BY <3>1, <4>1, <1>1, <1>2, <2>2, <2>3 DEF Turned
    <3>2. CASE w # t
      BY <3>2, <1>1, <1>2, <2>1 DEF Turned, ThreadTypes
    <3> QED
      BY <3>1, <3>2
  <2>7. (\A a \in asks : AskedFor(a))'
    BY <1>2, <2>1 DEF ThreadInv, AskedFor
  <2> QED
    BY <1>3, <2>5, <2>6, <2>7 DEF ThreadInv
<1>6. CASE Threads!AsksApproval(u)
  <2>1. /\ UNCHANGED <<invoked, hold>>
        /\ asks' = IF approvals[thread[u]] = Nothing THEN asks ELSE asks \cup {<<u, approvals[thread[u]]>>}
    BY <1>6 DEF Threads!AsksApproval, Threads!Stream
  <2>2. approvals[thread[u]] \in Turns \cup {Nothing}
    BY <1>1, <1>4 DEF ThreadTypes
  <2>3. ThreadTypes'
    <3>1. asks' \subseteq Turns \X Turns
      BY <1>1, <2>1, <2>2 DEF ThreadTypes
    <3> QED
      BY <1>1, <1>2, <2>1, <3>1 DEF ThreadTypes
  <2>4. ASSUME NEW w \in Turns PROVE Turned(w)'
    BY <1>1, <1>2, <2>1 DEF Turned
  <2>5. ASSUME NEW a \in asks' PROVE AskedFor(a)'
    <3>1. CASE a \in asks
      BY <3>1, <1>2 DEF ThreadInv, AskedFor
    <3>2. CASE a \notin asks
      <4> DEFINE t == approvals[thread[u]]
      <4>1. t \in Turns /\ a = <<u, t>>
        BY <2>1, <2>2, <3>2
      <4>2. step[t] \in {"inject", "turning"} /\ thread[t] = thread[u]
        BY <1>1, <1>2, <1>4, <4>1 DEF Handled
      <4> HIDE DEF t
      <4>3. room[t] = room[u] /\ caller[t] = caller[u]
        BY <1>1, <1>2, <1>4, <4>1, <4>2 DEF Threaded
      <4> QED
        BY <1>2, <4>1, <4>2, <4>3 DEF AskedFor
    <3> QED
      BY <3>1, <3>2
  <2> QED
    BY <1>3, <2>3, <2>4, <2>5 DEF ThreadInv
<1> QED
  BY <1>5, <1>6

(* Every step of the backend and of its server.                               *)
LEMMA ThreadStays ==
  ASSUME Threads!ConstantsOK, ThreadInv, [Threads!Next]_Threads!vars
  PROVE  ThreadInv'
<1>1. ThreadTypes /\ \A t \in Turns : Turned(t)
  BY DEF ThreadInv
<1>2. CASE UNCHANGED Threads!vars
  BY <1>1, <1>2, ThreadRests DEF Threads!vars, ThreadTypes
<1>3. CASE Threads!Initialised \/ Threads!InitFails
  BY <1>1, <1>3, ThreadRests DEF Threads!Initialised, Threads!InitFails, Threads!Lock, Threads!Stream,
     Threads!Handlers, ThreadTypes
<1>4. CASE Threads!Crash
  <2>1. PICK g \in alive \cap ready :
          turn' = [t \in Turns |-> IF on[t] = g /\ turn[t] # "none" THEN "ended" ELSE turn[t]]
    BY <1>4 DEF Threads!Crash
  <2>2. turn' \in [Turns -> {"none", "asked", "running", "ended"}] /\ \A t \in Turns : turn'[t] # "none" => turn[t] # "none"
    BY <1>1, <2>1 DEF ThreadTypes
  <2> QED
    BY <1>1, <1>4, <2>2, ThreadRests DEF Threads!Crash, Threads!Lock, Threads!Stream, Threads!Handlers, ThreadTypes
<1>5. ASSUME NEW t \in Turns,
             \/ Threads!TurnBegins(t) \/ Threads!Started(t) \/ Threads!Speaks(t) \/ Threads!Accounts(t)
             \/ Threads!HoldExpires(t) \/ Threads!Decided(t) \/ Threads!Abort(t)
      PROVE  ThreadInv'
  <2>1. UNCHANGED <<step, line, sessions, thread, invoked, approvals, tools, reply>>
    BY <1>5 DEF Threads!TurnBegins, Threads!Started, Threads!Speaks, Threads!Accounts, Threads!HoldExpires,
       Threads!Decided, Threads!Abort, Threads!Lock, Threads!Stream, Threads!Handlers
  <2>2. asks' \subseteq asks
    BY <1>5 DEF Threads!TurnBegins, Threads!Started, Threads!Speaks, Threads!Accounts, Threads!HoldExpires,
       Threads!Decided, Threads!Abort, Threads!Handlers
  <2>3. active' \subseteq Turns /\ \A u \in active' : u \in active \/ step[u] = "turning"
    BY <1>1, <1>5 DEF Threads!TurnBegins, Threads!Started, Threads!Speaks, Threads!Accounts, Threads!HoldExpires,
       Threads!Decided, Threads!Abort, Threads!Stream, ThreadTypes
  <2>4. hold' \in [Turns -> {"no", "armed", "sent"}] /\ \A u \in Turns : hold'[u] = "armed" => hold[u] = "armed"
    <3>1. UNCHANGED hold \/ \E S : hold' = [u \in Turns |-> IF u \in S THEN "sent" ELSE hold[u]]
      BY <1>5 DEF Threads!TurnBegins, Threads!Started, Threads!Speaks, Threads!Accounts, Threads!HoldExpires,
         Threads!Decided, Threads!Abort, Threads!Stream, Threads!Interrupting
    <3> QED
      BY <1>1, <3>1 DEF ThreadTypes
  <2>5. text' \in [Turns -> SUBSET Turns]
    <3>1. UNCHANGED text \/ text' = [u \in Turns |-> IF u \in Threads!Listeners(t) THEN text[u] \cup {t} ELSE text[u]]
      BY <1>5 DEF Threads!TurnBegins, Threads!Started, Threads!Speaks, Threads!Accounts, Threads!HoldExpires,
         Threads!Decided, Threads!Abort, Threads!Stream
    <3> QED
      BY <1>1, <3>1 DEF ThreadTypes
  <2>6. turn' \in [Turns -> {"none", "asked", "running", "ended"}] /\ \A u \in Turns : turn'[u] # "none" => turn[u] # "none"
    <3>1. UNCHANGED turn \/ (turn[t] = "asked" /\ turn' = [turn EXCEPT ![t] = "running"])
      BY <1>5 DEF Threads!TurnBegins, Threads!Started, Threads!Speaks, Threads!Accounts, Threads!HoldExpires,
         Threads!Decided, Threads!Abort
    <3> QED
      BY <1>1, <3>1 DEF ThreadTypes
  <2> QED
    BY <2>1, <2>2, <2>3, <2>4, <2>5, <2>6, ThreadRests
<1>6. ASSUME NEW t \in Turns, Threads!Bridge(t) \/ Threads!Reply(t) PROVE ThreadInv'
  BY <1>5, <1>6, ThreadEnters, ThreadFinishes, ThreadEnds, ThreadOpens, ThreadGoesOn DEF Threads!Bridge, Threads!Reply
<1>7. ASSUME NEW t \in Turns, Threads!Arrive(t) \/ Threads!Abort(t) \/ Threads!TurnTimeout(t) PROVE ThreadInv'
  BY <1>5, <1>7, ThreadEnters, ThreadFinishes
<1>8. ASSUME NEW u \in Turns,
             Threads!Speaks(u) \/ Threads!Accounts(u) \/ Threads!ToolCall(u) \/ Threads!AsksApproval(u) \/ Threads!Decided(u)
      PROVE  ThreadInv'
  BY <1>5, <1>8, ThreadAsks
<1> QED
  BY <1>2, <1>3, <1>4, <1>6, <1>7, <1>8 DEF Threads!Next

ThreadGood ==
  Threads!HandlersAreOwn /\ Threads!ApprovalsStayWithCaller /\ Threads!FailedIsForgotten /\ Threads!CallsAreOwn

LEMMA ThreadIsGood ==
  ASSUME Threads!ConstantsOK, ThreadInv
  PROVE  ThreadGood
<1>1. Threads!HandlersAreOwn
  BY DEF ThreadInv, Threaded, Handled, Threads!HandlersAreOwn
<1>2. Threads!ApprovalsStayWithCaller
  BY DEF ThreadInv, AskedFor, Threads!ApprovalsStayWithCaller
<1>3. Threads!FailedIsForgotten
  BY DEF ThreadInv, Remembered, Threads!FailedIsForgotten
<1>4. Threads!CallsAreOwn
  BY DEF ThreadInv, Turned, Threads!CallsAreOwn
<1> QED
  BY <1>1, <1>2, <1>3, <1>4 DEF ThreadGood

AnsweredForGood ==
  [\A t \in Turns : reply[t] # Nothing =>
     reply'[t] = reply[t] /\ text'[t] \subseteq text[t] /\ invoked'[t] \subseteq invoked[t]]_Threads!vars
OnlyLivePoked == [\A t \in interrupts' \ interrupts : step[t] = "turning"]_Threads!vars
CallStopped ==
  [\A t \in Turns : reply[t] = Nothing /\ reply'[t] = "canceled" => t \in stop \/ invoked[t] = {}]_Threads!vars

RightlySaid(t) ==
  /\ reply[t] # Nothing => reply'[t] = reply[t]
  /\ reply[t] = Nothing /\ reply'[t] = "canceled" => t \in stop \/ invoked[t] = {}

(* What finish() says, of whom.                                               *)
LEMMA Verdicts ==
  ASSUME Threads!ConstantsOK, ThreadInv, Threads!Next, NEW t \in Turns
  PROVE  RightlySaid(t)
<1>1. ThreadTypes /\ Turned(t) /\ "failed" # "canceled"
  BY DEF ThreadInv
<1>2. ASSUME NEW S \in SUBSET Turns, NEW v, \A u \in S : step[u] \in {"client", "thread", "inject", "turning"},
             \A u \in S : v[u] = "canceled" => u \in stop \/ invoked[u] = {}, Threads!Settle(S, v)
      PROVE  RightlySaid(t)
  BY <1>1, <1>2 DEF RightlySaid, Threads!Settle, Turned, ThreadTypes, Threads!ConstantsOK
<1>3. ASSUME NEW u \in Turns, step[u] \in {"client", "thread", "inject", "turning"}, Threads!Fails(u)
      PROVE  RightlySaid(t)
  BY <1>2, <1>3 DEF Threads!Fails
<1>4. ASSUME UNCHANGED reply
      PROVE  RightlySaid(t)
  BY <1>4 DEF RightlySaid, Threads!ConstantsOK
<1>5. ASSUME NEW u \in Turns,
             Threads!Arrive(u) \/ Threads!Enter(u) \/ Threads!MapFails(u) \/ Threads!Mapped(u)
      PROVE  RightlySaid(t)
  <2>1. /\ step[u] \in {"new", "queued", "mapping"}
        /\ UNCHANGED reply \/ \E w \in {"failed", "canceled"} : reply' = [reply EXCEPT ![u] = w] /\ (w = "canceled" => u \in stop)
    BY <1>5 DEF Threads!Arrive, Threads!Enter, Threads!MapFails, Threads!Mapped
  <2> QED
    BY <1>1, <2>1 DEF RightlySaid, Turned, ThreadTypes, Threads!ConstantsOK
<1>6. ASSUME NEW u \in Turns, Threads!GraceOver(u)
      PROVE  RightlySaid(t)
  BY <1>2, <1>6 DEF Threads!GraceOver
<1>7. ASSUME NEW u \in Turns, Threads!TurnEnds(u)
      PROVE  RightlySaid(t)
  <2> DEFINE L == Threads!Listeners(u)
  <2>1. L \in SUBSET Turns /\ \A w \in L : step[w] = "turning"
    BY DEF Threads!Listeners
  <2>2. PICK status \in {"completed", "failed", "interrupted"} :
          Threads!Settle(L, [w \in L |-> Threads!Verdict(w, status)])
    BY <1>7 DEF Threads!TurnEnds
  <2> DEFINE v == [w \in L |-> Threads!Verdict(w, status)]
  <2>3. \A w \in L : v[w] = "canceled" => w \in stop \/ invoked[w] = {}
    BY DEF Threads!Verdict
  <2> HIDE DEF L, v
  <2>4. Threads!Settle(L, v)
    BY <2>2 DEF v
  <2> QED
    BY <1>2, <2>1, <2>3, <2>4
<1>8. CASE Threads!Initialised \/ Threads!InitFails \/ Threads!Crash
  BY <1>4, <1>8 DEF Threads!Initialised, Threads!InitFails, Threads!Crash
<1>9. ASSUME NEW u \in Turns, Threads!Bridge(u)
      PROVE  RightlySaid(t)
  BY <1>3, <1>4, <1>5, <1>6, <1>9 DEF Threads!Bridge, Threads!NoServer, Threads!OpenThread, Threads!Lost, Threads!End,
     Threads!HoldExpires
<1>10. ASSUME NEW u \in Turns, Threads!Reply(u)
      PROVE  RightlySaid(t)
  BY <1>3, <1>4, <1>7, <1>10 DEF Threads!Reply, Threads!ThreadReady, Threads!Injected, Threads!ThreadFails,
     Threads!TurnBegins, Threads!TurnRefused, Threads!Started
<1>11. ASSUME NEW u \in Turns,
              \/ Threads!Arrive(u) \/ Threads!Abort(u) \/ Threads!TurnTimeout(u)
              \/ Threads!Speaks(u) \/ Threads!Accounts(u) \/ Threads!ToolCall(u) \/ Threads!AsksApproval(u)
              \/ Threads!Decided(u)
      PROVE  RightlySaid(t)
  BY <1>3, <1>4, <1>5, <1>11 DEF Threads!Abort, Threads!TurnTimeout, Threads!Speaks, Threads!Accounts,
     Threads!ToolCall, Threads!AsksApproval, Threads!Decided
<1> QED
  BY <1>8, <1>9, <1>10, <1>11 DEF Threads!Next

(* A task says nothing after its verdict, and has its turn interrupted only   *)
(* while it waits for it.                                                     *)
LEMMA ThreadSpeaks ==
  ASSUME Threads!ConstantsOK, ThreadInv, Threads!Next, NEW t \in Turns
  PROVE  /\ reply[t] # Nothing => text'[t] \subseteq text[t] /\ invoked'[t] \subseteq invoked[t]
         /\ t \in interrupts' \ interrupts => step[t] = "turning"
<1> DEFINE Quiet == reply[t] # Nothing => text'[t] \subseteq text[t] /\ invoked'[t] \subseteq invoked[t]
<1> DEFINE Live == t \in interrupts' \ interrupts => step[t] = "turning"
<1>1. ThreadTypes /\ Turned(t) /\ \A u \in Turns : Handled(u) /\ Threaded(u)
  BY DEF ThreadInv
<1>2. ASSUME UNCHANGED <<text, invoked>> PROVE Quiet
  BY <1>2
<1>3. ASSUME UNCHANGED <<text, invoked, interrupts>> PROVE Quiet /\ Live
  BY <1>3
<1>4. ASSUME Threads!Initialised \/ Threads!InitFails \/ Threads!Crash PROVE Quiet /\ Live
  BY <1>3, <1>4 DEF Threads!Initialised, Threads!InitFails, Threads!Crash, Threads!Stream, Threads!Sets
<1>5. ASSUME NEW u \in Turns,
             \/ Threads!Arrive(u) \/ Threads!Enter(u) \/ Threads!MapFails(u) \/ Threads!Mapped(u) \/ Threads!OpenThread(u)
             \/ Threads!ThreadReady(u) \/ Threads!Injected(u) \/ Threads!TurnBegins(u) \/ Threads!Started(u)
             \/ Threads!Decided(u)
      PROVE  Quiet /\ Live
  BY <1>3, <1>5 DEF Threads!Arrive, Threads!Enter, Threads!MapFails, Threads!Mapped, Threads!OpenThread,
     Threads!ThreadReady, Threads!Injected, Threads!TurnBegins, Threads!Started, Threads!Decided, Threads!Stream, Threads!Sets
<1>6. ASSUME NEW u \in Turns,
             \/ Threads!NoServer(u) \/ Threads!ThreadFails(u) \/ Threads!Lost(u) \/ Threads!TurnRefused(u)
             \/ Threads!TurnEnds(u) \/ Threads!GraceOver(u) \/ Threads!TurnTimeout(u)
      PROVE  Quiet /\ Live
  BY <1>3, <1>6 DEF Threads!NoServer, Threads!ThreadFails, Threads!Lost, Threads!TurnRefused, Threads!TurnEnds,
     Threads!GraceOver, Threads!TurnTimeout, Threads!Fails, Threads!Settle, Threads!Stream, Threads!Sets
<1>7. ASSUME NEW u \in Turns, Threads!Accounts(u) \/ Threads!HoldExpires(u) PROVE Quiet /\ Live
  <2>1. UNCHANGED <<text, invoked>>
    BY <1>7 DEF Threads!Accounts, Threads!HoldExpires
  <2>2. \E S : Threads!Interrupting(S) /\ \A w \in S : hold[w] = "armed"
    BY <1>7 DEF Threads!Accounts, Threads!HoldExpires
  <2>3. Live
    BY <1>1, <2>2 DEF Threads!Interrupting, Turned
  <2> QED
    BY <1>2, <2>1, <2>3
<1>8. ASSUME NEW u \in Turns, Threads!Abort(u) PROVE Quiet /\ Live
  <2>1. Quiet
    BY <1>2, <1>8 DEF Threads!Abort, Threads!Stream
  <2>2. Live
    BY <1>1, <1>8 DEF Threads!Abort, Turned
  <2> QED
    BY <2>1, <2>2
<1>9. ASSUME NEW u \in Turns, Threads!Speaks(u) PROVE Quiet /\ Live
  <2>1. text' = [w \in Turns |-> IF w \in Threads!Listeners(u) THEN text[w] \cup {u} ELSE text[w]] /\ UNCHANGED <<invoked, interrupts>>
    BY <1>9 DEF Threads!Speaks, Threads!Sets
  <2>2. reply[t] # Nothing => t \notin Threads!Listeners(u)
    BY <1>1 DEF Turned, Threads!Listeners
  <2> QED
    BY <2>1, <2>2
<1>10. ASSUME NEW u \in Turns, Threads!ToolCall(u) PROVE Quiet /\ Live
  <2> DEFINE w == tools[thread[u]]
  <2>1. /\ w # Nothing /\ invoked' = [invoked EXCEPT ![w] = invoked[w] \cup {u}] /\ UNCHANGED <<text, interrupts>>
        /\ thread[u] \in Turns
    BY <1>1, <1>10 DEF Threads!ToolCall, Threads!Running, Threads!Sets, Threaded, ThreadTypes
  <2>2. step[w] = "turning"
    BY <1>1, <2>1 DEF Handled
  <2>3. reply[t] # Nothing => t # w
    BY <1>1, <2>2 DEF Turned
  <2> HIDE DEF w
  <2> QED
    BY <1>1, <2>1, <2>3 DEF ThreadTypes
<1>11. ASSUME NEW u \in Turns, Threads!AsksApproval(u) PROVE Quiet /\ Live
  BY <1>3, <1>11 DEF Threads!AsksApproval, Threads!Stream
<1>12. ASSUME NEW u \in Turns, Threads!End(u) PROVE Quiet /\ Live
  BY <1>1, <1>12 DEF Threads!End, Threads!Sets, ThreadTypes
<1> HIDE DEF Quiet, Live
<1>13. ASSUME NEW u \in Turns, Threads!Bridge(u) PROVE Quiet /\ Live
  BY <1>5, <1>6, <1>7, <1>12, <1>13 DEF Threads!Bridge
<1>14. ASSUME NEW u \in Turns, Threads!Reply(u) PROVE Quiet /\ Live
  BY <1>5, <1>6, <1>14 DEF Threads!Reply
<1>15. ASSUME NEW u \in Turns,
              \/ Threads!Arrive(u) \/ Threads!Abort(u) \/ Threads!TurnTimeout(u)
              \/ Threads!Speaks(u) \/ Threads!Accounts(u) \/ Threads!ToolCall(u) \/ Threads!AsksApproval(u)
              \/ Threads!Decided(u)
       PROVE  Quiet /\ Live
  BY <1>5, <1>6, <1>7, <1>8, <1>9, <1>10, <1>11, <1>15
<1>16. Quiet /\ Live
  BY <1>4, <1>13, <1>14, <1>15 DEF Threads!Next
<1> QED
  BY <1>16 DEF Quiet, Live

(* Only turns that are known are interrupted.                                 *)
LEMMA KnownPoked ==
  ASSUME Threads!Next
  PROVE  interrupts' \ interrupts \subseteq active
<1>1. CASE UNCHANGED interrupts
  BY <1>1
<1>2. ASSUME NEW u \in Turns, Threads!Accounts(u) \/ Threads!HoldExpires(u) \/ Threads!Abort(u)
      PROVE  interrupts' \ interrupts \subseteq active
  BY <1>2 DEF Threads!Accounts, Threads!HoldExpires, Threads!Abort, Threads!Interrupting
<1>3. CASE Threads!Initialised \/ Threads!InitFails \/ Threads!Crash
  BY <1>1, <1>3 DEF Threads!Initialised, Threads!InitFails, Threads!Crash, Threads!Sets
<1>4. ASSUME NEW u \in Turns, Threads!Bridge(u)
      PROVE  interrupts' \ interrupts \subseteq active
  BY <1>1, <1>2, <1>4 DEF Threads!Bridge, Threads!Enter, Threads!MapFails, Threads!Mapped, Threads!NoServer,
     Threads!OpenThread, Threads!Lost, Threads!End, Threads!GraceOver, Threads!Sets
<1>5. ASSUME NEW u \in Turns, Threads!Reply(u)
      PROVE  interrupts' \ interrupts \subseteq active
  BY <1>1, <1>5 DEF Threads!Reply, Threads!ThreadReady, Threads!Injected, Threads!ThreadFails, Threads!TurnBegins,
     Threads!TurnRefused, Threads!Started, Threads!TurnEnds, Threads!Sets
<1>6. ASSUME NEW u \in Turns,
             \/ Threads!Arrive(u) \/ Threads!TurnTimeout(u) \/ Threads!Speaks(u) \/ Threads!ToolCall(u)
             \/ Threads!AsksApproval(u) \/ Threads!Decided(u)
      PROVE  interrupts' \ interrupts \subseteq active
  BY <1>1, <1>6 DEF Threads!Arrive, Threads!TurnTimeout, Threads!Speaks, Threads!ToolCall, Threads!AsksApproval,
     Threads!Decided, Threads!Sets
<1> QED
  BY <1>2, <1>3, <1>4, <1>5, <1>6 DEF Threads!Next

LEMMA ThreadActs ==
  ASSUME Threads!ConstantsOK, ThreadInv, [Threads!Next]_Threads!vars
  PROVE  AnsweredForGood /\ OnlyLivePoked /\ CallStopped
<1>1. CASE UNCHANGED Threads!vars
  BY <1>1 DEF AnsweredForGood, OnlyLivePoked, CallStopped
<1>2. CASE Threads!Next
  <2>1. AnsweredForGood
    BY <1>2, Verdicts, ThreadSpeaks DEF AnsweredForGood, RightlySaid
  <2>2. OnlyLivePoked
    <3>1. interrupts' \ interrupts \subseteq Turns
      BY <1>2, KnownPoked DEF ThreadInv, ThreadTypes
    <3> QED
      BY <1>2, <3>1, ThreadSpeaks DEF OnlyLivePoked
  <2>3. CallStopped
    BY <1>2, Verdicts DEF CallStopped, RightlySaid
  <2> QED
    BY <2>1, <2>2, <2>3
<1> QED
  BY <1>1, <1>2

ThreadHolds == Threads!ConstantsOK /\ ThreadInv

(* Codex over its app-server: lines, threads, handlers and sessions stay      *)
(* within ThreadInv.                                                          *)
THEOREM ThreadInvariant == Threads!ConstantsOK /\ Threads!Spec => []ThreadHolds
<1>1. Threads!ConstantsOK /\ Threads!Init => ThreadHolds
  BY ThreadStarts DEF ThreadHolds
<1>2. ThreadHolds /\ [Threads!Next]_Threads!vars => ThreadHolds'
  BY ThreadStays DEF ThreadHolds, Threads!ConstantsOK
<1> QED
  BY <1>1, <1>2, PTL DEF Threads!Spec

-----------------------------------------------------------------------------
(***************************************************************************)
(* The sessions of claude's conversations.  An entry is that of the last   *)
(* task that wrote it in its context; the session in it was minted by a    *)
(* task of the same context and caller.                                    *)
(***************************************************************************)
TalkStates == [stage : {"new", "starting", "running", "done"}, context : Rooms \cup {Nothing},
          caller : Callers \cup {Nothing}, session : Tasks \cup {Nothing}, resume : BOOLEAN,
          write : Nat, at : Nat, aborted : BOOLEAN, verdict : {Nothing, "completed", "failed", "canceled"}]

ChatTypes == now \in Nat /\ counter \in Nat /\ chats = [c \in Rooms |-> chats[c]] /\ talk \in [Tasks -> TalkStates]

Talking(t) == talk[t].stage # "new"

(* A task's session is one of its context and its caller.                     *)
Talked(t) ==
  /\ Talking(t) <=> talk[t].context # Nothing
  /\ talk[t].verdict # Nothing => talk[t].stage = "done"
  /\ Talking(t) =>
       /\ talk[t].context \in Rooms /\ talk[t].caller \in Callers /\ talk[t].session \in Tasks
       /\ talk[t].write <= counter /\ talk[t].at <= now
       /\ LET s == talk[t].session
          IN /\ Talking(s) /\ talk[s].session = s
             /\ talk[s].context = talk[t].context /\ talk[s].caller = talk[t].caller

WritesDiffer ==
  \A t, u \in Tasks : Talking(t) /\ Talking(u) /\ talk[t].write = talk[u].write => t = u

Latest(t) ==
  Talking(t) /\ \A u \in Tasks : talk[u].context = talk[t].context => talk[u].write <= talk[t].write

(* An entry is the last writer's.                                             *)
Written(c) ==
  chats[c] # Nothing =>
    \E t \in Tasks :
      /\ Latest(t) /\ talk[t].context = c
      /\ chats[c] = [session |-> talk[t].session, used |-> talk[t].at, write |-> talk[t].write,
                     caller |-> talk[t].caller]

(* Where the last writer has none it failed, or a later task found it too     *)
(* old.                                                                       *)
Missing(t) ==
  Latest(t) =>
    /\ chats[talk[t].context] = Nothing =>
         talk[t].verdict = "failed" \/ \E u \in Tasks : Talking(u) /\ talk[u].at > talk[t].at + Ttl
    /\ ~talk[t].resume /\ talk[t].verdict = "failed" => chats[talk[t].context] = Nothing

ChatInv ==
  /\ ChatTypes /\ WritesDiffer
  /\ \A t \in Tasks : Talked(t) /\ Missing(t)
  /\ \A c \in Rooms : Written(c)

LEMMA ChatStarts ==
  ASSUME Chats!ConstantsOK, Chats!Init
  PROVE  ChatInv
<1>1. \A t \in Tasks : talk[t] = Chats!NewTask /\ ~Talking(t)
  BY DEF Chats!Init, Chats!NewTask, Talking
<1>2. Chats!NewTask \in TalkStates
  BY DEF Chats!NewTask, TalkStates
<1>3. ChatTypes
  BY <1>2 DEF Chats!Init, ChatTypes
<1>4. ASSUME NEW t \in Tasks PROVE Talked(t) /\ Missing(t)
  BY <1>1 DEF Talked, Missing, Latest, Chats!NewTask
<1>5. WritesDiffer /\ \A c \in Rooms : Written(c)
  BY <1>1 DEF WritesDiffer, Written, Chats!Init
<1> QED
  BY <1>3, <1>4, <1>5 DEF ChatInv

(* A step that leaves alone what a task wrote, and the entries; only a task   *)
(* whose entry is gone fails.                                                 *)
LEMMA ChatRests ==
  ASSUME Chats!ConstantsOK, ChatInv, NEW t \in Tasks, Talking(t),
         NEW r \in TalkStates, talk' = [talk EXCEPT ![t] = r], r.stage # "new",
         r.context = talk[t].context, r.caller = talk[t].caller, r.session = talk[t].session,
         r.resume = talk[t].resume, r.write = talk[t].write, r.at = talk[t].at,
         r.verdict # Nothing => r.stage = "done",
         talk[t].verdict = "failed" => r.verdict = "failed",
         UNCHANGED <<now, counter>>,
         \/ UNCHANGED chats /\ (r.verdict = "failed" => talk[t].verdict = "failed")
         \/ /\ r.verdict = "failed" /\ chats' = Chats!RolledBack(t)
  PROVE  ChatInv'
<1>1. ChatTypes /\ WritesDiffer /\ \A u \in Tasks : Talked(u) /\ Missing(u)
  BY DEF ChatInv
<1>2. /\ talk'[t] = r /\ \A u \in Tasks : u # t => talk'[u] = talk[u]
      /\ talk' \in [Tasks -> TalkStates]
  BY <1>1 DEF ChatTypes
<1>3. \A u \in Tasks : /\ talk'[u].context = talk[u].context /\ talk'[u].caller = talk[u].caller
                       /\ talk'[u].session = talk[u].session /\ talk'[u].resume = talk[u].resume
                       /\ talk'[u].write = talk[u].write /\ talk'[u].at = talk[u].at
                       /\ (Talking(u)' <=> Talking(u))
  BY <1>2 DEF Talking
<1>4. \A u \in Tasks : Latest(u)' <=> Latest(u)
  BY <1>3 DEF Latest
<1>5. DOMAIN chats = Rooms /\ talk[t].context \in Rooms
  BY <1>1 DEF ChatTypes, Talked
<1>6. ASSUME NEW c \in Rooms PROVE Written(c)' /\ (chats'[c] = chats[c] \/ chats'[c] = Nothing)
  <2>1. chats'[c] = chats[c] \/ chats'[c] = Nothing
    BY <1>1, <1>5 DEF Chats!RolledBack, ChatTypes
  <2>2. CASE chats'[c] = Nothing
    BY <2>2 DEF Written
  <2>3. CASE chats'[c] # Nothing
    <3>1. chats'[c] = chats[c] /\ Written(c)
      BY <2>1, <2>3 DEF ChatInv
    <3>2. PICK w \in Tasks : /\ Latest(w) /\ talk[w].context = c
                             /\ chats[c] = [session |-> talk[w].session, used |-> talk[w].at,
                                            write |-> talk[w].write, caller |-> talk[w].caller]
      BY <2>3, <3>1 DEF Written
    <3>3. Latest(w)' /\ talk'[w].context = c
          /\ chats'[c] = [session |-> talk'[w].session, used |-> talk'[w].at,
                          write |-> talk'[w].write, caller |-> talk'[w].caller]
      BY <1>3, <1>4, <3>1, <3>2
    <3>4. \E x \in Tasks : /\ Latest(x)' /\ talk'[x].context = c
                           /\ chats'[c] = [session |-> talk'[x].session, used |-> talk'[x].at,
                                           write |-> talk'[x].write, caller |-> talk'[x].caller]
      BY ONLY <3>3
    <3> QED
      BY <2>1, <3>4 DEF Written
  <2> QED
    BY <2>1, <2>2, <2>3
<1>7. ASSUME NEW u \in Tasks PROVE Talked(u)'
  <2>1. Talked(u)
    BY <1>1
  <2>2. talk'[u].verdict # Nothing => talk'[u].stage = "done"
    BY <1>2, <2>1 DEF Talked
  <2> QED
    BY <1>3, <2>1, <2>2 DEF Talked
<1>8. ASSUME NEW u \in Tasks, Latest(u) PROVE Missing(u)'
  <2> DEFINE c == talk[u].context
  <2>1. c \in Rooms /\ Missing(u) /\ Written(c)
    BY <1>1, <1>8 DEF Talked, Latest, ChatInv
  <2>2. CASE UNCHANGED chats /\ (r.verdict = "failed" => talk[t].verdict = "failed")
    <3>1. talk'[u].verdict = "failed" <=> talk[u].verdict = "failed"
      BY <1>2, <2>2
    <3> QED
      BY <1>3, <1>4, <2>1, <2>2, <3>1 DEF Missing
  <2>3. CASE r.verdict = "failed" /\ chats' = Chats!RolledBack(t)
    <3>1. CASE u = t
      <4>1. talk'[u].verdict = "failed"
        BY <1>2, <2>3, <3>1
      <4>2. ASSUME ~talk[t].resume, chats[c] # Nothing
            PROVE  chats'[c] = Nothing
        <5>1. PICK w \in Tasks : /\ Latest(w) /\ talk[w].context = c
                                 /\ chats[c] = [session |-> talk[w].session, used |-> talk[w].at,
                                                write |-> talk[w].write, caller |-> talk[w].caller]
          BY <2>1, <4>2 DEF Written
        <5>2. talk[w].write = talk[t].write /\ Talking(w)
          BY <1>1, <1>8, <3>1, <5>1 DEF Latest, ChatTypes, TalkStates
        <5>3. w = t
          BY <1>1, <5>2 DEF WritesDiffer
        <5>4. chats[c].session = talk[t].session /\ chats[c].write = talk[t].write
          BY <5>1, <5>3
        <5>5. chats' = [chats EXCEPT ![c] = Nothing]
          BY <2>3, <3>1, <4>2, <5>4 DEF Chats!RolledBack
        <5> QED
          BY <1>5, <2>1, <5>5
      <4>3. chats[c] = Nothing => chats'[c] = Nothing
        BY <1>6, <2>1
      <4> QED
        BY <1>3, <3>1, <4>1, <4>2, <4>3 DEF Missing
    <3>2. CASE u # t
      <4>1. chats'[c] = chats[c]
        <5>1. CASE chats'[c] # chats[c]
          <6>1. c = talk[t].context /\ chats[c] # Nothing /\ chats[c].write = talk[t].write
            BY <1>5, <2>1, <2>3, <5>1 DEF Chats!RolledBack
          <6>2. PICK w \in Tasks : /\ Latest(w) /\ talk[w].context = c
                                   /\ chats[c] = [session |-> talk[w].session, used |-> talk[w].at,
                                                  write |-> talk[w].write, caller |-> talk[w].caller]
            BY <2>1, <6>1 DEF Written
          <6>3. talk[w].write = talk[t].write /\ talk[w].write = talk[u].write /\ Talking(w) /\ Talking(u)
            BY <1>1, <1>8, <6>1, <6>2 DEF Latest, ChatTypes, TalkStates
          <6>4. w = t /\ w = u
            BY <1>1, <6>3 DEF WritesDiffer
          <6> QED
            BY <3>2, <6>4
        <5> QED
          BY <5>1
      <4>2. talk'[u].verdict = talk[u].verdict
        BY <1>2, <3>2
      <4> QED
        BY <1>3, <1>4, <2>1, <4>1, <4>2 DEF Missing
    <3> QED
      BY <3>1, <3>2
  <2> QED
    BY <2>2, <2>3
<1>9. ASSUME NEW u \in Tasks PROVE Missing(u)'
  BY <1>4, <1>8 DEF Missing
<1>10. ChatTypes'
  <2>1. chats' = [c \in Rooms |-> chats'[c]]
    BY <1>1 DEF ChatTypes, Chats!RolledBack
  <2> QED
    BY <1>1, <1>2, <2>1 DEF ChatTypes
<1>11. WritesDiffer'
  BY <1>1, <1>3 DEF WritesDiffer
<1> QED
  BY <1>6, <1>7, <1>9, <1>10, <1>11 DEF ChatInv

(* A task binds its session: it is the last writer of its context.            *)
LEMMA ChatBinds ==
  ASSUME Chats!ConstantsOK, ChatInv, NEW t \in Tasks, talk[t].stage = "new",
         NEW c \in Rooms, NEW k \in Callers, Chats!Bind(t, c, k)
  PROVE  ChatInv'
<1> DEFINE existing == Chats!Existing(c, k)
           s == IF existing = Nothing THEN t ELSE existing.session
           r == [talk[t] EXCEPT !.stage = "starting", !.context = c, !.caller = k, !.session = s,
                                !.resume = existing # Nothing, !.write = counter + 1, !.at = now]
           e == [session |-> s, used |-> now, write |-> counter + 1, caller |-> k]
<1>1. ChatTypes /\ WritesDiffer /\ \A u \in Tasks : Talked(u) /\ Missing(u)
  BY DEF ChatInv
<1>2. /\ counter' = counter + 1 /\ UNCHANGED now
      /\ chats' = [Chats!Kept EXCEPT ![c] = e] /\ talk' = [talk EXCEPT ![t] = r]
  BY <1>1 DEF Chats!Bind, ChatTypes, TalkStates
<1>3. ASSUME NEW d \in Rooms, Chats!Kept[d] # Nothing
      PROVE  /\ Chats!Kept[d] = chats[d] /\ chats[d] # Nothing
  BY <1>3 DEF Chats!Kept
<1>4. ASSUME existing # Nothing
      PROVE  /\ s \in Tasks /\ s # t /\ Talking(s) /\ talk[s].session = s
             /\ talk[s].context = c /\ talk[s].caller = k
  <2>1. existing = chats[c] /\ chats[c] # Nothing /\ chats[c].caller = k
    BY <1>3, <1>4 DEF Chats!Existing
  <2>2. PICK w \in Tasks : /\ Latest(w) /\ talk[w].context = c
                           /\ chats[c] = [session |-> talk[w].session, used |-> talk[w].at,
                                          write |-> talk[w].write, caller |-> talk[w].caller]
    BY <2>1 DEF ChatInv, Written
  <2>3. s = talk[w].session /\ talk[w].caller = k /\ Talking(w) /\ Talked(w)
    BY <1>1, <1>4, <2>1, <2>2 DEF Latest
  <2>4. /\ s \in Tasks /\ Talking(s) /\ talk[s].session = s
        /\ talk[s].context = c /\ talk[s].caller = k
    BY <2>2, <2>3 DEF Talked
  <2> QED
    BY <2>4 DEF Talking
<1>5. s \in Tasks
  BY <1>4
<1>6. r \in TalkStates
  <2>1. talk[t] \in TalkStates /\ counter + 1 \in Nat /\ now \in Nat
    BY <1>1 DEF ChatTypes
  <2>2. s \in Tasks \cup {Nothing} /\ (existing # Nothing) \in BOOLEAN
    BY <1>5
  <2> HIDE DEF s, existing
  <2> QED
    BY <2>1, <2>2 DEF TalkStates
<1>7. /\ r.stage = "starting" /\ r.context = c /\ r.caller = k /\ r.session = s
      /\ r.write = counter + 1 /\ r.at = now /\ r.verdict = talk[t].verdict
      /\ (~r.resume => s = t)
  <2>1. talk[t] \in TalkStates
    BY <1>1 DEF ChatTypes
  <2>2. r.resume <=> existing # Nothing
    BY <2>1 DEF TalkStates
  <2> QED
    BY <2>1, <2>2 DEF TalkStates
<1>8. talk[t].verdict = Nothing
  BY <1>1 DEF Talked
<1>9. e # Nothing /\ e.session = s /\ e.used = now /\ e.write = counter + 1 /\ e.caller = k
  <2>1. e \in [session : Tasks, used : Nat, write : Nat, caller : Callers]
    BY <1>1, <1>5 DEF ChatTypes
  <2> QED
    BY <2>1 DEF Chats!ConstantsOK
<1> HIDE DEF r, s, existing
<1>10. /\ talk'[t] = r /\ \A u \in Tasks : u # t => talk'[u] = talk[u]
       /\ talk' \in [Tasks -> TalkStates]
  BY <1>1, <1>2, <1>6 DEF ChatTypes
<1>11. chats'[c] = e /\ \A d \in Rooms : d # c => chats'[d] = Chats!Kept[d]
  BY <1>2 DEF Chats!Kept
<1>12. Talking(t)' /\ ~Talking(t) /\ \A u \in Tasks : u # t => (Talking(u)' <=> Talking(u))
  BY <1>7, <1>10 DEF Talking
<1>13. \A u \in Tasks : Talking(u) => talk[u].write <= counter /\ talk[u].write \in Nat /\ counter \in Nat
  BY <1>1 DEF Talked, ChatTypes, TalkStates
<1>14. ChatTypes'
  <2>1. chats' = [d \in Rooms |-> chats'[d]]
    BY <1>2 DEF Chats!Kept
  <2> QED
    BY <1>1, <1>2, <1>10, <2>1 DEF ChatTypes
<1>15. WritesDiffer'
  <2> SUFFICES ASSUME NEW u \in Tasks, NEW w \in Tasks, Talking(u)', Talking(w)',
                      talk'[u].write = talk'[w].write
               PROVE  u = w
    BY DEF WritesDiffer
  <2>1. CASE u = t /\ w # t
    BY <2>1, <1>7, <1>10, <1>12, <1>13
  <2>2. CASE u # t /\ w = t
    BY <2>2, <1>7, <1>10, <1>12, <1>13
  <2>3. CASE u # t /\ w # t
    BY <2>3, <1>1, <1>10, <1>12 DEF WritesDiffer
  <2> QED
    BY <2>1, <2>2, <2>3
<1>16. ASSUME NEW u \in Tasks PROVE Talked(u)'
  <2>1. CASE u = t
    <3>1. /\ s \in Tasks /\ talk'[s].stage # "new" /\ talk'[s].session = s
          /\ talk'[s].context = c /\ talk'[s].caller = k
      <4>1. CASE existing = Nothing
        <5>1. s = t
          BY <4>1 DEF s
        <5> QED
          BY <5>1, <1>7, <1>10, <1>12
      <4>2. CASE existing # Nothing
        BY <4>2, <1>4, <1>10 DEF Talking
      <4> QED
        BY <4>1, <4>2
    <3>2. talk'[t] = r /\ c # Nothing /\ counter' = counter + 1 /\ now' = now /\ counter \in Nat /\ now \in Nat
      BY <1>1, <1>2, <1>10 DEF ChatTypes, Chats!ConstantsOK
    <3>3. /\ talk'[t].stage = "starting" /\ talk'[t].context = c /\ talk'[t].caller = k /\ talk'[t].session = s
          /\ talk'[t].write = counter + 1 /\ talk'[t].at = now /\ talk'[t].verdict = Nothing
      BY <3>2, <1>7, <1>8
    <3>4. talk'[t].write <= counter' /\ talk'[t].at <= now'
      BY <3>2, <3>3
    <3> QED
      BY <2>1, <3>1, <3>2, <3>3, <3>4 DEF Talked, Talking
  <2>2. CASE u # t
    <3>1. talk'[u] = talk[u] /\ (Talking(u)' <=> Talking(u)) /\ Talked(u)
      BY <2>2, <1>1, <1>10, <1>12
    <3>2. Talking(u) => /\ talk[u].session # t /\ talk[u].session \in Tasks
                        /\ talk'[talk[u].session] = talk[talk[u].session] /\ Talking(talk[u].session)'
      BY <3>1, <1>10, <1>12 DEF Talked
    <3>3. talk[u].write <= counter /\ talk[u].write \in Nat => talk[u].write <= counter + 1
      BY <1>1 DEF ChatTypes
    <3> QED
      BY <3>1, <3>2, <3>3, <1>2, <1>13 DEF Talked
  <2> QED
    BY <2>1, <2>2
<1>17. Latest(t)'
  <2> SUFFICES ASSUME NEW u \in Tasks, talk'[u].context = c PROVE talk'[u].write <= counter + 1
    BY <1>7, <1>10, <1>12 DEF Latest
  <2>1. CASE u = t
    BY <2>1, <1>1, <1>7, <1>10 DEF ChatTypes
  <2>2. CASE u # t
    <3>1. Talking(u)
      BY <2>2, <1>1, <1>10 DEF Talked, Chats!ConstantsOK
    <3> QED
      BY <2>2, <3>1, <1>10, <1>13
  <2> QED
    BY <2>1, <2>2
<1>18. ASSUME NEW u \in Tasks, u # t
       PROVE  Latest(u)' <=> (Latest(u) /\ talk[u].context # c)
  <2>1. talk'[u] = talk[u] /\ (Talking(u)' <=> Talking(u))
    BY <1>10, <1>12, <1>18
  <2>2. ASSUME Latest(u)' PROVE Latest(u) /\ talk[u].context # c
    <3>1. talk[u].context # c
      <4>1. CASE talk[u].context = c
        <5>1. talk'[t].write <= talk'[u].write
          BY <1>7, <1>10, <2>1, <2>2, <4>1 DEF Latest
        <5> QED
          BY <5>1, <2>1, <2>2, <1>7, <1>10, <1>13 DEF Latest
      <4> QED
        BY <4>1
    <3>2. \A w \in Tasks : talk[w].context = talk[u].context => talk[w].write <= talk[u].write
      <4> SUFFICES ASSUME NEW w \in Tasks, talk[w].context = talk[u].context PROVE talk[w].write <= talk[u].write
        OBVIOUS
      <4>1. w # t
        BY <1>1, <1>12, <2>1, <2>2 DEF Latest, Talked
      <4> QED
        BY <4>1, <1>10, <2>1, <2>2 DEF Latest
    <3> QED
      BY <2>1, <2>2, <3>1, <3>2 DEF Latest
  <2>3. ASSUME Latest(u), talk[u].context # c PROVE Latest(u)'
    <3> SUFFICES ASSUME NEW w \in Tasks, talk'[w].context = talk[u].context PROVE talk'[w].write <= talk[u].write
      BY <2>1, <2>3 DEF Latest
    <3>1. w # t
      BY <2>3, <1>7, <1>10
    <3> QED
      BY <2>3, <3>1, <1>10 DEF Latest
  <2> QED
    BY <2>2, <2>3
<1>19. ASSUME NEW d \in Rooms PROVE Written(d)'
  <2>1. CASE d = c
    BY <2>1, <1>7, <1>10, <1>11, <1>17 DEF Written
  <2>2. CASE d # c /\ chats'[d] # Nothing
    <3>1. chats'[d] = chats[d] /\ chats[d] # Nothing
      BY <2>2, <1>3, <1>11
    <3>2. PICK w \in Tasks : /\ Latest(w) /\ talk[w].context = d
                             /\ chats[d] = [session |-> talk[w].session, used |-> talk[w].at,
                                            write |-> talk[w].write, caller |-> talk[w].caller]
      BY <3>1 DEF ChatInv, Written
    <3>3. w # t /\ Latest(w)' /\ talk'[w] = talk[w]
      BY <2>2, <3>2, <1>10, <1>12, <1>18 DEF Latest
    <3>4. Latest(w)' /\ talk'[w].context = d
          /\ chats'[d] = [session |-> talk'[w].session, used |-> talk'[w].at,
                          write |-> talk'[w].write, caller |-> talk'[w].caller]
      BY <3>1, <3>2, <3>3
    <3> QED
      BY <3>4 DEF Written
  <2>3. CASE chats'[d] = Nothing
    BY <2>3 DEF Written
  <2> QED
    BY <2>1, <2>2, <2>3
<1>20. ASSUME NEW u \in Tasks, Latest(u)' PROVE Missing(u)'
  <2>1. CASE u = t
    <3>1. chats'[talk'[t].context] # Nothing /\ talk'[t].verdict = Nothing
      BY <1>7, <1>8, <1>9, <1>10, <1>11
    <3> QED
      BY <2>1, <3>1 DEF Missing, Chats!ConstantsOK
  <2>2. CASE u # t
    <3> DEFINE d == talk[u].context
    <3>1. Latest(u) /\ d # c /\ talk'[u] = talk[u] /\ d \in Rooms /\ Missing(u)
      BY <2>2, <1>1, <1>10, <1>18, <1>20 DEF Latest, Talked
    <3>2. chats'[d] = Chats!Kept[d]
      BY <3>1, <1>11
    <3>3. CASE chats[d] = Nothing
      <4>1. chats'[d] = Nothing
        BY <3>1, <3>2, <3>3 DEF Chats!Kept
      <4>2. \A w \in Tasks : Talking(w) => Talking(w)' /\ talk'[w] = talk[w]
        BY <1>10, <1>12
      <4> QED
        BY <3>1, <3>3, <4>1, <4>2 DEF Missing
    <3>4. CASE chats[d] # Nothing
      <4>1. ~(~talk[u].resume /\ talk[u].verdict = "failed")
        BY <3>1, <3>4 DEF Missing
      <4>2. CASE chats'[d] # Nothing
        BY <3>1, <4>1, <4>2 DEF Missing
      <4>3. CASE chats'[d] = Nothing
        <5>1. now - chats[d].used > Ttl
          BY <3>1, <3>2, <3>4, <4>3 DEF Chats!Kept
        <5>2. PICK w \in Tasks : /\ Latest(w) /\ talk[w].context = d
                                 /\ chats[d] = [session |-> talk[w].session, used |-> talk[w].at,
                                                write |-> talk[w].write, caller |-> talk[w].caller]
          BY <3>1, <3>4 DEF ChatInv, Written
        <5>3. talk[w].write = talk[u].write /\ Talking(w) /\ Talking(u)
          BY <1>1, <3>1, <5>2 DEF Latest, ChatTypes, TalkStates
        <5>4. w = u
          BY <1>1, <5>3 DEF WritesDiffer
        <5>5. now - talk[u].at > Ttl /\ now \in Nat /\ talk[u].at \in Nat /\ Ttl \in Nat
          BY <1>1, <5>1, <5>2, <5>4 DEF ChatTypes, TalkStates, Chats!ConstantsOK
        <5>6. talk'[t].at > talk'[u].at + Ttl
          BY <5>5, <3>1, <1>7, <1>10
        <5> QED
          BY <3>1, <4>1, <5>6, <1>12 DEF Missing
      <4> QED
        BY <4>2, <4>3
    <3> QED
      BY <3>3, <3>4
  <2> QED
    BY <2>1, <2>2
<1>21. \A u \in Tasks : Missing(u)'
  BY <1>20 DEF Missing
<1> QED
  BY <1>14, <1>15, <1>16, <1>19, <1>21 DEF ChatInv

(* The steps after it.                                                        *)
LEMMA ChatGoesOn ==
  ASSUME Chats!ConstantsOK, ChatInv, NEW t \in Tasks, talk[t].stage \in {"starting", "running"},
         NEW g \in {"starting", "running", "done"}, NEW a \in BOOLEAN,
         NEW v \in {Nothing, "completed", "failed", "canceled"},
         talk' = [talk EXCEPT ![t] = [talk[t] EXCEPT !.stage = g, !.aborted = a, !.verdict = v]],
         v # Nothing => g = "done",
         UNCHANGED <<now, counter>>,
         (UNCHANGED chats /\ v # "failed") \/ (v = "failed" /\ chats' = Chats!RolledBack(t))
  PROVE  ChatInv'
<1> DEFINE r == [talk[t] EXCEPT !.stage = g, !.aborted = a, !.verdict = v]
<1>1. talk[t] \in TalkStates /\ talk[t].verdict = Nothing /\ Talking(t)
  BY DEF ChatInv, ChatTypes, Talked, Talking
<1>2. r \in TalkStates
  BY <1>1 DEF TalkStates
<1>3. /\ r.stage = g /\ r.verdict = v /\ r.context = talk[t].context /\ r.caller = talk[t].caller
      /\ r.session = talk[t].session /\ r.resume = talk[t].resume /\ r.write = talk[t].write /\ r.at = talk[t].at
  BY <1>1 DEF TalkStates
<1>4. talk[t].verdict # "failed"
  BY <1>1 DEF Chats!ConstantsOK
<1> HIDE DEF r
<1>5. talk' = [talk EXCEPT ![t] = r]
  BY DEF r
<1> QED
  BY <1>1, <1>2, <1>3, <1>4, <1>5, ChatRests

LEMMA ChatStays ==
  ASSUME Chats!ConstantsOK, ChatInv, [Chats!Next]_Chats!vars
  PROVE  ChatInv'
<1>1. ChatTypes /\ Nothing \notin {"completed", "failed", "canceled"}
      /\ \A t \in Tasks : Talked(t) /\ talk[t] \in TalkStates
  BY DEF ChatInv, ChatTypes, Chats!ConstantsOK
<1>2. CASE UNCHANGED <<counter, chats, talk>> /\ (UNCHANGED now \/ now' = now + 1)
  <2>1. ChatTypes' /\ WritesDiffer'
    BY <1>2 DEF ChatInv, ChatTypes, WritesDiffer, Talking
  <2>2. ASSUME NEW t \in Tasks PROVE Talked(t)'
    <3>1. Talked(t) /\ talk[t].at \in Nat /\ now \in Nat
      BY <1>1 DEF ChatTypes, TalkStates
    <3>2. talk[t].at <= now => talk[t].at <= now'
      BY <1>2, <3>1
    <3> QED
      BY <1>2, <3>1, <3>2 DEF Talked, Talking
  <2>3. ASSUME NEW t \in Tasks PROVE Missing(t)'
    BY <1>2 DEF ChatInv, Missing, Latest, Talking
  <2>4. ASSUME NEW c \in Rooms PROVE Written(c)'
    BY <1>2 DEF ChatInv, Written, Latest, Talking
  <2> QED
    BY <2>1, <2>2, <2>3, <2>4 DEF ChatInv
<1>3. ASSUME NEW t \in Tasks, Chats!Start(t) PROVE ChatInv'
  BY <1>3, ChatBinds DEF Chats!Start
<1>4. ASSUME NEW t \in Tasks,
             Chats!Spawn(t) \/ Chats!Fail(t) \/ Chats!Complete(t) \/ Chats!Cancel(t) \/ Chats!Abort(t)
      PROVE  ChatInv'
  <2>1. talk[t].stage \in {"starting", "running"} /\ UNCHANGED <<now, counter>>
    BY <1>4 DEF Chats!Spawn, Chats!Fail, Chats!Complete, Chats!Cancel, Chats!Abort, Chats!Busy
  <2>2. talk[t].verdict = Nothing /\ talk[t].aborted \in BOOLEAN
    BY <1>1, <2>1 DEF Talked, TalkStates
  <2>3. \E g \in {"starting", "running", "done"}, a \in BOOLEAN, v \in {Nothing, "completed", "failed", "canceled"} :
          /\ talk' = [talk EXCEPT ![t] = [talk[t] EXCEPT !.stage = g, !.aborted = a, !.verdict = v]]
          /\ v # Nothing => g = "done"
          /\ (UNCHANGED chats /\ v # "failed") \/ (v = "failed" /\ chats' = Chats!RolledBack(t))
    <3> DEFINE As(g, a, v) == [talk EXCEPT ![t] = [talk[t] EXCEPT !.stage = g, !.aborted = a, !.verdict = v]]
    <3>1. CASE Chats!Spawn(t)
      <4>1. talk' = As("running", talk[t].aborted, Nothing) /\ UNCHANGED chats
        BY <1>1, <2>2, <3>1 DEF Chats!Spawn, TalkStates, ChatTypes
      <4> QED
        BY <1>1, <2>2, <4>1
    <3>2. CASE Chats!Fail(t)
      <4>1. talk' = As("done", talk[t].aborted, "failed") /\ chats' = Chats!RolledBack(t)
        BY <1>1, <2>2, <3>2 DEF Chats!Fail, TalkStates, ChatTypes
      <4> QED
        BY <1>1, <2>2, <4>1
    <3>3. CASE Chats!Complete(t)
      <4>1. talk' = As("done", talk[t].aborted, "completed") /\ UNCHANGED chats
        BY <1>1, <2>2, <3>3 DEF Chats!Complete, TalkStates, ChatTypes
      <4> QED
        BY <1>1, <2>2, <4>1
    <3>4. CASE Chats!Cancel(t)
      <4>1. talk' = As("done", talk[t].aborted, "canceled") /\ UNCHANGED chats
        BY <1>1, <2>2, <3>4 DEF Chats!Cancel, TalkStates, ChatTypes
      <4> QED
        BY <1>1, <2>2, <4>1
    <3>5. CASE Chats!Abort(t)
      <4>1. talk' = As(talk[t].stage, TRUE, Nothing) /\ UNCHANGED chats
        BY <1>1, <2>2, <3>5 DEF Chats!Abort, TalkStates, ChatTypes
      <4> QED
        BY <1>1, <2>1, <2>2, <4>1
    <3> QED
      BY <1>4, <3>1, <3>2, <3>3, <3>4, <3>5
  <2> QED
    BY <2>1, <2>3, ChatGoesOn
<1>5. ASSUME NEW t \in Tasks, Chats!Persist(t) PROVE ChatInv'
  BY <1>2, <1>5 DEF Chats!Persist
<1>6. CASE Chats!Tick \/ UNCHANGED Chats!vars
  BY <1>2, <1>6 DEF Chats!Tick, Chats!vars
<1> QED
  BY <1>3, <1>4, <1>5, <1>6 DEF Chats!Next

ChatGood == Chats!OwnSession /\ Chats!RefreshedStays /\ Chats!FailedIsForgotten

LEMMA ChatIsGood ==
  ASSUME Chats!ConstantsOK, ChatInv
  PROVE  ChatGood
<1>1. ChatTypes /\ WritesDiffer /\ \A t \in Tasks : Talked(t) /\ Missing(t)
  BY DEF ChatInv
<1>2. \A t \in Tasks : (Chats!Bound(t) <=> Talking(t)) /\ (Chats!LastWriter(t) <=> Latest(t))
  BY <1>1 DEF Chats!Bound, Chats!LastWriter, Latest, Talked
<1>3. Chats!OwnSession
  BY <1>1, <1>2 DEF Chats!OwnSession, Talked
<1>4. ASSUME NEW t \in Tasks, Latest(t), Chats!Busy(t) \/ talk[t].verdict = "completed"
      PROVE  LET e == chats[talk[t].context] IN
             IF e = Nothing THEN \E u \in Tasks : Chats!Bound(u) /\ talk[u].at > talk[t].at + Ttl
             ELSE e.session = talk[t].session /\ e.write = talk[t].write
  <2> DEFINE c == talk[t].context
  <2>1. c \in Rooms /\ Written(c) /\ Missing(t) /\ talk[t].verdict # "failed"
    BY <1>1, <1>4 DEF ChatInv, Latest, Talked, Chats!Busy, Chats!ConstantsOK
  <2>2. CASE chats[c] = Nothing
    BY <1>2, <1>4, <2>1, <2>2 DEF Missing
  <2>3. CASE chats[c] # Nothing
    <3>1. PICK w \in Tasks : /\ Latest(w) /\ talk[w].context = c
                             /\ chats[c] = [session |-> talk[w].session, used |-> talk[w].at,
                                            write |-> talk[w].write, caller |-> talk[w].caller]
      BY <2>1, <2>3 DEF Written
    <3>2. talk[w].write = talk[t].write /\ Talking(w) /\ Talking(t)
      BY <1>1, <1>4, <3>1 DEF Latest, ChatTypes, TalkStates
    <3>3. w = t
      BY <1>1, <3>2 DEF WritesDiffer
    <3> QED
      BY <2>3, <3>1, <3>3
  <2> QED
    BY <2>2, <2>3
<1>5. Chats!RefreshedStays
  BY <1>2, <1>4 DEF Chats!RefreshedStays
<1>6. Chats!FailedIsForgotten
  BY <1>1, <1>2 DEF Chats!FailedIsForgotten, Missing
<1> QED
  BY <1>3, <1>5, <1>6 DEF ChatGood

ChatHolds == Chats!ConstantsOK /\ ChatInv

(* Claude's sessions stay within ChatInv.                                     *)
THEOREM ChatInvariant == Chats!ConstantsOK /\ Chats!Spec => []ChatHolds
<1>1. Chats!ConstantsOK /\ Chats!Init => ChatHolds
  BY ChatStarts DEF ChatHolds
<1>2. ChatHolds /\ [Chats!Next]_Chats!vars => ChatHolds'
  BY ChatStays DEF ChatHolds, Chats!ConstantsOK
<1> QED
  BY <1>1, <1>2, PTL DEF Chats!Spec

(* Two tasks of a context never have processes that write one session; a      *)
(* session is of one caller's conversation, and is resumed as long as it is   *)
(* good; over an app-server what a turn asks for goes to the task that works  *)
(* on its thread, and an answered task says nothing more.  The three share no *)
(* variable.                                                                  *)
THEOREM ConversationsStayOwn ==
  (Codex!ConstantsOK /\ Codex!Spec) /\ (Chats!ConstantsOK /\ Chats!Spec)
    /\ (Threads!ConstantsOK /\ Threads!Spec) => ConversationsAreOwn
<1>1. ChatHolds => ChatGood
  BY ChatIsGood DEF ChatHolds
<1>2. ThreadHolds => ThreadGood
  BY ThreadIsGood DEF ThreadHolds
<1>3. ThreadHolds /\ [Threads!Next]_Threads!vars => AnsweredForGood /\ OnlyLivePoked /\ CallStopped
  BY ThreadActs DEF ThreadHolds
<1>4. Chats!ConstantsOK /\ Chats!Spec => []ChatGood
  BY <1>1, ChatInvariant, PTL
<1>5. Threads!ConstantsOK /\ Threads!Spec
        => []ThreadGood /\ [][AnsweredForGood /\ OnlyLivePoked /\ CallStopped]_Threads!vars
  BY <1>2, <1>3, ThreadInvariant, PTL DEF Threads!Spec
<1> QED
  BY <1>4, <1>5, ProcessesAlone, PTL DEF ConversationsAreOwn, ChatGood, ThreadGood, AnsweredForGood,
     OnlyLivePoked, CallStopped, Threads!AnsweredOnce, Threads!NoDeadPoke, Threads!StoppedByCallCompletes
=============================================================================
