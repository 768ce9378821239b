-------------------------- MODULE FederatedAccess_proofs --------------------------
(***************************************************************************)
(* Federated access for every number of grants, callers, assertions,       *)
(* exchanges, requests, tasks and removals.  Three arguments: a token and  *)
(* the tasks under a grant end in the transaction that removes it; what    *)
(* was admitted under a grant carries how often it had been removed; and   *)
(* an assertion that was used up is remembered, or can no longer be used.  *)
(***************************************************************************)
EXTENDS FederatedAccess, Tables, Integers, FiniteSetTheorems, SequenceTheorems,
        WellFoundedInduction, TLAPS

USE DEF vars, Policy, Exchanging

ExchangeStates ==
  [pc : {"new", "failed"} \cup Running \cup Consumed,
   client : Clients \cup {Nothing}, subject : Subjects \cup {Nothing},
   seen : SUBSET Callers, key : Grants \cup {Nothing}, bound : TaskIds \cup {Nothing},
   refreshed : BOOLEAN]

TokenRows ==
  [status : {"live", "over"}, key : Grants, bound : TaskIds \cup {Nothing},
   scopes : ScopeSets, at : Nat]

TaskRows == [owner : Callers \cup {Public}, revoked : BOOLEAN, under : Nat, since : Nat]

RequestStates ==
  [pc : {"none", "admitted", "loaded", "allowed"}, shown : Shows,
   by : Callers \cup {Public, Nothing}, bound : TaskIds \cup {Nothing},
   scopes : {{}} \cup ScopeSets, kind : Kinds, task : TaskIds \cup {Nothing}, at : Nat]

Types ==
  /\ policy \in SUBSET Callers /\ cached \in SUBSET Callers
  /\ removals \in [Grants -> 0..MaxRemovals]
  /\ lapsed \in SUBSET Assertions /\ replays \in SUBSET Assertions
  /\ exchange \in [Exchanges -> ExchangeStates]
  /\ token \in [Exchanges -> TokenRows \cup {Nothing}]
  /\ task \in [TaskIds -> TaskRows \cup {Nothing}]
  /\ request \in [Requests -> RequestStates]

(* An exchange that has begun holds two assertions, one that was matched holds  *)
(* the grant, and a token is that of the exchange that issued it.              *)
Holds(e) ==
  /\ e.pc \in Running \cup Consumed => e.client \in Clients /\ e.subject \in Subjects
  /\ e.pc \in {"matched", "checked"} \cup Consumed => e.key \in Grants

Keyed ==
  \A x \in Exchanges :
    /\ Holds(exchange[x])
    /\ token[x] # Nothing => exchange[x].pc = "issued" /\ token[x].key = exchange[x].key

(* A task that is still open has seen every removal of its grant so far. *)
Stamped ==
  \A t \in TaskIds : task[t] # Nothing =>
    /\ task[t].revoked => task[t].owner \in Grants
    /\ task[t].owner \in Grants /\ ~task[t].revoked => task[t].since = removals[task[t].owner]

(* Who a request is taken for, and what the task it is allowed on is to it. *)
Fits(q) ==
  /\ q.pc = "none" => q.shown = Nothing
  /\ q.pc # "none" =>
       /\ q.by \in Callers \cup {Public}
       /\ q.shown \in Exchanges => q.by \in Grants
       /\ q.by \notin Grants => q.bound = Nothing
       /\ q.by \in Grants => q.at <= removals[q.by]
  /\ q.pc \in {"loaded", "allowed"} /\ q.task # Nothing =>
       /\ task[q.task] # Nothing /\ task[q.task].owner = q.by
       /\ q.bound \in {Nothing, q.task}
       /\ q.by \in Grants => task[q.task].since >= q.at

IInv ==
  Types /\ Keyed /\ Stamped /\ TokensFollowGrants /\ \A r \in Requests : Fits(request[r])

(* Nothing is there at first. *)
THEOREM InitInvariant == Init => IInv
<1> SUFFICES ASSUME Init PROVE IInv
  OBVIOUS
<1>1. Types
  <2>1. NoExchange \in ExchangeStates
    BY DEF NoExchange, ExchangeStates
  <2>2. NoRequest \in RequestStates
    BY DEF NoRequest, RequestStates, Shows, Kinds
  <2>3. policy \in SUBSET Callers /\ cached \in SUBSET Callers
    BY DEF Init, Callers
  <2>4. 0 \in 0..MaxRemovals
    BY ConstantsOK
  <2> QED
    BY <2>1, <2>2, <2>3, <2>4 DEF Init, Types
<1>2. Keyed /\ Stamped /\ TokensFollowGrants
  BY DEF Init, Keyed, Holds, Stamped, TokensFollowGrants, NoExchange, Running, Consumed
<1>3. \A r \in Requests : Fits(request[r])
  BY DEF Init, Fits, NoRequest
<1> QED
  BY <1>1, <1>2, <1>3 DEF IInv

-----------------------------------------------------------------------------
(* The token endpoint. *)

(* A step of an exchange that issues nothing: it goes on with a grant, or fails. *)
LEMMA Advances ==
  ASSUME IInv, NEW x \in Exchanges, NEW e \in ExchangeStates,
         exchange' = [exchange EXCEPT ![x] = e], exchange[x].pc # "issued",
         Holds(e),
         lapsed' \in SUBSET Assertions, replays' \in SUBSET Assertions,
         UNCHANGED <<policy, removals, cached, token, task, request>>
  PROVE  IInv'
<1>1. Types'
  BY DEF IInv, Types
<1>2. Keyed'
  BY DEF IInv, Types, Keyed
<1>3. Stamped' /\ TokensFollowGrants'
  BY DEF IInv, Stamped, TokensFollowGrants
<1>4. (\A r \in Requests : Fits(request[r]))'
  BY DEF IInv, Fits
<1> QED
  BY <1>1, <1>2, <1>3, <1>4 DEF IInv

(* An exchange that fails forgets everything. *)
LEMMA Failed ==
  /\ [NoExchange EXCEPT !.pc = "failed"] \in ExchangeStates
  /\ Holds([NoExchange EXCEPT !.pc = "failed"])
BY DEF NoExchange, ExchangeStates, Holds, Running, Consumed

(* An exchange that goes on to the next place keeps what it holds. *)
LEMMA GoesOn ==
  ASSUME NEW e \in ExchangeStates, NEW p \in Running \cup Consumed
  PROVE  LET n == [e EXCEPT !.pc = p] IN
           /\ n \in ExchangeStates /\ n.pc = p /\ n.key = e.key
           /\ n.client = e.client /\ n.subject = e.subject
BY DEF ExchangeStates

(* The assertions are read with the policy. *)
LEMMA BeginKeeps ==
  ASSUME IInv, NEW x \in Exchanges, Begin(x)
  PROVE  IInv'
<1>1. PICK c \in Clients, s \in Subjects :
        exchange' = [exchange EXCEPT ![x] =
          [NoExchange EXCEPT !.pc = "read", !.client = c, !.subject = s, !.seen = policy]]
  BY DEF Begin
<1> DEFINE e == [NoExchange EXCEPT !.pc = "read", !.client = c, !.subject = s, !.seen = policy]
<1>2. e \in ExchangeStates /\ Holds(e)
  BY DEF IInv, Types, NoExchange, ExchangeStates, Holds, Running, Consumed
<1>3. exchange[x].pc = "new"
      /\ UNCHANGED <<policy, removals, cached, lapsed, replays, token, task, request>>
  BY DEF Begin
<1>4. lapsed \in SUBSET Assertions /\ replays \in SUBSET Assertions
  BY DEF IInv, Types
<1> HIDE DEF e
<1> QED
  BY <1>1, <1>2, <1>3, <1>4, Advances DEF e

(* The grant an exchange is matched with is one. *)
LEMMA MatchKeeps ==
  ASSUME IInv, NEW x \in Exchanges, Match(x)
  PROVE  IInv'
<1> DEFINE claim == Claim[exchange[x].subject]
<1>1. exchange[x].pc = "read"
      /\ UNCHANGED <<policy, removals, cached, lapsed, replays, token, task, request>>
  BY DEF Match
<1>2. /\ exchange[x] \in ExchangeStates /\ exchange[x].seen \subseteq Callers
      /\ exchange[x].client \in Clients /\ exchange[x].subject \in Subjects
  BY <1>1 DEF IInv, Types, ExchangeStates, Keyed, Holds, Running
<1>3. lapsed \in SUBSET Assertions /\ replays \in SUBSET Assertions
  BY DEF IInv, Types
<1>4. claim.grant \in Grants \cup {Nothing} /\ claim.task \in TaskIds \cup {Nothing}
  BY <1>2, ConstantsOK
<1> HIDE DEF claim
<1>5. \/ exchange' = [exchange EXCEPT ![x] = [NoExchange EXCEPT !.pc = "failed"]]
      \/ \E k \in Grants, b \in TaskIds \cup {Nothing} :
           exchange' = [exchange EXCEPT ![x].pc = "matched", ![x].key = k, ![x].bound = b]
  <2>1. CASE Fail(x)
    BY <2>1 DEF Fail
  <2>2. CASE claim.task = Nothing /\ claim.grant \in exchange[x].seen
    <3>1. claim.grant \in Grants
      BY <1>2, <1>4, <2>2, ConstantsOK DEF Callers
    <3>2. exchange' = [exchange EXCEPT ![x].pc = "matched", ![x].key = claim.grant,
                                       ![x].bound = claim.task]
      BY <2>2 DEF Match, claim
    <3> QED
      BY <1>4, <3>1, <3>2
  <2>3. CASE claim.task # Nothing /\ Continues(claim, exchange[x].seen)
    <3>1. task[claim.task].owner \in Grants
      BY <2>3 DEF Continues
    <3>2. exchange' = [exchange EXCEPT ![x].pc = "matched", ![x].key = task[claim.task].owner,
                                       ![x].bound = claim.task]
      BY <2>3 DEF Match, claim
    <3> QED
      BY <1>4, <3>1, <3>2
  <2> QED
    BY <2>1, <2>2, <2>3 DEF Match, claim
<1>6. PICK e \in ExchangeStates : Holds(e) /\ exchange' = [exchange EXCEPT ![x] = e]
  <2>1. CASE exchange' = [exchange EXCEPT ![x] = [NoExchange EXCEPT !.pc = "failed"]]
    BY <2>1, Failed
  <2>2. ASSUME NEW k \in Grants, NEW b \in TaskIds \cup {Nothing},
               exchange' = [exchange EXCEPT ![x].pc = "matched", ![x].key = k, ![x].bound = b]
        PROVE  \E e \in ExchangeStates : Holds(e) /\ exchange' = [exchange EXCEPT ![x] = e]
    <3> DEFINE e == [exchange[x] EXCEPT !.pc = "matched", !.key = k, !.bound = b]
    <3>1. e \in ExchangeStates /\ Holds(e)
      BY <1>2 DEF ExchangeStates, Holds, Running, Consumed
    <3>2. exchange' = [exchange EXCEPT ![x] = e]
      BY <1>2, <2>2 DEF IInv, Types, ExchangeStates
    <3> QED
      BY <3>1, <3>2
  <2> QED
    BY <1>5, <2>1, <2>2
<1> QED
  BY <1>1, <1>3, <1>6, Advances

(* The verification, its failure, and the use of the assertions. *)
LEMMA VerifyKeeps ==
  ASSUME IInv, NEW x \in Exchanges, Verify(x) \/ Error(x) \/ Consume(x)
  PROVE  IInv'
<1>1. exchange[x] \in ExchangeStates /\ Holds(exchange[x])
  BY DEF IInv, Types, Keyed
<1>2. exchange[x].pc \in Running
  BY DEF Verify, Error, Consume, Running
<1>3. UNCHANGED <<policy, removals, cached, lapsed, token, task, request>>
  BY DEF Verify, Error, Consume
<1>4. lapsed' \in SUBSET Assertions /\ replays' \in SUBSET Assertions
  <2>1. {exchange[x].client, exchange[x].subject} \subseteq Assertions
    BY <1>1, <1>2 DEF Holds, Assertions
  <2> QED
    BY <1>3, <2>1 DEF IInv, Types, Verify, Error, Consume
<1>5. PICK e \in ExchangeStates : Holds(e) /\ exchange' = [exchange EXCEPT ![x] = e]
  <2>1. CASE exchange' = [exchange EXCEPT ![x] = [NoExchange EXCEPT !.pc = "failed"]]
    BY <2>1, Failed
  <2>2. CASE exchange[x].pc = "matched" /\ exchange' = [exchange EXCEPT ![x].pc = "checked"]
    <3> DEFINE e == [exchange[x] EXCEPT !.pc = "checked"]
    <3>1. e \in ExchangeStates /\ Holds(e)
      BY <1>1, <2>2, GoesOn DEF Holds, Running
    <3> QED
      BY <2>2, <3>1
  <2>3. CASE exchange' = [exchange EXCEPT ![x].pc = "read", ![x].refreshed = TRUE,
                                          ![x].key = Nothing, ![x].bound = Nothing]
    <3> DEFINE e == [exchange[x] EXCEPT !.pc = "read", !.refreshed = TRUE, !.key = Nothing,
                                        !.bound = Nothing]
    <3>1. e \in ExchangeStates /\ Holds(e)
      BY <1>1, <1>2 DEF ExchangeStates, Holds, Running, Consumed
    <3>2. exchange' = [exchange EXCEPT ![x] = e]
      BY <2>3 DEF IInv, Types, ExchangeStates
    <3> QED
      BY <3>1, <3>2
  <2>4. CASE exchange[x].pc = "checked" /\ Passes(x)
    <3> DEFINE e == [exchange[x] EXCEPT !.pc = "consumed", !.seen = {}, !.refreshed = FALSE]
    <3>1. e \in ExchangeStates /\ Holds(e)
      BY <1>1, <2>4 DEF ExchangeStates, Holds, Running, Consumed
    <3>2. exchange' = [exchange EXCEPT ![x] = e]
      BY <2>4 DEF Passes, IInv, Types, ExchangeStates
    <3> QED
      BY <3>1, <3>2
  <2> QED
    BY <2>1, <2>2, <2>3, <2>4 DEF Verify, Error, Consume, Fail
<1>6. exchange[x].pc # "issued"
  BY <1>2 DEF Running
<1> QED
  BY <1>3, <1>4, <1>5, <1>6, Advances

(* A token is issued under a grant that is in the policy, at its present count. *)
LEMMA IssueKeeps ==
  ASSUME IInv, NEW x \in Exchanges, Issue(x)
  PROVE  IInv'
<1>1. /\ exchange[x] \in ExchangeStates /\ Holds(exchange[x]) /\ exchange[x].pc = "consumed"
      /\ UNCHANGED <<policy, removals, cached, lapsed, replays, task, request>>
  BY DEF IInv, Types, Keyed, Issue
<1>2. exchange[x].key \in Grants /\ exchange[x].bound \in TaskIds \cup {Nothing}
  BY <1>1 DEF Holds, Consumed, ExchangeStates
<1>3. CASE exchange[x].key \in policy
  <2>1. PICK scopes \in ScopeSets : token' = [token EXCEPT ![x] = NewToken(x, scopes)]
    BY <1>3 DEF Issue
  <2> DEFINE n == NewToken(x, scopes)
             e == [exchange[x] EXCEPT !.pc = "issued"]
  <2>2. /\ n \in TokenRows /\ n.key = exchange[x].key
        /\ n.at = removals[exchange[x].key]
    BY <1>2, ConstantsOK DEF NewToken, TokenRows, IInv, Types
  <2>3. /\ e \in ExchangeStates /\ Holds(e) /\ e.pc = "issued" /\ e.key = exchange[x].key
        /\ exchange' = [exchange EXCEPT ![x] = e]
    BY <1>1, <1>3, GoesOn DEF Holds, Issue, Consumed
  <2> HIDE DEF n, e
  <2>4. token' = [token EXCEPT ![x] = n]
    BY <2>1 DEF n
  <2>5. Types'
    BY <1>1, <2>2, <2>3, <2>4 DEF IInv, Types
  <2>6. Keyed'
    BY <1>1, <2>2, <2>3, <2>4 DEF IInv, Types, Keyed
  <2>7. TokensFollowGrants'
    BY <1>1, <1>3, <2>2, <2>4 DEF IInv, Types, TokensFollowGrants
  <2>8. Stamped' /\ (\A r \in Requests : Fits(request[r]))'
    BY <1>1 DEF IInv, Stamped, Fits
  <2> QED
    BY <2>5, <2>6, <2>7, <2>8 DEF IInv
<1>4. CASE exchange[x].key \notin policy
  <2> DEFINE e == [exchange[x] EXCEPT !.pc = "refused"]
  <2>1. e \in ExchangeStates /\ Holds(e)
    BY <1>1, GoesOn DEF Holds, Consumed
  <2>2. exchange' = [exchange EXCEPT ![x] = e] /\ UNCHANGED token
    BY <1>4 DEF Issue
  <2>3. lapsed \in SUBSET Assertions /\ replays \in SUBSET Assertions
    BY DEF IInv, Types
  <2> HIDE DEF e
  <2> QED
    BY <1>1, <2>1, <2>2, <2>3, Advances
<1> QED
  BY <1>3, <1>4

(* Time passes over the assertions. *)
LEMMA AssertionKeeps ==
  ASSUME IInv, NEW a \in Assertions, Lapse(a) \/ SweepReplay(a)
  PROVE  IInv'
<1>1. UNCHANGED <<policy, removals, cached, exchange, token, task, request>>
  BY DEF Lapse, SweepReplay
<1>2. Types'
  BY <1>1 DEF IInv, Types, Lapse, SweepReplay
<1> QED
  BY <1>1, <1>2 DEF IInv, Keyed, Stamped, TokensFollowGrants, Fits

(* A token ends, or its row goes. *)
LEMMA TokenKeeps ==
  ASSUME IInv, NEW x \in Exchanges, End(x) \/ SweepToken(x)
  PROVE  IInv'
<1>1. UNCHANGED <<policy, removals, cached, lapsed, replays, exchange, task, request>>
  BY DEF End, SweepToken
<1>2. PICK n \in TokenRows \cup {Nothing} :
        /\ token' = [token EXCEPT ![x] = n]
        /\ n # Nothing => token[x] # Nothing /\ n.status = "over" /\ n.key = token[x].key
  <2>1. CASE End(x)
    <3>1. token[x] \in TokenRows
      BY <2>1 DEF End, IInv, Types
    <3> DEFINE n == [token[x] EXCEPT !.status = "over"]
    <3>2. n \in TokenRows /\ n.status = "over" /\ n.key = token[x].key
      BY <3>1 DEF TokenRows
    <3>3. token[x] # Nothing /\ token' = [token EXCEPT ![x] = n]
      BY <2>1 DEF End
    <3> QED
      BY <3>2, <3>3
  <2>2. CASE SweepToken(x)
    BY <2>2 DEF SweepToken
  <2> QED
    BY <2>1, <2>2
<1>3. Types'
  BY <1>1, <1>2 DEF IInv, Types
<1>4. Keyed'
  BY <1>1, <1>2 DEF IInv, Types, Keyed
<1>5. TokensFollowGrants'
  BY <1>1, <1>2 DEF IInv, Types, TokensFollowGrants
<1>6. Stamped' /\ (\A r \in Requests : Fits(request[r]))'
  BY <1>1 DEF IInv, Stamped, Fits
<1> QED
  BY <1>3, <1>4, <1>5, <1>6 DEF IInv

-----------------------------------------------------------------------------
(* The owner. *)

(* Adding a caller, removing an ordinary one, and the copy that follows. *)
LEMMA PolicyKeeps ==
  ASSUME IInv,
         \/ \E c \in Callers : Add(c)
         \/ \E c \in Direct : RemoveDirect(c)
         \/ Refresh
  PROVE  IInv'
<1>1. UNCHANGED <<removals, lapsed, replays, exchange, token, task, request>>
  BY DEF Add, RemoveDirect, Refresh
<1>2. /\ policy' \in SUBSET Callers /\ cached' \in SUBSET Callers
      /\ \A g \in Grants : g \in policy => g \in policy'
  BY ConstantsOK DEF IInv, Types, Add, RemoveDirect, Refresh, Cached
<1>3. Types'
  BY <1>1, <1>2 DEF IInv, Types
<1>4. TokensFollowGrants'
  BY <1>1, <1>2 DEF IInv, Types, TokensFollowGrants, TokenRows
<1> QED
  BY <1>1, <1>3, <1>4 DEF IInv, Keyed, Stamped, Fits

(* The removal of a grant ends its tokens and stamps its tasks in one step. *)
LEMMA RemoveKeeps ==
  ASSUME IInv, NEW g \in Grants, Remove(g)
  PROVE  IInv'
<1>0. Types /\ Keyed /\ Stamped /\ TokensFollowGrants /\ \A r \in Requests : Fits(request[r])
  BY DEF IInv
<1>1. /\ policy' = policy \ {g} /\ cached' \in SUBSET Callers
      /\ UNCHANGED <<lapsed, replays, exchange, request>>
  BY <1>0 DEF Remove, Dropped, Cached, Types
<1>2. /\ removals' \in [Grants -> 0..MaxRemovals]
      /\ \A k \in Grants : removals'[k] >= removals[k]
      /\ \A k \in Grants \ {g} : removals'[k] = removals[k]
  BY <1>0, ConstantsOK DEF Remove, Dropped, Types
<1>3. /\ token' \in [Exchanges -> TokenRows \cup {Nothing}]
      /\ \A x \in Exchanges : token'[x] # Nothing =>
           /\ token[x] # Nothing /\ token'[x].key = token[x].key
           /\ token'[x].status = "live" => token'[x] = token[x] /\ token[x].key # g
  <2>1. \A x \in Exchanges :
          \/ token'[x] = Nothing
          \/ /\ token[x] \in TokenRows /\ token[x] # Nothing
             /\ \/ token'[x] = [token[x] EXCEPT !.status = "over"]
                \/ token'[x] = token[x] /\ token[x].key # g
    BY <1>0 DEF Remove, Revoked, Types
  <2>2. \A n \in TokenRows : LET o == [n EXCEPT !.status = "over"] IN
          o \in TokenRows /\ o.status = "over" /\ o.key = n.key
    BY DEF TokenRows
  <2>3. token' = [x \in Exchanges |-> Revoked(g, x)]
    BY DEF Remove
  <2>4. ASSUME NEW x \in Exchanges, token'[x] # Nothing
        PROVE  /\ token[x] # Nothing /\ token'[x] \in TokenRows /\ token'[x].key = token[x].key
               /\ token'[x].status = "live" => token'[x] = token[x] /\ token[x].key # g
    <3>1. CASE token'[x] = [token[x] EXCEPT !.status = "over"] /\ token[x] \in TokenRows
      BY <2>1, <2>2, <2>4, <3>1
    <3>2. CASE token'[x] = token[x] /\ token[x].key # g
      BY <2>1, <2>4, <3>2
    <3> QED
      BY <2>1, <2>4, <3>1, <3>2
  <2> QED
    BY <2>3, <2>4
<1>4. /\ task' \in [TaskIds -> TaskRows \cup {Nothing}]
      /\ \A t \in TaskIds : task[t] # Nothing => task'[t] # Nothing
      /\ \A t \in TaskIds : task'[t] # Nothing =>
           /\ task[t] # Nothing
           /\ task'[t].owner = task[t].owner /\ task'[t].since = task[t].since
           /\ task'[t].revoked = (task[t].revoked \/ task[t].owner = g)
  <2>1. \A n \in TaskRows : LET o == [n EXCEPT !.revoked = TRUE] IN
          o \in TaskRows /\ o.owner = n.owner /\ o.since = n.since /\ o.revoked = TRUE
    BY DEF TaskRows
  <2>2. task' = [t \in TaskIds |->
                   IF task[t] # Nothing /\ task[t].owner = g THEN [task[t] EXCEPT !.revoked = TRUE]
                   ELSE task[t]]
    BY DEF Remove
  <2>3. Nothing \notin TaskRows
    BY ConstantsOK DEF TaskRows, Callers
  <2>4. \A t \in TaskIds : task[t] \in TaskRows \cup {Nothing}
    BY <1>0 DEF Types
  <2>5. \A n \in TaskRows : n.revoked \in BOOLEAN
    BY DEF TaskRows
  <2>6. ASSUME NEW t \in TaskIds, task[t] # Nothing
        PROVE  /\ task'[t] \in TaskRows /\ task'[t] # Nothing
               /\ task'[t].owner = task[t].owner /\ task'[t].since = task[t].since
               /\ task'[t].revoked = (task[t].revoked \/ task[t].owner = g)
    <3>1. CASE task[t].owner = g
      <4>1. task[t] \in TaskRows /\ task'[t] = [task[t] EXCEPT !.revoked = TRUE]
        BY <2>2, <2>4, <2>6, <3>1
      <4>2. /\ task'[t] \in TaskRows /\ task'[t].owner = task[t].owner
            /\ task'[t].since = task[t].since /\ task'[t].revoked = TRUE
        BY <2>1, <4>1
      <4> QED
        BY <2>3, <3>1, <4>2
    <3>2. CASE task[t].owner # g
      BY <2>2, <2>4, <2>5, <2>6, <3>2
    <3> QED
      BY <3>1, <3>2
  <2> QED
    BY <2>2, <2>6
<1>5. Types'
  BY <1>0, <1>1, <1>2, <1>3, <1>4 DEF Types
<1>6. Keyed'
  BY <1>0, <1>1, <1>3 DEF Keyed
<1>7. Stamped'
  <2> SUFFICES ASSUME NEW t \in TaskIds, task'[t] # Nothing
               PROVE  /\ task'[t].revoked => task'[t].owner \in Grants
                      /\ task'[t].owner \in Grants /\ ~task'[t].revoked
                           => task'[t].since = removals'[task'[t].owner]
    BY DEF Stamped
  <2>1. /\ task[t].revoked => task[t].owner \in Grants
        /\ task[t].owner \in Grants /\ ~task[t].revoked => task[t].since = removals[task[t].owner]
    BY <1>0, <1>4 DEF Stamped
  <2>2. /\ task'[t].owner = task[t].owner /\ task'[t].since = task[t].since
        /\ task'[t].revoked = (task[t].revoked \/ task[t].owner = g)
    BY <1>4
  <2>3. task[t].owner \in Grants \ {g} => removals'[task[t].owner] = removals[task[t].owner]
    BY <1>2
  <2> QED
    BY <2>1, <2>2, <2>3
<1>8. TokensFollowGrants'
  BY <1>0, <1>1, <1>2, <1>3 DEF TokensFollowGrants, Types, TokenRows
<1>9. \A r \in Requests : Fits(request[r])'
  <2> SUFFICES ASSUME NEW r \in Requests PROVE Fits(request[r])'
    OBVIOUS
  <2>1. request[r] \in RequestStates /\ request'[r] = request[r] /\ Fits(request[r])
    BY <1>0, <1>1 DEF Types
  <2>2. request[r].task \in TaskIds \cup {Nothing} /\ request[r].at \in Nat
    BY <2>1 DEF RequestStates
  <2>3. \A k \in Grants : removals[k] \in Nat /\ removals'[k] \in Nat
    BY <1>0, <1>2 DEF Types
  <2> QED
    BY <1>2, <1>4, <2>1, <2>2, <2>3 DEF Fits
<1> QED
  BY <1>5, <1>6, <1>7, <1>8, <1>9 DEF IInv

-----------------------------------------------------------------------------
(* A request to the agent. *)

(* A step of a request that leaves everything else alone. *)
LEMMA RequestKeeps ==
  ASSUME IInv, NEW r \in Requests, NEW q \in RequestStates, Fits(q),
         request' = [request EXCEPT ![r] = q],
         UNCHANGED <<policy, removals, cached, lapsed, replays, exchange, token, task>>
  PROVE  IInv'
<1>1. Types'
  BY DEF IInv, Types
<1>2. \A x \in Requests : Fits(request[x])'
  BY DEF IInv, Types, Fits
<1> QED
  BY <1>1, <1>2 DEF IInv, Keyed, Stamped, TokensFollowGrants

(* A request that is over. *)
LEMMA Ended == NoRequest \in RequestStates /\ Fits(NoRequest)
BY DEF NoRequest, RequestStates, Fits, Shows, Kinds

(* Whom a bearer is taken for: a request that is admitted fits. *)
LEMMA AdmittedFits ==
  ASSUME IInv, NEW r \in Requests, NEW shown \in Shows, NEW by \in Callers \cup {Public},
         NEW bound \in TaskIds \cup {Nothing}, NEW scopes \in {{}} \cup ScopeSets, NEW at \in Nat,
         Admitted(r, shown, by, bound, scopes, at),
         shown \in Exchanges => by \in Grants,
         by \notin Grants => bound = Nothing,
         by \in Grants => at = removals[by],
         UNCHANGED <<policy, removals, cached, lapsed, replays, exchange, token, task>>
  PROVE  IInv'
<1>1. PICK kind \in Kinds, t \in TaskIds \cup {Nothing} :
        request' = [request EXCEPT ![r] =
          [pc |-> "admitted", shown |-> shown, by |-> by, bound |-> bound, scopes |-> scopes,
           kind |-> kind, task |-> t, at |-> at]]
  BY DEF Admitted
<1> DEFINE q == [pc |-> "admitted", shown |-> shown, by |-> by, bound |-> bound,
                 scopes |-> scopes, kind |-> kind, task |-> t, at |-> at]
<1>2. q \in RequestStates
  BY DEF RequestStates
<1>3. Fits(q)
  BY DEF Fits
<1> HIDE DEF q
<1>4. request' = [request EXCEPT ![r] = q]
  BY <1>1 DEF q
<1> QED
  BY <1>2, <1>3, <1>4, RequestKeeps

(* The middleware: public, a caller of the copy, or a token of the database. *)
LEMMA ArriveKeeps ==
  ASSUME IInv, NEW r \in Requests, Arrive(r)
  PROVE  IInv'
<1>1. UNCHANGED <<policy, removals, cached, lapsed, replays, exchange, token, task>>
  BY DEF Arrive
<1>2. PICK shown \in Shows :
        \/ /\ shown \notin Exchanges
           /\ Admitted(r, shown, Public, Nothing, {}, 0)
        \/ /\ shown \in Direct
           /\ Admitted(r, shown, shown, Nothing, {}, 0)
        \/ /\ shown \in Exchanges /\ Valid(shown)
           /\ Admitted(r, shown, token[shown].key, token[shown].bound, token[shown].scopes,
                       removals[token[shown].key])
  BY DEF Arrive
<1>3. CASE shown \notin Exchanges /\ Admitted(r, shown, Public, Nothing, {}, 0)
  <2>1. Public \notin Grants
    BY ConstantsOK
  <2> QED
    BY <1>1, <1>3, <2>1, AdmittedFits
<1>4. CASE shown \in Direct /\ Admitted(r, shown, shown, Nothing, {}, 0)
  <2>1. shown \in Callers /\ shown \notin Grants /\ shown \notin Exchanges
    BY <1>4, ConstantsOK DEF Callers
  <2> QED
    BY <1>1, <1>4, <2>1, AdmittedFits
<1>5. CASE /\ shown \in Exchanges /\ Valid(shown)
           /\ Admitted(r, shown, token[shown].key, token[shown].bound, token[shown].scopes,
                       removals[token[shown].key])
  <2>1. token[shown] \in TokenRows
    BY <1>5 DEF Valid, IInv, Types
  <2>2. /\ token[shown].key \in Grants /\ token[shown].bound \in TaskIds \cup {Nothing}
        /\ token[shown].scopes \in ScopeSets
    BY <2>1 DEF TokenRows
  <2>3. removals[token[shown].key] \in Nat
    BY <2>2, ConstantsOK DEF IInv, Types
  <2>4. token[shown].key \in Callers
    BY <2>2 DEF Callers
  <2> QED
    BY <1>1, <1>5, <2>2, <2>3, <2>4, AdmittedFits
<1> QED
  BY <1>2, <1>3, <1>4, <1>5

(* A task it is let at is its own, open, and so as new as the request at least. *)
LEMMA InspectKeeps ==
  ASSUME IInv, NEW r \in Requests, Inspect(r)
  PROVE  IInv'
<1> DEFINE q == request[r]
           missing == q.task = Nothing \/ task[q.task] = Nothing
           pc == IF missing \/ q.by \notin Grants THEN "allowed" ELSE "loaded"
           kind == IF missing THEN "new" ELSE q.kind
           t == IF missing THEN Nothing ELSE q.task
           n == [q EXCEPT !.pc = pc, !.kind = kind, !.task = t]
<1>1. q \in RequestStates /\ Fits(q) /\ q.pc = "admitted"
  BY DEF IInv, Types, Inspect
<1>2. UNCHANGED <<policy, removals, cached, lapsed, replays, exchange, token, task>>
  BY DEF Inspect
<1>3. CASE Ends(r)
  BY <1>2, <1>3, Ended, RequestKeeps DEF Ends
<1>4. CASE /\ Inspects(q) /\ (missing \/ Accessible(q, task[q.task]))
           /\ request' = [request EXCEPT ![r] = n]
  <2>1. /\ n \in RequestStates /\ n.pc = pc /\ n.task = t /\ n.shown = q.shown /\ n.by = q.by
        /\ n.bound = q.bound /\ n.at = q.at
    BY <1>1 DEF RequestStates, Kinds
  <2>2. /\ q.by \in Callers \cup {Public}
        /\ q.shown \in Exchanges => q.by \in Grants
        /\ q.by \notin Grants => q.bound = Nothing
        /\ q.by \in Grants => q.at <= removals[q.by]
    BY <1>1 DEF Fits
  <2>3. ASSUME t # Nothing
        PROVE  /\ task[t] # Nothing /\ task[t].owner = q.by
               /\ q.bound \in {Nothing, t}
               /\ q.by \in Grants => task[t].since >= q.at
    <3>1. /\ t = q.task /\ t \in TaskIds /\ task[t] # Nothing
          /\ task[t].owner = q.by /\ ~task[t].revoked
      BY <1>1, <1>4, <2>3 DEF Accessible, RequestStates
    <3>2. q.bound \in {Nothing, t}
      BY <1>4, <2>2, <3>1 DEF Inspects
    <3>3. ASSUME q.by \in Grants PROVE task[t].since >= q.at
      <4>1. task[t].since = removals[q.by]
        BY <3>1, <3>3 DEF IInv, Stamped
      <4>2. removals[q.by] \in Nat /\ q.at \in Nat
        BY <1>1, <3>3 DEF IInv, Types, RequestStates
      <4> QED
        BY <2>2, <3>3, <4>1, <4>2
    <3> QED
      BY <3>1, <3>2, <3>3
  <2>4. pc \in {"loaded", "allowed"}
    OBVIOUS
  <2> HIDE DEF n, t, pc
  <2>5. Fits(n)
    BY <2>1, <2>2, <2>3, <2>4 DEF Fits
  <2> QED
    BY <1>2, <1>4, <2>1, <2>5, RequestKeeps
<1> QED
  BY <1>3, <1>4 DEF Inspect

(* The second query, and the end of a request. *)
LEMMA ConfirmKeeps ==
  ASSUME IInv, NEW r \in Requests, Confirm(r) \/ Finish(r)
  PROVE  IInv'
<1>1. UNCHANGED <<policy, removals, cached, lapsed, replays, exchange, token, task>>
  BY DEF Confirm, Finish
<1>2. CASE Ends(r)
  BY <1>1, <1>2, Ended, RequestKeeps DEF Ends
<1>3. CASE request[r].pc = "loaded" /\ request' = [request EXCEPT ![r].pc = "allowed"]
  <2> DEFINE n == [request[r] EXCEPT !.pc = "allowed"]
  <2>1. request[r] \in RequestStates /\ Fits(request[r])
    BY DEF IInv, Types
  <2>2. /\ n \in RequestStates /\ n.pc = "allowed" /\ n.task = request[r].task
        /\ n.shown = request[r].shown /\ n.by = request[r].by
        /\ n.bound = request[r].bound /\ n.at = request[r].at
    BY <2>1 DEF RequestStates
  <2> HIDE DEF n
  <2>3. Fits(n)
    BY <1>3, <2>1, <2>2 DEF Fits
  <2>4. request' = [request EXCEPT ![r] = n]
    BY <1>3 DEF n
  <2> QED
    BY <1>1, <2>2, <2>3, <2>4, RequestKeeps
<1> QED
  BY <1>2, <1>3 DEF Confirm, Finish

(* A new task belongs to the request's caller, as of now. *)
LEMMA CreateKeeps ==
  ASSUME IInv, NEW r \in Requests, Create(r)
  PROVE  IInv'
<1> DEFINE q == request[r]
<1>0. Types /\ Keyed /\ Stamped /\ TokensFollowGrants /\ \A x \in Requests : Fits(request[x])
  BY DEF IInv
<1>1. q \in RequestStates /\ Fits(q) /\ q.pc = "allowed"
  BY <1>0 DEF Types, Create
<1>2. q.by \in Callers \cup {Public} /\ q.at \in Nat
  BY <1>1 DEF Fits, RequestStates
<1>3. PICK t \in TaskIds :
        /\ task[t] = Nothing
        /\ task' = [task EXCEPT ![t] =
             [owner |-> q.by, revoked |-> FALSE, under |-> q.at,
              since |-> IF q.by \in Grants THEN removals[q.by] ELSE 0]]
  BY DEF Create
<1> DEFINE made == [owner |-> q.by, revoked |-> FALSE, under |-> q.at,
                    since |-> IF q.by \in Grants THEN removals[q.by] ELSE 0]
<1>4. /\ made \in TaskRows /\ made.owner = q.by /\ ~made.revoked
      /\ q.by \in Grants => made.since = removals[q.by]
  BY <1>0, <1>2 DEF Types, TaskRows
<1> HIDE DEF made
<1>5. task' = [task EXCEPT ![t] = made] /\ request' = [request EXCEPT ![r] = NoRequest]
  BY <1>3 DEF made, Create, Ends
<1>6. UNCHANGED <<policy, removals, cached, lapsed, replays, exchange, token>>
  BY DEF Create
<1>7. Types'
  BY <1>0, <1>4, <1>5, <1>6, Ended DEF Types
<1>8. Stamped'
  BY <1>0, <1>4, <1>5, <1>6 DEF Types, Stamped
<1>9. \A x \in Requests : Fits(request[x])'
  <2> SUFFICES ASSUME NEW x \in Requests PROVE Fits(request[x])'
    OBVIOUS
  <2>1. CASE x = r
    BY <1>0, <1>5, <2>1 DEF Types, Fits, NoRequest
  <2>2. CASE x # r
    <3>1. request'[x] = request[x] /\ Fits(request[x])
      BY <1>0, <1>5, <2>2 DEF Types
    <3>2. request[x].task \in TaskIds \cup {Nothing}
      BY <1>0 DEF Types, RequestStates
    <3>3. \A u \in TaskIds : task[u] # Nothing => task'[u] = task[u]
      BY <1>0, <1>3, <1>5 DEF Types
    <3> QED
      BY <1>6, <3>1, <3>2, <3>3 DEF Fits
  <2> QED
    BY <2>1, <2>2
<1> QED
  BY <1>0, <1>6, <1>7, <1>8, <1>9 DEF IInv, Keyed, TokensFollowGrants

-----------------------------------------------------------------------------
(* IInv is inductive. *)
THEOREM StepInvariant == IInv /\ [Next]_vars => IInv'
<1> SUFFICES ASSUME IInv, [Next]_vars PROVE IInv'
  OBVIOUS
<1>1. CASE \E x \in Exchanges : Begin(x) \/ Match(x) \/ Verify(x) \/ Error(x) \/ Consume(x)
                                \/ Issue(x) \/ End(x) \/ SweepToken(x)
  BY <1>1, BeginKeeps, MatchKeeps, VerifyKeeps, IssueKeeps, TokenKeeps
<1>2. CASE \E a \in Assertions : Lapse(a) \/ SweepReplay(a)
  BY <1>2, AssertionKeeps
<1>3. CASE (\E c \in Callers : Add(c)) \/ Refresh \/ (\E c \in Direct : RemoveDirect(c))
  BY <1>3, PolicyKeeps
<1>4. CASE \E g \in Grants : Remove(g)
  BY <1>4, RemoveKeeps
<1>5. CASE \E r \in Requests : Arrive(r) \/ Inspect(r) \/ Confirm(r) \/ Create(r) \/ Finish(r)
  BY <1>5, ArriveKeeps, InspectKeeps, ConfirmKeeps, CreateKeeps
<1>6. CASE UNCHANGED vars
  BY <1>6 DEF IInv, Types, Keyed, Stamped, TokensFollowGrants, Fits
<1> QED
  BY <1>1, <1>2, <1>3, <1>4, <1>5, <1>6 DEF Next

(* Every reachable state satisfies the invariant. *)
THEOREM Safety == Spec => []IInv
<1>1. Init => IInv
  BY InitInvariant
<1>2. IInv /\ [Next]_vars => IInv'
  BY StepInvariant
<1> QED
  BY <1>1, <1>2, PTL DEF Spec

(* The variables keep their types, and only a removal stamps a task. *)
THEOREM TypeCorrect == Spec => []TypeOK
<1>1. ASSUME IInv PROVE TypeOK
  <2>1. \A x \in Exchanges :
          /\ exchange[x].pc \in {"new", "failed"} \cup Running \cup Consumed
          /\ exchange[x].pc \in Consumed => exchange[x].key \in Grants
          /\ token[x] # Nothing => exchange[x].pc = "issued" /\ token[x].key = exchange[x].key
    BY <1>1 DEF IInv, Types, ExchangeStates, Keyed, Holds
  <2>2. \A t \in TaskIds : task[t] # Nothing =>
          task[t].owner \in Callers \cup {Public} /\ (task[t].revoked => task[t].owner \in Grants)
    BY <1>1 DEF IInv, Types, TaskRows, Stamped
  <2>3. \A r \in Requests : request[r].pc \in {"none", "admitted", "loaded", "allowed"}
    BY <1>1 DEF IInv, Types, RequestStates
  <2> QED
    BY <1>1, <2>1, <2>2, <2>3 DEF IInv, Types, TypeOK
<1> QED
  BY <1>1, Safety, PTL

(* A live token has its grant in the policy, not removed since: however the     *)
(* exchange and the removal interleave, and though the grant come back.         *)
THEOREM LiveTokensAreGranted == Spec => []TokensFollowGrants
<1>1. IInv => TokensFollowGrants
  BY DEF IInv
<1> QED
  BY <1>1, Safety, PTL

(* What is asked with a token is done as its holder, never as the public. *)
THEOREM HoldersAreNamed == Spec => []NeverAnonymous
<1>1. ASSUME IInv PROVE NeverAnonymous
  <2> SUFFICES ASSUME NEW r \in Requests, request[r].shown \in Exchanges
               PROVE  request[r].by \in Grants
    BY DEF NeverAnonymous
  <2>1. Fits(request[r])
    BY <1>1 DEF IInv
  <2> QED
    BY <2>1, ConstantsOK DEF Fits
<1> QED
  BY <1>1, Safety, PTL

(* A request allowed on a task is its owner's and within what its token binds. *)
THEOREM TasksAreTheirOwners == Spec => []OnlyOwnTasks
<1>1. IInv => OnlyOwnTasks
  BY DEF IInv, Fits, OnlyOwnTasks
<1> QED
  BY <1>1, Safety, PTL

(* A task that was there when its grant was removed opens to no later request. *)
THEOREM RemovalIsFinal == Spec => []RevokedStaysClosed
<1>1. IInv => RevokedStaysClosed
  BY DEF IInv, Fits, RevokedStaysClosed
<1> QED
  BY <1>1, Safety, PTL

-----------------------------------------------------------------------------
(* The assertions.  What becomes of them is a matter of the exchanges alone.   *)

Used(e) == {e.client, e.subject}

(* An exchange goes from n to e. *)
Moves(n, e) ==
  \/ /\ n.pc \in Running /\ e.pc = "failed" /\ UNCHANGED replays
  \/ /\ n.pc = "new" /\ e.pc = "read" /\ UNCHANGED replays
     /\ Used(e) \cap lapsed = {}
  \/ /\ e.client = n.client /\ e.subject = n.subject /\ UNCHANGED replays
     /\ {n.pc, e.pc} \subseteq Running \/ {n.pc, e.pc} \subseteq Consumed
  \/ /\ e.client = n.client /\ e.subject = n.subject
     /\ n.pc = "checked" /\ e.pc = "consumed"
     /\ Used(n) \cap replays = {} /\ replays' = replays \cup Used(n)

(* All that a step may do to exchanges and to what is kept of assertions. *)
LEMMA Course ==
  ASSUME IInv, [Next]_vars
  PROVE  \/ UNCHANGED <<lapsed, replays, exchange>>
         \/ \E a \in Assertions : Lapse(a) \/ SweepReplay(a)
         \/ \E x \in Exchanges : /\ UNCHANGED lapsed /\ Moves(exchange[x], exchange'[x])
                                 /\ \A y \in Exchanges \ {x} : exchange'[y] = exchange[y]
<1>0. /\ exchange \in [Exchanges -> ExchangeStates]
      /\ [NoExchange EXCEPT !.pc = "failed"].pc = "failed"
  BY DEF IInv, Types, NoExchange
<1>1. ASSUME NEW x \in Exchanges,
             Begin(x) \/ Match(x) \/ Verify(x) \/ Error(x) \/ Consume(x) \/ Issue(x)
      PROVE  /\ UNCHANGED lapsed /\ Moves(exchange[x], exchange'[x])
             /\ \A y \in Exchanges \ {x} : exchange'[y] = exchange[y]
  <2>1. CASE Begin(x)
    BY <1>0, <2>1 DEF Begin, Moves, Used, NoExchange
  <2>2. CASE Match(x)
    <3>1. exchange[x].pc = "read" /\ UNCHANGED <<lapsed, replays>>
      BY <2>2 DEF Match
    <3>2. \/ exchange' = [exchange EXCEPT ![x] = [NoExchange EXCEPT !.pc = "failed"]]
          \/ \E k, b : exchange' = [exchange EXCEPT ![x].pc = "matched", ![x].key = k, ![x].bound = b]
      BY <2>2 DEF Match, Fail
    <3>3. CASE exchange' = [exchange EXCEPT ![x] = [NoExchange EXCEPT !.pc = "failed"]]
      BY <1>0, <3>1, <3>3 DEF Moves, Running
    <3>4. CASE \E k, b : exchange' = [exchange EXCEPT ![x].pc = "matched", ![x].key = k, ![x].bound = b]
      <4>1. PICK k, b : exchange' = [exchange EXCEPT ![x].pc = "matched", ![x].key = k, ![x].bound = b]
        BY <3>4
      <4>2. /\ exchange'[x].client = exchange[x].client
            /\ exchange'[x].subject = exchange[x].subject /\ exchange'[x].pc = "matched"
            /\ \A y \in Exchanges \ {x} : exchange'[y] = exchange[y]
        BY <1>0, <4>1 DEF ExchangeStates
      <4> QED
        BY <3>1, <4>2 DEF Moves, Running
    <3> QED
      BY <3>2, <3>3, <3>4
  <2>3. CASE Verify(x)
    BY <1>0, <2>3 DEF Verify, Moves, Running, ExchangeStates
  <2>4. CASE Error(x)
    BY <1>0, <2>4 DEF Error, Fail, Moves
  <2>5. CASE Consume(x)
    <3>1. CASE Fail(x) /\ UNCHANGED replays
      BY <1>0, <2>5, <3>1 DEF Consume, Fail, Moves, Running
    <3>2. CASE /\ Used(exchange[x]) \cap replays = {} /\ replays' = replays \cup Used(exchange[x])
               /\ Passes(x)
      <4>1. /\ exchange'[x].client = exchange[x].client
            /\ exchange'[x].subject = exchange[x].subject /\ exchange'[x].pc = "consumed"
            /\ \A y \in Exchanges \ {x} : exchange'[y] = exchange[y]
        BY <1>0, <3>2 DEF Passes, ExchangeStates
      <4> QED
        BY <2>5, <3>2, <4>1 DEF Consume, Moves
    <3> QED
      BY <2>5, <3>1, <3>2 DEF Consume, Used
  <2>6. CASE Issue(x)
    BY <1>0, <2>6 DEF Issue, Moves, Consumed, ExchangeStates
  <2> QED
    BY <1>1, <2>1, <2>2, <2>3, <2>4, <2>5, <2>6
<1>2. ASSUME \/ \E x \in Exchanges : End(x) \/ SweepToken(x)
             \/ \E c \in Callers : Add(c)
             \/ Refresh
             \/ \E c \in Direct : RemoveDirect(c)
             \/ \E g \in Grants : Remove(g)
             \/ \E r \in Requests : Arrive(r) \/ Inspect(r) \/ Confirm(r) \/ Create(r) \/ Finish(r)
             \/ UNCHANGED vars
      PROVE  UNCHANGED <<lapsed, replays, exchange>>
  BY <1>2 DEF End, SweepToken, Add, Refresh, RemoveDirect, Remove, Dropped, Arrive, Inspect,
     Confirm, Create, Finish
<1> QED
  BY <1>1, <1>2 DEF Next

(* What was used up is kept, or has lapsed and is in nobody's hands. *)
Kept ==
  \A x \in Exchanges : exchange[x].pc \in Consumed =>
    \A a \in Used(exchange[x]) : a \in replays \/ (a \in lapsed /\ ~InUse(a))

(* When no exchange outlasts its assertions' life and the sweep, a used assertion *)
(* stays unusable, and no two exchanges ever share one.                          *)
LEMMA KeptKeeps ==
  ASSUME ~SlowExchange, IInv, Kept, OneExchangeEach, [Next]_vars
  PROVE  Kept' /\ OneExchangeEach'
<1>1. CASE UNCHANGED <<lapsed, replays, exchange>>
  BY <1>1 DEF Kept, OneExchangeEach, Used, InUse
<1>2. CASE \E a \in Assertions : Lapse(a) \/ SweepReplay(a)
  <2>1. PICK a \in Assertions : Lapse(a) \/ SweepReplay(a)
    BY <1>2
  <2>2. UNCHANGED exchange
    BY <2>1 DEF Lapse, SweepReplay
  <2>3. \A b : InUse(b)' = InUse(b)
    BY <2>2 DEF InUse
  <2>4. CASE Lapse(a)
    BY <2>2, <2>3, <2>4 DEF Lapse, Kept, OneExchangeEach, Used
  <2>5. CASE SweepReplay(a)
    BY <2>2, <2>3, <2>5 DEF SweepReplay, Kept, OneExchangeEach, Used
  <2> QED
    BY <2>1, <2>4, <2>5
<1>3. CASE \E x \in Exchanges : /\ UNCHANGED lapsed /\ Moves(exchange[x], exchange'[x])
                                /\ \A y \in Exchanges \ {x} : exchange'[y] = exchange[y]
  <2>1. PICK x \in Exchanges : /\ UNCHANGED lapsed /\ Moves(exchange[x], exchange'[x])
                               /\ \A y \in Exchanges \ {x} : exchange'[y] = exchange[y]
    BY <1>3
  <2>2. replays \subseteq replays'
    BY <2>1 DEF Moves
  <2>3. ASSUME NEW a, a \in lapsed, ~InUse(a) PROVE ~InUse(a)'
    <3>1. a \notin Used(exchange'[x]) \/ exchange'[x].pc \notin Running
      BY <2>1, <2>3 DEF Moves, InUse, Used, Running, Consumed
    <3> QED
      BY <2>1, <2>3, <3>1 DEF InUse, Used
  <2>4. ASSUME exchange'[x].pc \in Consumed
        PROVE  /\ exchange'[x].client = exchange[x].client
               /\ exchange'[x].subject = exchange[x].subject
               /\ \/ exchange[x].pc \in Consumed
                  \/ /\ Used(exchange[x]) \subseteq replays' /\ Used(exchange[x]) \cap replays = {}
                     /\ \A a \in Used(exchange[x]) : InUse(a)
    BY <2>1, <2>4 DEF Moves, Running, Consumed, InUse, Used
  <2>5. Kept'
    <3> SUFFICES ASSUME NEW y \in Exchanges, exchange'[y].pc \in Consumed,
                        NEW a \in Used(exchange'[y])
                 PROVE  a \in replays' \/ (a \in lapsed' /\ ~InUse(a)')
      BY DEF Kept, Used
    <3>1. a \in Used(exchange[y])
      BY <2>1, <2>4 DEF Used
    <3>2. CASE exchange[y].pc \in Consumed
      BY <2>1, <2>2, <2>3, <3>1, <3>2 DEF Kept
    <3>3. CASE y = x /\ Used(exchange[x]) \subseteq replays'
      BY <3>1, <3>3
    <3> QED
      BY <2>1, <2>4, <3>2, <3>3
  <2>6. OneExchangeEach'
    <3> SUFFICES ASSUME NEW y \in Exchanges, NEW z \in Exchanges, y # z,
                        exchange'[y].pc \in Consumed, exchange'[z].pc \in Consumed
                 PROVE  /\ exchange'[y].client # exchange'[z].client
                        /\ exchange'[y].subject # exchange'[z].subject
      BY DEF OneExchangeEach
    <3>1. /\ exchange'[y].client = exchange[y].client /\ exchange'[y].subject = exchange[y].subject
          /\ exchange'[z].client = exchange[z].client /\ exchange'[z].subject = exchange[z].subject
      BY <2>1, <2>4
    <3>2. ASSUME NEW u \in Exchanges, NEW v \in Exchanges, exchange[v].pc \in Consumed,
                 Used(exchange[u]) \cap replays = {}, \A a \in Used(exchange[u]) : InUse(a)
          PROVE  exchange[u].client # exchange[v].client /\ exchange[u].subject # exchange[v].subject
      BY <3>2 DEF Kept, Used
    <3>3. CASE exchange[y].pc \in Consumed /\ exchange[z].pc \in Consumed
      BY <3>1, <3>3 DEF OneExchangeEach
    <3>4. CASE y = x /\ exchange[x].pc \notin Consumed
      <4>1. exchange[z].pc \in Consumed
        BY <2>1, <3>4
      <4> QED
        BY <2>4, <3>1, <3>2, <3>4, <4>1
    <3>5. CASE z = x /\ exchange[x].pc \notin Consumed
      <4>1. exchange[y].pc \in Consumed
        BY <2>1, <3>5
      <4> QED
        BY <2>4, <3>1, <3>2, <3>5, <4>1
    <3> QED
      BY <2>1, <3>3, <3>4, <3>5
  <2> QED
    BY <2>5, <2>6
<1> QED
  BY <1>1, <1>2, <1>3, Course

(* An assertion serves one exchange, where none outlasts its assertions. *)
THEOREM AssertionsServeOnce ==
  ASSUME ~SlowExchange
  PROVE  Spec => []OneExchangeEach
<1>1. Init => Kept /\ OneExchangeEach
  BY DEF Init, Kept, OneExchangeEach, NoExchange, Consumed
<1>2. IInv /\ (Kept /\ OneExchangeEach) /\ [Next]_vars => (Kept /\ OneExchangeEach)'
  BY KeptKeeps
<1> QED
  BY <1>1, <1>2, Safety, PTL DEF Spec

(* What is kept as used up was used by an exchange that came through. *)
THEOREM NothingIsBurnt == Spec => []FailureBurnsNothing
<1>1. Init => FailureBurnsNothing
  BY DEF Init, FailureBurnsNothing
<1>2. ASSUME IInv, FailureBurnsNothing, [Next]_vars PROVE FailureBurnsNothing'
  <2> SUFFICES ASSUME NEW a \in replays'
               PROVE  \E x \in Exchanges : exchange'[x].pc \in Consumed /\ a \in Used(exchange'[x])
    BY DEF FailureBurnsNothing, Used
  <2>0. ASSUME a \in replays
        PROVE  \E x \in Exchanges : exchange[x].pc \in Consumed /\ a \in Used(exchange[x])
    BY <1>2, <2>0 DEF FailureBurnsNothing, Used
  <2>1. CASE UNCHANGED exchange /\ replays' \subseteq replays
    BY <2>0, <2>1
  <2>2. CASE \E x \in Exchanges : /\ Moves(exchange[x], exchange'[x])
                                  /\ \A y \in Exchanges \ {x} : exchange'[y] = exchange[y]
    <3>1. PICK x \in Exchanges : /\ Moves(exchange[x], exchange'[x])
                                 /\ \A y \in Exchanges \ {x} : exchange'[y] = exchange[y]
      BY <2>2
    <3>2. exchange[x].pc \in Consumed => exchange'[x].pc \in Consumed
                                         /\ Used(exchange'[x]) = Used(exchange[x])
      BY <3>1 DEF Moves, Running, Consumed, Used
    <3>3. CASE a \in replays
      BY <2>0, <3>1, <3>2, <3>3
    <3>4. CASE a \notin replays
      <4>1. exchange'[x].pc = "consumed" /\ a \in Used(exchange'[x])
        BY <3>1, <3>4 DEF Moves, Used
      <4> QED
        BY <4>1 DEF Consumed
    <3> QED
      BY <3>3, <3>4
  <2> QED
    BY <1>2, <2>1, <2>2, Course DEF Lapse, SweepReplay
<1> QED
  BY <1>1, <1>2, Safety, PTL DEF Spec

-----------------------------------------------------------------------------
(***************************************************************************)
(* The table of tasks, for every number of callers, agents, contexts,      *)
(* tasks and retention statements.  That a trim deletes none of the newest *)
(* rests on what each of its victims has above it while other statements   *)
(* delete too; that no more than the cap stays, on whose trim is to come.  *)
(***************************************************************************)
(* How many there are is the same to both modules. *)
LEMMA SameCardinality == ASSUME NEW S PROVE Store!Cardinality(S) = Cardinality(S)
BY DEF Store!Cardinality, Cardinality

(* A set of naturals that is not empty has a least element, and a bounded one   *)
(* a greatest.                                                                  *)
LEMMA Smallest ==
  ASSUME NEW S \in SUBSET Nat, S # {}
  PROVE  \E m \in S : \A x \in S : m <= x
<1> DEFINE R == OpToRel(<, Nat)
<1>1. IsWellFoundedOn(R, Nat)
  BY NatLessThanWellFounded
<1>2. \A x, y \in Nat : x < y => <<x, y>> \in R
  BY DEF OpToRel
<1> HIDE DEF R
<1>3. PICK m \in S : \A x \in S : ~ (<<x, m>> \in R)
  BY <1>1, WFMin
<1>4. \A x \in S : x \in Nat /\ m \in Nat
  OBVIOUS
<1>5. ASSUME NEW x \in S PROVE m <= x
  <2>1. x \in Nat /\ m \in Nat /\ ~ (x < m)
    BY <1>2, <1>3, <1>4
  <2> QED
    BY <2>1
<1> QED
  BY <1>5

(* The greatest element of a bounded set. *)
LEMMA Largest ==
  ASSUME NEW n \in Nat, NEW S, S \subseteq 1..n, S # {}
  PROVE  \E m \in S : \A x \in S : x <= m
<1> DEFINE T == {n - x : x \in S}
<1>0. \A x \in S : x \in Nat /\ x <= n /\ n - x \in Nat
  BY SMT
<1>1. T \subseteq Nat /\ T # {}
  BY <1>0
<1>2. PICK y \in T : \A x \in T : y <= x
  BY <1>1, Smallest
<1>3. PICK m \in S : y = n - m
  OBVIOUS
<1>4. ASSUME NEW x \in S PROVE x <= m
  <2>1. n - x \in T
    OBVIOUS
  <2>2. n - m <= n - x
    BY <1>2, <1>3, <2>1
  <2>3. x \in Nat /\ m \in Nat
    BY <1>0
  <2> QED
    BY <2>2, <2>3
<1> QED
  BY <1>4

(* A larger set of tasks has no fewer elements. *)
LEMMA MoreTasks ==
  ASSUME Store!ConstantsOK, NEW S, NEW T, S \subseteq T, T \subseteq Store!Tasks
  PROVE  /\ IsFiniteSet(S) /\ Cardinality(S) \in Nat /\ Cardinality(T) \in Nat
         /\ Cardinality(S) <= Cardinality(T)
<1>1. IsFiniteSet(Store!Tasks)
  BY FS_Interval DEF Store!ConstantsOK, Store!Tasks
<1>2. IsFiniteSet(T)
  BY <1>1, FS_Subset
<1>3. IsFiniteSet(S) /\ Cardinality(S) <= Cardinality(T)
  BY <1>2, FS_Subset
<1> QED
  BY <1>2, <1>3, FS_CardinalityType

(* The Cap newest are no more than Cap. *)
LEMMA NewestAreFew ==
  ASSUME Store!ConstantsOK, NEW S, S \subseteq Store!Tasks
  PROVE  Cardinality(Store!Newest(S)) <= Cap
<1> DEFINE N == Store!Newest(S)
<1>0. Cap \in Nat \ {0} /\ N \subseteq S /\ N \subseteq Store!Tasks
  BY DEF Store!Newest, Store!ConstantsOK
<1>1. CASE N = {}
  BY <1>0, <1>1, FS_EmptySet
<1>2. CASE N # {}
  <2>1. N \subseteq Nat
    BY <1>0 DEF Store!Tasks
  <2>2. PICK m \in N : \A x \in N : m <= x
    BY <1>2, <2>1, Smallest
  <2> DEFINE A == {u \in S : u > m}
  <2>3. Cardinality(A) < Cap
    BY SameCardinality DEF Store!Newest
  <2>4. N \ {m} \subseteq A
    <3> SUFFICES ASSUME NEW x \in N, x # m PROVE x > m
      BY <1>0
    <3>1. x \in Nat /\ m \in Nat /\ m <= x
      BY <2>1, <2>2
    <3> QED
      BY <3>1
  <2>5. A \subseteq Store!Tasks
    OBVIOUS
  <2>6. Cardinality(N \ {m}) <= Cardinality(A) /\ Cardinality(A) \in Nat /\ Cardinality(N \ {m}) \in Nat
    BY <2>4, <2>5, MoreTasks
  <2>7. IsFiniteSet(N) /\ Cardinality(N) \in Nat
    BY <1>0, MoreTasks
  <2>8. Cardinality(N \ {m}) = Cardinality(N) - 1
    BY <2>7, FS_RemoveElement
  <2> QED
    BY <1>0, <2>3, <2>6, <2>7, <2>8
<1> QED
  BY <1>1, <1>2

-----------------------------------------------------------------------------
(* The tasks of t's owner in its context that are newer than t.                *)
Above(t) == {u \in Store!OwnOfContext(row[t].agent, row[t].ctx, row[t].owner) : u > t}

(* A call that is under way is somebody's; the task it is about is there, or    *)
(* was, and is his; and what it has been shown is his.                          *)
Busy(c) == call[c].pc \notin {"idle", "read"}

CallsFit ==
  \A c \in Calls :
    /\ call[c].pc # "idle" => call[c].who \in Users
    /\ Busy(c) => /\ call[c].task \in 1..drawn
                  /\ Store!Live(call[c].task) => row[call[c].task].owner = call[c].who
    /\ call[c].saw \subseteq {call[c].who}

(* A task holds what its owner said.                                            *)
RowsFit == \A t \in Store!Tasks : Store!Live(t) => t <= drawn /\ row[t].said \subseteq {row[t].owner}

(* What a statement is to delete was there; a trim's victim that is still there *)
(* has Cap newer ones of the same owner beside it; and the sweep deletes, with  *)
(* a task, all that are older in its context.                                   *)
VictimsFit ==
  /\ \A s \in Calls \cup {Store!Prune} : victims[s] \subseteq 1..drawn
  /\ \A c \in Calls : victims[c] # {} => call[c].pc = "trimming"

Backed == \A c \in Calls : \A t \in victims[c] : Store!Live(t) => Cardinality(Above(t)) >= Cap

Swept ==
  \A t, u \in Store!Tasks :
    /\ u \in victims[Store!Prune] /\ Store!Live(u) /\ Store!Live(t) /\ t < u
    /\ row[t].agent = row[u].agent /\ row[t].ctx = row[u].ctx
    => t \in victims[Store!Prune]

StoreInv == Store!ConstantsOK /\ Store!TypeOK /\ CallsFit /\ RowsFit /\ VictimsFit /\ Backed /\ Swept

(* What may happen to the rows, without a deletion.                             *)
Steady ==
  \A t \in Store!Tasks : /\ Store!Live(t)' <=> Store!Live(t)
                         /\ Store!Live(t) => /\ row'[t].agent = row[t].agent /\ row'[t].ctx = row[t].ctx
                                             /\ row'[t].owner = row[t].owner

(* Where nobody sends to what has ended, or cancels: a task has one call, it    *)
(* has not ended before that call's verdict, and only what has ended is to go.  *)
Ending ==
  /\ \A c \in Calls : call[c].pc # "cancel"
  /\ \A c \in Calls : call[c].pc \in {"sent", "working", "shown"} /\ Store!Live(call[c].task) =>
                        row[call[c].task].state \notin Store!Ended
  /\ \A c, d \in Calls : Busy(c) /\ Busy(d) /\ call[c].task = call[d].task => c = d
  /\ \A s \in Calls \cup {Store!Prune} : \A t \in victims[s] : Store!Live(t) => row[t].state \in Store!Ended

VictimsOwn == \A c \in Calls : \A t \in victims[c] : Store!Live(t) => row[t].owner = call[c].who

EndedOf(a, x, p) == {t \in Store!OwnOfContext(a, x, p) : row[t].state \in Store!Ended}

ToTrim == UNION {victims[c] : c \in Calls}

(* A caller's ended tasks, but for those to go, are at most Cap unless a verdict *)
(* of a task that stays has yet to be followed by its trim.                      *)
Trims(c, a, x, p, P) ==
  /\ call[c].pc = "trim" /\ Store!Live(call[c].task) /\ call[c].task \notin P
  /\ call[c].task \in Store!OwnOfContext(a, x, p)

Bounded(P) ==
  \A a \in Agents, x \in Contexts, p \in Users :
    \/ \E c \in Calls : Trims(c, a, x, p, P)
    \/ Cardinality(EndedOf(a, x, p) \ P) <= Cap

CapInv ==
  /\ StoreInv /\ may = {} /\ Ending /\ VictimsOwn
  /\ Bounded(ToTrim) /\ Bounded(ToTrim \cup victims[Store!Prune])

(* A write keeps whose a row is, and adds at most what its owner said.          *)
LEMMA Written ==
  ASSUME StoreInv, NEW t \in Store!Tasks, Store!Live(t), NEW state \in Store!States, NEW who, NEW named,
         who \subseteq {row[t].owner}, Store!writeTask(t, state, who, named)
  PROVE  /\ row'[t] = [row[t] EXCEPT !.state = state, !.old = FALSE, !.said = row[t].said \cup who]
         /\ \A u \in Store!Tasks : u # t => row'[u] = row[u]
         /\ row' \in [Store!Tasks -> Store!RowRecords \cup {None}]
         /\ Steady /\ (UNCHANGED drawn => RowsFit')
<1>1. row \in [Store!Tasks -> Store!RowRecords \cup {None}] /\ row[t] \in Store!RowRecords
  BY DEF StoreInv, Store!TypeOK, Store!Live
<1>2. row[t].owner \in Users /\ row[t].owner # None
  BY <1>1 DEF Store!RowRecords, StoreInv, Store!ConstantsOK
<1> DEFINE r == [row[t] EXCEPT !.state = state, !.old = FALSE, !.said = row[t].said \cup who]
<1>3. row' = [row EXCEPT ![t].state = state, ![t].old = FALSE, ![t].owner = row[t].owner,
                         ![t].said = @ \cup who]
  BY <1>2 DEF Store!writeTask, Store!OwnerKept
<1>4. row'[t] = r /\ \A u \in Store!Tasks : u # t => row'[u] = row[u]
  BY <1>1, <1>3 DEF Store!RowRecords
<1>5. r \in Store!RowRecords /\ r.owner = row[t].owner /\ r.agent = row[t].agent /\ r.ctx = row[t].ctx
      /\ r.said = row[t].said \cup who
  BY <1>1, <1>2 DEF Store!RowRecords
<1>6. row' \in [Store!Tasks -> Store!RowRecords \cup {None}]
  BY <1>1, <1>3, <1>4, <1>5
<1> HIDE DEF r
<1>7. row'[t] # None
  BY <1>4, <1>5 DEF StoreInv, Store!ConstantsOK
<1>8. Steady
  BY <1>4, <1>5, <1>7 DEF Steady, Store!Live
<1>9. ASSUME UNCHANGED drawn PROVE RowsFit'
  BY <1>4, <1>5, <1>7, <1>9 DEF RowsFit, Store!Live, StoreInv
<1> QED
  BY <1>4, <1>6, <1>8, <1>9 DEF r

(* In a steady step the newer tasks beside a task are the same.                 *)
LEMMA SameAbove ==
  ASSUME Steady, NEW t \in Store!Tasks, Store!Live(t)
  PROVE  Above(t)' = Above(t)
BY DEF Steady, Above, Store!OwnOfContext, Store!Rows

(* Steps that neither make nor delete rows, nor choose what to delete.          *)
LEMMA SteadyKeeps ==
  ASSUME StoreInv, Steady, UNCHANGED <<victims, drawn>>, Store!TypeOK', CallsFit', RowsFit',
         \A c \in Calls : victims[c] # {} => call'[c].pc = "trimming"
  PROVE  StoreInv'
<1>1. VictimsFit'
  BY DEF StoreInv, VictimsFit
<1>2. Backed'
  <2> SUFFICES ASSUME NEW c \in Calls, NEW t \in victims[c], Store!Live(t)'
               PROVE  Cardinality(Above(t))' >= Cap
    BY DEF Backed
  <2>1. t \in Store!Tasks
    BY DEF StoreInv, Store!TypeOK
  <2>2. Store!Live(t) /\ Cardinality(Above(t)) >= Cap
    BY <2>1 DEF Steady, StoreInv, Backed
  <2> QED
    BY <2>1, <2>2, SameAbove
<1>3. Swept'
  BY DEF StoreInv, Swept, Steady
<1> QED
  BY <1>1, <1>2, <1>3 DEF StoreInv

(* One call moves on.                                                           *)
CallFits(k) ==
  /\ k \in [pc : {"idle", "sent", "working", "shown", "trim", "trimming", "cancel", "read"},
            who : Users \cup {None}, task : 0..MaxTasks, saw : SUBSET Users]
  /\ k.pc # "idle" => k.who \in Users
  /\ k.pc \notin {"idle", "read"} => k.task \in 1..drawn /\ (Store!Live(k.task) => row[k.task].owner = k.who)
  /\ k.saw \subseteq {k.who}

(* Every call fits. *)
LEMMA CallType ==
  ASSUME StoreInv, NEW c \in Calls
  PROVE  CallFits(call[c])
BY DEF StoreInv, CallsFit, Store!TypeOK, CallFits, Busy

(* The invariant is kept when rows stay whose they are and one call moves on. *)
LEMMA CallMoves ==
  ASSUME StoreInv, UNCHANGED may, Steady, UNCHANGED <<victims, drawn, idle>>, RowsFit',
         row' \in [Store!Tasks -> Store!RowRecords \cup {None}],
         NEW c \in Calls, NEW k, call' = [call EXCEPT ![c] = k], CallFits(k), call[c].pc # "trimming"
  PROVE  StoreInv'
<1>1. /\ Store!TypeOK /\ CallsFit /\ VictimsFit /\ drawn \in 0..MaxTasks /\ MaxTasks \in Nat
      /\ call'[c] = k /\ \A d \in Calls : d # c => call'[d] = call[d]
  BY DEF StoreInv, Store!TypeOK, Store!ConstantsOK
<1>2. call' \in [Calls -> [pc : {"idle", "sent", "working", "shown", "trim", "trimming", "cancel", "read"},
                           who : Users \cup {None}, task : 0..MaxTasks, saw : SUBSET Users]]
  BY <1>1 DEF Store!TypeOK, CallFits
<1>3. Store!TypeOK'
  BY <1>1, <1>2 DEF Store!TypeOK
<1>4. \A t \in 1..drawn : t \in Store!Tasks
  BY <1>1 DEF Store!Tasks
<1>5. ASSUME NEW d \in Calls
      PROVE  /\ call'[d].pc # "idle" => call'[d].who \in Users
             /\ Busy(d)' => /\ call'[d].task \in 1..drawn
                            /\ row'[call'[d].task] # None => row'[call'[d].task].owner = call'[d].who
             /\ call'[d].saw \subseteq {call'[d].who}
  <2>1. CallFits(call'[d])
    BY <1>1, CallType
  <2> QED
    BY <1>4, <2>1 DEF CallFits, Busy, Steady, Store!Live
<1>6. CallsFit'
  BY <1>1, <1>5 DEF CallsFit, Store!Live
<1>7. \A d \in Calls : victims[d] # {} => call'[d].pc = "trimming"
  BY <1>1 DEF VictimsFit
<1> QED
  BY <1>3, <1>6, <1>7, SteadyKeeps

(* Rows left alone are steady.                                                  *)
LEMMA RowsAlone ==
  ASSUME StoreInv, UNCHANGED <<row, drawn>>
  PROVE  Steady /\ RowsFit' /\ row' \in [Store!Tasks -> Store!RowRecords \cup {None}]
BY DEF StoreInv, Store!TypeOK, Steady, Store!Live, RowsFit

-----------------------------------------------------------------------------
(* The steps of a call.                                                        *)

(* A call that is over fits. *)
LEMMA OverFits == ASSUME Store!ConstantsOK PROVE CallFits(Store!NotYet)
BY DEF Store!ConstantsOK, CallFits, Store!NotYet

(* Who is shown tasks of one owner is shown what that owner said. *)
LEMMA OwnSaid ==
  ASSUME StoreInv, NEW p, NEW S, \A t \in S : t \in Store!Tasks /\ Store!Live(t) /\ row[t].owner = p
  PROVE  Store!Said(S) \subseteq {p}
BY DEF StoreInv, RowsFit, Store!Said

(* A task that is reached has been drawn. *)
LEMMA ReachedTask ==
  ASSUME StoreInv, NEW p, NEW t \in Store!Tasks, Store!Reaches(p, t)
  PROVE  t \in 1..drawn /\ t \in 0..MaxTasks
BY DEF StoreInv, RowsFit, Store!Reaches, Store!Tasks, Store!ConstantsOK, Store!TypeOK

(* The invariant is kept when a message is sent to a task that has ended. *)
LEMMA ReuseKeeps ==
  ASSUME StoreInv, UNCHANGED may, NEW c \in Calls, NEW p \in Users, NEW t \in Store!Tasks,
         Store!Reuse(c, p, t)
  PROVE  StoreInv'
<1> DEFINE k == [pc |-> "sent", who |-> p, task |-> t, saw |-> {}]
<1>1. call' = [call EXCEPT ![c] = k] /\ call[c].pc # "trimming" /\ UNCHANGED <<row, victims, drawn, idle>>
  BY DEF Store!Reuse, Store!Sends
<1>2. CallFits(k)
  <2>1. t \in 1..drawn /\ t \in 0..MaxTasks /\ Store!Reaches(p, t)
    BY ReachedTask DEF Store!Reuse
  <2> QED
    BY <2>1 DEF CallFits, Store!Reaches
<1> HIDE DEF k
<1> QED
  BY <1>1, <1>2, RowsAlone, CallMoves

(* The invariant is kept when tasks of the caller are shown to him. *)
LEMMA ShowsKeeps ==
  ASSUME StoreInv, UNCHANGED may, NEW c \in Calls, NEW p \in Users, NEW S, Store!Shows(c, p, S),
         \A t \in S : t \in Store!Tasks /\ Store!Live(t) /\ row[t].owner = p
  PROVE  StoreInv'
<1> DEFINE k == [Store!NotYet EXCEPT !.pc = "read", !.who = p, !.saw = Store!Said(S)]
<1>1. call' = [call EXCEPT ![c] = k] /\ call[c].pc # "trimming" /\ UNCHANGED <<row, victims, drawn, idle>>
  BY DEF Store!Shows
<1>2. CallFits(k)
  <2>1. Store!Said(S) \subseteq {p}
    BY OwnSaid
  <2>2. 0 \in 0..MaxTasks
    BY DEF StoreInv, Store!ConstantsOK
  <2> QED
    BY <2>1, <2>2 DEF CallFits, Store!NotYet
<1> HIDE DEF k
<1> QED
  BY <1>1, <1>2, RowsAlone, CallMoves

(* The invariant is kept when one task or a listing is read. *)
LEMMA ReadsKeep ==
  ASSUME StoreInv, UNCHANGED may, NEW c \in Calls, NEW p \in Users,
         \/ \E t \in Store!Tasks : Store!getTask(c, p, t)
         \/ \E a \in Agents : Store!listTasks(c, p, a)
  PROVE  StoreInv'
<1>1. ASSUME NEW t \in Store!Tasks, Store!getTask(c, p, t) PROVE StoreInv'
  BY <1>1, ShowsKeeps DEF Store!getTask, Store!Reaches
<1>2. ASSUME NEW a \in Agents, Store!listTasks(c, p, a) PROVE StoreInv'
  <2> DEFINE S == {t \in Store!Rows : row[t].agent = a /\ row[t].owner = p}
  <2>1. Store!Shows(c, p, S) /\ \A t \in S : t \in Store!Tasks /\ Store!Live(t) /\ row[t].owner = p
    BY <1>2 DEF Store!listTasks, Store!Rows
  <2> HIDE DEF S
  <2> QED
    BY <2>1, ShowsKeeps
<1> QED
  BY <1>1, <1>2

(* The invariant is kept when a cancel has read its task. *)
LEMMA CancelReadsKeeps ==
  ASSUME StoreInv, UNCHANGED may, NEW c \in Calls, NEW p \in Users, NEW t \in Store!Tasks,
         Store!CancelReads(c, p, t)
  PROVE  StoreInv'
<1> DEFINE k == [Store!NotYet EXCEPT !.pc = "cancel", !.who = p, !.task = t]
<1>1. call' = [call EXCEPT ![c] = k] /\ call[c].pc # "trimming" /\ UNCHANGED <<row, victims, drawn, idle>>
  BY DEF Store!CancelReads
<1>2. CallFits(k)
  <2>1. t \in 1..drawn /\ t \in 0..MaxTasks /\ Store!Reaches(p, t)
    BY ReachedTask DEF Store!CancelReads
  <2> QED
    BY <2>1 DEF CallFits, Store!Reaches, Store!NotYet
<1> HIDE DEF k
<1> QED
  BY <1>1, <1>2, RowsAlone, CallMoves

(* The invariant is kept when a call ends without a write. *)
LEMMA EndsKeeps ==
  ASSUME StoreInv, UNCHANGED may, NEW c \in Calls, Store!NotFound(c) \/ Store!Preserved(c) \/ Store!Answered(c)
  PROVE  StoreInv'
<1>1. call' = [call EXCEPT ![c] = Store!NotYet] /\ call[c].pc # "trimming" /\ UNCHANGED <<row, victims, drawn, idle>>
  BY DEF Store!NotFound, Store!Preserved, Store!Answered
<1>2. CallFits(Store!NotYet)
  BY OverFits DEF StoreInv
<1> QED
  BY <1>1, <1>2, RowsAlone, CallMoves

(* The invariant is kept when a turn is shown its context. *)
LEMMA LoadKeeps ==
  ASSUME StoreInv, UNCHANGED may, NEW c \in Calls, Store!loadByContextId(c)
  PROVE  StoreInv'
<1> PICK t : t = call[c].task
  OBVIOUS
<1> DEFINE before == IF Store!Live(t) THEN Store!OwnOfContext(row[t].agent, row[t].ctx, call[c].who) \ {t} ELSE {}
           saw == Store!Said(Store!Newest(before)) \cup (IF Store!Live(t) THEN row[t].said ELSE {})
           k == [call[c] EXCEPT !.pc = "shown", !.saw = saw]
<1>1. /\ call[c].pc = "working" /\ UNCHANGED <<row, victims, drawn, idle>>
      /\ call' = [call EXCEPT ![c].pc = "shown", ![c].saw = saw]
  BY DEF Store!loadByContextId
<1>2. CallFits(call[c]) /\ t \in Store!Tasks
  BY <1>1, CallType DEF CallFits, StoreInv, Store!ConstantsOK, Store!TypeOK, Store!Tasks
<1>3. Store!Said(Store!Newest(before)) \subseteq {call[c].who}
  <2>1. \A u \in Store!Newest(before) : u \in Store!Tasks /\ Store!Live(u) /\ row[u].owner = call[c].who
    BY DEF Store!Newest, Store!OwnOfContext, Store!Rows
  <2> PICK S : S = Store!Newest(before)
    OBVIOUS
  <2> PICK p : p = call[c].who
    OBVIOUS
  <2>2. \A u \in S : u \in Store!Tasks /\ Store!Live(u) /\ row[u].owner = p
    BY <2>1
  <2>3. \A u \in S : row[u].said \subseteq {p}
    BY <2>2 DEF StoreInv, RowsFit
  <2>4. Store!Said(S) \subseteq {p}
    BY <2>3 DEF Store!Said
  <2> QED
    BY <2>4
<1>4. Store!Live(t) => row[t].said \subseteq {call[c].who}
  BY <1>1, <1>2 DEF CallFits, StoreInv, RowsFit
<1>5. saw \subseteq {call[c].who}
  BY <1>3, <1>4
<1> HIDE DEF saw, before
<1>6. call' = [call EXCEPT ![c] = k] /\ CallFits(k)
  BY <1>1, <1>2, <1>5 DEF CallFits, StoreInv, Store!TypeOK
<1> HIDE DEF k
<1> QED
  BY <1>1, <1>6, RowsAlone, CallMoves

(* The invariant is kept by the writes of a call. *)
LEMMA WritesKeep ==
  ASSUME StoreInv, UNCHANGED may, NEW c \in Calls, Store!Works(c) \/ Store!Finishes(c) \/ Store!CancelWrites(c)
  PROVE  StoreInv'
<1> PICK t : t = call[c].task
  OBVIOUS
<1>1. /\ call[c].pc \in {"sent", "shown", "cancel"} /\ Store!Live(t) /\ UNCHANGED <<victims, drawn, idle>>
      /\ \E state \in Store!States, who \in {{}, {call[c].who}}, named \in {None, call[c].who} :
           Store!writeTask(t, state, who, named)
      /\ \/ call' = [call EXCEPT ![c] = [call[c] EXCEPT !.pc = call'[c].pc]]
         \/ call' = [call EXCEPT ![c] = Store!NotYet]
      /\ call'[c].pc \in {"idle", "working", "trim"}
  <2>0. call \in [Calls -> [pc : {"idle", "sent", "working", "shown", "trim", "trimming", "cancel", "read"},
                            who : Users \cup {None}, task : 0..MaxTasks, saw : SUBSET Users]]
    BY DEF StoreInv, Store!TypeOK
  <2>a. ASSUME NEW q, call' = [call EXCEPT ![c].pc = q]
        PROVE  call' = [call EXCEPT ![c] = [call[c] EXCEPT !.pc = call'[c].pc]] /\ call'[c].pc = q
    BY <2>0, <2>a
  <2>1. CASE Store!Works(c)
    <3>1. call' = [call EXCEPT ![c].pc = "working"] /\ Store!writeTask(t, "working", {call[c].who}, call[c].who)
      BY <2>1 DEF Store!Works
    <3> QED
      BY <2>1, <2>a, <3>1 DEF Store!Works, Store!States
  <2>2. CASE Store!Finishes(c)
    <3>1. call' = [call EXCEPT ![c].pc = "trim"]
          /\ \E verdict \in {"completed", "canceled"} : Store!writeTask(t, verdict, {call[c].who}, call[c].who)
      BY <2>2 DEF Store!Finishes
    <3> QED
      BY <2>2, <2>a, <3>1 DEF Store!Finishes, Store!States
  <2>3. CASE Store!CancelWrites(c)
    <3>1. /\ call' = [call EXCEPT ![c] = Store!NotYet] /\ call'[c] = Store!NotYet
          /\ Store!writeTask(t, "canceled", {}, None)
      BY <2>0, <2>3 DEF Store!CancelWrites
    <3> QED
      BY <2>3, <3>1 DEF Store!CancelWrites, Store!States, Store!NotYet
  <2> QED
    BY <2>1, <2>2, <2>3
<1>2. CallFits(call[c]) /\ t \in Store!Tasks
  BY <1>1, CallType DEF CallFits, StoreInv, Store!ConstantsOK, Store!TypeOK, Store!Tasks
<1>3. row[t].owner = call[c].who
  BY <1>1, <1>2 DEF CallFits
<1>4. Steady /\ RowsFit' /\ row' \in [Store!Tasks -> Store!RowRecords \cup {None}]
  <2>1. PICK state \in Store!States, who \in {{}, {call[c].who}}, named \in {None, call[c].who} :
          Store!writeTask(t, state, who, named)
    BY <1>1
  <2>2. who \subseteq {row[t].owner}
    BY <1>3
  <2> QED
    BY <1>1, <1>2, <2>1, <2>2, Written
<1>5. CASE call' = [call EXCEPT ![c] = Store!NotYet]
  BY <1>1, <1>4, <1>5, OverFits, CallMoves DEF StoreInv
<1>6. CASE call' = [call EXCEPT ![c] = [call[c] EXCEPT !.pc = call'[c].pc]]
  <2> PICK q : q = call'[c].pc
    OBVIOUS
  <2> DEFINE k == [call[c] EXCEPT !.pc = q]
  <2>1. call' = [call EXCEPT ![c] = k] /\ q \in {"idle", "working", "trim"}
    BY <1>1, <1>6
  <2>2. CallFits(k)
    BY <1>1, <1>2, <2>1 DEF CallFits
  <2> HIDE DEF k
  <2> QED
    BY <1>1, <1>4, <2>1, <2>2, CallMoves
<1> QED
  BY <1>1, <1>5, <1>6

(* The invariant is kept when retentionDays go by. *)
LEMMA IdlesKeeps == ASSUME StoreInv, UNCHANGED may, Store!Idles PROVE StoreInv'
<1>1. /\ idle' = idle + 1 /\ idle < MaxIdle /\ UNCHANGED <<call, victims, drawn>>
      /\ row' = [t \in Store!Tasks |-> IF Store!Live(t) THEN [row[t] EXCEPT !.old = TRUE] ELSE None]
  BY DEF Store!Idles
<1>2. \A t \in Store!Tasks : Store!Live(t) => /\ row[t] \in Store!RowRecords /\ row'[t] = [row[t] EXCEPT !.old = TRUE]
                                              /\ row'[t] \in Store!RowRecords /\ row'[t].said = row[t].said
                                              /\ row'[t].agent = row[t].agent /\ row'[t].ctx = row[t].ctx
                                              /\ row'[t].owner = row[t].owner
  <2> SUFFICES ASSUME NEW t \in Store!Tasks, Store!Live(t)
               PROVE  /\ row[t] \in Store!RowRecords /\ row'[t] = [row[t] EXCEPT !.old = TRUE]
                      /\ row'[t] \in Store!RowRecords /\ row'[t].said = row[t].said
                      /\ row'[t].agent = row[t].agent /\ row'[t].ctx = row[t].ctx
                      /\ row'[t].owner = row[t].owner
    OBVIOUS
  <2>1. row[t] \in Store!RowRecords
    BY DEF StoreInv, Store!TypeOK, Store!Live
  <2>2. row'[t] = [row[t] EXCEPT !.old = TRUE]
    BY <1>1
  <2> QED
    BY <2>1, <2>2 DEF Store!RowRecords
<1>3. Steady
  BY <1>1, <1>2 DEF Steady, Store!Live, StoreInv, Store!ConstantsOK
<1>4. Store!TypeOK'
  BY <1>1, <1>2 DEF StoreInv, Store!TypeOK, Store!ConstantsOK
<1>5. RowsFit'
  BY <1>1, <1>2 DEF StoreInv, RowsFit, Store!Live
<1>6. CallsFit'
  <2>1. \A t \in 1..drawn : t \in Store!Tasks
    BY DEF StoreInv, Store!TypeOK, Store!ConstantsOK, Store!Tasks
  <2> QED
    BY <1>1, <1>3, <2>1 DEF StoreInv, CallsFit, Busy, Steady, Store!Live
<1>7. \A c \in Calls : victims[c] # {} => call'[c].pc = "trimming"
  BY <1>1 DEF StoreInv, VictimsFit
<1> QED
  BY <1>1, <1>3, <1>4, <1>5, <1>6, <1>7, SteadyKeeps

(* The invariant is kept when a task is created: nobody is to delete it.        *)
LEMMA CreateTaskKeeps ==
  ASSUME StoreInv, UNCHANGED may, NEW c \in Calls, NEW p \in Users, NEW a \in Agents, NEW x \in Contexts,
         Store!createTask(c, p, a, x)
  PROVE  StoreInv'
<1> DEFINE n == drawn + 1
           r == [agent |-> a, ctx |-> x, owner |-> p, state |-> "submitted", old |-> FALSE, said |-> {}]
           k == [pc |-> "sent", who |-> p, task |-> n, saw |-> {}]
<1>1. /\ drawn < MaxTasks /\ drawn' = n /\ call[c].pc = "idle" /\ UNCHANGED <<victims, idle>>
      /\ row' = [row EXCEPT ![n] = r] /\ call' = [call EXCEPT ![c] = k]
  BY DEF Store!createTask, Store!Sends
<1>2. /\ Store!ConstantsOK /\ Store!TypeOK /\ CallsFit /\ RowsFit /\ VictimsFit /\ Backed /\ Swept
      /\ drawn \in Nat /\ MaxTasks \in Nat
  BY DEF StoreInv, Store!TypeOK, Store!ConstantsOK
<1>3. /\ n \in Store!Tasks /\ n \in 1..drawn' /\ n \in 0..MaxTasks /\ drawn' \in 0..MaxTasks /\ ~Store!Live(n)
      /\ \A t \in 1..drawn : t \in Store!Tasks /\ t # n /\ t \in 1..drawn'
      /\ \A t \in Store!Tasks : t <= drawn => t <= drawn'
  BY <1>1, <1>2 DEF Store!Tasks, RowsFit
<1>4. r \in Store!RowRecords /\ r # None /\ r.said = {} /\ r.owner = p
  <2>1. r \in Store!RowRecords /\ r.said = {} /\ r.owner = p
    BY DEF Store!RowRecords, Store!States
  <2> HIDE DEF r
  <2> QED
    BY <1>2, <2>1 DEF Store!ConstantsOK
<1>5. k.pc = "sent" /\ k.who = p /\ k.task = n /\ k.saw = {}
      /\ k \in [pc : {"idle", "sent", "working", "shown", "trim", "trimming", "cancel", "read"},
                who : Users \cup {None}, task : 0..MaxTasks, saw : SUBSET Users]
  BY <1>3
<1> HIDE DEF n, r, k
<1>6. row'[n] = r /\ \A t \in Store!Tasks : t # n => row'[t] = row[t]
  BY <1>1, <1>2, <1>3 DEF Store!TypeOK
<1>7. call'[c] = k /\ \A d \in Calls : d # c => call'[d] = call[d]
  BY <1>1, <1>2 DEF Store!TypeOK
<1>8. Store!TypeOK'
  BY <1>1, <1>2, <1>3, <1>4, <1>5 DEF Store!TypeOK
<1>9. CallsFit'
  <2> SUFFICES ASSUME NEW d \in Calls
               PROVE  /\ call'[d].pc # "idle" => call'[d].who \in Users
                      /\ Busy(d)' => /\ call'[d].task \in 1..drawn'
                                     /\ row'[call'[d].task] # None => row'[call'[d].task].owner = call'[d].who
                      /\ call'[d].saw \subseteq {call'[d].who}
    BY DEF CallsFit, Store!Live
  <2>1. CASE d = c
    BY <1>3, <1>4, <1>5, <1>6, <1>7, <2>1
  <2>2. CASE d # c
    BY <1>2, <1>3, <1>6, <1>7, <2>2 DEF CallsFit, Busy, Store!Live
  <2> QED
    BY <2>1, <2>2
<1>10. RowsFit'
  BY <1>2, <1>3, <1>4, <1>6 DEF RowsFit, Store!Live
<1>11. VictimsFit'
  BY <1>1, <1>2, <1>3, <1>7 DEF VictimsFit
<1>12. \A t \in Store!Tasks : t # n => (Store!Live(t)' <=> Store!Live(t))
  BY <1>6 DEF Store!Live
<1>13. \A s \in Calls \cup {Store!Prune} : \A t \in victims[s] : t \in Store!Tasks /\ t # n
  BY <1>2, <1>3 DEF VictimsFit
<1>14. Backed'
  <2> SUFFICES ASSUME NEW d \in Calls, NEW t \in victims[d], Store!Live(t)'
               PROVE  Cardinality(Above(t)') >= Cap
    BY <1>1 DEF Backed
  <2>1. t \in Store!Tasks /\ t # n /\ Store!Live(t) /\ row'[t] = row[t]
    BY <1>6, <1>12, <1>13
  <2>2. Cardinality(Above(t)) >= Cap
    BY <1>2, <2>1 DEF Backed
  <2>3. Above(t) \subseteq Above(t)'
    <3> SUFFICES ASSUME NEW u \in Above(t) PROVE u \in Above(t)'
      OBVIOUS
    <3>1. u \in Store!Tasks /\ Store!Live(u) /\ u # n
      BY <1>3 DEF Above, Store!OwnOfContext, Store!Rows
    <3>2. row'[u] = row[u] /\ Store!Live(u)'
      BY <1>6, <1>12, <3>1
    <3> QED
      BY <2>1, <3>1, <3>2 DEF Above, Store!OwnOfContext, Store!Rows
  <2>4. Above(t)' \subseteq Store!Tasks
    BY DEF Above, Store!OwnOfContext, Store!Rows
  <2>5. /\ Cardinality(Above(t)) \in Nat /\ Cardinality(Above(t)') \in Nat
        /\ Cardinality(Above(t)) <= Cardinality(Above(t)')
    BY <1>2, <2>3, <2>4, MoreTasks
  <2> QED
    BY <1>2, <2>2, <2>5 DEF Store!ConstantsOK
<1>15. Swept'
  <2> SUFFICES ASSUME NEW t \in Store!Tasks, NEW u \in victims[Store!Prune],
                      Store!Live(u)', Store!Live(t)', t < u,
                      row'[t].agent = row'[u].agent, row'[t].ctx = row'[u].ctx
               PROVE  t \in victims[Store!Prune]
    BY <1>1 DEF Swept
  <2>1. u \in Store!Tasks /\ u # n /\ u \in 1..drawn
    BY <1>2, <1>13 DEF VictimsFit
  <2>2. t # n
    BY <1>1, <1>2, <2>1 DEF n
  <2> QED
    BY <1>2, <1>6, <1>12, <2>1, <2>2 DEF Swept
<1> QED
  BY <1>2, <1>8, <1>9, <1>10, <1>11, <1>14, <1>15 DEF StoreInv

-----------------------------------------------------------------------------
(* Retention.                                                                  *)

(* What is newer than t in a set of tasks. *)
Newer(S, t) == {v \in S : v > t}

(* Who is not among the Cap newest of a set has Cap newer ones in it. *)
LEMMA BeyondIsBacked ==
  ASSUME Store!ConstantsOK, NEW S, S \subseteq Store!Tasks, NEW t \in Store!Beyond(S)
  PROVE  t \in S /\ Cardinality(Newer(S, t)) >= Cap
<1>1. Newer(S, t) \subseteq Store!Tasks
  BY DEF Newer
<1>2. Cardinality(Newer(S, t)) \in Nat
  BY <1>1, MoreTasks
<1> QED
  BY <1>2, SameCardinality DEF Store!Beyond, Store!Newest, Newer, Store!ConstantsOK

(* The invariant is kept when a trim chooses what to delete.                    *)
LEMMA TrimScansKeeps ==
  ASSUME StoreInv, UNCHANGED may, NEW c \in Calls, Store!TrimScans(c)
  PROVE  StoreInv'
<1> PICK t : t = call[c].task
  OBVIOUS
<1> PICK own : own = Store!OwnOfContext(row[t].agent, row[t].ctx, call[c].who)
  OBVIOUS
<1> PICK ended : ended = IF Store!Live(t) THEN {u \in own : row[u].state \in Store!Ended} ELSE {}
  OBVIOUS
<1>1. /\ call[c].pc = "trim" /\ victims' = [victims EXCEPT ![c] = Store!Beyond(ended)]
      /\ call' = [call EXCEPT ![c].pc = "trimming"] /\ UNCHANGED <<row, drawn, idle>>
  BY DEF Store!TrimScans
<1>2. /\ Store!ConstantsOK /\ Store!TypeOK /\ CallsFit /\ RowsFit /\ VictimsFit /\ Backed /\ Swept
      /\ c # Store!Prune /\ drawn \in Nat
  BY DEF StoreInv, Store!ConstantsOK, Store!TypeOK
<1>3. \A u \in own : /\ u \in Store!Tasks /\ Store!Live(u) /\ u \in 1..drawn
                     /\ row[u].agent = row[t].agent /\ row[u].ctx = row[t].ctx
                     /\ row[u].owner = call[c].who
  BY <1>2 DEF Store!OwnOfContext, Store!Rows, RowsFit, Store!Tasks, Store!ConstantsOK
<1>4. ended \subseteq own /\ ended \subseteq Store!Tasks
  BY <1>3
<1>5. /\ victims'[c] = Store!Beyond(ended)
      /\ \A s \in Calls \cup {Store!Prune} : s # c => victims'[s] = victims[s]
  BY <1>1, <1>2 DEF Store!TypeOK
<1>6. /\ call'[c] = [call[c] EXCEPT !.pc = "trimming"] /\ call'[c].pc = "trimming"
      /\ call'[c].task = call[c].task /\ call'[c].who = call[c].who /\ call'[c].saw = call[c].saw
      /\ \A d \in Calls : d # c => call'[d] = call[d]
  BY <1>1, <1>2 DEF Store!TypeOK
<1>7. \A u \in Store!Beyond(ended) : u \in own /\ Cardinality(Above(u)) >= Cap
  <2> SUFFICES ASSUME NEW u \in Store!Beyond(ended) PROVE u \in own /\ Cardinality(Above(u)) >= Cap
    OBVIOUS
  <2>1. u \in ended /\ Cardinality(Newer(ended, u)) >= Cap
    <3>1. Store!ConstantsOK /\ ended \subseteq Store!Tasks
      BY <1>2, <1>4
    <3> QED
      BY <3>1, BeyondIsBacked
  <2>2. Newer(ended, u) \subseteq Above(u) /\ Above(u) \subseteq Store!Tasks
    BY <1>3, <1>4, <2>1 DEF Newer, Above, Store!OwnOfContext, Store!Rows
  <2>3. /\ Cardinality(Newer(ended, u)) \in Nat /\ Cardinality(Above(u)) \in Nat
        /\ Cardinality(Newer(ended, u)) <= Cardinality(Above(u))
    BY <1>2, <2>2, MoreTasks
  <2> QED
    BY <1>2, <1>4, <2>1, <2>3 DEF Store!ConstantsOK
<1>8. Store!TypeOK'
  <2>1. Store!Beyond(ended) \in SUBSET Store!Tasks
    BY <1>3, <1>7
  <2> QED
    BY <1>1, <1>2, <2>1 DEF Store!TypeOK
<1>9. CallsFit'
  BY <1>1, <1>2, <1>6 DEF CallsFit, Busy, Store!Live
<1>10. VictimsFit'
  <2>1. Store!Beyond(ended) \subseteq 1..drawn
    BY <1>3, <1>7
  <2>2. \A s \in Calls \cup {Store!Prune} : victims'[s] \subseteq 1..drawn
    BY <1>2, <1>5, <2>1 DEF VictimsFit
  <2>3. \A d \in Calls : victims'[d] # {} => call'[d].pc = "trimming"
    BY <1>2, <1>5, <1>6 DEF VictimsFit
  <2> QED
    BY <1>1, <2>2, <2>3 DEF VictimsFit
<1>11. Backed'
  <2> SUFFICES ASSUME NEW d \in Calls, NEW u \in victims'[d], Store!Live(u)
               PROVE  Cardinality(Above(u)) >= Cap
    BY <1>1 DEF Backed, Store!Live, Above, Store!OwnOfContext, Store!Rows
  <2>1. CASE d = c
    BY <1>5, <1>7, <2>1
  <2>2. CASE d # c
    BY <1>2, <1>5, <2>2 DEF Backed
  <2> QED
    BY <2>1, <2>2
<1>12. Swept' /\ RowsFit'
  BY <1>1, <1>2, <1>5 DEF Swept, RowsFit, Store!Live
<1> QED
  BY <1>2, <1>8, <1>9, <1>10, <1>11, <1>12 DEF StoreInv

(* The invariant is kept when the sweep chooses its contexts.                   *)
LEMMA PruneScansKeeps == ASSUME StoreInv, UNCHANGED may, Store!PruneScans PROVE StoreInv'
<1> PICK V : V = {t \in Store!Rows : Store!Stale(Store!Pair(t))}
  OBVIOUS
<1>1. victims' = [victims EXCEPT ![Store!Prune] = V] /\ UNCHANGED <<row, call, drawn, idle>>
  BY DEF Store!PruneScans
<1>2. /\ Store!ConstantsOK /\ Store!TypeOK /\ CallsFit /\ RowsFit /\ VictimsFit /\ Backed /\ Swept
      /\ Store!Prune \notin Calls
  BY DEF StoreInv, Store!ConstantsOK
<1>3. victims'[Store!Prune] = V /\ \A c \in Calls : victims'[c] = victims[c]
  BY <1>1, <1>2 DEF Store!TypeOK
<1>4. V \subseteq Store!Tasks /\ V \subseteq 1..drawn
  BY <1>2 DEF Store!Rows, RowsFit, Store!Tasks, Store!TypeOK, Store!ConstantsOK
<1>5. Store!TypeOK'
  BY <1>1, <1>2, <1>4 DEF Store!TypeOK
<1>6. VictimsFit'
  BY <1>1, <1>2, <1>3, <1>4 DEF VictimsFit
<1>7. Backed' /\ CallsFit' /\ RowsFit'
  BY <1>1, <1>2, <1>3 DEF Backed, CallsFit, RowsFit, Busy, Store!Live, Above, Store!OwnOfContext, Store!Rows
<1>8. Swept'
  <2> SUFFICES ASSUME NEW t \in Store!Tasks, NEW u \in V, Store!Live(u), Store!Live(t),
                      row[t].agent = row[u].agent, row[t].ctx = row[u].ctx
               PROVE  t \in V
    BY <1>1, <1>3 DEF Swept, Store!Live
  <2>1. Store!Pair(t) = Store!Pair(u)
    BY DEF Store!Pair
  <2> QED
    BY <2>1 DEF Store!Rows
<1> QED
  BY <1>2, <1>5, <1>6, <1>7, <1>8 DEF StoreInv


(* What a statement deletes, and what it leaves. *)
LEMMA Deleted ==
  ASSUME StoreInv, UNCHANGED may, NEW s \in Calls \cup {Store!Prune}, Store!Deletes(s), UNCHANGED <<drawn, idle>>,
         NEW V, V = victims[s]
  PROVE  /\ \A t \in Store!Tasks : /\ Store!Live(t)' <=> Store!Live(t) /\ t \notin V
                                   /\ t \notin V => row'[t] = row[t]
         /\ victims'[s] = {} /\ \A d \in Calls \cup {Store!Prune} : d # s => victims'[d] = victims[d]
         /\ row' \in [Store!Tasks -> Store!RowRecords \cup {None}]
         /\ victims' \in [Calls \cup {Store!Prune} -> SUBSET Store!Tasks]
         /\ RowsFit'
<1>1. /\ row' = [t \in Store!Tasks |-> IF t \in V THEN None ELSE row[t]]
      /\ victims' = [victims EXCEPT ![s] = {}]
  BY DEF Store!Deletes
<1>2. /\ row \in [Store!Tasks -> Store!RowRecords \cup {None}]
      /\ victims \in [Calls \cup {Store!Prune} -> SUBSET Store!Tasks] /\ RowsFit
  BY DEF StoreInv, Store!TypeOK
<1>3. \A t \in Store!Tasks : /\ Store!Live(t)' <=> Store!Live(t) /\ t \notin V
                             /\ t \notin V => row'[t] = row[t]
  BY <1>1 DEF Store!Live
<1>4. /\ victims'[s] = {} /\ \A d \in Calls \cup {Store!Prune} : d # s => victims'[d] = victims[d]
      /\ victims' \in [Calls \cup {Store!Prune} -> SUBSET Store!Tasks]
  BY <1>1, <1>2
<1>5. row' \in [Store!Tasks -> Store!RowRecords \cup {None}]
  BY <1>1, <1>2
<1>6. RowsFit'
  BY <1>2, <1>3 DEF RowsFit
<1> QED
  BY <1>3, <1>4, <1>5, <1>6

(* The invariant is kept when a trim deletes: what another trim is still to     *)
(* delete keeps Cap newer tasks beside it, those above the newest of the        *)
(* deleted ones if not all of its own.                                          *)
LEMMA TrimDeletesKeeps ==
  ASSUME StoreInv, UNCHANGED may, NEW c \in Calls, Store!TrimDeletes(c)
  PROVE  StoreInv'
<1> PICK V : V = victims[c]
  OBVIOUS
<1>1. /\ Store!Deletes(c) /\ call' = [call EXCEPT ![c] = Store!NotYet] /\ UNCHANGED <<drawn, idle>>
  BY DEF Store!TrimDeletes
<1>2. /\ Store!ConstantsOK /\ Store!TypeOK /\ CallsFit /\ RowsFit /\ VictimsFit /\ Backed /\ Swept
      /\ c # Store!Prune /\ drawn \in Nat
  BY DEF StoreInv, Store!ConstantsOK, Store!TypeOK
<1>3. /\ \A t \in Store!Tasks : /\ Store!Live(t)' <=> Store!Live(t) /\ t \notin V
                                /\ t \notin V => row'[t] = row[t]
      /\ victims'[c] = {} /\ \A d \in Calls \cup {Store!Prune} : d # c => victims'[d] = victims[d]
      /\ row' \in [Store!Tasks -> Store!RowRecords \cup {None}]
      /\ victims' \in [Calls \cup {Store!Prune} -> SUBSET Store!Tasks]
      /\ RowsFit'
  BY <1>1, Deleted
<1>4. /\ call'[c] = Store!NotYet /\ \A d \in Calls : d # c => call'[d] = call[d]
      /\ CallFits(Store!NotYet)
  BY <1>1, <1>2, OverFits DEF Store!TypeOK
<1>5. \A t \in 1..drawn : t \in Store!Tasks
  BY <1>2 DEF Store!TypeOK, Store!Tasks, Store!ConstantsOK
<1>6. Store!TypeOK'
  BY <1>1, <1>2, <1>3, <1>4 DEF Store!TypeOK, CallFits
<1>7. CallsFit'
  <2> SUFFICES ASSUME NEW d \in Calls
               PROVE  /\ call'[d].pc # "idle" => call'[d].who \in Users
                      /\ Busy(d)' => /\ call'[d].task \in 1..drawn'
                                     /\ Store!Live(call[d].task)' => row'[call'[d].task].owner = call'[d].who
                      /\ call'[d].saw \subseteq {call'[d].who}
    BY DEF CallsFit
  <2>1. CASE d = c
    BY <1>4, <2>1 DEF Store!NotYet, Busy
  <2>2. CASE d # c
    BY <1>1, <1>2, <1>3, <1>4, <1>5, <2>2 DEF CallsFit, Busy, Store!Live
  <2> QED
    BY <2>1, <2>2
<1>8. VictimsFit'
  <2>1. \A s \in Calls \cup {Store!Prune} : victims'[s] \subseteq 1..drawn
    BY <1>2, <1>3 DEF VictimsFit
  <2>2. \A d \in Calls : victims'[d] # {} => call'[d].pc = "trimming"
    BY <1>2, <1>3, <1>4 DEF VictimsFit
  <2> QED
    BY <1>1, <2>1, <2>2 DEF VictimsFit
<1>9. Backed'
  <2> SUFFICES ASSUME NEW d \in Calls, NEW t \in victims'[d], Store!Live(t)'
               PROVE  Cardinality(Above(t)') >= Cap
    BY DEF Backed
  <2>1. /\ d # c /\ t \in victims[d] /\ t \in Store!Tasks /\ Store!Live(t) /\ t \notin V
        /\ row'[t] = row[t] /\ t \in Nat
    BY <1>2, <1>3 DEF Store!TypeOK, Store!Tasks
  <2>2. Cardinality(Above(t)) >= Cap
    BY <1>2, <2>1 DEF Backed
  <2> DEFINE Gone == {u \in Above(t) : u \in V}
  <2>3. PICK B : B \subseteq Above(t) /\ Cardinality(B) >= Cap /\ \A u \in B : u \notin V
    <3>1. CASE Gone = {}
      BY <2>2, <3>1
    <3>2. CASE Gone # {}
      <4>1. Gone \subseteq 1..MaxTasks /\ MaxTasks \in Nat
        BY <1>2 DEF Above, Store!OwnOfContext, Store!Rows, Store!Tasks, Store!ConstantsOK
      <4>2. PICK m \in Gone : \A u \in Gone : u <= m
        BY <3>2, <4>1, Largest
      <4>3. /\ m \in V /\ m \in Store!Tasks /\ Store!Live(m) /\ m > t /\ m \in Nat
            /\ row[m].agent = row[t].agent /\ row[m].ctx = row[t].ctx /\ row[m].owner = row[t].owner
        BY <4>1, <4>2 DEF Above, Store!OwnOfContext, Store!Rows
      <4>4. Cardinality(Above(m)) >= Cap
        BY <1>2, <4>3 DEF Backed
      <4>5. \A u \in Above(m) : u \in Above(t) /\ u \notin V
        <5> SUFFICES ASSUME NEW u \in Above(m) PROVE u \in Above(t) /\ u \notin V
          OBVIOUS
        <5>1. u \in Nat /\ u > m
          BY DEF Above, Store!OwnOfContext, Store!Rows, Store!Tasks
        <5>2. u > t /\ ~(u <= m)
          BY <2>1, <4>3, <5>1
        <5>3. u \in Above(t)
          BY <4>3, <5>2 DEF Above
        <5> QED
          BY <4>2, <5>2, <5>3
      <4> QED
        BY <4>4, <4>5
    <3> QED
      BY <3>1, <3>2
  <2>4. B \subseteq Above(t)'
    BY <1>3, <2>1, <2>3 DEF Above, Store!OwnOfContext, Store!Rows
  <2>5. Above(t)' \subseteq Store!Tasks
    BY DEF Above, Store!OwnOfContext, Store!Rows
  <2>6. /\ Cardinality(B) \in Nat /\ Cardinality(Above(t)') \in Nat
        /\ Cardinality(B) <= Cardinality(Above(t)')
    BY <1>2, <2>4, <2>5, MoreTasks
  <2> QED
    BY <1>2, <2>3, <2>6 DEF Store!ConstantsOK
<1>10. Swept'
  BY <1>2, <1>3 DEF Swept
<1> QED
  BY <1>2, <1>3, <1>6, <1>7, <1>8, <1>9, <1>10 DEF StoreInv

(* The invariant is kept when the sweep deletes: with a task it deletes all     *)
(* that are older in its context, so nothing above what is left goes.           *)
LEMMA PruneDeletesKeeps == ASSUME StoreInv, UNCHANGED may, Store!PruneDeletes PROVE StoreInv'
<1> PICK V : V = victims[Store!Prune]
  OBVIOUS
<1>1. Store!Deletes(Store!Prune) /\ UNCHANGED <<call, drawn, idle>>
  BY DEF Store!PruneDeletes
<1>2. /\ Store!ConstantsOK /\ Store!TypeOK /\ CallsFit /\ RowsFit /\ VictimsFit /\ Backed /\ Swept
      /\ Store!Prune \notin Calls /\ drawn \in Nat
  BY DEF StoreInv, Store!ConstantsOK, Store!TypeOK
<1>3. /\ \A t \in Store!Tasks : /\ Store!Live(t)' <=> Store!Live(t) /\ t \notin V
                                /\ t \notin V => row'[t] = row[t]
      /\ victims'[Store!Prune] = {} /\ \A d \in Calls : victims'[d] = victims[d]
      /\ row' \in [Store!Tasks -> Store!RowRecords \cup {None}]
      /\ victims' \in [Calls \cup {Store!Prune} -> SUBSET Store!Tasks]
      /\ RowsFit'
  <2>1. Store!Prune \in Calls \cup {Store!Prune} /\ Store!Deletes(Store!Prune) /\ UNCHANGED <<drawn, idle>>
    BY <1>1
  <2>2. /\ \A t \in Store!Tasks : /\ Store!Live(t)' <=> Store!Live(t) /\ t \notin V
                                  /\ t \notin V => row'[t] = row[t]
        /\ victims'[Store!Prune] = {}
        /\ \A d \in Calls \cup {Store!Prune} : d # Store!Prune => victims'[d] = victims[d]
        /\ row' \in [Store!Tasks -> Store!RowRecords \cup {None}]
        /\ victims' \in [Calls \cup {Store!Prune} -> SUBSET Store!Tasks]
        /\ RowsFit'
    BY <2>1, Deleted
  <2>3. \A d \in Calls : victims'[d] = victims[d]
    BY <1>2, <2>2
  <2> QED
    BY <2>2, <2>3
<1>4. \A t \in 1..drawn : t \in Store!Tasks
  BY <1>2 DEF Store!TypeOK, Store!Tasks, Store!ConstantsOK
<1>5. Store!TypeOK'
  BY <1>1, <1>2, <1>3 DEF Store!TypeOK
<1>6. CallsFit'
  BY <1>1, <1>2, <1>3, <1>4 DEF CallsFit, Busy, Store!Live
<1>7. VictimsFit'
  BY <1>1, <1>2, <1>3 DEF VictimsFit
<1>8. Backed'
  <2> SUFFICES ASSUME NEW d \in Calls, NEW t \in victims'[d], Store!Live(t)'
               PROVE  Cardinality(Above(t)') >= Cap
    BY DEF Backed
  <2>1. t \in victims[d] /\ t \in Store!Tasks /\ Store!Live(t) /\ t \notin V /\ row'[t] = row[t] /\ t \in Nat
    BY <1>2, <1>3 DEF Store!TypeOK, Store!Tasks
  <2>2. Cardinality(Above(t)) >= Cap
    BY <1>2, <2>1 DEF Backed
  <2>3. Above(t) \subseteq Above(t)'
    <3> SUFFICES ASSUME NEW u \in Above(t) PROVE u \in Above(t)'
      OBVIOUS
    <3>1. /\ u \in Store!Tasks /\ Store!Live(u) /\ u > t /\ u \in Nat
          /\ row[u].agent = row[t].agent /\ row[u].ctx = row[t].ctx /\ row[u].owner = row[t].owner
      BY DEF Above, Store!OwnOfContext, Store!Rows, Store!Tasks
    <3>2. t < u
      BY <2>1, <3>1
    <3>3. u \notin V
      BY <1>2, <2>1, <3>1, <3>2 DEF Swept
    <3> QED
      BY <1>3, <2>1, <3>1, <3>3 DEF Above, Store!OwnOfContext, Store!Rows
  <2>4. Above(t)' \subseteq Store!Tasks
    BY DEF Above, Store!OwnOfContext, Store!Rows
  <2>5. /\ Cardinality(Above(t)) \in Nat /\ Cardinality(Above(t)') \in Nat
        /\ Cardinality(Above(t)) <= Cardinality(Above(t)')
    BY <1>2, <2>3, <2>4, MoreTasks
  <2> QED
    BY <1>2, <2>2, <2>5 DEF Store!ConstantsOK
<1>9. Swept'
  BY <1>3 DEF Swept
<1> QED
  BY <1>2, <1>3, <1>5, <1>6, <1>7, <1>8, <1>9 DEF StoreInv

-----------------------------------------------------------------------------
(* The invariant holds at the start.                                           *)
LEMMA StoreInit == Store!ConstantsOK /\ Store!Init => StoreInv
<1> SUFFICES ASSUME Store!ConstantsOK, Store!Init PROVE StoreInv
  OBVIOUS
<1>1. CallFits(Store!NotYet) /\ Store!NotYet.pc = "idle"
  BY OverFits DEF Store!NotYet
<1>2. /\ \A t \in Store!Tasks : row[t] = None
      /\ \A c \in Calls : call[c] = Store!NotYet
      /\ \A s \in Calls \cup {Store!Prune} : victims[s] = {}
      /\ drawn = 0 /\ idle = 0
  BY DEF Store!Init
<1>3. Store!TypeOK
  BY <1>1 DEF Store!Init, Store!TypeOK, Store!ConstantsOK, CallFits
<1>4. CallsFit
  BY <1>1, <1>2 DEF CallsFit, Busy, Store!NotYet
<1>5. RowsFit /\ VictimsFit /\ Backed /\ Swept
  BY <1>2 DEF RowsFit, VictimsFit, Backed, Swept, Store!Live
<1> QED
  BY <1>3, <1>4, <1>5 DEF StoreInv

(* The invariant is kept by every step.                                        *)
LEMMA StoreStep == StoreInv /\ [Store!Next]_(Store!vars) => StoreInv'
<1> SUFFICES ASSUME StoreInv, [Store!Next]_(Store!vars) PROVE StoreInv'
  OBVIOUS
<1>1. CASE UNCHANGED Store!vars
  BY <1>1 DEF Store!vars, StoreInv, Store!ConstantsOK, Store!TypeOK, CallsFit, RowsFit, VictimsFit, Backed, Swept,
              Busy, Store!Live, Above, Store!OwnOfContext, Store!Rows
<1>2. CASE Store!Next
  <2>0. UNCHANGED may /\ Store!Acts
    BY <1>2 DEF Store!Next
  <2>1. ASSUME NEW c \in Calls, NEW p \in Users, NEW a \in Agents, NEW x \in Contexts,
               Store!createTask(c, p, a, x)
        PROVE  StoreInv'
    BY <2>0, <2>1, CreateTaskKeeps
  <2>2. ASSUME NEW c \in Calls, NEW p \in Users, NEW t \in Store!Tasks,
               Store!Reuse(c, p, t) \/ Store!getTask(c, p, t) \/ Store!CancelReads(c, p, t)
        PROVE  StoreInv'
    BY <2>0, <2>2, ReuseKeeps, ReadsKeep, CancelReadsKeeps
  <2>3. ASSUME NEW c \in Calls, NEW p \in Users, NEW a \in Agents, Store!listTasks(c, p, a)
        PROVE  StoreInv'
    BY <2>0, <2>3, ReadsKeep
  <2>4. ASSUME NEW c \in Calls, Store!NotFound(c) \/ Store!Preserved(c) \/ Store!Answered(c) PROVE StoreInv'
    BY <2>0, <2>4, EndsKeeps
  <2>5. ASSUME NEW c \in Calls, Store!Works(c) \/ Store!Finishes(c) \/ Store!CancelWrites(c) PROVE StoreInv'
    BY <2>0, <2>5, WritesKeep
  <2>6. ASSUME NEW c \in Calls, Store!loadByContextId(c) PROVE StoreInv'
    BY <2>0, <2>6, LoadKeeps
  <2>7. ASSUME NEW c \in Calls, Store!TrimScans(c) \/ Store!TrimDeletes(c) PROVE StoreInv'
    BY <2>0, <2>7, TrimScansKeeps, TrimDeletesKeeps
  <2>8. ASSUME Store!Idles \/ Store!PruneScans \/ Store!PruneDeletes PROVE StoreInv'
    BY <2>0, <2>8, IdlesKeeps, PruneScansKeeps, PruneDeletesKeeps
  <2> QED
    BY <2>0, <2>1, <2>2, <2>3, <2>4, <2>5, <2>6, <2>7, <2>8 DEF Store!Acts
<1> QED
  BY <1>1, <1>2
(* The invariant holds throughout. *)
THEOREM StoreInvariant == Store!ConstantsOK /\ Store!Spec => []StoreInv
BY StoreInit, StoreStep, PTL DEF Store!Spec

(* Nobody is ever shown a message of somebody else. *)
THEOREM SeesOnlyItsOwnHolds == Store!ConstantsOK /\ Store!Spec => []Store!SeesOnlyItsOwn
<1>1. StoreInv => Store!SeesOnlyItsOwn
  BY DEF StoreInv, CallsFit, Store!SeesOnlyItsOwn
<1> QED
  BY <1>1, StoreInvariant, PTL

-----------------------------------------------------------------------------
(* What a step does to the rows.                                               *)

(* A write keeps whose a row is. *)
LEMMA WritesAreSteady ==
  ASSUME StoreInv, NEW c \in Calls, Store!Works(c) \/ Store!Finishes(c) \/ Store!CancelWrites(c)
  PROVE  /\ Steady /\ call[c].task \in Store!Tasks /\ Store!Live(call[c].task)
         /\ \A u \in Store!Tasks : u # call[c].task => row'[u] = row[u]
<1> PICK t : t = call[c].task
  OBVIOUS
<1>1. /\ call[c].pc \in {"sent", "shown", "cancel"} /\ Store!Live(t)
      /\ \E state \in Store!States, who \in {{}, {call[c].who}}, named \in {None, call[c].who} :
           Store!writeTask(t, state, who, named)
  <2>1. Store!Works(c) => /\ call[c].pc = "sent" /\ Store!Live(t)
                          /\ Store!writeTask(t, "working", {call[c].who}, call[c].who)
    BY DEF Store!Works
  <2>2. Store!Finishes(c) =>
          /\ call[c].pc = "shown" /\ Store!Live(t)
          /\ \E verdict \in {"completed", "canceled"} : Store!writeTask(t, verdict, {call[c].who}, call[c].who)
    BY DEF Store!Finishes
  <2>3. Store!CancelWrites(c) => call[c].pc = "cancel" /\ Store!Live(t) /\ Store!writeTask(t, "canceled", {}, None)
    BY DEF Store!CancelWrites
  <2> QED
    BY <2>1, <2>2, <2>3 DEF Store!States
<1>2. CallFits(call[c]) /\ t \in Store!Tasks
  BY <1>1, CallType DEF CallFits, StoreInv, Store!ConstantsOK, Store!TypeOK, Store!Tasks
<1>3. row[t].owner = call[c].who
  BY <1>1, <1>2 DEF CallFits
<1>4. PICK state \in Store!States, who \in {{}, {call[c].who}}, named \in {None, call[c].who} :
        Store!writeTask(t, state, who, named)
  BY <1>1
<1>5. who \subseteq {row[t].owner}
  BY <1>3
<1>6. Steady /\ \A u \in Store!Tasks : u # t => row'[u] = row[u]
  BY <1>1, <1>2, <1>4, <1>5, Written
<1> QED
  BY <1>1, <1>2, <1>6

(* Nothing that is kept changes when time goes by. *)
LEMMA IdlesAreSteady ==
  ASSUME StoreInv, Store!Idles
  PROVE  Steady /\ \A t \in Store!Tasks : Store!Live(t) => row'[t].state = row[t].state
<1>1. ASSUME NEW t \in Store!Tasks, Store!Live(t)
      PROVE  /\ Store!Live(t)' /\ row'[t].agent = row[t].agent /\ row'[t].ctx = row[t].ctx
             /\ row'[t].owner = row[t].owner /\ row'[t].state = row[t].state
  <2>1. row[t] \in Store!RowRecords
    BY <1>1 DEF StoreInv, Store!TypeOK, Store!Live
  <2>2. row'[t] = [row[t] EXCEPT !.old = TRUE]
    BY <1>1 DEF Store!Idles
  <2>3. row'[t] \in Store!RowRecords
    BY <2>1, <2>2 DEF Store!RowRecords
  <2>4. row'[t] # None
    BY <2>3 DEF StoreInv, Store!ConstantsOK
  <2> QED
    BY <2>1, <2>2, <2>4 DEF Store!RowRecords, Store!Live
<1>2. ASSUME NEW t \in Store!Tasks, ~Store!Live(t) PROVE ~Store!Live(t)'
  BY <1>2 DEF Store!Idles, Store!Live
<1> QED
  BY <1>1, <1>2 DEF Steady

(* A step writes rows, makes a row, or deletes what some statement was to.      *)
LEMMA StepsOfRows ==
  ASSUME StoreInv, Store!Acts
  PROVE  \/ Steady
         \/ \E n \in Store!Tasks : ~Store!Live(n) /\ \A t \in Store!Tasks : t # n => row'[t] = row[t]
         \/ \E c \in Calls : Store!TrimDeletes(c) /\ Store!Deletes(c)
         \/ Store!PruneDeletes /\ Store!Deletes(Store!Prune)
<1>1. ASSUME NEW c \in Calls, NEW p \in Users, NEW a \in Agents, NEW x \in Contexts,
             Store!createTask(c, p, a, x)
      PROVE  \E n \in Store!Tasks : ~Store!Live(n) /\ \A t \in Store!Tasks : t # n => row'[t] = row[t]
  <2>1. drawn + 1 \in Store!Tasks /\ ~Store!Live(drawn + 1)
    BY <1>1 DEF Store!createTask, StoreInv, Store!TypeOK, Store!ConstantsOK, RowsFit, Store!Tasks
  <2>2. \A t \in Store!Tasks : t # drawn + 1 => row'[t] = row[t]
    BY <1>1, <2>1 DEF Store!createTask, StoreInv, Store!TypeOK
  <2> QED
    BY <2>1, <2>2
<1>2. UNCHANGED row => Steady
  BY DEF Steady, Store!Live
<1>3. ASSUME NEW c \in Calls, NEW p \in Users, NEW t \in Store!Tasks,
             Store!Reuse(c, p, t) \/ Store!getTask(c, p, t) \/ Store!CancelReads(c, p, t)
      PROVE  Steady
  BY <1>2, <1>3 DEF Store!Reuse, Store!getTask, Store!Shows, Store!CancelReads
<1>4. ASSUME NEW c \in Calls, NEW p \in Users, NEW a \in Agents, Store!listTasks(c, p, a)
      PROVE  Steady
  BY <1>2, <1>4 DEF Store!listTasks, Store!Shows
<1>5. ASSUME NEW c \in Calls, Store!Works(c) \/ Store!Finishes(c) \/ Store!CancelWrites(c) PROVE Steady
  BY <1>5, WritesAreSteady
<1>6. ASSUME NEW c \in Calls,
             Store!NotFound(c) \/ Store!loadByContextId(c) \/ Store!Preserved(c) \/ Store!Answered(c) \/ Store!TrimScans(c)
      PROVE  Steady
  BY <1>2, <1>6 DEF Store!NotFound, Store!loadByContextId, Store!Preserved, Store!Answered, Store!TrimScans
<1>7. Store!Idles \/ Store!PruneScans => Steady
  BY <1>2, IdlesAreSteady DEF Store!PruneScans
<1>8. \A c \in Calls : Store!TrimDeletes(c) => Store!Deletes(c)
  BY DEF Store!TrimDeletes
<1>9. Store!PruneDeletes => Store!Deletes(Store!Prune)
  BY DEF Store!PruneDeletes
<1> QED
  BY <1>1, <1>3, <1>4, <1>5, <1>6, <1>7, <1>8, <1>9 DEF Store!Acts

(* What a statement deletes is what it was to delete. *)
LEMMA DeletesOwn ==
  ASSUME StoreInv, NEW s \in Calls \cup {Store!Prune}, Store!Deletes(s), NEW t \in Store!Tasks, Store!Live(t)
  PROVE  row'[t] = row[t] \/ (t \in victims[s] /\ row'[t] = None)
BY DEF Store!Deletes

(* A task stays its owner's. *)
THEOREM OwnersStay == Store!ConstantsOK /\ Store!Spec => Store!OwnerStays
<1>1. ASSUME StoreInv, [Store!Next]_(Store!vars), NEW t \in Store!Tasks, row[t] # None, row'[t] # None
      PROVE  row'[t].owner = row[t].owner
  <2>1. CASE UNCHANGED Store!vars
    BY <2>1 DEF Store!vars
  <2>2. CASE Steady
    BY <1>1, <2>2 DEF Steady, Store!Live
  <2>3. CASE \E n \in Store!Tasks : ~Store!Live(n) /\ \A u \in Store!Tasks : u # n => row'[u] = row[u]
    BY <1>1, <2>3 DEF Store!Live
  <2>4. CASE \E s \in Calls \cup {Store!Prune} : Store!Deletes(s)
    BY <1>1, <2>4, DeletesOwn DEF Store!Live
  <2> QED
    BY <1>1, <2>1, <2>2, <2>3, <2>4, StepsOfRows DEF Store!Next
<1>2. StoreInv /\ [Store!Next]_(Store!vars) =>
        [\A t \in Store!Tasks : row[t] # None /\ row'[t] # None => row'[t].owner = row[t].owner]_(Store!vars)
  BY <1>1
<1> QED
  BY <1>2, StoreInvariant, PTL DEF Store!Spec, Store!OwnerStays

(* Only the sweep deletes one of the newest. *)
THEOREM NewestOnesStay == Store!ConstantsOK /\ Store!Spec => Store!NewestStay
<1>1. ASSUME StoreInv, [Store!Next]_(Store!vars), NEW t \in Store!Tasks,
             row[t] # None, row'[t] = None, t \notin victims[Store!Prune]
      PROVE  Cardinality({u \in Store!OwnOfContext(row[t].agent, row[t].ctx, row[t].owner) : u > t}) >= Cap
  <2>1. CASE UNCHANGED Store!vars
    BY <1>1, <2>1 DEF Store!vars
  <2>2. CASE Steady
    BY <1>1, <2>2 DEF Steady, Store!Live
  <2>3. CASE \E n \in Store!Tasks : ~Store!Live(n) /\ \A u \in Store!Tasks : u # n => row'[u] = row[u]
    BY <1>1, <2>3 DEF Store!Live
  <2>4. ASSUME NEW c \in Calls, Store!Deletes(c)
        PROVE  Cardinality({u \in Store!OwnOfContext(row[t].agent, row[t].ctx, row[t].owner) : u > t}) >= Cap
    <3>1. t \in victims[c] /\ Store!Live(t)
      BY <1>1, <2>4, DeletesOwn DEF Store!Live
    <3> QED
      BY <1>1, <3>1 DEF StoreInv, Backed, Above
  <2>5. CASE Store!Deletes(Store!Prune)
    BY <1>1, <2>5, DeletesOwn DEF Store!Live
  <2> QED
    BY <1>1, <2>1, <2>2, <2>3, <2>4, <2>5, StepsOfRows DEF Store!Next
<1>2. StoreInv /\ [Store!Next]_(Store!vars) =>
        [\A t \in Store!Tasks :
           (row[t] # None /\ row'[t] = None /\ t \notin victims[Store!Prune]) =>
             Store!Cardinality({u \in Store!OwnOfContext(row[t].agent, row[t].ctx, row[t].owner) : u > t}) >= Cap]_(Store!vars)
  BY <1>1, SameCardinality
<1> QED
  BY <1>2, StoreInvariant, PTL DEF Store!Spec, Store!NewestStay

-----------------------------------------------------------------------------
(* How many stay.                                                              *)

(* Whose a row is, and of which context, in a steady step. *)
LEMMA SameOwn ==
  ASSUME Steady, NEW a, NEW x, NEW p
  PROVE  Store!OwnOfContext(a, x, p)' = Store!OwnOfContext(a, x, p)
BY DEF Steady, Store!OwnOfContext, Store!Rows

(* What a context keeps of a caller are tasks. *)
LEMMA OwnAreTasks ==
  ASSUME NEW a, NEW x, NEW p
  PROVE  /\ EndedOf(a, x, p) \subseteq Store!Tasks
         /\ Store!OwnOfContext(a, x, p) \subseteq Store!Rows /\ Store!Rows \subseteq Store!Tasks
BY DEF EndedOf, Store!OwnOfContext, Store!Rows

(* The bound is kept where no ended task comes to count, and whose verdict is   *)
(* yet to be followed by its trim stays so.                                     *)
LEMMA BoundedKeeps ==
  ASSUME Store!ConstantsOK, NEW P, NEW Q, Bounded(P),
         \A a \in Agents, x \in Contexts, p \in Users : EndedOf(a, x, p)' \ Q \subseteq EndedOf(a, x, p) \ P,
         \A c \in Calls, a \in Agents, x \in Contexts, p \in Users :
           Trims(c, a, x, p, P) => Trims(c, a, x, p, Q)'
  PROVE  Bounded(Q)'
<1> SUFFICES ASSUME NEW a \in Agents, NEW x \in Contexts, NEW p \in Users
             PROVE  \/ \E c \in Calls : Trims(c, a, x, p, Q)'
                    \/ Cardinality(EndedOf(a, x, p)' \ Q) <= Cap
  BY DEF Bounded
<1>1. CASE \E c \in Calls : Trims(c, a, x, p, P)
  BY <1>1
<1>2. CASE Cardinality(EndedOf(a, x, p) \ P) <= Cap
  <2>1. EndedOf(a, x, p)' \ Q \subseteq EndedOf(a, x, p) \ P /\ EndedOf(a, x, p) \ P \subseteq Store!Tasks
    BY OwnAreTasks
  <2> DEFINE S == EndedOf(a, x, p)' \ Q
             T == EndedOf(a, x, p) \ P
  <2> HIDE DEF S, T
  <2>2. Cardinality(S) <= Cardinality(T) /\ Cardinality(S) \in Nat /\ Cardinality(T) \in Nat
    BY <2>1, MoreTasks DEF S, T
  <2>3. Cap \in Nat /\ Cardinality(T) <= Cap
    BY <1>2 DEF Store!ConstantsOK, T
  <2>4. Cardinality(S) <= Cap
    BY <2>2, <2>3
  <2> QED
    BY <2>4 DEF S
<1> QED
  BY <1>1, <1>2 DEF Bounded

(* Steps in which no task ends or goes, and one call moves on, or none.         *)
LEMMA QuietKeeps ==
  ASSUME CapInv, StoreInv', UNCHANGED <<may, victims>>, Steady,
         \A t \in Store!Tasks : Store!Live(t) => (row'[t].state \in Store!Ended <=> row[t].state \in Store!Ended),
         NEW C \in SUBSET Calls,
         \A d \in Calls : d \notin C => call'[d] = call[d],
         \A c \in C : /\ call[c].pc \notin {"trim", "trimming"}
                      /\ call'[c].pc \notin {"trim", "cancel"}
                      /\ Busy(c)' => Busy(c) /\ call'[c].task = call[c].task
                      /\ call'[c].pc \in {"sent", "working", "shown"} => call[c].pc \in {"sent", "working", "shown"}
  PROVE  CapInv'
<1>1. StoreInv /\ Ending /\ VictimsOwn /\ Store!ConstantsOK /\ Store!TypeOK /\ VictimsFit /\ CallsFit
  BY DEF CapInv, StoreInv
<1>2. \A c \in Calls : Busy(c) => call[c].task \in Store!Tasks
  BY <1>1 DEF CallsFit, Store!TypeOK, Store!ConstantsOK, Store!Tasks
<1>3. \A s \in Calls \cup {Store!Prune} : \A t \in victims[s] : t \in Store!Tasks
  BY <1>1 DEF Store!TypeOK
<1>4. Ending'
  <2>1. \A c \in Calls : call'[c].pc # "cancel"
    BY <1>1 DEF Ending
  <2>2. \A c \in Calls : call'[c].pc \in {"sent", "working", "shown"} /\ Store!Live(call[c].task)' =>
                            row'[call'[c].task].state \notin Store!Ended
    <3> SUFFICES ASSUME NEW c \in Calls, call'[c].pc \in {"sent", "working", "shown"}, Store!Live(call[c].task)'
                 PROVE  row'[call'[c].task].state \notin Store!Ended
      OBVIOUS
    <3>1. call[c].pc \in {"sent", "working", "shown"} /\ call'[c].task = call[c].task
      BY DEF Busy
    <3>2. call[c].task \in Store!Tasks
      BY <1>2, <3>1 DEF Busy
    <3>3. Store!Live(call[c].task)
      BY <3>1, <3>2 DEF Steady, Store!Live
    <3> QED
      BY <1>1, <3>1, <3>2, <3>3 DEF Ending
  <2>3. \A c, d \in Calls : Busy(c)' /\ Busy(d)' /\ call'[c].task = call'[d].task => c = d
    <3>1. \A c \in Calls : Busy(c)' => Busy(c) /\ call'[c].task = call[c].task
      BY DEF Busy
    <3> QED
      BY <1>1, <3>1 DEF Ending
  <2>4. \A s \in Calls \cup {Store!Prune} : \A t \in victims'[s] : Store!Live(t)' => row'[t].state \in Store!Ended
    BY <1>1, <1>3 DEF Ending, Steady
  <2> QED
    BY <2>1, <2>2, <2>3, <2>4 DEF Ending, Store!Live
<1>5. VictimsOwn'
  <2> SUFFICES ASSUME NEW d \in Calls, NEW t \in victims[d], Store!Live(t)' PROVE row'[t].owner = call'[d].who
    BY DEF VictimsOwn
  <2>1. call[d].pc = "trimming" /\ t \in Store!Tasks
    BY <1>1, <1>3 DEF VictimsFit
  <2>2. call'[d] = call[d]
    BY <2>1
  <2> QED
    BY <1>1, <2>1, <2>2 DEF VictimsOwn, Steady
<1>6. ASSUME NEW P, Bounded(P) PROVE Bounded(P)'
  <2>1. \A a \in Agents, x \in Contexts, p \in Users : EndedOf(a, x, p)' \ P \subseteq EndedOf(a, x, p) \ P
    BY SameOwn DEF EndedOf, Store!OwnOfContext, Store!Rows
  <2>2. ASSUME NEW c \in Calls, NEW a \in Agents, NEW x \in Contexts, NEW p \in Users, Trims(c, a, x, p, P)
        PROVE  Trims(c, a, x, p, P)'
    <3>1. call'[c] = call[c] /\ call[c].pc = "trim"
      BY <2>2 DEF Trims
    <3>2. call[c].task \in Store!Tasks
      BY <1>2, <3>1 DEF Busy
    <3>3. Store!OwnOfContext(a, x, p)' = Store!OwnOfContext(a, x, p)
      BY SameOwn
    <3> QED
      BY <2>2, <3>1, <3>2, <3>3 DEF Trims, Steady, Store!Live
  <2> QED
    BY <1>1, <1>6, <2>1, <2>2, BoundedKeeps
<1>7. ToTrim' = ToTrim /\ victims'[Store!Prune] = victims[Store!Prune]
  BY DEF ToTrim
<1>8. Bounded(ToTrim)'
  <2> PICK P : P = ToTrim
    OBVIOUS
  <2>1. Bounded(P)'
    BY <1>6 DEF CapInv
  <2> QED
    BY <1>7, <2>1 DEF Bounded, Trims
<1>9. Bounded(ToTrim \cup victims[Store!Prune])'
  <2> PICK P : P = ToTrim \cup victims[Store!Prune]
    OBVIOUS
  <2>1. Bounded(P)'
    BY <1>6 DEF CapInv
  <2> QED
    BY <1>7, <2>1 DEF Bounded, Trims
<1> QED
  BY <1>4, <1>5, <1>8, <1>9 DEF CapInv

(* The calls that change no row, and time that goes by, count nothing.          *)
LEMMA CallsKeepCap ==
  ASSUME CapInv, StoreInv', UNCHANGED may, NEW c \in Calls,
         \/ \E p \in Users, t \in Store!Tasks : Store!getTask(c, p, t)
         \/ \E p \in Users, a \in Agents : Store!listTasks(c, p, a)
         \/ Store!Works(c) \/ Store!NotFound(c) \/ Store!loadByContextId(c) \/ Store!Preserved(c) \/ Store!Answered(c)
  PROVE  CapInv'
<1>1. StoreInv /\ Ending /\ Store!ConstantsOK /\ Store!TypeOK
  BY DEF CapInv, StoreInv
<1>2. /\ UNCHANGED victims /\ \A d \in Calls : d # c => call'[d] = call[d]
      /\ call[c].pc \notin {"trim", "trimming"} /\ call'[c].pc \notin {"trim", "cancel"}
      /\ Busy(c)' => Busy(c) /\ call'[c].task = call[c].task
      /\ call'[c].pc \in {"sent", "working", "shown"} => call[c].pc \in {"sent", "working", "shown"}
  <2>1. ASSUME NEW p, NEW S, Store!Shows(c, p, S)
        PROVE  /\ UNCHANGED victims /\ \A d \in Calls : d # c => call'[d] = call[d]
               /\ call[c].pc = "idle" /\ call'[c].pc = "read"
    BY <1>1, <2>1 DEF Store!Shows, Store!NotYet, Store!TypeOK
  <2>2. CASE \/ \E p \in Users, t \in Store!Tasks : Store!getTask(c, p, t)
             \/ \E p \in Users, a \in Agents : Store!listTasks(c, p, a)
    BY <2>1, <2>2 DEF Store!getTask, Store!listTasks, Busy
  <2>3. CASE Store!Works(c)
    BY <1>1, <2>3 DEF Store!Works, Busy, Store!TypeOK
  <2>4. CASE Store!NotFound(c) \/ Store!Preserved(c) \/ Store!Answered(c)
    <3>1. /\ call' = [call EXCEPT ![c] = Store!NotYet] /\ UNCHANGED victims
          /\ call[c].pc \in {"sent", "shown", "cancel", "read"}
      BY <2>4 DEF Store!NotFound, Store!Preserved, Store!Answered
    <3> QED
      BY <1>1, <3>1 DEF Store!NotYet, Busy, Store!TypeOK
  <2>5. CASE Store!loadByContextId(c)
    BY <1>1, <2>5 DEF Store!loadByContextId, Busy, Store!TypeOK
  <2> QED
    BY <2>2, <2>3, <2>4, <2>5
<1>3. /\ Steady
      /\ \A t \in Store!Tasks : Store!Live(t) => (row'[t].state \in Store!Ended <=> row[t].state \in Store!Ended)
  <2>1. CASE Store!Works(c)
    <3> PICK t : t = call[c].task
      OBVIOUS
    <3>1. Steady /\ t \in Store!Tasks /\ Store!Live(t) /\ \A u \in Store!Tasks : u # t => row'[u] = row[u]
      BY <1>1, <2>1, WritesAreSteady
    <3>2. row[t].state \notin Store!Ended
      BY <1>1, <2>1, <3>1 DEF Store!Works, Ending
    <3>3. row'[t].state = "working"
      <4>1. row[t] \in Store!RowRecords /\ row \in [Store!Tasks -> Store!RowRecords \cup {None}]
        BY <1>1, <3>1 DEF Store!TypeOK, Store!Live
      <4>2. PICK o : row' = [row EXCEPT ![t].state = "working", ![t].old = FALSE, ![t].owner = o,
                                        ![t].said = @ \cup {call[c].who}]
        BY <2>1 DEF Store!Works, Store!writeTask
      <4> QED
        BY <3>1, <4>1, <4>2 DEF Store!RowRecords
    <3> QED
      BY <3>1, <3>2, <3>3 DEF Store!Ended
  <2>2. CASE UNCHANGED row
    BY <2>2 DEF Steady, Store!Live
  <2> QED
    BY <2>1, <2>2 DEF Store!getTask, Store!listTasks, Store!Shows, Store!NotFound, Store!loadByContextId, Store!Preserved,
                        Store!Answered
<1>4. {c} \in SUBSET Calls
  OBVIOUS
<1> QED
  BY <1>2, <1>3, <1>4, QuietKeeps

(* The bound is kept when retentionDays go by. *)
LEMMA IdlesKeepCap == ASSUME CapInv, StoreInv', UNCHANGED may, Store!Idles PROVE CapInv'
<1>1. StoreInv /\ UNCHANGED <<call, victims>> /\ {} \in SUBSET Calls
  BY DEF CapInv, Store!Idles
<1> QED
  BY <1>1, IdlesAreSteady, QuietKeeps

(* A task that is made has not ended, and no statement is to delete it.         *)
LEMMA CreateKeepsCap ==
  ASSUME CapInv, StoreInv', UNCHANGED may,
         NEW c \in Calls, NEW q \in Users, NEW b \in Agents, NEW y \in Contexts, Store!createTask(c, q, b, y)
  PROVE  CapInv'
<1> PICK n : n = drawn + 1
  OBVIOUS
<1>1. StoreInv /\ Ending /\ VictimsOwn /\ Store!ConstantsOK /\ Store!TypeOK /\ VictimsFit /\ CallsFit /\ RowsFit
  BY DEF CapInv, StoreInv
<1>2. /\ call[c].pc = "idle" /\ UNCHANGED victims /\ n \in Store!Tasks /\ ~Store!Live(n)
      /\ drawn \in Nat /\ \A t \in 1..drawn : t \in Store!Tasks /\ t # n
  BY <1>1 DEF Store!createTask, Store!Sends, Store!TypeOK, Store!ConstantsOK, RowsFit, Store!Tasks
<1>3. /\ call'[c].pc = "sent" /\ call'[c].task = n
      /\ \A d \in Calls : d # c => call'[d] = call[d]
  BY <1>1 DEF Store!createTask, Store!Sends, Store!TypeOK
<1>4. /\ row'[n].state = "submitted"
      /\ \A t \in Store!Tasks : t # n => row'[t] = row[t]
  BY <1>1, <1>2 DEF Store!createTask, Store!TypeOK
<1>5. \A d \in Calls : Busy(d) => call[d].task \in Store!Tasks /\ call[d].task # n
  BY <1>1, <1>2 DEF CallsFit
<1>6. \A s \in Calls \cup {Store!Prune} : \A t \in victims[s] : t \in Store!Tasks /\ t # n
  BY <1>1, <1>2 DEF VictimsFit
<1>7. Ending'
  <2>1. \A d \in Calls : call'[d].pc # "cancel"
    BY <1>1, <1>3 DEF Ending
  <2>2. \A d \in Calls : call'[d].pc \in {"sent", "working", "shown"} /\ Store!Live(call[d].task)' =>
                            row'[call'[d].task].state \notin Store!Ended
    <3> SUFFICES ASSUME NEW d \in Calls, call'[d].pc \in {"sent", "working", "shown"}, Store!Live(call[d].task)'
                 PROVE  row'[call'[d].task].state \notin Store!Ended
      OBVIOUS
    <3>1. CASE d = c
      BY <1>3, <1>4, <3>1 DEF Store!Ended
    <3>2. CASE d # c
      <4>1. call'[d] = call[d] /\ Busy(d)
        BY <1>3, <3>2 DEF Busy
      <4>2. row'[call[d].task] = row[call[d].task]
        BY <1>4, <1>5, <4>1
      <4> QED
        BY <1>1, <4>1, <4>2 DEF Ending, Store!Live
    <3> QED
      BY <3>1, <3>2
  <2>3. \A d, e \in Calls : Busy(d)' /\ Busy(e)' /\ call'[d].task = call'[e].task => d = e
    <3> SUFFICES ASSUME NEW d \in Calls, NEW e \in Calls, Busy(d)', Busy(e)', call'[d].task = call'[e].task
                 PROVE  d = e
      OBVIOUS
    <3>1. \A f \in Calls : f # c /\ Busy(f)' => Busy(f) /\ call'[f].task = call[f].task /\ call[f].task # n
      BY <1>3, <1>5 DEF Busy
    <3> QED
      BY <1>1, <1>3, <3>1 DEF Ending
  <2>4. \A s \in Calls \cup {Store!Prune} : \A t \in victims'[s] : Store!Live(t)' => row'[t].state \in Store!Ended
    BY <1>1, <1>2, <1>4, <1>6 DEF Ending, Store!Live
  <2> QED
    BY <2>1, <2>2, <2>3, <2>4 DEF Ending, Store!Live
<1>8. VictimsOwn'
  <2> SUFFICES ASSUME NEW d \in Calls, NEW t \in victims[d], Store!Live(t)' PROVE row'[t].owner = call'[d].who
    BY <1>2 DEF VictimsOwn
  <2>1. call[d].pc = "trimming" /\ t \in Store!Tasks /\ t # n
    BY <1>1, <1>6 DEF VictimsFit
  <2>2. call'[d] = call[d] /\ row'[t] = row[t]
    BY <1>2, <1>3, <1>4, <2>1
  <2> QED
    BY <1>1, <2>1, <2>2 DEF VictimsOwn, Store!Live
<1>9. ASSUME NEW P, Bounded(P) PROVE Bounded(P)'
  <2>1. ASSUME NEW a \in Agents, NEW x \in Contexts, NEW p \in Users,
               NEW t \in EndedOf(a, x, p)' \ P
        PROVE  t \in EndedOf(a, x, p) \ P
    <3>1. t \in Store!Tasks /\ t # n
      BY <1>4, <2>1 DEF EndedOf, Store!OwnOfContext, Store!Rows, Store!Ended
    <3> QED
      BY <1>4, <2>1, <3>1 DEF EndedOf, Store!OwnOfContext, Store!Rows, Store!Live
  <2>2. ASSUME NEW d \in Calls, NEW a \in Agents, NEW x \in Contexts, NEW p \in Users, Trims(d, a, x, p, P)
        PROVE  Trims(d, a, x, p, P)'
    <3>1. d # c /\ call'[d] = call[d] /\ Busy(d)
      BY <1>2, <1>3, <2>2 DEF Trims, Busy
    <3>2. call[d].task \in Store!Tasks /\ row'[call[d].task] = row[call[d].task]
      BY <1>4, <1>5, <3>1
    <3> QED
      BY <2>2, <3>1, <3>2 DEF Trims, Store!Live, Store!OwnOfContext, Store!Rows
  <2> QED
    BY <1>1, <1>9, <2>1, <2>2, BoundedKeeps
<1>10. ToTrim' = ToTrim /\ victims'[Store!Prune] = victims[Store!Prune]
  BY <1>2 DEF ToTrim
<1>11. Bounded(ToTrim)'
  <2> PICK P : P = ToTrim
    OBVIOUS
  <2>1. Bounded(P)'
    BY <1>9 DEF CapInv
  <2> QED
    BY <1>10, <2>1 DEF Bounded, Trims
<1>12. Bounded(ToTrim \cup victims[Store!Prune])'
  <2> PICK P : P = ToTrim \cup victims[Store!Prune]
    OBVIOUS
  <2>1. Bounded(P)'
    BY <1>9 DEF CapInv
  <2> QED
    BY <1>10, <2>1 DEF Bounded, Trims
<1> QED
  BY <1>7, <1>8, <1>11, <1>12 DEF CapInv

(* A verdict adds a task to those that have ended, and its trim is still to come. *)
LEMMA FinishesKeepsCap ==
  ASSUME CapInv, StoreInv', UNCHANGED may, NEW c \in Calls, Store!Finishes(c)
  PROVE  CapInv'
<1> PICK t : t = call[c].task
  OBVIOUS
<1>1. StoreInv /\ Ending /\ VictimsOwn /\ Store!ConstantsOK /\ Store!TypeOK /\ VictimsFit /\ CallsFit /\ RowsFit
  BY DEF CapInv, StoreInv
<1>2. /\ Steady /\ t \in Store!Tasks /\ Store!Live(t) /\ \A u \in Store!Tasks : u # t => row'[u] = row[u]
  BY <1>1, WritesAreSteady
<1>3. /\ call[c].pc = "shown" /\ UNCHANGED victims
      /\ call'[c].pc = "trim" /\ call'[c].task = t /\ call'[c].who = call[c].who
      /\ \A d \in Calls : d # c => call'[d] = call[d]
  BY <1>1 DEF Store!Finishes, Store!TypeOK
<1>4. row[t].state \notin Store!Ended
  BY <1>1, <1>2, <1>3 DEF Ending
<1>5. row'[t].state \in Store!Ended
  <2>1. row[t] \in Store!RowRecords /\ row \in [Store!Tasks -> Store!RowRecords \cup {None}]
    BY <1>1, <1>2 DEF Store!TypeOK, Store!Live
  <2>2. PICK v \in {"completed", "canceled"} : Store!writeTask(t, v, {call[c].who}, call[c].who)
    BY DEF Store!Finishes
  <2>3. PICK o : row' = [row EXCEPT ![t].state = v, ![t].old = FALSE, ![t].owner = o,
                                    ![t].said = @ \cup {call[c].who}]
    BY <2>2 DEF Store!writeTask
  <2> QED
    BY <1>2, <2>1, <2>3 DEF Store!RowRecords, Store!Ended
<1>6. \A s \in Calls \cup {Store!Prune} : \A u \in victims[s] : u \in Store!Tasks /\ u # t
  BY <1>1, <1>2, <1>4 DEF Ending, Store!TypeOK
<1>7. \A d \in Calls : Busy(d) => call[d].task \in Store!Tasks
  BY <1>1 DEF CallsFit, Store!TypeOK, Store!ConstantsOK, Store!Tasks
<1>8. \A d \in Calls : d # c /\ Busy(d) => call[d].task # t
  BY <1>1, <1>3 DEF Ending, Busy
<1>9. Ending'
  <2>1. \A d \in Calls : call'[d].pc # "cancel"
    BY <1>1, <1>3 DEF Ending
  <2>2. \A d \in Calls : call'[d].pc \in {"sent", "working", "shown"} /\ Store!Live(call[d].task)' =>
                            row'[call'[d].task].state \notin Store!Ended
    <3> SUFFICES ASSUME NEW d \in Calls, call'[d].pc \in {"sent", "working", "shown"}, Store!Live(call[d].task)'
                 PROVE  row'[call'[d].task].state \notin Store!Ended
      OBVIOUS
    <3>1. d # c /\ call'[d] = call[d] /\ Busy(d)
      BY <1>3 DEF Busy
    <3>2. row'[call[d].task] = row[call[d].task]
      BY <1>2, <1>7, <1>8, <3>1
    <3> QED
      BY <1>1, <3>1, <3>2 DEF Ending, Store!Live
  <2>3. \A d, e \in Calls : Busy(d)' /\ Busy(e)' /\ call'[d].task = call'[e].task => d = e
    <3>1. \A d \in Calls : Busy(d)' => Busy(d) /\ call'[d].task = call[d].task
      BY <1>3 DEF Busy
    <3> QED
      BY <1>1, <3>1 DEF Ending
  <2>4. \A s \in Calls \cup {Store!Prune} : \A u \in victims'[s] : Store!Live(u)' => row'[u].state \in Store!Ended
    BY <1>1, <1>2, <1>3, <1>6 DEF Ending, Store!Live
  <2> QED
    BY <2>1, <2>2, <2>3, <2>4 DEF Ending, Store!Live
<1>10. VictimsOwn'
  <2> SUFFICES ASSUME NEW d \in Calls, NEW u \in victims[d], Store!Live(u)' PROVE row'[u].owner = call'[d].who
    BY <1>3 DEF VictimsOwn
  <2>1. u \in Store!Tasks /\ row'[u] = row[u] /\ call'[d].who = call[d].who
    BY <1>2, <1>3, <1>6
  <2> QED
    BY <1>1, <2>1 DEF VictimsOwn, Store!Live
<1>11. ASSUME NEW P, t \notin P, Bounded(P) PROVE Bounded(P)'
  <2> SUFFICES ASSUME NEW a \in Agents, NEW x \in Contexts, NEW p \in Users
               PROVE  \/ \E d \in Calls : Trims(d, a, x, p, P)'
                      \/ Cardinality(EndedOf(a, x, p)' \ P) <= Cap
    BY DEF Bounded
  <2>1. Store!OwnOfContext(a, x, p)' = Store!OwnOfContext(a, x, p) /\ Store!Live(t)'
    BY <1>2, SameOwn DEF Steady
  <2>2. CASE t \in Store!OwnOfContext(a, x, p)
    BY <1>3, <1>11, <2>1, <2>2 DEF Trims, Store!Live
  <2>3. CASE t \notin Store!OwnOfContext(a, x, p)
    <3>1. EndedOf(a, x, p)' = EndedOf(a, x, p)
      BY <1>2, <2>1, <2>3 DEF EndedOf, Store!OwnOfContext, Store!Rows
    <3>2. ASSUME NEW d \in Calls, Trims(d, a, x, p, P) PROVE Trims(d, a, x, p, P)'
      <4>1. d # c /\ call'[d] = call[d] /\ Busy(d)
        BY <1>3, <3>2 DEF Trims, Busy
      <4>2. call[d].task \in Store!Tasks /\ row'[call[d].task] = row[call[d].task]
        BY <1>2, <1>7, <1>8, <4>1
      <4> QED
        BY <2>1, <3>2, <4>1, <4>2 DEF Trims, Store!Live
    <3> QED
      BY <1>11, <3>1, <3>2 DEF Bounded
  <2> QED
    BY <2>2, <2>3
<1>12. ToTrim' = ToTrim /\ victims'[Store!Prune] = victims[Store!Prune] /\ t \notin ToTrim \cup victims[Store!Prune]
  BY <1>3, <1>6 DEF ToTrim
<1>13. Bounded(ToTrim)'
  <2> PICK P : P = ToTrim
    OBVIOUS
  <2>1. Bounded(P)'
    BY <1>11, <1>12 DEF CapInv
  <2> QED
    BY <1>12, <2>1 DEF Bounded, Trims
<1>14. Bounded(ToTrim \cup victims[Store!Prune])'
  <2> PICK P : P = ToTrim \cup victims[Store!Prune]
    OBVIOUS
  <2>1. Bounded(P)'
    BY <1>11, <1>12 DEF CapInv
  <2> QED
    BY <1>12, <2>1 DEF Bounded, Trims
<1> QED
  BY <1>9, <1>10, <1>13, <1>14 DEF CapInv

(* A trim chooses all of its context's ended tasks but the Cap newest. *)
LEMMA TrimScansKeepsCap ==
  ASSUME CapInv, StoreInv', UNCHANGED may, NEW c \in Calls, Store!TrimScans(c)
  PROVE  CapInv'
<1> PICK t : t = call[c].task
  OBVIOUS
<1> PICK own : own = Store!OwnOfContext(row[t].agent, row[t].ctx, call[c].who)
  OBVIOUS
<1> PICK ended : ended = IF Store!Live(t) THEN {u \in own : row[u].state \in Store!Ended} ELSE {}
  OBVIOUS
<1> PICK V : V = Store!Beyond(ended)
  OBVIOUS
<1>1. StoreInv /\ Ending /\ VictimsOwn /\ Store!ConstantsOK /\ Store!TypeOK /\ VictimsFit
      /\ CallsFit /\ RowsFit /\ Store!Prune # c
  BY DEF CapInv, StoreInv, Store!ConstantsOK
<1>2. /\ call[c].pc = "trim" /\ UNCHANGED row /\ victims' = [victims EXCEPT ![c] = V]
      /\ call' = [call EXCEPT ![c].pc = "trimming"]
  BY DEF Store!TrimScans
<1>3. /\ call'[c].pc = "trimming" /\ call'[c].task = t /\ call'[c].who = call[c].who
      /\ \A d \in Calls : d # c => call'[d] = call[d]
      /\ victims[c] = {} /\ victims'[c] = V
      /\ \A s \in Calls \cup {Store!Prune} : s # c => victims'[s] = victims[s]
  BY <1>1, <1>2 DEF Store!TypeOK, VictimsFit
<1>4. /\ Store!Live(t) => row[t].owner = call[c].who
      /\ t \in Store!Tasks
  <2>1. Busy(c)
    BY <1>2 DEF Busy
  <2>2. t \in 1..drawn /\ (Store!Live(t) => row[t].owner = call[c].who)
    BY <1>1, <2>1 DEF CallsFit
  <2> QED
    BY <1>1, <2>2 DEF Store!TypeOK, Store!ConstantsOK, Store!Tasks
<1>5. /\ V \subseteq ended /\ ended \subseteq own /\ ended \subseteq Store!Tasks
      /\ ended \ V \subseteq Store!Newest(ended)
      /\ \A u \in V : Store!Live(t) /\ Store!Live(u) /\ row[u].state \in Store!Ended /\ row[u].owner = call[c].who
                      /\ row[u].agent = row[t].agent /\ row[u].ctx = row[t].ctx
  BY DEF Store!Beyond, Store!OwnOfContext, Store!Rows
<1>6. Ending'
  <2>1. \A d \in Calls : call'[d].pc # "cancel" /\ call'[d].task = call[d].task /\ (Busy(d)' <=> Busy(d))
    BY <1>1, <1>2, <1>3 DEF Ending, Busy
  <2>2. \A d \in Calls : call'[d].pc \in {"sent", "working", "shown"} => call'[d] = call[d]
    BY <1>3
  <2>3. \A s \in Calls \cup {Store!Prune} : \A u \in victims'[s] : Store!Live(u) => row[u].state \in Store!Ended
    BY <1>1, <1>3, <1>5 DEF Ending
  <2> QED
    BY <1>1, <1>2, <2>1, <2>2, <2>3 DEF Ending, Store!Live
<1>7. VictimsOwn'
  <2>1. ASSUME NEW d \in Calls, NEW u \in victims'[d], Store!Live(u) PROVE row[u].owner = call'[d].who
    <3>1. CASE d = c
      BY <1>3, <1>5, <2>1, <3>1
    <3>2. CASE d # c
      <4>1. u \in victims[d] /\ call'[d] = call[d]
        BY <1>3, <2>1, <3>2
      <4> QED
        BY <1>1, <2>1, <4>1 DEF VictimsOwn
    <3> QED
      BY <3>1, <3>2
  <2> QED
    BY <1>2, <2>1 DEF VictimsOwn, Store!Live
<1>8. ASSUME NEW P, Bounded(P), NEW Q, Q = P \cup V PROVE Bounded(Q)'
  <2> SUFFICES ASSUME NEW a \in Agents, NEW x \in Contexts, NEW p \in Users
               PROVE  \/ \E d \in Calls : Trims(d, a, x, p, Q)'
                      \/ Cardinality(EndedOf(a, x, p)' \ Q) <= Cap
    BY DEF Bounded
  <2>1. /\ Store!OwnOfContext(a, x, p)' = Store!OwnOfContext(a, x, p) /\ EndedOf(a, x, p)' = EndedOf(a, x, p)
        /\ EndedOf(a, x, p) \subseteq Store!Tasks
    BY <1>2, OwnAreTasks DEF Store!OwnOfContext, EndedOf, Store!Rows, Store!Live
  <2>2. CASE t \in Store!OwnOfContext(a, x, p)
    <3>1. ended = EndedOf(a, x, p)
      BY <1>4, <2>2 DEF Store!OwnOfContext, EndedOf, Store!Rows
    <3>2. EndedOf(a, x, p) \ Q \subseteq Store!Newest(ended) /\ Store!Newest(ended) \subseteq Store!Tasks
      BY <1>5, <1>8, <3>1 DEF Store!Newest
    <3>3. Cardinality(Store!Newest(ended)) <= Cap
      BY <1>1, <1>5, NewestAreFew
    <3> DEFINE S == EndedOf(a, x, p) \ Q
               N == Store!Newest(ended)
    <3> HIDE DEF S, N
    <3>4. Cardinality(S) \in Nat /\ Cardinality(N) \in Nat /\ Cardinality(S) <= Cardinality(N)
      BY <1>1, <3>2, MoreTasks DEF S, N
    <3>5. Cap \in Nat /\ Cardinality(N) <= Cap
      BY <1>1, <3>3 DEF Store!ConstantsOK, N
    <3>6. Cardinality(S) <= Cap
      BY <3>4, <3>5
    <3> QED
      BY <2>1, <3>6 DEF S
  <2>3. CASE t \notin Store!OwnOfContext(a, x, p)
    <3>1. \A u \in V : u \notin Store!OwnOfContext(a, x, p)
      BY <1>4, <1>5, <2>3 DEF Store!OwnOfContext, Store!Rows
    <3>2. EndedOf(a, x, p) \ Q = EndedOf(a, x, p) \ P
      BY <1>8, <3>1 DEF EndedOf
    <3>3. ASSUME NEW d \in Calls, Trims(d, a, x, p, P) PROVE Trims(d, a, x, p, Q)'
      <4>1. d # c /\ call'[d] = call[d]
        BY <1>3, <2>3, <3>3 DEF Trims
      <4>2. /\ call[d].pc = "trim" /\ Store!Live(call[d].task) /\ call[d].task \notin P
            /\ call[d].task \in Store!OwnOfContext(a, x, p)
        BY <3>3 DEF Trims
      <4>3. call[d].task \notin Q /\ Store!Live(call[d].task)'
        BY <1>2, <1>8, <3>1, <4>1, <4>2 DEF Store!Live
      <4> QED
        BY <2>1, <4>1, <4>2, <4>3 DEF Trims
    <3> QED
      BY <1>8, <2>1, <3>2, <3>3 DEF Bounded
  <2> QED
    BY <2>2, <2>3
<1>9. ToTrim' = ToTrim \cup V /\ victims'[Store!Prune] = victims[Store!Prune]
  <2>1. \A u : u \in ToTrim' <=> \E d \in Calls : u \in victims'[d]
    BY DEF ToTrim
  <2>2. \A u : u \in ToTrim <=> \E d \in Calls : u \in victims[d]
    BY DEF ToTrim
  <2>3. \A u : u \in ToTrim' <=> u \in ToTrim \/ u \in V
    BY <1>3, <2>1, <2>2
  <2> QED
    BY <1>1, <1>3, <2>3
<1>10. Bounded(ToTrim)'
  <2> PICK P : P = ToTrim
    OBVIOUS
  <2> PICK Q : Q = P \cup V
    OBVIOUS
  <2>1. Bounded(Q)'
    BY <1>8 DEF CapInv
  <2> QED
    BY <1>9, <2>1 DEF Bounded, Trims
<1>11. Bounded(ToTrim \cup victims[Store!Prune])'
  <2> PICK P : P = ToTrim \cup victims[Store!Prune]
    OBVIOUS
  <2> PICK Q : Q = P \cup V
    OBVIOUS
  <2>1. Bounded(Q)'
    BY <1>8 DEF CapInv
  <2>2. Q = (ToTrim \cup victims[Store!Prune])'
    BY <1>9
  <2> QED
    BY <2>1, <2>2 DEF Bounded, Trims
<1> QED
  BY <1>6, <1>7, <1>10, <1>11 DEF CapInv

(* A trim takes its victims out of what ended and out of what is to go. *)
LEMMA TrimDeletesKeepsCap ==
  ASSUME CapInv, StoreInv', UNCHANGED may, NEW c \in Calls, Store!TrimDeletes(c)
  PROVE  CapInv'
<1> PICK V : V = victims[c]
  OBVIOUS
<1>1. StoreInv /\ Ending /\ VictimsOwn /\ Store!ConstantsOK /\ Store!TypeOK /\ VictimsFit
      /\ CallsFit /\ Store!Prune # c
  BY DEF CapInv, StoreInv, Store!ConstantsOK
<1>2. /\ Store!Deletes(c) /\ call[c].pc = "trimming"
      /\ call' = [call EXCEPT ![c] = Store!NotYet] /\ UNCHANGED <<drawn, idle>>
  BY DEF Store!TrimDeletes
<1>3. /\ call'[c].pc = "idle" /\ \A d \in Calls : d # c => call'[d] = call[d]
      /\ victims'[c] = {} /\ \A s \in Calls \cup {Store!Prune} : s # c => victims'[s] = victims[s]
      /\ \A t \in Store!Tasks : /\ Store!Live(t)' <=> Store!Live(t) /\ t \notin V
                                /\ t \notin V => row'[t] = row[t]
  BY <1>1, <1>2, Deleted DEF Store!TypeOK, Store!NotYet
<1>4. \A d \in Calls : Busy(d) => call[d].task \in Store!Tasks
  BY <1>1 DEF CallsFit, Store!TypeOK, Store!ConstantsOK, Store!Tasks
<1>5. \A s \in Calls \cup {Store!Prune} : \A t \in victims'[s] : t \in Store!Tasks /\ t \in victims[s]
  BY <1>1, <1>3 DEF Store!TypeOK
<1>6. Ending'
  <2>1. \A d \in Calls : call'[d].pc # "cancel" /\ (Busy(d)' => call'[d] = call[d] /\ Busy(d))
    BY <1>1, <1>3 DEF Ending, Busy
  <2>2. \A d \in Calls : call'[d].pc \in {"sent", "working", "shown"} /\ Store!Live(call[d].task)' =>
                            row'[call'[d].task].state \notin Store!Ended
    <3> SUFFICES ASSUME NEW d \in Calls, call'[d].pc \in {"sent", "working", "shown"}, Store!Live(call[d].task)'
                 PROVE  row'[call'[d].task].state \notin Store!Ended
      OBVIOUS
    <3>1. call'[d] = call[d] /\ call[d].task \in Store!Tasks
      BY <1>4, <2>1 DEF Busy
    <3>2. Store!Live(call[d].task) /\ row'[call[d].task] = row[call[d].task]
      BY <1>3, <3>1 DEF Store!Live
    <3> QED
      BY <1>1, <3>1, <3>2 DEF Ending
  <2>3. \A s \in Calls \cup {Store!Prune} : \A t \in victims'[s] : Store!Live(t)' => row'[t].state \in Store!Ended
    BY <1>1, <1>3, <1>5 DEF Ending
  <2>4. \A d, e \in Calls : Busy(d)' /\ Busy(e)' /\ call'[d].task = call'[e].task => d = e
    BY <1>1, <2>1 DEF Ending
  <2> QED
    BY <2>1, <2>2, <2>3, <2>4 DEF Ending, Store!Live
<1>7. VictimsOwn'
  <2>1. ASSUME NEW d \in Calls, NEW t \in victims'[d], Store!Live(t)' PROVE row'[t].owner = call'[d].who
    BY <1>1, <1>3, <1>5, <2>1 DEF VictimsOwn
  <2> QED
    BY <2>1 DEF VictimsOwn
<1>8. ASSUME NEW P, NEW Q, Bounded(P), P \subseteq Q \cup V, Q \subseteq P, V \subseteq P PROVE Bounded(Q)'
  <2>1. \A a \in Agents, x \in Contexts, p \in Users : EndedOf(a, x, p)' \ Q \subseteq EndedOf(a, x, p) \ P
    BY <1>3, <1>8 DEF EndedOf, Store!OwnOfContext, Store!Rows
  <2>2. ASSUME NEW d \in Calls, NEW a \in Agents, NEW x \in Contexts, NEW p \in Users, Trims(d, a, x, p, P)
        PROVE  Trims(d, a, x, p, Q)'
    <3>1. call'[d] = call[d] /\ call[d].task \in Store!Tasks /\ call[d].task \notin V
      BY <1>2, <1>3, <1>4, <1>8, <2>2 DEF Trims, Busy
    <3>2. Store!Live(call[d].task)' /\ row'[call[d].task] = row[call[d].task]
      BY <1>3, <2>2, <3>1 DEF Trims
    <3> QED
      BY <1>8, <2>2, <3>1, <3>2 DEF Trims, Store!OwnOfContext, Store!Rows, Store!Live
  <2> QED
    BY <1>1, <1>8, <2>1, <2>2, BoundedKeeps
<1>9. /\ ToTrim \subseteq ToTrim' \cup V /\ ToTrim' \subseteq ToTrim /\ V \subseteq ToTrim
      /\ victims'[Store!Prune] = victims[Store!Prune]
  <2>1. \A u : u \in ToTrim' <=> \E d \in Calls : u \in victims'[d]
    BY DEF ToTrim
  <2>2. \A u : u \in ToTrim <=> \E d \in Calls : u \in victims[d]
    BY DEF ToTrim
  <2> QED
    BY <1>1, <1>3, <2>1, <2>2
<1>10. Bounded(ToTrim)'
  <2> PICK P : P = ToTrim
    OBVIOUS
  <2> PICK Q : Q = ToTrim'
    OBVIOUS
  <2>1. Bounded(Q)'
    BY <1>8, <1>9 DEF CapInv
  <2> QED
    BY <2>1 DEF Bounded, Trims
<1>11. Bounded(ToTrim \cup victims[Store!Prune])'
  <2> PICK P : P = ToTrim \cup victims[Store!Prune]
    OBVIOUS
  <2> PICK Q : Q = (ToTrim \cup victims[Store!Prune])'
    OBVIOUS
  <2>1. Bounded(Q)'
    BY <1>8, <1>9 DEF CapInv
  <2> QED
    BY <2>1 DEF Bounded, Trims
<1> QED
  BY <1>6, <1>7, <1>10, <1>11 DEF CapInv

(* The sweep chooses whole contexts. *)
LEMMA PruneScansKeepsCap == ASSUME CapInv, StoreInv', UNCHANGED may, Store!PruneScans PROVE CapInv'
<1> PICK V : V = {t \in Store!Rows : Store!Stale(Store!Pair(t))}
  OBVIOUS
<1>1. StoreInv /\ Ending /\ VictimsOwn /\ Store!ConstantsOK /\ Store!TypeOK /\ CallsFit /\ Store!Prune \notin Calls
  BY DEF CapInv, StoreInv, Store!ConstantsOK
<1>2. victims' = [victims EXCEPT ![Store!Prune] = V] /\ UNCHANGED <<row, call>>
  BY DEF Store!PruneScans
<1>3. victims'[Store!Prune] = V /\ \A c \in Calls : victims'[c] = victims[c]
  BY <1>1, <1>2 DEF Store!TypeOK
<1>4. \A t \in V : Store!Live(t) /\ row[t].state \in Store!Ended
  BY DEF Store!Stale, Store!Pair, Store!Rows
<1>5. Ending'
  BY <1>1, <1>2, <1>3, <1>4 DEF Ending, Busy, Store!Live
<1>6. VictimsOwn'
  BY <1>1, <1>2, <1>3 DEF VictimsOwn, Store!Live
<1>7. ToTrim' = ToTrim
  BY <1>3 DEF ToTrim
<1>8. Bounded(ToTrim)'
  BY <1>2, <1>7 DEF CapInv, Bounded, Trims, EndedOf, Store!OwnOfContext, Store!Rows, Store!Live
<1>9. Bounded(ToTrim \cup victims[Store!Prune])'
  <2> PICK P : P = ToTrim
    OBVIOUS
  <2> PICK Q : Q = P \cup V
    OBVIOUS
  <2> SUFFICES ASSUME NEW a \in Agents, NEW x \in Contexts, NEW p \in Users
               PROVE  \/ \E d \in Calls : Trims(d, a, x, p, Q)
                      \/ Cardinality(EndedOf(a, x, p) \ Q) <= Cap
    BY <1>2, <1>3, <1>7 DEF Bounded, Trims, EndedOf, Store!OwnOfContext, Store!Rows, Store!Live
  <2>1. EndedOf(a, x, p) \subseteq Store!Tasks /\ Cap \in Nat
    BY <1>1, OwnAreTasks DEF Store!ConstantsOK
  <2>2. ASSUME NEW d \in Calls, Trims(d, a, x, p, P)
        PROVE  Trims(d, a, x, p, Q) \/ EndedOf(a, x, p) \ Q = {}
    <3> PICK t : t = call[d].task
      OBVIOUS
    <3>1. CASE t \notin V
      BY <2>2, <3>1 DEF Trims
    <3>2. CASE t \in V
      <4>1. ASSUME NEW u \in EndedOf(a, x, p) PROVE u \in V
        <5>1. /\ t \in Store!OwnOfContext(a, x, p) /\ u \in Store!OwnOfContext(a, x, p)
          BY <2>2 DEF Trims, EndedOf
        <5>2. u \in Store!Rows /\ row[u].agent = row[t].agent /\ row[u].ctx = row[t].ctx
          BY <5>1 DEF Store!OwnOfContext
        <5>3. Store!Pair(u) = Store!Pair(t)
          BY <5>2 DEF Store!Pair
        <5>4. Store!Stale(Store!Pair(t))
          BY <3>2
        <5> QED
          BY <5>2, <5>3, <5>4
      <4> QED
        BY <4>1
    <3> QED
      BY <3>1, <3>2
  <2>3. CASE EndedOf(a, x, p) \ Q = {}
    BY <2>1, <2>3, FS_EmptySet
  <2>4. CASE Cardinality(EndedOf(a, x, p) \ P) <= Cap
    <3> DEFINE S == EndedOf(a, x, p) \ Q
               T == EndedOf(a, x, p) \ P
    <3>1. S \subseteq T /\ T \subseteq Store!Tasks
      BY <2>1
    <3> HIDE DEF S, T
    <3>2. Cardinality(S) \in Nat /\ Cardinality(T) \in Nat /\ Cardinality(S) <= Cardinality(T)
      BY <1>1, <3>1, MoreTasks
    <3>3. Cardinality(T) <= Cap
      BY <2>4 DEF T
    <3>4. Cardinality(S) <= Cap
      BY <2>1, <3>2, <3>3
    <3> QED
      BY <3>4 DEF S
  <2>5. Bounded(P)
    BY DEF CapInv
  <2> QED
    BY <2>2, <2>3, <2>4, <2>5 DEF Bounded
<1> QED
  BY <1>5, <1>6, <1>8, <1>9 DEF CapInv

(* The sweep deletes; what it leaves was within the bound without its victims. *)
LEMMA PruneDeletesKeepsCap == ASSUME CapInv, StoreInv', UNCHANGED may, Store!PruneDeletes PROVE CapInv'
<1> PICK V : V = victims[Store!Prune]
  OBVIOUS
<1>1. StoreInv /\ Ending /\ VictimsOwn /\ Store!ConstantsOK /\ Store!TypeOK /\ CallsFit /\ Store!Prune \notin Calls
  BY DEF CapInv, StoreInv, Store!ConstantsOK
<1>2. Store!Deletes(Store!Prune) /\ UNCHANGED <<call, drawn, idle>>
  BY DEF Store!PruneDeletes
<1>3. /\ victims'[Store!Prune] = {} /\ \A c \in Calls : victims'[c] = victims[c]
      /\ \A t \in Store!Tasks : /\ Store!Live(t)' <=> Store!Live(t) /\ t \notin V
                                /\ t \notin V => row'[t] = row[t]
  BY <1>1, <1>2, Deleted
<1>4. \A d \in Calls : Busy(d) => call[d].task \in Store!Tasks
  BY <1>1 DEF CallsFit, Store!TypeOK, Store!ConstantsOK, Store!Tasks
<1>5. \A s \in Calls \cup {Store!Prune} : \A t \in victims'[s] : t \in Store!Tasks /\ t \in victims[s]
  BY <1>1, <1>3 DEF Store!TypeOK
<1>6. Ending'
  <2>1. \A d \in Calls : call'[d].pc \in {"sent", "working", "shown"} /\ Store!Live(call[d].task)' =>
                            row'[call'[d].task].state \notin Store!Ended
    <3> SUFFICES ASSUME NEW d \in Calls, call[d].pc \in {"sent", "working", "shown"}, Store!Live(call[d].task)'
                 PROVE  row'[call[d].task].state \notin Store!Ended
      BY <1>2
    <3>1. call[d].task \in Store!Tasks
      BY <1>4 DEF Busy
    <3>2. Store!Live(call[d].task) /\ row'[call[d].task] = row[call[d].task]
      BY <1>2, <1>3, <3>1 DEF Store!Live
    <3> QED
      BY <1>1, <3>2 DEF Ending
  <2>2. \A s \in Calls \cup {Store!Prune} : \A t \in victims'[s] : Store!Live(t)' => row'[t].state \in Store!Ended
    BY <1>1, <1>3, <1>5 DEF Ending
  <2> QED
    BY <1>1, <1>2, <2>1, <2>2 DEF Ending, Store!Live, Busy
<1>7. VictimsOwn'
  <2>1. ASSUME NEW d \in Calls, NEW t \in victims'[d], Store!Live(t)' PROVE row'[t].owner = call'[d].who
    BY <1>1, <1>2, <1>3, <1>5, <2>1 DEF VictimsOwn
  <2> QED
    BY <2>1 DEF VictimsOwn
<1>8. ASSUME NEW P, NEW Q, Bounded(P), P = Q \cup V PROVE Bounded(Q)'
  <2>1. \A a \in Agents, x \in Contexts, p \in Users : EndedOf(a, x, p)' \ Q \subseteq EndedOf(a, x, p) \ P
    BY <1>3, <1>8 DEF EndedOf, Store!OwnOfContext, Store!Rows
  <2>2. ASSUME NEW d \in Calls, NEW a \in Agents, NEW x \in Contexts, NEW p \in Users, Trims(d, a, x, p, P)
        PROVE  Trims(d, a, x, p, Q)'
    <3>1. call'[d] = call[d] /\ call[d].task \in Store!Tasks /\ call[d].task \notin V
      BY <1>2, <1>4, <1>8, <2>2 DEF Trims, Busy
    <3>2. Store!Live(call[d].task)' /\ row'[call[d].task] = row[call[d].task]
      BY <1>3, <2>2, <3>1 DEF Trims
    <3> QED
      BY <1>8, <2>2, <3>1, <3>2 DEF Trims, Store!OwnOfContext, Store!Rows, Store!Live
  <2> QED
    BY <1>1, <1>8, <2>1, <2>2, BoundedKeeps
<1>9. ToTrim' = ToTrim
  BY <1>3 DEF ToTrim
<1>10. Bounded(ToTrim)'
  <2> PICK Q : Q = ToTrim
    OBVIOUS
  <2> PICK P : P = Q \cup V
    OBVIOUS
  <2>1. Bounded(Q)'
    BY <1>8 DEF CapInv
  <2> QED
    BY <1>9, <2>1 DEF Bounded, Trims
<1>11. Bounded(ToTrim \cup victims[Store!Prune])'
  BY <1>3, <1>10 DEF Bounded, Trims
<1> QED
  BY <1>6, <1>7, <1>10, <1>11 DEF CapInv

-----------------------------------------------------------------------------
(* The bound holds at the start. *)
LEMMA CapInit == Store!ConstantsOK /\ Store!Init /\ may = {} => CapInv
<1> SUFFICES ASSUME Store!ConstantsOK, Store!Init, may = {} PROVE CapInv
  OBVIOUS
<1>1. StoreInv
  BY StoreInit
<1>2. /\ \A t \in Store!Tasks : row[t] = None
      /\ \A c \in Calls : call[c] = Store!NotYet
      /\ \A s \in Calls \cup {Store!Prune} : victims[s] = {}
  BY DEF Store!Init
<1>3. Ending /\ VictimsOwn
  BY <1>2 DEF Ending, VictimsOwn, Busy, Store!NotYet
<1>4. ASSUME NEW P PROVE Bounded(P)
  <2> SUFFICES ASSUME NEW a \in Agents, NEW x \in Contexts, NEW p \in Users
               PROVE  Cardinality(EndedOf(a, x, p) \ P) <= Cap
    BY DEF Bounded
  <2>1. EndedOf(a, x, p) \ P = {}
    BY <1>2 DEF EndedOf, Store!OwnOfContext, Store!Rows, Store!Live
  <2>2. Cardinality(EndedOf(a, x, p) \ P) = 0
    BY <2>1, FS_EmptySet
  <2> QED
    BY <2>2 DEF Store!ConstantsOK
<1> QED
  BY <1>1, <1>3, <1>4 DEF CapInv

(* The bound is kept by every step.                                            *)
LEMMA CapStep == CapInv /\ [Store!Next]_(Store!vars) => CapInv'
<1> SUFFICES ASSUME CapInv, [Store!Next]_(Store!vars) PROVE CapInv'
  OBVIOUS
<1>1. StoreInv /\ StoreInv' /\ may = {}
  BY StoreStep DEF CapInv
<1>2. CASE UNCHANGED Store!vars
  BY <1>1, <1>2 DEF Store!vars, CapInv, Ending, VictimsOwn, Bounded, ToTrim, Trims, EndedOf, Store!OwnOfContext,
                    Store!Rows, Store!Live, Busy
<1>3. CASE Store!Next
  <2>0. UNCHANGED may /\ Store!Acts
    BY <1>3 DEF Store!Next
  <2>1. ASSUME NEW c \in Calls, NEW p \in Users, NEW a \in Agents, NEW x \in Contexts,
               Store!createTask(c, p, a, x)
        PROVE  CapInv'
    BY <1>1, <2>0, <2>1, CreateKeepsCap
  <2>2. ASSUME NEW c \in Calls, NEW p \in Users, NEW t \in Store!Tasks, Store!getTask(c, p, t)
        PROVE  CapInv'
    BY <1>1, <2>0, <2>2, CallsKeepCap
  <2>3. ASSUME NEW c \in Calls, NEW p \in Users, NEW a \in Agents, Store!listTasks(c, p, a)
        PROVE  CapInv'
    BY <1>1, <2>0, <2>3, CallsKeepCap
  <2>4. ASSUME NEW c \in Calls,
               Store!Works(c) \/ Store!NotFound(c) \/ Store!loadByContextId(c) \/ Store!Preserved(c) \/ Store!Answered(c)
        PROVE  CapInv'
    BY <1>1, <2>0, <2>4, CallsKeepCap
  <2>5. ASSUME NEW c \in Calls, Store!Finishes(c) \/ Store!TrimScans(c) \/ Store!TrimDeletes(c)
        PROVE  CapInv'
    BY <1>1, <2>0, <2>5, FinishesKeepsCap, TrimScansKeepsCap, TrimDeletesKeepsCap
  <2>6. ASSUME Store!Idles \/ Store!PruneScans \/ Store!PruneDeletes PROVE CapInv'
    BY <1>1, <2>0, <2>6, IdlesKeepCap, PruneScansKeepsCap, PruneDeletesKeepsCap
  <2>7. \A c \in Calls : ~Store!CancelWrites(c)
    BY DEF CapInv, Ending, Store!CancelWrites
  <2>8. \A c \in Calls, p \in Users, t \in Store!Tasks : ~Store!Reuse(c, p, t) /\ ~Store!CancelReads(c, p, t)
    BY <1>1 DEF Store!Reuse, Store!CancelReads
  <2> QED
    BY <2>0, <2>1, <2>2, <2>3, <2>4, <2>5, <2>6, <2>7, <2>8 DEF Store!Acts
<1> QED
  BY <1>2, <1>3

(* Where no turn of a caller's is under way, nothing of his is to be trimmed.   *)
LEMMA CapFollows == CapInv => Store!CapHolds
<1> SUFFICES ASSUME CapInv, NEW a \in Agents, NEW x \in Contexts, NEW p \in Users,
                    \A c \in Calls : call[c].who # p
             PROVE  Cardinality({t \in Store!OwnOfContext(a, x, p) : row[t].state \in Store!Ended}) <= Cap
  BY SameCardinality DEF Store!CapHolds
<1>1. StoreInv /\ VictimsOwn /\ CallsFit
  BY DEF CapInv, StoreInv
<1>2. ASSUME NEW c \in Calls PROVE ~Trims(c, a, x, p, ToTrim)
  BY <1>1 DEF Trims, Store!OwnOfContext, CallsFit, Busy
<1>3. EndedOf(a, x, p) \ ToTrim = EndedOf(a, x, p)
  BY <1>1 DEF VictimsOwn, ToTrim, EndedOf, Store!OwnOfContext, Store!Rows
<1>4. Cardinality(EndedOf(a, x, p) \ ToTrim) <= Cap
  BY <1>2 DEF CapInv, Bounded
<1> QED
  BY <1>3, <1>4 DEF EndedOf

(* Nobody sends to what has ended, or cancels. *)
Quiet == may = {}

(* What callers do stays as it is. *)
LEMMA QuietStays == Store!Spec => []Quiet \/ []~Quiet
<1>1. Quiet /\ [Store!Next]_(Store!vars) => Quiet'
  BY DEF Store!Next, Store!vars, Quiet
<1>2. ~Quiet /\ [Store!Next]_(Store!vars) => ~Quiet'
  BY DEF Store!Next, Store!vars, Quiet
<1> QED
  BY <1>1, <1>2, PTL DEF Store!Spec

(* Where callers are quiet the bound holds. *)
LEMMA CapInvariant == Store!ConstantsOK /\ Store!Spec /\ Quiet => []CapInv
<1>1. Store!ConstantsOK /\ Store!Init /\ Quiet => CapInv
  BY CapInit DEF Quiet
<1> QED
  BY <1>1, CapStep, PTL DEF Store!Spec

(* A caller keeps at most Cap ended tasks in a context. *)
THEOREM CapIsKept == Store!ConstantsOK /\ Store!Spec => [](may = {} => Store!CapHolds)
<1>1. CapInv => (may = {} => Store!CapHolds)
  BY CapFollows
<1>2. ~Quiet => (may = {} => Store!CapHolds)
  BY DEF Quiet
<1> QED
  BY <1>1, <1>2, QuietStays, CapInvariant, PTL

(* Nothing is deleted that has not ended. *)
THEOREM RunningOnesStay == Store!ConstantsOK /\ Store!Spec => Store!RunningStays
<1>1. ASSUME CapInv, [Store!Next]_(Store!vars), NEW t \in Store!Rows, row[t].state \notin Store!Ended
      PROVE  row'[t] # None
  <2>0. StoreInv /\ Ending /\ t \in Store!Tasks /\ Store!Live(t)
    BY <1>1 DEF CapInv, Store!Rows
  <2>1. CASE UNCHANGED Store!vars
    BY <2>0, <2>1 DEF Store!vars, Store!Live
  <2>2. CASE Steady
    BY <2>0, <2>2 DEF Steady, Store!Live
  <2>3. CASE \E n \in Store!Tasks : ~Store!Live(n) /\ \A u \in Store!Tasks : u # n => row'[u] = row[u]
    BY <2>0, <2>3 DEF Store!Live
  <2>4. ASSUME NEW s \in Calls \cup {Store!Prune}, Store!Deletes(s) PROVE row'[t] # None
    BY <1>1, <2>0, <2>4, DeletesOwn DEF Ending, Store!Live
  <2> QED
    BY <1>1, <2>0, <2>1, <2>2, <2>3, <2>4, StepsOfRows DEF Store!Next
<1>2. CapInv /\ [Store!Next]_(Store!vars) =>
        [may = {} => \A t \in Store!Rows : row[t].state \notin Store!Ended => row'[t] # None]_(Store!vars)
  BY <1>1
<1>3. ~Quiet /\ [Store!Next]_(Store!vars) =>
        [may = {} => \A t \in Store!Rows : row[t].state \notin Store!Ended => row'[t] # None]_(Store!vars)
  BY DEF Quiet
<1> QED
  BY <1>2, <1>3, QuietStays, CapInvariant, PTL DEF Store!Spec, Store!RunningStays

(* Whatever statements interleave, nobody is shown another's messages, tasks    *)
(* keep their owners, and retention spares the newest and what runs and leaves  *)
(* no more than the cap.                                                        *)
THEOREM StoredTasksStayOwn == Store!ConstantsOK /\ Store!Spec => TasksStayOwn
BY SeesOnlyItsOwnHolds, CapIsKept, OwnersStay, NewestOnesStay, RunningOnesStay, PTL
   DEF TasksStayOwn, Store!TasksStayOwn

-----------------------------------------------------------------------------
(***************************************************************************)
(* An agent's list of callers and the keys on it, for every number of      *)
(* keys, calls and connections.  A key's row, its place on the list and    *)
(* the calls that mint and revoke it are followed together; the copy where *)
(* the agent is connected, with the refreshes under way and the calls that *)
(* will ask for one.                                                       *)
(***************************************************************************)
Lists == (SUBSET (Keys \cup Others)) \cup {None}

AdminStates ==
  [pc : {"idle", "reread", "local", "revoke", "mint", "undo", "patch", "notify", "done", "failed"},
   kind : {"none", "add", "remove", "issue"}, who : Keys \cup Others \cup {None},
   list : Lists, here : BOOLEAN, mine : BOOLEAN]

PolicyTypes ==
  /\ allow \subseteq Keys \cup Others /\ hellos \in 0..MaxHellos
  /\ key \in [Keys -> {"none", "live", "revoked"}]
  /\ copy \in Lists /\ looked \in Lists
  /\ admin \in [AdminCalls -> AdminStates]
  /\ refreshes \in Seq(Lists)
  /\ faults \subseteq Policies!Faults

Issues(c, k) == admin[c].kind = "issue" /\ admin[c].mine /\ admin[c].who = k

(* What a call does at each of its steps, and for whom. *)
CallServes(c) ==
  /\ admin[c].pc = "idle" => admin[c] = Policies!NotYet
  /\ Policies!Under(c) => admin[c].mine /\ admin[c].who \in Keys \cup Others
  /\ admin[c].pc \in {"patch", "local", "revoke", "mint"} => admin[c].list \subseteq Keys \cup Others
  /\ admin[c].pc \in {"mint", "undo"} => admin[c].kind = "issue" /\ key[admin[c].who] = "none"
  /\ admin[c].pc = "revoke" => admin[c].kind = "remove" /\ admin[c].who \in Keys
  /\ admin[c].kind = "issue" /\ admin[c].mine => admin[c].who \in Keys

CallsServe == \A c \in AdminCalls : CallServes(c)

(* A key is drawn by one call of the owner's, and has a row only if it was. *)
DrawnOnce ==
  /\ \A c, d \in AdminCalls, k \in Keys : Issues(c, k) /\ Issues(d, k) => c = d
  /\ \A k \in Keys : key[k] # "none" => \E c \in AdminCalls : Issues(c, k)

(* A key on the list has a row, or a call that gives it one or takes it off.  *)
KeysBacked ==
  \A k \in allow \cap Keys :
    key[k] # "none" \/ \E c \in AdminCalls : Issues(c, k) /\ admin[c].pc \in {"mint", "undo"}

(* A key that was taken off the list by a call does not come back. *)
StaysOff ==
  \A c \in AdminCalls :
    admin[c].kind = "remove" /\ admin[c].mine /\ admin[c].who \in Keys => admin[c].who \notin allow

(* A key that is minted is on the list; one that lives is on the list or about  *)
(* to be revoked.                                                              *)
MintsOnList == \A c \in AdminCalls : admin[c].pc = "mint" => admin[c].who \in allow
LivesOnList ==
  \A k \in Keys : key[k] = "live" =>
    k \in allow \/ \E c \in AdminCalls : admin[c].pc = "revoke" /\ admin[c].who = k

(* The copy is the list, or a refresh that will read it or has is under way, or *)
(* a call that will ask for one.                                               *)
CatchesUp ==
  /\ looked = None
  /\ \A c \in AdminCalls : admin[c].pc \notin {"reread", "local", "undo"}
  /\ \/ copy = None
     \/ \E c \in AdminCalls : Policies!Under(c)
     \/ refreshes = <<>> /\ copy = allow
     \/ refreshes # <<>> /\ refreshes[Len(refreshes)] \in {None, allow}

PolicyInv ==
  /\ PolicyTypes /\ CallsServe /\ DrawnOnce /\ StaysOff
  /\ copy = None => refreshes = <<>>
  /\ "stop" \notin faults => KeysBacked
  /\ "early" \notin faults => MintsOnList
  /\ faults \cap {"early", "stop"} = {} => LivesOnList
  /\ faults \subseteq {"early"} => CatchesUp

-----------------------------------------------------------------------------
(* Nothing is there before the first call.                                    *)
LEMMA PolicyStart == Policies!ConstantsOK /\ Policies!Init => PolicyInv
<1> SUFFICES ASSUME Policies!ConstantsOK, Policies!Init PROVE PolicyInv
  OBVIOUS
<1> USE DEF Policies!Init, Policies!NotYet
<1>1. PolicyTypes
  <2>1. <<>> \in Seq(Lists)
    OBVIOUS
  <2>2. Policies!NotYet \in AdminStates
    BY DEF AdminStates, Lists
  <2>3. admin \in [AdminCalls -> AdminStates]
    BY <2>2
  <2> QED
    <3>1. allow = {} /\ hellos \in 0..MaxHellos /\ key \in [Keys -> {"none", "live", "revoked"}]
      BY DEF Policies!ConstantsOK
    <3>2. copy \in Lists /\ looked \in Lists /\ refreshes \in Seq(Lists)
      BY <2>1 DEF Lists
    <3> QED
      BY <2>3, <3>1, <3>2 DEF PolicyTypes
<1>2. CallsServe /\ DrawnOnce /\ StaysOff
  BY DEF CallsServe, CallServes, DrawnOnce, StaysOff, Issues, Policies!Under
<1>3. KeysBacked /\ MintsOnList /\ LivesOnList /\ CatchesUp
  BY DEF KeysBacked, MintsOnList, LivesOnList, CatchesUp
<1> QED
  BY <1>1, <1>2, <1>3 DEF PolicyInv

(* Call c goes on to `to' for the same principal; or it begins, for p.        *)
Else(c) == \A d \in AdminCalls : d # c => admin'[d] = admin[d]

Moved(c, to) ==
  /\ admin' \in [AdminCalls -> AdminStates] /\ Else(c)
  /\ admin'[c].pc = to /\ admin'[c].kind = admin[c].kind /\ admin'[c].who = admin[c].who
  /\ admin'[c].mine = admin[c].mine

Begun(c, kind, p, to) ==
  /\ admin[c].pc = "idle"
  /\ admin' \in [AdminCalls -> AdminStates] /\ Else(c)
  /\ admin'[c].pc = to /\ admin'[c].kind = kind /\ admin'[c].who = p /\ admin'[c].mine

LEMMA AdminMoves ==
  ASSUME PolicyTypes, NEW c \in AdminCalls,
         NEW to \in {"local", "undo", "patch", "notify", "done", "failed"},
         admin' = [admin EXCEPT ![c].pc = to]
  PROVE  Moved(c, to) /\ admin'[c].list = admin[c].list
BY DEF PolicyTypes, AdminStates, Moved, Else

LEMMA AdminBegins ==
  ASSUME PolicyTypes, NEW c \in AdminCalls,
         NEW kind \in {"add", "remove", "issue"},
         NEW p \in Keys \cup Others, NEW to \in {"reread", "revoke", "mint", "patch"},
         NEW list \in Lists, Policies!Begins(c, kind, p, to, list)
  PROVE  Begun(c, kind, p, to) /\ admin'[c].list = list
<1>1. PICK here \in BOOLEAN :
        /\ admin[c].pc = "idle"
        /\ admin' = [admin EXCEPT ![c] = [pc |-> to, kind |-> kind, who |-> p, list |-> list,
                                          here |-> here, mine |-> TRUE]]
  BY DEF Policies!Begins
<1> QED
  BY <1>1 DEF PolicyTypes, AdminStates, Begun, Else

(* A call that goes on to where it neither mints nor revokes, and touches     *)
(* neither the list nor a key.                                                *)
LEMMA AdminGoesOn ==
  ASSUME PolicyInv, NEW c \in AdminCalls, NEW to \in {"local", "notify", "done", "failed"},
         admin[c].pc \in {"reread", "local", "patch", "notify"},
         Moved(c, to), to = "local" => admin'[c].list \subseteq Keys \cup Others,
         UNCHANGED <<allow, key, faults>>
  PROVE  /\ CallsServe' /\ DrawnOnce' /\ StaysOff'
         /\ "stop" \notin faults => KeysBacked'
         /\ "early" \notin faults => MintsOnList'
         /\ faults \cap {"early", "stop"} = {} => LivesOnList'
<1> USE DEF PolicyInv, Moved, Else, Issues
<1>1. CallsServe'
  <2>1. ASSUME NEW d \in AdminCalls, d # c
        PROVE  (Policies!Under(d)' <=> Policies!Under(d)) /\ admin'[d] = admin[d]
    BY <2>1 DEF Policies!Under
  <2>2. Policies!Under(c)
    BY DEF Policies!Under
  <2> QED
    BY <2>1, <2>2 DEF CallsServe, CallServes, Policies!Under
<1>2. DrawnOnce'
  BY DEF DrawnOnce
<1>3. StaysOff'
  BY DEF StaysOff
<1>4. "stop" \notin faults => KeysBacked'
  BY DEF KeysBacked
<1>5. "early" \notin faults => MintsOnList'
  BY DEF MintsOnList
<1>6. faults \cap {"early", "stop"} = {} => LivesOnList'
  BY DEF LivesOnList
<1> QED BY <1>1, <1>2, <1>3, <1>4, <1>5, <1>6

-----------------------------------------------------------------------------
(* What the instance that holds the connection does leaves calls and keys.    *)
LEMMA CallsStay ==
  ASSUME PolicyInv, UNCHANGED <<allow, key, admin, faults>>
  PROVE  /\ CallsServe' /\ DrawnOnce' /\ StaysOff'
         /\ "stop" \notin faults => KeysBacked'
         /\ "early" \notin faults => MintsOnList'
         /\ faults \cap {"early", "stop"} = {} => LivesOnList'
<1> USE DEF PolicyInv, Issues
<1>1. CallsServe' /\ StaysOff'
  BY DEF CallsServe, CallServes, StaysOff, Policies!Under
<1>2. DrawnOnce'
  BY DEF DrawnOnce
<1>3. "stop" \notin faults => KeysBacked'
  BY DEF KeysBacked
<1>4. "early" \notin faults => MintsOnList'
  BY DEF MintsOnList
<1>5. faults \cap {"early", "stop"} = {} => LivesOnList'
  BY DEF LivesOnList
<1> QED BY <1>1, <1>2, <1>3, <1>4, <1>5

(* One element less, and the last is the last. *)
LEMMA OneLess ==
  ASSUME NEW S, NEW s \in Seq(S), NEW n \in 1..Len(s)
  PROVE  /\ Policies!RemoveAt(s, n) \in Seq(S)
         /\ n = 1 /\ Len(s) = 1 => Policies!RemoveAt(s, n) = <<>>
         /\ n = 1 /\ Len(s) # 1 =>
              LET r == Policies!RemoveAt(s, n) IN r # <<>> /\ r[Len(r)] = s[Len(s)]
<1> DEFINE a == SubSeq(s, 1, n - 1)
           b == SubSeq(s, n + 1, Len(s))
<1>1. Policies!RemoveAt(s, n) = a \o b
  BY DEF Policies!RemoveAt
<1>2. a \in Seq(S) /\ b \in Seq(S) /\ Len(a) = n - 1 /\ Len(b) = Len(s) - n
  OBVIOUS
<1> HIDE DEF a, b
<1>3. a \o b \in Seq(S) /\ Len(a \o b) = Len(s) - 1
  <2>1. a \o b \in Seq(S) /\ Len(a \o b) = Len(a) + Len(b)
    BY <1>2, ConcatProperties
  <2>2. Len(s) \in Nat /\ n \in Nat
    OBVIOUS
  <2> QED BY <1>2, <2>1, <2>2
<1>4. n = 1 /\ Len(s) = 1 => a \o b = <<>>
  BY <1>3, EmptySeq
<1>5. ASSUME n = 1, Len(s) # 1 PROVE a \o b # <<>> /\ (a \o b)[Len(a \o b)] = s[Len(s)]
  <2>1. a = <<>> /\ a \o b = b
    BY <1>2, <1>5, EmptySeq, ConcatEmptySeq
  <2>2. Len(s) \in Nat /\ Len(s) > 1 /\ Len(b) = Len(s) - 1 /\ b[Len(s) - 1] = s[Len(s)]
    <3>1. Len(s) \in Nat /\ Len(s) > 1 /\ b = SubSeq(s, 2, Len(s)) /\ Len(b) = Len(s) - 1
      BY <1>2, <1>5 DEF b
    <3>2. \A i \in 2..Len(s) : s[i] \in S
      OBVIOUS
    <3>3. \A i \in 1..(Len(s) - 2 + 1) : b[i] = s[2 + i - 1]
      BY <3>1, <3>2, SubSeqProperties
    <3>4. Len(s) - 1 \in 1..(Len(s) - 2 + 1) /\ 2 + (Len(s) - 1) - 1 = Len(s)
      BY <3>1
    <3> QED BY <3>1, <3>3, <3>4
  <2>3. b # <<>>
    BY <2>2
  <2> QED BY <2>1, <2>2, <2>3
<1> QED BY <1>1, <1>3, <1>4, <1>5

(* A refresh reads the list. *)
LEMMA ReadKeeps ==
  ASSUME PolicyInv, Policies!ConstantsOK, NEW n \in 1..Len(refreshes), Policies!RefreshReads(n),
         UNCHANGED faults
  PROVE  PolicyInv'
<1> USE DEF Policies!RefreshReads
<1>1. allow \in Lists /\ refreshes \in Seq(Lists)
  BY DEF PolicyInv, PolicyTypes, Lists
<1>2. /\ refreshes' \in Seq(Lists) /\ Len(refreshes') = Len(refreshes) /\ refreshes # <<>>
      /\ refreshes' # <<>>
      /\ refreshes'[Len(refreshes)] \in {refreshes[Len(refreshes)], allow}
  BY <1>1
<1>3. PolicyTypes'
  BY <1>2 DEF PolicyInv, PolicyTypes
<1>4. faults \subseteq {"early"} => CatchesUp'
  BY <1>2 DEF PolicyInv, CatchesUp, Policies!Under
<1>5. copy' = None => refreshes' = <<>>
  BY <1>2 DEF PolicyInv
<1> QED
  BY <1>3, <1>4, <1>5, CallsStay DEF PolicyInv

(* A refresh is applied; with nothing out of order, the oldest one. *)
LEMMA ApplyKeeps ==
  ASSUME PolicyInv, Policies!ConstantsOK, NEW n \in 1..Len(refreshes), Policies!RefreshApplies(n),
         UNCHANGED faults
  PROVE  PolicyInv'
<1> USE DEF Policies!RefreshApplies
<1>1. refreshes \in Seq(Lists) /\ refreshes[n] \in Lists
  BY DEF PolicyInv, PolicyTypes
<1>2. /\ refreshes' \in Seq(Lists)
      /\ n = 1 /\ Len(refreshes) = 1 => refreshes' = <<>>
      /\ n = 1 /\ Len(refreshes) # 1 =>
           refreshes' # <<>> /\ refreshes'[Len(refreshes')] = refreshes[Len(refreshes)]
  BY <1>1, OneLess
<1>3. PolicyTypes'
  BY <1>1, <1>2 DEF PolicyInv, PolicyTypes
<1>4. ASSUME faults \subseteq {"early"} PROVE CatchesUp'
  <2>1. n = 1 /\ refreshes # <<>> /\ copy # None
    BY <1>4, <1>1 DEF PolicyInv
  <2>2. CASE \E c \in AdminCalls : Policies!Under(c)
    BY <2>2, <1>4 DEF PolicyInv, CatchesUp, Policies!Under
  <2>3. CASE refreshes[Len(refreshes)] \in {None, allow} /\ Len(refreshes) = 1
    BY <2>3, <2>1, <1>2, <1>4 DEF PolicyInv, CatchesUp
  <2>4. CASE refreshes[Len(refreshes)] \in {None, allow} /\ Len(refreshes) # 1
    BY <2>4, <2>1, <1>2, <1>4 DEF PolicyInv, CatchesUp
  <2> QED
    BY <2>1, <2>2, <2>3, <2>4, <1>4 DEF PolicyInv, CatchesUp
<1>5. copy' = None => refreshes' = <<>>
  OBVIOUS
<1> QED
  BY <1>3, <1>4, <1>5, CallsStay DEF PolicyInv

(* The agent connects, and goes. *)
LEMMA HelloKeeps ==
  ASSUME PolicyInv, Policies!ConstantsOK, UNCHANGED faults,
         Policies!HelloLooksUp \/ Policies!HelloRegisters \/ Policies!Disconnect
  PROVE  PolicyInv'
<1>1. CASE Policies!HelloLooksUp
  <2> USE <1>1 DEF Policies!HelloLooksUp
  <2>1. allow \in Lists /\ allow # None /\ hellos + 1 \in 0..MaxHellos
    BY DEF PolicyInv, PolicyTypes, Lists, Policies!ConstantsOK
  <2>2. PolicyTypes'
    BY <2>1 DEF PolicyInv, PolicyTypes
  <2>3. faults \subseteq {"early"} => CatchesUp'
    BY DEF PolicyInv, CatchesUp, Policies!Under
  <2> QED
    BY <2>1, <2>2, <2>3, CallsStay DEF PolicyInv
<1>2. CASE Policies!HelloRegisters
  <2> USE <1>2 DEF Policies!HelloRegisters
  <2>1. PolicyTypes'
    BY DEF PolicyInv, PolicyTypes, Lists
  <2>2. faults \subseteq {"early"} => CatchesUp'
    BY DEF PolicyInv, CatchesUp
  <2> QED
    BY <2>1, <2>2, CallsStay DEF PolicyInv
<1>3. CASE Policies!Disconnect
  <2> USE <1>3 DEF Policies!Disconnect
  <2>1. PolicyTypes'
    <3>1. refreshes' \in Seq(Lists) /\ copy' \in Lists
      BY DEF Lists
    <3> QED BY <3>1 DEF PolicyInv, PolicyTypes
  <2>2. faults \subseteq {"early"} => CatchesUp'
    BY DEF PolicyInv, CatchesUp
  <2> QED
    BY <2>1, <2>2, CallsStay DEF PolicyInv
<1> QED BY <1>1, <1>2, <1>3

-----------------------------------------------------------------------------
(* The first statement of a call.  Where a call is under way the copy may     *)
(* lag.                                                                        *)
LEMMA UnderWay ==
  ASSUME PolicyInv, NEW c \in AdminCalls, UNCHANGED <<looked, faults>>,
         admin'[c].pc \in {"revoke", "mint", "patch", "notify"}, Else(c)
  PROVE  faults \subseteq {"early"} => CatchesUp'
BY DEF PolicyInv, CatchesUp, Policies!Under, Else

LEMMA StrangerKeeps ==
  ASSUME PolicyInv, Policies!ConstantsOK, NEW c \in AdminCalls, Policies!Stranger(c), UNCHANGED faults
  PROVE  PolicyInv'
<1>1. PICK kind \in {"add", "remove", "issue"}, p \in Keys \cup Others :
        /\ admin[c].pc = "idle"
        /\ admin' = [admin EXCEPT ![c] = [Policies!NotYet EXCEPT !.pc = "done", !.kind = kind,
                                                                 !.who = p]]
  BY DEF Policies!Stranger, Policies!Principals
<1>2. /\ admin' \in [AdminCalls -> AdminStates] /\ Else(c)
      /\ admin'[c].pc = "done" /\ admin'[c].mine = FALSE
      /\ admin[c] = Policies!NotYet
  BY <1>1 DEF PolicyInv, PolicyTypes, AdminStates, CallsServe, CallServes, Else, Policies!NotYet
<1>3. \A d \in AdminCalls, k \in Keys : Issues(d, k)' <=> Issues(d, k)
  BY <1>2 DEF Issues, Else, Policies!NotYet
<1> USE <1>2, <1>3 DEF Policies!Stranger, PolicyInv, Else
<1>4. PolicyTypes'
  BY DEF PolicyTypes
<1>5. CallsServe'
  BY DEF CallsServe, CallServes, Policies!Under
<1>6. DrawnOnce' /\ StaysOff'
  BY DEF DrawnOnce, StaysOff
<1>7. /\ "stop" \notin faults => KeysBacked'
      /\ "early" \notin faults => MintsOnList'
      /\ faults \cap {"early", "stop"} = {} => LivesOnList'
  BY DEF KeysBacked, MintsOnList, LivesOnList, Policies!NotYet
<1>8. faults \subseteq {"early"} => CatchesUp'
  BY DEF CatchesUp, Policies!Under, Policies!NotYet
<1> QED BY <1>4, <1>5, <1>6, <1>7, <1>8

LEMMA AddKeeps ==
  ASSUME PolicyInv, Policies!ConstantsOK, NEW c \in AdminCalls, Policies!Add(c), UNCHANGED faults
  PROVE  PolicyInv'
<1>0. Keys \cap Others = {} /\ UNCHANGED <<key, copy, looked, refreshes, hellos>>
  BY DEF Policies!ConstantsOK, Policies!Add
<1>1. PICK p \in Others, to \in {"patch", "reread"} :
        /\ Begun(c, "add", p, to)
        /\ to = "patch" => admin'[c].list = allow'
        /\ to = "reread" => "repeat" \in faults
        /\ allow' \in {allow, allow \cup {p}}
  <2>1. PICK p \in Others :
          \/ p \notin allow /\ allow' = allow \cup {p} /\ Policies!Begins(c, "add", p, "patch", allow')
          \/ /\ p \in allow /\ "repeat" \in faults /\ Policies!Begins(c, "add", p, "reread", None)
             /\ UNCHANGED allow
    BY DEF Policies!Add
  <2>2. allow \cup {p} \in Lists /\ None \in Lists
    BY DEF PolicyInv, PolicyTypes, Lists
  <2>3. CASE p \notin allow /\ allow' = allow \cup {p} /\ Policies!Begins(c, "add", p, "patch", allow')
    BY <2>2, <2>3, AdminBegins DEF PolicyInv
  <2>4. CASE /\ p \in allow /\ "repeat" \in faults /\ Policies!Begins(c, "add", p, "reread", None)
             /\ UNCHANGED allow
    BY <2>2, <2>4, AdminBegins DEF PolicyInv
  <2> QED BY <2>1, <2>3, <2>4
<1>2. \A k \in Keys : k \in allow' <=> k \in allow
  BY <1>0, <1>1
<1>3. admin[c] = Policies!NotYet /\ \A d \in AdminCalls, k \in Keys : Issues(d, k)' <=> Issues(d, k)
  <2>1. admin[c] = Policies!NotYet
    BY <1>1 DEF Begun, PolicyInv, CallsServe, CallServes
  <2>2. admin[c].kind # "issue" /\ admin'[c].kind # "issue" /\ Else(c)
    BY <1>1, <2>1 DEF Begun, Policies!NotYet
  <2> QED
    BY <2>1, <2>2 DEF Issues, Else
<1>4. allow' \subseteq Keys \cup Others
  BY <1>1 DEF PolicyInv, PolicyTypes
<1> USE <1>0, <1>1, <1>2, <1>3, <1>4 DEF PolicyInv, Begun, Else
<1>5. PolicyTypes'
  BY DEF PolicyTypes
<1>6. CallsServe'
  BY DEF CallsServe, CallServes, Policies!Under
<1>7. DrawnOnce' /\ StaysOff'
  BY DEF DrawnOnce, StaysOff
<1>8. "stop" \notin faults => KeysBacked'
  BY DEF KeysBacked, Policies!NotYet
<1>9. "early" \notin faults => MintsOnList'
  BY DEF MintsOnList, CallsServe, CallServes
<1>10. faults \cap {"early", "stop"} = {} => LivesOnList'
  BY DEF LivesOnList, Policies!NotYet
<1>11. faults \subseteq {"early"} => CatchesUp'
  BY DEF CatchesUp, Policies!Under
<1> QED BY <1>5, <1>6, <1>7, <1>8, <1>9, <1>10, <1>11

LEMMA TakeOffKeeps ==
  ASSUME PolicyInv, Policies!ConstantsOK, NEW c \in AdminCalls, Policies!RemoveFrom(c), UNCHANGED faults
  PROVE  PolicyInv'
<1>0. Keys \cap Others = {} /\ UNCHANGED <<key, copy, looked, refreshes, hellos>>
  BY DEF Policies!ConstantsOK, Policies!RemoveFrom
<1>1. PICK p \in Keys \cup Others, to \in {"revoke", "patch", "reread"} :
        /\ Begun(c, "remove", p, to)
        /\ p \in Keys => "early" \in faults \/ ~Policies!Minting(p)
        /\ to # "reread" => (to = "revoke" <=> p \in Keys)
        /\ to # "reread" => admin'[c].list = allow'
        /\ to = "reread" => "repeat" \in faults /\ p \notin allow
        /\ allow' = allow \ {p}
  <2>1. PICK p \in Keys \cup Others :
          /\ p \in Keys => "early" \in faults \/ ~Policies!Minting(p)
          /\ \/ /\ p \in allow /\ allow' = allow \ {p}
                /\ Policies!Begins(c, "remove", p, IF p \in Keys THEN "revoke" ELSE "patch", allow')
             \/ /\ p \notin allow /\ "repeat" \in faults /\ Policies!Begins(c, "remove", p, "reread", None)
                /\ UNCHANGED allow
    BY DEF Policies!RemoveFrom, Policies!Principals
  <2>2. allow \ {p} \in Lists /\ None \in Lists
    BY DEF PolicyInv, PolicyTypes, Lists
  <2>3. CASE /\ p \in allow /\ allow' = allow \ {p}
             /\ Policies!Begins(c, "remove", p, IF p \in Keys THEN "revoke" ELSE "patch", allow')
    <3> DEFINE to == IF p \in Keys THEN "revoke" ELSE "patch"
    <3>1. Begun(c, "remove", p, to) /\ admin'[c].list = allow'
      BY <2>2, <2>3, AdminBegins DEF PolicyInv
    <3> QED BY <2>1, <2>3, <3>1
  <2>4. CASE /\ p \notin allow /\ "repeat" \in faults /\ Policies!Begins(c, "remove", p, "reread", None)
             /\ UNCHANGED allow
    <3>1. Begun(c, "remove", p, "reread") /\ allow' = allow \ {p}
      BY <2>2, <2>4, AdminBegins DEF PolicyInv
    <3> QED BY <2>1, <2>4, <3>1
  <2> QED BY <2>1, <2>3, <2>4
<1>3. admin[c] = Policies!NotYet /\ \A d \in AdminCalls, k \in Keys : Issues(d, k)' <=> Issues(d, k)
  <2>1. admin[c] = Policies!NotYet
    BY <1>1 DEF Begun, PolicyInv, CallsServe, CallServes
  <2>2. admin[c].kind # "issue" /\ admin'[c].kind # "issue" /\ Else(c)
    BY <1>1, <2>1 DEF Begun, Policies!NotYet
  <2> QED
    BY <2>1, <2>2 DEF Issues, Else
<1>4. allow' \subseteq Keys \cup Others
  BY <1>1 DEF PolicyInv, PolicyTypes
<1> USE <1>0, <1>1, <1>3, <1>4 DEF PolicyInv, Begun, Else
<1>5. PolicyTypes'
  BY DEF PolicyTypes
<1>6. CallsServe'
  BY DEF CallsServe, CallServes, Policies!Under
<1>7. DrawnOnce' /\ StaysOff'
  BY DEF DrawnOnce, StaysOff
<1>8. "stop" \notin faults => KeysBacked'
  BY DEF KeysBacked, Policies!NotYet
<1>9. ASSUME "early" \notin faults PROVE MintsOnList'
  <2>1. ASSUME NEW d \in AdminCalls, admin'[d].pc = "mint" PROVE admin'[d].who \in allow'
    <3>1. d # c /\ admin'[d] = admin[d] /\ admin[d].who \in allow /\ admin[d].who \in Keys
      BY <2>1, <1>9 DEF MintsOnList, CallsServe, CallServes, Policies!Under
    <3>2. admin[d].who # p
      BY <2>1, <3>1, <1>9 DEF Policies!Minting, CallsServe, CallServes, Policies!Under
    <3> QED BY <3>1, <3>2
  <2> QED BY <2>1 DEF MintsOnList
<1>10. faults \cap {"early", "stop"} = {} => LivesOnList'
  BY DEF LivesOnList, Policies!NotYet
<1>11. faults \subseteq {"early"} => CatchesUp'
  BY DEF CatchesUp, Policies!Under
<1> QED BY <1>5, <1>6, <1>7, <1>8, <1>9, <1>10, <1>11

LEMMA KeyIssueKeeps ==
  ASSUME PolicyInv, Policies!ConstantsOK, NEW c \in AdminCalls, Policies!Issue(c), UNCHANGED faults
  PROVE  PolicyInv'
<1>0. Keys \cap Others = {} /\ UNCHANGED <<key, copy, looked, refreshes, hellos>>
  BY DEF Policies!ConstantsOK, Policies!Issue
<1>1. PICK k \in Keys : /\ Begun(c, "issue", k, "mint")
                        /\ \A d \in AdminCalls : admin[d].who # k
                        /\ allow' = allow \cup {k} /\ admin'[c].list = allow'
  <2>1. PICK k \in Keys : /\ \A d \in AdminCalls : admin[d].who # k
                          /\ allow' = allow \cup {k}
                          /\ Policies!Begins(c, "issue", k, "mint", allow')
    BY DEF Policies!Issue
  <2>2. allow \cup {k} \in Lists
    BY DEF PolicyInv, PolicyTypes, Lists
  <2> QED BY <2>1, <2>2, AdminBegins DEF PolicyInv
<1>2. key[k] = "none"
  BY <1>1 DEF PolicyInv, DrawnOnce, Issues
<1>3. /\ admin[c] = Policies!NotYet /\ Issues(c, k)' /\ \A d \in AdminCalls : ~Issues(d, k)
      /\ \A l \in Keys : ~Issues(c, l)
      /\ \A d \in AdminCalls, l \in Keys : d # c => (Issues(d, l)' <=> Issues(d, l))
  <2>1. admin[c] = Policies!NotYet
    BY <1>1 DEF Begun, PolicyInv, CallsServe, CallServes
  <2>2. /\ admin[c].kind # "issue" /\ admin'[c].kind = "issue" /\ admin'[c].mine
        /\ admin'[c].who = k /\ Else(c)
    BY <1>1, <2>1 DEF Begun, Policies!NotYet
  <2> QED
    BY <1>1, <2>1, <2>2 DEF Issues, Else
<1>4. allow' \subseteq Keys \cup Others
  BY <1>1 DEF PolicyInv, PolicyTypes
<1> USE <1>0, <1>1, <1>2, <1>3, <1>4 DEF PolicyInv, Begun, Else
<1>5. PolicyTypes'
  BY DEF PolicyTypes
<1>6. CallsServe'
  BY DEF CallsServe, CallServes, Policies!Under
<1>7. DrawnOnce'
  <2>1. ASSUME NEW a \in AdminCalls, NEW b \in AdminCalls, NEW l \in Keys, Issues(a, l)', Issues(b, l)'
        PROVE  a = b
    <3>1. Issues(c, l)' => l = k
      BY DEF Issues
    <3> QED BY <2>1, <3>1 DEF DrawnOnce
  <2>2. ASSUME NEW l \in Keys, key'[l] # "none" PROVE \E d \in AdminCalls : Issues(d, l)'
    BY <2>2 DEF DrawnOnce
  <2> QED BY <2>1, <2>2 DEF DrawnOnce
<1>8. StaysOff'
  BY DEF StaysOff
<1>9. "stop" \notin faults => KeysBacked'
  <2>1. ASSUME "stop" \notin faults, NEW l \in allow' \cap Keys
        PROVE  key'[l] # "none" \/ \E d \in AdminCalls : Issues(d, l)' /\ admin'[d].pc \in {"mint", "undo"}
    BY <2>1 DEF KeysBacked
  <2> QED BY <2>1 DEF KeysBacked
<1>10. "early" \notin faults => MintsOnList'
  BY DEF MintsOnList
<1>11. faults \cap {"early", "stop"} = {} => LivesOnList'
  BY DEF LivesOnList, Policies!NotYet
<1>12. faults \subseteq {"early"} => CatchesUp'
  BY DEF CatchesUp, Policies!Under
<1> QED BY <1>5, <1>6, <1>7, <1>8, <1>9, <1>10, <1>11, <1>12

-----------------------------------------------------------------------------
(* The rest of a call.                                                        *)
LEMMA RereadKeeps ==
  ASSUME PolicyInv, Policies!ConstantsOK, NEW c \in AdminCalls, Policies!Reread(c), UNCHANGED faults
  PROVE  PolicyInv'
<1>0. UNCHANGED <<allow, key, copy, looked, refreshes, hellos>> /\ admin[c].pc = "reread"
  BY DEF Policies!Reread
<1>1. PICK to \in {"local", "failed"} :
        admin' = [admin EXCEPT ![c].pc = to, ![c].list = allow]
  BY DEF Policies!Reread
<1>2. allow \in Lists /\ allow \subseteq Keys \cup Others
  BY DEF PolicyInv, PolicyTypes, Lists
<1>3. Moved(c, to) /\ admin'[c].list = allow
  BY <1>1, <1>2 DEF PolicyInv, PolicyTypes, AdminStates, Moved, Else
<1>4. PolicyTypes'
  BY <1>0, <1>3 DEF PolicyInv, PolicyTypes, Moved
<1>5. faults \subseteq {"early"} => CatchesUp'
  BY <1>0 DEF PolicyInv, CatchesUp
<1> QED
  BY <1>0, <1>2, <1>3, <1>4, <1>5, AdminGoesOn DEF PolicyInv

(* A call patches the copy, asks for a refresh, or ends.                      *)
LEMMA PatchKeeps ==
  ASSUME PolicyInv, Policies!ConstantsOK, NEW c \in AdminCalls, UNCHANGED faults,
         \/ Policies!PatchLocally(c) \/ Policies!Patch(c) \/ Policies!notifyCallerPolicyChanged(c)
  PROVE  PolicyInv'
<1>1. ASSUME copy' = IF admin[c].here /\ copy # None THEN admin[c].list ELSE copy,
             admin[c].pc \in {"local", "patch"}
      PROVE  copy' \in Lists /\ (copy' = None <=> copy = None)
  BY <1>1 DEF PolicyInv, PolicyTypes, CallsServe, CallServes, Lists, Policies!ConstantsOK
<1>2. CASE Policies!PatchLocally(c)
  <2>0. /\ UNCHANGED <<allow, key, looked, refreshes, hellos>> /\ admin[c].pc = "local"
        /\ copy' \in Lists /\ (copy' = None <=> copy = None)
    BY <1>1, <1>2 DEF Policies!PatchLocally, Policies!updateAllowedCallers
  <2>1. Moved(c, "done")
    BY <1>2, AdminMoves DEF Policies!PatchLocally, PolicyInv
  <2>2. PolicyTypes'
    BY <2>0, <2>1 DEF PolicyInv, PolicyTypes, Moved
  <2>3. faults \subseteq {"early"} => CatchesUp'
    BY <2>0 DEF PolicyInv, CatchesUp
  <2> QED
    BY <2>0, <2>1, <2>2, <2>3, AdminGoesOn DEF PolicyInv
<1>3. CASE Policies!Patch(c)
  <2>0. /\ UNCHANGED <<allow, key, looked, refreshes, hellos>> /\ admin[c].pc = "patch"
        /\ copy' \in Lists /\ (copy' = None <=> copy = None)
    BY <1>1, <1>3 DEF Policies!Patch, Policies!updateAllowedCallers
  <2>1. Moved(c, "notify")
    BY <1>3, AdminMoves DEF Policies!Patch, PolicyInv
  <2>2. PolicyTypes'
    BY <2>0, <2>1 DEF PolicyInv, PolicyTypes, Moved
  <2>3. faults \subseteq {"early"} => CatchesUp'
    BY <2>0, <2>1 DEF PolicyInv, CatchesUp, Moved, Else, Policies!Under
  <2> QED
    BY <2>0, <2>1, <2>2, <2>3, AdminGoesOn DEF PolicyInv
<1>4. CASE Policies!notifyCallerPolicyChanged(c)
  <2>0. /\ UNCHANGED <<allow, key, copy, looked, hellos>> /\ admin[c].pc = "notify"
        /\ refreshes' = IF copy = None THEN refreshes ELSE Append(refreshes, None)
    BY <1>4 DEF Policies!notifyCallerPolicyChanged
  <2>1. Moved(c, "done")
    BY <1>4, AdminMoves DEF Policies!notifyCallerPolicyChanged, PolicyInv
  <2>2. /\ refreshes' \in Seq(Lists)
        /\ copy # None => refreshes' # <<>> /\ refreshes'[Len(refreshes')] = None
    <3>1. None \in Lists /\ refreshes \in Seq(Lists)
      BY DEF PolicyInv, PolicyTypes, Lists
    <3> QED BY <2>0, <3>1
  <2>3. PolicyTypes'
    BY <2>0, <2>1, <2>2 DEF PolicyInv, PolicyTypes, Moved
  <2>4. faults \subseteq {"early"} => CatchesUp'
    BY <2>0, <2>1, <2>2 DEF PolicyInv, CatchesUp, Moved, Else
  <2> QED
    BY <2>0, <2>1, <2>3, <2>4, AdminGoesOn DEF PolicyInv
<1> QED BY <1>2, <1>3, <1>4

(* A statement fails, or the instance stops. *)
LEMMA StopKeeps ==
  ASSUME PolicyInv, Policies!ConstantsOK, NEW c \in AdminCalls, Policies!Stop(c), UNCHANGED faults
  PROVE  PolicyInv'
<1>0. UNCHANGED <<allow, key, copy, looked, refreshes, hellos>> /\ "stop" \in faults /\ Policies!Under(c)
  BY DEF Policies!Stop
<1>1. Moved(c, "failed")
  BY AdminMoves DEF Policies!Stop, PolicyInv
<1> USE <1>0, <1>1 DEF PolicyInv, Moved, Else, Issues
<1>2. PolicyTypes'
  BY DEF PolicyTypes
<1>3. CallsServe'
  BY DEF CallsServe, CallServes, Policies!Under
<1>4. DrawnOnce' /\ StaysOff'
  BY DEF DrawnOnce, StaysOff
<1>5. "early" \notin faults => MintsOnList'
  BY DEF MintsOnList
<1> QED BY <1>2, <1>3, <1>4, <1>5

(* A key is revoked. *)
LEMMA RevokeKeeps ==
  ASSUME PolicyInv, Policies!ConstantsOK, NEW c \in AdminCalls, Policies!RevokeKey(c), UNCHANGED faults
  PROVE  PolicyInv'
<1>0. /\ UNCHANGED <<allow, copy, looked, refreshes, hellos>> /\ admin[c].pc = "revoke"
      /\ admin[c].who \in Keys /\ admin[c].kind = "remove" /\ admin[c].mine
      /\ admin[c].list \subseteq Keys \cup Others
  BY DEF Policies!RevokeKey, PolicyInv, CallsServe, CallServes, Policies!Under
<1>1. Moved(c, "patch") /\ admin'[c].list = admin[c].list
  BY AdminMoves DEF Policies!RevokeKey, PolicyInv
<1>2. PICK k \in Keys : k = admin[c].who
  BY <1>0
<1>3. /\ key' \in [Keys -> {"none", "live", "revoked"}]
      /\ key'[k] # "live" /\ (key'[k] = "none" <=> key[k] = "none")
      /\ \A l \in Keys : l # k => key'[l] = key[l]
  BY <1>0, <1>2 DEF Policies!RevokeKey, PolicyInv, PolicyTypes
<1>4. \A l \in Keys : key'[l] = "none" <=> key[l] = "none"
  BY <1>3
<1> USE <1>0, <1>1, <1>2, <1>3, <1>4 DEF PolicyInv, Moved, Else, Issues
<1>5. PolicyTypes'
  BY DEF PolicyTypes
<1>6. CallsServe'
  <2>1. ASSUME NEW d \in AdminCalls, admin[d].pc \in {"mint", "undo"} PROVE admin[d].who \in Keys
    BY <2>1 DEF CallsServe, CallServes, Policies!Under
  <2>2. ASSUME NEW d \in AdminCalls, d # c
        PROVE  admin'[d] = admin[d] /\ (Policies!Under(d)' <=> Policies!Under(d))
    BY <2>2 DEF Policies!Under
  <2>3. Policies!Under(c)
    BY DEF Policies!Under
  <2>4. CallServes(c)'
    BY <2>3 DEF CallServes, CallsServe
  <2>5. ASSUME NEW d \in AdminCalls, d # c PROVE CallServes(d)'
    BY <2>1, <2>2, <2>5 DEF CallServes, CallsServe
  <2> QED
    BY <2>4, <2>5 DEF CallsServe
<1>7. DrawnOnce' /\ StaysOff'
  BY DEF DrawnOnce, StaysOff
<1>8. "stop" \notin faults => KeysBacked'
  BY DEF KeysBacked
<1>9. "early" \notin faults => MintsOnList'
  BY DEF MintsOnList
<1>10. faults \cap {"early", "stop"} = {} => LivesOnList'
  BY DEF LivesOnList
<1>11. faults \subseteq {"early"} => CatchesUp'
  BY DEF CatchesUp, Policies!Under
<1> QED BY <1>5, <1>6, <1>7, <1>8, <1>9, <1>10, <1>11

(* A key is minted, by the one call that drew it. *)
LEMMA MintKeeps ==
  ASSUME PolicyInv, Policies!ConstantsOK, NEW c \in AdminCalls, Policies!Mint(c), UNCHANGED faults
  PROVE  PolicyInv'
<1>0. /\ UNCHANGED <<allow, copy, looked, refreshes, hellos>> /\ admin[c].pc = "mint"
      /\ admin[c].kind = "issue" /\ admin[c].mine /\ admin[c].who \in Keys
      /\ admin[c].list \subseteq Keys \cup Others
  BY DEF Policies!Mint, PolicyInv, CallsServe, CallServes, Policies!Under
<1>1. Moved(c, "patch") /\ admin'[c].list = admin[c].list
  BY AdminMoves DEF Policies!Mint, PolicyInv
<1>2. PICK k \in Keys : k = admin[c].who
  BY <1>0
<1>3. /\ key' \in [Keys -> {"none", "live", "revoked"}]
      /\ key'[k] = "live" /\ \A l \in Keys : l # k => key'[l] = key[l]
  BY <1>2 DEF Policies!Mint, PolicyInv, PolicyTypes
<1>4. \A d \in AdminCalls : Issues(d, k) => d = c
  BY <1>0, <1>2 DEF PolicyInv, DrawnOnce, Issues
<1> USE <1>0, <1>1, <1>2, <1>3 DEF PolicyInv, Moved, Else
<1>5. PolicyTypes'
  BY DEF PolicyTypes
<1>6. CallsServe'
  <2>1. ASSUME NEW d \in AdminCalls, d # c, admin[d].pc \in {"mint", "undo"} PROVE admin[d].who # k
    BY <2>1, <1>4 DEF CallsServe, CallServes, Issues, Policies!Under
  <2>2. ASSUME NEW d \in AdminCalls, d # c, admin[d].pc \in {"mint", "undo"} PROVE admin[d].who \in Keys
    BY <2>2 DEF CallsServe, CallServes, Policies!Under
  <2>3. ASSUME NEW d \in AdminCalls, d # c
        PROVE  admin'[d] = admin[d] /\ (Policies!Under(d)' <=> Policies!Under(d))
    BY <2>3 DEF Policies!Under
  <2>4. Policies!Under(c)
    BY DEF Policies!Under
  <2>5. CallServes(c)'
    BY <2>4 DEF CallServes, CallsServe
  <2>6. ASSUME NEW d \in AdminCalls, d # c PROVE CallServes(d)'
    BY <2>1, <2>2, <2>3, <2>6 DEF CallServes, CallsServe
  <2> QED
    BY <2>5, <2>6 DEF CallsServe
<1>7. DrawnOnce' /\ StaysOff'
  <2>1. \A d \in AdminCalls, l \in Keys : Issues(d, l)' <=> Issues(d, l)
    BY DEF Issues
  <2>2. Issues(c, k)
    BY DEF Issues
  <2>3. DrawnOnce'
    BY <2>1, <2>2 DEF DrawnOnce
  <2>4. StaysOff'
    BY DEF StaysOff
  <2> QED BY <2>3, <2>4
<1>8. "stop" \notin faults => KeysBacked'
  <2>1. ASSUME "stop" \notin faults, NEW l \in allow \cap Keys, l # k, key[l] = "none"
        PROVE  \E d \in AdminCalls : Issues(d, l)' /\ admin'[d].pc \in {"mint", "undo"}
    <3>1. PICK d \in AdminCalls : Issues(d, l) /\ admin[d].pc \in {"mint", "undo"}
      BY <2>1 DEF KeysBacked
    <3>2. d # c /\ admin'[d] = admin[d]
      BY <2>1, <3>1 DEF Issues
    <3> QED BY <3>1, <3>2 DEF Issues
  <2> QED BY <2>1 DEF KeysBacked
<1>9. "early" \notin faults => MintsOnList'
  BY DEF MintsOnList
<1>10. faults \cap {"early", "stop"} = {} => LivesOnList'
  BY DEF LivesOnList, MintsOnList
<1>11. faults \subseteq {"early"} => CatchesUp'
  BY DEF CatchesUp, Policies!Under
<1> QED BY <1>5, <1>6, <1>7, <1>8, <1>9, <1>10, <1>11

(* Minting fails, and the key is taken off the list. *)
LEMMA MintFailKeeps ==
  ASSUME PolicyInv, Policies!ConstantsOK, NEW c \in AdminCalls, Policies!MintFails(c), UNCHANGED faults
  PROVE  PolicyInv'
<1>0. /\ UNCHANGED <<allow, key, copy, looked, refreshes, hellos>> /\ admin[c].pc = "mint"
      /\ "unminted" \in faults
  BY DEF Policies!MintFails
<1>1. Moved(c, "undo")
  BY AdminMoves DEF Policies!MintFails, PolicyInv
<1> USE <1>0, <1>1 DEF PolicyInv, Moved, Else, Issues
<1>2. PolicyTypes'
  BY DEF PolicyTypes
<1>3. CallsServe'
  BY DEF CallsServe, CallServes, Policies!Under
<1>4. DrawnOnce' /\ StaysOff'
  BY DEF DrawnOnce, StaysOff
<1>5. "stop" \notin faults => KeysBacked'
  BY DEF KeysBacked
<1>6. "early" \notin faults => MintsOnList'
  BY DEF MintsOnList
<1>7. faults \cap {"early", "stop"} = {} => LivesOnList'
  BY DEF LivesOnList
<1> QED BY <1>2, <1>3, <1>4, <1>5, <1>6, <1>7

LEMMA UndoKeeps ==
  ASSUME PolicyInv, Policies!ConstantsOK, NEW c \in AdminCalls, Policies!Undo(c), UNCHANGED faults
  PROVE  PolicyInv'
<1>0. /\ UNCHANGED <<key, copy, looked, refreshes, hellos>> /\ admin[c].pc = "undo"
      /\ admin[c].kind = "issue" /\ admin[c].mine /\ admin[c].who \in Keys
      /\ key[admin[c].who] = "none" /\ allow' = allow \ {admin[c].who}
  BY DEF Policies!Undo, PolicyInv, CallsServe, CallServes, Policies!Under
<1>1. Moved(c, "done")
  BY AdminMoves DEF Policies!Undo, PolicyInv
<1>2. PICK k \in Keys : k = admin[c].who
  BY <1>0
<1>3. \A d \in AdminCalls : Issues(d, k) => d = c
  BY <1>0, <1>2 DEF PolicyInv, DrawnOnce, Issues
<1> USE <1>0, <1>1, <1>2 DEF PolicyInv, Moved, Else
<1>4. PolicyTypes'
  BY DEF PolicyTypes
<1>5. CallsServe'
  BY DEF CallsServe, CallServes, Policies!Under
<1>6. DrawnOnce' /\ StaysOff'
  BY DEF DrawnOnce, StaysOff, Issues
<1>7. "stop" \notin faults => KeysBacked'
  <2>1. ASSUME "stop" \notin faults, NEW l \in allow' \cap Keys, key[l] = "none"
        PROVE  \E d \in AdminCalls : Issues(d, l)' /\ admin'[d].pc \in {"mint", "undo"}
    <3>1. PICK d \in AdminCalls : Issues(d, l) /\ admin[d].pc \in {"mint", "undo"}
      BY <2>1 DEF KeysBacked
    <3>2. d # c /\ admin'[d] = admin[d]
      BY <2>1, <3>1 DEF Issues
    <3> QED BY <3>1, <3>2 DEF Issues
  <2> QED BY <2>1 DEF KeysBacked
<1>8. "early" \notin faults => MintsOnList'
  <2>1. ASSUME "early" \notin faults, NEW d \in AdminCalls, admin'[d].pc = "mint"
        PROVE  admin'[d].who \in allow'
    <3>1. d # c /\ admin'[d] = admin[d] /\ admin[d].who \in allow /\ Issues(d, admin[d].who)
      BY <2>1 DEF MintsOnList, CallsServe, CallServes, Issues, Policies!Under
    <3>2. admin[d].who # k
      BY <3>1, <1>3
    <3> QED BY <3>1, <3>2
  <2> QED BY <2>1 DEF MintsOnList
<1>9. faults \cap {"early", "stop"} = {} => LivesOnList'
  BY DEF LivesOnList
<1>10. faults \subseteq {"early"} => CatchesUp'
  BY DEF CatchesUp
<1> QED BY <1>4, <1>5, <1>6, <1>7, <1>8, <1>9, <1>10

-----------------------------------------------------------------------------
(* Every step keeps it. *)
LEMMA PolicySteps ==
  Policies!ConstantsOK /\ PolicyInv /\ [Policies!Next]_(Policies!vars) => PolicyInv'
<1> SUFFICES ASSUME Policies!ConstantsOK, PolicyInv, [Policies!Next]_(Policies!vars) PROVE PolicyInv'
  OBVIOUS
<1>1. CASE UNCHANGED Policies!vars
  <2>1. UNCHANGED <<allow, key, copy, looked, admin, refreshes, hellos, faults>>
    BY <1>1 DEF Policies!vars
  <2>2. faults \subseteq {"early"} => CatchesUp'
    BY <2>1 DEF PolicyInv, CatchesUp, Policies!Under
  <2>3. PolicyTypes'
    BY <2>1 DEF PolicyInv, PolicyTypes
  <2> QED
    BY <2>1, <2>2, <2>3, CallsStay DEF PolicyInv
<1>2. CASE Policies!Next
  <2>1. UNCHANGED faults
    BY <1>2 DEF Policies!Next
  <2>2. ASSUME NEW c \in AdminCalls,
               \/ Policies!Stranger(c) \/ Policies!Add(c) \/ Policies!RemoveFrom(c) \/ Policies!Issue(c)
               \/ Policies!Reread(c) \/ Policies!RevokeKey(c) \/ Policies!Mint(c)
               \/ Policies!MintFails(c) \/ Policies!Undo(c) \/ Policies!PatchLocally(c)
               \/ Policies!Patch(c) \/ Policies!notifyCallerPolicyChanged(c) \/ Policies!Stop(c)
        PROVE  PolicyInv'
    BY <2>1, <2>2, StrangerKeeps, AddKeeps, TakeOffKeeps, KeyIssueKeeps, RereadKeeps, RevokeKeeps,
       MintKeeps, MintFailKeeps, UndoKeeps, PatchKeeps, StopKeeps
  <2>3. ASSUME NEW n \in 1..Len(refreshes), Policies!RefreshReads(n) \/ Policies!RefreshApplies(n)
        PROVE  PolicyInv'
    BY <2>1, <2>3, ReadKeeps, ApplyKeeps
  <2>4. CASE Policies!HelloLooksUp \/ Policies!HelloRegisters \/ Policies!Disconnect
    BY <2>1, <2>4, HelloKeeps
  <2> QED
    BY <1>2, <2>2, <2>3, <2>4 DEF Policies!Next, Policies!Acts
<1> QED BY <1>1, <1>2

(* The list, the keys and the copy stay in step, in every behaviour. *)
THEOREM PolicyInvariant == Policies!ConstantsOK /\ Policies!Spec => []PolicyInv
<1>1. Policies!ConstantsOK /\ Policies!Init => Policies!ConstantsOK /\ PolicyInv
  BY PolicyStart
<1>2. (Policies!ConstantsOK /\ PolicyInv) /\ [Policies!Next]_(Policies!vars)
        => (Policies!ConstantsOK /\ PolicyInv)'
  BY PolicySteps DEF Policies!ConstantsOK
<1> QED BY <1>1, <1>2, PTL DEF Policies!Spec

(* The variables of an agent's policy keep to their types. *)
THEOREM PolicyTyped == Policies!ConstantsOK /\ Policies!Spec => []Policies!TypeOK
<1>1. PolicyInv => Policies!TypeOK
  BY DEF PolicyInv, PolicyTypes, CallsServe, CallServes, Lists, AdminStates, Policies!TypeOK, Policies!Principals
<1> QED BY <1>1, PolicyInvariant, PTL

(* KeysFollowPolicy of the run tables: no stranger mints a key, a failed mint *)
(* leaves none on the list, a key that was taken off is dead, and the copy    *)
(* where the agent is connected ends up as the list.                          *)
THEOREM PoliciesAreFollowed == Policies!ConstantsOK /\ Policies!Spec => []KeysFollowPolicy
<1> SUFFICES ASSUME PolicyInv PROVE KeysFollowPolicy
  BY PolicyInvariant, PTL
<1> USE DEF PolicyInv, Issues
<1>1. Policies!KeysAreTheOwners
  BY DEF DrawnOnce, Policies!KeysAreTheOwners
<1>2. ASSUME "stop" \notin faults PROVE Policies!NoOrphanKeys
  BY <1>2 DEF KeysBacked, Policies!NoOrphanKeys, Policies!Under
<1>3. ASSUME faults \cap {"early", "stop"} = {} PROVE Policies!RemovedKeysAreDead
  BY <1>3 DEF LivesOnList, StaysOff, Policies!RemovedKeysAreDead, Policies!Under
<1>4. ASSUME faults \subseteq {"early"} PROVE Policies!QuietCopyIsCurrent
  BY <1>4 DEF CatchesUp, Policies!QuietCopyIsCurrent, Policies!Quiet
<1> QED
  BY <1>1, <1>2, <1>3, <1>4 DEF KeysFollowPolicy, Policies!KeysFollowPolicy

-----------------------------------------------------------------------------
(***************************************************************************)
(* The ownership of an agent, for every number of owners, previews,        *)
(* deletes, registrations and direct changes.  A registration has a client *)
(* id of its own and its revision only grows, so that what a preview read  *)
(* of it can be told from everything that came later, there and back       *)
(* included; who has logged in stays so, so that a target which resolves   *)
(* at all resolves to who was shown.                                       *)
(***************************************************************************)
PlanStates ==
  [pc : {"idle", "shown", "locked", "done", "ended"}, to : Owners \cup Emails \cup {None},
   owner : Owners \cup {None}, was : Owners \cup {None}, revision : Nat,
   client : Nat \cup {None}, at : Instances \cup {None}]
DeleteStates ==
  [pc : {"idle", "resolved", "deleted", "answered"}, by : Owners \cup {None},
   client : Nat \cup {None}]

OwnerTypes ==
  /\ agent \in Owning!AgentRows \cup {None}
  /\ clients \in [Owning!ClientIds -> Owning!ClientRows \cup {None}]
  /\ owners \in Owning!PolicyRows \cup {None}
  /\ known \subseteq Owners \X (Emails \cup {None})
  /\ lock \in Transfers \cup {None} /\ stale \subseteq Transfers
  /\ transfer \in [Transfers -> PlanStates]
  /\ delete \in [Deletions -> DeleteStates]
  /\ direct \in 0..MaxDirect /\ used \in 1..MaxClients

(* The registration is the newest one; a policy goes with its client. *)
Registered ==
  /\ agent # None => agent.client = used
  /\ \A c \in 1..MaxClients : clients[c] # None => c <= used
  /\ owners # None => clients[owners.client] # None
  /\ Owning!RowsAgree

(* Who a preview showed has logged in, under the target's name. *)
LoggedIn(p, to) == \E e \in Emails \cup {None} : <<p, e>> \in known /\ to \in {p, e}

(* A preview that something has outlived can be told from the row. *)
PlanHolds(t) ==
  /\ transfer[t].pc = "locked" <=> lock = t
  /\ transfer[t].pc = "shown" =>
       /\ transfer[t].owner \in Owners /\ transfer[t].to \in Owners \cup Emails
       /\ LoggedIn(transfer[t].owner, transfer[t].to)
       /\ transfer[t].client \in 1..used
       /\ agent # None /\ transfer[t].client = agent.client =>
            /\ transfer[t].revision <= agent.revision
            /\ t \in stale => transfer[t].revision # agent.revision
  /\ transfer[t].pc = "locked" => transfer[t].owner \in Owners /\ transfer[t].to = transfer[t].owner
  /\ t \in stale => transfer[t].pc = "shown"

Removable ==
  \A d \in Deletions : delete[d].pc \in {"resolved", "deleted"} => delete[d].client \in 1..used

OwnerInv ==
  /\ OwnerTypes /\ Registered /\ Removable
  /\ \A t \in Transfers : PlanHolds(t)
  /\ lock # None => agent # None

LEMMA OwnedBy ==
  ASSUME Owning!ConstantsOK, agent \in Owning!AgentRows, NEW p \in Owners
  PROVE  /\ Owning!Owned(p) \in Owning!AgentRows /\ Owning!Owned(p) # None
         /\ Owning!Owned(p).owner = p /\ Owning!Owned(p).client = agent.client
         /\ agent.owner # p => Owning!Owned(p).revision = agent.revision + 1
<1> USE DEF Owning!Owned, Owning!AgentRows
<1>1. agent.revision \in Nat /\ agent.revision + 1 \in Nat /\ agent.client \in Nat
  OBVIOUS
<1>2. CASE agent.owner = p
  BY <1>1, <1>2 DEF Owning!ConstantsOK
<1>3. CASE agent.owner # p
  <2>1. Owning!Owned(p) = [owner |-> p, revision |-> agent.revision + 1, client |-> agent.client]
    <3>1. Owning!Owned(p) = [agent EXCEPT !.owner = p, !.revision = agent.revision + 1]
      BY <1>3
    <3> HIDE DEF Owning!Owned
    <3> QED
      BY <3>1
  <2> HIDE DEF Owning!Owned
  <2>2. Owning!Owned(p) \in Owning!AgentRows
    BY <1>1, <2>1
  <2>3. Owning!Owned(p) # None
    BY <2>2 DEF Owning!ConstantsOK
  <2> QED
    BY <1>3, <2>1, <2>2, <2>3
<1> QED
  BY <1>2, <1>3

(* A plan of the transfer t that comes to be p. *)
Planning(t, p) == transfer' = [transfer EXCEPT ![t] = p]

LEMMA PlansChange ==
  ASSUME NEW t \in Transfers, NEW p, Planning(t, p), transfer \in [Transfers -> PlanStates]
  PROVE  /\ transfer'[t] = p
         /\ \A s \in Transfers : s # t => transfer'[s] = transfer[s]
         /\ p \in PlanStates => transfer' \in [Transfers -> PlanStates]
BY DEF Planning

LEMMA OwnInit ==
  ASSUME Owning!ConstantsOK, Owning!Init
  PROVE  OwnerInv
<1> USE DEF Owning!Init, Owning!ConstantsOK
<1>1. PICK p \in Owners, names \in {{}, {"agent"}, {"agent", "other"}} : Owning!Init!(p, names)
  BY Zenon
<1> HIDE DEF Owning!Init
<1>2. agent \in Owning!AgentRows /\ agent # None /\ agent.client = 1 /\ agent.owner = p
  BY <1>1 DEF Owning!AgentRows
<1>3. owners \in Owning!PolicyRows /\ owners # None /\ owners.client = 1 /\ owners.owner = p
  BY <1>1 DEF Owning!PolicyRows, Owning!ClientIds
<1>4. [owner |-> p, agents |-> {"agent"}] \in Owning!ClientRows
      /\ \A n \in {{"agent"}, {"agent", "other"}} : [owner |-> p, agents |-> n] \in Owning!ClientRows
  BY DEF Owning!ClientRows
<1>5. /\ clients \in [Owning!ClientIds -> Owning!ClientRows \cup {None}]
      /\ \A c \in 2..MaxClients : clients[c] = None
      /\ clients[1] = [owner |-> p, agents |-> {"agent"}] /\ clients[1] # None
  <2>1. 1 \in Owning!ClientIds /\ Legacy \in Owning!ClientIds /\ Legacy \notin 1..MaxClients
    BY DEF Owning!ClientIds
  <2>2. /\ clients = [c \in Owning!ClientIds |-> clients[c]]
        /\ clients[1] = [owner |-> p, agents |-> {"agent"}]
        /\ \A c \in Owning!ClientIds : c # 1 =>
             \/ clients[c] = None
             \/ c = Legacy /\ names # {} /\ clients[c] = [owner |-> p, agents |-> names]
    <3>1. clients = [c \in Owning!ClientIds |->
                       CASE c = 1 -> [owner |-> p, agents |-> {"agent"}]
                         [] c = Legacy /\ names # {} -> [owner |-> p, agents |-> names]
                         [] OTHER -> None]
      BY <1>1
    <3>2. 1 # Legacy
      OBVIOUS
    <3> QED
      BY <2>1, <3>1, <3>2
  <2>3. clients[1] # None
    <3>1. clients[1] \in Owning!ClientRows
      BY <1>4, <2>2
    <3> QED
      BY <3>1
  <2>4. names # {} => [owner |-> p, agents |-> names] \in Owning!ClientRows
    BY <1>4
  <2>5. \A c \in Owning!ClientIds : clients[c] \in Owning!ClientRows \cup {None}
    BY <1>4, <2>2, <2>4
  <2>6. \A c \in 2..MaxClients : clients[c] = None
    BY <2>1, <2>2 DEF Owning!ClientIds
  <2>7. clients \in [Owning!ClientIds -> Owning!ClientRows \cup {None}]
    BY <2>2, <2>5
  <2> QED
    BY <2>2, <2>3, <2>6, <2>7
<1>6. /\ transfer \in [Transfers -> PlanStates] /\ \A t \in Transfers : transfer[t].pc = "idle"
      /\ delete \in [Deletions -> DeleteStates] /\ \A d \in Deletions : delete[d].pc = "idle"
  BY <1>1 DEF Owning!NoPlan, Owning!NoDelete, PlanStates, DeleteStates
<1>7. OwnerTypes
  <2>1. /\ known = {} /\ lock = None /\ stale = {} /\ direct \in 0..MaxDirect
        /\ used \in 1..MaxClients
    BY <1>1
  <2> QED
    BY <2>1, <1>2, <1>3, <1>5, <1>6, Zenon DEF OwnerTypes
<1>8. Registered
  BY <1>1, <1>2, <1>3, <1>5 DEF Registered, Owning!RowsAgree
<1>9. Removable /\ \A t \in Transfers : PlanHolds(t)
  BY <1>1, <1>6 DEF Removable, PlanHolds
<1> QED
  BY <1>1, <1>2, <1>7, <1>8, <1>9 DEF OwnerInv

LEMMA OwnLogin ==
  ASSUME Owning!ConstantsOK, OwnerInv,
         NEW p \in Owners, NEW e \in Emails \cup {None}, Owning!Login(p, e)
  PROVE  OwnerInv'
<1> USE DEF Owning!Login, Owning!rows
<1>1. OwnerTypes'
  BY DEF OwnerInv, OwnerTypes
<1>2. Registered' /\ Removable'
  BY DEF OwnerInv, Registered, Removable, Owning!RowsAgree
<1>3. \A q, to : LoggedIn(q, to) => LoggedIn(q, to)'
  BY DEF LoggedIn
<1>4. \A t \in Transfers : PlanHolds(t)'
  BY <1>3 DEF OwnerInv, PlanHolds
<1> QED
  BY <1>1, <1>2, <1>4 DEF OwnerInv

(* A step that leaves the rows, the transfers and the deletes alone. *)
LEMMA OwnRest ==
  ASSUME OwnerInv,
         UNCHANGED <<Owning!rows, known, lock, transfer, stale, delete, direct, used>>
  PROVE  OwnerInv'
BY DEF OwnerInv, OwnerTypes, Registered, Removable, PlanHolds, LoggedIn, Owning!RowsAgree, Owning!rows

LEMMA OwnRegister ==
  ASSUME Owning!ConstantsOK, OwnerInv, NEW p \in Owners, Owning!register_client(p)
  PROVE  OwnerInv'
<1> USE DEF Owning!register_client, Owning!ConstantsOK
<1>1. OwnerTypes /\ Registered /\ Removable /\ \A t \in Transfers : PlanHolds(t)
  BY DEF OwnerInv
<1>2. used' \in 1..MaxClients /\ used' = used + 1 /\ used \in Nat /\ used' \in Owning!ClientIds
  BY <1>1 DEF OwnerTypes, Owning!ClientIds
<1>3. agent' \in Owning!AgentRows /\ agent' # None /\ agent'.client = used' /\ agent'.owner = p
  BY <1>2 DEF Owning!AgentRows
<1>4. [owner |-> p, agents |-> {"agent"}] \in Owning!ClientRows
  BY DEF Owning!ClientRows
<1>5. /\ clients' \in [Owning!ClientIds -> Owning!ClientRows \cup {None}]
      /\ clients'[used'] = [owner |-> p, agents |-> {"agent"}] /\ clients'[used'] # None
      /\ \A c \in Owning!ClientIds : c # used' => clients'[c] = clients[c]
  BY <1>1, <1>2, <1>4 DEF OwnerTypes
<1>6. lock = None
  BY DEF OwnerInv
<1>7. \A t \in Transfers : t \in Owning!Planned => transfer[t].pc = "shown"
  BY <1>1, <1>6 DEF Owning!Planned, PlanHolds
<1>8. OwnerTypes'
  BY <1>1, <1>2, <1>3, <1>5 DEF OwnerTypes, Owning!Planned
<1>9. owners # None => owners.client \in Owning!ClientIds /\ owners.client # used'
  BY <1>1, <1>2 DEF OwnerTypes, Registered, Owning!PolicyRows, Owning!ClientIds
<1>10. Registered'
  <2>1. \A c \in 1..MaxClients : clients'[c] # None => c <= used'
    BY <1>1, <1>2, <1>5 DEF Registered, Owning!ClientIds
  <2>2. owners' # None => clients'[owners'.client] # None
    BY <1>1, <1>5, <1>9 DEF Registered
  <2> QED
    BY <1>3, <1>5, <1>9, <2>1, <2>2 DEF Registered, Owning!RowsAgree
<1>11. Removable'
  BY <1>1, <1>2 DEF Removable
<1>12. \A t \in Transfers : PlanHolds(t)'
  <2> SUFFICES ASSUME NEW t \in Transfers PROVE PlanHolds(t)'
    OBVIOUS
  <2>1. PlanHolds(t) /\ (LoggedIn(transfer[t].owner, transfer[t].to) =>
                           LoggedIn(transfer[t].owner, transfer[t].to)')
    BY <1>1 DEF LoggedIn
  <2>2. transfer[t].pc = "shown" => transfer[t].client \in 1..used' /\ transfer[t].client # agent'.client
    BY <1>2, <1>3, <2>1 DEF PlanHolds
  <2> QED
    BY <1>6, <1>7, <2>1, <2>2 DEF PlanHolds
<1> QED
  BY <1>3, <1>8, <1>10, <1>11, <1>12 DEF OwnerInv

LEMMA OwnDirect ==
  ASSUME Owning!ConstantsOK, OwnerInv, NEW p \in Owners, Owning!ChangeDirectly(p)
  PROVE  OwnerInv'
<1> USE DEF Owning!ChangeDirectly, Owning!ConstantsOK
<1>1. OwnerTypes /\ Registered /\ Removable /\ \A t \in Transfers : PlanHolds(t)
  BY DEF OwnerInv
<1>2. agent \in Owning!AgentRows
  BY <1>1 DEF OwnerTypes
<1>3. /\ agent' \in Owning!AgentRows /\ agent' # None /\ agent'.client = agent.client
      /\ agent'.revision = agent.revision + 1 /\ agent.revision \in Nat
  BY <1>2, OwnedBy DEF Owning!AgentRows
<1>4. direct' = direct + 1 /\ direct' \in 0..MaxDirect /\ direct' # 0
  BY <1>1 DEF OwnerTypes
<1>5. OwnerTypes'
  BY <1>1, <1>3, <1>4 DEF OwnerTypes, Owning!Planned
<1>6. Registered'
  BY <1>1, <1>3, <1>4 DEF Registered, Owning!RowsAgree
<1>7. Removable'
  BY <1>1 DEF Removable
<1>8. \A t \in Transfers : PlanHolds(t)'
  <2> SUFFICES ASSUME NEW t \in Transfers PROVE PlanHolds(t)'
    OBVIOUS
  <2>1. PlanHolds(t) /\ (LoggedIn(transfer[t].owner, transfer[t].to) =>
                           LoggedIn(transfer[t].owner, transfer[t].to)')
    BY <1>1 DEF LoggedIn
  <2>2. t \in Owning!Planned => transfer[t].pc = "shown"
    BY <2>1 DEF Owning!Planned, PlanHolds
  <2>3. transfer[t].revision \in Nat
    BY <1>1 DEF OwnerTypes, PlanStates
  <2>4. transfer[t].pc = "shown" /\ transfer[t].client = agent'.client =>
          transfer[t].revision <= agent'.revision /\ transfer[t].revision # agent'.revision
    BY <1>3, <2>1, <2>3 DEF PlanHolds
  <2> QED
    BY <2>1, <2>2, <2>4 DEF PlanHolds
<1> QED
  BY <1>3, <1>5, <1>6, <1>7, <1>8 DEF OwnerInv

LEMMA OwnPreview ==
  ASSUME Owning!ConstantsOK, OwnerInv, NEW t \in Transfers, NEW to \in Owners \cup Emails,
         NEW at \in Instances \cup {None}, Owning!Preview(t, to, at)
  PROVE  OwnerInv'
<1> USE DEF Owning!ConstantsOK
<1>1. OwnerTypes /\ Registered /\ Removable /\ \A s \in Transfers : PlanHolds(s)
  BY DEF OwnerInv
<1>2. agent # None /\ lock = None /\ transfer[t].pc = "idle"
      /\ UNCHANGED <<agent, clients, owners, known, lock, stale, delete, direct, used>>
  BY DEF Owning!Preview, Owning!rows
<1>3. PICK p \in Owning!resolveTransferOwner(to) : Planning(t,
        [pc |-> "shown", to |-> to, owner |-> p, was |-> agent.owner,
         revision |-> agent.revision, client |-> agent.client, at |-> at])
  BY DEF Owning!Preview, Planning
<1> DEFINE plan == [pc |-> "shown", to |-> to, owner |-> p, was |-> agent.owner,
                    revision |-> agent.revision, client |-> agent.client, at |-> at]
<1>4. p \in Owners /\ LoggedIn(p, to)
  BY DEF Owning!resolveTransferOwner, LoggedIn
<1>5. agent \in Owning!AgentRows /\ agent.client = used /\ used \in 1..MaxClients
  BY <1>1, <1>2 DEF OwnerTypes, Registered
<1>6. plan \in PlanStates
  BY <1>4, <1>5 DEF PlanStates, Owning!AgentRows
<1>7. /\ transfer'[t] = plan /\ transfer' \in [Transfers -> PlanStates]
      /\ \A s \in Transfers : s # t => transfer'[s] = transfer[s]
  BY <1>1, <1>3, <1>6, PlansChange DEF OwnerTypes
<1>8. OwnerTypes'
  BY <1>1, <1>2, <1>7 DEF OwnerTypes
<1>9. Registered' /\ Removable'
  BY <1>1, <1>2 DEF Registered, Removable, Owning!RowsAgree
<1>10. t \notin stale /\ t # None
  BY <1>1, <1>2 DEF PlanHolds
<1>11. PlanHolds(t)'
  BY <1>2, <1>4, <1>5, <1>7, <1>10 DEF PlanHolds, LoggedIn, Owning!AgentRows
<1>12. ASSUME NEW s \in Transfers, s # t PROVE PlanHolds(s)'
  BY <1>1, <1>2, <1>7, <1>12 DEF PlanHolds, LoggedIn
<1> QED
  BY <1>1, <1>2, <1>8, <1>9, <1>11, <1>12 DEF OwnerInv

LEMMA OwnBegin ==
  ASSUME Owning!ConstantsOK, OwnerInv, NEW t \in Transfers, Owning!Begin(t)
  PROVE  OwnerInv'
<1> USE DEF Owning!ConstantsOK
<1>1. OwnerTypes /\ Registered /\ Removable /\ \A s \in Transfers : PlanHolds(s)
  BY DEF OwnerInv
<1>2. /\ agent # None /\ lock = None /\ lock' = t /\ transfer[t].pc = "shown"
      /\ ~Owning!ChangedSincePreview(t)
      /\ UNCHANGED <<agent, clients, owners, known, stale, delete, direct, used>>
  BY DEF Owning!Begin, Owning!LocksRow, Owning!rows
<1>3. PICK to \in {transfer[t].owner, transfer[t].to}, p \in Owners :
        /\ p \in Owning!resolveTransferOwner(to)
        /\ Planning(t, [transfer[t] EXCEPT !.pc = "locked", !.to = p])
  BY <1>1 DEF Owning!Begin, Planning, OwnerTypes
<1> DEFINE plan == [transfer[t] EXCEPT !.pc = "locked", !.to = p]
<1>4. transfer[t] \in PlanStates
  BY <1>1 DEF OwnerTypes
<1>5. /\ plan \in PlanStates /\ plan.pc = "locked" /\ plan.to = p
      /\ plan.owner = transfer[t].owner
  BY <1>4 DEF PlanStates
<1>6. /\ transfer'[t] = plan /\ transfer' \in [Transfers -> PlanStates]
      /\ \A s \in Transfers : s # t => transfer'[s] = transfer[s]
  BY <1>1, <1>3, <1>5, PlansChange DEF OwnerTypes
<1>7. p = transfer[t].owner
  <2>1. transfer[t].owner \in Owners /\ LoggedIn(transfer[t].owner, transfer[t].to)
    BY <1>1, <1>2 DEF PlanHolds
  <2>2. LoggedIn(transfer[t].owner, to)
    BY <1>3, <2>1 DEF LoggedIn
  <2> QED
    BY <1>3, <2>1, <2>2 DEF LoggedIn, Owning!resolveTransferOwner
<1>8. t \notin stale
  BY <1>1, <1>2 DEF PlanHolds, Owning!ChangedSincePreview
<1>9. OwnerTypes'
  BY <1>1, <1>2, <1>6 DEF OwnerTypes
<1>10. Registered' /\ Removable'
  BY <1>1, <1>2 DEF Registered, Removable, Owning!RowsAgree
<1>11. PlanHolds(t)'
  BY <1>2, <1>5, <1>6, <1>7, <1>8 DEF PlanHolds
<1>12. ASSUME NEW s \in Transfers, s # t PROVE PlanHolds(s)'
  <2>1. PlanHolds(s) /\ transfer'[s] = transfer[s] /\ lock' # s /\ lock # s
    BY <1>1, <1>2, <1>6, <1>12
  <2>2. LoggedIn(transfer[s].owner, transfer[s].to) => LoggedIn(transfer[s].owner, transfer[s].to)'
    BY <1>2, <2>1 DEF LoggedIn
  <2> QED
    BY <1>2, <2>1, <2>2 DEF PlanHolds
<1> QED
  BY <1>1, <1>2, <1>9, <1>10, <1>11, <1>12 DEF OwnerInv

(* A transfer that ends, of itself or as the agent stays as it is. *)
LEMMA OwnEnds ==
  ASSUME Owning!ConstantsOK, OwnerInv, NEW t \in Transfers, NEW p \in PlanStates,
         p.pc \in {"done", "ended"}, Planning(t, p), stale' = stale \ {t}, Owning!Frees(t),
         UNCHANGED <<agent, clients, owners, known, delete, direct, used>>
  PROVE  OwnerInv'
<1> USE DEF Owning!ConstantsOK
<1>1. OwnerTypes /\ Registered /\ Removable /\ \A s \in Transfers : PlanHolds(s)
  BY DEF OwnerInv
<1>2. /\ transfer'[t] = p /\ transfer' \in [Transfers -> PlanStates]
      /\ \A s \in Transfers : s # t => transfer'[s] = transfer[s]
  BY <1>1, PlansChange DEF OwnerTypes
<1>3. OwnerTypes'
  BY <1>1, <1>2 DEF OwnerTypes, Owning!Frees
<1>4. Registered' /\ Removable'
  BY <1>1 DEF Registered, Removable, Owning!RowsAgree
<1>5. PlanHolds(t)'
  BY <1>2 DEF PlanHolds, Owning!Frees
<1>6. ASSUME NEW s \in Transfers, s # t PROVE PlanHolds(s)'
  BY <1>1, <1>2, <1>6 DEF PlanHolds, LoggedIn, Owning!Frees
<1> QED
  BY <1>3, <1>4, <1>5, <1>6 DEF OwnerInv, Owning!Frees

LEMMA EndedPlan ==
  ASSUME NEW at \in Instances \cup {None}, NEW pc \in {"done", "ended"}
  PROVE  /\ [Owning!NoPlan EXCEPT !.pc = pc, !.at = at] \in PlanStates
         /\ [Owning!NoPlan EXCEPT !.pc = pc, !.at = at].pc = pc
         /\ [Owning!NoPlan EXCEPT !.pc = pc] \in PlanStates
         /\ [Owning!NoPlan EXCEPT !.pc = pc].pc = pc
BY DEF Owning!NoPlan, PlanStates

LEMMA OwnRefuse ==
  ASSUME Owning!ConstantsOK, OwnerInv, NEW t \in Transfers,
         Owning!Refuse(t) \/ Owning!Covers(t)
  PROVE  OwnerInv'
<1>1. Planning(t, [Owning!NoPlan EXCEPT !.pc = "ended"]) /\ stale' = stale \ {t}
      /\ UNCHANGED <<agent, clients, owners, known, delete, direct, used>>
  BY DEF Owning!Refuse, Owning!Covers, Owning!rows, Planning
<1>2. Owning!Frees(t)
  BY DEF Owning!Refuse, Owning!Covers, Owning!Frees, OwnerInv, PlanHolds
<1> QED
  BY <1>1, <1>2, OwnEnds, EndedPlan

LEMMA OwnHeard ==
  ASSUME Owning!ConstantsOK, OwnerInv, NEW t \in Transfers, Owning!RefreshLocally(t)
  PROVE  OwnerInv'
<1> USE DEF Owning!RefreshLocally
<1>1. transfer[t] \in PlanStates /\ transfer \in [Transfers -> PlanStates]
  BY DEF OwnerInv, OwnerTypes
<1>2. Planning(t, [transfer[t] EXCEPT !.pc = "ended"])
  BY <1>1 DEF Planning
<1>3. [transfer[t] EXCEPT !.pc = "ended"] \in PlanStates
      /\ [transfer[t] EXCEPT !.pc = "ended"].pc = "ended"
  BY <1>1 DEF PlanStates
<1>4. t \notin stale /\ lock # t
  BY DEF OwnerInv, PlanHolds
<1>5. stale' = stale \ {t} /\ Owning!Frees(t)
  BY <1>4 DEF Owning!Frees
<1> QED
  BY <1>2, <1>3, <1>5, OwnEnds DEF Owning!rows

LEMMA OwnCommit ==
  ASSUME Owning!ConstantsOK, OwnerInv, NEW t \in Transfers, Owning!Commit(t)
  PROVE  /\ OwnerInv'
         /\ agent' # None /\ agent'.owner = transfer[t].owner
<1> USE DEF Owning!ConstantsOK
<1> DEFINE p == transfer[t].to
           plan == [Owning!NoPlan EXCEPT !.pc = "done", !.at = transfer[t].at]
<1>1. OwnerTypes /\ Registered /\ Removable /\ \A s \in Transfers : PlanHolds(s)
  BY DEF OwnerInv
<1>2. /\ transfer[t].pc = "locked" /\ agent # None /\ Planning(t, plan)
      /\ stale' = (stale \ {t}) \cup (IF agent.owner # p THEN Owning!Planned \ {t} ELSE {})
      /\ Owning!Frees(t) /\ UNCHANGED <<known, delete, direct, used>>
  BY DEF Owning!Commit, Planning
<1>3. p \in Owners /\ p = transfer[t].owner /\ lock = t /\ t \notin stale
  BY <1>1, <1>2 DEF PlanHolds
<1>4. plan \in PlanStates /\ plan.pc = "done"
  <2>1. transfer[t].at \in Instances \cup {None}
    BY <1>1 DEF OwnerTypes, PlanStates
  <2> QED
    BY <2>1, EndedPlan
<1> HIDE DEF p, plan
<1>5. CASE agent.owner = p
  <2>1. UNCHANGED <<agent, clients, owners>>
    BY <1>5 DEF Owning!Commit, Owning!rows, p
  <2>2. stale' = stale \ {t}
    BY <1>2, <1>5
  <2> QED
    BY <1>2, <1>3, <1>4, <1>5, <2>1, <2>2, OwnEnds
<1>6. CASE agent.owner # p
  <2>1. Owning!Moves(p)
    BY <1>6 DEF Owning!Commit, p
  <2>2. agent \in Owning!AgentRows /\ agent.client = used
    BY <1>1, <1>2 DEF OwnerTypes, Registered
  <2>3. /\ agent' \in Owning!AgentRows /\ agent' # None /\ agent'.client = agent.client
        /\ agent'.owner = p /\ agent'.revision = agent.revision + 1 /\ agent.revision \in Nat
    BY <1>3, <1>6, <2>1, <2>2, OwnedBy DEF Owning!Moves, Owning!AgentRows
  <2>4. /\ clients' \in [Owning!ClientIds -> Owning!ClientRows \cup {None}]
        /\ \A c \in Owning!ClientIds : /\ clients'[c] # None <=> clients[c] # None
                                       /\ c = agent.client /\ clients[c] # None => clients'[c].owner = p
    <3>1. ASSUME NEW c \in Owning!ClientIds, clients[c] # None
          PROVE  /\ [clients[c] EXCEPT !.owner = p] \in Owning!ClientRows
                 /\ [clients[c] EXCEPT !.owner = p].owner = p
      <4>1. clients[c] \in Owning!ClientRows
        BY <1>1, <3>1 DEF OwnerTypes
      <4> QED
        BY <1>3, <4>1 DEF Owning!ClientRows
    <3>2. clients' = [c \in Owning!ClientIds |->
             IF c \in Owning!Compatible THEN [clients[c] EXCEPT !.owner = p] ELSE clients[c]]
      BY <2>1 DEF Owning!Moves
    <3>3. \A c \in Owning!Compatible : c \in Owning!ClientIds /\ clients[c] # None
      BY DEF Owning!Compatible
    <3>4. \A c \in Owning!ClientIds : clients[c] \in Owning!ClientRows \cup {None}
      BY <1>1 DEF OwnerTypes
    <3>5. \A c \in Owning!ClientIds : c = agent.client /\ clients[c] # None => c \in Owning!Compatible
      BY DEF Owning!Compatible
    <3>6. \A c \in Owning!ClientIds : clients[c] # None => [clients[c] EXCEPT !.owner = p] # None
      BY <3>1
    <3> QED
      BY <3>1, <3>2, <3>3, <3>4, <3>5, <3>6
  <2>5. /\ owners' \in Owning!PolicyRows \cup {None}
        /\ owners = None => owners' = None
        /\ owners # None => owners' # None /\ owners'.owner = p /\ owners'.client = owners.client
                            /\ owners.client \in Owning!ClientIds
    <3>1. CASE owners = None
      BY <2>1, <3>1 DEF Owning!Moves
    <3>2. CASE owners # None
      <4>1. owners \in Owning!PolicyRows
        BY <1>1, <3>2 DEF OwnerTypes
      <4>2. owners' = [owners EXCEPT !.owner = p]
        BY <2>1, <3>2 DEF Owning!Moves
      <4>3. owners' \in Owning!PolicyRows /\ owners'.owner = p /\ owners'.client = owners.client
            /\ owners.client \in Owning!ClientIds
        BY <1>3, <4>1, <4>2 DEF Owning!PolicyRows
      <4> QED
        BY <3>2, <4>3
    <3> QED
      BY <3>1, <3>2
  <2>6. /\ transfer'[t] = plan /\ transfer' \in [Transfers -> PlanStates]
        /\ \A s \in Transfers : s # t => transfer'[s] = transfer[s]
    BY <1>1, <1>2, <1>4, PlansChange DEF OwnerTypes
  <2>7. lock' = None
    BY <1>2, <1>3 DEF Owning!Frees
  <2>8. OwnerTypes'
    BY <1>1, <1>2, <2>3, <2>4, <2>5, <2>6, <2>7 DEF OwnerTypes, Owning!Planned
  <2>9. Registered'
    <3>1. agent'.client \in Owning!ClientIds
      BY <1>1, <2>2, <2>3 DEF OwnerTypes, Owning!ClientIds
    <3>2. \A c \in 1..MaxClients : clients'[c] # None => c <= used'
      BY <1>1, <1>2, <2>4 DEF Registered, Owning!ClientIds
    <3>3. owners' # None => clients'[owners'.client] # None
      BY <1>1, <2>4, <2>5 DEF Registered
    <3>4. Owning!RowsAgree'
      BY <1>1, <1>2, <2>3, <2>4, <2>5, <3>1 DEF Registered, Owning!RowsAgree
    <3> QED
      BY <1>2, <2>2, <2>3, <3>2, <3>3, <3>4 DEF Registered
  <2>10. Removable'
    BY <1>1, <1>2 DEF Removable
  <2>11. PlanHolds(t)'
    <3>1. t \notin stale' /\ t # None
      BY <1>2
    <3> QED
      BY <1>4, <2>6, <2>7, <3>1 DEF PlanHolds
  <2>12. ASSUME NEW s \in Transfers, s # t PROVE PlanHolds(s)'
    <3>1. PlanHolds(s) /\ transfer'[s] = transfer[s] /\ transfer[s].pc # "locked"
      BY <1>1, <1>3, <2>6, <2>12 DEF PlanHolds
    <3>2. s \in Owning!Planned => transfer[s].pc = "shown"
      BY <3>1 DEF Owning!Planned
    <3>3. s \in stale' => transfer[s].pc = "shown"
      BY <1>2, <3>1, <3>2 DEF PlanHolds
    <3>4. transfer[s].revision \in Nat
      BY <1>1 DEF OwnerTypes, PlanStates
    <3>5. transfer[s].pc = "shown" /\ transfer[s].client = agent'.client =>
            transfer[s].revision <= agent'.revision /\ transfer[s].revision # agent'.revision
      BY <1>2, <2>3, <3>1, <3>4 DEF PlanHolds
    <3>6. LoggedIn(transfer[s].owner, transfer[s].to) => LoggedIn(transfer[s].owner, transfer[s].to)'
      BY <1>2, <3>1 DEF LoggedIn
    <3> QED
      BY <1>2, <2>7, <3>1, <3>3, <3>5, <3>6 DEF PlanHolds
  <2> QED
    BY <1>3, <2>3, <2>7, <2>8, <2>9, <2>10, <2>11, <2>12 DEF OwnerInv
<1> QED
  BY <1>5, <1>6

(* A delete that comes to be r. *)
Deleting(d, r) == delete' = [delete EXCEPT ![d] = r]

LEMMA DeletesChange ==
  ASSUME OwnerTypes, NEW d \in Deletions, NEW r \in DeleteStates, Deleting(d, r)
  PROVE  /\ delete' \in [Deletions -> DeleteStates] /\ delete'[d] = r
         /\ \A c \in Deletions : c # d => delete'[c] = delete[c]
BY DEF OwnerTypes, Deleting

LEMMA OwnResolve ==
  ASSUME Owning!ConstantsOK, OwnerInv, NEW d \in Deletions,
         NEW r \in DeleteStates, Deleting(d, r), r.pc = "answered" \/ r.client \in 1..used,
         UNCHANGED <<agent, clients, owners, known, lock, transfer, stale, direct, used>>
  PROVE  OwnerInv'
<1>1. OwnerTypes /\ Registered /\ Removable /\ \A s \in Transfers : PlanHolds(s)
  BY DEF OwnerInv
<1>2. OwnerTypes'
  BY <1>1, DeletesChange DEF OwnerTypes
<1>3. Removable'
  BY <1>1, DeletesChange DEF Removable
<1>4. Registered' /\ \A s \in Transfers : PlanHolds(s)'
  BY <1>1 DEF Registered, Owning!RowsAgree, PlanHolds, LoggedIn
<1> QED
  BY <1>2, <1>3, <1>4 DEF OwnerInv

LEMMA OwnDeleteRows ==
  ASSUME Owning!ConstantsOK, OwnerInv, NEW d \in Deletions, Owning!DeleteRows(d)
  PROVE  OwnerInv'
<1> USE DEF Owning!ConstantsOK
<1> DEFINE c == delete[d].client
<1>1. OwnerTypes /\ Registered /\ Removable /\ \A s \in Transfers : PlanHolds(s)
  BY DEF OwnerInv
<1>2. /\ delete[d].pc = "resolved" /\ lock = None
      /\ UNCHANGED <<known, lock, transfer, direct, used>>
      /\ Deleting(d, [delete[d] EXCEPT !.pc = "deleted"])
  BY <1>1 DEF Owning!DeleteRows, Deleting, OwnerTypes
<1>3. c \in 1..used /\ used \in 1..MaxClients /\ c \in Owning!ClientIds
  BY <1>1, <1>2 DEF Removable, OwnerTypes, Owning!ClientIds
<1>4. /\ [delete[d] EXCEPT !.pc = "deleted"] \in DeleteStates
      /\ [delete[d] EXCEPT !.pc = "deleted"].client = c
  <2>1. delete[d] \in DeleteStates
    BY <1>1 DEF OwnerTypes
  <2> QED
    BY <2>1 DEF DeleteStates
<1>5. /\ delete' \in [Deletions -> DeleteStates] /\ delete'[d].client = c
      /\ \A e \in Deletions : e # d => delete'[e] = delete[e]
  BY <1>1, <1>2, <1>4, DeletesChange
<1>6. \/ agent' = None /\ stale' = stale \cup Owning!Planned /\ Owning!Visible(d)
      \/ UNCHANGED <<agent, stale>> /\ ~Owning!Visible(d)
  BY DEF Owning!DeleteRows
<1>7. \/ clients[c] # None /\ clients[c].owner = delete[d].by /\ Owning!Removes(c)
      \/ UNCHANGED <<clients, owners>>
  BY DEF Owning!DeleteRows
<1>8. /\ clients' \in [Owning!ClientIds -> Owning!ClientRows \cup {None}]
      /\ \A k \in Owning!ClientIds : clients'[k] = clients[k] \/ (k = c /\ clients'[k] = None)
      /\ owners' = None \/ owners' = owners
      /\ owners' # None /\ clients[owners.client] # None => clients'[owners.client] # None
  <2>1. owners # None => owners.client \in Owning!ClientIds
    BY <1>1 DEF OwnerTypes, Owning!PolicyRows
  <2>2. CASE UNCHANGED <<clients, owners>>
    BY <1>1, <2>1, <2>2 DEF OwnerTypes
  <2>3. CASE Owning!Removes(c)
    <3>1. /\ clients' \in [Owning!ClientIds -> Owning!ClientRows \cup {None}] /\ clients'[c] = None
          /\ \A k \in Owning!ClientIds : k # c => clients'[k] = clients[k]
      BY <1>1, <1>3, <2>3 DEF OwnerTypes, Owning!Removes
    <3>2. owners' = None \/ (owners' = owners /\ owners.client # c)
      BY <2>3 DEF Owning!Removes
    <3> QED
      BY <2>1, <3>1, <3>2
  <2> QED
    BY <1>7, <2>2, <2>3
<1> HIDE DEF c
<1>9. OwnerTypes'
  BY <1>1, <1>2, <1>5, <1>6, <1>8 DEF OwnerTypes, Owning!Planned
<1>10. Registered'
  <2>1. \A k \in 1..MaxClients : clients'[k] # None => k <= used'
    BY <1>1, <1>2, <1>8 DEF Registered, Owning!ClientIds
  <2>2. Owning!RowsAgree'
    <3> SUFFICES ASSUME direct = 0, agent # None, agent' # None PROVE Owning!RowsAgree'
      BY <1>2, <1>6 DEF Owning!RowsAgree
    <3>1. agent' = agent /\ ~Owning!Visible(d)
      BY <1>6
    <3>2. /\ clients[agent.client] # None /\ clients[agent.client].owner = agent.owner
          /\ (owners # None /\ owners.client = agent.client => owners.owner = agent.owner)
      BY <1>1 DEF Registered, Owning!RowsAgree
    <3>3. agent.client \in Owning!ClientIds
      BY <1>1, <1>3 DEF Registered, Owning!ClientIds
    <3>4. clients'[agent.client] = clients[agent.client]
      <4>1. CASE agent.client # c
        BY <1>8, <3>3, <4>1
      <4>2. CASE agent.client = c
        BY <1>7, <3>1, <3>2, <4>2 DEF Owning!Visible, c
      <4> QED
        BY <4>1, <4>2
    <3> QED
      BY <1>8, <3>1, <3>2, <3>4 DEF Owning!RowsAgree
  <2> QED
    BY <1>1, <1>2, <1>6, <1>8, <2>1, <2>2 DEF Registered
<1>11. Removable'
  BY <1>1, <1>2, <1>3, <1>5 DEF Removable
<1>12. ASSUME NEW s \in Transfers PROVE PlanHolds(s)'
  <2>1. PlanHolds(s) /\ (s \in Owning!Planned => transfer[s].pc = "shown")
    BY <1>1, <1>2 DEF PlanHolds, Owning!Planned
  <2>2. LoggedIn(transfer[s].owner, transfer[s].to) => LoggedIn(transfer[s].owner, transfer[s].to)'
    BY <1>2 DEF LoggedIn
  <2> QED
    BY <1>2, <1>6, <2>1, <2>2 DEF PlanHolds
<1> QED
  BY <1>2, <1>9, <1>10, <1>11, <1>12 DEF OwnerInv

LEMMA OwnCall ==
  ASSUME Owning!ConstantsOK, OwnerInv, NEW d \in Deletions,
         \/ \E p \in Owners : Owning!Resolve(d, p)
         \/ \E at \in Instances \cup {None} : Owning!CloseSessions(d, at)
  PROVE  OwnerInv'
<1>1. OwnerTypes /\ Registered
  BY DEF OwnerInv
<1>2. CASE \E p \in Owners : Owning!Resolve(d, p)
  <2>1. PICK p \in Owners : Owning!Resolve(d, p)
    BY <1>2
  <2> DEFINE r == [pc |-> "resolved", by |-> p, client |-> agent.client]
  <2>2. /\ agent # None /\ Deleting(d, r)
        /\ UNCHANGED <<agent, clients, owners, known, lock, transfer, stale, direct, used>>
    BY <2>1 DEF Owning!Resolve, Owning!rows, Deleting
  <2>3. r.client \in 1..used /\ r \in DeleteStates
    BY <1>1, <2>2 DEF OwnerTypes, Registered, DeleteStates
  <2> QED
    BY <2>2, <2>3, OwnResolve
<1>3. CASE \E at \in Instances \cup {None} : Owning!CloseSessions(d, at)
  <2> DEFINE r == [delete[d] EXCEPT !.pc = "answered"]
  <2>1. delete[d] \in DeleteStates /\ delete \in [Deletions -> DeleteStates]
    BY <1>1 DEF OwnerTypes
  <2>2. /\ Deleting(d, r)
        /\ UNCHANGED <<agent, clients, owners, known, lock, transfer, stale, direct, used>>
    BY <1>3, <2>1 DEF Owning!CloseSessions, Owning!rows, Deleting
  <2>3. r.pc = "answered" /\ r \in DeleteStates
    BY <2>1 DEF DeleteStates
  <2> QED
    BY <2>2, <2>3, OwnResolve
<1> QED
  BY <1>2, <1>3

(* What every step keeps, a transfer that commits, and a registration that goes. *)
CommitsAsShown == \A t \in Transfers :
  Owning!Commits(t) => t \notin stale /\ agent'.owner = transfer[t].owner
GoesByItsOwner == agent # None /\ agent' = None =>
  \E d \in Deletions : delete[d].pc = "resolved" /\ delete[d].by = agent.owner

LEMMA OwnNext ==
  ASSUME Owning!ConstantsOK, OwnerInv, [Owning!Next]_(Owning!vars)
  PROVE  OwnerInv' /\ CommitsAsShown /\ GoesByItsOwner
<1>1. /\ \A t \in Transfers : PlanHolds(t) /\ (Owning!Commits(t) => t \notin stale)
      /\ transfer \in [Transfers -> PlanStates]
  BY DEF OwnerInv, OwnerTypes, Owning!Commits, PlanHolds
<1>2. ASSUME OwnerInv', UNCHANGED <<agent, transfer>>
      PROVE  OwnerInv' /\ CommitsAsShown /\ GoesByItsOwner
  BY <1>2 DEF CommitsAsShown, GoesByItsOwner, Owning!Commits
<1>3. ASSUME OwnerInv', agent' # None \/ agent' = agent, UNCHANGED transfer
      PROVE  OwnerInv' /\ CommitsAsShown /\ GoesByItsOwner
  BY <1>3 DEF CommitsAsShown, GoesByItsOwner, Owning!Commits
<1>4. ASSUME OwnerInv', UNCHANGED agent, NEW t \in Transfers, NEW p, Planning(t, p),
             ~(transfer[t].pc = "locked" /\ p.pc = "done")
      PROVE  OwnerInv' /\ CommitsAsShown /\ GoesByItsOwner
  BY <1>1, <1>4, PlansChange DEF CommitsAsShown, GoesByItsOwner, Owning!Commits
<1>5. CASE \E p \in Owners, e \in Emails \cup {None} : Owning!Login(p, e)
  BY <1>2, <1>5, OwnLogin DEF Owning!Login, Owning!rows
<1>6. CASE \E p \in Owners : Owning!register_client(p)
  BY <1>3, <1>6, OwnRegister DEF Owning!register_client, OwnerInv, OwnerTypes, Owning!AgentRows, Owning!ConstantsOK
<1>7. CASE \E p \in Owners : Owning!ChangeDirectly(p)
  <2>1. PICK p \in Owners : Owning!ChangeDirectly(p)
    BY <1>7
  <2>2. agent \in Owning!AgentRows
    BY <2>1 DEF Owning!ChangeDirectly, OwnerInv, OwnerTypes
  <2> QED
    BY <1>3, <2>1, <2>2, OwnDirect, OwnedBy DEF Owning!ChangeDirectly
<1>8. ASSUME NEW t \in Transfers,
             \E to \in Owners \cup Emails, at \in Instances \cup {None} : Owning!Preview(t, to, at)
      PROVE  OwnerInv' /\ CommitsAsShown /\ GoesByItsOwner
  <2>1. PICK to \in Owners \cup Emails, at \in Instances \cup {None} : Owning!Preview(t, to, at)
    BY <1>8
  <2>2. UNCHANGED agent /\ transfer[t].pc = "idle" /\ \E p : Planning(t, p)
    BY <2>1 DEF Owning!Preview, Owning!rows, Planning
  <2> QED
    BY <1>4, <2>1, <2>2, OwnPreview
<1>9. ASSUME NEW t \in Transfers, Owning!Begin(t)
      PROVE  OwnerInv' /\ CommitsAsShown /\ GoesByItsOwner
  <2>1. transfer[t].pc = "shown" /\ UNCHANGED agent
    BY <1>9 DEF Owning!Begin, Owning!rows
  <2>2. \E to : Planning(t, [transfer[t] EXCEPT !.pc = "locked", !.to = to])
    BY <1>1, <1>9 DEF Owning!Begin, Planning
  <2> QED
    BY <1>4, <1>9, <2>1, <2>2, OwnBegin
<1>10. ASSUME NEW t \in Transfers, Owning!Refuse(t) \/ Owning!Covers(t)
       PROVE  OwnerInv' /\ CommitsAsShown /\ GoesByItsOwner
  <2>1. Planning(t, [Owning!NoPlan EXCEPT !.pc = "ended"]) /\ UNCHANGED agent
    BY <1>10 DEF Owning!Refuse, Owning!Covers, Owning!rows, Planning
  <2>2. [Owning!NoPlan EXCEPT !.pc = "ended"].pc = "ended"
    BY EndedPlan
  <2> QED
    BY <1>4, <1>10, <2>1, <2>2, OwnRefuse
<1>11. ASSUME NEW t \in Transfers, Owning!Commit(t)
       PROVE  OwnerInv' /\ CommitsAsShown /\ GoesByItsOwner
  <2>1. OwnerInv' /\ agent' # None /\ agent'.owner = transfer[t].owner
    BY <1>11, OwnCommit
  <2>2. \A s \in Transfers : s # t => transfer'[s] = transfer[s]
    BY <1>1, <1>11 DEF Owning!Commit
  <2> QED
    BY <1>1, <2>1, <2>2 DEF CommitsAsShown, GoesByItsOwner, Owning!Commits
<1>12. ASSUME NEW t \in Transfers, Owning!RefreshLocally(t)
       PROVE  OwnerInv' /\ CommitsAsShown /\ GoesByItsOwner
  <2>1. transfer[t].pc = "done" /\ UNCHANGED agent
    BY <1>12 DEF Owning!RefreshLocally, Owning!rows
  <2>2. Planning(t, [transfer[t] EXCEPT !.pc = "ended"])
    BY <1>1, <1>12 DEF Owning!RefreshLocally, Planning
  <2> QED
    BY <1>4, <1>12, <2>1, <2>2, OwnHeard
<1>13. ASSUME NEW d \in Deletions,
              \/ \E p \in Owners : Owning!Resolve(d, p)
              \/ \E at \in Instances \cup {None} : Owning!CloseSessions(d, at)
       PROVE  OwnerInv' /\ CommitsAsShown /\ GoesByItsOwner
  BY <1>2, <1>13, OwnCall DEF Owning!Resolve, Owning!CloseSessions, Owning!rows
<1>14. ASSUME NEW d \in Deletions, Owning!DeleteRows(d)
       PROVE  OwnerInv' /\ CommitsAsShown /\ GoesByItsOwner
  <2>1. OwnerInv'
    BY <1>14, OwnDeleteRows
  <2>2. CommitsAsShown
    BY <1>14 DEF Owning!DeleteRows, CommitsAsShown, Owning!Commits
  <2>3. GoesByItsOwner
    BY <1>14 DEF Owning!DeleteRows, Owning!Visible, GoesByItsOwner
  <2> QED
    BY <2>1, <2>2, <2>3
<1>15. CASE UNCHANGED <<Owning!rows, known, lock, transfer, stale, delete, direct, used>>
  BY <1>2, <1>15, OwnRest DEF Owning!rows
<1>16. CASE \/ UNCHANGED Owning!vars
            \/ \E i \in Instances : \/ Owning!HelloLooksUp(i) \/ Owning!HelloRegisters(i)
                                    \/ Owning!Refresh(i) \/ Owning!Unheeded(i)
            \/ \E x \in Instances \cup Transfers : Owning!Apply(x) \/ Owning!RefreshFails(x)
  <2> SUFFICES UNCHANGED <<Owning!rows, known, lock, transfer, stale, delete, direct, used>>
    BY <1>15
  <2>1. CASE UNCHANGED Owning!vars
    BY <2>1 DEF Owning!vars, Owning!rows, Owning!sessions
  <2>2. ASSUME NEW i \in Instances, Owning!HelloLooksUp(i) \/ Owning!HelloRegisters(i)
        PROVE  UNCHANGED <<Owning!rows, known, lock, transfer, stale, delete, direct, used>>
    BY <2>2 DEF Owning!HelloLooksUp, Owning!HelloRegisters
  <2>3. ASSUME NEW i \in Instances, Owning!Refresh(i) \/ Owning!Unheeded(i)
        PROVE  UNCHANGED <<Owning!rows, known, lock, transfer, stale, delete, direct, used>>
    BY <2>3 DEF Owning!Refresh, Owning!Unheeded
  <2>4. ASSUME NEW x \in Instances \cup Transfers, Owning!Apply(x) \/ Owning!RefreshFails(x)
        PROVE  UNCHANGED <<Owning!rows, known, lock, transfer, stale, delete, direct, used>>
    BY <2>4 DEF Owning!Apply, Owning!RefreshFails
  <2> QED
    BY <1>16, <2>1, <2>2, <2>3, <2>4
<1> QED
  BY <1>5, <1>6, <1>7, <1>8, <1>9, <1>10, <1>11, <1>12, <1>13, <1>14, <1>16 DEF Owning!Next

(* What the rows, the previews and the deletes of an agent's ownership have in  *)
(* common holds whatever the order of logins, registrations, transfers, deletes *)
(* and direct changes.                                                         *)
THEOREM OwnershipInvariant == Owning!ConstantsOK /\ Owning!Spec => []OwnerInv
<1> DEFINE Inv == OwnerInv /\ Owning!ConstantsOK
<1>1. Owning!ConstantsOK /\ Owning!Init => Inv
  BY OwnInit
<1>2. Inv /\ [Owning!Next]_(Owning!vars) => Inv'
  BY OwnNext DEF Owning!ConstantsOK, Owning!AgentRows, Owning!ClientRows, Owning!PolicyRows,
     Owning!ClientIds
<1> QED
  BY <1>1, <1>2, PTL DEF Owning!Spec

(* The rows that say who owns a registration agree, a transfer goes through as  *)
(* its preview showed it or not at all, and only the owner of that moment       *)
(* deletes a registration (agent-transfer.ts, deleteClientForOwner,             *)
(* expectedRevision and expectedClientId).                                      *)
THEOREM OwnershipMoves == Owning!ConstantsOK /\ Owning!Spec => OwnershipMovesAsShown
<1> DEFINE Inv == OwnerInv /\ Owning!ConstantsOK
           Agree == Owning!RowsAgree
<1>1. Owning!ConstantsOK /\ Owning!Init => Inv
  BY OwnInit
<1>2. Inv /\ [Owning!Next]_(Owning!vars) => Inv'
  BY OwnNext DEF Owning!ConstantsOK, Owning!AgentRows, Owning!ClientRows, Owning!PolicyRows,
     Owning!ClientIds
<1>3. Inv => Agree
  BY DEF OwnerInv, Registered
<1>4. Inv /\ [Owning!Next]_(Owning!vars) =>
        [\A t \in Transfers : Owning!Commits(t) => t \notin stale]_(Owning!vars)
  BY OwnNext DEF CommitsAsShown
<1>5. Inv /\ [Owning!Next]_(Owning!vars) =>
        [\A t \in Transfers : Owning!Commits(t) => agent'.owner = transfer[t].owner]_(Owning!vars)
  BY OwnNext DEF CommitsAsShown
<1>6. Inv /\ [Owning!Next]_(Owning!vars) =>
        [agent # None /\ agent' = None =>
           \E d \in Deletions : delete[d].pc = "resolved" /\ delete[d].by = agent.owner]_(Owning!vars)
  BY OwnNext DEF GoesByItsOwner
<1> HIDE DEF Inv, Agree
<1>7. Owning!ConstantsOK /\ Owning!Spec => []Agree
  BY <1>1, <1>2, <1>3, PTL DEF Owning!Spec
<1>8. Owning!ConstantsOK /\ Owning!Spec => Owning!NoStaleTransfer
  BY <1>1, <1>2, <1>4, PTL DEF Owning!Spec, Owning!NoStaleTransfer
<1>9. Owning!ConstantsOK /\ Owning!Spec => Owning!GoesToTheOwnerShown
  BY <1>1, <1>2, <1>5, PTL DEF Owning!Spec, Owning!GoesToTheOwnerShown
<1>10. Owning!ConstantsOK /\ Owning!Spec => Owning!OnlyOwnerDeletes
  BY <1>1, <1>2, <1>6, PTL DEF Owning!Spec, Owning!OnlyOwnerDeletes
<1> QED
  BY <1>7, <1>8, <1>9, <1>10, PTL DEF OwnershipMovesAsShown, Agree

-----------------------------------------------------------------------------
(***************************************************************************)
(* Signing in, for every number of codes, sign-ins, open polls and people. *)
(* A row is pending once, so one person's approval is all a code gets, and *)
(* is gone once the code has yielded a token; a call that is about to      *)
(* issue carries what was approved; and where a client makes one call at a *)
(* time, a code that has been polled for its token has no other call under *)
(* way, and the client that is told stops.                                 *)
(***************************************************************************)
LoginPlans == {"poll", "popup"} \X {"caller", "owner_session", "client_register"}
ClientStates == [st : {"idle", "waiting", "got", "ended"}, plan : LoginPlans]
SessionRows == [status : {"none", "pending", "approved", "expired"}, principal : People \cup {None}]
SignIns == [pc : {"idle", "consent", "callback", "exchanged"}, code : Codes \cup {None},
            who : People \cup {None}, onsite : BOOLEAN]
PollCalls == [pc : {"idle", "sent", "admitted", "approved", "answered"}, code : Codes \cup {None},
              at : Instances \cup {None},
              answer : {"none", "slow_down", "pending", "expired", "token", "error"},
              row : SessionRows]
TokensIssued == [code : Codes, by : Browsers \cup Polls,
                 audience : {"caller", "owner_session", "client"}, principal : People]

LoginTypes ==
  /\ client \in [Codes -> ClientStates] /\ session \in [Codes -> SessionRows]
  /\ browser \in [Browsers -> SignIns] /\ poll \in [Polls -> PollCalls]
  /\ tokens \subseteq TokensIssued /\ approvals \subseteq Codes \X People

Asked(c) == c \in Codes /\ client[c].st # "idle"

(* A code is approved at most once, and its row says by whom. *)
CodeHolds(c) ==
  /\ client[c].st = "idle" => session[c].status = "none"
  /\ client[c].st = "idle" \/ session[c].status = "pending" => \A p \in People : <<c, p>> \notin approvals
  /\ session[c].status = "approved" =>
       session[c].principal \in People /\ <<c, session[c].principal>> \in approvals
  /\ \A p, r \in People : <<c, p>> \in approvals /\ <<c, r>> \in approvals => p = r

SignInHolds(b) ==
  /\ browser[b].pc # "idle" => Asked(browser[b].code)
  /\ browser[b].pc = "exchanged" => browser[b].who \in People

(* A call that was told of an approval carries whose it was. *)
CallHolds(q) ==
  /\ poll[q].pc # "idle" => Asked(poll[q].code) /\ client[poll[q].code].plan[1] = "poll"
  /\ poll[q].pc = "approved" =>
       poll[q].row.principal \in People /\ <<poll[q].code, poll[q].row.principal>> \in approvals

OneCall ==
  \A q, r \in Polls :
    poll[q].pc # "idle" /\ poll[r].pc # "idle" /\ poll[q].code = poll[r].code
      /\ poll[q].code \notin Hasty => q = r

(* A code was polled for its token by a client that makes one call at a time:   *)
(* the call that got it is the only one left, and the client that has heard of *)
(* it does not wait.                                                           *)
Spent(c) ==
  /\ \A q \in Polls : poll[q].pc # "idle" /\ poll[q].code = c => poll[q].pc = "answered"
  /\ client[c].st = "waiting" =>
       \E q \in Polls : poll[q].pc = "answered" /\ poll[q].code = c /\ poll[q].answer = "token"

TokenHolds(t) ==
  /\ Asked(t.code) /\ t.audience = Device!Audience(t.code)
  /\ session[t.code].status = "none"
  /\ IF t.by \in Polls THEN <<t.code, t.principal>> \in approvals ELSE t.audience # "client"
  /\ t.by \in Polls /\ t.code \notin Hasty => Spent(t.code)

OneTokenEach ==
  \A t, u \in tokens :
    \/ t.code = u.code /\ t.code \notin Hasty /\ t.by \in Polls /\ u.by \in Polls
    \/ t.audience = "client" /\ u.audience = "client"
    => t = u

LoginInv ==
  /\ LoginTypes /\ OneCall /\ OneTokenEach
  /\ \A c \in Codes : CodeHolds(c)
  /\ \A b \in Browsers : SignInHolds(b)
  /\ \A q \in Polls : CallHolds(q)
  /\ \A t \in tokens : TokenHolds(t)

LEMMA LoginInit ==
  ASSUME Device!ConstantsOK, Device!Init
  PROVE  LoginInv
<1> USE DEF Device!Init, Device!NoRow, Device!NoSignIn, Device!NoPoll, Device!ConstantsOK
<1>1. LoginTypes
  BY DEF LoginTypes, LoginPlans, ClientStates, SessionRows, SignIns, PollCalls
<1>2. OneCall /\ OneTokenEach /\ \A t \in tokens : TokenHolds(t)
  BY DEF OneCall, OneTokenEach
<1>3. \A c \in Codes : CodeHolds(c)
  BY DEF CodeHolds
<1>4. (\A b \in Browsers : SignInHolds(b)) /\ \A q \in Polls : CallHolds(q)
  BY DEF SignInHolds, CallHolds
<1> QED
  BY <1>1, <1>2, <1>3, <1>4 DEF LoginInv

(* Only the sign-in b changes, to r. *)
SignsIn(b, r) ==
  browser' = [browser EXCEPT ![b] = r] /\ UNCHANGED <<client, session, poll, tokens, approvals>>

LEMMA LoginSigns ==
  ASSUME LoginInv, NEW b \in Browsers, NEW r \in SignIns, SignsIn(b, r),
         r.pc # "idle" => Asked(r.code), r.pc = "exchanged" => r.who \in People
  PROVE  LoginInv'
<1>1. /\ browser' \in [Browsers -> SignIns] /\ browser'[b] = r
      /\ \A d \in Browsers : d # b => browser'[d] = browser[d]
  BY DEF LoginInv, LoginTypes, SignsIn
<1>2. LoginTypes' /\ OneCall' /\ OneTokenEach'
  BY <1>1 DEF LoginInv, LoginTypes, OneCall, OneTokenEach, SignsIn
<1>3. (\A c \in Codes : CodeHolds(c)') /\ (\A q \in Polls : CallHolds(q)')
  BY DEF LoginInv, CodeHolds, CallHolds, Asked, SignsIn
<1>4. \A t \in tokens' : TokenHolds(t)'
  BY DEF LoginInv, TokenHolds, Asked, Spent, Device!Audience, Device!Intent, SignsIn
<1>5. ASSUME NEW d \in Browsers PROVE SignInHolds(d)'
  BY <1>1 DEF LoginInv, SignInHolds, Asked, SignsIn
<1> QED
  BY <1>2, <1>3, <1>4, <1>5 DEF LoginInv

LEMMA LoginBrowses ==
  ASSUME LoginInv, NEW b \in Browsers,
         \/ \E c \in Codes, onsite \in BOOLEAN : Device!Start(b, c, onsite)
         \/ Device!Return(b) \/ Device!Refuse(b)
         \/ \E p \in People \cup {None} : Device!Identify(b, p)
  PROVE  LoginInv'
<1>1. /\ browser \in [Browsers -> SignIns] /\ browser[b] \in SignIns /\ SignInHolds(b)
      /\ \A c \in Codes : CodeHolds(c)
  BY DEF LoginInv, LoginTypes
<1>2. Device!NoSignIn \in SignIns /\ Device!NoSignIn.pc = "idle"
  BY DEF Device!NoSignIn, SignIns
<1>3. ASSUME NEW c \in Codes, NEW onsite \in BOOLEAN, Device!Start(b, c, onsite) PROVE LoginInv'
  <2> DEFINE r == [pc |-> "consent", code |-> c, who |-> None, onsite |-> onsite]
  <2>1. SignsIn(b, r) /\ r \in SignIns
    BY <1>3 DEF Device!Start, SignsIn, SignIns
  <2>2. Asked(c)
    BY <1>1, <1>3 DEF Device!Start, Device!Pending, CodeHolds, Asked
  <2> QED
    BY <2>1, <2>2, LoginSigns
<1>4. CASE Device!Refuse(b)
  <2>1. SignsIn(b, Device!NoSignIn)
    BY <1>4 DEF Device!Refuse, SignsIn
  <2> QED
    BY <1>2, <2>1, LoginSigns
<1>5. CASE Device!Return(b)
  <2> DEFINE r == [browser[b] EXCEPT !.pc = "callback"]
  <2>1. SignsIn(b, r) \/ SignsIn(b, Device!NoSignIn)
    BY <1>1, <1>5 DEF Device!Return, SignsIn
  <2>2. r \in SignIns /\ r.pc = "callback" /\ r.code = browser[b].code
    BY <1>1 DEF SignIns
  <2>3. Asked(r.code)
    BY <1>1, <1>5, <2>2 DEF Device!Return, SignInHolds
  <2> QED
    BY <1>2, <2>1, <2>2, <2>3, LoginSigns
<1>6. ASSUME NEW p \in People \cup {None}, Device!Identify(b, p) PROVE LoginInv'
  <2> DEFINE r == [browser[b] EXCEPT !.pc = "exchanged", !.who = p]
  <2>1. (p # None /\ SignsIn(b, r)) \/ SignsIn(b, Device!NoSignIn)
    BY <1>1, <1>6 DEF Device!Identify, SignsIn
  <2>2. r \in SignIns /\ r.pc = "exchanged" /\ r.code = browser[b].code /\ r.who = p
    BY <1>1 DEF SignIns
  <2>3. Asked(r.code)
    BY <1>1, <1>6, <2>2 DEF Device!Identify, SignInHolds
  <2> QED
    BY <1>2, <2>1, <2>2, <2>3, LoginSigns
<1> QED
  BY <1>3, <1>4, <1>5, <1>6

(* The row of c is gone or has expired, or is what it was. *)
RowEnds(c) ==
  \/ UNCHANGED session
  \/ /\ session' \in [Codes -> SessionRows] /\ session'[c].status \in {"none", "expired"}
     /\ session[c].status = "none" => session'[c].status = "none"
     /\ \A d \in Codes : d # c => session'[d] = session[d]

LEMMA RowsEnd ==
  ASSUME LoginInv, NEW c \in Codes, Asked(c), RowEnds(c), UNCHANGED <<client, approvals>>
  PROVE  /\ session' \in [Codes -> SessionRows] /\ \A d \in Codes : CodeHolds(d)'
         /\ \A d \in Codes : session[d].status = "none" => session'[d].status = "none"
BY DEF LoginInv, LoginTypes, CodeHolds, Asked, RowEnds

LEMMA LoginSweep ==
  ASSUME LoginInv, Device!ConstantsOK, NEW c \in Codes, Device!Sweep(c)
  PROVE  LoginInv'
<1>1. Asked(c)
  BY DEF LoginInv, CodeHolds, Asked, Device!Sweep
<1>2. RowEnds(c) /\ UNCHANGED <<client, browser, poll, tokens, approvals>>
  BY DEF Device!Sweep, Device!NoRow, RowEnds, LoginInv, LoginTypes, SessionRows
<1>3. /\ session' \in [Codes -> SessionRows] /\ \A d \in Codes : CodeHolds(d)'
      /\ \A d \in Codes : session[d].status = "none" => session'[d].status = "none"
  BY <1>1, <1>2, RowsEnd
<1>4. LoginTypes' /\ OneCall' /\ OneTokenEach'
  BY <1>2, <1>3 DEF LoginInv, LoginTypes, OneCall, OneTokenEach
<1>5. (\A b \in Browsers : SignInHolds(b)') /\ (\A q \in Polls : CallHolds(q)')
  BY <1>2 DEF LoginInv, SignInHolds, CallHolds, Asked
<1>6. \A t \in tokens' : TokenHolds(t)'
  BY <1>2, <1>3 DEF LoginInv, TokenHolds, Asked, Spent, Device!Audience, Device!Intent
<1> QED
  BY <1>3, <1>4, <1>5, <1>6 DEF LoginInv

(* A client that begins asks for a code with the plan it was started with.      *)
LEMMA LoginAsk ==
  ASSUME LoginInv, Device!ConstantsOK, NEW c \in Codes, NEW plan \in Plans, Device!Ask(c, plan)
  PROVE  LoginInv'
<1>1. /\ client \in [Codes -> ClientStates] /\ session \in [Codes -> SessionRows]
      /\ CodeHolds(c) /\ client[c].st = "idle" /\ ~Asked(c)
  BY DEF LoginInv, LoginTypes, Device!Ask, Asked
<1>2. /\ client' \in [Codes -> ClientStates] /\ client'[c].st # "idle"
      /\ \A d \in Codes : d # c => client'[d] = client[d]
  <2>1. /\ plan \in LoginPlans
        /\ \E st \in {"waiting", "ended"} : client' = [client EXCEPT ![c] = [st |-> st, plan |-> plan]]
    BY DEF Device!Ask, Device!ConstantsOK, LoginPlans
  <2>2. \A st \in {"waiting", "ended"} : /\ [st |-> st, plan |-> plan] \in ClientStates
                                         /\ [st |-> st, plan |-> plan].st # "idle"
    BY <2>1 DEF ClientStates
  <2> QED
    BY <1>1, <2>1, <2>2
<1>3. /\ session' \in [Codes -> SessionRows] /\ session'[c].status \in {"none", "pending"}
      /\ \A d \in Codes : d # c => session'[d] = session[d]
  <2>1. [session[c] EXCEPT !.status = "pending"] \in SessionRows
        /\ [session[c] EXCEPT !.status = "pending"].status = "pending"
    BY <1>1 DEF SessionRows
  <2>2. session' = session \/ session' = [session EXCEPT ![c] = [session[c] EXCEPT !.status = "pending"]]
    BY <1>1 DEF Device!Ask
  <2> QED
    BY <1>1, <2>1, <2>2 DEF CodeHolds
<1>4. UNCHANGED <<browser, poll, tokens, approvals>>
  BY DEF Device!Ask
<1>5. ASSUME NEW d \in Codes PROVE CodeHolds(d)'
  <2>1. CASE d = c
    BY <1>1, <1>2, <1>3, <1>4, <2>1 DEF CodeHolds
  <2>2. CASE d # c
    BY <1>2, <1>3, <1>4, <2>2 DEF LoginInv, CodeHolds
  <2> QED
    BY <2>1, <2>2
<1>6. \A d : Asked(d) => Asked(d)' /\ client'[d] = client[d]
  BY <1>1, <1>2 DEF Asked
<1>7. (\A b \in Browsers : SignInHolds(b)') /\ (\A q \in Polls : CallHolds(q)')
  BY <1>4, <1>6 DEF LoginInv, SignInHolds, CallHolds
<1>8. LoginTypes' /\ OneCall'
  BY <1>2, <1>3, <1>4 DEF LoginInv, LoginTypes, OneCall
<1>9. \A t \in tokens : /\ TokenHolds(t) /\ client'[t.code] = client[t.code] /\ Asked(t.code)'
                         /\ session'[t.code] = session[t.code]
  BY <1>1, <1>3, <1>6 DEF LoginInv, TokenHolds, Asked
<1>10. OneTokenEach'
  BY <1>4, <1>9 DEF LoginInv, OneTokenEach
<1>11. \A t \in tokens' : TokenHolds(t)'
  BY <1>4, <1>9 DEF TokenHolds, Spent, Device!Audience, Device!Intent
<1> QED
  BY <1>5, <1>7, <1>8, <1>10, <1>11 DEF LoginInv

(* The client of c is at another point, with the plan it had; it does not wait *)
(* anew.                                                                       *)
StopsAsking(c) ==
  /\ client' \in [Codes -> ClientStates] /\ client'[c].st # "idle"
  /\ \A d \in Codes : client'[d].plan = client[d].plan /\ (d # c => client'[d] = client[d])
  /\ client'[c].st = "waiting" => client[c].st = "waiting"

LEMMA ClientEnds ==
  ASSUME LoginInv, NEW c \in Codes, Asked(c), StopsAsking(c), UNCHANGED <<browser, tokens, approvals>>
  PROVE  /\ \A d : Asked(d) <=> Asked(d)'
         /\ \A d \in Codes : client'[d].plan = client[d].plan
                             /\ (client'[d].st = "idle" <=> client[d].st = "idle")
         /\ OneTokenEach' /\ \A b \in Browsers : SignInHolds(b)'
         /\ \A t \in tokens : t.audience = Device!Audience(t.code) => t.audience = Device!Audience(t.code)'
<1>1. \A d : Asked(d) <=> Asked(d)'
  BY DEF Asked, StopsAsking
<1>2. \A d \in Codes : client'[d].plan = client[d].plan
                       /\ (client'[d].st = "idle" <=> client[d].st = "idle")
  BY DEF Asked, StopsAsking
<1>3. \A t \in tokens : t.code \in Codes
  BY DEF LoginInv, LoginTypes, TokensIssued
<1> QED
  BY <1>1, <1>2, <1>3 DEF LoginInv, OneTokenEach, SignInHolds, Device!Audience, Device!Intent

LEMMA LoginGivesUp ==
  ASSUME LoginInv, NEW c \in Codes, Device!GiveUp(c)
  PROVE  LoginInv'
<1>1. client \in [Codes -> ClientStates] /\ client[c] \in ClientStates /\ client[c].st = "waiting"
  BY DEF LoginInv, LoginTypes, Device!GiveUp
<1>2. [client[c] EXCEPT !.st = "ended"] \in ClientStates
      /\ [client[c] EXCEPT !.st = "ended"].plan = client[c].plan
      /\ [client[c] EXCEPT !.st = "ended"].st = "ended"
  BY <1>1 DEF ClientStates
<1>3. client' = [client EXCEPT ![c] = [client[c] EXCEPT !.st = "ended"]]
      /\ UNCHANGED <<session, browser, poll, tokens, approvals>>
  BY <1>1 DEF Device!GiveUp
<1>4. Asked(c) /\ StopsAsking(c) /\ client'[c].st = "ended"
  BY <1>1, <1>2, <1>3 DEF Asked, StopsAsking
<1>5. LoginTypes' /\ OneCall'
  BY <1>3, <1>4 DEF LoginInv, LoginTypes, OneCall, StopsAsking
<1>6. (\A d \in Codes : CodeHolds(d)') /\ \A q \in Polls : CallHolds(q)'
  <2>1. \A d \in Codes : client'[d].plan = client[d].plan
                         /\ (client'[d].st = "idle" <=> client[d].st = "idle")
    BY <1>3, <1>4, ClientEnds
  <2>2. \A d : Asked(d) <=> Asked(d)'
    BY <1>3, <1>4, ClientEnds
  <2>3. \A d : Asked(d) => d \in Codes
    BY DEF Asked
  <2> QED
    BY <1>3, <2>1, <2>2, <2>3 DEF LoginInv, CodeHolds, CallHolds
<1>7. ASSUME NEW t \in tokens' PROVE TokenHolds(t)'
  <2>1. t \in tokens /\ TokenHolds(t) /\ t.code \in Codes
    BY <1>3 DEF LoginInv, LoginTypes, TokensIssued
  <2>2. Spent(t.code) => Spent(t.code)'
    BY <1>3, <1>4, <2>1 DEF Spent, StopsAsking
  <2>3. client'[t.code].plan = client[t.code].plan
    BY <1>4, <2>1 DEF StopsAsking
  <2> QED
    BY <1>3, <1>4, <2>1, <2>2, <2>3, ClientEnds DEF TokenHolds
<1> QED
  BY <1>3, <1>4, <1>5, <1>6, <1>7, ClientEnds DEF LoginInv

(* Only the call q changes, to r; the row of its code may end. *)
CallIs(q, r) ==
  poll' = [poll EXCEPT ![q] = r] /\ UNCHANGED <<client, browser, tokens, approvals>>

LEMMA CallChanges ==
  ASSUME LoginInv, NEW q \in Polls, NEW r \in PollCalls, poll' = [poll EXCEPT ![q] = r]
  PROVE  /\ poll' \in [Polls -> PollCalls] /\ poll'[q] = r
         /\ \A s \in Polls : s # q => poll'[s] = poll[s]
BY DEF LoginInv, LoginTypes

(* A call under way goes on, with the code it was made for. *)
LEMMA LoginCalls ==
  ASSUME LoginInv, NEW q \in Polls, NEW r \in PollCalls, CallIs(q, r), RowEnds(poll[q].code),
         poll[q].pc \in {"sent", "admitted", "approved"}, r.code = poll[q].code,
         r.pc \in {"admitted", "approved", "answered"},
         r.pc = "approved" => r.row.principal \in People /\ <<r.code, r.row.principal>> \in approvals
  PROVE  LoginInv'
<1>1. /\ poll' \in [Polls -> PollCalls] /\ poll'[q] = r
      /\ \A s \in Polls : s # q => poll'[s] = poll[s]
  BY CallChanges DEF CallIs
<1>2. Asked(poll[q].code) /\ client[poll[q].code].plan[1] = "poll" /\ poll[q].code \in Codes
  BY DEF LoginInv, CallHolds, Asked
<1>3. UNCHANGED <<client, browser, tokens, approvals>>
  BY DEF CallIs
<1>4. /\ session' \in [Codes -> SessionRows] /\ \A d \in Codes : CodeHolds(d)'
      /\ \A d \in Codes : session[d].status = "none" => session'[d].status = "none"
  BY <1>2, <1>3, RowsEnd
<1>5. LoginTypes' /\ OneTokenEach' /\ \A b \in Browsers : SignInHolds(b)'
  BY <1>1, <1>3, <1>4 DEF LoginInv, LoginTypes, OneTokenEach, SignInHolds, Asked
<1>6. OneCall'
  BY <1>1 DEF LoginInv, OneCall
<1>7. ASSUME NEW s \in Polls PROVE CallHolds(s)'
  BY <1>1, <1>2, <1>3 DEF LoginInv, CallHolds, Asked
<1>8. ASSUME NEW t \in tokens' PROVE TokenHolds(t)'
  <2>1. t \in tokens /\ TokenHolds(t)
    BY <1>3 DEF LoginInv
  <2>2. Spent(t.code) => Spent(t.code)'
    <3>1. Spent(t.code) => poll[q].code # t.code
      BY DEF Spent
    <3> QED
      BY <1>1, <1>3, <3>1 DEF Spent
  <2> QED
    BY <1>3, <1>4, <2>1, <2>2 DEF TokenHolds, Asked, Device!Audience, Device!Intent
<1> QED
  BY <1>4, <1>5, <1>6, <1>7, <1>8 DEF LoginInv

LEMMA AnswerIs ==
  ASSUME LoginInv, NEW q \in Polls,
         NEW a \in {"slow_down", "pending", "expired", "token", "error"}
  PROVE  \E r \in PollCalls :
           /\ Device!Answered(q, a) = [poll EXCEPT ![q] = r]
           /\ r.pc = "answered" /\ r.code = poll[q].code /\ r.answer = a
<1> DEFINE r == [poll[q] EXCEPT !.pc = "answered", !.answer = a, !.row = Device!NoRow]
<1>1. poll[q] \in PollCalls /\ poll \in [Polls -> PollCalls]
  BY DEF LoginInv, LoginTypes
<1>2. r \in PollCalls /\ r.pc = "answered" /\ r.code = poll[q].code /\ r.answer = a
  BY <1>1 DEF PollCalls, SessionRows, Device!NoRow
<1>3. Device!Answered(q, a) = [poll EXCEPT ![q] = r]
  BY <1>1 DEF Device!Answered
<1> QED
  BY <1>2, <1>3

LEMMA LoginAnswers ==
  ASSUME LoginInv, NEW q \in Polls, NEW a \in {"slow_down", "pending", "expired", "token", "error"},
         poll' = Device!Answered(q, a), UNCHANGED <<client, browser, tokens, approvals>>,
         RowEnds(poll[q].code), poll[q].pc \in {"sent", "admitted", "approved"}
  PROVE  LoginInv'
<1>1. PICK r \in PollCalls :
        /\ Device!Answered(q, a) = [poll EXCEPT ![q] = r]
        /\ r.pc = "answered" /\ r.code = poll[q].code
  BY AnswerIs
<1> QED
  BY <1>1, LoginCalls DEF CallIs

LEMMA LoginAdmit ==
  ASSUME LoginInv, NEW q \in Polls, NEW i \in Instances, Device!Admit(q, i)
  PROVE  LoginInv'
<1>1. /\ poll[q].pc = "sent" /\ UNCHANGED <<client, session, browser, tokens, approvals>>
      /\ poll[q] \in PollCalls /\ poll \in [Polls -> PollCalls]
  BY DEF Device!Admit, LoginInv, LoginTypes
<1>2. CASE poll' = Device!Answered(q, "slow_down")
  BY <1>1, <1>2, LoginAnswers DEF RowEnds
<1>3. CASE poll' # Device!Answered(q, "slow_down")
  <2> DEFINE r == [poll[q] EXCEPT !.pc = "admitted", !.at = i]
  <2>1. r \in PollCalls /\ r.pc = "admitted" /\ r.code = poll[q].code
    BY <1>1 DEF PollCalls
  <2>2. CallIs(q, r)
    BY <1>1, <1>3 DEF Device!Admit, CallIs
  <2> QED
    BY <1>1, <2>1, <2>2, LoginCalls DEF RowEnds
<1> QED
  BY <1>2, <1>3

(* A code whose lifetime has passed, or that has yielded a token. *)
Over(c) == c \in gone \/ \E t \in tokens : t.code = c

LEMMA LoginRead ==
  ASSUME LoginInv, NEW q \in Polls, Device!Read(q)
  PROVE  LoginInv' /\ (poll'[q].pc = "approved" => ~Over(poll[q].code))
<1> DEFINE c == poll[q].code
           expired == session[c].status \in {"none", "expired"} \/ c \in gone
<1>1. /\ poll[q].pc = "admitted" /\ UNCHANGED <<client, browser, tokens, approvals>>
      /\ poll[q] \in PollCalls /\ poll \in [Polls -> PollCalls] /\ c \in Codes /\ CodeHolds(c)
      /\ session \in [Codes -> SessionRows] /\ session[c] \in SessionRows
  BY DEF Device!Read, LoginInv, LoginTypes, CallHolds, Asked
<1>2. CASE expired
  <2>1. poll' = Device!Answered(q, "expired")
        /\ session' = [session EXCEPT ![c] =
             IF session[c].status = "none" THEN session[c] ELSE [session[c] EXCEPT !.status = "expired"]]
    BY <1>1, <1>2 DEF Device!Read
  <2>2. [session[c] EXCEPT !.status = "expired"] \in SessionRows
        /\ [session[c] EXCEPT !.status = "expired"].status = "expired"
    BY <1>1 DEF SessionRows
  <2>3. RowEnds(c)
    BY <1>1, <2>1, <2>2 DEF RowEnds
  <2>4. LoginInv'
    BY <1>1, <2>1, <2>3, LoginAnswers
  <2>5. poll'[q].pc = "answered"
    BY <1>1, <2>1 DEF Device!Answered, PollCalls
  <2> QED
    BY <2>4, <2>5
<1>3. CASE ~expired /\ session[c].status = "pending"
  <2>1. poll' = Device!Answered(q, "pending") /\ UNCHANGED session
    BY <1>3 DEF Device!Read
  <2>2. poll'[q].pc = "answered"
    BY <1>1, <2>1 DEF Device!Answered, PollCalls
  <2> QED
    BY <1>1, <1>3, <2>1, <2>2, LoginAnswers DEF RowEnds
<1>4. CASE ~expired /\ session[c].status # "pending"
  <2> DEFINE r == [poll[q] EXCEPT !.pc = "approved", !.row = session[c]]
  <2>1. poll' = [poll EXCEPT ![q] = r] /\ UNCHANGED session
    BY <1>1, <1>4 DEF Device!Read
  <2>2. r \in PollCalls /\ r.pc = "approved" /\ r.code = c /\ r.row = session[c]
    BY <1>1 DEF PollCalls
  <2>3. session[c].status = "approved"
    BY <1>1, <1>4 DEF SessionRows
  <2>4. r.row.principal \in People /\ <<r.code, r.row.principal>> \in approvals
    BY <1>1, <2>2, <2>3 DEF CodeHolds
  <2>5. CallIs(q, r) /\ RowEnds(c)
    BY <1>1, <2>1 DEF CallIs, RowEnds
  <2>6. ~Over(c)
    BY <1>4, <2>3 DEF LoginInv, TokenHolds, Over
  <2> QED
    BY <1>1, <1>4, <2>2, <2>4, <2>5, <2>6, LoginCalls
<1> QED
  BY <1>2, <1>3, <1>4

LEMMA LoginCall ==
  ASSUME LoginInv, NEW q \in Polls, NEW c \in Codes, Device!Call(q, c)
  PROVE  LoginInv'
<1> DEFINE r == [Device!NoPoll EXCEPT !.pc = "sent", !.code = c]
<1>1. /\ poll[q].pc = "idle" /\ client[c].st = "waiting" /\ client[c].plan[1] = "poll"
      /\ c \in Hasty \/ \A s \in Polls : poll[s].code # c
      /\ poll' = [poll EXCEPT ![q] = r]
      /\ UNCHANGED <<client, session, browser, tokens, approvals>>
  BY DEF Device!Call
<1>2. r \in PollCalls /\ r.pc = "sent" /\ r.code = c
  BY DEF Device!NoPoll, Device!NoRow, PollCalls, SessionRows
<1>3. /\ poll' \in [Polls -> PollCalls] /\ poll'[q] = r
      /\ \A s \in Polls : s # q => poll'[s] = poll[s]
  BY <1>1, <1>2, CallChanges
<1> HIDE DEF r
<1>4. LoginTypes' /\ OneTokenEach'
  BY <1>1, <1>3 DEF LoginInv, LoginTypes, OneTokenEach
<1>5. OneCall'
  BY <1>1, <1>2, <1>3 DEF LoginInv, OneCall
<1>6. (\A d \in Codes : CodeHolds(d)') /\ \A b \in Browsers : SignInHolds(b)'
  BY <1>1 DEF LoginInv, CodeHolds, SignInHolds, Asked
<1>7. ASSUME NEW s \in Polls PROVE CallHolds(s)'
  BY <1>1, <1>2, <1>3 DEF LoginInv, CallHolds, Asked
<1>8. ASSUME NEW t \in tokens' PROVE TokenHolds(t)'
  <2>1. t \in tokens /\ TokenHolds(t)
    BY <1>1 DEF LoginInv
  <2>2. t.code \notin Hasty /\ Spent(t.code) => Spent(t.code)'
    <3>1. t.code \notin Hasty /\ Spent(t.code) => t.code # c
      BY <1>1 DEF Spent
    <3> QED
      BY <1>1, <1>2, <1>3, <3>1 DEF Spent
  <2> QED
    BY <1>1, <2>1, <2>2 DEF TokenHolds, Asked, Device!Audience, Device!Intent
<1> QED
  BY <1>4, <1>5, <1>6, <1>7, <1>8 DEF LoginInv

LEMMA LoginReceive ==
  ASSUME LoginInv, NEW q \in Polls, Device!Receive(q)
  PROVE  LoginInv'
<1> DEFINE c == poll[q].code
           st == CASE client[c].st # "waiting" -> client[c].st
                   [] poll[q].answer = "token" -> "got"
                   [] poll[q].answer \in {"expired", "error"} -> "ended"
                   [] OTHER -> client[c].st
<1>1. /\ poll[q].pc = "answered" /\ Asked(c) /\ c \in Codes /\ client[c] \in ClientStates
      /\ client \in [Codes -> ClientStates] /\ poll[q] \in PollCalls
  BY DEF Device!Receive, LoginInv, LoginTypes, CallHolds, Asked
<1>2. /\ client' = [client EXCEPT ![c] = [client[c] EXCEPT !.st = st]]
      /\ poll' = [poll EXCEPT ![q] = Device!NoPoll]
      /\ UNCHANGED <<session, browser, tokens, approvals>>
  BY <1>1 DEF Device!Receive
<1>3. /\ st \in {"waiting", "got", "ended"} /\ (st = "waiting" => client[c].st = "waiting")
      /\ st = "waiting" => poll[q].answer # "token"
  BY <1>1 DEF Asked, ClientStates
<1> HIDE DEF st
<1>4. /\ [client[c] EXCEPT !.st = st] \in ClientStates
      /\ [client[c] EXCEPT !.st = st].st = st /\ [client[c] EXCEPT !.st = st].plan = client[c].plan
  BY <1>1, <1>3 DEF ClientStates
<1>5. StopsAsking(c) /\ client'[c].st = st
  BY <1>1, <1>2, <1>3, <1>4 DEF StopsAsking
<1>6. Device!NoPoll \in PollCalls /\ Device!NoPoll.pc = "idle"
  BY DEF Device!NoPoll, Device!NoRow, PollCalls, SessionRows
<1>7. /\ poll' \in [Polls -> PollCalls] /\ poll'[q].pc = "idle"
      /\ \A s \in Polls : s # q => poll'[s] = poll[s]
  BY <1>2, <1>6, CallChanges
<1>8. LoginTypes' /\ OneCall'
  BY <1>2, <1>5, <1>7 DEF LoginInv, LoginTypes, OneCall, StopsAsking
<1>9. /\ \A d \in Codes : client'[d].plan = client[d].plan
                          /\ (client'[d].st = "idle" <=> client[d].st = "idle")
      /\ \A d : Asked(d) <=> Asked(d)'
  BY <1>1, <1>2, <1>5, ClientEnds
<1>10. (\A d \in Codes : CodeHolds(d)') /\ \A s \in Polls : CallHolds(s)'
  <2>1. \A d : Asked(d) => d \in Codes
    BY DEF Asked
  <2> QED
    BY <1>2, <1>7, <1>9, <2>1 DEF LoginInv, CodeHolds, CallHolds
<1>11. ASSUME NEW t \in tokens' PROVE TokenHolds(t)'
  <2>1. t \in tokens /\ TokenHolds(t) /\ t.code \in Codes
    BY <1>2 DEF LoginInv, LoginTypes, TokensIssued
  <2>2. Spent(t.code) => Spent(t.code)'
    <3> SUFFICES ASSUME Spent(t.code) PROVE Spent(t.code)'
      OBVIOUS
    <3>1. \A s \in Polls : poll'[s].pc # "idle" /\ poll'[s].code = t.code => poll'[s].pc = "answered"
      BY <1>7 DEF Spent
    <3>2. ASSUME client'[t.code].st = "waiting"
          PROVE  \E s \in Polls : poll'[s].pc = "answered" /\ poll'[s].code = t.code
                                  /\ poll'[s].answer = "token"
      <4>1. client[t.code].st = "waiting"
        BY <1>5, <2>1, <3>2 DEF StopsAsking
      <4>2. PICK s \in Polls : poll[s].pc = "answered" /\ poll[s].code = t.code
                               /\ poll[s].answer = "token"
        BY <4>1 DEF Spent
      <4>3. s # q
        BY <1>3, <1>5, <3>2, <4>2
      <4> QED
        BY <1>7, <4>2, <4>3
    <3> QED
      BY <3>1, <3>2 DEF Spent
  <2>3. client'[t.code].plan = client[t.code].plan
    BY <1>9, <2>1
  <2> QED
    BY <1>1, <1>2, <1>5, <2>1, <2>2, <2>3, ClientEnds DEF TokenHolds
<1> QED
  BY <1>1, <1>2, <1>5, <1>8, <1>10, <1>11, ClientEnds DEF LoginInv

LEMMA LoginApproves ==
  ASSUME LoginInv, NEW b \in Browsers, Device!Approve(b)
  PROVE  LoginInv'
<1> DEFINE c == browser[b].code
           p == browser[b].who
<1>1. /\ browser[b].pc = "exchanged" /\ c \in Codes /\ Asked(c) /\ p \in People /\ CodeHolds(c)
      /\ browser \in [Browsers -> SignIns] /\ session \in [Codes -> SessionRows]
      /\ approvals \subseteq Codes \X People
  BY DEF Device!Approve, LoginInv, LoginTypes, SignInHolds, Asked
<1>2. Device!NoSignIn \in SignIns /\ Device!NoSignIn.pc = "idle"
  BY DEF Device!NoSignIn, SignIns
<1>3. CASE ~Device!Undecided(c)
  <2>1. SignsIn(b, Device!NoSignIn)
    BY <1>3 DEF Device!Approve, SignsIn
  <2> QED
    BY <1>2, <2>1, LoginSigns
<1>4. CASE Device!Undecided(c)
  <2> DEFINE approved == [status |-> "approved", principal |-> p]
  <2>1. /\ browser' = [browser EXCEPT ![b] = Device!NoSignIn]
        /\ session' = [session EXCEPT ![c] = approved]
        /\ approvals' = approvals \cup {<<c, p>>}
        /\ UNCHANGED <<client, poll, tokens>>
    BY <1>4 DEF Device!Approve
  <2>2. approved \in SessionRows
    BY <1>1 DEF SessionRows
  <2>3. /\ session' \in [Codes -> SessionRows] /\ session'[c] = approved
        /\ \A d \in Codes : d # c => session'[d] = session[d]
        /\ browser' \in [Browsers -> SignIns] /\ browser'[b] = Device!NoSignIn
        /\ \A d \in Browsers : d # b => browser'[d] = browser[d]
        /\ approvals' \subseteq Codes \X People
    BY <1>1, <1>2, <2>1, <2>2
  <2>4. LoginTypes' /\ OneCall' /\ OneTokenEach'
    BY <2>1, <2>3 DEF LoginInv, LoginTypes, OneCall, OneTokenEach
  <2>5. ASSUME NEW d \in Codes PROVE CodeHolds(d)'
    <3>1. CASE d = c
      <4>1. \A r \in People : <<c, r>> \in approvals' <=> r = p
        BY <1>1, <1>4, <2>1 DEF CodeHolds, Device!Undecided
      <4> QED
        BY <1>1, <2>1, <2>3, <3>1, <4>1 DEF CodeHolds, Asked
    <3>2. CASE d # c
      <4>1. CodeHolds(d) /\ \A r : <<d, r>> \in approvals' <=> <<d, r>> \in approvals
        BY <2>1, <3>2 DEF LoginInv
      <4> QED
        BY <2>1, <2>3, <3>2, <4>1 DEF CodeHolds
    <3> QED
      BY <3>1, <3>2
  <2>6. ASSUME NEW d \in Browsers PROVE SignInHolds(d)'
    BY <1>2, <2>1, <2>3 DEF LoginInv, SignInHolds, Asked
  <2>7. \A q \in Polls : CallHolds(q)'
    BY <2>1 DEF LoginInv, CallHolds, Asked
  <2>8. ASSUME NEW t \in tokens' PROVE TokenHolds(t)'
    <3>1. TokenHolds(t) /\ session'[t.code] = session[t.code]
      BY <1>4, <2>1, <2>3 DEF LoginInv, TokenHolds, Asked, Device!Undecided
    <3> QED
      BY <2>1, <3>1 DEF TokenHolds, Asked, Spent, Device!Audience, Device!Intent
  <2> QED
    BY <2>4, <2>5, <2>6, <2>7, <2>8 DEF LoginInv
<1> QED
  BY <1>3, <1>4

(* The token of a callback, which is nobody's poll and registers no agent. *)
LEMMA LoginDelivers ==
  ASSUME LoginInv, Device!ConstantsOK, NEW b \in Browsers, Device!Deliver(b)
  PROVE  LoginInv'
<1> DEFINE c == browser[b].code
           issued == [code |-> c, by |-> b, audience |-> Device!Audience(c), principal |-> browser[b].who]
<1>1. /\ browser[b].pc = "exchanged" /\ c \in Codes /\ Asked(c) /\ browser[b].who \in People
      /\ browser \in [Browsers -> SignIns] /\ client \in [Codes -> ClientStates]
      /\ client[c] \in ClientStates
  BY DEF Device!Deliver, LoginInv, LoginTypes, SignInHolds, Asked
<1>2. Device!NoSignIn \in SignIns /\ Device!NoSignIn.pc = "idle"
  BY DEF Device!NoSignIn, SignIns
<1>3. CASE UNCHANGED <<tokens, session, client>>
  <2>1. SignsIn(b, Device!NoSignIn)
    BY <1>3 DEF Device!Deliver, SignsIn
  <2> QED
    BY <1>2, <2>1, LoginSigns
<1>4. CASE tokens' = tokens \cup {issued}
           /\ session' = [session EXCEPT ![c] = Device!NoRow]
           /\ client' \in {client, Device!Posted(c)}
  <2>1. PICK st \in {"waiting", "got", "ended"} :
          client' = [client EXCEPT ![c] = [client[c] EXCEPT !.st = st]]
          /\ (st = "waiting" => client[c].st = "waiting")
    <3>1. client[c].st \in {"waiting", "got", "ended"}
      BY <1>1 DEF Asked, ClientStates
    <3>2. CASE client' = client
      <4>1. client[c] = [client[c] EXCEPT !.st = client[c].st]
        BY <1>1 DEF ClientStates
      <4> QED
        BY <1>1, <3>1, <3>2, <4>1
    <3>3. CASE client' = [client EXCEPT ![c] = [client[c] EXCEPT !.st = "got"]]
      BY <3>3
    <3> QED
      BY <1>1, <1>4, <3>2, <3>3 DEF Device!Posted
  <2> DEFINE ended == [client[c] EXCEPT !.st = st]
  <2>2. ended \in ClientStates /\ ended.st = st /\ ended.plan = client[c].plan
    BY <1>1 DEF ClientStates
  <2>3. client' = [client EXCEPT ![c] = ended]
    BY <2>1
  <2> HIDE DEF ended
  <2>4. StopsAsking(c)
    BY <1>1, <2>1, <2>2, <2>3 DEF StopsAsking
  <2>5. browser' = [browser EXCEPT ![b] = Device!NoSignIn] /\ UNCHANGED <<poll, approvals>>
    BY DEF Device!Deliver
  <2>6. Device!Intent(c) \in {"caller", "owner_session"}
    BY DEF Device!Deliver, Device!Onsite
  <2>7. Device!Audience(c) \in {"caller", "owner_session"} /\ issued \in TokensIssued
    <3>1. Device!Audience(c) \in {"caller", "owner_session"}
      BY <2>6 DEF Device!Audience
    <3> QED
      BY <1>1, <3>1 DEF TokensIssued
  <2>8. /\ \A d \in Codes : client'[d].plan = client[d].plan
                            /\ (client'[d].st = "idle" <=> client[d].st = "idle")
        /\ \A d : Asked(d) <=> Asked(d)'
    <3>1. \A d : Asked(d) <=> Asked(d)'
      BY <1>1, <2>4 DEF Asked, StopsAsking
    <3> QED
      BY <1>1, <2>4, <3>1 DEF Asked, StopsAsking
  <2>9. /\ session' \in [Codes -> SessionRows] /\ session'[c].status = "none"
        /\ \A d \in Codes : d # c => session'[d] = session[d]
    BY <1>1, <1>4 DEF LoginInv, LoginTypes, Device!NoRow, SessionRows
  <2>10. /\ browser' \in [Browsers -> SignIns] /\ browser'[b].pc = "idle"
         /\ \A d \in Browsers : d # b => browser'[d] = browser[d]
    BY <1>1, <1>2, <2>5
  <2>11. LoginTypes' /\ OneCall'
    BY <1>4, <2>4, <2>5, <2>7, <2>9, <2>10 DEF LoginInv, LoginTypes, OneCall, StopsAsking
  <2>12. OneTokenEach'
    <3>1. \A t \in tokens : t.code \in Codes
      BY DEF LoginInv, LoginTypes, TokensIssued
    <3>2. issued.by \notin Polls /\ issued.audience # "client"
      BY <2>7 DEF Device!ConstantsOK
    <3> HIDE DEF issued
    <3> QED
      BY <1>4, <3>1, <3>2 DEF LoginInv, OneTokenEach
  <2>13. ASSUME NEW d \in Codes PROVE CodeHolds(d)'
    <3>1. client'[d].st = "idle" <=> client[d].st = "idle"
      BY <2>8
    <3>2. CodeHolds(d) /\ UNCHANGED approvals /\ (d = c => client[d].st # "idle")
      BY <1>1, <2>5 DEF LoginInv, Asked
    <3>3. session'[d].status = "none" \/ session'[d] = session[d]
      BY <2>9
    <3>4. session'[d].status = "none" => (client[d].st = "idle" <=> client'[d].st = "idle")
      BY <3>1
    <3> QED
      BY <3>1, <3>2, <3>3 DEF CodeHolds
  <2>14. ASSUME NEW d \in Browsers PROVE SignInHolds(d)'
    BY <2>8, <2>10 DEF LoginInv, SignInHolds
  <2>15. ASSUME NEW q \in Polls PROVE CallHolds(q)'
    <3>1. CallHolds(q) /\ (poll[q].pc # "idle" => poll[q].code \in Codes)
      BY DEF LoginInv, CallHolds, Asked
    <3> QED
      BY <2>5, <2>8, <3>1 DEF CallHolds
  <2>16. ASSUME NEW t \in tokens PROVE TokenHolds(t)'
    <3>1. TokenHolds(t) /\ t.code \in Codes
      BY DEF LoginInv, LoginTypes, TokensIssued
    <3>2. Spent(t.code) => Spent(t.code)'
      BY <2>4, <2>5, <3>1 DEF Spent, StopsAsking
    <3>3. client'[t.code].plan = client[t.code].plan
      BY <2>8, <3>1
    <3>4. session'[t.code].status = "none"
      BY <2>9, <3>1 DEF TokenHolds
    <3> QED
      BY <2>5, <2>8, <3>1, <3>2, <3>3, <3>4 DEF TokenHolds, Device!Audience, Device!Intent
  <2>17. ASSUME NEW t, t = issued PROVE TokenHolds(t)'
    <3>1. /\ t.code = c /\ t.audience = Device!Audience(c) /\ t.by \notin Polls
          /\ t.audience # "client" /\ session'[t.code].status = "none"
      BY <2>7, <2>9, <2>17 DEF Device!ConstantsOK
    <3>2. client'[t.code].plan = client[t.code].plan
      BY <1>1, <2>8, <3>1
    <3>3. Asked(t.code)'
      BY <1>1, <2>8, <3>1
    <3>4. t.audience = Device!Audience(t.code)'
      BY <3>1, <3>2 DEF Device!Audience, Device!Intent
    <3> QED
      BY <3>1, <3>2, <3>3, <3>4 DEF TokenHolds
  <2> QED
    BY <1>4, <2>11, <2>12, <2>13, <2>14, <2>15, <2>16, <2>17 DEF LoginInv
<1> QED
  BY <1>3, <1>4 DEF Device!Deliver

(* The token of a poll: where the client makes one call at a time, the code    *)
(* was polled for none before, and no other call is under way for it.          *)
LEMMA LoginIssues ==
  ASSUME LoginInv, Device!ConstantsOK, NEW q \in Polls, Device!Issue(q)
  PROVE  LoginInv'
<1> DEFINE c == poll[q].code
           issued == [code |-> c, by |-> q, audience |-> Device!Audience(c),
                     principal |-> poll[q].row.principal]
<1>1. /\ poll[q].pc = "approved" /\ c \in Codes /\ Asked(c) /\ client[c].plan[1] = "poll"
      /\ poll[q].row.principal \in People /\ <<c, poll[q].row.principal>> \in approvals
      /\ UNCHANGED <<client, browser, approvals>> /\ client[c].plan \in LoginPlans
  BY DEF Device!Issue, LoginInv, LoginTypes, CallHolds, Asked, ClientStates
<1>2. CASE poll' = Device!Answered(q, "error") /\ UNCHANGED <<tokens, session>>
  BY <1>1, <1>2, LoginAnswers DEF RowEnds
<1>3. CASE /\ Device!Intent(c) = "client_register" => ~Device!Named
           /\ tokens' = tokens \cup {issued}
           /\ session' = [session EXCEPT ![c] = Device!NoRow]
           /\ poll' = Device!Answered(q, "token")
  <2>1. PICK r \in PollCalls :
          /\ Device!Answered(q, "token") = [poll EXCEPT ![q] = r]
          /\ r.pc = "answered" /\ r.code = c /\ r.answer = "token"
    BY AnswerIs
  <2>2. /\ poll' \in [Polls -> PollCalls] /\ poll'[q] = r
        /\ \A s \in Polls : s # q => poll'[s] = poll[s]
    BY <1>3, <2>1, CallChanges
  <2>3. /\ session' \in [Codes -> SessionRows] /\ RowEnds(c)
    BY <1>1, <1>3 DEF LoginInv, LoginTypes, Device!NoRow, SessionRows, RowEnds
  <2>4. \A d \in Codes : CodeHolds(d)'
    BY <1>1, <2>3, RowsEnd
  <2>5. issued \in TokensIssued /\ (issued.audience = "client" => ~Device!Named)
    <3>1. client[c].plan[2] \in {"caller", "owner_session", "client_register"}
      BY <1>1 DEF LoginPlans
    <3> QED
      BY <1>1, <1>3, <3>1 DEF TokensIssued, Device!Audience, Device!Intent
  <2>6. \A t \in tokens : t.by \in Polls /\ c \notin Hasty => t.code # c
    <3> SUFFICES ASSUME NEW t \in tokens, t.by \in Polls, c \notin Hasty, t.code = c PROVE FALSE
      OBVIOUS
    <3>1. TokenHolds(t)
      BY DEF LoginInv
    <3> QED
      BY <1>1, <3>1 DEF TokenHolds, Spent
  <2>7. issued.code = c /\ issued.by = q /\ issued.audience = Device!Audience(c)
        /\ issued.principal = poll[q].row.principal
    OBVIOUS
  <2> HIDE DEF issued
  <2>8. LoginTypes'
    BY <1>1, <1>3, <2>2, <2>3, <2>5 DEF LoginInv, LoginTypes
  <2>9. OneCall'
    BY <2>1, <2>2, <1>1 DEF LoginInv, OneCall
  <2>10. OneTokenEach'
    <3>1. \A t \in tokens : issued.audience = "client" => t.audience # "client"
      BY <2>5 DEF Device!Named
    <3> QED
      BY <1>1, <1>3, <2>6, <2>7, <3>1 DEF LoginInv, OneTokenEach
  <2>11. \A b \in Browsers : SignInHolds(b)'
    BY <1>1 DEF LoginInv, SignInHolds, Asked
  <2>12. ASSUME NEW s \in Polls PROVE CallHolds(s)'
    BY <1>1, <2>1, <2>2 DEF LoginInv, CallHolds, Asked
  <2>13. ASSUME NEW t \in tokens PROVE TokenHolds(t)'
    <3>1. TokenHolds(t) /\ t.code \in Codes
          /\ (t.by \in Polls /\ t.code \notin Hasty => t.code # c)
      BY <2>6 DEF LoginInv, LoginTypes, TokensIssued
    <3>2. t.code # c /\ Spent(t.code) => Spent(t.code)'
      BY <1>1, <2>1, <2>2 DEF Spent
    <3>3. session'[t.code].status = "none"
      BY <1>1, <2>3, <3>1, RowsEnd DEF TokenHolds
    <3> QED
      BY <1>1, <3>1, <3>2, <3>3 DEF TokenHolds, Asked, Device!Audience, Device!Intent
  <2>14. ASSUME NEW t, t = issued PROVE TokenHolds(t)'
    <3>1. t.code = c /\ t.audience = Device!Audience(c) /\ t.by = q
          /\ <<t.code, t.principal>> \in approvals'
      BY <1>1, <2>7, <2>14
    <3>2. session'[t.code].status = "none"
      BY <1>1, <1>3, <3>1 DEF LoginInv, LoginTypes, Device!NoRow
    <3>3. t.code \notin Hasty => Spent(t.code)'
      <4>1. c \notin Hasty => \A s \in Polls : poll'[s].pc # "idle" /\ poll'[s].code = c => s = q
        BY <1>1, <2>2 DEF LoginInv, OneCall
      <4> QED
        BY <1>1, <2>1, <2>2, <3>1, <4>1 DEF Spent
    <3>4. Asked(t.code)' /\ t.audience = Device!Audience(t.code)'
      BY <1>1, <3>1 DEF Asked, Device!Audience, Device!Intent
    <3> QED
      BY <3>1, <3>2, <3>3, <3>4 DEF TokenHolds
  <2> QED
    BY <1>3, <2>4, <2>8, <2>9, <2>10, <2>11, <2>12, <2>13, <2>14 DEF LoginInv
<1> QED
  BY <1>2, <1>3 DEF Device!Issue

(* Whom a step may let through: no call and no callback for a code that is over, *)
(* and no callback for one that has been approved.                               *)
PollsInTime == \A q \in Polls :
  poll[q].pc = "admitted" /\ poll'[q].pc = "approved" => ~Over(poll[q].code)
SignInsInTime == \A b \in Browsers :
  browser[b].pc = "consent" /\ browser'[b].pc = "callback" =>
    ~Over(browser[b].code) /\ \A p \in People : <<browser[b].code, p>> \notin approvals

(* The same, in the words of the property. *)
LetThrough ==
  /\ \A q \in Polls : poll[q].pc = "admitted" /\ poll'[q].pc = "approved" =>
       /\ poll[q].code \notin gone
       /\ \A t \in tokens : t.code # poll[q].code
  /\ \A b \in Browsers : browser[b].pc = "consent" /\ browser'[b].pc = "callback" =>
       /\ browser[b].code \notin gone
       /\ \A t \in tokens : t.code # browser[b].code
       /\ \A p \in People : <<browser[b].code, p>> \notin approvals

LEMMA LoginReturns ==
  ASSUME LoginInv, NEW b \in Browsers, Device!Return(b)
  PROVE  SignInsInTime
<1>1. /\ browser \in [Browsers -> SignIns] /\ SignInHolds(b) /\ browser[b].pc = "consent"
      /\ Device!NoSignIn.pc = "idle"
  BY DEF LoginInv, LoginTypes, Device!Return, Device!NoSignIn
<1>2. \A d \in Browsers : d # b => browser'[d] = browser[d]
  BY <1>1 DEF Device!Return
<1>3. ASSUME Device!Pending(browser[b].code)
      PROVE  ~Over(browser[b].code) /\ \A p \in People : <<browser[b].code, p>> \notin approvals
  BY <1>1, <1>3 DEF LoginInv, TokenHolds, CodeHolds, SignInHolds, Asked, Over, Device!Pending
<1>4. browser'[b].pc = "callback" => Device!Pending(browser[b].code)
  BY <1>1 DEF Device!Return
<1> QED
  BY <1>1, <1>2, <1>3, <1>4 DEF SignInsInTime

LEMMA LoginNext ==
  ASSUME Device!ConstantsOK, LoginInv, [Device!Next]_(Device!vars)
  PROVE  LoginInv' /\ PollsInTime /\ SignInsInTime
<1>1. poll \in [Polls -> PollCalls] /\ browser \in [Browsers -> SignIns]
  BY DEF LoginInv, LoginTypes
<1> DEFINE Goal == LoginInv' /\ PollsInTime /\ SignInsInTime
<1>2. ASSUME LoginInv', UNCHANGED <<poll, browser>> PROVE Goal
  BY <1>2 DEF PollsInTime, SignInsInTime
<1>3. ASSUME LoginInv', UNCHANGED browser, NEW q \in Polls, \A s \in Polls : s # q => poll'[s] = poll[s],
             poll[q].pc # "admitted" \/ poll'[q].pc # "approved"
      PROVE Goal
  BY <1>3 DEF PollsInTime, SignInsInTime
<1>4. CASE UNCHANGED <<client, session, browser, poll, tokens, approvals>>
  BY <1>2, <1>4 DEF LoginInv, LoginTypes, OneCall, OneTokenEach, CodeHolds, SignInHolds, CallHolds,
     TokenHolds, Asked, Spent, Device!Audience, Device!Intent
<1>5. ASSUME NEW c \in Codes, NEW plan \in Plans, Device!Ask(c, plan) PROVE Goal
  BY <1>2, <1>5, LoginAsk DEF Device!Ask
<1>6. ASSUME NEW c \in Codes, Device!Lapse(c) \/ (\E i \in Instances : Device!Interval(i, c))
      PROVE Goal
  BY <1>4, <1>6 DEF Device!Lapse, Device!Interval
<1>7. ASSUME NEW c \in Codes, Device!Sweep(c) PROVE Goal
  BY <1>2, <1>7, LoginSweep DEF Device!Sweep
<1>8. ASSUME NEW c \in Codes, Device!GiveUp(c) PROVE Goal
  BY <1>2, <1>8, LoginGivesUp DEF Device!GiveUp
<1>9. ASSUME NEW b \in Browsers, LoginInv', UNCHANGED poll, browser[b].pc # "consent" \/ browser'[b].pc # "callback",
             \A d \in Browsers : d # b => browser'[d] = browser[d]
      PROVE Goal
  BY <1>9 DEF PollsInTime, SignInsInTime
<1>10. ASSUME NEW b \in Browsers, Device!Return(b) PROVE Goal
  BY <1>10, LoginBrowses, LoginReturns DEF Device!Return, PollsInTime
<1>11. ASSUME NEW b \in Browsers,
             \/ \E c \in Codes, onsite \in BOOLEAN : Device!Start(b, c, onsite)
             \/ Device!Refuse(b)
             \/ \E p \in People \cup {None} : Device!Identify(b, p)
      PROVE Goal
  <2>1. LoginInv' /\ UNCHANGED poll
    BY <1>11, LoginBrowses DEF Device!Start, Device!Refuse, Device!Identify
  <2>2. \A d \in Browsers : d # b => browser'[d] = browser[d]
    BY <1>1, <1>11 DEF Device!Start, Device!Refuse, Device!Identify
  <2>3. browser[b].pc # "consent" \/ browser'[b].pc # "callback"
    <3>1. browser \in [Browsers -> SignIns] /\ b \in Browsers
      BY <1>1
    <3>2. CASE Device!Refuse(b)
      BY <3>1, <3>2 DEF Device!Refuse, Device!NoSignIn
    <3>3. CASE ~Device!Refuse(b)
      BY <1>11, <3>3 DEF Device!Start, Device!Identify
    <3> QED
      BY <3>2, <3>3
  <2> QED
    BY <1>9, <2>1, <2>2, <2>3
<1>12. ASSUME NEW b \in Browsers, Device!Deliver(b) PROVE Goal
  BY <1>1, <1>9, <1>12, LoginDelivers DEF Device!Deliver
<1>13. ASSUME NEW b \in Browsers, Device!Approve(b) PROVE Goal
  BY <1>1, <1>9, <1>13, LoginApproves DEF Device!Approve
<1>14. ASSUME NEW q \in Polls, NEW c \in Codes, Device!Call(q, c) PROVE Goal
  BY <1>1, <1>3, <1>14, LoginCall DEF Device!Call
<1>15. ASSUME NEW q \in Polls, NEW i \in Instances, Device!Admit(q, i) PROVE Goal
  BY <1>1, <1>3, <1>15, LoginAdmit DEF Device!Admit, Device!Answered
<1>16. ASSUME NEW q \in Polls, Device!Read(q) PROVE Goal
  <2>1. LoginInv' /\ (poll'[q].pc = "approved" => ~Over(poll[q].code)) /\ UNCHANGED browser
    BY <1>16, LoginRead DEF Device!Read
  <2>2. \A s \in Polls : s # q => poll'[s] = poll[s]
    BY <1>1, <1>16 DEF Device!Read, Device!Answered
  <2> QED
    BY <2>1, <2>2 DEF PollsInTime, SignInsInTime
<1>17. ASSUME NEW q \in Polls, Device!Issue(q) PROVE Goal
  BY <1>1, <1>3, <1>17, LoginIssues DEF Device!Issue, Device!Answered
<1>18. ASSUME NEW q \in Polls, Device!Receive(q) PROVE Goal
  BY <1>1, <1>3, <1>18, LoginReceive DEF Device!Receive
<1>19. CASE UNCHANGED Device!vars
  BY <1>4, <1>19 DEF Device!vars
<1> QED
  BY <1>5, <1>6, <1>7, <1>8, <1>10, <1>11, <1>12, <1>13, <1>14, <1>15, <1>16, <1>17, <1>18, <1>19
  DEF Device!Next

LEMMA AtMostOne ==
  ASSUME NEW S, \A x, y \in S : x = y
  PROVE  Device!Cardinality(S) <= 1
<1>1. Device!Cardinality(S) = Cardinality(S)
  BY DEF Device!Cardinality, Cardinality
<1>2. CASE S = {}
  BY <1>1, <1>2, FS_EmptySet
<1>3. CASE S # {}
  <2>1. PICK x \in S : S = {x}
    BY <1>3
  <2> QED
    BY <1>1, <2>1, FS_Singleton
<1> QED
  BY <1>2, <1>3

(* What is known of codes, sign-ins, calls and tokens holds however they race, *)
(* whichever page a sign-in was started from and however often a client calls. *)
THEOREM LoginInvariant == Device!ConstantsOK /\ Device!Spec => []LoginInv
<1> DEFINE Inv == LoginInv /\ Device!ConstantsOK
<1>1. Device!ConstantsOK /\ Device!Init => Inv
  BY LoginInit
<1>2. Inv /\ [Device!Next]_(Device!vars) => Inv'
  BY LoginNext DEF Device!ConstantsOK
<1> QED
  BY <1>1, <1>2, PTL DEF Device!Spec

(* What polling yields belongs to the person who approved that code; a client   *)
(* that makes one call at a time polls one token, though a callback may hand    *)
(* out others; an agent id is registered once; and once a code has lapsed or    *)
(* yielded a token it lets no sign-in and no poll through (device-flow.ts,      *)
(* device-ui.ts).                                                               *)
THEOREM LoginsBelong == Device!ConstantsOK /\ Device!Spec => LoginsAreOwn
<1> DEFINE Inv == LoginInv /\ Device!ConstantsOK
           Own == Device!TokenIsApprovers /\ Device!OneTokenPerPoller /\ Device!OneClientPerName
<1>1. Device!ConstantsOK /\ Device!Init => Inv
  BY LoginInit
<1>2. Inv /\ [Device!Next]_(Device!vars) => Inv'
  BY LoginNext DEF Device!ConstantsOK
<1>3. Inv => Own
  <2> SUFFICES ASSUME LoginInv PROVE Own
    OBVIOUS
  <2>1. Device!TokenIsApprovers
    <3> SUFFICES ASSUME NEW t \in tokens
                 PROVE  /\ t.audience = Device!Audience(t.code)
                        /\ IF t.by \in Polls
                           THEN approvals \cap ({t.code} \X People) = {<<t.code, t.principal>>}
                           ELSE t.audience # "client"
      BY DEF Device!TokenIsApprovers
    <3>1. TokenHolds(t) /\ t \in TokensIssued /\ approvals \subseteq Codes \X People
      BY DEF LoginInv, LoginTypes
    <3>2. CodeHolds(t.code) /\ t.principal \in People
      BY <3>1 DEF LoginInv, TokensIssued
    <3>3. ASSUME t.by \in Polls, NEW x
          PROVE  x \in approvals \cap ({t.code} \X People) <=> x = <<t.code, t.principal>>
      <4>1. x \in {t.code} \X People <=> \E p \in People : x = <<t.code, p>>
        OBVIOUS
      <4>2. \A p \in People : <<t.code, p>> \in approvals <=> p = t.principal
        BY <3>1, <3>2, <3>3 DEF TokenHolds, CodeHolds
      <4> QED
        BY <3>2, <4>1, <4>2
    <3> QED
      BY <3>1, <3>3 DEF TokenHolds
  <2>2. Device!OneTokenPerPoller
    BY DEF LoginInv, OneTokenEach, Device!OneTokenPerPoller
  <2>3. Device!OneClientPerName
    BY AtMostOne DEF LoginInv, OneTokenEach, Device!OneClientPerName
  <2> QED
    BY <2>1, <2>2, <2>3
<1>4. Inv /\ [Device!Next]_(Device!vars) => [PollsInTime /\ SignInsInTime]_(Device!vars)
  BY LoginNext
<1> HIDE DEF Inv, Own
<1>5. Device!ConstantsOK /\ Device!Spec => []Own
  BY <1>1, <1>2, <1>3, PTL DEF Device!Spec
<1>6. Device!ConstantsOK /\ Device!Spec => [][PollsInTime /\ SignInsInTime]_(Device!vars)
  BY <1>1, <1>2, <1>4, PTL DEF Device!Spec
<1>7. [PollsInTime /\ SignInsInTime]_(Device!vars) => [LetThrough]_(Device!vars)
  BY DEF PollsInTime, SignInsInTime, Over, LetThrough
<1>8. Device!ConstantsOK /\ Device!Spec => [][LetThrough]_(Device!vars)
  BY <1>6, <1>7, PTL
<1>9. Device!ConstantsOK /\ Device!Spec => Device!SpentLetsNobodyThrough
  BY <1>8 DEF LetThrough, Device!SpentLetsNobodyThrough
<1> QED
  BY <1>5, <1>9, PTL DEF LoginsAreOwn, Own

-----------------------------------------------------------------------------
(***************************************************************************)
(* Session tokens, for every number of messages, tokens, servers, requests *)
(* and lifetimes.  A token that was bought keeps its message's nonce until *)
(* the message is past use; an entry of a cache ends with its row and a    *)
(* cache lifetime after it was read, and what is revoked was good until    *)
(* then.                                                                   *)
(***************************************************************************)
BearerRows == [aud : Session!Audiences \cup {None}, from : Messages \cup {None}, exp : Nat,
               revoked : BOOLEAN]
BuyStates == [pc : {"idle", "verified"}, msg : Messages \cup {None},
              aud : Session!Audiences \cup {None}, ttl : Nat]
CacheEntries == [aud : Session!Audiences \cup {None}, exp : Nat]
ShownStates == [pc : {"idle", "asked", "checked", "recovering", "ok"}, at : Servers \cup {None},
                cred : Tokens \cup Messages \cup {None}, want : Session!Audiences \cup {None},
                now : Nat, row : BearerRows]
CliStates == [pc : {"idle", "saving", "revoking", "removing"}, token : Tokens \cup {None}, ok : BOOLEAN]

SessionTypes ==
  /\ now \in Nat /\ callers \in [Tokens -> BearerRows] /\ nonces \subseteq Messages
  /\ exch \in [Buys -> BuyStates]
  /\ cache \in [Servers -> [Tokens -> CacheEntries]] /\ bearers \in [Servers -> SUBSET Messages]
  /\ req \in [Shown -> ShownStates] /\ cli \in [Clis -> CliStates]
  /\ file \in Tokens \cup {None} /\ revoked \in [Tokens -> Nat \cup {None}]

Drawn(t) == callers[t].aud # None

(* A row, when it was revoked, and the message it was bought with. *)
RowHolds(t) ==
  /\ ~Drawn(t) => callers[t] = Session!NoRow
  /\ revoked[t] # None <=> callers[t].revoked
  /\ revoked[t] # None => revoked[t] <= now
  /\ callers[t].from # None =>
       /\ callers[t].exp <= Expiry[callers[t].from]
       /\ callers[t].from \in nonces \/ Expiry[callers[t].from] <= now

BoughtOnce ==
  /\ \A t, u \in Tokens : callers[t].from # None /\ callers[t].from = callers[u].from => t = u
  /\ \A m \in nonces : \E t \in Tokens : callers[t].from = m

(* A message under exchange is still good: no time passes meanwhile. *)
BuyHolds(x) ==
  x.pc = "verified" =>
    /\ x.msg \in Messages /\ x.aud # None
    /\ now < Expiry[x.msg] /\ x.ttl <= Expiry[x.msg] - now

EntryHolds(i, t) ==
  /\ cache[i][t].exp <= callers[t].exp /\ cache[i][t].exp <= now + CacheTtl
  /\ revoked[t] # None => cache[i][t].exp <= revoked[t] + CacheTtl

(* What a request has read of its bearer, and when it came. *)
ShownHolds(x) ==
  /\ x.now <= now
  /\ x.pc \in {"asked", "checked"} => x.cred \in Tokens /\ x.at \in Servers
  /\ x.pc \in {"asked", "checked", "ok"} /\ x.cred \in Tokens =>
       Drawn(x.cred) /\ x.want = callers[x.cred].aud
  /\ x.pc = "checked" =>
       /\ x.row.exp = callers[x.cred].exp /\ x.now < x.row.exp
       /\ revoked[x.cred] # None => x.now <= revoked[x.cred]
  /\ x.pc = "ok" /\ x.cred \in Tokens =>
       /\ x.now < callers[x.cred].exp
       /\ revoked[x.cred] # None => x.now < revoked[x.cred] + CacheTtl
  /\ x.pc = "recovering" => x.at \in Servers
  /\ x.pc = "recovering" \/ (x.pc = "ok" /\ x.cred \notin Tokens) =>
       x.cred \in Messages /\ x.now < Expiry[x.cred]

(* The file holds a token that was drawn; a logout is about the one it holds. *)
CliHolds(x) ==
  /\ x.pc \in {"saving", "revoking", "removing"} => x.token \in Tokens /\ Drawn(x.token)
  /\ x.pc \in {"revoking", "removing"} => x.token = file
  /\ x.ok => x.pc = "removing" /\ callers[x.token].revoked

SessionInv ==
  /\ SessionTypes /\ BoughtOnce
  /\ file # None => Drawn(file)
  /\ \A t \in Tokens : RowHolds(t)
  /\ \A e \in Buys : BuyHolds(exch[e])
  /\ \A i \in Servers, t \in Tokens : EntryHolds(i, t)
  /\ \A r \in Shown : ShownHolds(req[r])
  /\ \A c \in Clis : CliHolds(cli[c])

(* Nothing slows an exchange down, and one command line uses the file. *)
Alone == ~SlowExchanges /\ \A c, d \in Clis : c = d


LEMMA DrawnOnes ==
  ASSUME Session!ConstantsOK, SessionInv
  PROVE  /\ \A t \in Tokens : callers[t] # Session!NoRow <=> Drawn(t)
         /\ \A t \in Tokens : callers[t].exp \in Nat /\ callers[t] \in BearerRows
         /\ \A i \in Servers, t \in Tokens : cache[i][t] \in CacheEntries /\ cache[i][t].exp \in Nat
         /\ now \in Nat /\ CacheTtl \in Nat /\ CacheTtl > 0
         /\ \A t \in Tokens : revoked[t] # None => revoked[t] \in Nat
BY DEF SessionInv, SessionTypes, RowHolds, Drawn, Session!NoRow, BearerRows, CacheEntries, Session!ConstantsOK

LEMMA SessionInit ==
  ASSUME Session!ConstantsOK, Session!Init
  PROVE  SessionInv
<1> USE DEF Session!Init, Session!ConstantsOK
<1>1. /\ Session!NoRow \in BearerRows /\ Session!NoEntry \in CacheEntries
      /\ Session!NoExchange \in BuyStates /\ Session!NoRequest \in ShownStates
      /\ Session!NoCli \in CliStates
  BY DEF Session!NoRow, Session!NoEntry, Session!NoExchange, Session!NoRequest, Session!NoCli,
     BearerRows, CacheEntries, BuyStates, ShownStates, CliStates, Session!Audiences
<1>2. SessionTypes
  BY <1>1 DEF SessionTypes
<1>3. BoughtOnce /\ \A t \in Tokens : RowHolds(t)
  BY DEF BoughtOnce, RowHolds, Drawn, Session!NoRow
<1>4. \A i \in Servers, t \in Tokens : EntryHolds(i, t)
  BY DEF EntryHolds, Session!NoEntry, Session!NoRow
<1>5. /\ \A e \in Buys : BuyHolds(exch[e])
      /\ \A r \in Shown : ShownHolds(req[r])
      /\ \A c \in Clis : CliHolds(cli[c])
  BY DEF BuyHolds, ShownHolds, CliHolds, Session!NoExchange, Session!NoRequest, Session!NoCli
<1> QED
  BY <1>2, <1>3, <1>4, <1>5 DEF SessionInv

(* What holds of a request, an exchange or a command line depends on little. *)
LEMMA RestHolds ==
  ASSUME SessionInv, UNCHANGED <<now, callers, file, revoked>>
  PROVE  /\ \A x : ShownHolds(x) => ShownHolds(x)'
         /\ \A x : BuyHolds(x) => BuyHolds(x)'
         /\ \A x : CliHolds(x) => CliHolds(x)'
         /\ \A t : Drawn(t) => Drawn(t)'
BY DEF ShownHolds, BuyHolds, CliHolds, Drawn

(* The request r is at x; the caches hold what they may. *)
LEMMA SessionShows ==
  ASSUME Session!ConstantsOK, SessionInv, NEW r \in Shown, NEW x \in ShownStates, ShownHolds(x),
         req' = [req EXCEPT ![r] = x],
         cache' \in [Servers -> [Tokens -> CacheEntries]], bearers' \in [Servers -> SUBSET Messages],
         \A i \in Servers, t \in Tokens : EntryHolds(i, t)',
         UNCHANGED <<now, callers, nonces, exch, cli, file, revoked>>
  PROVE  SessionInv'
<1>1. /\ req' \in [Shown -> ShownStates] /\ req'[r] = x
      /\ \A s \in Shown : s # r => req'[s] = req[s]
  BY DEF SessionInv, SessionTypes
<1>2. SessionTypes' /\ BoughtOnce' /\ (file # None => Drawn(file))'
  BY <1>1 DEF SessionInv, SessionTypes, BoughtOnce, Drawn
<1>3. \A t \in Tokens : RowHolds(t)'
  BY DEF SessionInv, RowHolds, Drawn
<1>4. ASSUME NEW s \in Shown PROVE ShownHolds(req[s])'
  <2>1. ShownHolds(req'[s])
    BY <1>1 DEF SessionInv
  <2>2. PICK y : y = req'[s]
    OBVIOUS
  <2>3. ShownHolds(y)'
    BY <2>1, <2>2, RestHolds
  <2> QED
    BY <2>2, <2>3 DEF ShownHolds
<1>5. (\A e \in Buys : BuyHolds(exch[e])') /\ \A c \in Clis : CliHolds(cli[c])'
  BY DEF SessionInv, BuyHolds, CliHolds, Drawn
<1> QED
  BY <1>2, <1>3, <1>4, <1>5 DEF SessionInv

LEMMA SessionPresent ==
  ASSUME Session!ConstantsOK, SessionInv, NEW r \in Shown, Session!Present(r)
  PROVE  SessionInv'
<1>1. PICK i \in Servers, t \in Session!Minted, want \in Session!Audiences, left \in SUBSET Tokens :
        /\ cache' = [cache EXCEPT ![i] = Session!Kept(i, left)]
        /\ \/ /\ Session!Hit(i, t, left, want)
              /\ req' = [req EXCEPT ![r] = [pc |-> "ok", at |-> i, cred |-> t, want |-> want,
                                            now |-> now, row |-> Session!NoRow]]
           \/ /\ callers[t].aud = want
              /\ req' = [req EXCEPT ![r] = [pc |-> "asked", at |-> i, cred |-> t, want |-> want,
                                            now |-> now, row |-> Session!NoRow]]
  <2>1. PICK i \in Servers, t \in Session!Minted, want \in Session!Audiences :
          \E left \in SUBSET Session!Cached(i) :
            /\ Session!Evicted(i, left)
            /\ cache' = [cache EXCEPT ![i] = Session!Kept(i, left)]
            /\ \/ /\ Session!Hit(i, t, left, want)
                  /\ req' = [req EXCEPT ![r] = [pc |-> "ok", at |-> i, cred |-> t, want |-> want,
                                                now |-> now, row |-> Session!NoRow]]
               \/ /\ ~(t \in left /\ cache[i][t].exp > now)
                  /\ callers[t].aud = want
                  /\ req' = [req EXCEPT ![r] = [pc |-> "asked", at |-> i, cred |-> t, want |-> want,
                                                now |-> now, row |-> Session!NoRow]]
    BY Zenon DEF Session!Present
  <2>2. SUBSET Session!Cached(i) \subseteq SUBSET Tokens
    BY DEF Session!Cached
  <2> QED
    BY <2>1, <2>2
<1>2. UNCHANGED <<now, callers, nonces, exch, bearers, cli, file, revoked>>
  BY DEF Session!Present
<1>3. t \in Tokens /\ Drawn(t) /\ EntryHolds(i, t)
  BY DrawnOnes DEF Session!Minted, SessionInv
<1>4. /\ cache' \in [Servers -> [Tokens -> CacheEntries]]
      /\ \A j \in Servers, u \in Tokens : cache'[j][u] = cache[j][u] \/ cache'[j][u] = Session!NoEntry
  <2>1. Session!NoEntry \in CacheEntries
    BY DEF Session!NoEntry, CacheEntries
  <2>2. Session!Kept(i, left) \in [Tokens -> CacheEntries]
        /\ \A u \in Tokens : Session!Kept(i, left)[u] \in {cache[i][u], Session!NoEntry}
    BY <2>1, DrawnOnes DEF Session!Kept
  <2> QED
    BY <1>1, <2>2 DEF SessionInv, SessionTypes
<1>5. ASSUME NEW j \in Servers, NEW u \in Tokens PROVE EntryHolds(j, u)'
  <2>1. EntryHolds(j, u)
    BY DEF SessionInv
  <2>2. CASE cache'[j][u] = cache[j][u]
    BY <1>2, <2>1, <2>2 DEF EntryHolds
  <2>3. CASE cache'[j][u] = Session!NoEntry
    BY <1>2, <2>3, DrawnOnes DEF EntryHolds, Session!NoEntry
  <2> QED
    BY <1>4, <2>2, <2>3
<1>6. Session!NoRow \in BearerRows
  BY DEF Session!NoRow, BearerRows
<1>7. CASE /\ Session!Hit(i, t, left, want)
           /\ req' = [req EXCEPT ![r] = [pc |-> "ok", at |-> i, cred |-> t, want |-> want,
                                         now |-> now, row |-> Session!NoRow]]
  <2> DEFINE x == [pc |-> "ok", at |-> i, cred |-> t, want |-> want, now |-> now, row |-> Session!NoRow]
  <2>1. x \in ShownStates
    BY <1>3, <1>6, DrawnOnes DEF ShownStates
  <2>2. cache[i][t].exp > now /\ callers[t].aud = want
    BY <1>7 DEF Session!Hit
  <2>3. now < callers[t].exp /\ (revoked[t] # None => now < revoked[t] + CacheTtl)
    BY <1>3, <2>2, DrawnOnes DEF EntryHolds
  <2>4. ShownHolds(x)
    BY <1>3, <2>2, <2>3, DrawnOnes DEF ShownHolds
  <2> QED
    BY <1>2, <1>4, <1>5, <1>7, <2>1, <2>4, SessionShows DEF SessionInv, SessionTypes
<1>8. CASE /\ callers[t].aud = want
           /\ req' = [req EXCEPT ![r] = [pc |-> "asked", at |-> i, cred |-> t, want |-> want,
                                         now |-> now, row |-> Session!NoRow]]
  <2> DEFINE x == [pc |-> "asked", at |-> i, cred |-> t, want |-> want, now |-> now, row |-> Session!NoRow]
  <2>1. x \in ShownStates
    BY <1>3, <1>6, DrawnOnes DEF ShownStates
  <2>2. ShownHolds(x)
    BY <1>3, <1>8, DrawnOnes DEF ShownHolds
  <2> QED
    BY <1>2, <1>4, <1>5, <1>8, <2>1, <2>2, SessionShows DEF SessionInv, SessionTypes
<1> QED
  BY <1>1, <1>7, <1>8

(* A request changes, the caches do not. *)
LEMMA SessionMoves ==
  ASSUME Session!ConstantsOK, SessionInv, NEW r \in Shown, NEW x \in ShownStates, ShownHolds(x),
         req' = [req EXCEPT ![r] = x], bearers' \in [Servers -> SUBSET Messages],
         UNCHANGED <<now, callers, nonces, exch, cache, cli, file, revoked>>
  PROVE  SessionInv'
<1>1. \A i \in Servers, t \in Tokens : EntryHolds(i, t)'
  BY DEF SessionInv, EntryHolds
<1> QED
  BY <1>1, SessionShows DEF SessionInv, SessionTypes

LEMMA SessionServes ==
  ASSUME Session!ConstantsOK, SessionInv, NEW r \in Shown,
         \/ Session!Lookup(r) \/ Session!PresentMessage(r) \/ Session!Recover(r) \/ Session!Serve(r)
  PROVE  SessionInv'
<1>1. /\ req[r] \in ShownStates /\ ShownHolds(req[r]) /\ bearers \in [Servers -> SUBSET Messages]
      /\ req \in [Shown -> ShownStates]
  BY DEF SessionInv, SessionTypes
<1>2. Session!NoRow \in BearerRows
  BY DEF Session!NoRow, BearerRows
<1>3. Session!NoRequest \in ShownStates /\ ShownHolds(Session!NoRequest)
  BY <1>2, DrawnOnes DEF Session!NoRequest, ShownStates, ShownHolds
<1>4. CASE Session!Serve(r)
  BY <1>1, <1>3, <1>4, SessionMoves DEF Session!Serve
<1>5. CASE Session!Lookup(r)
  <2> DEFINE x == req[r]
             y == [x EXCEPT !.pc = "checked", !.row = callers[x.cred]]
  <2>1. x.pc = "asked" /\ UNCHANGED <<now, callers, nonces, exch, cache, bearers, cli, file, revoked>>
    BY <1>5 DEF Session!Lookup
  <2>2. CASE req' = [req EXCEPT ![r] = Session!NoRequest]
    BY <1>1, <1>3, <2>1, <2>2, SessionMoves
  <2>3. CASE Session!Good(callers[x.cred], x.now, x.want) /\ req' = [req EXCEPT ![r] = y]
    <3>1. x.cred \in Tokens /\ callers[x.cred] \in BearerRows /\ RowHolds(x.cred)
      BY <1>1, <2>1, DrawnOnes DEF ShownHolds, SessionInv
    <3>2. /\ y \in ShownStates /\ y.pc = "checked" /\ y.cred = x.cred /\ y.now = x.now
          /\ y.row = callers[x.cred] /\ y.want = x.want /\ y.at = x.at
      BY <1>1, <3>1 DEF ShownStates
    <3>3. revoked[x.cred] = None /\ x.now < callers[x.cred].exp
      BY <2>3, <3>1, DrawnOnes, <1>1 DEF Session!Good, RowHolds, ShownStates
    <3> HIDE DEF y
    <3>4. ShownHolds(y)
      BY <1>1, <2>1, <3>1, <3>2, <3>3 DEF ShownHolds
    <3> QED
      BY <1>1, <2>1, <2>3, <3>2, <3>4, SessionMoves
  <2> QED
    BY <1>5, <2>2, <2>3 DEF Session!Lookup
<1>6. CASE Session!PresentMessage(r)
  <2>1. PICK i \in Servers, m \in Messages, pc \in {"ok", "recovering"} :
          /\ Session!BearerHit(i, m) \/ Session!Acceptable(m)
          /\ req' = [req EXCEPT ![r] = [pc |-> pc, at |-> i, cred |-> m, want |-> "caller",
                                        now |-> now, row |-> Session!NoRow]]
    BY <1>6 DEF Session!PresentMessage
  <2> DEFINE x == [pc |-> pc, at |-> i, cred |-> m, want |-> "caller", now |-> now, row |-> Session!NoRow]
  <2>2. now < Expiry[m]
    BY <2>1, DrawnOnes DEF Session!BearerHit, Session!Acceptable, Session!ConstantsOK
  <2>3. x \in ShownStates
    BY <1>2, DrawnOnes DEF ShownStates, Session!Audiences
  <2>4. ShownHolds(x)
    BY <2>2, DrawnOnes DEF ShownHolds, Session!ConstantsOK
  <2> QED
    BY <1>1, <1>6, <2>1, <2>3, <2>4, SessionMoves DEF Session!PresentMessage
<1>7. CASE Session!Recover(r)
  <2> DEFINE x == req[r]
             y == [x EXCEPT !.pc = "ok"]
  <2>1. /\ x.pc = "recovering" /\ req' = [req EXCEPT ![r] = y]
        /\ bearers' = [bearers EXCEPT ![x.at] = @ \cup {x.cred}]
        /\ UNCHANGED <<now, callers, nonces, exch, cache, cli, file, revoked>>
    BY <1>7 DEF Session!Recover
  <2>2. x.cred \in Messages /\ x.now < Expiry[x.cred] /\ x.at \in Servers /\ x.now <= now
    BY <1>1, <2>1 DEF ShownHolds
  <2>3. y \in ShownStates /\ y.pc = "ok" /\ y.cred = x.cred /\ y.now = x.now
    BY <1>1 DEF ShownStates
  <2> HIDE DEF y
  <2>4. ShownHolds(y)
    BY <2>2, <2>3 DEF ShownHolds, Session!ConstantsOK
  <2>5. bearers' \in [Servers -> SUBSET Messages]
    BY <1>1, <2>1, <2>2
  <2> QED
    BY <2>1, <2>3, <2>4, <2>5, SessionMoves
<1> QED
  BY <1>4, <1>5, <1>6, <1>7

LEMMA SessionStores ==
  ASSUME Session!ConstantsOK, SessionInv, NEW r \in Shown, Session!Store(r)
  PROVE  SessionInv'
<1> DEFINE x == req[r]
           y == [x EXCEPT !.pc = "ok", !.row = Session!NoRow]
           entry == Session!Entry(x.row, x.now)
<1>1. /\ x \in ShownStates /\ ShownHolds(x) /\ x.pc = "checked"
      /\ req' = [req EXCEPT ![r] = y] /\ cache' = [cache EXCEPT ![x.at][x.cred] = entry]
      /\ UNCHANGED <<now, callers, nonces, exch, bearers, cli, file, revoked>>
  BY DEF SessionInv, SessionTypes, Session!Store
<1>2. /\ x.cred \in Tokens /\ x.at \in Servers /\ Drawn(x.cred) /\ x.want = callers[x.cred].aud
      /\ x.row.exp = callers[x.cred].exp /\ x.now < x.row.exp /\ x.now <= now
      /\ revoked[x.cred] # None => x.now <= revoked[x.cred]
      /\ x.now \in Nat /\ x.row \in BearerRows /\ x.row.exp \in Nat
  BY <1>1 DEF ShownHolds, ShownStates, BearerRows
<1>3. /\ entry \in CacheEntries /\ entry.exp <= x.row.exp /\ entry.exp <= x.now + CacheTtl
  BY <1>2, DrawnOnes DEF Session!Entry, Session!Least, CacheEntries, BearerRows
<1> HIDE DEF entry
<1>4. /\ cache' \in [Servers -> [Tokens -> CacheEntries]]
      /\ \A i \in Servers, t \in Tokens :
           cache'[i][t] = IF i = x.at /\ t = x.cred THEN entry ELSE cache[i][t]
  BY <1>1, <1>2, <1>3 DEF SessionInv, SessionTypes
<1>5. ASSUME NEW i \in Servers, NEW t \in Tokens PROVE EntryHolds(i, t)'
  <2>1. CASE i = x.at /\ t = x.cred
    <3>1. cache'[i][t].exp \in Nat /\ cache'[i][t] = entry
      BY <1>3, <1>4, <2>1 DEF CacheEntries
    <3> QED
      BY <1>1, <1>2, <1>3, <2>1, <3>1, DrawnOnes DEF EntryHolds
  <2>2. CASE ~(i = x.at /\ t = x.cred)
    <3>1. EntryHolds(i, t) /\ cache'[i][t] = cache[i][t]
      BY <1>4, <2>2 DEF SessionInv
    <3> QED
      BY <1>1, <3>1 DEF EntryHolds
  <2> QED
    BY <2>1, <2>2
<1>6. /\ y \in ShownStates /\ y.pc = "ok" /\ y.cred = x.cred /\ y.now = x.now /\ y.want = x.want
  BY <1>1 DEF ShownStates, Session!NoRow, BearerRows
<1> HIDE DEF y
<1>7. ShownHolds(y)
  BY <1>2, <1>6, DrawnOnes DEF ShownHolds
<1> QED
  BY <1>1, <1>4, <1>5, <1>6, <1>7, SessionShows DEF SessionInv, SessionTypes


(* A token is drawn that was not: nothing else knew of it. *)
LEMMA Minting ==
  ASSUME Session!ConstantsOK, SessionInv, NEW t \in Tokens, NEW aud \in Session!Audiences,
         NEW from \in Messages \cup {None}, NEW ttl \in Nat, Session!Mint(t, aud, from, ttl),
         UNCHANGED <<now, cache, req, file, revoked>>
  PROVE  /\ callers' \in [Tokens -> BearerRows] /\ ~Drawn(t)
         /\ callers'[t] = [aud |-> aud, from |-> from, exp |-> now + ttl, revoked |-> FALSE]
         /\ \A u \in Tokens : u # t => callers'[u] = callers[u]
         /\ callers[t] = Session!NoRow /\ revoked[t] = None
         /\ Drawn(t)' /\ \A u \in Tokens : Drawn(u) => Drawn(u)' /\ callers'[u] = callers[u]
         /\ \A i \in Servers, u \in Tokens : EntryHolds(i, u)'
         /\ \A r \in Shown : ShownHolds(req[r])'
<1> DEFINE minted == [aud |-> aud, from |-> from, exp |-> now + ttl, revoked |-> FALSE]
<1>1. callers[t] = Session!NoRow /\ callers' = [callers EXCEPT ![t] = minted]
  BY DEF Session!Mint
<1>2. minted \in BearerRows
  BY DrawnOnes DEF BearerRows
<1>3. /\ callers' \in [Tokens -> BearerRows] /\ callers'[t] = minted
      /\ \A u \in Tokens : u # t => callers'[u] = callers[u]
  BY <1>1, <1>2 DEF SessionInv, SessionTypes
<1>4. ~Drawn(t) /\ revoked[t] = None
  BY <1>1 DEF Drawn, Session!NoRow, SessionInv, RowHolds
<1>5. Drawn(t)' /\ \A u \in Tokens : Drawn(u) => Drawn(u)' /\ callers'[u] = callers[u]
  <2>1. None \notin Session!Audiences
    BY DEF Session!ConstantsOK, Session!Audiences
  <2> QED
    BY <1>3, <1>4, <2>1 DEF Drawn
<1>6. ASSUME NEW i \in Servers, NEW u \in Tokens PROVE EntryHolds(i, u)'
  <2>1. EntryHolds(i, u) /\ callers'[u].exp \in Nat /\ callers[u].exp <= callers'[u].exp
    BY <1>1, <1>2, <1>3, DrawnOnes DEF SessionInv, Session!NoRow, BearerRows
  <2> QED
    BY <2>1, DrawnOnes DEF EntryHolds
<1>7. ASSUME NEW r \in Shown PROVE ShownHolds(req[r])'
  <2>1. ShownHolds(req[r]) /\ req'[r] = req[r]
    BY DEF SessionInv
  <2> QED
    BY <1>5, <2>1 DEF ShownHolds
<1> QED
  BY <1>1, <1>3, <1>4, <1>5, <1>6, <1>7

LEMMA SessionExchange ==
  ASSUME Session!ConstantsOK, SessionInv, NEW e \in Buys, Session!Exchange(e)
  PROVE  SessionInv'
<1> DEFINE x == exch[e]
<1>1. /\ x \in BuyStates /\ x.pc = "verified" /\ BuyHolds(x)
      /\ exch' = [exch EXCEPT ![e] = Session!NoExchange] /\ exch \in [Buys -> BuyStates]
      /\ UNCHANGED <<now, cache, bearers, req, cli, file, revoked>>
  BY DEF SessionInv, SessionTypes, Session!Exchange
<1>2. x.msg \in Messages /\ x.aud \in Session!Audiences /\ x.ttl \in Nat
  BY <1>1 DEF BuyHolds, BuyStates
<1>3. Session!NoExchange \in BuyStates /\ BuyHolds(Session!NoExchange)
  BY DEF Session!NoExchange, BuyStates, BuyHolds
<1>4. exch' \in [Buys -> BuyStates] /\ \A f \in Buys : BuyHolds(exch'[f])
  BY <1>1, <1>3 DEF SessionInv
<1>5. \A f \in Buys : BuyHolds(exch[f])'
  <2> SUFFICES ASSUME NEW f \in Buys PROVE BuyHolds(exch[f])'
    OBVIOUS
  <2> QED
    BY <1>1, <1>4 DEF BuyHolds
<1>6. CASE UNCHANGED <<callers, nonces>>
  <2>1. SessionTypes' /\ BoughtOnce' /\ (file # None => Drawn(file))'
    BY <1>1, <1>4, <1>6 DEF SessionInv, SessionTypes, BoughtOnce, Drawn
  <2>2. (\A t \in Tokens : RowHolds(t)') /\ (\A i \in Servers, t \in Tokens : EntryHolds(i, t)')
    BY <1>1, <1>6 DEF SessionInv, RowHolds, EntryHolds, Drawn
  <2>3. (\A r \in Shown : ShownHolds(req[r])') /\ \A c \in Clis : CliHolds(cli[c])'
    BY <1>1, <1>6 DEF SessionInv, ShownHolds, CliHolds, Drawn
  <2> QED
    BY <1>5, <2>1, <2>2, <2>3 DEF SessionInv
<1>7. CASE /\ x.msg \notin nonces /\ nonces' = nonces \cup {x.msg}
           /\ \E t \in Tokens : Session!Mint(t, x.aud, x.msg, x.ttl)
  <2>1. PICK t \in Tokens : Session!Mint(t, x.aud, x.msg, x.ttl)
    BY <1>7
  <2>2. /\ callers' \in [Tokens -> BearerRows] /\ ~Drawn(t)
        /\ callers'[t] = [aud |-> x.aud, from |-> x.msg, exp |-> now + x.ttl, revoked |-> FALSE]
        /\ \A u \in Tokens : u # t => callers'[u] = callers[u]
        /\ callers[t] = Session!NoRow /\ revoked[t] = None
        /\ Drawn(t)' /\ \A u \in Tokens : Drawn(u) => Drawn(u)' /\ callers'[u] = callers[u]
        /\ \A i \in Servers, u \in Tokens : EntryHolds(i, u)'
        /\ \A r \in Shown : ShownHolds(req[r])'
    BY <1>1, <1>2, <2>1, Minting
  <2>3. now < Expiry[x.msg] /\ x.ttl <= Expiry[x.msg] - now /\ now \in Nat /\ Expiry[x.msg] \in Nat
        /\ x.msg # None
    BY <1>1, <1>2, DrawnOnes DEF BuyHolds, Session!ConstantsOK
  <2>4. SessionTypes'
    BY <1>1, <1>2, <1>4, <1>7, <2>2 DEF SessionInv, SessionTypes
  <2>5. \A u \in Tokens : callers[u].from # x.msg
    BY <1>7, <2>3 DEF SessionInv, RowHolds
  <2>6. BoughtOnce'
    <3>1. \A u, v \in Tokens : callers'[u].from # None /\ callers'[u].from = callers'[v].from => u = v
      BY <2>2, <2>5 DEF SessionInv, BoughtOnce
    <3>2. ASSUME NEW m \in nonces' PROVE \E u \in Tokens : callers'[u].from = m
      <4>1. CASE m = x.msg
        BY <2>2, <4>1
      <4>2. CASE m \in nonces
        <5>1. PICK u \in Tokens : callers[u].from = m
          BY <4>2 DEF SessionInv, BoughtOnce
        <5>2. m # None
          BY <4>2 DEF SessionInv, SessionTypes, Session!ConstantsOK
        <5>3. u # t
          BY <2>2, <5>1, <5>2 DEF Session!NoRow
        <5> QED
          BY <2>2, <5>1, <5>3
      <4> QED
        BY <1>7, <3>2, <4>1, <4>2
    <3> QED
      BY <3>1, <3>2 DEF BoughtOnce
  <2>7. ASSUME NEW u \in Tokens PROVE RowHolds(u)'
    <3>1. CASE u = t
      <4>1. /\ callers'[t].exp = now + x.ttl /\ callers'[t].from = x.msg /\ ~callers'[t].revoked
            /\ revoked'[t] = None /\ Drawn(t)' /\ x.msg \in nonces'
        BY <1>1, <1>7, <2>2
      <4>2. now + x.ttl <= Expiry[x.msg]
        BY <1>2, <2>3
      <4> QED
        BY <3>1, <4>1, <4>2 DEF RowHolds
    <3>2. CASE u # t
      BY <1>1, <1>7, <2>2, <3>2 DEF SessionInv, RowHolds, Drawn
    <3> QED
      BY <3>1, <3>2
  <2>8. (file # None => Drawn(file))'
    BY <1>1, <2>2 DEF SessionInv, SessionTypes, Drawn
  <2>9. ASSUME NEW c \in Clis PROVE CliHolds(cli[c])'
    <3>1. CliHolds(cli[c]) /\ cli'[c] = cli[c]
      BY <1>1 DEF SessionInv
    <3> QED
      BY <1>1, <2>2, <3>1 DEF CliHolds
  <2> QED
    BY <1>5, <2>2, <2>4, <2>6, <2>7, <2>8, <2>9 DEF SessionInv
<1> QED
  BY <1>6, <1>7 DEF Session!Exchange

(* The command line c is at y. *)
LEMMA CliIs ==
  ASSUME SessionInv, NEW c \in Clis, NEW y \in CliStates, cli' = [cli EXCEPT ![c] = y]
  PROVE  /\ cli' \in [Clis -> CliStates] /\ cli'[c] = y
         /\ \A d \in Clis : d # c => cli'[d] = cli[d]
BY DEF SessionInv, SessionTypes

LEMMA SessionLogIn ==
  ASSUME Session!ConstantsOK, SessionInv, NEW c \in Clis, Session!LogIn(c)
  PROVE  SessionInv'
<1>1. PICK t \in Tokens :
        /\ Session!Mint(t, "owner_session", None, TokenTtl)
        /\ cli' = [cli EXCEPT ![c] = [pc |-> "saving", token |-> t, ok |-> FALSE]]
  BY DEF Session!LogIn
<1> DEFINE y == [pc |-> "saving", token |-> t, ok |-> FALSE]
<1>2. UNCHANGED <<now, nonces, exch, cache, bearers, req, file, revoked>>
  BY DEF Session!LogIn
<1>3. "owner_session" \in Session!Audiences /\ TokenTtl \in Nat
  BY DEF Session!Audiences, Session!ConstantsOK
<1>4. /\ callers' \in [Tokens -> BearerRows] /\ ~Drawn(t)
      /\ callers'[t] = [aud |-> "owner_session", from |-> None, exp |-> now + TokenTtl, revoked |-> FALSE]
      /\ \A u \in Tokens : u # t => callers'[u] = callers[u]
      /\ callers[t] = Session!NoRow /\ revoked[t] = None
      /\ Drawn(t)' /\ \A u \in Tokens : Drawn(u) => Drawn(u)' /\ callers'[u] = callers[u]
      /\ \A i \in Servers, u \in Tokens : EntryHolds(i, u)'
      /\ \A r \in Shown : ShownHolds(req[r])'
  BY <1>1, <1>2, <1>3, Minting
<1>5. /\ cli' \in [Clis -> CliStates] /\ cli'[c] = y
      /\ \A d \in Clis : d # c => cli'[d] = cli[d]
  <2>1. y \in CliStates
    BY DEF CliStates
  <2> QED
    BY <1>1, <2>1, CliIs
<1>6. SessionTypes'
  BY <1>2, <1>4, <1>5 DEF SessionInv, SessionTypes
<1>7. BoughtOnce'
  <2>1. \A u \in Tokens : callers'[u].from = callers[u].from
    BY <1>4 DEF Session!NoRow
  <2> QED
    BY <1>2, <2>1 DEF SessionInv, BoughtOnce
<1>8. ASSUME NEW u \in Tokens PROVE RowHolds(u)'
  <2>1. CASE u = t
    BY <1>2, <1>4, <2>1 DEF RowHolds
  <2>2. CASE u # t
    BY <1>2, <1>4, <2>2 DEF SessionInv, RowHolds, Drawn
  <2> QED
    BY <2>1, <2>2
<1>9. (file # None => Drawn(file))'
  BY <1>2, <1>4 DEF SessionInv, SessionTypes, Drawn
<1>10. ASSUME NEW d \in Clis PROVE CliHolds(cli[d])'
  <2>1. CASE d = c
    BY <1>4, <1>5, <2>1 DEF CliHolds
  <2>2. CASE d # c
    <3>1. CliHolds(cli[d]) /\ cli'[d] = cli[d]
      BY <1>5, <2>2 DEF SessionInv
    <3> QED
      BY <1>2, <1>4, <3>1 DEF CliHolds
  <2> QED
    BY <2>1, <2>2
<1>11. \A e \in Buys : BuyHolds(exch[e])'
  BY <1>2 DEF SessionInv, BuyHolds
<1> QED
  BY <1>4, <1>6, <1>7, <1>8, <1>9, <1>10, <1>11 DEF SessionInv

(* A drawn token is revoked, at the time it is now unless it was before. *)
LEMMA Revoking ==
  ASSUME Session!ConstantsOK, SessionInv, NEW t \in Tokens, Drawn(t), Session!MarkRevoked(t),
         NEW y, \A c \in Clis : cli'[c] = cli[c] \/ cli'[c] = y,
         CliHolds(y)', cli' \in [Clis -> CliStates],
         UNCHANGED <<now, nonces, exch, cache, bearers, req, file>>
  PROVE  SessionInv'
<1>1. /\ callers' = [callers EXCEPT ![t] = [callers[t] EXCEPT !.revoked = TRUE]]
      /\ revoked' = [revoked EXCEPT ![t] = IF callers[t].revoked THEN revoked[t] ELSE now]
  BY DEF Session!MarkRevoked, SessionInv, SessionTypes
<1>2. callers[t] \in BearerRows /\ callers \in [Tokens -> BearerRows] /\ RowHolds(t)
      /\ revoked \in [Tokens -> Nat \cup {None}]
  BY DEF SessionInv, SessionTypes
<1>3. /\ callers' \in [Tokens -> BearerRows]
      /\ \A u \in Tokens : /\ callers'[u].aud = callers[u].aud /\ callers'[u].from = callers[u].from
                           /\ callers'[u].exp = callers[u].exp
                           /\ callers'[u].revoked <=> (callers[u].revoked \/ u = t)
                           /\ u # t => callers'[u] = callers[u]
  BY <1>1, <1>2 DEF BearerRows
<1>4. /\ revoked' \in [Tokens -> Nat \cup {None}]
      /\ \A u \in Tokens : u # t => revoked'[u] = revoked[u]
      /\ revoked'[t] = (IF revoked[t] # None THEN revoked[t] ELSE now)
      /\ None \notin Nat /\ now \in Nat
  BY <1>1, <1>2, DrawnOnes DEF RowHolds, Session!ConstantsOK
<1>5. SessionTypes'
  BY <1>3, <1>4 DEF SessionInv, SessionTypes
<1>6. BoughtOnce' /\ (file # None => Drawn(file))' /\ \A u \in Tokens : Drawn(u)' <=> Drawn(u)
  <2>1. \A u \in Tokens : Drawn(u)' <=> Drawn(u)
    BY <1>3 DEF Drawn
  <2>2. (file # None => Drawn(file))'
    BY <1>3 DEF SessionInv, SessionTypes, Drawn
  <2>3. BoughtOnce'
    BY <1>3 DEF SessionInv, BoughtOnce
  <2> QED
    BY <2>1, <2>2, <2>3
<1>7. ASSUME NEW u \in Tokens PROVE RowHolds(u)'
  <2>1. RowHolds(u)
    BY DEF SessionInv
  <2>2. CASE u = t
    BY <1>3, <1>4, <1>6, <2>1, <2>2 DEF RowHolds
  <2>3. CASE u # t
    BY <1>3, <1>4, <1>6, <2>1, <2>3 DEF RowHolds
  <2> QED
    BY <2>2, <2>3
<1>8. ASSUME NEW i \in Servers, NEW u \in Tokens PROVE EntryHolds(i, u)'
  <2>1. EntryHolds(i, u)
    BY DEF SessionInv
  <2>2. CASE u = t
    BY <1>3, <1>4, <2>1, <2>2 DEF EntryHolds
  <2>3. CASE u # t
    BY <1>3, <1>4, <2>1, <2>3 DEF EntryHolds
  <2> QED
    BY <2>2, <2>3
<1>9. ASSUME NEW r \in Shown PROVE ShownHolds(req[r])'
  <2>1. ShownHolds(req[r]) /\ req[r].now \in Nat
    BY DEF SessionInv, SessionTypes, ShownStates
  <2>2. \A u \in Tokens : revoked'[u] # None => revoked'[u] = revoked[u] \/ revoked'[u] = now
    BY <1>4
  <2> QED
    BY <1>3, <1>4, <1>6, <2>1, <2>2, DrawnOnes DEF ShownHolds
<1>10. ASSUME NEW c \in Clis PROVE CliHolds(cli[c])'
  <2>1. CASE cli'[c] = y
    BY <2>1 DEF CliHolds
  <2>2. CASE cli'[c] = cli[c]
    <3>1. CliHolds(cli[c])
      BY DEF SessionInv
    <3> QED
      BY <1>3, <1>6, <2>2, <3>1 DEF CliHolds
  <2> QED
    BY <2>1, <2>2
<1>11. \A e \in Buys : BuyHolds(exch[e])'
  BY DEF SessionInv, BuyHolds
<1> QED
  BY <1>5, <1>6, <1>7, <1>8, <1>9, <1>10, <1>11 DEF SessionInv

(* Only the command line c and the file change. *)
LEMMA SessionCli ==
  ASSUME Session!ConstantsOK, SessionInv, NEW c \in Clis, NEW y \in CliStates,
         cli' = [cli EXCEPT ![c] = y], CliHolds(y)', file' \in Tokens \cup {None},
         (file # None => Drawn(file))', file' = file \/ \A d \in Clis : d = c,
         UNCHANGED <<now, callers, nonces, exch, cache, bearers, req, revoked>>
  PROVE  SessionInv'
<1>1. /\ cli' \in [Clis -> CliStates] /\ cli'[c] = y
      /\ \A d \in Clis : d # c => cli'[d] = cli[d]
  BY CliIs
<1>2. SessionTypes' /\ BoughtOnce'
  BY <1>1 DEF SessionInv, SessionTypes, BoughtOnce
<1>3. ASSUME NEW d \in Clis PROVE CliHolds(cli[d])'
  <2>1. CASE d = c
    BY <1>1, <2>1 DEF CliHolds
  <2>2. CASE d # c
    BY <1>1, <2>2 DEF SessionInv, CliHolds, Drawn
  <2> QED
    BY <2>1, <2>2
<1>4. /\ \A t \in Tokens : RowHolds(t)'
      /\ \A i \in Servers, t \in Tokens : EntryHolds(i, t)'
      /\ \A e \in Buys : BuyHolds(exch[e])'
      /\ \A r \in Shown : ShownHolds(req[r])'
  BY DEF SessionInv, RowHolds, EntryHolds, BuyHolds, ShownHolds, Drawn
<1> QED
  BY <1>2, <1>3, <1>4 DEF SessionInv


LEMMA SessionClis ==
  ASSUME Session!ConstantsOK, Alone, SessionInv, NEW c \in Clis,
         \/ Session!Save(c) \/ Session!LogOut(c) \/ Session!RevokeOnServer(c) \/ Session!Remove(c)
  PROVE  SessionInv'
<1>1. /\ cli[c] \in CliStates /\ CliHolds(cli[c]) /\ cli \in [Clis -> CliStates]
      /\ file \in Tokens \cup {None} /\ (file # None => Drawn(file)) /\ \A d \in Clis : d = c
  BY DEF SessionInv, SessionTypes, Alone
<1>2. Session!NoCli \in CliStates /\ CliHolds(Session!NoCli)'
  BY DEF Session!NoCli, CliStates, CliHolds
<1>3. CASE Session!Save(c)
  <2>1. /\ file' = cli[c].token /\ cli' = [cli EXCEPT ![c] = Session!NoCli]
        /\ cli[c].token \in Tokens /\ Drawn(cli[c].token)
        /\ UNCHANGED <<now, callers, nonces, exch, cache, bearers, req, revoked>>
    BY <1>1, <1>3 DEF Session!Save, CliHolds
  <2>2. (file # None => Drawn(file))'
    BY <2>1 DEF Drawn
  <2> QED
    BY <1>1, <1>2, <2>1, <2>2, SessionCli
<1>4. CASE Session!Remove(c)
  <2>1. /\ file' \in {None, file} /\ cli' = [cli EXCEPT ![c] = Session!NoCli]
        /\ UNCHANGED <<now, callers, nonces, exch, cache, bearers, req, revoked>>
    BY <1>4 DEF Session!Remove
  <2>2. (file # None => Drawn(file))'
    BY <1>1, <2>1 DEF Drawn
  <2> QED
    BY <1>1, <1>2, <2>1, <2>2, SessionCli
<1>5. CASE Session!LogOut(c)
  <2>1. PICK pc \in {"revoking", "removing"} :
          cli' = [cli EXCEPT ![c] = [pc |-> pc, token |-> file, ok |-> FALSE]]
    BY <1>5 DEF Session!LogOut
  <2>2. file # None /\ UNCHANGED <<now, callers, nonces, exch, cache, bearers, req, file, revoked>>
    BY <1>5 DEF Session!LogOut
  <2>3. [pc |-> pc, token |-> file, ok |-> FALSE] \in CliStates
    BY <1>1 DEF CliStates
  <2>4. CliHolds([pc |-> pc, token |-> file, ok |-> FALSE])'
    BY <1>1, <2>2 DEF CliHolds, Drawn
  <2>5. (file # None => Drawn(file))'
    BY <1>1, <2>2 DEF Drawn
  <2>6. PICK y : y = [pc |-> pc, token |-> file, ok |-> FALSE]
    OBVIOUS
  <2>7. CliHolds(y)'
    BY <1>1, <2>2, <2>6 DEF CliHolds, Drawn
  <2> QED
    BY <1>1, <2>1, <2>2, <2>3, <2>5, <2>6, <2>7, SessionCli
<1>6. CASE Session!RevokeOnServer(c)
  <2>1. /\ cli[c].pc = "revoking" /\ cli[c].token \in Tokens /\ Drawn(cli[c].token)
        /\ cli[c].token = file /\ UNCHANGED <<now, nonces, exch, cache, bearers, req, file>>
    BY <1>1, <1>6 DEF Session!RevokeOnServer, CliHolds
  <2>2. ASSUME NEW ok \in BOOLEAN, Session!MarkRevoked(cli[c].token),
               cli' = [cli EXCEPT ![c] = [cli[c] EXCEPT !.pc = "removing", !.ok = ok]]
        PROVE  SessionInv'
    <3> DEFINE y == [cli[c] EXCEPT !.pc = "removing", !.ok = ok]
    <3>1. y \in CliStates /\ y.pc = "removing" /\ y.token = cli[c].token
      BY <1>1 DEF CliStates
    <3>2. /\ cli' \in [Clis -> CliStates] /\ cli'[c] = y
          /\ \A d \in Clis : d # c => cli'[d] = cli[d]
      BY <2>2, <3>1, CliIs
    <3>3. callers'[cli[c].token].revoked /\ callers'[cli[c].token].aud = callers[cli[c].token].aud
      <4>1. callers \in [Tokens -> BearerRows] /\ callers[cli[c].token] \in BearerRows
        BY <2>1 DEF SessionInv, SessionTypes
      <4> QED
        BY <2>1, <2>2, <4>1 DEF Session!MarkRevoked, BearerRows
    <3> HIDE DEF y
    <3>4. PICK z : z = y
      OBVIOUS
    <3>5. CliHolds(z)'
      BY <2>1, <3>1, <3>3, <3>4 DEF CliHolds, Drawn
    <3>6. \A d \in Clis : cli'[d] = cli[d] \/ cli'[d] = z
      BY <3>2, <3>4
    <3>7. UNCHANGED bearers
      BY <2>1
    <3> QED
      BY <2>1, <2>2, <3>2, <3>5, <3>6, Revoking
  <2>3. ASSUME UNCHANGED <<callers, revoked>>,
               cli' = [cli EXCEPT ![c] = [cli[c] EXCEPT !.pc = "removing"]]
        PROVE  SessionInv'
    <3> DEFINE y == [cli[c] EXCEPT !.pc = "removing"]
    <3>1. y \in CliStates /\ y.pc = "removing" /\ y.token = cli[c].token /\ y.ok = cli[c].ok
      BY <1>1 DEF CliStates
    <3>2. PICK z \in CliStates : z = y
      BY <3>1
    <3>3. cli[c].ok = FALSE
      BY <1>1, <2>1 DEF CliHolds
    <3>4. CliHolds(z)'
      BY <2>1, <2>3, <3>1, <3>2, <3>3 DEF CliHolds, Drawn
    <3>5. (file # None => Drawn(file))'
      BY <1>1, <2>1, <2>3 DEF Drawn
    <3> QED
      BY <1>1, <2>1, <2>3, <3>2, <3>4, <3>5, SessionCli
  <2> QED
    BY <1>6, <2>2, <2>3 DEF Session!RevokeOnServer
<1> QED
  BY <1>3, <1>4, <1>5, <1>6

LEMMA SessionRevoke ==
  ASSUME Session!ConstantsOK, SessionInv, NEW t \in Tokens, Session!Revoke(t)
  PROVE  SessionInv'
<1>1. /\ Drawn(t) /\ Session!MarkRevoked(t)
      /\ UNCHANGED <<now, nonces, exch, cache, bearers, req, cli, file>>
  BY DrawnOnes DEF Session!Revoke, Session!Minted
<1>2. PICK y : y = Session!NoCli
  OBVIOUS
<1>3. CliHolds(y)'
  BY <1>2 DEF CliHolds, Session!NoCli
<1> QED
  BY <1>1, <1>3, Revoking DEF SessionInv, SessionTypes

LEMMA SessionVerify ==
  ASSUME Session!ConstantsOK, SessionInv, NEW e \in Buys, Session!Verify(e)
  PROVE  SessionInv'
<1>1. PICK m \in Messages, a \in Session!Audiences :
        /\ Session!Acceptable(m)
        /\ exch' = [exch EXCEPT ![e] = [pc |-> "verified", msg |-> m, aud |-> a,
                                        ttl |-> Session!Least(MaxTtl, Expiry[m] - now)]]
  BY DEF Session!Verify
<1>2. UNCHANGED <<now, callers, nonces, cache, bearers, req, cli, file, revoked>>
  BY DEF Session!Verify
<1>3. now < Expiry[m] /\ now \in Nat /\ Expiry[m] \in Nat /\ MaxTtl \in Nat
  BY <1>1, DrawnOnes DEF Session!Acceptable, Session!ConstantsOK
<1>4. Session!Least(MaxTtl, Expiry[m] - now) \in Nat /\ Session!Least(MaxTtl, Expiry[m] - now) <= Expiry[m] - now
  BY <1>3 DEF Session!Least
<1>5. PICK x : x = [pc |-> "verified", msg |-> m, aud |-> a,
                    ttl |-> Session!Least(MaxTtl, Expiry[m] - now)]
  OBVIOUS
<1>6. x \in BuyStates /\ x.msg = m /\ x.aud = a /\ x.ttl <= Expiry[m] - now
  BY <1>4, <1>5 DEF BuyStates
<1>7. a # None
  BY DEF Session!ConstantsOK, Session!Audiences
<1>8. /\ exch' \in [Buys -> BuyStates] /\ exch'[e] = x
      /\ \A f \in Buys : f # e => exch'[f] = exch[f]
  BY <1>1, <1>5, <1>6 DEF SessionInv, SessionTypes
<1>9. ASSUME NEW f \in Buys PROVE BuyHolds(exch[f])'
  BY <1>2, <1>3, <1>6, <1>7, <1>8 DEF SessionInv, BuyHolds
<1>10. SessionTypes' /\ BoughtOnce' /\ (file # None => Drawn(file))'
  BY <1>2, <1>8 DEF SessionInv, SessionTypes, BoughtOnce, Drawn
<1>11. /\ \A t \in Tokens : RowHolds(t)'
       /\ \A i \in Servers, t \in Tokens : EntryHolds(i, t)'
       /\ \A r \in Shown : ShownHolds(req[r])'
       /\ \A c \in Clis : CliHolds(cli[c])'
  BY <1>2 DEF SessionInv, RowHolds, EntryHolds, CliHolds, ShownHolds, Drawn
<1> QED
  BY <1>9, <1>10, <1>11 DEF SessionInv

LEMMA SessionSweeps ==
  ASSUME Session!ConstantsOK, SessionInv,
         Session!SweepNonces \/ \E i \in Servers : Session!SweepBearers(i)
  PROVE  SessionInv'
<1>1. UNCHANGED <<now, callers, exch, cache, req, cli, file, revoked>>
  BY DEF Session!SweepNonces, Session!SweepBearers
<1>2. /\ nonces' \subseteq nonces /\ bearers' \in [Servers -> SUBSET Messages]
      /\ \A m \in nonces : m \in nonces' \/ Expiry[m] <= now
  <2>1. \A m \in Messages : Expiry[m] \in Nat
    BY DEF Session!ConstantsOK
  <2>2. now \in Nat /\ nonces \subseteq Messages /\ bearers \in [Servers -> SUBSET Messages]
    BY DEF SessionInv, SessionTypes
  <2>3. CASE Session!SweepNonces
    BY <2>1, <2>2, <2>3 DEF Session!SweepNonces
  <2>4. CASE \E i \in Servers : Session!SweepBearers(i)
    BY <2>2, <2>4 DEF Session!SweepBearers
  <2> QED
    BY <2>3, <2>4
<1>3. SessionTypes' /\ BoughtOnce' /\ (file # None => Drawn(file))'
  BY <1>1, <1>2 DEF SessionInv, SessionTypes, BoughtOnce, Drawn
<1>4. \A t \in Tokens : RowHolds(t)'
  BY <1>1, <1>2 DEF SessionInv, RowHolds, Drawn
<1>5. /\ \A i \in Servers, t \in Tokens : EntryHolds(i, t)'
      /\ \A e \in Buys : BuyHolds(exch[e])'
      /\ \A r \in Shown : ShownHolds(req[r])'
      /\ \A c \in Clis : CliHolds(cli[c])'
  BY <1>1 DEF SessionInv, EntryHolds, BuyHolds, CliHolds, ShownHolds, Drawn
<1> QED
  BY <1>3, <1>4, <1>5 DEF SessionInv

LEMMA SessionTick ==
  ASSUME Session!ConstantsOK, Alone, SessionInv, Session!Tick
  PROVE  SessionInv'
<1>1. /\ now' = now + 1 /\ \A e \in Buys : exch[e].pc = "idle"
      /\ UNCHANGED <<callers, nonces, exch, cache, bearers, req, cli, file, revoked>>
  BY DEF Session!Tick, Alone
<1>2. now \in Nat /\ now' \in Nat /\ CacheTtl \in Nat /\ \A m \in Messages : Expiry[m] \in Nat
  BY <1>1, DrawnOnes DEF Session!ConstantsOK
<1>3. SessionTypes' /\ BoughtOnce' /\ (file # None => Drawn(file))'
  BY <1>1, <1>2 DEF SessionInv, SessionTypes, BoughtOnce, Drawn
<1>4. ASSUME NEW t \in Tokens PROVE RowHolds(t)'
  <2>1. RowHolds(t) /\ callers[t].from \in Messages \cup {None} /\ revoked[t] \in Nat \cup {None}
    BY DrawnOnes DEF SessionInv, SessionTypes, BearerRows
  <2>2. revoked[t] # None => revoked[t] <= now'
    BY <1>1, <1>2, <2>1 DEF RowHolds
  <2>3. callers[t].from # None => callers[t].from \in nonces \/ Expiry[callers[t].from] <= now'
    BY <1>1, <1>2, <2>1 DEF RowHolds
  <2> QED
    BY <1>1, <2>1, <2>2, <2>3 DEF RowHolds, Drawn
<1>5. ASSUME NEW i \in Servers, NEW t \in Tokens PROVE EntryHolds(i, t)'
  <2>1. EntryHolds(i, t) /\ cache[i][t].exp \in Nat
    BY DrawnOnes DEF SessionInv
  <2> QED
    BY <1>1, <1>2, <2>1 DEF EntryHolds
<1>6. \A e \in Buys : BuyHolds(exch[e])'
  BY <1>1 DEF BuyHolds
<1>7. ASSUME NEW r \in Shown PROVE ShownHolds(req[r])'
  <2>1. ShownHolds(req[r]) /\ req[r].now \in Nat
    BY DEF SessionInv, SessionTypes, ShownStates
  <2>2. req[r].now <= now'
    BY <1>1, <1>2, <2>1 DEF ShownHolds
  <2> QED
    BY <1>1, <2>1, <2>2 DEF ShownHolds, Drawn
<1>8. \A c \in Clis : CliHolds(cli[c])'
  BY <1>1 DEF SessionInv, CliHolds, Drawn
<1> QED
  BY <1>3, <1>4, <1>5, <1>6, <1>7, <1>8 DEF SessionInv

LEMMA SessionNext ==
  ASSUME Session!ConstantsOK, Alone, SessionInv, [Session!Next]_(Session!vars)
  PROVE  SessionInv'
<1>1. CASE UNCHANGED Session!vars
  BY <1>1 DEF Session!vars, SessionInv, SessionTypes, BoughtOnce, RowHolds, EntryHolds, BuyHolds, CliHolds,
     ShownHolds, Drawn
<1>2. CASE \E e \in Buys : Session!Verify(e) \/ Session!Exchange(e)
  BY <1>2, SessionVerify, SessionExchange
<1>3. CASE \E r \in Shown : Session!Present(r) \/ Session!Lookup(r) \/ Session!Store(r)
                            \/ Session!PresentMessage(r) \/ Session!Recover(r) \/ Session!Serve(r)
  BY <1>3, SessionPresent, SessionServes, SessionStores
<1>4. CASE (\E t \in Tokens : Session!Revoke(t)) \/ (\E c \in Clis : Session!LogIn(c))
  BY <1>4, SessionRevoke, SessionLogIn
<1>5. CASE \E c \in Clis : Session!Save(c) \/ Session!LogOut(c) \/ Session!RevokeOnServer(c)
                           \/ Session!Remove(c)
  BY <1>5, SessionClis
<1>6. CASE Session!SweepNonces \/ (\E i \in Servers : Session!SweepBearers(i)) \/ Session!Tick
  BY <1>6, SessionSweeps, SessionTick
<1> QED
  BY <1>1, <1>2, <1>3, <1>4, <1>5, <1>6 DEF Session!Next

(* What rows, nonces, caches, requests and the file have in common holds, as    *)
(* long as no exchange is slow and one command line uses the file.             *)
THEOREM SessionInvariant == Session!ConstantsOK /\ Alone /\ Session!Spec => []SessionInv
<1> DEFINE Inv == SessionInv /\ Session!ConstantsOK /\ Alone
<1>1. Session!ConstantsOK /\ Alone /\ Session!Init => Inv
  BY SessionInit
<1>2. Inv /\ [Session!Next]_(Session!vars) => Inv'
  BY SessionNext DEF Session!ConstantsOK, Alone
<1> QED
  BY <1>1, <1>2, PTL DEF Session!Spec

(* A signed message buys one token, which ends with it, and nothing else spends *)
(* it; no request is served long after its bearer was revoked, or past its      *)
(* expiry; an acknowledged logout removes only what was revoked                 *)
(* (caller-token.ts, siwe-exchange.ts, siwe-bearer.ts, logout.ts).              *)
THEOREM SessionsEndInTime == Session!ConstantsOK /\ Alone /\ Session!Spec => SessionsEnd
<1> DEFINE Inv == SessionInv /\ Session!ConstantsOK /\ Alone
           Good == /\ Session!FailureBurnsNothing /\ Session!OneTokenPerMessage
                   /\ Session!TokenEndsWithMessage /\ Session!RevokedSoon /\ Session!ServedInTime
<1>1. Session!ConstantsOK /\ Alone /\ Session!Init => Inv
  BY SessionInit
<1>2. Inv /\ [Session!Next]_(Session!vars) => Inv'
  BY SessionNext DEF Session!ConstantsOK, Alone
<1>3. Inv => Good
  <2> SUFFICES ASSUME Session!ConstantsOK, SessionInv PROVE Good
    OBVIOUS
  <2>1. Session!FailureBurnsNothing
    <3> SUFFICES ASSUME NEW m \in nonces PROVE \E t \in Session!Minted : callers[t].from = m
      BY DEF Session!FailureBurnsNothing
    <3>1. PICK t \in Tokens : callers[t].from = m
      BY DEF SessionInv, BoughtOnce
    <3>2. m # None
      BY DEF SessionInv, SessionTypes, Session!ConstantsOK
    <3> QED
      BY <3>1, <3>2 DEF Session!Minted, Session!NoRow
  <2>2. Session!OneTokenPerMessage
    BY DEF SessionInv, BoughtOnce, Session!OneTokenPerMessage, Session!Minted
  <2>3. Session!TokenEndsWithMessage
    BY DEF SessionInv, RowHolds, Session!TokenEndsWithMessage, Session!Minted
  <2>4. Session!RevokedSoon
    BY DEF SessionInv, ShownHolds, Session!RevokedSoon, Session!Accepted
  <2>5. Session!ServedInTime
    BY DEF SessionInv, ShownHolds, Session!ServedInTime
  <2> QED
    BY <2>1, <2>2, <2>3, <2>4, <2>5
<1>4. Inv /\ [Session!Next]_(Session!vars) =>
        [\A c \in Clis : cli[c].pc = "removing" /\ cli[c].ok /\ file # None /\ file' = None
           => callers[file].revoked]_(Session!vars)
  BY DEF SessionInv, CliHolds
<1> HIDE DEF Inv, Good
<1>5. Session!ConstantsOK /\ Alone /\ Session!Spec => []Good
  BY <1>1, <1>2, <1>3, PTL DEF Session!Spec
<1>6. Session!ConstantsOK /\ Alone /\ Session!Spec => Session!RemovedIsRevoked
  BY <1>1, <1>2, <1>4, PTL DEF Session!Spec, Session!RemovedIsRevoked
<1> QED
  BY <1>5, <1>6, PTL DEF SessionsEnd, Good
===============================================================================
