---------------------------- MODULE FederatedAccess ----------------------------
(***************************************************************************)
(* Federated access to one agent: assertions are exchanged for tokens      *)
(* under a grant of the agent's policy, tokens admit requests, requests    *)
(* create and use tasks, and the owner removes grants and adds them again. *)
(*                                                                         *)
(* Code, in packages/server: src/oauth/token-exchange, the Mentionable     *)
(* profile in src/oauth/profiles, src/agent-auth.ts, the agent routes of   *)
(* src/http.tsx, src/admin-api.ts, and the function                        *)
(* revoke_federated_caller_authorization in schema.sql.  The verifier of   *)
(* assertions (connector-kit), the DID documents and the clock are         *)
(* external.  An agent with no caller in its policy is public.             *)
(***************************************************************************)
EXTENDS Naturals, FiniteSets

CONSTANTS
  Grants,       \* (issuer, method, subject) tuples, all of one issuer
  SubjectOf,    \* the subject of a grant
  Direct,       \* ordinary callers
  Public,       \* owner of a task without a caller
  Clients,      \* client assertions
  Subjects,     \* subject assertions
  Claim,        \* what a subject assertion says: a grant, or a subject and a task
  Exchanges,
  Requests,
  TaskIds,
  ScopeSets,    \* the scopes a token may have
  Mortal,       \* bound: the assertions that may lapse
  MaxRemovals,  \* bound: removals of a grant
  SlowExchange, \* a lapsed assertion may be swept while an exchange runs
  Nothing

Assertions == Clients \cup Subjects

ASSUME ConstantsOK ==
  /\ MaxRemovals \in Nat /\ SlowExchange \in BOOLEAN /\ Mortal \subseteq Assertions
  /\ ScopeSets \subseteq SUBSET {"message", "task"}
  /\ Direct \cap Grants = {} /\ Public \notin Grants \cup Direct
  /\ Nothing \notin Grants \cup Direct /\ Exchanges \cap (Direct \cup {Nothing}) = {}
  /\ Nothing \notin [owner : Grants \cup Direct \cup {Public}, revoked : BOOLEAN,
                    under : Nat, since : Nat]
  /\ \A s \in Subjects : /\ Claim[s].grant \in Grants \cup {Nothing}
                        /\ Claim[s].task \in TaskIds \cup {Nothing}

VARIABLES
  policy,       \* agents.allowed_callers
  removals,     \* how often a grant has been removed
  cached,       \* conn.allowedCallers on the instance that serves the requests
  lapsed,       \* external: assertions past their lifetime and skew
  replays,      \* oauth_token_exchange_replays
  exchange,     \* where a token request is
  token,        \* row of an exchange's access token
  task,         \* rows of a2a_tasks
  request       \* where an A2A request is

vars == <<policy, removals, cached, lapsed, replays, exchange, token, task, request>>

Policy == <<policy, removals, cached>>
Exchanging == <<lapsed, replays, exchange>>

Callers == Grants \cup Direct
Kinds == {"new", "send", "operate"}

NoExchange == [pc |-> "new", client |-> Nothing, subject |-> Nothing, seen |-> {},
               key |-> Nothing, bound |-> Nothing, refreshed |-> FALSE]
NoRequest == [pc |-> "none", shown |-> Nothing, by |-> Nothing, bound |-> Nothing,
              scopes |-> {}, kind |-> "new", task |-> Nothing, at |-> 0]

Running == {"read", "matched", "checked"}
Consumed == {"consumed", "issued", "refused"}

(* Tokens are issued to exchanges that consumed their assertions, and only a  *)
(* grant's removal stamps a task.                                             *)
TypeOK ==
  /\ policy \subseteq Callers /\ cached \subseteq Callers
  /\ removals \in [Grants -> 0..MaxRemovals]
  /\ lapsed \subseteq Assertions /\ replays \subseteq Assertions
  /\ \A x \in Exchanges :
       /\ exchange[x].pc \in {"new", "failed"} \cup Running \cup Consumed
       /\ exchange[x].pc \in Consumed => exchange[x].key \in Grants
       /\ token[x] # Nothing => exchange[x].pc = "issued" /\ token[x].key = exchange[x].key
  /\ \A t \in TaskIds : task[t] # Nothing =>
       task[t].owner \in Callers \cup {Public} /\ (task[t].revoked => task[t].owner \in Grants)
  /\ \A r \in Requests : request[r].pc \in {"none", "admitted", "loaded", "allowed"}

Init ==
  /\ policy \in {Direct, Grants} /\ removals = [g \in Grants |-> 0] /\ cached = policy
  /\ lapsed = {} /\ replays = {}
  /\ exchange = [x \in Exchanges |-> NoExchange] /\ token = [x \in Exchanges |-> Nothing]
  /\ task = [t \in TaskIds |-> Nothing] /\ request = [r \in Requests |-> NoRequest]

---------------------------------------------------------------------------
(* The token endpoint.                                                        *)

Fail(x) == exchange' = [exchange EXCEPT ![x] = [NoExchange EXCEPT !.pc = "failed"]]

(* The policy is read once; the assertions are judged by the time it is now.  *)
Begin(x) ==
  /\ exchange[x].pc = "new"
  /\ \E c \in Clients \ lapsed, s \in Subjects \ lapsed :
       exchange' = [exchange EXCEPT ![x] =
         [NoExchange EXCEPT !.pc = "read", !.client = c, !.subject = s, !.seen = policy]]
  /\ UNCHANGED <<Policy, lapsed, replays, token, task, request>>

(* The grant under which a continuation may go on: that of its task.          *)
Continues(claim, seen) ==
  LET row == task[claim.task]
  IN row # Nothing /\ ~row.revoked /\ row.owner \in Grants \cap seen
     /\ SubjectOf[row.owner] = claim.subject

(* authorizeCandidateBeforeFetch                                              *)
Match(x) ==
  LET e == exchange[x]
      claim == Claim[e.subject]
      match(key) == exchange' = [exchange EXCEPT ![x].pc = "matched", ![x].key = key,
                                                 ![x].bound = claim.task]
  IN /\ e.pc = "read"
     /\ IF claim.task = Nothing
        THEN IF claim.grant \in e.seen THEN match(claim.grant) ELSE Fail(x)
        ELSE IF Continues(claim, e.seen) THEN match(task[claim.task].owner) ELSE Fail(x)
     /\ UNCHANGED <<Policy, lapsed, replays, token, task, request>>

(* The DID document decides; with a key it does not know, it is fetched anew  *)
(* and everything is verified once more.                                      *)
Verify(x) ==
  /\ exchange[x].pc = "matched"
  /\ \/ exchange' = [exchange EXCEPT ![x].pc = "checked"]
     \/ ~exchange[x].refreshed
        /\ exchange' = [exchange EXCEPT ![x].pc = "read", ![x].refreshed = TRUE,
                                        ![x].key = Nothing, ![x].bound = Nothing]
  /\ UNCHANGED <<Policy, lapsed, replays, token, task, request>>

(* A store, a resolution or a verification fails.                             *)
Error(x) ==
  /\ exchange[x].pc \in Running /\ Fail(x)
  /\ UNCHANGED <<Policy, lapsed, replays, token, task, request>>

Passes(x) ==
  exchange' = [exchange EXCEPT ![x].pc = "consumed", ![x].seen = {}, ![x].refreshed = FALSE]

(* With a bug: it is enough that one of the two is fresh.                     *)
ConsumeEither(x) ==
  LET used == {exchange[x].client, exchange[x].subject}
  IN /\ exchange[x].pc = "checked"
     /\ IF used \subseteq replays THEN Fail(x) /\ UNCHANGED replays
        ELSE replays' = replays \cup used
             /\ Passes(x)
     /\ UNCHANGED <<Policy, lapsed, token, task, request>>

(* Both assertions are used up in one transaction, or neither is.             *)
Consume(x) ==
  LET used == {exchange[x].client, exchange[x].subject}
  IN /\ exchange[x].pc = "checked"
     /\ IF used \cap replays # {} THEN Fail(x) /\ UNCHANGED replays
        ELSE replays' = replays \cup used
             /\ Passes(x)
     /\ UNCHANGED <<Policy, lapsed, token, task, request>>

NewToken(x, scopes) ==
  [status |-> "live", key |-> exchange[x].key, bound |-> exchange[x].bound,
   scopes |-> scopes, at |-> removals[exchange[x].key]]

(* The insert shares the lock of the policy row, and finds the grant in it.   *)
Issue(x) ==
  /\ exchange[x].pc = "consumed"
  /\ IF exchange[x].key \in policy
     THEN /\ exchange' = [exchange EXCEPT ![x].pc = "issued"]
          /\ \E scopes \in ScopeSets :
               token' = [token EXCEPT ![x] = NewToken(x, scopes)]
     ELSE exchange' = [exchange EXCEPT ![x].pc = "refused"] /\ UNCHANGED token
  /\ UNCHANGED <<Policy, lapsed, replays, task, request>>

Lapse(a) ==
  /\ a \in Mortal \ lapsed /\ lapsed' = lapsed \cup {a}
  /\ UNCHANGED <<Policy, replays, exchange, token, task, request>>

InUse(a) ==
  \E x \in Exchanges : exchange[x].pc \in Running /\ a \in {exchange[x].client, exchange[x].subject}

(* sweepExpiredTokenExchangeState: what was used up is kept until it lapses.  *)
SweepReplay(a) ==
  /\ a \in replays \cap lapsed /\ (SlowExchange \/ ~InUse(a))
  /\ replays' = replays \ {a}
  /\ UNCHANGED <<Policy, lapsed, exchange, token, task, request>>

---------------------------------------------------------------------------
(* The life of a token.                                                       *)

(* It expires, or its holder revokes it.                                      *)
End(x) ==
  /\ token[x] # Nothing /\ token[x].status = "live"
  /\ token' = [token EXCEPT ![x].status = "over"]
  /\ UNCHANGED <<Policy, Exchanging, task, request>>

SweepToken(x) ==
  /\ token[x] # Nothing /\ token[x].status # "live" /\ token' = [token EXCEPT ![x] = Nothing]
  /\ UNCHANGED <<Policy, Exchanging, task, request>>

---------------------------------------------------------------------------
(* The owner.  The serving instance's copy follows at once or later.          *)

Cached == cached' \in {cached, policy'}

Add(c) ==
  /\ c \notin policy /\ policy' = policy \cup {c} /\ Cached
  /\ UNCHANGED <<removals, Exchanging, token, task, request>>

RemoveDirect(c) ==
  /\ c \in policy /\ policy' = policy \ {c} /\ Cached
  /\ UNCHANGED <<removals, Exchanging, token, task, request>>

Revoked(g, x) ==
  IF token[x] # Nothing /\ token[x].key = g THEN [token[x] EXCEPT !.status = "over"]
  ELSE token[x]

Dropped(g) ==
  /\ policy' = policy \ {g} /\ Cached
  /\ removals' = [removals EXCEPT ![g] = IF g \in policy THEN @ + 1 ELSE @]
  /\ g \in policy => removals[g] < MaxRemovals
  /\ UNCHANGED <<Exchanging, request>>

(* With a bug: the tokens end with the grant, its tasks do not.               *)
RemoveTokensOnly(g) ==
  /\ Dropped(g) /\ token' = [x \in Exchanges |-> Revoked(g, x)] /\ UNCHANGED task

(* One transaction under the lock of the policy row.                          *)
Remove(g) ==
  /\ Dropped(g) /\ token' = [x \in Exchanges |-> Revoked(g, x)]
  /\ task' = [t \in TaskIds |->
                IF task[t] # Nothing /\ task[t].owner = g THEN [task[t] EXCEPT !.revoked = TRUE]
                ELSE task[t]]

Refresh ==
  /\ cached # policy /\ cached' = policy
  /\ UNCHANGED <<policy, removals, Exchanging, token, task, request>>

---------------------------------------------------------------------------
(* A request to the agent.                                                    *)

Shows == Exchanges \cup Direct \cup {Nothing}

Admitted(r, shown, by, bound, scopes, at) ==
  \E kind \in Kinds : \E t \in IF kind = "new" THEN {Nothing} ELSE TaskIds :
    request' = [request EXCEPT ![r] =
      [pc |-> "admitted", shown |-> shown, by |-> by, bound |-> bound, scopes |-> scopes,
       kind |-> kind, task |-> t, at |-> at]]

Valid(x) == token[x] # Nothing /\ token[x].status = "live" /\ token[x].key \in policy

(* agentAuthMiddleware.  A federated token is verified against the database   *)
(* whatever the copy of the policy says; others are matched with the copy.    *)
Arrive(r) ==
  /\ request[r].pc = "none"
  /\ \E shown \in Shows :
       \/ /\ shown \notin Exchanges /\ cached = {}
          /\ Admitted(r, shown, Public, Nothing, {}, 0)
       \/ /\ shown \in Direct \cap cached
          /\ Admitted(r, shown, shown, Nothing, {}, 0)
       \/ /\ shown \in Exchanges /\ Valid(shown)
          /\ Admitted(r, shown, token[shown].key, token[shown].bound, token[shown].scopes,
                      removals[token[shown].key])
  /\ UNCHANGED <<Policy, Exchanging, token, task>>

Ends(r) == request' = [request EXCEPT ![r] = NoRequest]

Needed(q) == IF q.kind = "operate" THEN "task" ELSE "message"

(* authorizeTokenExchangeOperation and authorizeMentionableOperation: the     *)
(* task is the caller's, under the same grant, and that was never removed.    *)
Accessible(q, row) == row.owner = q.by /\ ~row.revoked

Inspects(q) ==
  /\ q.by \in Grants => Needed(q) \in q.scopes /\ q.bound \in {Nothing, q.task}

(* A message for a task that is not there starts a new one.                   *)
Inspect(r) ==
  LET q == request[r]
      missing == q.task = Nothing \/ task[q.task] = Nothing
  IN /\ q.pc = "admitted"
     /\ IF ~Inspects(q) \/ (missing /\ q.kind = "operate")
           \/ (~missing /\ ~Accessible(q, task[q.task]))
        THEN Ends(r)
        ELSE request' = [request EXCEPT
               ![r].pc = IF missing \/ q.by \notin Grants THEN "allowed" ELSE "loaded",
               ![r].kind = IF missing THEN "new" ELSE @,
               ![r].task = IF missing THEN Nothing ELSE @]
     /\ UNCHANGED <<Policy, Exchanging, token, task>>

(* isTokenExchangeAuthorizationActive, a query of its own.                    *)
Confirm(r) ==
  /\ request[r].pc = "loaded"
  /\ IF request[r].by \in policy THEN request' = [request EXCEPT ![r].pc = "allowed"]
     ELSE Ends(r)
  /\ UNCHANGED <<Policy, Exchanging, token, task>>

(* prepareAgentRequestBody and createTask: the row carries the verified       *)
(* binding from its first insert.                                             *)
Create(r) ==
  LET q == request[r]
  IN /\ q.pc = "allowed" /\ q.kind = "new"
     /\ \E t \in TaskIds :
          /\ task[t] = Nothing
          /\ task' = [task EXCEPT ![t] =
               [owner |-> q.by, revoked |-> FALSE, under |-> q.at,
                since |-> IF q.by \in Grants THEN removals[q.by] ELSE 0]]
     /\ Ends(r) /\ UNCHANGED <<Policy, Exchanging, token>>

(* The operation is carried out, or the connection is lost.                   *)
Finish(r) ==
  /\ request[r].pc = "allowed" /\ Ends(r)
  /\ UNCHANGED <<Policy, Exchanging, token, task>>

---------------------------------------------------------------------------

Next ==
  \/ \E x \in Exchanges : Begin(x) \/ Match(x) \/ Verify(x) \/ Error(x) \/ Consume(x) \/ Issue(x)
                          \/ End(x) \/ SweepToken(x)
  \/ \E a \in Assertions : Lapse(a) \/ SweepReplay(a)
  \/ \E c \in Callers : Add(c)
  \/ Refresh
  \/ \E c \in Direct : RemoveDirect(c)
  \/ \E g \in Grants : Remove(g)
  \/ \E r \in Requests : Arrive(r) \/ Inspect(r) \/ Confirm(r) \/ Create(r) \/ Finish(r)

Spec == Init /\ [][Next]_vars

---------------------------------------------------------------------------

(* A token that is neither expired nor revoked has a grant in the policy that *)
(* was never removed since: it cannot come back to life when the grant is     *)
(* added again, however the exchange and the removal interleave.              *)
TokensFollowGrants ==
  \A x \in Exchanges : token[x] # Nothing /\ token[x].status = "live" =>
    token[x].key \in policy /\ token[x].at = removals[token[x].key]

(* An assertion serves one exchange (consumeTokenExchangeReplays).            *)
OneExchangeEach ==
  \A x, y \in Exchanges : x # y /\ {exchange[x].pc, exchange[y].pc} \subseteq Consumed =>
    exchange[x].client # exchange[y].client /\ exchange[x].subject # exchange[y].subject

(* An exchange that fails does not use up the assertion that was fresh.       *)
FailureBurnsNothing ==
  replays \subseteq UNION {{exchange[x].client, exchange[x].subject} :
                           x \in {y \in Exchanges : exchange[y].pc \in Consumed}}

(* A request allowed on a task is its owner's, under the very grant the task  *)
(* was made under, and on the task its token is bound to.                     *)
OnlyOwnTasks ==
  \A r \in Requests :
    LET q == request[r]
    IN q.pc = "allowed" /\ q.task # Nothing =>
         task[q.task].owner = q.by /\ q.bound \in {Nothing, q.task}

(* What a token was shown for is done as its holder: a token whose grant was  *)
(* the last of the policy does not turn into a public request.                *)
NeverAnonymous ==
  \A r \in Requests : request[r].shown \in Exchanges => request[r].by \in Grants

(* A task that was there when its grant was removed is closed to everything   *)
(* that arrives later, though the grant be added again.                       *)
RevokedStaysClosed ==
  \A r \in Requests :
    LET q == request[r]
    IN q.pc = "allowed" /\ q.task # Nothing /\ q.by \in Grants => task[q.task].since >= q.at

=============================================================================
