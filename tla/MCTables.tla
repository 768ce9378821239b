------------------------------- MODULE MCTables -------------------------------
(* What the bridge keeps in the database, one kind of record at a time: the   *)
(* grants, assertions and tokens of token exchange, device codes, session     *)
(* tokens, an agent's allowlist and its keys, an agent's owner, and tasks.    *)
(* No two kinds share a row, so a behaviour is about one of them and leaves   *)
(* the others as they began.                                                  *)
EXTENDS FederatedAccess, Tables

VARIABLE about  \* the kind of record, and who acts

deviceVars == <<client, session, gone, browser, poll, recent, tokens, approvals>>
sessionVars == <<now, callers, nonces, exch, cache, bearers, req, cli, file, revoked>>
policyVars == <<allow, key, copy, looked, admin, refreshes, hellos, faults>>
ownerVars == <<agent, clients, owners, known, lock, transfer, stale, delete, direct, used,
               conn, hello, running, told>>
storeVars == <<row, call, victims, drawn, idle, may>>

-----------------------------------------------------------------------------
(* Two grants of one subject, one assertion under each; one grant, removed    *)
(* while two exchanges run; or one grant and an ordinary caller.              *)
MCSubjectOf == [g \in Grants |-> "subject"]
MCScopeSets == {{"message", "task"}, {"task"}}
MCClaim == [s \in Subjects |->
  IF s = "s1" THEN [grant |-> "g1", subject |-> "subject", task |-> Nothing]
  ELSE [grant |-> Nothing, subject |-> "subject", task |-> "t1"]]

MCClaimTwo == [s \in Subjects |->
  [grant |-> IF s = "s1" THEN "g1" ELSE "g2", subject |-> "subject", task |-> Nothing]]

Granted == INSTANCE FederatedAccess WITH Direct <- {}, Clients <- {"c1"}, Claim <- MCClaimTwo, MaxRemovals <- 0
Withdrawn == INSTANCE FederatedAccess WITH
  Direct <- {}, Grants <- {"g1"}, ScopeSets <- {{"message", "task"}}, Mortal <- {}
Ordinary == INSTANCE FederatedAccess WITH Grants <- {"g1"}, Clients <- {"c1"}, Exchanges <- {"x1"}

(* Two codes, two sign-ins, two open polls; each instance has fewer who act.  *)
(* The client of k2 repeats calls that are unanswered.                        *)
MCPlans == {<<"poll", "owner_session">>, <<"poll", "client_register">>, <<"popup", "owner_session">>}

TwoCodes == INSTANCE DeviceFlow WITH
  Browsers <- {"b1"}, Polls <- {"q1"}, Nobody <- None, lapsed <- gone
OneCode == INSTANCE DeviceFlow WITH Codes <- {"k1"}, Hasty <- {}, Nobody <- None, lapsed <- gone
HastyCode == INSTANCE DeviceFlow WITH Codes <- {"k2"}, Nobody <- None, lapsed <- gone

(* Message m1 is good from the start; m2 is issued just within the skew.      *)
MCIssued == [m \in {"m1", "m2"} |-> IF m = "m1" THEN 0 ELSE 1]
MCExpiry == [m \in {"m1", "m2"} |-> IF m = "m1" THEN 2 ELSE 4]

Serving == INSTANCE SessionTokens WITH
  Messages <- {"m2"}, Tokens <- {"t1"}, Clis <- {},
  Instances <- Servers, Exchanges <- {"e1"}, Requests <- Shown
Buying == INSTANCE SessionTokens WITH
  Instances <- {"i1"}, Exchanges <- Buys, Requests <- {}, MaxTime <- 4

(* Three calls of the admin API that meet no fault; two that are repeated,    *)
(* overtaken, or fail to mint; and two of which a statement may fail.         *)
Calm == INSTANCE CallerPolicy WITH
  Keys <- {"k1"}, Calls <- AdminCalls, row <- allow, token <- key, call <- admin, may <- faults
Faulty == INSTANCE CallerPolicy WITH
  Calls <- {"c1", "c2"}, MaxHellos <- 1, row <- allow, token <- key, call <- admin, may <- faults
Stopped == INSTANCE CallerPolicy WITH
  Keys <- {"k1"}, Calls <- {"c1", "c2"}, MaxHellos <- 1,
  row <- allow, token <- key, call <- admin, may <- faults

MCFaults ==
  CASE about = "faulty" -> {Policies!Faults \ {"stop"}, Policies!Faults \ {"stop", "early"}}
    [] about = "stopped" -> {Policies!Faults}
    [] about = "calm" -> {{}, {"early"}}
    [] OTHER -> {{}}

(* Two transfers and direct changes of the owner; or one transfer, a delete   *)
(* and an instance that serves the agent.                                     *)
Handing == INSTANCE AgentTransfer WITH Deletes <- Deletions, Instances <- {}, policy <- owners
Followed == INSTANCE AgentTransfer WITH
  Deletes <- Deletions, Transfers <- {"t1"}, MaxDirect <- 0, policy <- owners

(* Two callers who send to what has ended, and cancel; or one who does not,   *)
(* with two agents.                                                           *)
Shared == INSTANCE TaskStore WITH Principals <- Users, Agents <- {"a1"}, Calls <- {"c1", "c2"}
Kept == INSTANCE TaskStore WITH Principals <- {"p1"}, Calls <- {"c1", "c2"}

ASSUME TablesConstantsOK ==
  /\ Device!ConstantsOK /\ Session!ConstantsOK /\ Policies!ConstantsOK
  /\ Owning!ConstantsOK /\ Store!ConstantsOK

-----------------------------------------------------------------------------
TablesInit ==
  /\ about \in {"granted", "withdrawn", "ordinary", "two codes", "one code", "hasty code", "serving", "buying",
                "calm", "faulty", "stopped", "transfers", "followed", "shared", "kept"}
  /\ faults \in MCFaults /\ may = IF about = "shared" THEN {"reopen", "cancel"} ELSE {}
  /\ Init /\ Device!Init /\ Session!Init /\ Policies!Init /\ Owning!Init /\ Store!Init
  /\ about \notin {"granted", "withdrawn", "ordinary"} => policy = Grants
  /\ agent.owner = "p1"
  /\ about \notin {"transfers", "followed"} => clients[Legacy] = None

Trading ==
  (about = "granted" /\ Granted!Next) \/ (about = "withdrawn" /\ Withdrawn!Next) \/ (about = "ordinary" /\ Ordinary!Next)
LoggingIn ==
  (about = "two codes" /\ TwoCodes!Next) \/ (about = "one code" /\ OneCode!Next) \/ (about = "hasty code" /\ HastyCode!Next)
Signing == (about = "serving" /\ Serving!Next) \/ (about = "buying" /\ Buying!Next)
Allowing ==
  (about = "calm" /\ Calm!Next) \/ (about = "faulty" /\ Faulty!Next) \/ (about = "stopped" /\ Stopped!Next)
Moving == (about = "transfers" /\ Handing!Next) \/ (about = "followed" /\ Followed!Next)
Storing == (about = "shared" /\ Shared!Next) \/ (about = "kept" /\ Kept!Next)

(* Which of its kind begins tells nothing: the first one that has not does.   *)
(* Nor does which principal it is that owns the agent or sends the first task.*)
InOrder ==
  /\ exchange'["x2"].pc # "new" => exchange["x1"].pc # "new"
  /\ admin'["c3"].pc # "idle" => admin["c2"].pc # "idle"
  /\ admin'["c2"].pc # "idle" => admin["c1"].pc # "idle"
  /\ transfer'["t2"].pc # "idle" => transfer["t1"].pc # "idle"
  /\ row'[1] # None => row'[1].owner = "p1"

TablesNext ==
  /\ UNCHANGED about
  /\ \/ Trading /\ UNCHANGED <<deviceVars, sessionVars, policyVars, ownerVars, storeVars>>
     \/ LoggingIn /\ UNCHANGED <<vars, sessionVars, policyVars, ownerVars, storeVars>>
     \/ Signing /\ UNCHANGED <<vars, deviceVars, policyVars, ownerVars, storeVars>>
     \/ Allowing /\ UNCHANGED <<vars, deviceVars, sessionVars, ownerVars, storeVars>>
     \/ Moving /\ UNCHANGED <<vars, deviceVars, sessionVars, policyVars, storeVars>>
     \/ Storing /\ UNCHANGED <<vars, deviceVars, sessionVars, policyVars, ownerVars>>
  /\ InOrder

tableVars == <<about, vars, deviceVars, sessionVars, policyVars, ownerVars, storeVars>>
TablesSpec == TablesInit /\ [][TablesNext]_tableVars

===============================================================================
