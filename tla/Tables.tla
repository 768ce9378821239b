--------------------------------- MODULE Tables ---------------------------------
(* The records of the database beside the grants and tokens of token          *)
(* exchange, one module for each kind; their constants here are the largest   *)
(* that a check or a proof is about.                                          *)

CONSTANTS
  Codes, Browsers, Polls, Instances, People, Plans, Hasty,              \* DeviceFlow
  Messages, Issued, Expiry, Tokens, Servers, Buys, Shown, Clis,         \* SessionTokens
  CacheTtl, CacheMax, MaxTtl, TokenTtl, Skew, SlowExchanges, MaxTime,
  Keys, Others, AdminCalls, MaxHellos,                                  \* CallerPolicy
  Owners, Emails, Transfers, Deletions, MaxClients, MaxDirect, Legacy,  \* AgentTransfer
  Users, Agents, Admin, Contexts, MaxTasks, Cap, Calls, MaxIdle,        \* TaskStore
  None

VARIABLES
  client, session, gone, browser, poll, recent, tokens, approvals,      \* DeviceFlow
  now, callers, nonces, exch, cache, bearers, req, cli, file, revoked,  \* SessionTokens
  allow, key, copy, looked, admin, refreshes, hellos, faults,           \* CallerPolicy
  agent, clients, owners, known, lock, transfer, stale, delete, direct, used,  \* AgentTransfer
  conn, hello, running, told,
  row, call, victims, drawn, idle, may                                  \* TaskStore

Device == INSTANCE DeviceFlow WITH Nobody <- None, lapsed <- gone
Session == INSTANCE SessionTokens WITH Instances <- Servers, Exchanges <- Buys, Requests <- Shown
Policies == INSTANCE CallerPolicy WITH
  Calls <- AdminCalls, row <- allow, token <- key, call <- admin, may <- faults
Owning == INSTANCE AgentTransfer WITH Deletes <- Deletions, policy <- owners
Store == INSTANCE TaskStore WITH Principals <- Users

(* However codes, sign-ins and polls race: what polling yields belongs to     *)
(* who approved that code; a client that makes one call at a time polls one   *)
(* token, and a name that is asked for twice is registered once; and a code   *)
(* that has yielded a token or lapsed lets no sign-in and no poll through.    *)
LoginsAreOwn ==
  /\ [](Device!TokenIsApprovers /\ Device!OneTokenPerPoller /\ Device!OneClientPerName)
  /\ Device!SpentLetsNobodyThrough

(* A signed message buys one token, which does not outlive it, and is spent   *)
(* by nothing else; what is served was good when it came, and not long after  *)
(* it was revoked, for all the caches; and a logout that was acknowledged     *)
(* removes only a session that is revoked.                                    *)
SessionsEnd ==
  /\ [](/\ Session!FailureBurnsNothing /\ Session!OneTokenPerMessage /\ Session!TokenEndsWithMessage
        /\ Session!RevokedSoon /\ Session!ServedInTime)
  /\ Session!RemovedIsRevoked

(* Where nothing fails an instance ends up with the list of the row, and a    *)
(* removed key is dead; while the server keeps running a failed mint leaves   *)
(* no key on the list; and no stranger ever mints one.                        *)
KeysFollowPolicy == Policies!KeysFollowPolicy

(* A transfer goes through as previewed or not at all, the rows that say who  *)
(* owns a registration agree, and only its owner of that moment deletes it.   *)
OwnershipMovesAsShown ==
  []Owning!RowsAgree /\ Owning!NoStaleTransfer /\ Owning!GoesToTheOwnerShown /\ Owning!OnlyOwnerDeletes

(* Nobody is shown another's messages, a task keeps its owner, and retention  *)
(* deletes neither one of the newest nor, in a caller who does not send to    *)
(* what has ended, one that runs, and leaves no more than the cap.            *)
TasksStayOwn == Store!TasksStayOwn
===============================================================================
