------------------------------ MODULE AgentTransfer ------------------------------
(***************************************************************************)
(* The ownership of one agent: its registration, its deletion, its         *)
(* transfer by an administrator after a preview, and the owner that each   *)
(* instance remembers of the agent's connection.                           *)
(*                                                                         *)
(* Code: packages/server/src/agent-transfer.ts, deleteClientForOwner of    *)
(* admin-api.ts, register_client, the row-level security and the revision  *)
(* trigger of schema.sql, the route of http.tsx and `agent transfer' of    *)
(* admin-cli.ts.  An identity is an email address or a principal.          *)
(***************************************************************************)
EXTENDS Naturals

CONSTANTS
  Owners,      \* principals
  Emails,
  Transfers,   \* previews with the transfers that follow them
  Deletes,     \* calls of the delete route
  Instances,   \* those the agent may connect to; a call served by another is at None
  MaxClients,  \* bound: registrations of the agent id
  MaxDirect,   \* bound: changes of the owner by an administrator's SQL or GraphQL
  Legacy,      \* a client row from before the rule of one agent per client
  None

ClientIds == 1..MaxClients \cup {Legacy}

(* The rows of `agents', `clients' and `agent_policies'.                      *)
AgentRows == [owner : Owners, revision : Nat, client : Nat]
ClientRows == [owner : Owners, agents : SUBSET {"agent", "other"}]
PolicyRows == [owner : Owners, client : ClientIds]

ConstantsOK ==
  /\ MaxClients \in Nat \ {0} /\ MaxDirect \in Nat
  /\ Legacy \notin Nat
  /\ None \notin Owners \cup Emails \cup Transfers \cup Instances \cup {Legacy}
  /\ None \notin AgentRows \cup ClientRows \cup PolicyRows
  /\ Owners \cap Emails = {}

VARIABLES
  agent,     \* the row of `agents': its owner, owner_revision and client_id, or None
  clients,   \* rows of `clients' by id: owner and allowed_agent_ids, or None
  policy,    \* the row of `agent_policies': owner and client_id, or None
  known,     \* the `callers' rows: which principals logged in, with which address
  lock,      \* the transfer whose transaction holds the agent's row, or None
  transfer,  \* where a transfer is, and the plan its preview answered
  stale,     \* the transfers whose preview the ownership or registration has outlived
  delete,    \* where a delete is, for whom, and the client it resolved
  direct,    \* direct changes so far
  used,      \* client ids drawn so far
  conn,      \* the connection each instance holds: its client and owner, or None
  hello,     \* what the lookup of a hello read at an instance, or None
  running,   \* the owner read by a refresh under way, of an instance's watch or of
             \* the transfer it served, or None
  told       \* instances with a notification on the way

rows == <<agent, clients, policy>>
sessions == <<conn, hello, running, told>>
vars == <<agent, clients, policy, known, lock, transfer, stale, delete, direct, used, sessions>>

NoPlan == [pc |-> "idle", to |-> None, owner |-> None, was |-> None, revision |-> 0,
           client |-> None, at |-> None]
NoDelete == [pc |-> "idle", by |-> None, client |-> None]

\* A transfer between its read and its commit holds the row, and nobody else does.
TypeOK ==
  /\ agent = None \/ /\ agent.owner \in Owners /\ agent.revision \in 0..(MaxDirect + 2)
                     /\ agent.client \in 1..used
  /\ \A c \in ClientIds : clients[c] = None \/ /\ clients[c].owner \in Owners
                                               /\ clients[c].agents \subseteq {"agent", "other"}
  /\ policy # None => policy.owner \in Owners /\ clients[policy.client] # None
  /\ known \subseteq Owners \X (Emails \cup {None})
  /\ \A t \in Transfers : transfer[t].pc = "locked" <=> lock = t
  /\ lock \in Transfers \cup {None} /\ stale \subseteq Transfers
  /\ \A t \in Transfers : transfer[t].pc \in {"idle", "shown", "locked", "done", "ended"}
  /\ \A d \in Deletes : delete[d].pc \in {"idle", "resolved", "deleted", "answered"}
  /\ direct \in 0..MaxDirect /\ used \in 0..MaxClients /\ told \subseteq Instances
  /\ \A i \in Instances : conn[i] = None \/ conn[i].owner \in Owners

(***************************************************************************)
(* The agent starts registered, with a policy; there may be a legacy row   *)
(* that names it, alone or with another agent.                             *)
(***************************************************************************)
Init ==
  \E p \in Owners, names \in {{}, {"agent"}, {"agent", "other"}} :
    /\ agent = [owner |-> p, revision |-> 0, client |-> 1]
    /\ clients = [c \in ClientIds |->
                    CASE c = 1      -> [owner |-> p, agents |-> {"agent"}]
                      [] c = Legacy /\ names # {} -> [owner |-> p, agents |-> names]
                      [] OTHER      -> None]
    /\ policy = [owner |-> p, client |-> 1]
    /\ known = {} /\ lock = None /\ stale = {} /\ direct = 0 /\ used = 1 /\ told = {}
    /\ transfer = [t \in Transfers |-> NoPlan] /\ delete = [d \in Deletes |-> NoDelete]
    /\ conn = [i \in Instances |-> None] /\ hello = conn
    /\ running = [x \in Instances \cup Transfers |-> None]

Planned == {t \in Transfers : transfer[t].pc \in {"shown", "locked"}}

-----------------------------------------------------------------------------
(* Logins, registrations and direct changes.                               *)

Login(p, e) ==
  /\ <<p, e>> \notin known
  /\ known' = known \cup {<<p, e>>}
  /\ UNCHANGED <<rows, lock, transfer, stale, delete, direct, used, sessions>>

register_client(p) ==
  /\ agent = None /\ used < MaxClients
  /\ used' = used + 1
  /\ agent' = [owner |-> p, revision |-> 0, client |-> used']
  /\ clients' = [clients EXCEPT ![used'] = [owner |-> p, agents |-> {"agent"}]]
  /\ stale' = stale \cup Planned
  /\ UNCHANGED <<policy, known, lock, transfer, delete, direct, sessions>>

\* The trigger agents_owner_revision.
Owned(p) == [agent EXCEPT !.owner = p,
                          !.revision = IF agent.owner # p THEN @ + 1 ELSE @]

\* An administrator sets agents.owner_principal.
ChangeDirectly(p) ==
  /\ agent # None /\ lock = None /\ agent.owner # p /\ direct < MaxDirect
  /\ direct' = direct + 1
  /\ agent' = Owned(p)
  /\ stale' = stale \cup Planned
  /\ UNCHANGED <<clients, policy, known, lock, transfer, delete, used, sessions>>

-----------------------------------------------------------------------------
(* The transfer.                                                           *)

\* The owners a target may resolve to: the one principal that logged in under
\* it, or nobody when there is none (404) or more than one (409).
resolveTransferOwner(to) ==
  LET identities == {p \in Owners :
                       \E e \in Emails \cup {None} : <<p, e>> \in known /\ to \in {p, e}}
  IN {p \in identities : identities = {p}}

\* The preview's transaction reads and answers; the operator is shown the plan.
Preview(t, to, at) ==
  /\ transfer[t].pc = "idle" /\ agent # None /\ lock = None
  /\ \E p \in resolveTransferOwner(to) :
       transfer' = [transfer EXCEPT ![t] =
         [pc |-> "shown", to |-> to, owner |-> p, was |-> agent.owner,
          revision |-> agent.revision, client |-> agent.client, at |-> at]]
  /\ UNCHANGED <<rows, known, lock, stale, delete, direct, used, sessions>>

\* With a bug: the registration is not compared.
ChangedOwner(t) == transfer[t].was # agent.owner \/ transfer[t].revision # agent.revision

ChangedSincePreview(t) ==
  \/ transfer[t].was # agent.owner
  \/ transfer[t].revision # agent.revision
  \/ transfer[t].client # agent.client

\* The transaction reads the row FOR UPDATE and finds the plan still true.
LocksRow(t) ==
  /\ agent # None /\ lock = None /\ ~ChangedSincePreview(t)
  /\ lock' = t

\* The target is resolved anew in the transaction: the client resends the
\* principal it was shown, or the address it was given.
Begin(t) ==
  /\ transfer[t].pc = "shown"
  /\ LocksRow(t)
  /\ \E to \in {transfer[t].owner, transfer[t].to}, p \in Owners :
       /\ p \in resolveTransferOwner(to)
       /\ transfer' = [transfer EXCEPT ![t].pc = "locked", ![t].to = p]
  /\ UNCHANGED <<rows, known, stale, delete, direct, used, sessions>>

\* Nothing is there (404), the plan is out of date or the target has become
\* ambiguous (409), or the operator says no.
Refuse(t) ==
  /\ transfer[t].pc = "shown"
  /\ transfer' = [transfer EXCEPT ![t] = [NoPlan EXCEPT !.pc = "ended"]]
  /\ stale' = stale \ {t}
  /\ UNCHANGED <<rows, known, lock, delete, direct, used, sessions>>

\* The rows of `clients' that go with the agent.
Compatible == {c \in ClientIds :
                 clients[c] # None /\ (c = agent.client \/ "agent" \in clients[c].agents)}

Frees(t) == lock' = IF lock = t THEN None ELSE lock

\* A compatible row names another agent (409).
Covers(t) ==
  /\ transfer[t].pc = "locked" /\ agent # None /\ agent.owner # transfer[t].to
  /\ \E c \in Compatible : "other" \in clients[c].agents
  /\ transfer' = [transfer EXCEPT ![t] = [NoPlan EXCEPT !.pc = "ended"]]
  /\ stale' = stale \ {t} /\ Frees(t)
  /\ UNCHANGED <<rows, known, delete, direct, used, sessions>>

Moves(p) ==
  /\ agent' = Owned(p)
  /\ clients' = [c \in ClientIds |-> IF c \in Compatible THEN [clients[c] EXCEPT !.owner = p]
                                     ELSE clients[c]]
  /\ policy' = IF policy = None THEN None ELSE [policy EXCEPT !.owner = p]

\* The writes, the notification and the commit; nothing is written when the
\* agent is the target's already.
Commit(t) ==
  LET p == transfer[t].to IN
  /\ transfer[t].pc = "locked" /\ agent # None
  /\ \/ agent.owner = p /\ UNCHANGED <<rows, told>>
     \/ /\ agent.owner # p
        /\ \A c \in Compatible : "other" \notin clients[c].agents
        /\ Moves(p)
        /\ told' = Instances
  /\ transfer' = [transfer EXCEPT ![t] = [NoPlan EXCEPT !.pc = "done", !.at = transfer[t].at]]
  /\ stale' = (stale \ {t}) \cup (IF agent.owner # p THEN Planned \ {t} ELSE {})
  /\ Frees(t)
  /\ UNCHANGED <<known, delete, direct, used, conn, hello, running>>

-----------------------------------------------------------------------------
(* The delete route: resolveClient, the transaction, the close.            *)

Resolve(d, p) ==
  /\ delete[d].pc = "idle" /\ agent # None /\ agent.owner = p
  /\ delete' = [delete EXCEPT ![d] = [pc |-> "resolved", by |-> p, client |-> agent.client]]
  /\ UNCHANGED <<rows, known, lock, transfer, stale, direct, used, sessions>>

\* Row-level security of the statement, on the row as it then is.
Visible(d) == /\ agent # None /\ agent.client = delete[d].client
              /\ agent.owner = delete[d].by

Removes(c) ==
  /\ clients' = [clients EXCEPT ![c] = None]
  /\ policy' = IF policy # None /\ policy.client = c THEN None ELSE policy

\* Zero rows are as good as one.  The two rows may have different owners after a
\* direct change.
DeleteRows(d) ==
  LET c == delete[d].client IN
  /\ delete[d].pc = "resolved" /\ lock = None
  /\ IF Visible(d) THEN agent' = None /\ stale' = stale \cup Planned
                   ELSE UNCHANGED <<agent, stale>>
  /\ IF clients[c] # None /\ clients[c].owner = delete[d].by THEN Removes(c)
                                                             ELSE UNCHANGED <<clients, policy>>
  /\ delete' = [delete EXCEPT ![d].pc = "deleted"]
  /\ UNCHANGED <<known, lock, transfer, direct, used, sessions>>

\* disconnectClient at the instance that serves the call.
CloseSessions(d, at) ==
  /\ delete[d].pc = "deleted"
  /\ delete' = [delete EXCEPT ![d].pc = "answered"]
  /\ conn' = [i \in Instances |-> IF i = at /\ conn[i] # None /\ conn[i].client = delete[d].client
                                  THEN None ELSE conn[i]]
  /\ UNCHANGED <<rows, known, lock, transfer, stale, direct, used, hello, running, told>>

-----------------------------------------------------------------------------
(* Connections and their owner.                                            *)

HelloLooksUp(i) ==
  /\ hello[i] = None /\ conn[i] = None /\ agent # None
  /\ hello' = [hello EXCEPT ![i] = [client |-> agent.client, owner |-> agent.owner]]
  /\ UNCHANGED <<rows, known, lock, transfer, stale, delete, direct, used, conn, running, told>>

HelloRegisters(i) ==
  /\ hello[i] # None
  /\ conn' = [conn EXCEPT ![i] = hello[i]]
  /\ hello' = [hello EXCEPT ![i] = None]
  /\ UNCHANGED <<rows, known, lock, transfer, stale, delete, direct, used, running, told>>

Row == [owner |-> IF agent = None THEN None ELSE agent.owner]

\* A notification, or the timer of five seconds, finds no query under way and
\* reads the row; with no agent connected there is nothing to ask.
Refresh(i) ==
  /\ conn[i] # None /\ running[i] = None
  /\ told' \in {told, told \ {i}}
  /\ running' = [running EXCEPT ![i] = Row]
  /\ UNCHANGED <<rows, known, lock, transfer, stale, delete, direct, used, conn, hello>>

\* A notification that comes while a query is outstanding, or is lost with the
\* listener, or finds no agent.
Unheeded(i) ==
  /\ i \in told
  /\ told' = told \ {i}
  /\ UNCHANGED <<rows, known, lock, transfer, stale, delete, direct, used, conn, hello, running>>

\* The instance that served a transfer refreshes on its own beside the watch.
RefreshLocally(t) ==
  /\ transfer[t].pc = "done"
  /\ transfer' = [transfer EXCEPT ![t].pc = "ended"]
  /\ running' = IF \E i \in Instances : i = transfer[t].at /\ conn[i] # None
                THEN [running EXCEPT ![t] = Row] ELSE running
  /\ UNCHANGED <<rows, known, lock, stale, delete, direct, used, conn, hello, told>>

\* The answer is applied to the connection that is there by then.
Apply(x) ==
  LET i == IF x \in Instances THEN x ELSE transfer[x].at IN
  /\ running[x] # None
  /\ conn' = IF conn[i] # None /\ running[x].owner # None
             THEN [conn EXCEPT ![i].owner = running[x].owner] ELSE conn
  /\ running' = [running EXCEPT ![x] = None]
  /\ UNCHANGED <<rows, known, lock, transfer, stale, delete, direct, used, hello, told>>

\* The query fails.
RefreshFails(x) ==
  /\ running[x] # None
  /\ running' = [running EXCEPT ![x] = None]
  /\ UNCHANGED <<rows, known, lock, transfer, stale, delete, direct, used, conn, hello, told>>

-----------------------------------------------------------------------------
Next ==
  \/ \E p \in Owners, e \in Emails \cup {None} : Login(p, e)
  \/ \E p \in Owners : register_client(p) \/ ChangeDirectly(p)
  \/ \E t \in Transfers :
       \/ \E to \in Owners \cup Emails, at \in Instances \cup {None} : Preview(t, to, at)
       \/ Begin(t) \/ Refuse(t) \/ Covers(t) \/ Commit(t) \/ RefreshLocally(t)
  \/ \E d \in Deletes :
       \/ \E p \in Owners : Resolve(d, p)
       \/ DeleteRows(d)
       \/ \E at \in Instances \cup {None} : CloseSessions(d, at)
  \/ \E i \in Instances :
       \/ HelloLooksUp(i) \/ HelloRegisters(i)
       \/ Refresh(i) \/ Unheeded(i)
  \/ \E x \in Instances \cup Transfers : Apply(x) \/ RefreshFails(x)

Spec == Init /\ [][Next]_vars

-----------------------------------------------------------------------------
(* Properties.                                                             *)

Commits(t) == transfer[t].pc = "locked" /\ transfer'[t].pc = "done"

\* A transfer goes through only if the agent's ownership has not changed since
\* its preview, there and back included, and its registration is the same one
\* (expectedRevision and expectedClientId; docs/install-client.md).
NoStaleTransfer == [][\A t \in Transfers : Commits(t) => t \notin stale]_vars

\* A transfer gives the agent to the principal its preview showed, whichever
\* identity the client sends back and whoever logs in meanwhile.
GoesToTheOwnerShown ==
  [][\A t \in Transfers : Commits(t) => agent'.owner = transfer[t].owner]_vars

\* As long as nobody writes an owner directly, the rows that row-level security
\* authorizes the same registration by agree on its owner.
RowsAgree ==
  direct = 0 /\ agent # None =>
    /\ clients[agent.client] # None /\ clients[agent.client].owner = agent.owner
    /\ (policy # None /\ policy.client = agent.client => policy.owner = agent.owner)

\* A registration is deleted by the principal that owns it at that moment, not
\* by one that owned it when the call resolved its target.
OnlyOwnerDeletes ==
  [][agent # None /\ agent' = None =>
       \E d \in Deletes : delete[d].pc = "resolved" /\ delete[d].by = agent.owner]_vars
=============================================================================
