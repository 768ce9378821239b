------------------------------ MODULE CallerPolicy ------------------------------
(***************************************************************************)
(* Who may call an agent: the list in its row, the API keys on it, and the *)
(* copy of the list that the instance holding the agent's connection       *)
(* authorizes callers with.                                                *)
(*                                                                         *)
(* Code: packages/server/src/admin-api.ts (addCaller, removeCaller,        *)
(* issueAgentApiKey), caller-policy-watch.ts, updateAllowedCallers of      *)
(* registry.ts, the lookup of ws.ts and the routes of http.tsx.  A call is *)
(* a sequence of statements; calls are served by any instance.  Wallets,   *)
(* accounts and federated callers are principals alike.                    *)
(***************************************************************************)
EXTENDS Naturals, Sequences, SequencesExt

CONSTANTS
  Keys,      \* API key ids the bridge may draw, as principals `apikey:<id>'
  Others,    \* the other principals that may be on the list
  Calls,     \* calls of the admin API
  MaxHellos, \* bound: how often the agent connects
  None

ConstantsOK ==
  /\ Keys \cap Others = {} /\ MaxHellos \in Nat
  /\ None \notin Keys \cup Others /\ \A s \in SUBSET (Keys \cup Others) : s # None

VARIABLES
  row,       \* agents.allowed_callers
  token,     \* rows of `callers' with provider apikey, by key
  copy,      \* conn.allowedCallers where the agent is connected, or None
  looked,    \* what a hello's lookup read, or None
  call,      \* where a call is, what it does for whom, and what it read
  refreshes, \* refreshes under way where the agent is connected, oldest first
  hellos,
  may        \* what may happen in this behaviour, of Faults

vars == <<row, token, copy, looked, call, refreshes, hellos, may>>

Faults == {
  "repeat",   \* a caller is added or removed who already is or is not there
  "reorder",  \* an instance's reads of the row are applied out of order
  "early",    \* a key is removed while the call that mints it is under way
  "unminted", \* minting fails
  "stop",     \* a statement fails, or the serving instance stops, in mid-call
  "hello"}    \* the agent's lookup and its registration are apart

Principals == Keys \cup Others
NotYet == [pc |-> "idle", kind |-> "none", who |-> None, list |-> None, here |-> FALSE,
           mine |-> FALSE]
Under(c) == call[c].pc \notin {"idle", "done", "failed"}

\* A key has a row only if the list named it; a call past its first statement
\* serves the owner; a refresh that has read holds a list.
TypeOK ==
  /\ row \subseteq Principals /\ hellos \in 0..MaxHellos
  /\ token \in [Keys -> {"none", "live", "revoked"}]
  /\ copy = None \/ copy \subseteq Principals
  /\ looked = None \/ looked \subseteq Principals
  /\ \A c \in Calls :
       /\ call[c].pc \in {"idle", "reread", "local", "revoke", "mint", "undo", "patch",
                          "notify", "done", "failed"}
       /\ Under(c) => call[c].mine /\ call[c].who \in Principals
       /\ call[c].pc \in {"patch", "local"} => call[c].list \subseteq Principals
       /\ call[c].pc \in {"mint", "undo"} => token[call[c].who] = "none"
  /\ copy = None => refreshes = <<>>
  /\ may \subseteq Faults

Init ==
  /\ row = {} /\ copy = None /\ looked = None /\ refreshes = <<>> /\ hellos = 0
  /\ token = [k \in Keys |-> "none"]
  /\ call = [c \in Calls |-> NotYet]
  /\ may \subseteq Faults

(***************************************************************************)
(* The first statement of a call, under the row-level security of its      *)
(* principal: a stranger's touches no row and ends the call.               *)
(***************************************************************************)

Begins(c, kind, p, pc, list) ==
  /\ call[c].pc = "idle"
  /\ \E here \in BOOLEAN :
       call' = [call EXCEPT ![c] = [pc |-> pc, kind |-> kind, who |-> p, list |-> list,
                                    here |-> here, mine |-> TRUE]]

Stranger(c) ==
  /\ call[c].pc = "idle"
  /\ \E kind \in {"add", "remove", "issue"}, p \in Principals :
       /\ kind = "issue" <=> p \in Keys
       /\ call' = [call EXCEPT ![c] = [NotYet EXCEPT !.pc = "done", !.kind = kind, !.who = p]]
  /\ UNCHANGED <<row, token, copy, looked, refreshes, hellos>>

Add(c) ==
  /\ \E p \in Others :
       \/ /\ p \notin row
          /\ row' = row \cup {p}
          /\ Begins(c, "add", p, "patch", row')
       \/ /\ p \in row /\ "repeat" \in may
          /\ Begins(c, "add", p, "reread", None)
          /\ UNCHANGED row
  /\ UNCHANGED <<token, copy, looked, refreshes, hellos>>

Minting(k) == \E c \in Calls : call[c].kind = "issue" /\ call[c].who = k /\ Under(c)

RemoveFrom(c) ==
  /\ \E p \in Principals :
       /\ p \in Keys => "early" \in may \/ ~Minting(p)
       /\ \/ /\ p \in row
             /\ row' = row \ {p}
             /\ Begins(c, "remove", p, IF p \in Keys THEN "revoke" ELSE "patch", row')
          \/ /\ p \notin row /\ "repeat" \in may
             /\ Begins(c, "remove", p, "reread", None)
             /\ UNCHANGED row
  /\ UNCHANGED <<token, copy, looked, refreshes, hellos>>

\* appendAllowedCallerOwned, for a key id nobody has drawn
Issue(c) ==
  /\ \E k \in Keys :
       /\ \A d \in Calls : call[d].who # k
       /\ row' = row \cup {k}
       /\ Begins(c, "issue", k, "mint", row')
  /\ UNCHANGED <<token, copy, looked, refreshes, hellos>>

(***************************************************************************)
(* The rest of a call.                                                     *)
(***************************************************************************)

\* The call changed nothing; the list is read in a transaction of its own.
Reread(c) ==
  /\ call[c].pc = "reread"
  /\ call' = [call EXCEPT ![c].pc = IF call[c].kind = "add" /\ call[c].who \notin row
                                    THEN "failed" ELSE "local",
                          ![c].list = row]
  /\ UNCHANGED <<row, token, copy, looked, refreshes, hellos>>

updateAllowedCallers(c) ==
  copy' = IF call[c].here /\ copy # None THEN call[c].list ELSE copy

RevokeKey(c) ==
  /\ call[c].pc = "revoke"
  /\ token' = [token EXCEPT ![call[c].who] = IF @ = "live" THEN "revoked" ELSE @]
  /\ call' = [call EXCEPT ![c].pc = "patch"]
  /\ UNCHANGED <<row, copy, looked, refreshes, hellos>>

Mint(c) ==
  /\ call[c].pc = "mint"
  /\ token' = [token EXCEPT ![call[c].who] = "live"]
  /\ call' = [call EXCEPT ![c].pc = "patch"]
  /\ UNCHANGED <<row, copy, looked, refreshes, hellos>>

\* With a bug: the failure of the mint is reported and nothing taken back.
MintFailsAsIs(c) ==
  /\ call[c].pc = "mint" /\ "unminted" \in may
  /\ call' = [call EXCEPT ![c].pc = "done"]
  /\ UNCHANGED <<row, token, copy, looked, refreshes, hellos>>

MintFails(c) ==
  /\ call[c].pc = "mint" /\ "unminted" \in may
  /\ call' = [call EXCEPT ![c].pc = "undo"]
  /\ UNCHANGED <<row, token, copy, looked, refreshes, hellos>>

\* The compensation: the row, and neither the copy nor a notification.
Undo(c) ==
  /\ call[c].pc = "undo"
  /\ row' = row \ {call[c].who}
  /\ call' = [call EXCEPT ![c].pc = "done"]
  /\ UNCHANGED <<token, copy, looked, refreshes, hellos>>

\* The answer of a call that changed nothing is not announced.
PatchLocally(c) ==
  /\ call[c].pc = "local"
  /\ updateAllowedCallers(c)
  /\ call' = [call EXCEPT ![c].pc = "done"]
  /\ UNCHANGED <<row, token, looked, refreshes, hellos>>

Patch(c) ==
  /\ call[c].pc = "patch"
  /\ updateAllowedCallers(c)
  /\ call' = [call EXCEPT ![c].pc = "notify"]
  /\ UNCHANGED <<row, token, looked, refreshes, hellos>>

\* Where the agent is not connected the notification does nothing.
notifyCallerPolicyChanged(c) ==
  /\ call[c].pc = "notify"
  /\ call' = [call EXCEPT ![c].pc = "done"]
  /\ refreshes' = IF copy = None THEN refreshes ELSE Append(refreshes, None)
  /\ UNCHANGED <<row, token, copy, looked, hellos>>

\* A statement fails, or the instance stops; what the call did so far stays.
Stop(c) ==
  /\ "stop" \in may /\ Under(c)
  /\ call[c].pc \in {"reread", "revoke", "undo"} \/ ~call[c].here
  /\ call' = [call EXCEPT ![c].pc = "failed"]
  /\ UNCHANGED <<row, token, copy, looked, refreshes, hellos>>

(***************************************************************************)
(* The instance that holds the connection.                                 *)
(***************************************************************************)

RefreshReads(n) ==
  /\ refreshes[n] = None
  /\ "reorder" \in may \/ \A m \in 1..(n - 1) : refreshes[m] # None
  /\ refreshes' = [refreshes EXCEPT ![n] = row]
  /\ UNCHANGED <<row, token, copy, looked, call, hellos>>

RefreshApplies(n) ==
  /\ refreshes[n] # None
  /\ "reorder" \in may \/ n = 1
  /\ copy' = refreshes[n]
  /\ refreshes' = RemoveAt(refreshes, n)
  /\ UNCHANGED <<row, token, looked, call, hellos>>

\* lookupByTokenHash
HelloLooksUp ==
  /\ copy = None /\ looked = None /\ hellos < MaxHellos
  /\ hellos' = hellos + 1
  /\ IF "hello" \in may THEN looked' = row /\ UNCHANGED copy
     ELSE copy' = row /\ UNCHANGED looked
  /\ UNCHANGED <<row, token, call, refreshes>>

HelloRegisters ==
  /\ looked # None
  /\ copy' = looked /\ looked' = None
  /\ UNCHANGED <<row, token, call, refreshes, hellos>>

\* A refresh that finds the agent gone does nothing.
Disconnect ==
  /\ copy # None
  /\ copy' = None /\ refreshes' = <<>>
  /\ UNCHANGED <<row, token, looked, call, hellos>>

Acts ==
  \/ \E c \in Calls : \/ Stranger(c) \/ Add(c) \/ RemoveFrom(c) \/ Issue(c)
                      \/ Reread(c) \/ RevokeKey(c) \/ Mint(c) \/ MintFails(c) \/ Undo(c)
                      \/ PatchLocally(c) \/ Patch(c) \/ notifyCallerPolicyChanged(c) \/ Stop(c)
  \/ \E n \in 1..Len(refreshes) : RefreshReads(n) \/ RefreshApplies(n)
  \/ HelloLooksUp \/ HelloRegisters \/ Disconnect

Next == UNCHANGED may /\ Acts

Spec == Init /\ [][Next]_vars

(***************************************************************************)
(* Properties.                                                             *)
(***************************************************************************)

Quiet == refreshes = <<>> /\ looked = None /\ \A c \in Calls : ~Under(c)

(* When nothing is under way, callers are authorized with the list of the    *)
(* row: the convergence caller-policy-watch.ts:5-8 names, and the repair of  *)
(* a stale copy that addCaller promises on every call (admin-api.ts:134).    *)
QuietCopyIsCurrent == (Quiet /\ copy # None) => copy = row

(* A key whose removal was acknowledged no longer works: "Removing it from   *)
(* the allowlist must also kill the underlying token"                        *)
(* (admin-api.ts:223-226).                                                   *)
RemovedKeysAreDead ==
  \A c \in Calls :
    (/\ call[c].pc = "done" /\ call[c].mine /\ call[c].kind = "remove" /\ call[c].who \in Keys
     /\ \A d \in Calls : call[d].who = call[c].who => ~Under(d))
    => token[call[c].who] # "live"

(* A failed mint leaves no key on the list that nobody can hold ("so we don't *)
(* leave an orphan entry in allowed_callers", admin-api.ts:490-492).         *)
NoOrphanKeys ==
  \A k \in row \cap Keys : (\A c \in Calls : call[c].who = k => ~Under(c)) => token[k] # "none"

(* A non-owner's call never mints: a key exists only if its own call was the *)
(* owner's (admin-api.ts:483-485).                                           *)
KeysAreTheOwners ==
  \A k \in Keys : token[k] # "none" =>
    \E c \in Calls : call[c].kind = "issue" /\ call[c].who = k /\ call[c].mine

(* Where nothing fails or comes out of order an instance ends up with the     *)
(* list of the row; a key that was not removed before it was minted is dead   *)
(* once it is; while the server keeps running a failed mint leaves no key on  *)
(* the list; and no stranger ever mints one.                                  *)
KeysFollowPolicy ==
  /\ KeysAreTheOwners
  /\ "stop" \notin may => NoOrphanKeys
  /\ may \cap {"early", "stop"} = {} => RemovedKeysAreDead
  /\ may \subseteq {"early"} => QuietCopyIsCurrent
=============================================================================
