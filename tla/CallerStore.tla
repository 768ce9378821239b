------------------------------- MODULE CallerStore -------------------------------
(***************************************************************************)
(* The durable state of a client's caller runtime: who owns the directory, *)
(* which binaries its manifest keeps out, and the rows of its database.    *)
(*                                                                         *)
(* Code: packages/client/src/caller-runtime-store.ts.  A process is a      *)
(* daemon or an offline administration command, and may be killed between  *)
(* any two writes; what it has written stays.  The database's transactions *)
(* are atomic and its statements run without an await.                     *)
(***************************************************************************)
EXTENDS Naturals, Sequences, FiniteSets

CONSTANTS
  Procs,       \* processes of this agent on this host, each used once
  Scopes,      \* callers' scopes
  Contexts,    \* conversations of a scope
  Legacy,      \* the scopes of an older, JSON-only installation
  None,
  MaxContexts, \* options.maxContexts
  MaxOps       \* bound: writes that a process asks for

ASSUME StoreConstantsOK ==
  /\ Legacy \subseteq Scopes
  /\ None \notin Procs
  /\ MaxContexts \in Nat /\ MaxOps \in Nat

VARIABLES
  guard,     \* who made the .guard directory, or None
  owner,     \* the process named by owner.json, or None
  manifest,  \* manifest.json: [version, importing]; version 0: no such file
  database,  \* state.sqlite: "absent", "empty" (user_version 0) or "v4"
  json,      \* scopes with a JSON record
  rows,      \* the tables
  proc       \* one record per process

storeVars == <<guard, owner, manifest, database, json, rows, proc>>

(* What a client must support to handle a row: fixed_storage, preparations, *)
(* principals of another issuer, caller_contexts.                           *)
Level == [image |-> 5, preparation |-> 6, federated |-> 7, context |-> 8]
Ops == [kind : {"image", "preparation", "federated"}, scope : Scopes]
       \cup [kind : {"context"}, scope : Scopes, context : Contexts]

NoRows == [scopes |-> {}, image |-> {}, preparation |-> {}, federated |-> {}, context |-> {}]

Stages == {"new", "checking", "reading", "marking", "opening", "importing", "finishing",
           "claiming", "locked", "unlocking", "disowned", "leaving", "gone"}
Processes == [
  stage : Stages,
  seen : [version : 0..8, importing : BOOLEAN],  \* the manifest it has read
  version : 0..8,         \* manifestVersion
  asked : Seq(Ops),       \* callers that wait for their manifest write, in order
  writing : 0..8,         \* version of the write in progress, or 0
  ops : Nat]

StoreTypeOK ==
  /\ guard \in Procs \cup {None} /\ owner \in Procs \cup {None}
  /\ manifest \in [version : 0..8, importing : BOOLEAN]
  /\ database \in {"absent", "empty", "v4"}
  /\ json \subseteq Scopes
  /\ rows \in [scopes : SUBSET Scopes, image : SUBSET Scopes, preparation : SUBSET Scopes,
               federated : SUBSET Scopes, context : SUBSET (Scopes \X Contexts)]
  /\ proc \in [Procs -> Processes]

NewProcess == [stage |-> "new", seen |-> [version |-> 0, importing |-> FALSE], version |-> 0,
               asked |-> <<>>, writing |-> 0, ops |-> 0]

(* A new directory, one of a JSON-only client, or one that lost its database. *)
StoreInit ==
  /\ guard = None /\ owner = None
  /\ manifest \in [version : {0, 3, 4}, importing : {FALSE}]
  /\ \/ manifest.version = 0 /\ json = {} /\ database = "absent"
     \/ manifest.version = 3 /\ json = Legacy /\ database = "absent"
     \/ manifest.version = 4 /\ json = {} /\ database \in {"absent", "empty"}
  /\ rows = NoRows
  /\ proc = [p \in Procs |-> NewProcess]

Goto(p, stage) == proc' = [proc EXCEPT ![p].stage = stage]
Exit(p) == proc' = [proc EXCEPT ![p] = [NewProcess EXCEPT !.stage = "gone"]]
Alive(p) == proc[p].stage # "gone"
Max2(a, b) == IF a > b THEN a ELSE b

-----------------------------------------------------------------------------
(* Ownership.                                                                 *)

(* lock: mkdir of .guard fails if it is there, and is the caller's to retry. *)
Guard(p) ==
  /\ proc[p].stage = "new" /\ guard = None
  /\ guard' = p
  /\ Goto(p, "checking")
  /\ UNCHANGED <<owner, manifest, database, json, rows>>

(* kill(pid, 0): a dead owner is superseded, a live one refuses the lock; so *)
(* does a pid that another program has by now.                              *)
CheckOwner(p) ==
  /\ proc[p].stage = "checking"
  /\ \/ /\ owner # None => ~Alive(owner)
        /\ Goto(p, "reading") /\ UNCHANGED guard
     \/ /\ owner # None
        /\ Exit(p) /\ guard' = None
  /\ UNCHANGED <<owner, manifest, database, json, rows>>

(* owner.json is replaced by a rename; the finally block takes .guard away.   *)
Claim(p) ==
  /\ proc[p].stage = "claiming"
  /\ owner' = p /\ guard' = None
  /\ Goto(p, "locked")
  /\ UNCHANGED <<manifest, database, json, rows>>

(* A daemon closes when its executions are over.                              *)
Unlock(p) ==
  /\ proc[p].stage = "locked" /\ proc[p].asked = <<>> /\ guard = None
  /\ guard' = p
  /\ Goto(p, "unlocking")
  /\ UNCHANGED <<owner, manifest, database, json, rows>>

(* The token is compared before owner.json is unlinked.                       *)
Disown(p) ==
  /\ proc[p].stage = "unlocking"
  /\ owner' = IF owner = p THEN None ELSE owner
  /\ Goto(p, "leaving")
  /\ UNCHANGED <<guard, manifest, database, json, rows>>

Leave(p) ==
  /\ proc[p].stage = "leaving"
  /\ guard' = None
  /\ Exit(p)
  /\ UNCHANGED <<owner, manifest, database, json, rows>>

(* The process is killed; its files stay.                                     *)
KillProcess(p) ==
  /\ proc[p].stage \notin {"new", "gone"}
  /\ Exit(p)
  /\ UNCHANGED <<guard, owner, manifest, database, json, rows>>

(* "The operator must inspect/remove .guard manually".                        *)
RemoveGuard ==
  /\ guard # None /\ ~Alive(guard)
  /\ guard' = None
  /\ UNCHANGED <<owner, manifest, database, json, rows, proc>>

-----------------------------------------------------------------------------
(* openStorage: under .guard, from a directory that another process may have *)
(* left at any of these steps.                                               *)

(* An incomplete or incompatible directory is refused.                        *)
ReadManifest(p) ==
  LET migrating == manifest.version < 4 \/ manifest.importing
      refused == \/ manifest.version = 0 /\ (database # "absent" \/ json # {})
                 \/ ~migrating /\ database = "absent"
                 \/ manifest.version \in 1..3 /\ database # "absent"
  IN
  /\ proc[p].stage = "reading"
  /\ IF refused
     THEN /\ Exit(p) /\ guard' = None
     ELSE /\ proc' = [proc EXCEPT
               ![p].seen = manifest, ![p].version = Max2(4, manifest.version),
               ![p].stage = IF migrating THEN "marking" ELSE "opening"]
          /\ UNCHANGED guard
  /\ UNCHANGED <<owner, manifest, database, json, rows>>

Migrating(p) == proc[p].seen.version < 4 \/ proc[p].seen.importing

(* JSON-only clients are kept out before the database is made.                *)
MarkImport(p) ==
  /\ proc[p].stage = "marking"
  /\ manifest' = [version |-> proc[p].version, importing |-> TRUE]
  /\ Goto(p, "opening")
  /\ UNCHANGED <<guard, owner, database, json, rows>>

OpenDatabase(p) ==
  /\ proc[p].stage = "opening"
  /\ IF database = "empty" /\ ~Migrating(p)
     THEN /\ Exit(p) /\ guard' = None   \* "schema is incompatible"
          /\ UNCHANGED database
     ELSE /\ database' = IF database = "absent" THEN "empty" ELSE database
          /\ Goto(p, "importing")
          /\ UNCHANGED guard
  /\ UNCHANGED <<owner, manifest, json, rows>>

(* One transaction with the schema's version: an import that is over is not   *)
(* repeated.                                                                *)
Import(p) ==
  /\ proc[p].stage = "importing"
  /\ rows' = IF database = "empty" THEN [rows EXCEPT !.scopes = @ \cup json] ELSE rows
  /\ database' = "v4"
  /\ Goto(p, IF Migrating(p) THEN "finishing" ELSE "claiming")
  /\ UNCHANGED <<guard, owner, manifest, json>>

FinishImport(p) ==
  /\ proc[p].stage = "finishing"
  /\ manifest' = [version |-> proc[p].version, importing |-> FALSE]
  /\ Goto(p, "claiming")
  /\ UNCHANGED <<guard, owner, database, json, rows>>

-----------------------------------------------------------------------------
(* Rows.                                                                      *)

(* reserve of a principal of this issuer: one transaction.                    *)
Reserve(p, s) ==
  /\ proc[p].stage = "locked" /\ s \notin rows.scopes
  /\ rows' = [rows EXCEPT !.scopes = @ \cup {s}]
  /\ UNCHANGED <<guard, owner, manifest, database, json, proc>>

(* A write that needs a newer client first: it waits for its manifest write   *)
(* behind those asked before it.                                            *)
Ask(p, op) ==
  /\ proc[p].stage = "locked" /\ proc[p].ops < MaxOps
  /\ op.kind \in {"image", "context"} => op.scope \in rows.scopes
  /\ proc' = [proc EXCEPT
       ![p].version = Max2(Level[op.kind], @), ![p].ops = @ + 1,
       ![p].asked = Append(@, op)]
  /\ UNCHANGED <<guard, owner, manifest, database, json, rows>>

(* With a bug: the marker carries the level of the write that asks for it.    *)
BeginOwnLevel(p) ==
  /\ proc[p].asked # <<>> /\ proc[p].writing = 0 /\ Alive(p)
  /\ proc' = [proc EXCEPT ![p].writing = Level[Head(proc[p].asked).kind]]
  /\ UNCHANGED <<guard, owner, manifest, database, json, rows>>

(* advanceManifest: the writes are in series, and each has the highest version *)
(* asked for so far.                                                          *)
BeginMarker(p) ==
  /\ proc[p].asked # <<>> /\ proc[p].writing = 0 /\ Alive(p)
  /\ proc' = [proc EXCEPT ![p].writing = proc[p].version]
  /\ UNCHANGED <<guard, owner, manifest, database, json, rows>>

(* The write itself, with reserveContext's limit.                             *)
Store(op) ==
  CASE op.kind = "context" ->
         IF Cardinality({c \in Contexts : <<op.scope, c>> \in rows.context}) < MaxContexts
         THEN [rows EXCEPT !.context = @ \cup {<<op.scope, op.context>>}] ELSE rows
    [] op.kind = "federated" ->
         [rows EXCEPT !.scopes = @ \cup {op.scope}, !.federated = @ \cup {op.scope}]
    [] OTHER -> [rows EXCEPT ![op.kind] = @ \cup {op.scope}]

(* The marker is renamed into place and its writer stores the row; a failed   *)
(* write ends the operation, and the next one writes the marker again.       *)
EndMarker(p) ==
  LET op == Head(proc[p].asked) IN
  /\ proc[p].writing # 0 /\ Alive(p)
  /\ proc' = [proc EXCEPT ![p].writing = 0, ![p].asked = Tail(@)]
  /\ \/ /\ manifest' = [version |-> proc[p].writing, importing |-> FALSE]
        /\ rows' = Store(op)
     \/ UNCHANGED <<manifest, rows>>
  /\ UNCHANGED <<guard, owner, database, json>>

(* forget: the rows of the scope go together, its JSON record after them.  The *)
(* pool does not forget a scope that it is still allocating.                 *)
ForgetScope(p, s) ==
  /\ proc[p].stage = "locked" /\ s \in rows.scopes
  /\ \A i \in DOMAIN proc[p].asked : proc[p].asked[i].scope # s
  /\ rows' = [scopes |-> rows.scopes \ {s}, image |-> rows.image \ {s},
              preparation |-> rows.preparation \ {s}, federated |-> rows.federated \ {s},
              context |-> {x \in rows.context : x[1] # s}]
  /\ json' \in {json, json \ {s}}
  /\ UNCHANGED <<guard, owner, manifest, database, proc>>

-----------------------------------------------------------------------------

StoreNext ==
  \/ \E p \in Procs :
       \/ Guard(p) \/ CheckOwner(p) \/ Claim(p) \/ Unlock(p) \/ Disown(p) \/ Leave(p) \/ KillProcess(p)
       \/ ReadManifest(p) \/ MarkImport(p) \/ OpenDatabase(p) \/ Import(p) \/ FinishImport(p)
       \/ BeginMarker(p) \/ EndMarker(p)
       \/ \E s \in Scopes : Reserve(p, s) \/ ForgetScope(p, s)
       \/ \E op \in Ops : Ask(p, op)
  \/ RemoveGuard

StoreSpec == StoreInit /\ [][StoreNext]_storeVars

-----------------------------------------------------------------------------

Owning == {"locked", "unlocking"}

(* Two processes never hold the directory at once, also where one was killed *)
(* while it took or gave back the lock and the operator removed its .guard.  *)
OneOwner ==
  \A p, q \in Procs : proc[p].stage \in Owning /\ proc[q].stage \in Owning => p = q

(* A client too old for a row that is stored cannot open the directory: the  *)
(* manifest on disk is at least as new as every row, and no client without   *)
(* the database is let in once there is one.                                 *)
OldClientsStayOut ==
  /\ database # "absent" => manifest.version >= 4
  /\ \A k \in DOMAIN Level : rows[k] # {} => manifest.version >= Level[k]

(* Wherever the import was interrupted, the marker goes only when every JSON  *)
(* record is a row: no caller's scope is lost to the migration.              *)
Unfinished == manifest.version < 4 \/ manifest.importing
ImportIsWhole == [][Unfinished /\ ~Unfinished' => database = "v4" /\ json \subseteq rows.scopes]_storeVars

(* Overlapping allocations do not exceed the retained conversations of a scope. *)
ContextsBounded ==
  \A s \in Scopes : Cardinality({c \in Contexts : <<s, c>> \in rows.context}) <= MaxContexts

(* Wherever processes are killed, and while an operator removes a lock, no    *)
(* two hold the directory, no client too old for a row gets in, an import     *)
(* that was interrupted loses no scope, and the kept conversations of a scope *)
(* stay within their limit.                                                   *)
DirectoryIsSafe == [](OneOwner /\ OldClientsStayOut /\ ContextsBounded) /\ ImportIsWhole
=============================================================================
