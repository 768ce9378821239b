---------------------------- MODULE CallerAllocation ----------------------------
(***************************************************************************)
(* The Docker resources of one caller's scope, from the reservation of its *)
(* record to its removal: private storage, network, container, broker      *)
(* firewall, and the privileged helper that manages a fixed image.         *)
(*                                                                         *)
(* Code: packages/client/src/caller-runtime-docker.ts (without context     *)
(* containers), caller-storage.ts, caller-storage-manager.ts and the       *)
(* transactions of caller-runtime-store.ts.  A Docker command may fail,    *)
(* may be answered too late, and may then still take effect; the daemon    *)
(* may be killed between any two of them; the operator or a disk may lose  *)
(* a resource.                                                             *)
(***************************************************************************)
EXTENDS Naturals, FiniteSets

CONSTANT MaxFaults  \* bound: failed commands, kills, losses and removals

ASSUME ConstantsOK == MaxFaults \in Nat

VARIABLES
  fixed,    \* options.fixedImageStorage is set
  row,      \* scopes and pending_reservations
  record,   \* fixed_storage has the scope
  complete, \* completed_allocations has the scope
  intent,   \* storage_helpers has the scope
  helpers,  \* helper containers that may be running
  image,    \* the pool's catalog and file
  volume,   \* serial number of the storage volume, or 0
  network,  \* the scope's network exists
  ctr,      \* the scope's container
  wall,     \* the firewall of the running container is set
  late,     \* commands that were given up and may still take effect
  step,     \* what the daemon or the administrator does for the scope
  fresh,    \* this acquisition made the reservation
  volumes,  \* volumes made so far
  base,     \* volumes made before the present record
  worked,   \* the volume the caller's work was first done on, or 0
  faults

store == <<row, record, complete, intent>>
docker == <<helpers, image, volume, network, ctr, wall, late, volumes>>
vars == <<fixed, store, docker, step, fresh, base, worked, faults>>

Steps == {
  "down", "idle", "held", "quarantined",
  "probing", "recording", "confirming", "undoing",           \* a fresh reservation
  "imaging", "helping", "volumes", "network", "creating",     \* resources
  "verifying", "starting", "walling", "checking", "stopping",
  "removing", "unmounting", "erasing", "erased", "forgetting"} \* administration

TypeOK ==
  /\ {fixed, record, complete, intent, network, wall, fresh} \subseteq BOOLEAN
  /\ row \in {"absent", "pending", "reserved"}
  /\ helpers \in Nat
  /\ image \in {"none", "allocating", "ready"}
  /\ ctr \in {"none", "created", "running"}
  /\ late \subseteq {"volume", "network", "create", "start"}
  /\ step \in Steps
  /\ {volume, base, worked} \subseteq 0..volumes /\ volumes \in Nat
  /\ faults \in 0..MaxFaults

Init ==
  /\ fixed \in BOOLEAN
  /\ row = "absent" /\ record = FALSE /\ complete = FALSE /\ intent = FALSE
  /\ helpers = 0 /\ image = "none" /\ volume = 0 /\ network = FALSE
  /\ ctr = "none" /\ wall = FALSE /\ late = {} /\ volumes = 0
  /\ step = "idle" /\ fresh = FALSE /\ base = 0 /\ worked = 0 /\ faults = 0

Fault == faults < MaxFaults /\ faults' = faults + 1

(* A step of the daemon that leaves the store and Docker alone.               *)
Move(from, to) ==
  /\ step = from /\ step' = to
  /\ UNCHANGED <<fixed, store, docker, fresh, base, worked, faults>>

-----------------------------------------------------------------------------
(* reserve, and the preflight of a fresh reservation.                         *)

(* acquireContainer: the record is written before the first Docker command.   *)
Acquire ==
  /\ step = "idle"
  /\ CASE row = "absent" -> /\ row' = "pending" /\ fresh' = TRUE
                            /\ base' = volumes /\ worked' = 0 /\ step' = "probing"
       [] row = "pending" -> /\ step' = "quarantined"   \* CallerReservationUnconfirmedError
                             /\ UNCHANGED <<row, fresh, base, worked>>
       [] row = "reserved" -> /\ fresh' = FALSE
                              /\ step' = IF fixed THEN "imaging"
                                         ELSE IF ctr = "none" THEN "volumes" ELSE "verifying"
                              /\ UNCHANGED <<row, base, worked>>
  /\ UNCHANGED <<fixed, record, complete, intent, docker, faults>>

(* Resources without a record are not adopted.                                *)
Probe ==
  Move("probing", IF ctr # "none" \/ volume # 0 \/ network THEN "undoing"
                  ELSE IF fixed THEN "recording" ELSE "confirming")

(* storage.reserve and confirmReservation.                                    *)
Record ==
  /\ step = "recording" /\ record' = TRUE /\ step' = "confirming"
  /\ UNCHANGED <<fixed, row, complete, intent, docker, fresh, base, worked, faults>>

Confirm ==
  /\ step = "confirming" /\ row' = "reserved"
  /\ step' = IF fixed THEN "imaging" ELSE "volumes"
  /\ UNCHANGED <<fixed, record, complete, intent, docker, fresh, base, worked, faults>>

(* A command or write of the preflight fails.                                 *)
PreflightFails ==
  /\ step \in {"probing", "recording", "confirming"} /\ Fault
  /\ step' = "undoing"
  /\ UNCHANGED <<fixed, store, docker, fresh, base, worked>>

ForgetRow ==
  /\ row' = "absent" /\ record' = FALSE /\ complete' = FALSE
  /\ UNCHANGED intent

(* The rejected reservation is forgotten; if that fails it stays unconfirmed. *)
Undo ==
  /\ step = "undoing"
  /\ \/ /\ ForgetRow /\ step' \in {"idle", "quarantined"}
        /\ UNCHANGED faults
     \/ /\ Fault /\ step' = "quarantined"
        /\ UNCHANGED store
  /\ UNCHANGED <<fixed, docker, fresh, base, worked>>

-----------------------------------------------------------------------------
(* CallerStorage.manage: a privileged helper container.                       *)

(* The intent is stored before the helper is created and started; one that is *)
(* stored already is an error.                                               *)
Intend ==
  /\ step = "imaging"
  /\ ~intent
  /\ intent' = TRUE /\ helpers' = helpers + 1 /\ step' = "helping"
  /\ UNCHANGED <<fixed, row, record, complete, image, volume, network, ctr, wall, late, volumes,
                 fresh, base, worked, faults>>

(* runStorageManager in the helper: the catalog has the image before it is    *)
(* formatted; an interrupted formatting is never repeated.                   *)
Format ==
  /\ helpers > 0 /\ fresh /\ step # "erased"
  /\ \/ image = "none" /\ image' = "allocating"
     \/ image = "allocating" /\ image' = "ready"
  /\ UNCHANGED <<fixed, store, helpers, volume, network, ctr, wall, late, volumes,
                 step, fresh, base, worked, faults>>

(* cleanup: the helper is removed by its identity and looked for again before *)
(* its intent goes; otherwise the scope is quarantined.                      *)
Cleanup(ok, bad) ==
  \/ intent' = FALSE /\ helpers' = 0 /\ step' = ok /\ UNCHANGED faults
  \/ Fault /\ step' = bad /\ UNCHANGED <<intent, helpers>>

(* With a bug: the end of the helper is taken for its success.                *)
AnyAnswer ==
  /\ step = "helping"
  /\ Cleanup(IF ctr = "none" THEN "volumes" ELSE "verifying", "stopping")
  /\ UNCHANGED <<fixed, row, record, complete, image, volume, network, ctr, wall, late, volumes,
                 fresh, base, worked>>

(* The helper is over, has failed, or its answer is no longer waited for.     *)
HelperAnswers ==
  /\ step = "helping"
  /\ \/ image = "ready" /\ Cleanup(IF ctr = "none" THEN "volumes" ELSE "verifying", "stopping")
     \/ Cleanup("stopping", "stopping")
  /\ UNCHANGED <<fixed, row, record, complete, image, volume, network, ctr, wall, late, volumes,
                 fresh, base, worked>>

-----------------------------------------------------------------------------
(* Volume, network, container, firewall.                                      *)

(* A command fails: without effect, or with one that may come later.          *)
Fails(what) ==
  /\ Fault /\ step' = "stopping"
  /\ late' \in {late, late \cup {what}}

(* Only a fresh reservation makes storage; a retained scope that lost it, or  *)
(* whose first allocation was interrupted, is refused.                       *)
Volume ==
  /\ step = "volumes"
  /\ \/ /\ volume # 0 /\ step' = IF fresh \/ complete THEN "network" ELSE "stopping"
        /\ UNCHANGED <<volume, volumes, late, faults>>
     \/ /\ volume = 0 /\ ~fresh /\ step' = "stopping"
        /\ UNCHANGED <<volume, volumes, late, faults>>
     \/ /\ volume = 0 /\ fresh /\ volume' = volumes + 1 /\ volumes' = volumes + 1
        /\ step' = "network" /\ UNCHANGED <<late, faults>>
     \/ volume = 0 /\ fresh /\ Fails("volume") /\ UNCHANGED <<volume, volumes>>
  /\ UNCHANGED <<fixed, store, helpers, image, network, ctr, wall, fresh, base, worked>>

Network ==
  /\ step = "network"
  /\ \/ network' = TRUE /\ step' = "creating" /\ UNCHANGED <<late, faults>>
     \/ ~network /\ Fails("network") /\ UNCHANGED network
  /\ UNCHANGED <<fixed, store, helpers, image, volume, volumes, ctr, wall, fresh, base, worked>>

Create ==
  /\ step = "creating"
  /\ \/ /\ ctr = "none" /\ volume # 0 /\ network /\ ctr' = "created" /\ step' = "verifying"
        /\ UNCHANGED <<late, faults>>
     \/ Fails("create") /\ UNCHANGED ctr
     \/ /\ ctr # "none" \/ volume = 0 \/ ~network
        /\ step' = "stopping" /\ UNCHANGED <<ctr, late, faults>>
  /\ UNCHANGED <<fixed, store, helpers, image, volume, volumes, network, wall, fresh, base, worked>>

(* The container is validated and its volumes are looked for again.           *)
Verify == Move("verifying", IF ctr = "none" \/ volume = 0 THEN "stopping" ELSE "starting")

(* A container that runs already is not started.                              *)
Start ==
  /\ step = "starting"
  /\ \/ ctr = "running" /\ step' = "walling" /\ UNCHANGED <<ctr, wall, late, faults>>
     \/ /\ ctr = "created" /\ ctr' = "running" /\ wall' = FALSE /\ step' = "walling"
        /\ UNCHANGED <<late, faults>>
     \/ ctr = "none" /\ step' = "stopping" /\ UNCHANGED <<ctr, wall, late, faults>>
     \/ ctr = "created" /\ Fails("start") /\ UNCHANGED <<ctr, wall>>
  /\ UNCHANGED <<fixed, store, helpers, image, volume, volumes, network, fresh, base, worked>>

(* The broker firewall is set on every acquisition.                           *)
Wall ==
  /\ step = "walling"
  /\ \/ ctr = "running" /\ wall' = TRUE /\ step' = "checking" /\ UNCHANGED faults
     \/ Fault /\ step' = "stopping" /\ UNCHANGED wall
     \/ ctr # "running" /\ step' = "stopping" /\ UNCHANGED <<wall, faults>>
  /\ UNCHANGED <<fixed, store, helpers, image, volume, volumes, network, ctr, late, fresh, base, worked>>

(* checkStorage, then the allocation is on record as complete.  No command is *)
(* assumed to be delayed past the next successful acquisition.               *)
Check ==
  /\ step = "checking"
  /\ \/ /\ ctr = "running" /\ late = {} /\ complete' = TRUE /\ step' = "held"
        /\ worked' = IF worked = 0 THEN volume ELSE worked
        /\ UNCHANGED faults
     \/ Fault /\ step' = "stopping" /\ UNCHANGED <<complete, worked>>
  /\ UNCHANGED <<fixed, row, record, intent, docker, fresh, base>>

(* The execution is over: the container goes on running, or is stopped.       *)
Release == Move("held", "idle") \/ Move("held", "stopping")

(* stop: what may be left of a helper is reconciled and the container stopped; *)
(* both are confirmed, or the scope is quarantined.                           *)
Stop ==
  LET stopped == IF ctr = "running" THEN "created" ELSE ctr IN
  /\ step = "stopping"
  /\ \/ /\ intent' = FALSE /\ helpers' = IF intent THEN 0 ELSE helpers
        /\ ctr' = stopped /\ wall' = FALSE
        /\ step' \in {"idle", "quarantined"} /\ UNCHANGED faults
     \/ /\ Fault /\ step' = "quarantined"
        /\ ctr' \in {ctr, stopped} /\ wall' = (wall /\ ctr' = "running")
        /\ UNCHANGED <<intent, helpers>>
  /\ UNCHANGED <<fixed, row, record, complete, image, volume, volumes, network, late,
                 fresh, base, worked>>

-----------------------------------------------------------------------------
(* Restart and offline administration.                                        *)

(* The daemon is closed or killed at any step; Docker goes on.                *)
Kill ==
  /\ step # "down" /\ Fault
  /\ step' = "down"
  /\ UNCHANGED <<fixed, store, docker, fresh, base, worked>>

(* initialize: helpers are reconciled, unrecorded containers refused, retained *)
(* ones stopped; a container proves its allocation complete.                 *)
Restart ==
  /\ step = "down"
  /\ row = "absent" => ctr = "none"
  /\ intent' = FALSE /\ helpers' = IF intent THEN 0 ELSE helpers
  /\ IF row = "reserved"
     THEN /\ complete' = (complete \/ ctr # "none")
          /\ ctr' = IF ctr = "running" THEN "created" ELSE ctr
          /\ wall' = FALSE
     ELSE UNCHANGED <<complete, ctr, wall>>
  /\ step' = "idle"
  /\ UNCHANGED <<fixed, row, record, image, volume, volumes, network, late, fresh, base, worked, faults>>

(* remove with the data: the container, its network and volume, the image and *)
(* last the record, each after its checks; a step that fails is repeated by   *)
(* another removal.                                                          *)
BeginRemove ==
  /\ step = "down" /\ row # "absent" /\ ctr # "running" /\ Fault
  /\ intent' = FALSE /\ helpers' = IF intent THEN 0 ELSE helpers
  /\ step' = IF fixed /\ ~record /\ row = "pending"
             THEN IF ctr # "none" \/ network \/ volume # 0 THEN "down" ELSE "forgetting"
             ELSE "removing"
  /\ UNCHANGED <<fixed, row, record, complete, image, volume, volumes, network, ctr, wall, late,
                 fresh, base, worked>>

RemoveContainer ==
  /\ step = "removing" /\ ctr # "running"
  /\ ctr' = "none" /\ network' = FALSE /\ step' = "unmounting"
  /\ UNCHANGED <<fixed, store, helpers, image, volume, volumes, wall, late, fresh, base, worked, faults>>

RemoveVolume ==
  /\ step = "unmounting" /\ ctr = "none"
  /\ volume' = 0 /\ step' = IF fixed THEN "erasing" ELSE "forgetting"
  /\ UNCHANGED <<fixed, store, helpers, image, volumes, network, ctr, wall, late, fresh, base, worked, faults>>

(* The helper deletes file and catalog row.                                   *)
Erase ==
  /\ step = "erasing"
  /\ intent' = TRUE /\ helpers' = helpers + 1 /\ image' = "none" /\ step' = "erased"
  /\ UNCHANGED <<fixed, row, record, complete, volume, volumes, network, ctr, wall, late,
                 fresh, base, worked, faults>>

Erased ==
  /\ step = "erased" /\ Cleanup("forgetting", "down")
  /\ UNCHANGED <<fixed, row, record, complete, image, volume, network, ctr, wall, late, volumes,
                 fresh, base, worked>>

(* forget refuses while a helper's termination is not confirmed.              *)
Forget ==
  /\ step = "forgetting" /\ ~intent
  /\ ForgetRow /\ step' = "down"
  /\ UNCHANGED <<fixed, docker, fresh, base, worked, faults>>

-----------------------------------------------------------------------------
(* Docker on its own.                                                         *)

(* A command that was given up takes effect, or turns out to have none.       *)
TakesEffect ==
  \E what \in late :
    /\ late' = late \ {what}
    /\ volume' = IF what = "volume" /\ volume = 0 THEN volumes + 1 ELSE volume
    /\ volumes' = IF volume' > volumes THEN volume' ELSE volumes
    /\ network' = (network \/ what = "network")
    /\ ctr' = IF what = "create" /\ ctr = "none" /\ volume # 0 /\ network THEN "created"
              ELSE IF what = "start" /\ ctr = "created" THEN "running" ELSE ctr
    /\ UNCHANGED <<fixed, store, helpers, image, wall, step, fresh, base, worked, faults>>

(* The container dies, or someone removes it, or the storage nobody uses.  A  *)
(* death after the firewall was set, that a late start undoes, is left out.  *)
Lose ==
  /\ Fault /\ step \notin {"checking", "held"}
  /\ \/ ctr = "running" /\ ctr' = "created" /\ wall' = FALSE /\ UNCHANGED volume
     \/ ctr = "created" /\ ctr' = "none" /\ UNCHANGED <<volume, wall>>
     \/ ctr = "none" /\ volume # 0 /\ volume' = 0 /\ UNCHANGED <<ctr, wall>>
  /\ UNCHANGED <<fixed, store, helpers, image, network, late, volumes, step, fresh, base, worked>>

Next ==
  \/ Acquire \/ Probe \/ Record \/ Confirm \/ PreflightFails \/ Undo
  \/ Intend \/ Format \/ HelperAnswers
  \/ Volume \/ Network \/ Create \/ Verify \/ Start \/ Wall \/ Check \/ Release \/ Stop
  \/ Kill \/ Restart \/ BeginRemove \/ RemoveContainer \/ RemoveVolume \/ Erase \/ Erased \/ Forget
  \/ TakesEffect \/ Lose

Spec == Init /\ [][Next]_vars

-----------------------------------------------------------------------------

(* A caller works on storage made for its present record, and on the same    *)
(* storage as ever: neither orphans nor replacements are adopted, whatever   *)
(* was lost, interrupted or answered late.                                  *)
OwnStorage ==
  step = "held" => /\ volume > base /\ volume = worked
                   /\ fixed => image = "ready"

(* It works behind the firewall, and never beside a privileged helper.        *)
WalledWork == step = "held" => ctr = "running" /\ wall /\ helpers = 0

(* One privileged helper at a time, also across a kill of the daemon.         *)
OneHelper == helpers <= 1

(* A scope without a record leaves no image behind: it could neither be found *)
(* again nor be deleted, and would be charged to the pool for ever.          *)
NoLostImage == row = "absent" => image = "none" /\ helpers = 0

(* A scope that is given back, after a failure or a restart too, has no      *)
(* privileged helper and none on record.                                     *)
QuietWhenIdle == step = "idle" => helpers = 0 /\ ~intent

=============================================================================
