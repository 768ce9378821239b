------------------------ MODULE CallerAllocation_proofs ------------------------
(***************************************************************************)
(* What a caller's scope promises holds however many commands fail, are    *)
(* answered late or are cut off by a kill.  The inductive invariant says   *)
(* at which steps a helper may be left, what a record without an image     *)
(* means, and which storage a late command may still make.  The second     *)
(* part is about the state directory that keeps the scopes' rows.          *)
(***************************************************************************)
EXTENDS CallerAllocation, CallerStore, FiniteSetTheorems, TLAPS

Preflight == {"probing", "recording", "confirming", "undoing"}
Helping == {"imaging", "helping"}
Preparing == {"volumes", "network", "creating", "verifying", "starting", "walling", "checking"}
Removing == {"removing", "unmounting", "erasing", "erased"}

(* Types, one kind of value at a time.                                        *)
Flags ==
  /\ fixed \in BOOLEAN /\ record \in BOOLEAN /\ complete \in BOOLEAN /\ intent \in BOOLEAN
  /\ network \in BOOLEAN /\ wall \in BOOLEAN /\ fresh \in BOOLEAN
Labels ==
  /\ row \in {"absent", "pending", "reserved"} /\ image \in {"none", "allocating", "ready"}
  /\ ctr \in {"none", "created", "running"} /\ step \in Steps
  /\ late \subseteq {"volume", "network", "create", "start"}
Counters ==
  /\ helpers \in Nat /\ volume \in Nat /\ base \in Nat /\ worked \in Nat /\ volumes \in Nat
  /\ volume <= volumes /\ base <= volumes /\ worked <= volumes
  /\ faults \in Nat /\ faults <= MaxFaults
Types == Flags /\ Labels /\ Counters

(* A helper is on record while it may run, and no step but these leaves one.  *)
HelperOnRecord ==
  /\ helpers > 0 => intent
  /\ OneHelper
  /\ intent => step \in {"helping", "erased", "stopping", "quarantined", "down"}

(* The record that each step relies on.                                       *)
RowAtStep ==
  /\ step \in Preflight => row = "pending" /\ image = "none"
  /\ step \in Helping \cup Preparing \cup {"held", "stopping"} => row = "reserved"
  /\ step \in Removing => row # "absent"
  /\ step \in Helping \cup {"erasing", "erased"} => fixed

(* An image or a helper has a record, of the pool as well as of the scope.    *)
ImageHasRecord ==
  /\ NoLostImage
  /\ ~fixed => image = "none" /\ helpers = 0
  /\ row = "pending" /\ ~record => image = "none" /\ helpers = 0
  /\ fixed /\ step \in Removing => record \/ row = "reserved"
  /\ step = "forgetting" => image = "none"
  /\ step = "erased" => image = "none"
  /\ fixed /\ step \in Preparing \cup {"held"} => image = "ready"

(* Storage is the present record's, and the caller's work stays on it.        *)
StorageIsOwn ==
  /\ volume # 0 /\ (row = "reserved" \/ step \in {"recording", "confirming"}) => volume > base
  /\ ctr # "none" => volume # 0
  /\ row # "absent" /\ worked # 0 =>
       /\ row = "reserved" /\ volume \in {0, worked} /\ "volume" \notin late
       /\ step \in Helping \cup Preparing => ~fresh

(* From its firewall on, a container goes on running.                         *)
Walled == step \in {"checking", "held"} => ctr = "running" /\ wall

IInv ==
  /\ Types /\ HelperOnRecord /\ RowAtStep /\ ImageHasRecord /\ StorageIsOwn /\ Walled
  /\ step = "held" => volume = worked

-----------------------------------------------------------------------------
(* At the start there is neither record nor resource. *)
THEOREM InitInvariant == Init => IInv
<1> SUFFICES ASSUME Init PROVE IInv
  OBVIOUS
<1> USE ConstantsOK DEF Init
<1>1. Types
  <2>1. Flags
    BY Zenon DEF Flags
  <2>2. Labels
    BY DEF Labels, Steps
  <2>3. Counters
    BY DEF Counters
  <2> QED BY <2>1, <2>2, <2>3 DEF Types
<1>2. HelperOnRecord /\ RowAtStep /\ ImageHasRecord /\ Walled
  BY DEF HelperOnRecord, OneHelper, RowAtStep, ImageHasRecord, NoLostImage, Walled,
     Preflight, Helping, Preparing, Removing
<1>3. StorageIsOwn
  BY DEF StorageIsOwn, Helping, Preparing
<1> QED BY <1>1, <1>2, <1>3 DEF IInv

-----------------------------------------------------------------------------
(* An acquisition, record by record.                                          *)
Acquired ==
  /\ step = "idle" /\ UNCHANGED <<fixed, record, complete, intent, docker, faults>>
  /\ \/ /\ row = "absent" /\ row' = "pending" /\ fresh' = TRUE
        /\ base' = volumes /\ worked' = 0 /\ step' = "probing"
     \/ /\ row = "pending" /\ step' = "quarantined" /\ UNCHANGED <<row, fresh, base, worked>>
     \/ /\ row = "reserved" /\ fresh' = FALSE /\ UNCHANGED <<row, base, worked>>
        /\ step' = IF fixed THEN "imaging" ELSE IF ctr = "none" THEN "volumes" ELSE "verifying"

(* Acquiring a scope (acquireInternal) is one of the three cases of Acquired. *)
LEMMA Acquires ==
  ASSUME IInv, Acquire
  PROVE  Acquired
<1> USE DEF Acquired
<1>1. row \in {"absent", "pending", "reserved"}
  BY DEF IInv, Types, Labels
<1>2. CASE row = "absent"
  BY <1>2 DEF Acquire
<1>3. CASE row = "pending"
  BY <1>3 DEF Acquire
<1>4. CASE row = "reserved"
  BY <1>4 DEF Acquire
<1> QED BY <1>1, <1>2, <1>3, <1>4

(* The labels keep to their types. *)
LEMMA LabelsStay ==
  ASSUME IInv, Next
  PROVE  Labels'
<1>0. Acquire => Acquired
  BY Acquires
<1> USE ConstantsOK DEF IInv, Move, Fault, store, docker
<1> USE DEF Types, Labels, Steps
<1>1. CASE Acquire
  BY <1>0, <1>1 DEF Acquired
<1>2. CASE Probe \/ Record \/ Confirm \/ PreflightFails \/ Undo
  BY <1>2 DEF Probe, Record, Confirm, PreflightFails, Undo, ForgetRow
<1>3. CASE Intend \/ Format \/ HelperAnswers
  BY <1>3 DEF Intend, Format, HelperAnswers, Cleanup
<1>4. CASE Volume \/ Network \/ Create
  BY <1>4 DEF Volume, Network, Create, Fails
<1>5. CASE Verify \/ Start \/ Wall \/ Check
  BY <1>5 DEF Verify, Start, Wall, Check, Fails
<1>6. CASE Release \/ Stop
  BY <1>6 DEF Release, Stop
<1>7. CASE Kill \/ Restart
  BY <1>7 DEF Kill, Restart
<1>8. CASE BeginRemove \/ RemoveContainer \/ RemoveVolume \/ Erase \/ Erased \/ Forget
  BY <1>8 DEF BeginRemove, RemoveContainer, RemoveVolume, Erase, Erased, Forget, Cleanup, ForgetRow
<1>9. CASE TakesEffect \/ Lose
  BY <1>9 DEF TakesEffect, Lose
<1> QED BY <1>1, <1>2, <1>3, <1>4, <1>5, <1>6, <1>7, <1>8, <1>9 DEF Next

(* So do the counters. *)
LEMMA CountersStay ==
  ASSUME IInv, Next
  PROVE  Counters'
<1>0. Acquire => Acquired
  BY Acquires
<1> USE ConstantsOK DEF IInv, Move, Fault, store, docker
<1> USE DEF Types, Labels, Counters
<1>1. CASE Acquire
  BY <1>0, <1>1 DEF Acquired
<1>2. CASE Probe \/ Record \/ Confirm \/ PreflightFails \/ Undo
  BY <1>2 DEF Probe, Record, Confirm, PreflightFails, Undo, ForgetRow
<1>3. CASE Intend \/ Format \/ HelperAnswers
  BY <1>3 DEF Intend, Format, HelperAnswers, Cleanup
<1>4. CASE Volume \/ Network \/ Create
  BY <1>4 DEF Volume, Network, Create, Fails
<1>5. CASE Verify \/ Start \/ Wall \/ Check
  BY <1>5 DEF Verify, Start, Wall, Check, Fails
<1>6. CASE Release \/ Stop
  BY <1>6 DEF Release, Stop
<1>7. CASE Kill \/ Restart
  BY <1>7 DEF Kill, Restart
<1>8. CASE BeginRemove \/ RemoveContainer \/ RemoveVolume \/ Erase \/ Erased \/ Forget
  BY <1>8 DEF BeginRemove, RemoveContainer, RemoveVolume, Erase, Erased, Forget, Cleanup, ForgetRow
<1>9. CASE TakesEffect \/ Lose
  BY <1>9 DEF TakesEffect, Lose
<1> QED BY <1>1, <1>2, <1>3, <1>4, <1>5, <1>6, <1>7, <1>8, <1>9 DEF Next

(* So do the flags. *)
LEMMA FlagsStay ==
  ASSUME IInv, Next
  PROVE  Flags'
<1>0. Acquire => Acquired
  BY Acquires
<1> USE ConstantsOK DEF IInv, Move, Fault, store, docker
<1> USE DEF Types, Flags
<1>1. CASE Acquire
  BY <1>0, <1>1 DEF Acquired
<1>2. CASE Probe \/ Record \/ Confirm \/ PreflightFails \/ Undo
  BY <1>2 DEF Probe, Record, Confirm, PreflightFails, Undo, ForgetRow
<1>3. CASE Intend \/ Format \/ HelperAnswers
  BY <1>3 DEF Intend, Format, HelperAnswers, Cleanup
<1>4. CASE Volume \/ Network \/ Create
  BY <1>4 DEF Volume, Network, Create, Fails
<1>5. CASE Verify \/ Start \/ Wall \/ Check
  BY <1>5 DEF Verify, Start, Wall, Check, Fails
<1>6. CASE Release \/ Stop
  BY <1>6 DEF Release, Stop
<1>7. CASE Kill \/ Restart
  BY <1>7 DEF Kill, Restart
<1>8. CASE BeginRemove \/ RemoveContainer \/ RemoveVolume \/ Erase \/ Erased \/ Forget
  BY <1>8 DEF BeginRemove, RemoveContainer, RemoveVolume, Erase, Erased, Forget, Cleanup, ForgetRow
<1>9. CASE TakesEffect \/ Lose
  BY <1>9 DEF TakesEffect, Lose
<1> QED BY <1>1, <1>2, <1>3, <1>4, <1>5, <1>6, <1>7, <1>8, <1>9 DEF Next

(* A helper stays on record until it is gone. *)
LEMMA HelpersStay ==
  ASSUME IInv, Next
  PROVE  HelperOnRecord'
<1>0. Acquire => Acquired
  BY Acquires
<1> USE ConstantsOK DEF IInv, Move, Fault, store, docker
<1> USE DEF Types, Labels, Counters, Steps, HelperOnRecord, OneHelper
<1>1. CASE Acquire
  BY <1>0, <1>1 DEF Acquired
<1>2. CASE Probe \/ Record \/ Confirm \/ PreflightFails \/ Undo
  BY <1>2 DEF Probe, Record, Confirm, PreflightFails, Undo, ForgetRow
<1>3. CASE Intend \/ Format \/ HelperAnswers
  BY <1>3 DEF Intend, Format, HelperAnswers, Cleanup
<1>4. CASE Volume \/ Network \/ Create
  BY <1>4 DEF Volume, Network, Create, Fails
<1>5. CASE Verify \/ Start \/ Wall \/ Check
  BY <1>5 DEF Verify, Start, Wall, Check, Fails
<1>6. CASE Release \/ Stop
  BY <1>6 DEF Release, Stop
<1>7. CASE Kill \/ Restart
  BY <1>7 DEF Kill, Restart
<1>8. CASE BeginRemove \/ RemoveContainer \/ RemoveVolume \/ Erase \/ Erased \/ Forget
  BY <1>8 DEF BeginRemove, RemoveContainer, RemoveVolume, Erase, Erased, Forget, Cleanup, ForgetRow
<1>9. CASE TakesEffect \/ Lose
  BY <1>9 DEF TakesEffect, Lose
<1> QED BY <1>1, <1>2, <1>3, <1>4, <1>5, <1>6, <1>7, <1>8, <1>9 DEF Next

(* Each step finds its record. *)
LEMMA RowsStay ==
  ASSUME IInv, Next
  PROVE  RowAtStep'
<1>0. Acquire => Acquired
  BY Acquires
<1> USE ConstantsOK DEF IInv, Move, Fault, store, docker
<1> USE DEF Types, Labels, Counters, Steps, RowAtStep, Preflight, Helping, Preparing, Removing
<1>1. CASE Acquire
  <2>1. \/ row' = "pending" /\ step' = "probing" /\ image' = image /\ row = "absent"
        \/ step' = "quarantined"
        \/ row' = "reserved" /\ step' \in {"volumes", "verifying"}
        \/ row' = "reserved" /\ step' = "imaging" /\ fixed'
    <3>1. CASE row = "reserved" /\ fixed
      BY <1>0, <1>1, <3>1 DEF Acquired
    <3>2. CASE row = "reserved" /\ ~fixed
      BY <1>0, <1>1, <3>2 DEF Acquired
    <3>3. CASE row # "reserved"
      BY <1>0, <1>1, <3>3 DEF Acquired
    <3> QED BY <3>1, <3>2, <3>3
  <2> QED BY <2>1 DEF ImageHasRecord, NoLostImage
<1>2. CASE Probe \/ Record \/ Confirm \/ PreflightFails \/ Undo
  BY <1>2 DEF Probe, Record, Confirm, PreflightFails, Undo, ForgetRow
<1>3. CASE Intend \/ Format \/ HelperAnswers
  <2>1. CASE Intend
    BY <2>1 DEF Intend
  <2>2. CASE Format
    BY <2>2 DEF Format, HelperOnRecord
  <2>3. CASE HelperAnswers
    <3>1. row' = "reserved" /\ step' \in {"volumes", "verifying", "stopping"}
      BY <2>3 DEF HelperAnswers, Cleanup
    <3> QED BY <3>1
  <2> QED BY <1>3, <2>1, <2>2, <2>3
<1>4. CASE Volume \/ Network \/ Create
  BY <1>4 DEF Volume, Network, Create, Fails
<1>5. CASE Verify \/ Start \/ Wall \/ Check
  BY <1>5 DEF Verify, Start, Wall, Check, Fails
<1>6. CASE Release \/ Stop
  BY <1>6 DEF Release, Stop
<1>7. CASE Kill \/ Restart
  BY <1>7 DEF Kill, Restart
<1>8. CASE BeginRemove \/ RemoveContainer \/ RemoveVolume \/ Erase \/ Erased \/ Forget
  BY <1>8 DEF BeginRemove, RemoveContainer, RemoveVolume, Erase, Erased, Forget, Cleanup, ForgetRow
<1>9. CASE TakesEffect \/ Lose
  BY <1>9 DEF TakesEffect, Lose
<1> QED BY <1>1, <1>2, <1>3, <1>4, <1>5, <1>6, <1>7, <1>8, <1>9 DEF Next

(* An image keeps its record. *)
LEMMA ImagesStay ==
  ASSUME IInv, Next
  PROVE  ImageHasRecord'
<1>0. Acquire => Acquired
  BY Acquires
<1> USE ConstantsOK DEF IInv, Move, Fault, store, docker
<1> USE DEF Types, Labels, Counters, Steps, HelperOnRecord, OneHelper, RowAtStep, ImageHasRecord, NoLostImage,
     Preflight, Helping, Preparing, Removing
<1>1. CASE Acquire
  BY <1>0, <1>1 DEF Acquired
<1>2. CASE Probe \/ Record \/ Confirm \/ PreflightFails \/ Undo
  BY <1>2 DEF Probe, Record, Confirm, PreflightFails, Undo, ForgetRow
<1>3. CASE Intend \/ Format \/ HelperAnswers
  BY <1>3 DEF Intend, Format, HelperAnswers, Cleanup
<1>4. CASE Volume \/ Network \/ Create
  BY <1>4 DEF Volume, Network, Create, Fails
<1>5. CASE Verify \/ Start \/ Wall \/ Check
  BY <1>5 DEF Verify, Start, Wall, Check, Fails
<1>6. CASE Release \/ Stop
  BY <1>6 DEF Release, Stop
<1>7. CASE Kill \/ Restart
  BY <1>7 DEF Kill, Restart
<1>8. CASE BeginRemove \/ RemoveContainer \/ RemoveVolume \/ Erase \/ Erased \/ Forget
  BY <1>8 DEF BeginRemove, RemoveContainer, RemoveVolume, Erase, Erased, Forget, Cleanup, ForgetRow
<1>9. CASE TakesEffect \/ Lose
  BY <1>9 DEF TakesEffect, Lose
<1> QED BY <1>1, <1>2, <1>3, <1>4, <1>5, <1>6, <1>7, <1>8, <1>9 DEF Next

(* Storage is neither adopted nor replaced. *)
LEMMA StorageStays ==
  ASSUME IInv, Next
  PROVE  StorageIsOwn'
<1>0. Acquire => Acquired
  BY Acquires
<1> USE ConstantsOK DEF IInv, Move, Fault, store, docker
<1> USE DEF Types, Labels, Counters, RowAtStep, StorageIsOwn, Preflight, Helping, Preparing, Removing
<1>1. CASE Acquire
  BY <1>0, <1>1 DEF Acquired
<1>2. CASE Probe \/ Record \/ Confirm \/ PreflightFails \/ Undo
  BY <1>2 DEF Probe, Record, Confirm, PreflightFails, Undo, ForgetRow
<1>3. CASE Intend \/ Format \/ HelperAnswers
  BY <1>3 DEF Intend, Format, HelperAnswers, Cleanup
<1>4. CASE Volume \/ Network \/ Create
  BY <1>4 DEF Volume, Network, Create, Fails
<1>5. CASE Verify \/ Start \/ Wall \/ Check
  BY <1>5 DEF Verify, Start, Wall, Check, Fails
<1>6. CASE Release \/ Stop
  BY <1>6 DEF Release, Stop
<1>7. CASE Kill \/ Restart
  BY <1>7 DEF Kill, Restart
<1>8. CASE BeginRemove \/ RemoveContainer \/ RemoveVolume \/ Erase \/ Erased \/ Forget
  BY <1>8 DEF BeginRemove, RemoveContainer, RemoveVolume, Erase, Erased, Forget, Cleanup, ForgetRow
<1>9. CASE TakesEffect \/ Lose
  BY <1>9 DEF TakesEffect, Lose
<1> QED BY <1>1, <1>2, <1>3, <1>4, <1>5, <1>6, <1>7, <1>8, <1>9 DEF Next

(* The container that is worked in goes on behind its firewall. *)
LEMMA WallsStay ==
  ASSUME IInv, Next
  PROVE  Walled' /\ (step' = "held" => volume' = worked')
<1>0. Acquire => Acquired
  BY Acquires
<1> USE ConstantsOK DEF IInv, Move, Fault, store, docker
<1> USE DEF Types, Labels, Counters, RowAtStep, StorageIsOwn, Walled, Helping, Preparing
<1>1. CASE Acquire
  BY <1>0, <1>1 DEF Acquired
<1>2. CASE Probe \/ Record \/ Confirm \/ PreflightFails \/ Undo
  BY <1>2 DEF Probe, Record, Confirm, PreflightFails, Undo, ForgetRow
<1>3. CASE Intend \/ Format \/ HelperAnswers
  BY <1>3 DEF Intend, Format, HelperAnswers, Cleanup
<1>4. CASE Volume \/ Network \/ Create
  BY <1>4 DEF Volume, Network, Create, Fails
<1>5. CASE Verify \/ Start \/ Wall \/ Check
  BY <1>5 DEF Verify, Start, Wall, Check, Fails
<1>6. CASE Release \/ Stop
  BY <1>6 DEF Release, Stop
<1>7. CASE Kill \/ Restart
  BY <1>7 DEF Kill, Restart
<1>8. CASE BeginRemove \/ RemoveContainer \/ RemoveVolume \/ Erase \/ Erased \/ Forget
  BY <1>8 DEF BeginRemove, RemoveContainer, RemoveVolume, Erase, Erased, Forget, Cleanup, ForgetRow
<1>9. CASE TakesEffect \/ Lose
  BY <1>9 DEF TakesEffect, Lose
<1> QED BY <1>1, <1>2, <1>3, <1>4, <1>5, <1>6, <1>7, <1>8, <1>9 DEF Next

-----------------------------------------------------------------------------
(* Every step keeps the scope in order. *)
THEOREM StepInvariant == IInv /\ [Next]_vars => IInv'
<1>1. ASSUME IInv, Next PROVE IInv'
  <2>1. Types'
    BY <1>1, LabelsStay, CountersStay, FlagsStay DEF Types
  <2> QED BY <1>1, <2>1, HelpersStay, RowsStay, ImagesStay, StorageStays, WallsStay DEF IInv
<1>2. ASSUME IInv, UNCHANGED vars PROVE IInv'
  <2>1. UNCHANGED <<fixed, row, record, complete, intent, helpers, image, volume, network, ctr, wall, late,
                    volumes, step, fresh, base, worked, faults>>
    BY <1>2 DEF vars, store, docker
  <2>2. Types'
    BY <1>2, <2>1 DEF IInv, Types, Flags, Labels, Counters
  <2>3. HelperOnRecord' /\ RowAtStep' /\ ImageHasRecord'
    BY <1>2, <2>1 DEF IInv, HelperOnRecord, OneHelper, RowAtStep, ImageHasRecord, NoLostImage
  <2>4. StorageIsOwn' /\ Walled' /\ (step' = "held" => volume' = worked')
    BY <1>2, <2>1 DEF IInv, StorageIsOwn, Walled
  <2> QED BY <2>2, <2>3, <2>4 DEF IInv
<1> QED BY <1>1, <1>2

(* The scope is in order at all times. *)
THEOREM Safety == Spec => []IInv
BY InitInvariant, StepInvariant, PTL DEF Spec

(* Every variable keeps to its type. *)
THEOREM TypeCorrect == Spec => []TypeOK
<1>1. ASSUME IInv PROVE TypeOK
  <2>1. {fixed, record, complete, intent, network, wall, fresh} \subseteq BOOLEAN
    BY <1>1 DEF IInv, Types, Flags
  <2>2. /\ row \in {"absent", "pending", "reserved"} /\ image \in {"none", "allocating", "ready"}
        /\ ctr \in {"none", "created", "running"} /\ step \in Steps
        /\ late \subseteq {"volume", "network", "create", "start"} /\ helpers \in Nat /\ volumes \in Nat
    BY <1>1 DEF IInv, Types, Labels, Counters
  <2>3. volume \in 0..volumes /\ base \in 0..volumes /\ worked \in 0..volumes /\ faults \in 0..MaxFaults
    BY <1>1, ConstantsOK DEF IInv, Types, Counters
  <2> QED BY <2>1, <2>2, <2>3 DEF TypeOK
<1> QED BY <1>1, Safety, PTL

(* A caller works on storage made for its present record, and on the same as  *)
(* ever, whatever was lost, interrupted or answered late. *)
THEOREM StorageIsTheCallers == Spec => []OwnStorage
<1>1. ASSUME IInv PROVE OwnStorage
  <2> SUFFICES ASSUME step = "held" PROVE volume > base /\ volume = worked /\ (fixed => image = "ready")
    BY DEF OwnStorage
  <2>1. row = "reserved" /\ ctr = "running"
    BY <1>1 DEF IInv, RowAtStep, Walled
  <2> QED BY <1>1, <2>1 DEF IInv, StorageIsOwn, ImageHasRecord
<1> QED BY <1>1, Safety, PTL

(* It works behind the firewall, and never beside a privileged helper. *)
THEOREM WorkIsWalled == Spec => []WalledWork
<1>1. ASSUME IInv PROVE WalledWork
  <2>1. step = "held" => ~intent
    BY <1>1 DEF IInv, HelperOnRecord
  <2>2. helpers \in Nat
    BY <1>1 DEF IInv, Types, Counters
  <2>3. ~intent => helpers = 0
    BY <1>1, <2>2 DEF IInv, HelperOnRecord
  <2> QED BY <1>1, <2>1, <2>3 DEF IInv, Walled, WalledWork
<1> QED BY <1>1, Safety, PTL

(* There is one privileged helper at a time, also across kills. *)
THEOREM OneHelperAtATime == Spec => []OneHelper
<1>1. IInv => OneHelper
  BY DEF IInv, HelperOnRecord
<1> QED BY <1>1, Safety, PTL

(* A scope without a record leaves no image and no helper behind. *)
THEOREM NoImageIsLost == Spec => []NoLostImage
<1>1. IInv => NoLostImage
  BY DEF IInv, ImageHasRecord
<1> QED BY <1>1, Safety, PTL

(* A scope that is given back has no helper, and none on record. *)
THEOREM IdleIsQuiet == Spec => []QuietWhenIdle
<1>1. ASSUME IInv PROVE QuietWhenIdle
  <2>1. step = "idle" => ~intent
    BY <1>1 DEF IInv, HelperOnRecord
  <2>2. helpers \in Nat
    BY <1>1 DEF IInv, Types, Counters
  <2>3. ~intent => helpers = 0
    BY <1>1, <2>2 DEF IInv, HelperOnRecord
  <2> QED BY <2>1, <2>3 DEF QuietWhenIdle
<1> QED BY <1>1, Safety, PTL

-----------------------------------------------------------------------------
(***************************************************************************)
(* The state directory, which the processes of one agent use one after the *)
(* other.  Whoever is at the manifest or the database has .guard and has   *)
(* seen no living owner, so that what it read there is still so.           *)
(***************************************************************************)
Opening == {"reading", "marking", "opening", "importing", "finishing", "claiming"}
Guarding == Opening \cup {"checking", "unlocking", "leaving"}

(* A process in its stage: what it has, and what it has read.                 *)
Stands(p) ==
  /\ proc[p].stage \in Guarding => guard = p
  /\ proc[p].stage \in Owning => owner = p
  /\ proc[p].stage \in Opening => owner = None \/ ~Alive(owner)
  /\ proc[p].stage \in {"marking", "opening", "importing", "finishing", "claiming", "locked"} =>
       proc[p].version >= 4 /\ proc[p].version >= manifest.version
  /\ proc[p].stage = "marking" => proc[p].seen = manifest
  /\ proc[p].stage \in {"opening", "importing", "finishing"} => (Migrating(p) <=> Unfinished)
  /\ proc[p].stage = "marking" => Migrating(p)
  /\ proc[p].stage = "importing" => database # "absent" /\ (database = "empty" => Unfinished)
  /\ proc[p].stage \in {"opening", "importing", "finishing", "claiming", "locked"} => manifest.version >= 4
  /\ proc[p].stage = "opening" /\ ~Unfinished => database # "absent"
  /\ proc[p].stage = "finishing" => database = "v4" /\ Unfinished
  /\ proc[p].stage \in {"claiming", "locked"} => database = "v4" /\ ~Unfinished

(* The manifest write under way is as new as whoever asked for it needs.      *)
Writes(p) ==
  /\ proc[p].stage # "locked" => proc[p].asked = <<>> /\ proc[p].writing = 0
  /\ \A i \in 1 .. Len(proc[p].asked) : proc[p].version >= Level[proc[p].asked[i].kind]
  /\ proc[p].writing # 0 =>
       /\ proc[p].asked # <<>> /\ proc[p].writing >= Level[proc[p].asked[1].kind]
       /\ proc[p].writing >= 4 /\ proc[p].writing >= manifest.version /\ proc[p].writing <= proc[p].version

Kept(s) == {c \in Contexts : <<s, c>> \in rows.context}

DirectoryInv ==
  /\ StoreTypeOK
  /\ \A p \in Procs : Stands(p) /\ Writes(p)
  /\ OldClientsStayOut
  /\ Unfinished /\ database = "v4" => json \subseteq rows.scopes
  /\ \A s \in Scopes : IsFiniteSet(Kept(s)) /\ Cardinality(Kept(s)) <= MaxContexts

LEMMA DirectoryStarts ==
  ASSUME StoreInit
  PROVE  DirectoryInv
<1> USE StoreConstantsOK DEF StoreInit, NewProcess, NoRows
<1>1. StoreTypeOK
  <2>1. NewProcess \in Processes
    BY DEF Processes, Stages
  <2>2. manifest \in [version : 0..8, importing : BOOLEAN]
    <3>1. [version : {0, 3, 4}, importing : {FALSE}] \subseteq [version : 0..8, importing : BOOLEAN]
      <4>1. {0, 3, 4} \subseteq 0..8 /\ {FALSE} \subseteq BOOLEAN
        OBVIOUS
      <4> QED
        BY ONLY <4>1
    <3> QED
      BY <3>1
  <2>3. json \subseteq Scopes /\ database \in {"absent", "empty", "v4"}
    OBVIOUS
  <2>4. rows \in [scopes : SUBSET Scopes, image : SUBSET Scopes, preparation : SUBSET Scopes,
                  federated : SUBSET Scopes, context : SUBSET (Scopes \X Contexts)]
    OBVIOUS
  <2> HIDE DEF NewProcess
  <2> QED
    BY <2>1, <2>2, <2>3, <2>4 DEF StoreTypeOK
<1>2. \A p \in Procs : Stands(p) /\ Writes(p)
  BY DEF Stands, Writes, Guarding, Opening, Owning
<1>3. OldClientsStayOut
  BY DEF OldClientsStayOut, Level
<1>4. \A s \in Scopes : Kept(s) = {}
  BY DEF Kept
<1>5. database # "v4"
  OBVIOUS
<1>6. \A s \in Scopes : IsFiniteSet(Kept(s)) /\ Cardinality(Kept(s)) <= MaxContexts
  <2>1. IsFiniteSet({}) /\ Cardinality({}) = 0
    BY FS_EmptySet
  <2>2. MaxContexts \in Nat /\ 0 <= MaxContexts
    OBVIOUS
  <2> QED
    BY ONLY <1>4, <2>1, <2>2
<1> QED
  BY <1>1, <1>2, <1>3, <1>5, <1>6 DEF DirectoryInv

LEMMA ProcessIs ==
  ASSUME StoreTypeOK, NEW p \in Procs, NEW x \in Processes, proc' = [proc EXCEPT ![p] = x]
  PROVE  /\ proc' \in [Procs -> Processes] /\ proc'[p] = x
         /\ \A q \in Procs : q # p => proc'[q] = proc[q]
BY DEF StoreTypeOK

(* A process steps while another stands where it does: either has the lock,   *)
(* or one is the living owner.                                                *)
LEMMA OthersStand ==
  ASSUME DirectoryInv, NEW p \in Procs, NEW x \in Processes,
         proc' = [proc EXCEPT ![p] = x], Alive(p), guard' = guard \/ guard \in {p, None},
         \/ UNCHANGED <<owner, manifest, database>>
         \/ guard = p /\ (owner = None \/ ~Alive(owner))
         \/ owner = p
  PROVE  \A q \in Procs : q # p => Stands(q)' /\ Writes(q)'
<1> SUFFICES ASSUME NEW q \in Procs, q # p PROVE Stands(q)' /\ Writes(q)'
  OBVIOUS
<1>1. proc'[q] = proc[q] /\ Stands(q) /\ Writes(q) /\ None \notin Procs /\ owner \in Procs \cup {None}
  BY ProcessIs, StoreConstantsOK DEF DirectoryInv, StoreTypeOK
<1>2. proc[q].stage \in Guarding => guard' = q
  BY <1>1 DEF Stands
<1>3. proc[q].stage \in Owning => Alive(q)
  BY DEF Owning, Alive
<1>4. CASE UNCHANGED <<owner, manifest, database>>
  <2>1. ASSUME proc[q].stage \in Opening
        PROVE  owner = None \/ ~Alive(owner)'
    <3>1. owner = None \/ ~Alive(owner)
      BY <1>1, <2>1 DEF Stands
    <3>2. owner # None => owner # p /\ proc'[owner] = proc[owner]
      BY <1>1, <3>1, ProcessIs DEF DirectoryInv
    <3> QED
      BY <1>4, <3>1, <3>2 DEF Alive
  <2>2. Unfinished' = Unfinished /\ (Migrating(q)' <=> Migrating(q))
    BY <1>1, <1>4 DEF Unfinished, Migrating
  <2>3. Stands(q)'
    BY <1>1, <1>2, <1>4, <2>1, <2>2 DEF Stands, Alive
  <2>4. Writes(q)'
    BY <1>1, <1>4 DEF Writes
  <2> QED
    BY <2>3, <2>4
<1>5. CASE \/ guard = p /\ (owner = None \/ ~Alive(owner))
           \/ owner = p
  <2>1. proc[q].stage \notin Opening
    BY <1>1, <1>5 DEF Stands, Guarding
  <2>2. proc[q].stage \notin Owning
    BY <1>1, <1>3, <1>5 DEF Stands
  <2>3. Stands(q)'
    BY <1>1, <1>2, <2>1, <2>2 DEF Stands, Opening, Owning
  <2>4. Writes(q)'
    BY <1>1, <2>2 DEF Writes, Owning
  <2> QED
    BY <2>3, <2>4
<1> QED
  BY <1>4, <1>5

(* A step at the lock touches neither the manifest nor the database.          *)
LEMMA LockSteps ==
  ASSUME DirectoryInv, NEW p \in Procs, NEW x \in Processes,
         proc' = [proc EXCEPT ![p] = x], Alive(p), guard' = guard \/ guard \in {p, None},
         guard' \in Procs \cup {None}, owner' \in Procs \cup {None},
         UNCHANGED owner \/ owner = p \/ (guard = p /\ (owner = None \/ ~Alive(owner))),
         UNCHANGED <<manifest, database, json, rows>>, Stands(p)', Writes(p)'
  PROVE  DirectoryInv'
<1>1. \A q \in Procs : Stands(q)' /\ Writes(q)'
  BY OthersStand
<1>2. StoreTypeOK'
  BY ProcessIs DEF DirectoryInv, StoreTypeOK
<1>3. OldClientsStayOut' /\ Unfinished' = Unfinished /\ \A s \in Scopes : Kept(s)' = Kept(s)
  BY DEF DirectoryInv, OldClientsStayOut, Unfinished, Kept
<1> QED
  BY <1>1, <1>2, <1>3 DEF DirectoryInv

(* A process that ends has nothing more to write.                             *)
LEMMA ProcessEnds ==
  ASSUME NEW p \in Procs, Exit(p)
  PROVE  \E x \in Processes : /\ proc' = [proc EXCEPT ![p] = x] /\ x.stage = "gone"
                                    /\ x.asked = <<>> /\ x.writing = 0
<1> DEFINE y == [NewProcess EXCEPT !.stage = "gone"]
<1>1. NewProcess \in Processes /\ NewProcess.asked = <<>> /\ NewProcess.writing = 0
  BY DEF NewProcess, Processes, Stages
<1>4. \A d \in Processes :
        [d EXCEPT !.stage = "gone"] \in {e \in Processes : /\ e.stage = "gone" /\ e.asked = d.asked
                                                               /\ e.writing = d.writing}
  BY DEF Processes, Stages
<1>2. proc' = [proc EXCEPT ![p] = y]
  BY DEF Exit
<1>3. y \in Processes /\ y.stage = "gone" /\ y.asked = <<>> /\ y.writing = 0
  BY <1>1, <1>4
<1> HIDE DEF y
<1> QED
  BY <1>2, <1>3

LEMMA EndsSafely ==
  ASSUME DirectoryInv, NEW p \in Procs, Exit(p), Alive(p),
         guard' = guard \/ (guard = p /\ guard' = None), UNCHANGED <<owner, manifest, database, json, rows>>
  PROVE  DirectoryInv'
<1>1. PICK x \in Processes : /\ proc' = [proc EXCEPT ![p] = x] /\ x.stage = "gone"
                                   /\ x.asked = <<>> /\ x.writing = 0
  BY ProcessEnds
<1>2. proc'[p] = x
  BY <1>1, ProcessIs DEF DirectoryInv
<1>3. Stands(p)' /\ Writes(p)'
  BY <1>1, <1>2 DEF Stands, Writes, Guarding, Opening, Owning
<1>4. guard' \in Procs \cup {None} /\ owner' \in Procs \cup {None}
  BY DEF DirectoryInv, StoreTypeOK
<1> QED
  BY <1>1, <1>3, <1>4, LockSteps

LEMMA ProcessGoes ==
  ASSUME StoreTypeOK, NEW p \in Procs, NEW stage \in Stages, Goto(p, stage)
  PROVE  \E x \in Processes :
           /\ proc' = [proc EXCEPT ![p] = x] /\ proc'[p] = x /\ x.stage = stage /\ x.seen = proc[p].seen
           /\ x.version = proc[p].version /\ x.asked = proc[p].asked /\ x.writing = proc[p].writing
<1> DEFINE y == [proc[p] EXCEPT !.stage = stage]
<1>1. /\ y \in Processes /\ y.stage = stage /\ y.seen = proc[p].seen
      /\ y.version = proc[p].version /\ y.asked = proc[p].asked /\ y.writing = proc[p].writing
  BY DEF StoreTypeOK, Processes
<1>2. proc' = [proc EXCEPT ![p] = y]
  BY DEF Goto
<1> HIDE DEF y
<1>3. proc'[p] = y
  BY <1>1, <1>2, ProcessIs
<1> QED
  BY <1>1, <1>2, <1>3

LEMMA LockHolds ==
  ASSUME DirectoryInv, NEW p \in Procs,
         \/ Guard(p) \/ CheckOwner(p) \/ Claim(p) \/ Unlock(p) \/ Disown(p)
         \/ Leave(p) \/ KillProcess(p)
  PROVE  DirectoryInv'
<1>1. /\ Stands(p) /\ Writes(p) /\ StoreTypeOK /\ guard \in Procs \cup {None} /\ owner \in Procs \cup {None}
      /\ None \notin Procs
  BY StoreConstantsOK DEF DirectoryInv, StoreTypeOK
<1>2. CASE Guard(p)
  <2>1. /\ proc[p].stage = "new" /\ guard = None /\ guard' = p /\ Goto(p, "checking")
        /\ UNCHANGED <<owner, manifest, database, json, rows>>
    BY <1>2 DEF Guard
  <2>2. PICK x \in Processes :
           /\ proc' = [proc EXCEPT ![p] = x] /\ proc'[p] = x /\ x.stage = "checking" /\ x.seen = proc[p].seen
           /\ x.version = proc[p].version /\ x.asked = proc[p].asked /\ x.writing = proc[p].writing
    BY <1>1, <2>1, ProcessGoes DEF Stages
  <2>3. Stands(p)' /\ Writes(p)'
    BY <1>1, <2>1, <2>2 DEF Stands, Writes, Guarding, Opening, Owning
  <2> QED
    BY <1>1, <2>1, <2>2, <2>3, LockSteps DEF Alive
<1>3. CASE CheckOwner(p)
  <2>1. proc[p].stage = "checking" /\ guard = p /\ UNCHANGED <<owner, manifest, database, json, rows>> /\ Alive(p)
    BY <1>1, <1>3 DEF CheckOwner, Stands, Guarding, Alive
  <2>2. CASE Exit(p) /\ guard' = None
    BY <1>1, <2>1, <2>2, EndsSafely
  <2>3. CASE (owner # None => ~Alive(owner)) /\ Goto(p, "reading") /\ UNCHANGED guard
    <3>1. PICK x \in Processes :
             /\ proc' = [proc EXCEPT ![p] = x] /\ proc'[p] = x /\ x.stage = "reading" /\ x.seen = proc[p].seen
             /\ x.version = proc[p].version /\ x.asked = proc[p].asked /\ x.writing = proc[p].writing
      BY <1>1, <2>3, ProcessGoes DEF Stages
    <3>2. owner # None => ~Alive(owner)'
      <4>1. owner # None => owner # p /\ proc'[owner] = proc[owner]
        BY <1>1, <2>1, <2>3, <3>1, ProcessIs
      <4> QED
        BY <2>1, <2>3, <4>1 DEF Alive
    <3>3. Stands(p)'
      BY <1>1, <2>1, <2>3, <3>1, <3>2 DEF Stands, Guarding, Opening, Owning, Alive
    <3>4. Writes(p)'
      BY <1>1, <2>1, <3>1 DEF Writes
    <3> QED
      BY <1>1, <2>1, <2>3, <3>1, <3>3, <3>4, LockSteps
  <2> QED
    BY <1>3, <2>2, <2>3 DEF CheckOwner
<1>4. CASE Claim(p)
  <2>1. /\ proc[p].stage = "claiming" /\ guard = p /\ guard' = None /\ owner' = p /\ Goto(p, "locked")
        /\ owner = None \/ ~Alive(owner)
        /\ UNCHANGED <<manifest, database, json, rows>>
    BY <1>1, <1>4 DEF Claim, Stands, Guarding, Opening
  <2>2. PICK x \in Processes :
           /\ proc' = [proc EXCEPT ![p] = x] /\ proc'[p] = x /\ x.stage = "locked" /\ x.seen = proc[p].seen
           /\ x.version = proc[p].version /\ x.asked = proc[p].asked /\ x.writing = proc[p].writing
    BY <1>1, <2>1, ProcessGoes DEF Stages
  <2>3. Unfinished' = Unfinished
    BY <2>1 DEF Unfinished
  <2>4. Stands(p)'
    BY <1>1, <2>1, <2>2, <2>3 DEF Stands, Guarding, Opening, Owning
  <2>5. Writes(p)'
    BY <1>1, <2>1, <2>2 DEF Writes
  <2> QED
    BY <1>1, <2>1, <2>2, <2>4, <2>5, LockSteps DEF Alive
<1>5. CASE Unlock(p)
  <2>1. /\ proc[p].stage = "locked" /\ guard = None /\ guard' = p /\ Goto(p, "unlocking")
        /\ proc[p].asked = <<>> /\ owner = p /\ UNCHANGED <<owner, manifest, database, json, rows>>
    BY <1>1, <1>5 DEF Unlock, Stands, Owning
  <2>2. PICK x \in Processes :
           /\ proc' = [proc EXCEPT ![p] = x] /\ proc'[p] = x /\ x.stage = "unlocking" /\ x.seen = proc[p].seen
           /\ x.version = proc[p].version /\ x.asked = proc[p].asked /\ x.writing = proc[p].writing
    BY <1>1, <2>1, ProcessGoes DEF Stages
  <2>3. Stands(p)'
    BY <2>1, <2>2 DEF Stands, Guarding, Opening, Owning
  <2>4. Writes(p)'
    BY <1>1, <2>1, <2>2 DEF Writes
  <2> QED
    BY <1>1, <2>1, <2>2, <2>3, <2>4, LockSteps DEF Alive
<1>6. CASE Disown(p)
  <2>1. /\ proc[p].stage = "unlocking" /\ guard = p /\ owner = p /\ owner' = None /\ Goto(p, "leaving")
        /\ UNCHANGED <<guard, manifest, database, json, rows>>
    BY <1>1, <1>6 DEF Disown, Stands, Owning, Guarding
  <2>2. PICK x \in Processes :
           /\ proc' = [proc EXCEPT ![p] = x] /\ proc'[p] = x /\ x.stage = "leaving" /\ x.seen = proc[p].seen
           /\ x.version = proc[p].version /\ x.asked = proc[p].asked /\ x.writing = proc[p].writing
    BY <1>1, <2>1, ProcessGoes DEF Stages
  <2>3. Stands(p)'
    BY <2>1, <2>2 DEF Stands, Guarding, Opening, Owning
  <2>4. Writes(p)'
    BY <1>1, <2>1, <2>2 DEF Writes
  <2> QED
    BY <1>1, <2>1, <2>2, <2>3, <2>4, LockSteps DEF Alive
<1>7. CASE Leave(p)
  <2>1. /\ proc[p].stage = "leaving" /\ guard = p /\ guard' = None /\ Exit(p)
        /\ UNCHANGED <<owner, manifest, database, json, rows>>
    BY <1>1, <1>7 DEF Leave, Stands, Guarding
  <2> QED
    BY <2>1, EndsSafely DEF Alive
<1>8. CASE KillProcess(p)
  BY <1>8, EndsSafely DEF KillProcess, Alive
<1> QED
  BY <1>2, <1>3, <1>4, <1>5, <1>6, <1>7, <1>8

LEMMA ManifestIsRead ==
  ASSUME DirectoryInv, NEW p \in Procs, ReadManifest(p)
  PROVE  DirectoryInv'
<1>1. /\ Stands(p) /\ Writes(p) /\ StoreTypeOK /\ guard \in Procs \cup {None} /\ owner \in Procs \cup {None}
      /\ None \notin Procs /\ proc[p] \in Processes /\ manifest \in [version : 0..8, importing : BOOLEAN]
  BY StoreConstantsOK DEF DirectoryInv, StoreTypeOK
<1> DEFINE migrating == manifest.version < 4 \/ manifest.importing
           refused == \/ manifest.version = 0 /\ (database # "absent" \/ json # {})
                      \/ ~migrating /\ database = "absent"
                      \/ manifest.version \in 1..3 /\ database # "absent"
           stage == IF migrating THEN "marking" ELSE "opening"
<1>2. /\ proc[p].stage = "reading" /\ guard = p /\ (owner = None \/ ~Alive(owner)) /\ Alive(p)
      /\ UNCHANGED <<owner, manifest, database, json, rows>>
  BY <1>1 DEF ReadManifest, Stands, Guarding, Opening, Alive
<1>3. CASE refused
  BY <1>2, <1>3, EndsSafely DEF ReadManifest
<1>4. CASE ~refused
  <2> DEFINE y == [proc[p] EXCEPT !.seen = manifest, !.version = Max2(4, manifest.version), !.stage = stage]
  <2>1. proc' = [proc EXCEPT ![p] = y] /\ UNCHANGED guard
    BY <1>4 DEF ReadManifest
  <2>2. /\ Max2(4, manifest.version) \in 0..8 /\ Max2(4, manifest.version) >= 4
        /\ Max2(4, manifest.version) >= manifest.version /\ stage \in Stages
    BY <1>1 DEF Max2, Stages
  <2>3. /\ y \in Processes /\ y.stage = stage /\ y.seen = manifest /\ y.asked = proc[p].asked
        /\ y.writing = proc[p].writing /\ y.version = Max2(4, manifest.version)
    BY <1>1, <2>2 DEF Processes
  <2> HIDE DEF y
  <2>4. proc'[p] = y
    BY <1>1, <2>1, <2>3, ProcessIs
  <2>5. migrating <=> Unfinished
    BY DEF Unfinished
  <2>6. /\ Unfinished' = Unfinished
        /\ Migrating(p)' <=> Unfinished
    BY <1>2, <2>3, <2>4 DEF Unfinished, Migrating
  <2>7. owner' # None => ~Alive(owner)'
    <3>1. owner # None => owner # p /\ proc'[owner] = proc[owner]
      BY <1>1, <1>2, <2>1, <2>3, ProcessIs
    <3> QED
      BY <1>2, <3>1 DEF Alive
  <2>8. stage = "opening" => manifest.version >= 4 /\ database # "absent"
    BY <1>1, <1>4
  <2>9. stage = "marking" => Unfinished
    BY <2>5
  <2>10. stage \in {"marking", "opening"} /\ (stage = "opening" => ~Unfinished)
    BY <2>5
  <2> HIDE DEF stage, migrating, refused
  <2>11. Stands(p)'
    BY <1>2, <2>1, <2>2, <2>3, <2>4, <2>6, <2>7, <2>8, <2>9, <2>10 DEF Stands, Guarding, Opening, Owning
  <2>12. Writes(p)'
    BY <1>1, <1>2, <2>3, <2>4 DEF Writes
  <2> QED
    BY <1>1, <1>2, <2>1, <2>3, <2>11, <2>12, LockSteps
<1> QED
  BY <1>3, <1>4

(* The steps of the migration, each from what the one before has left.        *)
LEMMA MigrationHolds ==
  ASSUME DirectoryInv, NEW p \in Procs,
         \/ MarkImport(p) \/ OpenDatabase(p) \/ Import(p) \/ FinishImport(p)
  PROVE  DirectoryInv'
<1>1. /\ Stands(p) /\ Writes(p) /\ StoreTypeOK /\ None \notin Procs /\ OldClientsStayOut
      /\ proc[p] \in Processes /\ manifest \in [version : 0..8, importing : BOOLEAN]
  BY StoreConstantsOK DEF DirectoryInv, StoreTypeOK
<1>2. /\ guard = p /\ (owner = None \/ ~Alive(owner)) /\ Alive(p)
      /\ proc[p].stage \in {"marking", "opening", "importing", "finishing"} /\ UNCHANGED owner
      /\ proc[p].asked = <<>> /\ proc[p].writing = 0
  BY <1>1 DEF Stands, Writes, Guarding, Opening, Alive, MarkImport, OpenDatabase, Import,
              FinishImport
<1>3. ASSUME NEW stage \in Stages, Goto(p, stage), UNCHANGED guard
      PROVE  /\ proc'[p].stage = stage /\ proc'[p].seen = proc[p].seen /\ proc'[p].version = proc[p].version
             /\ proc'[p].asked = <<>> /\ proc'[p].writing = 0
             /\ \A q \in Procs : q # p => Stands(q)' /\ Writes(q)'
             /\ proc' \in [Procs -> Processes]
             /\ (owner' # None => ~Alive(owner)') /\ (Migrating(p)' <=> Migrating(p))
             /\ (Stands(p)' => \A q \in Procs : Stands(q)' /\ Writes(q)')
  <2>1. PICK x \in Processes :
           /\ proc' = [proc EXCEPT ![p] = x] /\ proc'[p] = x /\ x.stage = stage /\ x.seen = proc[p].seen
           /\ x.version = proc[p].version /\ x.asked = proc[p].asked /\ x.writing = proc[p].writing
    BY <1>1, <1>3, ProcessGoes
  <2>2. proc' \in [Procs -> Processes] /\ \A q \in Procs : q # p => proc'[q] = proc[q]
    BY <1>1, <2>1, ProcessIs
  <2>3. \A q \in Procs : q # p => Stands(q)' /\ Writes(q)'
    BY <1>2, <1>3, <2>1, OthersStand
  <2>4. owner # None => owner # p /\ owner \in Procs
    BY <1>1, <1>2 DEF StoreTypeOK
  <2>5. Writes(p)'
    BY <1>2, <2>1 DEF Writes
  <2> QED
    BY <1>2, <2>1, <2>2, <2>3, <2>4, <2>5 DEF Alive, Migrating
<1>4. CASE MarkImport(p)
  <2>1. /\ proc[p].stage = "marking" /\ manifest' = [version |-> proc[p].version, importing |-> TRUE]
        /\ Goto(p, "opening") /\ UNCHANGED <<guard, owner, database, json, rows>>
    BY <1>4 DEF MarkImport
  <2>2. /\ proc[p].version \in 0..8 /\ proc[p].version >= 4 /\ proc[p].version >= manifest.version
        /\ Unfinished /\ Migrating(p)
    BY <1>1, <2>1 DEF Stands, Processes, Migrating, Unfinished
  <2>3. /\ manifest' \in [version : 0..8, importing : BOOLEAN] /\ manifest'.version = proc[p].version
        /\ manifest'.version >= manifest.version /\ Unfinished'
    BY <2>1, <2>2 DEF Unfinished
  <2>4. Stands(p)'
    BY <1>2, <1>3, <2>1, <2>2, <2>3 DEF Stands, Guarding, Opening, Owning, Stages
  <2>5. StoreTypeOK' /\ \A q \in Procs : Stands(q)' /\ Writes(q)'
    BY <1>1, <1>3, <2>1, <2>3, <2>4 DEF StoreTypeOK, Stages
  <2>6. OldClientsStayOut'
    BY <1>1, <2>1, <2>2, <2>3 DEF OldClientsStayOut, Level
  <2>7. \A s \in Scopes : Kept(s)' = Kept(s)
    BY <2>1 DEF Kept
  <2> QED
    BY <2>1, <2>2, <2>5, <2>6, <2>7 DEF DirectoryInv
<1>5. CASE OpenDatabase(p)
  <2>1. proc[p].stage = "opening" /\ UNCHANGED <<owner, manifest, json, rows>>
    BY <1>5 DEF OpenDatabase
  <2>2. CASE database = "empty" /\ ~Migrating(p)
    BY <1>2, <1>5, <2>1, <2>2, EndsSafely DEF OpenDatabase
  <2>3. CASE ~(database = "empty" /\ ~Migrating(p))
    <3>1. /\ database' = IF database = "absent" THEN "empty" ELSE database
          /\ Goto(p, "importing") /\ UNCHANGED guard
      BY <1>5, <2>3 DEF OpenDatabase
    <3>2. /\ Unfinished' = Unfinished /\ manifest.version >= 4
          /\ (database' = "empty" => Unfinished) /\ database' # "absent"
          /\ database' \in {"absent", "empty", "v4"} /\ (database' = "v4" => database = "v4")
          /\ (Migrating(p) <=> Unfinished)
      BY <1>1, <2>1, <2>3, <3>1 DEF Stands, Unfinished, StoreTypeOK
    <3>3. Stands(p)'
      BY <1>1, <1>2, <1>3, <2>1, <3>1, <3>2 DEF Stands, Guarding, Opening, Owning, Stages
    <3>4. StoreTypeOK' /\ \A q \in Procs : Stands(q)' /\ Writes(q)'
      BY <1>1, <1>3, <2>1, <3>1, <3>2, <3>3 DEF StoreTypeOK, Stages
    <3>5. OldClientsStayOut'
      BY <1>1, <2>1, <3>2 DEF OldClientsStayOut
    <3>6. \A s \in Scopes : Kept(s)' = Kept(s)
      BY <2>1 DEF Kept
    <3> QED
      BY <2>1, <3>2, <3>4, <3>5, <3>6 DEF DirectoryInv
  <2> QED
    BY <2>2, <2>3
<1>6. CASE Import(p)
  <2>1. /\ proc[p].stage = "importing" /\ database' = "v4" /\ UNCHANGED <<guard, owner, manifest, json>>
        /\ rows' = IF database = "empty" THEN [rows EXCEPT !.scopes = @ \cup json] ELSE rows
        /\ Goto(p, IF Migrating(p) THEN "finishing" ELSE "claiming")
    BY <1>6 DEF Import
  <2>2. /\ Unfinished' = Unfinished /\ manifest.version >= 4 /\ (Migrating(p) <=> Unfinished)
        /\ (database = "empty" \/ database = "v4")
    BY <1>1, <2>1 DEF Stands, Unfinished, StoreTypeOK
  <2>3. PICK stage \in Stages : /\ Goto(p, stage)
                                      /\ stage = IF Migrating(p) THEN "finishing" ELSE "claiming"
    BY <2>1 DEF Stages
  <2>4. Stands(p)'
    BY <1>1, <1>2, <1>3, <2>1, <2>2, <2>3 DEF Stands, Guarding, Opening, Owning
  <2>5. /\ rows' \in [scopes : SUBSET Scopes, image : SUBSET Scopes, preparation : SUBSET Scopes,
                      federated : SUBSET Scopes, context : SUBSET (Scopes \X Contexts)]
        /\ \A k \in {"image", "preparation", "federated", "context"} : rows'[k] = rows[k]
        /\ (database = "empty" => json \subseteq rows'.scopes) /\ rows.scopes \subseteq rows'.scopes
    BY <1>1, <2>1 DEF StoreTypeOK
  <2>6. StoreTypeOK' /\ \A q \in Procs : Stands(q)' /\ Writes(q)'
    BY <1>1, <1>3, <2>1, <2>3, <2>4, <2>5 DEF StoreTypeOK
  <2>7. OldClientsStayOut'
    BY <1>1, <2>1, <2>2, <2>5 DEF OldClientsStayOut, Level
  <2>8. \A s \in Scopes : Kept(s)' = Kept(s)
    BY <2>5 DEF Kept
  <2>9. Unfinished => json \subseteq rows'.scopes
    BY <2>2, <2>5 DEF DirectoryInv
  <2> QED
    BY <2>1, <2>2, <2>6, <2>7, <2>8, <2>9 DEF DirectoryInv
<1>7. CASE FinishImport(p)
  <2>1. /\ proc[p].stage = "finishing" /\ manifest' = [version |-> proc[p].version, importing |-> FALSE]
        /\ Goto(p, "claiming") /\ UNCHANGED <<guard, owner, database, json, rows>>
    BY <1>7 DEF FinishImport
  <2>2. /\ proc[p].version \in 0..8 /\ proc[p].version >= 4 /\ proc[p].version >= manifest.version
        /\ database = "v4"
    BY <1>1, <2>1 DEF Stands, Processes
  <2>3. /\ manifest' \in [version : 0..8, importing : BOOLEAN] /\ manifest'.version = proc[p].version
        /\ manifest'.version >= manifest.version /\ ~Unfinished'
    BY <2>1, <2>2 DEF Unfinished
  <2>4. Stands(p)'
    BY <1>2, <1>3, <2>1, <2>2, <2>3 DEF Stands, Guarding, Opening, Owning, Stages
  <2>5. StoreTypeOK' /\ \A q \in Procs : Stands(q)' /\ Writes(q)'
    BY <1>1, <1>3, <2>1, <2>3, <2>4 DEF StoreTypeOK, Stages
  <2>6. OldClientsStayOut'
    BY <1>1, <2>1, <2>2, <2>3 DEF OldClientsStayOut, Level
  <2>7. \A s \in Scopes : Kept(s)' = Kept(s)
    BY <2>1 DEF Kept
  <2> QED
    BY <2>3, <2>5, <2>6, <2>7 DEF DirectoryInv
<1> QED
  BY <1>4, <1>5, <1>6, <1>7

(* Processes and rows with some of their fields rewritten.                    *)
LEMMA ProcessIsRewritten ==
  ASSUME NEW St, NEW M, NEW V, NEW A, NEW a \in A, NEW v \in V, NEW n \in Nat,
         NEW d \in [stage : St, seen : M, version : V, asked : A, writing : V, ops : Nat]
  PROVE  /\ [d EXCEPT !.version = v, !.ops = n, !.asked = a] \in
              {e \in [stage : St, seen : M, version : V, asked : A, writing : V, ops : Nat] :
                 e.stage = d.stage /\ e.version = v /\ e.asked = a /\ e.writing = d.writing}
         /\ [d EXCEPT !.writing = v, !.asked = a] \in
              {e \in [stage : St, seen : M, version : V, asked : A, writing : V, ops : Nat] :
                 e.stage = d.stage /\ e.version = d.version /\ e.asked = a /\ e.writing = v}
OBVIOUS

LEMMA RowsAreRewritten ==
  ASSUME NEW S, NEW C, NEW a \in S, NEW b \in S,
         NEW r \in [scopes : S, image : S, preparation : S, federated : S, context : C]
  PROVE  [r EXCEPT !.scopes = a, !.federated = b] \in
           {x \in [scopes : S, image : S, preparation : S, federated : S, context : C] :
              x.image = r.image /\ x.preparation = r.preparation /\ x.context = r.context}
OBVIOUS

(* What a row takes: its own table, and no more contexts than are kept.       *)
LEMMA RowIsStored ==
  ASSUME DirectoryInv, NEW op \in Ops, rows' = Store(op)
  PROVE  /\ rows' \in [scopes : SUBSET Scopes, image : SUBSET Scopes, preparation : SUBSET Scopes,
                       federated : SUBSET Scopes, context : SUBSET (Scopes \X Contexts)]
         /\ \A k \in {"image", "preparation", "federated", "context"} : k # op.kind => rows'[k] = rows[k]
         /\ \A s \in Scopes : IsFiniteSet(Kept(s)') /\ Cardinality(Kept(s)') <= MaxContexts
<1>1. /\ rows \in [scopes : SUBSET Scopes, image : SUBSET Scopes, preparation : SUBSET Scopes,
                   federated : SUBSET Scopes, context : SUBSET (Scopes \X Contexts)]
      /\ op.kind \in {"image", "preparation", "federated", "context"} /\ op.scope \in Scopes
      /\ \A s \in Scopes : IsFiniteSet(Kept(s)) /\ Cardinality(Kept(s)) <= MaxContexts
  BY DEF DirectoryInv, StoreTypeOK, Ops
<1>2. CASE op.kind # "context"
  <2>1. \/ op.kind = "federated" /\ rows' = [rows EXCEPT !.scopes = @ \cup {op.scope}, !.federated = @ \cup {op.scope}]
        \/ op.kind = "image" /\ rows' = [rows EXCEPT !.image = @ \cup {op.scope}]
        \/ op.kind = "preparation" /\ rows' = [rows EXCEPT !.preparation = @ \cup {op.scope}]
    BY <1>1, <1>2 DEF Store
  <2>2. /\ rows' \in [scopes : SUBSET Scopes, image : SUBSET Scopes, preparation : SUBSET Scopes,
                      federated : SUBSET Scopes, context : SUBSET (Scopes \X Contexts)]
        /\ \A k \in {"image", "preparation", "federated", "context"} : k # op.kind => rows'[k] = rows[k]
    <3>1. CASE op.kind = "federated" /\ rows' = [rows EXCEPT !.scopes = @ \cup {op.scope}, !.federated = @ \cup {op.scope}]
      <4>1. rows.scopes \cup {op.scope} \in SUBSET Scopes /\ rows.federated \cup {op.scope} \in SUBSET Scopes
        BY <1>1
      <4>2. rows' = [rows EXCEPT !.scopes = rows.scopes \cup {op.scope}, !.federated = rows.federated \cup {op.scope}]
        BY <3>1
      <4>3. rows' \in {x \in [scopes : SUBSET Scopes, image : SUBSET Scopes, preparation : SUBSET Scopes,
                             federated : SUBSET Scopes, context : SUBSET (Scopes \X Contexts)] :
                      x.image = rows.image /\ x.preparation = rows.preparation /\ x.context = rows.context}
        BY ONLY <1>1, <4>1, <4>2, RowsAreRewritten
      <4> QED
        BY ONLY <3>1, <4>3
    <3>2. CASE op.kind = "image" /\ rows' = [rows EXCEPT !.image = @ \cup {op.scope}]
      BY <1>1, <3>2
    <3>3. CASE op.kind = "preparation" /\ rows' = [rows EXCEPT !.preparation = @ \cup {op.scope}]
      BY <1>1, <3>3
    <3> QED
      BY ONLY <2>1, <3>1, <3>2, <3>3
  <2>3. \A s \in Scopes : Kept(s)' = Kept(s)
    BY <1>2, <2>2 DEF Kept
  <2> QED
    BY <1>1, <2>2, <2>3
<1>3. CASE op.kind = "context"
  <2>1. op.context \in Contexts
    BY <1>3 DEF Ops
  <2>2. rows' = IF Cardinality(Kept(op.scope)) < MaxContexts
                THEN [rows EXCEPT !.context = @ \cup {<<op.scope, op.context>>}] ELSE rows
    <3>1. rows' = IF Cardinality({c \in Contexts : <<op.scope, c>> \in rows.context}) < MaxContexts
                  THEN [rows EXCEPT !.context = @ \cup {<<op.scope, op.context>>}] ELSE rows
      BY <1>3 DEF Store
    <3>2. Kept(op.scope) = {c \in Contexts : <<op.scope, c>> \in rows.context}
      BY DEF Kept
    <3> QED
      BY ONLY <3>1, <3>2
  <2>3. CASE ~(Cardinality(Kept(op.scope)) < MaxContexts)
    <3>1. rows' = rows
      BY <2>2, <2>3
    <3>2. \A s \in Scopes : Kept(s)' = Kept(s)
      BY <3>1 DEF Kept
    <3> QED
      BY <1>1, <3>1, <3>2
  <2>4. CASE Cardinality(Kept(op.scope)) < MaxContexts
    <3>1. rows' = [rows EXCEPT !.context = @ \cup {<<op.scope, op.context>>}]
      BY <2>2, <2>4
    <3>2. rows'.context = rows.context \cup {<<op.scope, op.context>>}
      BY <1>1, <3>1
    <3>3. /\ rows' \in [scopes : SUBSET Scopes, image : SUBSET Scopes, preparation : SUBSET Scopes,
                        federated : SUBSET Scopes, context : SUBSET (Scopes \X Contexts)]
          /\ \A k \in {"image", "preparation", "federated", "context"} : k # op.kind => rows'[k] = rows[k]
      BY <1>1, <1>3, <2>1, <3>1
    <3>4. ASSUME NEW s \in Scopes
          PROVE  IsFiniteSet(Kept(s)') /\ Cardinality(Kept(s)') <= MaxContexts
      <4>1. Kept(s)' = IF s = op.scope THEN Kept(s) \cup {op.context} ELSE Kept(s)
        BY <2>1, <3>2 DEF Kept
      <4>2. /\ IsFiniteSet(Kept(s) \cup {op.context})
            /\ Cardinality(Kept(s) \cup {op.context}) =
                 IF op.context \in Kept(s) THEN Cardinality(Kept(s)) ELSE Cardinality(Kept(s)) + 1
        BY <1>1, FS_AddElement
      <4>3. Cardinality(Kept(s)) \in Nat /\ MaxContexts \in Nat
        BY <1>1, FS_CardinalityType, StoreConstantsOK
      <4> QED
        BY <1>1, <2>4, <4>1, <4>2, <4>3
    <3> QED
      BY <3>3, <3>4
  <2> QED
    BY <2>3, <2>4
<1> QED
  BY <1>2, <1>3

(* A caller that waits for a newer marker, and the next write that begins.    *)
LEMMA QueueHolds ==
  ASSUME DirectoryInv, NEW p \in Procs,
         BeginMarker(p) \/ \E op \in Ops : Ask(p, op)
  PROVE  DirectoryInv'
<1>1. /\ Stands(p) /\ Writes(p) /\ StoreTypeOK /\ guard \in Procs \cup {None} /\ owner \in Procs \cup {None}
      /\ None \notin Procs /\ proc[p] \in Processes /\ manifest \in [version : 0..8, importing : BOOLEAN]
  BY StoreConstantsOK DEF DirectoryInv, StoreTypeOK
<1>2. /\ proc[p].stage = "locked" /\ UNCHANGED <<guard, owner, manifest, database, json, rows>> /\ Alive(p)
      /\ Unfinished' = Unfinished /\ proc[p].version >= 4 /\ proc[p].version >= manifest.version
      /\ proc[p].version \in 0..8 /\ proc[p].asked \in Seq(Ops) /\ proc[p].writing \in 0..8
  BY <1>1 DEF BeginMarker, Ask, Alive, Unfinished, Stands, Writes, Processes
<1>3. ASSUME NEW x \in Processes, proc' = [proc EXCEPT ![p] = x], x.stage = "locked",
             x.version >= proc[p].version, Writes(p)'
      PROVE  DirectoryInv'
  <2>1. proc'[p] = x /\ x.version \in 0..8
    BY <1>1, <1>3, ProcessIs DEF Processes
  <2>2. Stands(p)'
    BY <1>1, <1>2, <1>3, <2>1 DEF Stands, Guarding, Opening, Owning
  <2> QED
    BY <1>1, <1>2, <1>3, <2>2, LockSteps
<1>4. CASE BeginMarker(p)
  <2> DEFINE y == [proc[p] EXCEPT !.writing = proc[p].version]
  <2>1. proc' = [proc EXCEPT ![p] = y] /\ proc[p].asked # <<>>
    BY <1>4 DEF BeginMarker
  <2>2. /\ y \in Processes /\ y.stage = proc[p].stage /\ y.version = proc[p].version
        /\ y.asked = proc[p].asked /\ y.writing = proc[p].version
    BY <1>1, <1>2 DEF Processes
  <2> HIDE DEF y
  <2>3. proc'[p] = y
    BY <1>1, <2>1, <2>2, ProcessIs
  <2>4. 1 \in 1 .. Len(proc[p].asked)
    BY <1>2, <2>1
  <2>5. Writes(p)'
    BY <1>1, <1>2, <2>1, <2>2, <2>3, <2>4 DEF Writes
  <2>6. y.stage = "locked" /\ y.version >= proc[p].version
    BY <1>2, <2>2
  <2> QED
    BY ONLY <1>3, <2>1, <2>2, <2>5, <2>6
<1>5. ASSUME NEW op \in Ops, Ask(p, op)
      PROVE  DirectoryInv'
  <2> DEFINE v == Max2(Level[op.kind], proc[p].version)
             y == [proc[p] EXCEPT !.version = v, !.ops = proc[p].ops + 1, !.asked = Append(proc[p].asked, op)]
  <2>1. proc' = [proc EXCEPT ![p] = y]
    BY <1>5 DEF Ask
  <2>2. op.kind \in {"image", "preparation", "federated", "context"} /\ Level[op.kind] \in 5..8
    BY DEF Ops, Level
  <2>3. v \in 0..8 /\ v >= Level[op.kind] /\ v >= proc[p].version
    BY <1>2, <2>2 DEF Max2
  <2>4. Append(proc[p].asked, op) \in Seq(Ops)
    BY <1>2
  <2> HIDE DEF v
  <2>5. /\ y \in Processes /\ y.stage = proc[p].stage /\ y.version = v
        /\ y.asked = Append(proc[p].asked, op) /\ y.writing = proc[p].writing
    <3>1. proc[p].ops + 1 \in Nat
      BY <1>1 DEF Processes
    <3> QED
      BY ONLY <1>1, <2>3, <2>4, <3>1, ProcessIsRewritten DEF Processes
  <2> HIDE DEF y
  <2>6. proc'[p] = y
    BY <1>1, <2>1, <2>5, ProcessIs
  <2>7. ASSUME NEW i \in 1 .. Len(y.asked)
        PROVE  v >= Level[y.asked[i].kind]
    <3>1. CASE i = Len(proc[p].asked) + 1
      <4>1. y.asked[i] = op
        BY <1>2, <2>5, <3>1
      <4> QED
        BY <2>3, <4>1
    <3>2. CASE i # Len(proc[p].asked) + 1
      <4>1. i \in 1 .. Len(proc[p].asked) /\ y.asked[i] = proc[p].asked[i]
        BY <1>2, <2>5, <2>7, <3>2
      <4>2. proc[p].version >= Level[proc[p].asked[i].kind]
        BY <1>1, <4>1 DEF Writes
      <4>3. proc[p].asked[i].kind \in {"image", "preparation", "federated", "context"}
        BY <1>2, <4>1 DEF Ops
      <4>4. Level[proc[p].asked[i].kind] \in 5..8
        BY <4>3 DEF Level
      <4>5. Level[y.asked[i].kind] = Level[proc[p].asked[i].kind]
        BY ONLY <4>1
      <4>6. v \in Nat /\ proc[p].version \in Nat /\ Level[proc[p].asked[i].kind] \in Nat /\ v >= proc[p].version
        BY <1>2, <2>3, <4>4
      <4>7. \A a, b, c \in Nat : a >= b /\ b >= c => a >= c
        OBVIOUS
      <4> QED
        BY ONLY <4>2, <4>5, <4>6, <4>7
    <3> QED
      BY <3>1, <3>2
  <2>8. proc[p].writing # 0 => /\ y.asked # <<>> /\ y.asked[1] = proc[p].asked[1] /\ proc[p].writing <= v
    BY <1>1, <1>2, <2>3, <2>5 DEF Writes
  <2>9. Writes(p)'
    BY <1>1, <1>2, <2>5, <2>6, <2>7, <2>8 DEF Writes
  <2> QED
    BY <1>2, <1>3, <2>1, <2>3, <2>5, <2>9
<1> QED
  BY <1>4, <1>5

(* The marker is in place, and its row stored after it; or the write failed.  *)
LEMMA MarkerHolds ==
  ASSUME DirectoryInv, NEW p \in Procs, EndMarker(p)
  PROVE  DirectoryInv'
<1>1. /\ Stands(p) /\ Writes(p) /\ StoreTypeOK /\ guard \in Procs \cup {None} /\ owner \in Procs \cup {None}
      /\ None \notin Procs /\ proc[p] \in Processes /\ manifest \in [version : 0..8, importing : BOOLEAN]
      /\ OldClientsStayOut
  BY StoreConstantsOK DEF DirectoryInv, StoreTypeOK
<1> DEFINE op == Head(proc[p].asked)
           w == proc[p].writing
           y == [proc[p] EXCEPT !.writing = 0, !.asked = Tail(proc[p].asked)]
<1>2. /\ w # 0 /\ Alive(p) /\ UNCHANGED <<guard, owner, database, json>>
      /\ \/ manifest' = [version |-> w, importing |-> FALSE] /\ rows' = Store(op)
         \/ UNCHANGED <<manifest, rows>>
  BY DEF EndMarker
<1>3. proc' = [proc EXCEPT ![p] = y]
  BY DEF EndMarker
<1>4. /\ proc[p].stage = "locked" /\ owner = p /\ database = "v4" /\ ~Unfinished
      /\ proc[p].version \in 0..8 /\ proc[p].version >= 4 /\ proc[p].version >= manifest.version
      /\ proc[p].asked \in Seq(Ops) /\ proc[p].asked # <<>> /\ w \in 0..8
  BY <1>1, <1>2 DEF Stands, Writes, Owning, Processes
<1>5. /\ op \in Ops /\ w >= Level[op.kind] /\ w >= 4 /\ w >= manifest.version /\ w <= proc[p].version
  BY <1>1, <1>2, <1>4 DEF Writes
<1>6. Tail(proc[p].asked) \in Seq(Ops)
  BY <1>4
<1>7. y \in Processes /\ y.stage = "locked" /\ y.version = proc[p].version /\ y.asked = Tail(proc[p].asked)
      /\ y.writing = 0
  <2>1. 0 \in 0..8 /\ 0 \in Nat
    OBVIOUS
  <2> QED
    BY <1>1, <1>4, <1>6, <2>1, ProcessIsRewritten DEF Processes
<1> HIDE DEF y
<1>8. proc'[p] = y
  BY <1>1, <1>3, <1>7, ProcessIs
<1>9. \A i \in 1 .. Len(y.asked) : y.version >= Level[y.asked[i].kind]
  <2>1. \A i \in 1 .. Len(y.asked) : i + 1 \in 1 .. Len(proc[p].asked) /\ y.asked[i] = proc[p].asked[i + 1]
    BY <1>4, <1>7
  <2>2. \A i \in 1 .. Len(proc[p].asked) : proc[p].version >= Level[proc[p].asked[i].kind]
    BY <1>1 DEF Writes
  <2> QED
    BY ONLY <1>7, <2>1, <2>2
<1>10. Writes(p)'
  BY <1>7, <1>8, <1>9 DEF Writes
<1>11. CASE UNCHANGED <<manifest, rows>>
  <2>1. Stands(p)' /\ Unfinished' = Unfinished
    BY <1>1, <1>2, <1>4, <1>7, <1>8, <1>11 DEF Stands, Guarding, Opening, Owning, Unfinished
  <2>2. UNCHANGED <<manifest, database, json, rows>> /\ UNCHANGED owner /\ UNCHANGED guard
    BY <1>2, <1>11
  <2>3. DirectoryInv'
    BY <1>1, <1>2, <1>3, <1>7, <1>10, <2>1, <2>2, LockSteps
  <2> QED
    BY <2>3
<1>12. CASE manifest' = [version |-> w, importing |-> FALSE] /\ rows' = Store(op)
  <2>1. /\ manifest' \in [version : 0..8, importing : BOOLEAN] /\ manifest'.version = w /\ ~Unfinished'
    BY <1>4, <1>5, <1>12 DEF Unfinished
  <2>2. Stands(p)'
    BY <1>2, <1>4, <1>5, <1>7, <1>8, <2>1 DEF Stands, Guarding, Opening, Owning
  <2>3. \A q \in Procs : q # p => Stands(q)' /\ Writes(q)'
    BY <1>2, <1>3, <1>4, <1>7, OthersStand
  <2>4. /\ rows' \in [scopes : SUBSET Scopes, image : SUBSET Scopes, preparation : SUBSET Scopes,
                      federated : SUBSET Scopes, context : SUBSET (Scopes \X Contexts)]
        /\ \A k \in {"image", "preparation", "federated", "context"} : k # op.kind => rows'[k] = rows[k]
        /\ \A s \in Scopes : IsFiniteSet(Kept(s)') /\ Cardinality(Kept(s)') <= MaxContexts
    BY <1>5, <1>12, RowIsStored
  <2>5. StoreTypeOK'
    <3>1. proc' \in [Procs -> Processes]
      BY <1>1, <1>3, <1>7, ProcessIs
    <3> QED
      BY <1>1, <1>2, <2>1, <2>4, <3>1 DEF StoreTypeOK
  <2>6. OldClientsStayOut'
    <3>1. ASSUME NEW k \in {"image", "preparation", "federated", "context"}, rows'[k] # {}
          PROVE  manifest'.version >= Level[k]
      <4>1. Level[k] \in 5..8 /\ manifest.version \in 0..8
        BY <1>1 DEF Level
      <4>2. CASE k = op.kind
        BY <1>5, <2>1, <4>2
      <4>3. CASE k # op.kind
        <5>1. manifest.version >= Level[k]
          BY <1>1, <2>4, <3>1, <4>3 DEF OldClientsStayOut, Level
        <5> QED
          BY ONLY <1>4, <1>5, <2>1, <4>1, <5>1
      <4> QED
        BY <4>2, <4>3
    <3>2. DOMAIN Level = {"image", "preparation", "federated", "context"}
      BY DEF Level
    <3> QED
      BY <1>5, <2>1, <3>1, <3>2 DEF OldClientsStayOut
  <2>7. DirectoryInv'
    BY <1>10, <2>1, <2>2, <2>3, <2>4, <2>5, <2>6 DEF DirectoryInv
  <2> QED
    BY <2>7
<1> QED
  BY <1>2, <1>11, <1>12

(* Rows of this issuer need no marker; a forgotten scope leaves none behind.  *)
LEMMA ScopesHold ==
  ASSUME DirectoryInv, NEW p \in Procs, NEW s \in Scopes,
         Reserve(p, s) \/ ForgetScope(p, s)
  PROVE  DirectoryInv'
<1>1. /\ Stands(p) /\ StoreTypeOK /\ proc[p].stage = "locked"
      /\ UNCHANGED <<guard, owner, manifest, database, proc>> /\ json' \subseteq json
  BY DEF DirectoryInv, Reserve, ForgetScope
<1>2. ~Unfinished /\ Unfinished' = Unfinished
  BY <1>1 DEF Stands, Unfinished
<1>3. \A q \in Procs : Stands(q)' /\ Writes(q)'
  <2> SUFFICES ASSUME NEW q \in Procs PROVE Stands(q)' /\ Writes(q)'
    OBVIOUS
  <2>1. Stands(q) /\ Writes(q)
    BY DEF DirectoryInv
  <2>2. Migrating(q)' = Migrating(q)
    BY <1>1 DEF Migrating
  <2> QED
    BY <1>1, <1>2, <2>1, <2>2 DEF Stands, Writes, Alive
<1>4. /\ rows \in [scopes : SUBSET Scopes, image : SUBSET Scopes, preparation : SUBSET Scopes,
                   federated : SUBSET Scopes, context : SUBSET (Scopes \X Contexts)]
      /\ \A t \in Scopes : IsFiniteSet(Kept(t)) /\ Cardinality(Kept(t)) <= MaxContexts
  BY DEF DirectoryInv, StoreTypeOK
<1>5. /\ rows' \in [scopes : SUBSET Scopes, image : SUBSET Scopes, preparation : SUBSET Scopes,
                    federated : SUBSET Scopes, context : SUBSET (Scopes \X Contexts)]
      /\ \A k \in {"image", "preparation", "federated", "context"} : rows'[k] \subseteq rows[k]
  <2>1. CASE Reserve(p, s)
    BY <1>4, <2>1 DEF Reserve
  <2>2. CASE ForgetScope(p, s)
    BY <1>4, <2>2 DEF ForgetScope
  <2> QED
    BY <2>1, <2>2
<1>6. ASSUME NEW t \in Scopes
      PROVE  IsFiniteSet(Kept(t)') /\ Cardinality(Kept(t)') <= MaxContexts
  <2>1. Kept(t)' \subseteq Kept(t)
    BY <1>5 DEF Kept
  <2>2. IsFiniteSet(Kept(t)') /\ Cardinality(Kept(t)') <= Cardinality(Kept(t)) /\ Cardinality(Kept(t)) \in Nat
    BY <1>4, <2>1, FS_Subset, FS_CardinalityType
  <2>3. Cardinality(Kept(t)') \in Nat
    BY <2>2, FS_CardinalityType
  <2> QED
    BY <1>4, <2>2, <2>3, StoreConstantsOK
<1>7. StoreTypeOK'
  BY <1>1, <1>5 DEF StoreTypeOK
<1>8. OldClientsStayOut'
  <2>1. DOMAIN Level = {"image", "preparation", "federated", "context"}
    BY DEF Level
  <2>2. \A k \in {"image", "preparation", "federated", "context"} : rows'[k] # {} => rows[k] # {}
    BY <1>5
  <2>3. OldClientsStayOut
    BY DEF DirectoryInv
  <2> QED
    BY <1>1, <2>1, <2>2, <2>3 DEF OldClientsStayOut
<1> QED
  BY <1>2, <1>3, <1>6, <1>7, <1>8 DEF DirectoryInv

(* Whoever had the removed .guard is dead, and has no stage of its own.       *)
LEMMA GuardIsRemoved ==
  ASSUME DirectoryInv, RemoveGuard
  PROVE  DirectoryInv'
<1>1. /\ guard # None /\ ~Alive(guard) /\ guard' = None
      /\ UNCHANGED <<owner, manifest, database, json, rows, proc>>
  BY DEF RemoveGuard
<1>2. \A q \in Procs : Stands(q)' /\ Writes(q)'
  <2> SUFFICES ASSUME NEW q \in Procs PROVE Stands(q)' /\ Writes(q)'
    OBVIOUS
  <2>1. Stands(q) /\ Writes(q)
    BY DEF DirectoryInv
  <2>2. proc[q].stage \notin Guarding
    BY <1>1, <2>1 DEF Stands, Alive, Guarding, Opening
  <2>3. Migrating(q)' = Migrating(q) /\ Unfinished' = Unfinished
    BY <1>1 DEF Migrating, Unfinished
  <2> QED
    BY <1>1, <2>1, <2>2, <2>3 DEF Stands, Writes, Alive
<1>3. StoreTypeOK' /\ OldClientsStayOut' /\ Unfinished' = Unfinished
  BY <1>1 DEF DirectoryInv, StoreTypeOK, OldClientsStayOut, Unfinished
<1>4. \A s \in Scopes : Kept(s)' = Kept(s)
  BY <1>1 DEF Kept
<1> QED
  BY <1>1, <1>2, <1>3, <1>4 DEF DirectoryInv

(* An import ends by the marker of who has imported, and only so.             *)
LEMMA ImportEndsWhole ==
  ASSUME DirectoryInv, [StoreNext]_storeVars, Unfinished, ~Unfinished'
  PROVE  database = "v4" /\ json \subseteq rows.scopes
<1>1. ASSUME NEW p \in Procs, proc[p].stage \in {"claiming", "locked"}
      PROVE  FALSE
  BY <1>1 DEF DirectoryInv, Stands
<1>2. ~UNCHANGED manifest
  BY DEF Unfinished
<1>3. PICK p \in Procs : MarkImport(p) \/ FinishImport(p) \/ EndMarker(p)
  BY <1>2 DEF StoreNext, storeVars, Guard, CheckOwner, Claim, Unlock, Disown,
              Leave, KillProcess, ReadManifest, OpenDatabase, Import, BeginMarker,
              Reserve, ForgetScope, Ask, RemoveGuard
<1>4. ~MarkImport(p)
  BY DEF MarkImport, Unfinished
<1>5. ~EndMarker(p)
  BY <1>1 DEF EndMarker, DirectoryInv, Writes
<1>6. proc[p].stage = "finishing"
  BY <1>3, <1>4, <1>5 DEF FinishImport
<1> QED
  BY <1>6 DEF DirectoryInv, Stands

LEMMA DirectoryHolds ==
  ASSUME DirectoryInv, [StoreNext]_storeVars
  PROVE  DirectoryInv'
<1>1. CASE UNCHANGED storeVars
  <2>1. \A q \in Procs : Stands(q)' /\ Writes(q)'
    BY <1>1 DEF DirectoryInv, Stands, Writes, storeVars, Alive, Migrating, Unfinished
  <2>2. StoreTypeOK' /\ OldClientsStayOut' /\ Unfinished' = Unfinished
    BY <1>1 DEF DirectoryInv, StoreTypeOK, OldClientsStayOut, Unfinished, storeVars
  <2>3. \A s \in Scopes : Kept(s)' = Kept(s)
    BY <1>1 DEF Kept, storeVars
  <2> QED
    BY <1>1, <2>1, <2>2, <2>3 DEF DirectoryInv, storeVars
<1>2. ASSUME NEW p \in Procs,
             \/ Guard(p) \/ CheckOwner(p) \/ Claim(p) \/ Unlock(p) \/ Disown(p)
             \/ Leave(p) \/ KillProcess(p)
      PROVE  DirectoryInv'
  BY <1>2, LockHolds
<1>3. ASSUME NEW p \in Procs, ReadManifest(p)
      PROVE  DirectoryInv'
  BY <1>3, ManifestIsRead
<1>4. ASSUME NEW p \in Procs,
             \/ MarkImport(p) \/ OpenDatabase(p) \/ Import(p) \/ FinishImport(p)
      PROVE  DirectoryInv'
  BY <1>4, MigrationHolds
<1>5. ASSUME NEW p \in Procs, BeginMarker(p) \/ \E op \in Ops : Ask(p, op)
      PROVE  DirectoryInv'
  BY <1>5, QueueHolds
<1>6. ASSUME NEW p \in Procs, EndMarker(p)
      PROVE  DirectoryInv'
  BY <1>6, MarkerHolds
<1>7. ASSUME NEW p \in Procs, NEW s \in Scopes, Reserve(p, s) \/ ForgetScope(p, s)
      PROVE  DirectoryInv'
  BY <1>7, ScopesHold
<1>8. CASE RemoveGuard
  BY <1>8, GuardIsRemoved
<1> QED
  BY <1>1, <1>2, <1>3, <1>4, <1>5, <1>6, <1>7, <1>8 DEF StoreNext

(* Whoever holds the directory is the owner that owner.json names.            *)
LEMMA DirectoryIsSafeNow ==
  ASSUME DirectoryInv
  PROVE  OneOwner /\ OldClientsStayOut /\ ContextsBounded
<1>1. OneOwner
  BY DEF OneOwner, DirectoryInv, Stands
<1>2. ContextsBounded
  BY DEF ContextsBounded, DirectoryInv, Kept
<1> QED
  BY <1>1, <1>2 DEF DirectoryInv

(* The directory, for any number of processes that open it, are killed at any *)
(* step and find their .guard removed: whoever works at the manifest or the   *)
(* database has the lock, and what it has read of them is still so.           *)
THEOREM DirectoryInvariant == StoreSpec => []DirectoryInv
<1>1. StoreInit => DirectoryInv
  BY DirectoryStarts
<1>2. DirectoryInv /\ [StoreNext]_storeVars => DirectoryInv'
  BY DirectoryHolds
<1> QED
  BY <1>1, <1>2, PTL DEF StoreSpec

(* No two hold the directory, no client too old for a row is let in, what is  *)
(* kept stays within its limit, and an import that was cut short anywhere     *)
(* loses no caller's scope.                                                   *)
THEOREM DirectoryStaysSafe == StoreSpec => DirectoryIsSafe
<1> DEFINE Safe == OneOwner /\ OldClientsStayOut /\ ContextsBounded
           Whole == Unfinished /\ ~Unfinished' => database = "v4" /\ json \subseteq rows.scopes
<1>1. DirectoryInv => Safe
  BY DirectoryIsSafeNow
<1>2. DirectoryInv /\ [StoreNext]_storeVars => [Whole]_storeVars
  BY ImportEndsWhole
<1>3. StoreSpec => []DirectoryInv
  BY DirectoryInvariant
<1>4. StoreSpec => []Safe /\ [][Whole]_storeVars
  <2> HIDE DEF Safe, Whole
  <2> QED
    BY <1>1, <1>2, <1>3, PTL DEF StoreSpec
<1> QED
  BY <1>4 DEF DirectoryIsSafe, ImportIsWhole
=============================================================================
