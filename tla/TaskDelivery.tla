------------------------------ MODULE TaskDelivery ------------------------------
(***************************************************************************)
(* What the bridge promises the caller of a task about one run's output,   *)
(* with no connection in sight: frames are taken in the order they were    *)
(* made, each once; the run's own terminal closes the stream only after    *)
(* all of them, and a stream given up on stays given up.                   *)
(***************************************************************************)
EXTENDS Naturals

CONSTANTS Runs, Verdicts

VARIABLES
  made,     \* frames the run has produced
  taken,    \* frames taken for the caller
  verdict   \* "open", "terminal", or why the stream was given up

vars == <<made, taken, verdict>>

Init ==
  /\ made = [r \in Runs |-> 0]
  /\ taken = [r \in Runs |-> 0]
  /\ verdict = [r \in Runs |-> "open"]

Make(r) ==
  /\ verdict[r] # "terminal"
  /\ made' = [made EXCEPT ![r] = @ + 1]
  /\ UNCHANGED <<taken, verdict>>

Take(r) ==
  /\ taken[r] < made[r]
  /\ taken' = [taken EXCEPT ![r] = @ + 1]
  /\ UNCHANGED <<made, verdict>>

(* The last frame made is the terminal, and it is taken. *)
Complete(r) ==
  /\ verdict[r] = "open" /\ taken[r] + 1 = made[r]
  /\ taken' = [taken EXCEPT ![r] = made[r]]
  /\ verdict' = [verdict EXCEPT ![r] = "terminal"]
  /\ UNCHANGED made

(* Disconnected, superseded, canceled or timed out; one event may end several. *)
GiveUp(R) ==
  /\ \A r \in R : verdict[r] = "open"
  /\ verdict' \in [Runs -> Verdicts]
  /\ \A r \in Runs : IF r \in R THEN verdict'[r] \notin {"open", "terminal"}
                     ELSE verdict'[r] = verdict[r]
  /\ UNCHANGED <<made, taken>>

Next ==
  \/ \E r \in Runs : Make(r) \/ Take(r) \/ Complete(r)
  \/ \E R \in SUBSET Runs : GiveUp(R)

Spec == Init /\ [][Next]_vars
=============================================================================
