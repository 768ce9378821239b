----------------------------- MODULE MCTaskBindings -----------------------------
(* The binding table on small sets, for TLC. *)
EXTENDS TaskBindings, TLC

(* Connections, tasks, runs and agents are interchangeable. *)
Symmetry == Permutations(Sockets) \cup Permutations(Runs)
              \cup Permutations(Tasks) \cup Permutations(Agents)
=============================================================================
