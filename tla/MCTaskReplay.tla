------------------------------ MODULE MCTaskReplay ------------------------------
(* Replay on small sets, for TLC. *)
EXTENDS TaskReplay, TLC

Symmetry == Permutations(Sockets) \cup Permutations(Runs) \cup Permutations(Daemons)
=============================================================================
