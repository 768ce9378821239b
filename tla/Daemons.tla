-------------------------------- MODULE Daemons --------------------------------
(* The daemon of one directory and the commands that start and stop it, where *)
(* the platform tells when a process began.                                   *)

CONSTANTS
  Starters, Stoppers, Pids, Modes, Strangers, StartsAtOnce, StartIds,
  NoOne

VARIABLES live, file, starter, daemon, stopper, signalled, may

Daemon == INSTANCE DaemonControl WITH Nobody <- NoOne

(* Commands one after the other never make two daemons, the daemon that runs  *)
(* stays the recorded one, and a stop that reports success for a daemon with  *)
(* a cleanup has that daemon's own word for it.  However commands and deaths  *)
(* interleave and ids are handed out again: the SIGTERM goes to the process   *)
(* that was judged, which runs no more when the stop has waited; a fatal end  *)
(* stays a failure; and a cleanup within its time is killed only where it is  *)
(* taken for a process that had the id before.                                *)
OneDaemonTold ==
  /\ [](may = {} => Daemon!OneDaemon /\ Daemon!Recorded /\ Daemon!StopConfirms)
  /\ [](Daemon!TermIsMeant /\ Daemon!StopEnds)
  /\ Daemon!FatalStays /\ Daemon!CleanupIsNotCut
=============================================================================
