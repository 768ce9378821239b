----------------------------- MODULE DaemonControl -----------------------------
(***************************************************************************)
(* start --detach, stop and status: the pidfile that says which process is *)
(* the daemon, the commands that claim it, judge it and remove it, and the *)
(* shutdown by which a daemon releases it.                                 *)
(*                                                                         *)
(* Code: packages/client/src/daemon-control.ts, daemon-shutdown.ts,        *)
(* fs-util.ts and the detached start, stop and daemon parts of cli.ts.     *)
(* The operating system is external: it hands out process ids, and hands   *)
(* them out again.  A process is its start identity; a command's read of   *)
(* the record and its probe of the process are one step.                   *)
(***************************************************************************)
EXTENDS Naturals, FiniteSets

CONSTANTS
  Starters,   \* invocations of start --detach; each has at most one daemon
  Stoppers,   \* invocations of stop
  Pids,       \* process ids
  Modes,      \* runtimes that are started: TRUE is the caller runtime
  Strangers,  \* other processes that take a free id: "foreground" runs this
              \* client too, "other" does not
  StartsAtOnce, \* bound: starts in progress at one time, where they run side by side
  StartIds,   \* the platform tells the start identity of a process
  Nobody

ConstantsOK ==
  /\ Modes \subseteq BOOLEAN /\ Strangers \subseteq {"foreground", "other"}
  /\ StartsAtOnce \in Nat /\ StartIds \in BOOLEAN
  /\ Nobody \notin Starters /\ Nobody \notin Pids

VARIABLES
  live,      \* external: the process that has an id
  file,      \* the pidfile, and the launcher whose descriptor still writes it
  starter,   \* where an invocation of start --detach is
  daemon,    \* the daemon an invocation spawned
  stopper,   \* where an invocation of stop is
  signalled, \* history: what a stop signalled, and whom it took it for
  may        \* what may happen in this behaviour, of Faults

state == <<live, file, starter, daemon, stopper, signalled>>
vars == <<state, may>>

Faults == {
  "together", \* commands run side by side, not one after the other
  "kill"}     \* a launcher is killed

Proc(k, s) == [kind |-> k, of |-> s]
NoProc == Proc("none", Nobody)
NoRecord == [pid |-> Nobody, id |-> NoProc, budget |-> FALSE]
NoFile == [there |-> FALSE, by |-> Nobody, rec |-> NoRecord]
Idle == [pc |-> "idle", pid |-> Nobody, child |-> Nobody, budget |-> FALSE, attempt |-> 1]
NoStop == [pc |-> "idle", rec |-> NoRecord, outcome |-> "none"]
NoDaemon == [st |-> "none", cleaned |-> FALSE, fatal |-> FALSE, end |-> "none"]

Launching(s) == starter[s].pc \in {"open", "look", "unlink", "write", "spawn", "record", "grace", "release"}
Stopping(t) == stopper[t].pc \in {"term", "poll", "confirm", "clear"}
Up(s) == daemon[s].st \in {"booting", "serving", "cleaning", "stuck"}

(* A launcher and a daemon have their process while they run, and a claim is  *)
(* retried once.                                                              *)
TypeOK ==
  /\ live \in [Pids -> {NoProc} \cup [kind : {"launcher", "daemon"}, of : Starters]
                        \cup [kind : Strangers, of : {Nobody}]]
  /\ \A s \in Starters :
       /\ Launching(s) <=> \E p \in Pids : live[p] = Proc("launcher", s)
       /\ Up(s) <=> \E p \in Pids : live[p] = Proc("daemon", s)
       /\ Up(s) => live[starter[s].child] = Proc("daemon", s)
       /\ starter[s].attempt \in 1 .. 3
  /\ ~file.there => file = NoFile
  /\ file.by # Nobody => file.rec.pid \in {Nobody, starter[file.by].pid}
  /\ \A t \in Stoppers : Stopping(t) /\ stopper[t].pc # "clear" => stopper[t].rec.pid \in Pids
  /\ may \subseteq Faults

Init ==
  /\ live = [p \in Pids |-> NoProc] /\ file = NoFile
  /\ starter = [s \in Starters |-> Idle] /\ daemon = [s \in Starters |-> NoDaemon]
  /\ stopper = [t \in Stoppers |-> NoStop] /\ signalled = {}
  /\ may \in SUBSET Faults

-----------------------------------------------------------------------------
(* The record and the process it names.                                       *)

(* An id is not handed out between the judgement and the SIGTERM, which follow *)
(* each other at once; while a stop waits for its end, it may be.              *)
Watched == {stopper[t].rec.pid : t \in {u \in Stoppers : stopper[u].pc = "term"}}
Unreaped == {starter[s].child : s \in {v \in Starters : starter[v].pc = "record"}}
Free == {p \in Pids : live[p] = NoProc} \ (Unreaped \cup Watched)

(* The start identity decides; where there is none, the command line.         *)
processIsOurs(r) ==
  IF StartIds THEN live[r.pid] = r.id
  ELSE live[r.pid].kind \in {"launcher", "daemon", "foreground"}

inspectDaemon ==
  IF file.rec = NoRecord THEN "stopped"
  ELSE IF live[file.rec.pid] # NoProc /\ processIsOurs(file.rec) THEN "running" ELSE "stale"

Record(p, b) == [pid |-> p, id |-> live[p], budget |-> b]
Removed == file' = NoFile

(* A stranger gets an id, and leaves.                                         *)
Reuse(p, k) ==
  /\ p \in Free /\ live' = [live EXCEPT ![p] = Proc(k, Nobody)]
  /\ UNCHANGED <<file, starter, daemon, stopper, signalled>>

Leave(p) ==
  /\ live[p].kind \in Strangers /\ live' = [live EXCEPT ![p] = NoProc]
  /\ UNCHANGED <<file, starter, daemon, stopper, signalled>>

-----------------------------------------------------------------------------
(* start --detach: claimPidFile, then the rest of startDetached.              *)

Go(s, pc) == starter' = [starter EXCEPT ![s].pc = pc]
Exits(s, pc) == Go(s, pc) /\ live' = [live EXCEPT ![starter[s].pid] = NoProc]

NoneLaunches == \A s \in Starters : ~Launching(s)
NoneStops == \A t \in Stoppers : ~Stopping(t)

Start(s, p, b) ==
  /\ starter[s].pc = "idle" /\ p \in Free
  /\ IF "together" \in may
     THEN Cardinality({v \in Starters : Launching(v)}) < StartsAtOnce
     ELSE NoneLaunches /\ NoneStops
  /\ starter' = [starter EXCEPT ![s] = [@ EXCEPT !.pc = "open", !.pid = p, !.budget = b]]
  /\ live' = [live EXCEPT ![p] = Proc("launcher", s)]
  /\ UNCHANGED <<file, daemon, stopper, signalled>>

(* With a bug: the file is opened for writing, whoever made it.               *)
OpensAny == TRUE
(* The exclusive create: whoever finds no file has the claim, still empty.    *)
Exclusive == ~file.there

MaxAttempts == 2

Open(s) ==
  /\ starter[s].pc = "open" /\ starter[s].attempt <= MaxAttempts
  /\ IF Exclusive THEN file' = [there |-> TRUE, by |-> s, rec |-> NoRecord] /\ Go(s, "write")
     ELSE Go(s, "look") /\ UNCHANGED file
  /\ UNCHANGED <<live, daemon, stopper, signalled>>

Look(s) ==
  /\ starter[s].pc = "look"
  /\ IF inspectDaemon = "running" THEN Exits(s, "refused") ELSE Go(s, "unlink") /\ UNCHANGED live
  /\ UNCHANGED <<file, daemon, stopper, signalled>>

Unlink(s) ==
  /\ starter[s].pc = "unlink" /\ Removed
  /\ starter' = [starter EXCEPT ![s].pc = "open", ![s].attempt = @ + 1]
  /\ UNCHANGED <<live, daemon, stopper, signalled>>

(* Both creates were lost: it counts as running.                              *)
GiveUp(s) ==
  /\ starter[s].pc = "open" /\ starter[s].attempt > MaxAttempts /\ Exits(s, "refused")
  /\ UNCHANGED <<file, daemon, stopper, signalled>>

(* The placeholder goes to the file that was created, if it is still there.   *)
SameFile(s) == file.by = s

Write(s) ==
  /\ starter[s].pc = "write" /\ Go(s, "spawn")
  /\ file' = IF SameFile(s) THEN [file EXCEPT !.rec = Record(starter[s].pid, starter[s].budget)] ELSE file
  /\ UNCHANGED <<live, daemon, stopper, signalled>>

Spawn(s, q) ==
  /\ starter[s].pc = "spawn" /\ q \in Free
  /\ starter' = [starter EXCEPT ![s].pc = "record", ![s].child = q]
  /\ live' = [live EXCEPT ![q] = Proc("daemon", s)]
  /\ daemon' = [daemon EXCEPT ![s].st = "booting"]
  /\ UNCHANGED <<file, stopper, signalled>>

(* The log file cannot be opened, or the child cannot be spawned.             *)
SpawnFails(s) ==
  /\ starter[s].pc = "spawn" /\ Go(s, "release")
  /\ UNCHANGED <<live, file, daemon, stopper, signalled>>

(* A child that is gone already is not reaped yet and still tells its start.  *)
ChildRecord(s) == [pid |-> starter[s].child, id |-> Proc("daemon", s), budget |-> starter[s].budget]

WriteRecord(s) ==
  /\ starter[s].pc = "record" /\ Go(s, "grace")
  /\ file' = [there |-> TRUE, by |-> Nobody, rec |-> ChildRecord(s)]
  /\ UNCHANGED <<live, daemon, stopper, signalled>>

(* The child outlives the grace window, or it ends first.                     *)
Survives(s) ==
  /\ starter[s].pc = "grace" /\ Up(s) /\ Exits(s, "done")
  /\ UNCHANGED <<file, daemon, stopper, signalled>>

DiesYoung(s) ==
  /\ starter[s].pc = "grace" /\ ~Up(s) /\ Go(s, "release")
  /\ UNCHANGED <<live, file, daemon, stopper, signalled>>

Release(s) ==
  /\ starter[s].pc = "release" /\ Removed /\ Exits(s, "failed")
  /\ UNCHANGED <<daemon, stopper, signalled>>

Kill(s) ==
  /\ "kill" \in may /\ Launching(s) /\ Exits(s, "killed")
  /\ UNCHANGED <<file, daemon, stopper, signalled>>

-----------------------------------------------------------------------------
(* The daemon: runDaemon and createDaemonShutdown.                            *)

Ends(s, how) ==
  /\ daemon' = [daemon EXCEPT ![s].st = "gone", ![s].end = how, ![s].cleaned = (how \in {"ok", "fatal"})]
  /\ live' = [live EXCEPT ![starter[s].child] = NoProc]

Boot(s) ==
  /\ daemon[s].st = "booting" /\ daemon' = [daemon EXCEPT ![s].st = "serving"]
  /\ UNCHANGED <<live, file, starter, stopper, signalled>>

(* It ends without its shutdown: a bad start, an uncaught error, a SIGKILL.   *)
Crash(s) ==
  /\ Up(s) /\ Ends(s, "crashed")
  /\ UNCHANGED <<file, starter, stopper, signalled>>

(* External: its event loop never gets to run again.                          *)
Hang(s) ==
  /\ daemon[s].st \in {"serving", "cleaning"}
  /\ daemon' = [daemon EXCEPT ![s].st = "stuck"]
  /\ UNCHANGED <<live, file, starter, stopper, signalled>>

(* A fatal end stays fatal, whatever comes after it.                          *)
StaysFatal(s, fatal) == daemon[s].fatal \/ fatal

(* A signal or a fatal close: the client stops and the one shutdown begins;   *)
(* a later trigger joins it.                                                  *)
Triggered(s, fatal) ==
  daemon' = [daemon EXCEPT ![s].st = "cleaning", ![s].fatal = StaysFatal(s, fatal)]

Hangup(s) ==
  /\ daemon[s].st \in {"serving", "cleaning"} /\ Triggered(s, FALSE)
  /\ UNCHANGED <<live, file, starter, stopper, signalled>>

FatalClose(s) ==
  /\ daemon[s].st = "serving" /\ Triggered(s, TRUE)
  /\ UNCHANGED <<live, file, starter, stopper, signalled>>

(* The cleanup completes: the daemon removes the pidfile and exits.           *)
CleanupEnds(s) ==
  /\ daemon[s].st = "cleaning" /\ Removed
  /\ Ends(s, IF daemon[s].fatal THEN "fatal" ELSE "ok")
  /\ UNCHANGED <<starter, stopper, signalled>>

KeepsFile == UNCHANGED file

(* It fails or outlasts its deadline; only the caller runtime has one.        *)
CleanupFails(s) ==
  /\ daemon[s].st = "cleaning" /\ starter[s].budget
  /\ Ends(s, "unconfirmed") /\ KeepsFile
  /\ UNCHANGED <<starter, stopper, signalled>>

-----------------------------------------------------------------------------
(* stop: stopDaemon.                                                          *)

Says(t, pc, outcome) == stopper' = [stopper EXCEPT ![t].pc = pc, ![t].outcome = outcome]

StopLooks(t) ==
  /\ stopper[t].pc = "idle"
  /\ "together" \in may \/ (NoneLaunches /\ NoneStops)
  /\ \/ inspectDaemon = "stopped" /\ Says(t, "done", "not-running")
     \/ /\ inspectDaemon = "stale"
        /\ IF file.rec.budget THEN Says(t, "done", "cleanup-unconfirmed") ELSE Says(t, "clear", "already-gone")
     \/ /\ inspectDaemon = "running"
        /\ stopper' = [stopper EXCEPT ![t] = [@ EXCEPT !.pc = "term", !.rec = file.rec]]
  /\ UNCHANGED <<live, file, starter, daemon, signalled>>

Target(t) == live[stopper[t].rec.pid]
Signals(t, sig) ==
  signalled' = signalled \cup {[sig |-> sig, to |-> Target(t), meant |-> stopper[t].rec.id]}

(* A launcher and a daemon that boots die of the signal, a daemon that serves *)
(* shuts down, one that is stuck does not notice.                             *)
Terminates(x) ==
  IF x.kind = "launcher" THEN Exits(x.of, "killed") /\ UNCHANGED daemon
  ELSE IF x.kind = "daemon" /\ daemon[x.of].st = "booting" THEN Ends(x.of, "crashed") /\ UNCHANGED starter
  ELSE IF x.kind = "daemon" /\ daemon[x.of].st # "stuck"
       THEN Triggered(x.of, FALSE) /\ UNCHANGED <<live, starter>>
  ELSE UNCHANGED <<live, starter, daemon>>

Term(t) ==
  /\ stopper[t].pc = "term"
  /\ IF Target(t) = NoProc
     THEN Says(t, "confirm", "already-gone") /\ UNCHANGED <<live, starter, daemon, signalled>>
     ELSE Says(t, "poll", "none") /\ Terminates(Target(t)) /\ Signals(t, "term")
  /\ UNCHANGED file

(* A poll looks at the id only.                                               *)
Gone(t) ==
  /\ stopper[t].pc = "poll" /\ Target(t) = NoProc /\ Says(t, "confirm", "stopped")
  /\ UNCHANGED <<live, file, starter, daemon, signalled>>

(* Seconds: CALLER_RUNTIME_SHUTDOWN_TIMEOUT_MS and STOP_EXIT_MARGIN_MS for a  *)
(* record with a budget.                                                      *)
TermGrace(r) == IF r.budget THEN 120 + 5 ELSE 10
CleanupTimeout(b) == IF b THEN 120 ELSE 15

(* A daemon that got the SIGTERM and whose cleanup must have ended by itself   *)
(* is not found cleaning.                                                      *)
StillCleaning(t) ==
  /\ Target(t) = stopper[t].rec.id
  /\ Target(t).kind = "daemon" /\ daemon[Target(t).of].st = "cleaning"
  /\ TermGrace(stopper[t].rec) > CleanupTimeout(starter[Target(t).of].budget)

MayEscalate(t) == stopper[t].pc = "poll" /\ ~StillCleaning(t)

(* The SIGKILL goes to whoever has the id by now.                              *)
Escalate(t) ==
  /\ MayEscalate(t) /\ Target(t) # NoProc
  /\ Says(t, "confirm", "killed") /\ Signals(t, "kill")
  /\ IF Target(t).kind = "daemon" THEN Ends(Target(t).of, "killed") /\ UNCHANGED starter
     ELSE IF Target(t).kind = "launcher" THEN Exits(Target(t).of, "killed") /\ UNCHANGED daemon
     ELSE live' = [live EXCEPT ![stopper[t].rec.pid] = NoProc] /\ UNCHANGED <<starter, daemon>>
  /\ UNCHANGED file

(* A record with a budget that is still the same process's says that its      *)
(* cleanup did not end.                                                       *)
CleanupUnconfirmed(t) == stopper[t].rec.budget /\ file.rec.pid = stopper[t].rec.pid

Confirm(t) ==
  /\ stopper[t].pc = "confirm"
  /\ IF CleanupUnconfirmed(t) THEN Says(t, "done", "cleanup-unconfirmed")
     ELSE Says(t, "clear", stopper[t].outcome)
  /\ UNCHANGED <<live, file, starter, daemon, signalled>>

Clear(t) ==
  /\ stopper[t].pc = "clear" /\ Removed /\ Says(t, "done", stopper[t].outcome)
  /\ UNCHANGED <<live, starter, daemon, signalled>>

-----------------------------------------------------------------------------
StarterStep(s) ==
  \/ Open(s) \/ Look(s) \/ Unlink(s) \/ GiveUp(s) \/ Write(s)
  \/ \E q \in Pids : Spawn(s, q)
  \/ SpawnFails(s) \/ WriteRecord(s) \/ Survives(s) \/ DiesYoung(s) \/ Release(s)
CleanupStep(s) == CleanupEnds(s) \/ CleanupFails(s)
StopperStep(t) == Term(t) \/ Gone(t) \/ Escalate(t) \/ Confirm(t) \/ Clear(t)

Acts ==
  \/ \E p \in Pids : (\E k \in Strangers : Reuse(p, k)) \/ Leave(p)
  \/ \E s \in Starters :
       \/ \E p \in Pids, b \in Modes : Start(s, p, b)
       \/ StarterStep(s) \/ Kill(s) \/ Boot(s) \/ Crash(s) \/ Hang(s) \/ Hangup(s) \/ FatalClose(s)
       \/ CleanupStep(s)
  \/ \E t \in Stoppers : StopLooks(t) \/ StopperStep(t)

Next == UNCHANGED may /\ Acts

Spec == Init /\ [][Next]_vars

(* A command runs on, and a cleanup ends by its deadline unless the process   *)
(* is stuck.                                                                  *)
FairSpec ==
  /\ Spec
  /\ \A s \in Starters : WF_state(StarterStep(s)) /\ WF_state(CleanupStep(s))
  /\ \A t \in Stoppers : WF_state(StopperStep(t))

-----------------------------------------------------------------------------
Serving(s) == daemon[s].st \in {"booting", "serving"}

(* Two detached daemons never run at once: they would displace each other     *)
(* at the bridge for ever.                                                    *)
OneDaemon == \A s, v \in Starters : Serving(s) /\ Serving(v) => s = v

(* A daemon that runs is the recorded one once its launcher is done with it:  *)
(* status tells of it and stop reaches it.                                    *)
Recorded ==
  \A s \in Starters : Serving(s) /\ ~Launching(s) => inspectDaemon = "running" /\ file.rec.id = Proc("daemon", s)

(* The SIGTERM goes to the process that was judged, a launcher or a daemon.    *)
(* The SIGKILL need not: the code judges nobody before it.                     *)
TermIsMeant ==
  \A x \in signalled : x.sig = "term" => x.to = x.meant /\ x.meant.kind \in {"launcher", "daemon"}

(* Whatever became of its id, and whoever got the SIGKILL: the process that a  *)
(* stop went for runs no more when it has done its waiting.                    *)
StopEnds ==
  \A t \in Stoppers :
    stopper[t].pc \in {"confirm", "clear", "done"} /\ stopper[t].rec # NoRecord
    => \A p \in Pids : live[p] # stopper[t].rec.id

(* A stop that reports success for a daemon with a cleanup budget has the     *)
(* daemon's own word for its cleanup.                                         *)
StopConfirms ==
  \A t \in Stoppers :
    /\ stopper[t].pc = "done" /\ stopper[t].rec.budget /\ stopper[t].rec.id.kind = "daemon"
    /\ stopper[t].outcome # "cleanup-unconfirmed"
    => daemon[stopper[t].rec.id.of].cleaned

(* A daemon that was closed for good ends with a failure, even if a signal    *)
(* reaches it while it cleans up.                                             *)
FatalStays ==
  [][\A s \in Starters : daemon[s].fatal => daemon'[s].fatal /\ daemon'[s].end # "ok"]_vars

(* stop never kills a daemon of the caller runtime that is within the time     *)
(* its cleanup has, unless it takes it for a process that had its id before.   *)
CleanupIsNotCut ==
  [][\A s \in Starters :
       daemon[s].st = "cleaning" /\ starter[s].budget /\ daemon'[s].end = "killed"
       => \E x \in signalled' : x.to = Proc("daemon", s) /\ x.meant # x.to]_vars
=============================================================================
