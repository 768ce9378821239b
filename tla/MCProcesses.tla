------------------------------ MODULE MCProcesses ------------------------------
(* The processes a daemon has and is: the executions in its containers, and   *)
(* the daemon under the commands that start and stop it.  They meet in no     *)
(* state, so a behaviour is about one of them and leaves the other alone:     *)
(* one execution with its requests, two executions in two containers,         *)
(* commands one after the other, commands side by side, or such commands      *)
(* while launchers are killed.                                                *)
EXTENDS ExecutionBroker, Daemons, TLC

CONSTANTS r1, r2, c1, c2, s1, s2, t1, p1, p2, p3

VARIABLE about  \* what the behaviour is about

daemonVars == <<live, file, starter, daemon, stopper, signalled, may>>

Pair == INSTANCE ExecutionBroker WITH MaxRequests <- 0, MaxForks <- 0

ASSUME DaemonConstantsOK == Daemon!ConstantsOK

ProcessesInit ==
  /\ \/ about \in {"execution", "pair"} /\ may = {}
     \/ about = "commands" /\ may \in {{}, {"together"}, Daemon!Faults}
  /\ Init /\ Daemon!Init

(* At most one execution begins, and the adapter stays with its container.    *)
Alone ==
  /\ Cardinality({e \in Execs : host'[e].pc # "idle"}) <= 1
  /\ adapter'.bound = adapter.bound

(* Two agents exit alike: what two executions have in common heeds no code.   *)
Alike == \A e \in Execs : agent'[e].code # "exit1"

(* Where commands run side by side they start the caller runtime.             *)
OneRuntime == may # {} => \A s \in Starters : Daemon!Launching(s)' => starter'[s].budget

(* One other process at a time takes an id, and only one that a record names: *)
(* with any other it would be asked and signalled by nobody.  None does where *)
(* launchers are killed.                                                      *)
Named == {file.rec.pid} \cup {stopper[t].rec.pid : t \in Stoppers}
OneStranger ==
  LET strange == {p \in Pids : live'[p].kind \in Strangers}
  IN /\ Cardinality(strange) <= IF "kill" \in may THEN 0 ELSE 1
     /\ \A p \in strange : live[p].kind \in Strangers \/ p \in Named

ProcessesNext ==
  /\ UNCHANGED about
  /\ \/ about = "execution" /\ Next /\ Alone /\ UNCHANGED daemonVars
     \/ about = "pair" /\ Pair!Next /\ Alike /\ UNCHANGED daemonVars
     \/ about = "commands" /\ Daemon!Next /\ OneRuntime /\ OneStranger /\ UNCHANGED vars

ProcessesSpec == ProcessesInit /\ [][ProcessesNext]_<<about, vars, daemonVars>>

Symmetry == Permutations({s1, s2}) \cup Permutations({c1, c2}) \cup Permutations({p1, p2, p3})
=============================================================================
