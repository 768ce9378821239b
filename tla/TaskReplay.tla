------------------------------- MODULE TaskReplay -------------------------------
(***************************************************************************)
(* Acknowledged task replay end to end: the binding table of TaskBindings, *)
(* the two byte streams of every WebSocket, and the client daemons         *)
(* (packages/client/src/client.ts) that run tasks, number and retain their *)
(* frames until task.ack and resend them after a reconnect.                *)
(*                                                                         *)
(* A socket delivers in order and loses an arbitrary suffix when it breaks;*)
(* each end notices the break on its own.  All daemons hold one            *)
(* CLIENT_TOKEN, so two of them are the duplicate-token collision.         *)
(***************************************************************************)
EXTENDS TaskBindings, Sequences, Functions

CONSTANTS
  Daemons,       \* client processes
  PendingLimit,  \* opts.maxPendingFrames
  MaxUpsets      \* bound: breaks, crashes, cancels, timeouts and frames too large, together

ASSUME ReplayConstantsOK ==
  /\ PendingLimit \in Nat \ {0} /\ MaxUpsets \in Nat
  /\ Agents # {} /\ Clients # {}

VARIABLES
  up, down,     \* frames in flight on each socket
  end,          \* the client's end of each socket
  owner,        \* the daemon that opened it
  ws,           \* Client.ws
  replayReady,  \* Client.replayReady
  inflight,     \* Client.inflight
  pending,      \* Client.pendingFrames, as a set: a run's frames lie there by seq
  made,         \* ClientRun.nextSeq
  suppressed,   \* runs with ClientRun.suppressed
  backend,      \* what the backend of each run has done
  upsets

netVars == <<up, down, end, owner>>
clientVars == <<ws, replayReady, inflight, pending, made, suppressed, backend>>
allVars == <<vars, netVars, clientVars, upsets>>

(* What every daemon says in its hello. *)
Identity == [agent |-> CHOOSE a \in Agents : TRUE, client |-> CHOOSE c \in Clients : TRUE,
             replay |-> TRUE]

helloAck == [type |-> "hello.ack"]
taskAck(r, q) == [type |-> "task.ack", run |-> r, seq |-> q]
taskAssign(r) == [type |-> "task.assign", run |-> r]
taskCancel(r) == [type |-> "task.cancel", run |-> r]

DownFrames == {helloAck} \cup {taskAssign(r) : r \in Runs} \cup {taskCancel(r) : r \in Runs}
                \cup {taskAck(r, q) : r \in Runs, q \in 0..MaxSeq}

ReplayTypeOK ==
  /\ TypeOK
  /\ up \in [Sockets -> Seq(Frames)] /\ down \in [Sockets -> Seq(DownFrames)]
  /\ end \in [Sockets -> {"idle", "open", "flushing", "closing", "closed"}]
  /\ owner \in [Sockets -> Daemons \cup {None}]
  /\ ws \in [Daemons -> Sockets \cup {None}]
  /\ replayReady \in [Daemons -> BOOLEAN]
  /\ inflight \in [Daemons -> [Tasks -> Runs \cup {None}]]
  /\ pending \in [Daemons -> SUBSET Frames] /\ \A d \in Daemons : IsFiniteSet(pending[d])
  /\ made \in [Runs -> 0..(MaxSeq + 1)]
  /\ suppressed \subseteq Runs
  /\ backend \in [Runs -> {"none", "working", "spoken", "over"}]
  /\ upsets \in 0..MaxUpsets

ReplayInit ==
  /\ Init
  /\ up = [s \in Sockets |-> <<>>]
  /\ down = [s \in Sockets |-> <<>>]
  /\ end = [s \in Sockets |-> "idle"]
  /\ owner = [s \in Sockets |-> None]
  /\ ws = [d \in Daemons |-> None]
  /\ replayReady = [d \in Daemons |-> FALSE]
  /\ inflight = [d \in Daemons |-> [t \in Tasks |-> None]]
  /\ pending = [d \in Daemons |-> {}]
  /\ made = [r \in Runs |-> 0]
  /\ suppressed = {}
  /\ backend = [r \in Runs |-> "none"]
  /\ upsets = 0

-----------------------------------------------------------------------------
(* The server's side, with what it writes to its sockets. *)

Upset == upsets < MaxUpsets /\ upsets' = upsets + 1

(* ws.send: silently lost unless the socket is OPEN, and never read once the  *)
(* client's end is gone.                                                      *)
Send(s, fs) ==
  down' = IF s # None /\ ready[s] = "open" /\ end[s] # "closed"
          THEN [down EXCEPT ![s] = @ \o fs] ELSE down

sendToAgent(a, f) == Send(agents[a], <<f>>)

ServerAuthenticates(s) ==
  /\ owner[s] # None
  /\ Authenticated(s, Identity)
  /\ Send(s, IF authed'[s] THEN <<helloAck>> ELSE <<>>)
  /\ UNCHANGED <<up, end, owner, clientVars, upsets>>

(* acknowledgeReceipt *)
ReceiptAck(f) ==
  IF f.exec \in receipts /\ taskOf[f.exec] = f.task /\ f.seq < nextSeq[f.exec]
  THEN <<taskAck(f.exec, nextSeq[f.exec] - 1)>> ELSE <<>>

(* The next frame of the socket is handled, and answered on this socket; a    *)
(* broken one is answered with a cancel on the agent's current connection.    *)
ServerHandles(s) ==
  /\ up[s] # <<>>
  /\ LET f == Head(up[s])
         r == bindings[f.task]
     IN /\ HandleFrame(s, f)
        /\ CASE Broken(s, f) -> sendToAgent(agentOf[r], taskCancel(r))
             [] Accepted(s, f) \/ Repeated(s, f) ->
                  Send(s, IF reliable[r] THEN <<taskAck(r, nextSeq'[r] - 1)>> ELSE <<>>)
             [] OTHER -> Send(s, ReceiptAck(f))
  /\ up' = [up EXCEPT ![s] = Tail(@)]
  /\ UNCHANGED <<end, owner, clientVars, upsets>>

(* The server notices that a socket is gone: the client closed its end, the   *)
(* close the server sent timed out, or the network broke.                     *)
ServerClose(s) ==
  /\ IF end[s] = "closed" \/ ready[s] = "closing" THEN UNCHANGED upsets ELSE Upset
  /\ CloseEvent(s, TRUE)
  /\ up' = [up EXCEPT ![s] = <<>>]
  /\ UNCHANGED <<down, end, owner, clientVars>>

ServerDispatches(r) ==
  /\ Dispatch(r)
  /\ sendToAgent(agentOf[r], taskAssign(r))
  /\ UNCHANGED <<up, end, owner, clientVars, upsets>>

ServerCancels(t) ==
  /\ Cancel(t) /\ Upset
  /\ sendToAgent(agentOf[bindings[t]], taskCancel(bindings[t]))
  /\ UNCHANGED <<up, end, owner, clientVars>>

(* Steps of the server that write nothing. *)
ServerInternal ==
  /\ \/ /\ \/ \E r \in Runs : \/ \E t \in Tasks : Begin(r, t, Identity.agent)
                              \/ (outcome[r] # "open" \/ phase[r] = "unsent") /\ Exit(r)
           \/ \E t \in Tasks : HoldExpires(t)
        /\ UNCHANGED upsets
     \/ (\E r \in Runs : Watchdog(r) \/ ReceiptExpires(r)) /\ Upset
  /\ UNCHANGED <<netVars, clientVars>>

-----------------------------------------------------------------------------
(* The client's side. *)

Writable(d) == ws[d] # None /\ end[ws[d]] \in {"open", "flushing"}

(* Frames handed to the current socket; nothing happens without one. *)
Transmit(d, fs) ==
  up' = IF Writable(d) /\ ready[ws[d]] # "closed"
        THEN [up EXCEPT ![ws[d]] = @ \o fs] ELSE up

(* ws.terminate() on the current socket, if it is OPEN. *)
Terminate(d) ==
  end' = IF Writable(d) THEN [end EXCEPT ![ws[d]] = "closing"] ELSE end

RunsOn(d) == {inflight[d][t] : t \in Tasks} \ {None}

Without(d, R) == {f \in pending[d] : f.exec \notin R}

(* connect(); the open event sends hello, whose lookup the server starts. *)
Connect(d, s) ==
  /\ ws[d] = None
  /\ Accept(s)
  /\ ws' = [ws EXCEPT ![d] = s]
  /\ replayReady' = [replayReady EXCEPT ![d] = FALSE]
  /\ end' = [end EXCEPT ![s] = "open"]
  /\ owner' = [owner EXCEPT ![s] = d]
  /\ UNCHANGED <<up, down, inflight, pending, made, suppressed, backend, upsets>>

(* The close event of the current socket: runs that cannot be replayed stop.  *)
ClientClose(d) ==
  LET s == ws[d] IN
  /\ s # None
  /\ IF end[s] # "open" \/ ready[s] # "open" THEN UNCHANGED upsets ELSE Upset
  /\ ws' = [ws EXCEPT ![d] = None]
  /\ end' = [end EXCEPT ![s] = "closed"]
  /\ down' = [down EXCEPT ![s] = <<>>]
  /\ suppressed' = suppressed \cup {r \in RunsOn(d) : ~reliable[r]}
  /\ UNCHANGED <<vars, up, owner, replayReady, inflight, pending, made, backend>>

(* With a bug: the connection is ready, and nothing is replayed. *)
ReceiveHelloAckNoReplay(d) ==
  /\ replayReady' = [replayReady EXCEPT ![d] = TRUE]
  /\ UNCHANGED <<up, inflight, pending, suppressed, backend>>

(* The orders in which frames can be replayed: no run is out of order, and the *)
(* order between runs, that of their making in the code, is left open.         *)
Replays(fs) ==
  {q \in [1..Cardinality(fs) -> fs] :
     /\ Range(q) = fs
     /\ \A i, j \in DOMAIN q : i < j /\ q[i].exec = q[j].exec => q[i].seq < q[j].seq}

(* hello.ack: replay everything unacknowledged, in order; every connection     *)
(* negotiates the same limit of a frame, which what is retained has met.       *)
ReceiveHelloAck(d) ==
  /\ replayReady' = [replayReady EXCEPT ![d] = TRUE]
  /\ \E q \in Replays(pending[d]) : Transmit(d, q)
  /\ UNCHANGED <<inflight, pending, suppressed, backend>>

(* With a bug: one acknowledgement clears the whole run. *)
acknowledgeRun(d, r, q) ==
  /\ pending' = [pending EXCEPT ![d] = Without(d, {r})]
  /\ UNCHANGED <<up, replayReady, inflight, suppressed, backend>>

acknowledgeFrames(d, r, q) ==
  /\ pending' = [pending EXCEPT ![d] =
                   {f \in @ : f.exec # r \/ f.seq > q}]
  /\ UNCHANGED <<up, replayReady, inflight, suppressed, backend>>

(* runTask: an earlier run of the task that is still in flight gives way.  An  *)
(* assignment with no execution id is taken for a legacy bridge's.             *)
runTask(d, r) ==
  LET t == taskOf[r]
      previous == {inflight[d][t]} \ {None}
  IN /\ suppressed' = suppressed \cup previous
     /\ pending' = [pending EXCEPT ![d] = Without(d, previous)]
     /\ inflight' = [inflight EXCEPT ![d][t] = r]
     /\ backend' = [backend EXCEPT ![r] = "working"]
     /\ replayReady' = IF reliable[r] THEN replayReady ELSE [replayReady EXCEPT ![d] = FALSE]
     /\ UNCHANGED up

(* task.cancel of the run in flight: with an execution id, silence it too. *)
ReceiveCancel(d, r) ==
  LET hit == r \in RunsOn(d) /\ reliable[r]
  IN /\ suppressed' = IF hit THEN suppressed \cup {r} ELSE suppressed
     /\ pending' = IF hit THEN [pending EXCEPT ![d] = Without(d, {r})] ELSE pending
     /\ UNCHANGED <<up, replayReady, inflight, backend>>

(* A frame of the current socket; frames of a replaced one are never read. *)
ClientHandles(d) ==
  LET s == ws[d] IN
  /\ s # None /\ end[s] \in {"open", "flushing"} /\ down[s] # <<>>
  /\ LET f == Head(down[s]) IN
       \/ f.type = "hello.ack" /\ ReceiveHelloAck(d)
       \/ f.type = "task.ack" /\ acknowledgeFrames(d, f.run, f.seq)
       \/ f.type = "task.assign" /\ runTask(d, f.run)
       \/ f.type = "task.cancel" /\ ReceiveCancel(d, f.run)
  /\ down' = [down EXCEPT ![s] = Tail(@)]
  /\ UNCHANGED <<vars, end, owner, ws, made, upsets>>

Full(d) == Cardinality(pending[d]) >= PendingLimit

(* sendTaskFrame for a run that is not suppressed. *)
Emit(d, r, kind) ==
  LET f == [task |-> taskOf[r], exec |-> IF reliable[r] THEN r ELSE None,
            seq |-> IF reliable[r] THEN made[r] ELSE 0, kind |-> kind]
  IN /\ r \in RunsOn(d) \ suppressed /\ backend[r] = "working"
     /\ made[r] < (IF kind = "output" THEN MaxSeq ELSE MaxSeq + 1)
     /\ made' = [made EXCEPT ![r] = @ + 1]
     /\ backend' = [backend EXCEPT ![r] = IF kind = "terminal" THEN "spoken" ELSE @]
     /\ \/ ~reliable[r] /\ Transmit(d, <<f>>) /\ UNCHANGED <<end, pending, suppressed, upsets>>
        \/ /\ reliable[r] /\ ~Full(d)
           /\ pending' = [pending EXCEPT ![d] = @ \cup {f}]
           /\ Transmit(d, IF replayReady[d] THEN <<f>> ELSE <<>>)
           /\ UNCHANGED <<end, suppressed, upsets>>
        \/ \* too many frames, or bytes: drop the run, fail it in place of f, and reconnect
           /\ reliable[r]
           /\ IF Full(d) THEN UNCHANGED upsets ELSE Upset
           /\ suppressed' = suppressed \cup {r}
           /\ pending' = [pending EXCEPT ![d] = Without(d, {r})]
           /\ IF replayReady[d] /\ Writable(d)
              THEN /\ Transmit(d, <<[f EXCEPT !.kind = "terminal"]>>)
                   /\ end' = [end EXCEPT ![ws[d]] = "flushing"]
              ELSE Terminate(d) /\ UNCHANGED up
     /\ UNCHANGED <<vars, down, owner, ws, replayReady, inflight>>

(* The backend returns, after its terminal or because it was aborted. *)
Return(d, r) ==
  /\ r \in RunsOn(d)
  /\ backend[r] = "spoken" \/ r \in suppressed
  /\ backend' = [backend EXCEPT ![r] = "over"]
  /\ inflight' = [inflight EXCEPT ![d][taskOf[r]] = None]
  /\ UNCHANGED <<vars, netVars, ws, replayReady, pending, made, suppressed, upsets>>

(* expirePendingFrames: an unacknowledged frame of r got too old. *)
Expire(d, r) ==
  /\ \E f \in pending[d] : f.exec = r
  /\ pending' = [pending EXCEPT ![d] = Without(d, {r})]
  /\ suppressed' = IF r \in RunsOn(d) THEN suppressed \cup {r} ELSE suppressed
  /\ Terminate(d) /\ Upset
  /\ UNCHANGED <<vars, up, down, owner, ws, replayReady, inflight, made, backend>>

(* The process dies; its next Connect is a fresh process. *)
Crash(d) ==
  /\ RunsOn(d) # {} \/ pending[d] # {}
  /\ Upset
  /\ ws' = [ws EXCEPT ![d] = None]
  /\ end' = [s \in Sockets |-> IF s = ws[d] THEN "closed" ELSE end[s]]
  /\ down' = [s \in Sockets |-> IF s = ws[d] THEN <<>> ELSE down[s]]
  /\ backend' = [r \in Runs |-> IF r \in RunsOn(d) THEN "over" ELSE backend[r]]
  /\ inflight' = [inflight EXCEPT ![d] = [t \in Tasks |-> None]]
  /\ pending' = [pending EXCEPT ![d] = {}]
  /\ UNCHANGED <<vars, up, owner, replayReady, made, suppressed>>

-----------------------------------------------------------------------------
ServerStep ==
  \/ \E s \in Sockets : ServerAuthenticates(s) \/ ServerHandles(s) \/ ServerClose(s)
  \/ \E r \in Runs : ServerDispatches(r)
  \/ \E t \in Tasks : ServerCancels(t)
  \/ ServerInternal

ClientStep ==
  \E d \in Daemons :
    \/ \E s \in Sockets : Connect(d, s)
    \/ ClientClose(d) \/ ClientHandles(d) \/ Crash(d)
    \/ \E r \in Runs : \/ \E kind \in {"output", "terminal"} : Emit(d, r, kind)
                       \/ Return(d, r) \/ Expire(d, r)

ReplayNext == ServerStep \/ ClientStep

ReplaySpec == ReplayInit /\ [][ReplayNext]_allVars

-----------------------------------------------------------------------------
(* Properties *)

(* A correct client never trips the gap check: whatever was lost, replayed,   *)
(* suppressed or interrupted, the next frame of a live socket is one the      *)
(* server expects or has already.                                            *)
NoSpuriousGap ==
  \A s \in Sockets :
    up[s] # <<>> /\ CanReceive(s) /\ Head(up[s]).exec # None => ~Broken(s, Head(up[s]))

(* docs/design.md 4.1, "never replays a suffix after dropping a prefix": what  *)
(* the server has not accepted of a running reliable run is still retained,    *)
(* and what is retained has no gap, each frame once.                           *)
RetainedUntilAccepted ==
  \A d \in Daemons : \A r \in RunsOn(d) \ suppressed :
    reliable[r] =>
      LET mine == {f \in pending[d] : f.exec = r}
      IN /\ \A n \in nextSeq[r]..(made[r] - 1) : \E f \in mine : f.seq = n
         /\ \A f \in mine : \A n \in f.seq..(made[r] - 1) : \E g \in mine : g.seq = n
         /\ \A f, g \in mine : f.seq = g.seq => f = g

(* A stream closed by the client's terminal carried everything the run made:   *)
(* the terminal is its own, and no output before it is missing.               *)
WholeOutput ==
  \A r \in Runs : outcome[r] = "terminal" /\ reliable[r] =>
    nextSeq[r] = made[r] /\ (backend[r] \in {"spoken", "over"} \/ r \in suppressed)

(* An acknowledgement in flight never claims more than was accepted, and what  *)
(* it lets the client forget is only output of that run.                      *)
AcksAreHonest ==
  \A s \in Sockets : \A f \in Range(down[s]) :
    f.type = "task.ack" => f.seq < nextSeq[f.run]

(* At most one process works on a run, and a run that lost its place to a      *)
(* newer one of the same task is silenced.                                    *)
OneWorkerPerTask ==
  \A r \in Runs : backend[r] = "working" /\ r \notin suppressed =>
    \E d \in Daemons : inflight[d][taskOf[r]] = r

(* Nothing of a run's output is cut off, forgotten early or made twice over.   *)
OutputIsWhole == WholeOutput /\ AcksAreHonest /\ OneWorkerPerTask

(* What the inductive argument needs besides, from the table outwards.  Every   *)
(* connection and every run is of the one agent; a run whose terminal was taken *)
(* is never bound again; what was accepted was made; a socket in use is open.   *)
TableFits ==
  /\ \A s \in Sockets : authed[s] => ident[s] = Identity.agent
  /\ \A r \in Runs :
       /\ phase[r] # "idle" => agentOf[r] = Identity.agent
       /\ phase[r] \in {"idle", "starting"} => backend[r] = "none" /\ outcome[r] = "open"
       /\ backend[r] = "none" => made[r] = 0
       /\ nextSeq[r] <= made[r]
       /\ outcome[r] = "terminal" => \A t \in Tasks : bindings[t] # r
  /\ \A d \in Daemons : ws[d] # None => ready[ws[d]] # "idle"

(* A run is assigned once, to a daemon that does not know it yet.              *)
Assigns(s, i, r) == i \in DOMAIN down[s] /\ down[s][i] = taskAssign(r)

AssignedOnce ==
  /\ \A s \in Sockets, i \in Nat, r \in Runs :
       Assigns(s, i, r) => phase[r] \notin {"idle", "starting"} /\ backend[r] = "none"
  /\ \A s, x \in Sockets, i, j \in Nat, r \in Runs :
       Assigns(s, i, r) /\ Assigns(x, j, r) => s = x /\ i = j

(* A run is in flight under its task, in one daemon, which alone retains what  *)
(* the run made.                                                              *)
AtHome ==
  /\ \A d \in Daemons, t \in Tasks : inflight[d][t] # None =>
       taskOf[inflight[d][t]] = t /\ backend[inflight[d][t]] # "none"
  /\ \A d, e \in Daemons, t \in Tasks :
       inflight[d][t] # None /\ inflight[d][t] = inflight[e][t] => d = e
  /\ \A d, e \in Daemons, t \in Tasks : \A f \in pending[d] : f.exec = inflight[e][t] => d = e

(* A numbered frame is one its run made, and its terminal is the last it made. *)
Finished(r) == backend[r] \in {"spoken", "over"} \/ r \in suppressed

Genuine(f) ==
  /\ f.kind \in {"output", "terminal"}
  /\ f.exec # None =>
       /\ reliable[f.exec] /\ backend[f.exec] # "none"
       /\ f.task = taskOf[f.exec] /\ f.seq < made[f.exec]
       /\ f.kind = "terminal" => f.seq + 1 = made[f.exec] /\ Finished(f.exec)

FramesGenuine ==
  /\ \A s \in Sockets : \A i \in DOMAIN up[s] : Genuine(up[s][i])
  /\ \A d \in Daemons : \A f \in pending[d] : Genuine(f) /\ f.exec # None

(* RetainedUntilAccepted, of runs that are over as well: a daemon that retains *)
(* anything of a run retains all that was not accepted.                        *)
Keeps(d, r) == r \in RunsOn(d) \ suppressed \/ \E f \in pending[d] : f.exec = r

Holds(d, r, n) == \E f \in pending[d] : f.exec = r /\ f.seq = n

RetainedWhole ==
  \A d \in Daemons :
    /\ \A r \in Runs : reliable[r] /\ Keeps(d, r) =>
         \A n \in nextSeq[r]..(made[r] - 1) : Holds(d, r, n)
    /\ \A f \in pending[d] : \A n \in f.seq..(made[f.exec] - 1) : Holds(d, f.exec, n)
    /\ \A f, g \in pending[d] : f.exec = g.exec /\ f.seq = g.seq => f = g

(* On a socket a frame of a bound run is expected by now, or behind the one    *)
(* before it; and a connection that has replayed carries all that is retained. *)
Due(f) == f.exec # None /\ bindings[f.task] = f.exec

Carries(s, n, r, q) == \E i \in 1..n : up[s][i].exec = r /\ up[s][i].seq = q

UpOrdered ==
  \A s \in Sockets : \A i \in DOMAIN up[s] :
    LET f == up[s][i]
    IN Due(f) /\ f.seq > nextSeq[f.exec] => Carries(s, i - 1, f.exec, f.seq - 1)

Streaming(d) == replayReady[d] /\ Writable(d) /\ ready[ws[d]] # "closed"

UpCarries ==
  \A d \in Daemons : Streaming(d) =>
    \A f \in pending[d] : Due(f) /\ f.seq >= nextSeq[f.exec] =>
      Carries(ws[d], Len(up[ws[d]]), f.exec, f.seq)

ReplayIInv ==
  /\ ReplayTypeOK /\ IInv /\ TableFits /\ AssignedOnce /\ AtHome /\ FramesGenuine
  /\ RetainedWhole /\ UpOrdered /\ UpCarries /\ OutputIsWhole

(* The promise of TaskDelivery, for every reliable run: whatever connections   *)
(* break, replay and race, the caller's view is one ordered, complete stream.  *)
Delivery == INSTANCE TaskDelivery WITH
  Verdicts <- Outcomes,
  made <- [r \in Runs |-> IF reliable[r] THEN made[r] ELSE 0],
  taken <- [r \in Runs |-> IF reliable[r] THEN nextSeq[r] ELSE 0],
  verdict <- [r \in Runs |-> IF reliable[r] THEN outcome[r] ELSE "open"]

DeliversInOrder == Delivery!Spec

=============================================================================
