--------------------------- MODULE TaskReplay_proofs ---------------------------
(***************************************************************************)
(* The binding table's safety, and acknowledged replay on top of it, for   *)
(* every number of agents, sockets, tasks, runs and daemons.  The first    *)
(* part is about TaskBindings alone: IInv is inductive, and each step is   *)
(* settled by what it does to three variables (bindings, holds, outcome).  *)
(* The second part is about TaskReplay: ReplayIInv follows every frame     *)
(* from the run that produced it to the stream it is delivered to.  The    *)
(* third shows that TaskReplay implements TaskBindings and TaskDelivery.   *)
(***************************************************************************)
EXTENDS TaskReplay, FiniteSetTheorems, SequenceTheorems, TLAPS

USE DEF vars, connVars, runVars

(* How a queue's fate evolves: only runs of R still open change. *)
LEMMA CloseEffect ==
  ASSUME TypeOK, NEW R, NEW why \in Outcomes \ {"open"}, CloseStreams(R, why)
  PROVE  /\ outcome' \in [Runs -> Outcomes]
         /\ \A r \in Runs : outcome[r] # "open" => outcome'[r] # "open"
         /\ \A r \in Runs : r \in R => outcome'[r] # "open"
BY DEF TypeOK, CloseStreams, Outcomes

(* Dropping bindings keeps the two maps well typed and the holds current. *)
LEMMA DropEffect ==
  ASSUME TypeOK, HoldIsCurrent, NEW T, DropBindings(T)
  PROVE  /\ bindings' \in [Tasks -> Runs \cup {None}]
         /\ holds' \in [Tasks -> Runs \cup {None}]
         /\ \A t \in Tasks : t \in T => bindings'[t] = None /\ holds'[t] = None
         /\ \A t \in Tasks : t \notin T => bindings'[t] = bindings[t] /\ holds'[t] = holds[t]
BY DEF TypeOK, HoldIsCurrent, DropBindings

(* What every effect of a step on the table must establish: holds stay current, *)
(* nothing is bound anew, and whoever loses a binding has a closed stream or    *)
(* has finished.                                                               *)
Settled ==
  /\ bindings' \in [Tasks -> Runs \cup {None}]
  /\ holds' \in [Tasks -> Runs \cup {None}]
  /\ outcome' \in [Runs -> Outcomes]
  /\ \A t \in Tasks : holds'[t] # None => holds'[t] = bindings'[t]
  /\ \A t \in Tasks : bindings'[t] # None => bindings'[t] = bindings[t]
  /\ \A r \in Runs : outcome[r] # "open" => outcome'[r] # "open"
  /\ \A t \in Tasks : bindings[t] # None /\ bindings'[t] # bindings[t]
       => outcome'[bindings[t]] # "open" \/ phase'[bindings[t]] = "done"

(* Changing nothing is settled. *)
LEMMA UnchangedSettled ==
  ASSUME IInv, UNCHANGED <<bindings, holds, outcome>>
  PROVE  Settled
BY DEF IInv, TypeOK, HoldIsCurrent, Settled

(* So is lifting a hold (resumeBinding). *)
LEMMA ResumeSettled ==
  ASSUME IInv, NEW t \in Tasks, NEW a, Resume(t, a), UNCHANGED <<bindings, outcome>>
  PROVE  Settled
BY DEF IInv, TypeOK, HoldIsCurrent, Settled, Resume

(* Closing the streams of every binding that is dropped is a settled step. *)
LEMMA FailSettled ==
  ASSUME IInv, NEW R, NEW T, NEW why \in Outcomes \ {"open"},
         CloseStreams(R, why), DropBindings(T),
         \A t \in Tasks : t \in T /\ bindings[t] # None => bindings[t] \in R
  PROVE  Settled
<1>1. TypeOK /\ HoldIsCurrent
  BY DEF IInv
<1>2. /\ outcome' \in [Runs -> Outcomes]
      /\ \A r \in Runs : outcome[r] # "open" => outcome'[r] # "open"
      /\ \A r \in Runs : r \in R => outcome'[r] # "open"
  BY <1>1, CloseEffect
<1>3. /\ bindings' \in [Tasks -> Runs \cup {None}]
      /\ holds' \in [Tasks -> Runs \cup {None}]
      /\ \A t \in Tasks : t \in T => bindings'[t] = None /\ holds'[t] = None
      /\ \A t \in Tasks : t \notin T => bindings'[t] = bindings[t] /\ holds'[t] = holds[t]
  BY <1>1, DropEffect
<1>4. \A t \in Tasks : bindings[t] # None => bindings[t] \in Runs
  BY <1>1 DEF TypeOK
<1> QED
  BY <1>1, <1>2, <1>3, <1>4 DEF Settled, HoldIsCurrent

(* So is failing all runs of an agent (failAgentTasks). *)
LEMMA FailAgentSettled ==
  ASSUME IInv, NEW a, failBindingsForAgent(a)
  PROVE  Settled
<1>1. \A t \in Tasks : t \in TasksOf(a) /\ bindings[t] # None
                         => bindings[t] \in {bindings[x] : x \in TasksOf(a)}
  OBVIOUS
<1>2. "failed" \in Outcomes \ {"open"}
  BY DEF Outcomes
<1> QED
  BY <1>1, <1>2, FailSettled DEF failBindingsForAgent

(* So is failing one binding (failBinding). *)
LEMMA FailTaskSettled ==
  ASSUME IInv, NEW r \in Runs, failTaskBinding(r)
  PROVE  Settled
<1>1. \A t \in Tasks : t \in {x \in Tasks : bindings[x] = r} /\ bindings[t] # None
                         => bindings[t] \in {r}
  OBVIOUS
<1>2. "failed" \in Outcomes \ {"open"}
  BY DEF Outcomes
<1> QED
  BY <1>1, <1>2, FailSettled DEF failTaskBinding

(* So is holding the runs of an agent that left. *)
LEMMA HoldAgentSettled ==
  ASSUME IInv, NEW a, holdBindingsForAgent(a)
  PROVE  Settled
BY DEF IInv, TypeOK, HoldIsCurrent, holdBindingsForAgent, Settled, TasksOf

(* So is settling a displaced or closed connection, whichever way the close code decides. *)
LEMMA SettleSettled ==
  ASSUME IInv, NEW a, NEW hold, SettleBindings(a, hold)
  PROVE  Settled
BY FailAgentSettled, HoldAgentSettled DEF SettleBindings

(* A settled step in which executors at most finish, unbound, and a new receipt *)
(* is for a run it closed keeps every part of the invariant but the types.      *)
LEMMA SettledKeeps ==
  ASSUME IInv, Settled, TypeOK', UNCHANGED runVars,
         \A r \in Runs : \/ phase'[r] = phase[r]
                         \/ /\ phase'[r] = "done" /\ phase[r] # "idle"
                            /\ \A t \in Tasks : bindings'[t] # r,
         \A r \in receipts' : \/ r \in receipts
                              \/ /\ reliable[r] /\ outcome'[r] # "open"
                                 /\ phase[r] \notin {"idle", "starting"}
                                 /\ \A t \in Tasks : bindings'[t] # r
  PROVE  IInv'
<1> USE DEF IInv, Settled
<1>1. RunsKnowTheirTask'
  BY DEF RunsKnowTheirTask, TypeOK
<1>2. HoldIsCurrent'
  BY DEF HoldIsCurrent
<1>3. BoundIsLive'
  BY DEF BoundIsLive, TypeOK
<1>4. NoOrphanStream'
  <2> SUFFICES ASSUME NEW r \in Runs, phase'[r] \in {"running", "unsent"},
                      bindings'[taskOf[r]] # r
               PROVE  outcome'[r] # "open"
    BY DEF NoOrphanStream
  <2>1. phase[r] = phase'[r]
    OBVIOUS
  <2>2. taskOf[r] \in Tasks
    BY <2>1 DEF RunsKnowTheirTask
  <2>3. CASE bindings[taskOf[r]] = r
    BY <2>1, <2>2, <2>3, ConstantsOK
  <2>4. CASE bindings[taskOf[r]] # r
    BY <2>1, <2>4 DEF NoOrphanStream
  <2> QED
    BY <2>3, <2>4
<1>5. ReceiptsAreFinal'
  <2> SUFFICES ASSUME NEW r \in receipts'
               PROVE  /\ reliable[r] /\ outcome'[r] # "open"
                      /\ \A t \in Tasks : bindings'[t] # r
    BY DEF ReceiptsAreFinal
  <2>1. r \in Runs /\ r # None
    BY ConstantsOK DEF TypeOK
  <2>2. CASE r \in receipts
    BY <2>1, <2>2 DEF ReceiptsAreFinal
  <2> QED
    BY <2>1, <2>2
<1> QED
  BY <1>1, <1>2, <1>3, <1>4, <1>5

(* The invariant holds before anything has happened. *)
THEOREM InitInvariant == Init => IInv
<1> SUFFICES ASSUME Init PROVE IInv
  OBVIOUS
<1>1. TypeOK
  BY ConstantsOK DEF Init, TypeOK, Phases, Outcomes
<1> QED
  BY <1>1 DEF Init, IInv, RunsKnowTheirTask, HoldIsCurrent, BoundIsLive, NoOrphanStream,
              ReceiptsAreFinal

-----------------------------------------------------------------------------
(* One lemma per action that touches the table; the others only move socket    *)
(* state.                                                                      *)

(* A hello that is answered registers and settles the connection it displaces. *)
LEMMA AuthenticatedKeeps ==
  ASSUME IInv, NEW s \in Sockets, NEW c \in Connections, Authenticated(s, c)
  PROVE  IInv'
<1>1. Settled
  BY UnchangedSettled, SettleSettled DEF Authenticated
<1>2. TypeOK'
  <2>1. c.agent \in Agents
    BY DEF Connections
  <2> DEFINE old == agents[c.agent]
  <2>2. conn' \in [Sockets -> Connections \cup {None}]
    BY DEF IInv, TypeOK, Authenticated
  <2>3. CASE old # None /\ conn[old].client # c.client
    <3>1. /\ ready' = [ready EXCEPT ![s] = IF @ = "open" THEN "closing" ELSE @]
          /\ UNCHANGED <<agents, ident, authed>>
      BY <2>3 DEF Authenticated
    <3> QED
      BY <1>1, <2>2, <3>1 DEF IInv, TypeOK, Settled, Authenticated
  <2>4. CASE ~(old # None /\ conn[old].client # c.client)
    <3>1. /\ agents' = [agents EXCEPT ![c.agent] = IF ready[s] = "closed" THEN None ELSE s]
          /\ ready' = [x \in Sockets |->
                         IF x = old /\ ready[x] = "open" THEN "closing" ELSE ready[x]]
          /\ ident' = [ident EXCEPT ![s] = IF ready[s] = "closed" THEN None ELSE c.agent]
          /\ authed' = [authed EXCEPT ![s] = ready[s] = "open"]
      BY <2>4 DEF Authenticated
    <3>2. agents' \in [Agents -> Sockets \cup {None}]
      BY <2>1, <3>1 DEF IInv, TypeOK
    <3>3. ready' \in [Sockets -> {"idle", "open", "closing", "closed"}]
      BY <3>1 DEF IInv, TypeOK
    <3>4. ident' \in [Sockets -> Agents \cup {None}]
      BY <2>1, <3>1 DEF IInv, TypeOK
    <3>5. authed' \in [Sockets -> BOOLEAN]
      BY <3>1 DEF IInv, TypeOK
    <3> QED
      BY <1>1, <2>2, <3>2, <3>3, <3>4, <3>5 DEF IInv, TypeOK, Settled, Authenticated
  <2> QED
    BY <2>3, <2>4
<1> QED
  BY <1>1, <1>2, SettledKeeps DEF Authenticated

(* The close handler. *)
LEMMA CloseEventKeeps ==
  ASSUME IInv, NEW s \in Sockets, NEW code \in BOOLEAN, CloseEvent(s, code)
  PROVE  IInv'
<1>1. Settled
  BY UnchangedSettled, SettleSettled DEF CloseEvent, unregisterAgent
<1>2. TypeOK'
  BY <1>1 DEF IInv, TypeOK, Settled, CloseEvent, unregisterAgent
<1> QED
  BY <1>1, <1>2, SettledKeeps DEF CloseEvent

(* Steps that touch sockets alone. *)
LEMMA SocketOnlyKeeps ==
  ASSUME IInv, NEW s \in Sockets, Accept(s) \/ ServerVerdict(s)
  PROVE  IInv'
<1>1. Settled
  BY UnchangedSettled DEF Accept, ServerVerdict
<1>2. TypeOK'
  BY DEF IInv, TypeOK, Accept, ServerVerdict
<1>3. UNCHANGED <<runVars, phase, receipts>>
  BY DEF Accept, ServerVerdict
<1> QED
  BY <1>1, <1>2, <1>3, SettledKeeps

(* The owner deletes the client. *)
LEMMA DisconnectKeeps ==
  ASSUME IInv, NEW c \in Clients, disconnectClient(c)
  PROVE  IInv'
<1>1. Settled
  BY UnchangedSettled DEF disconnectClient
<1>2. TypeOK'
  BY DEF IInv, TypeOK, disconnectClient
<1> QED
  BY <1>1, <1>2, SettledKeeps DEF disconnectClient

(* A frame that reaches a handler names a bound run. *)
LEMMA BoundRun ==
  ASSUME IInv, NEW s \in Sockets, NEW f \in Frames, Owned(s, f.task)
  PROVE  f.task \in Tasks /\ bindings[f.task] \in Runs
BY DEF IInv, TypeOK, Frames, Owned

(* A frame accepted before is acknowledged again. *)
LEMMA FrameRepeatedKeeps ==
  ASSUME IInv, NEW s \in Sockets, NEW f \in Frames, FrameRepeated(s, f)
  PROVE  IInv'
<1>1. Settled
  BY ResumeSettled, BoundRun DEF FrameRepeated, Repeated
<1>2. TypeOK'
  BY <1>1 DEF IInv, TypeOK, Settled, FrameRepeated
<1> QED
  BY <1>1, <1>2, SettledKeeps DEF FrameRepeated

(* A frame with a hole before it fails the run. *)
LEMMA FrameBrokenKeeps ==
  ASSUME IInv, NEW s \in Sockets, NEW f \in Frames, FrameBroken(s, f)
  PROVE  IInv'
<1>1. Settled
  BY FailTaskSettled, BoundRun DEF FrameBroken, Broken
<1>2. TypeOK'
  BY <1>1 DEF IInv, TypeOK, Settled, FrameBroken
<1> QED
  BY <1>1, <1>2, SettledKeeps DEF FrameBroken

(* The sequence number stays in range: the frame's own number was expected. *)
LEMMA CountType ==
  ASSUME IInv, NEW s \in Sockets, NEW f \in Frames, Accepted(s, f),
         CountFrame(bindings[f.task])
  PROVE  nextSeq' \in [Runs -> 0..(MaxSeq + 1)]
<1> DEFINE r == bindings[f.task]
<1>1. r \in Runs
  BY BoundRun DEF Accepted
<1>2. CASE reliable[r]
  <2>1. nextSeq[r] \in 0..MaxSeq
    BY <1>2 DEF Accepted, Frames
  <2>2. nextSeq[r] + 1 \in 0..(MaxSeq + 1)
    BY <2>1, ConstantsOK
  <2> QED
    BY <1>1, <1>2, <2>2 DEF CountFrame, IInv, TypeOK
<1>3. CASE ~reliable[r]
  BY <1>3 DEF CountFrame, IInv, TypeOK
<1> QED
  BY <1>2, <1>3

(* An output frame goes to the stream. *)
LEMMA FrameOutputKeeps ==
  ASSUME IInv, NEW s \in Sockets, NEW f \in Frames, FrameOutput(s, f)
  PROVE  IInv'
<1>1. Settled
  BY ResumeSettled, BoundRun DEF FrameOutput, Accepted
<1>2. nextSeq' \in [Runs -> 0..(MaxSeq + 1)]
  BY CountType DEF FrameOutput
<1>3. TypeOK'
  BY <1>1, <1>2 DEF IInv, TypeOK, Settled, FrameOutput
<1> QED
  BY <1>1, <1>3, SettledKeeps DEF FrameOutput

(* A terminal frame closes the stream and leaves a receipt. *)
LEMMA FrameTerminalKeeps ==
  ASSUME IInv, NEW s \in Sockets, NEW f \in Frames, FrameTerminal(s, f)
  PROVE  IInv'
<1> DEFINE r == bindings[f.task]
<1>1. f.task \in Tasks /\ r \in Runs
  BY BoundRun DEF FrameTerminal, Accepted
<1>2. CloseStreams({r}, "terminal") /\ DropBindings({f.task})
  BY DEF FrameTerminal
<1>3. Settled
  BY <1>2, FailSettled DEF Outcomes
<1>4. nextSeq' \in [Runs -> 0..(MaxSeq + 1)]
  BY CountType DEF FrameTerminal
<1>5. TypeOK'
  BY <1>1, <1>3, <1>4 DEF IInv, TypeOK, Settled, FrameTerminal
<1>6. outcome'[r] # "open"
  BY <1>1, <1>2, CloseEffect DEF IInv, Outcomes
<1>7. r # None /\ taskOf[r] = f.task /\ phase[r] \in {"running", "unsent"}
  BY <1>1, ConstantsOK DEF IInv, BoundIsLive
<1>8. \A t \in Tasks : bindings'[t] # r
  <2> SUFFICES ASSUME NEW t \in Tasks, bindings'[t] = r PROVE FALSE
    OBVIOUS
  <2>1. bindings[t] = r
    BY <1>3, <1>7 DEF Settled
  <2>2. t = f.task
    BY <1>7, <2>1 DEF IInv, BoundIsLive
  <2> QED
    BY <1>1, <1>2, <1>7, <2>2 DEF DropBindings
<1>9. \A x \in receipts' : x \in receipts \/ (x = r /\ reliable[r])
  BY DEF FrameTerminal
<1> HIDE DEF r
<1> QED
  BY <1>3, <1>5, <1>6, <1>7, <1>8, <1>9, SettledKeeps DEF FrameTerminal

(* A malformed approval fails the run. *)
LEMMA FrameBadApprovalKeeps ==
  ASSUME IInv, NEW s \in Sockets, NEW f \in Frames, FrameBadApproval(s, f)
  PROVE  IInv'
<1>1. Settled
  BY FailTaskSettled, BoundRun DEF FrameBadApproval, Accepted
<1>2. nextSeq' \in [Runs -> 0..(MaxSeq + 1)]
  BY CountType DEF FrameBadApproval
<1>3. TypeOK'
  BY <1>1, <1>2 DEF IInv, TypeOK, Settled, FrameBadApproval
<1> QED
  BY <1>1, <1>3, SettledKeeps DEF FrameBadApproval

(* Every task frame. *)
LEMMA HandleFrameKeeps ==
  ASSUME IInv, NEW s \in Sockets, NEW f \in Frames, HandleFrame(s, f)
  PROVE  IInv'
<1>1. CASE FrameIgnored(s, f)
  BY <1>1 DEF FrameIgnored, IInv, TypeOK, RunsKnowTheirTask, HoldIsCurrent, BoundIsLive,
              NoOrphanStream, ReceiptsAreFinal
<1> QED
  BY <1>1, FrameRepeatedKeeps, FrameBrokenKeeps, FrameOutputKeeps, FrameTerminalKeeps,
     FrameBadApprovalKeeps DEF HandleFrame

-----------------------------------------------------------------------------
(* A request starts its generator. *)
LEMMA BeginKeeps ==
  ASSUME IInv, NEW r \in Runs, NEW t \in Tasks, NEW a \in Agents, Begin(r, t, a)
  PROVE  IInv'
<1>1. TypeOK'
  BY DEF IInv, TypeOK, Begin, Phases
<1>2. \A x \in Runs : x # r => /\ phase'[x] = phase[x] /\ taskOf'[x] = taskOf[x]
                               /\ agentOf'[x] = agentOf[x] /\ reliable'[x] = reliable[x]
  BY DEF Begin, IInv, TypeOK
<1>3. phase[r] = "idle" /\ phase'[r] = "starting" /\ taskOf'[r] = t /\ agentOf'[r] = a
  BY DEF Begin, IInv, TypeOK
<1>4. UNCHANGED <<bindings, holds, receipts, outcome>>
  BY DEF Begin
<1>5. \A x \in Tasks : bindings[x] # None => bindings[x] \in Runs /\ bindings[x] # r
  BY <1>3 DEF IInv, TypeOK, BoundIsLive
<1>6. r \notin receipts /\ receipts \subseteq Runs
  BY <1>3 DEF IInv, TypeOK, RunsKnowTheirTask
<1>7. RunsKnowTheirTask'
  BY <1>2, <1>3, <1>4, <1>6 DEF IInv, RunsKnowTheirTask
<1>8. HoldIsCurrent'
  BY <1>4 DEF IInv, HoldIsCurrent
<1>9. BoundIsLive'
  BY <1>2, <1>4, <1>5 DEF IInv, BoundIsLive
<1>10. NoOrphanStream'
  BY <1>2, <1>3, <1>4 DEF IInv, NoOrphanStream
<1>11. ReceiptsAreFinal'
  BY <1>2, <1>4, <1>6 DEF IInv, ReceiptsAreFinal
<1> QED
  BY <1>1, <1>7, <1>8, <1>9, <1>10, <1>11 DEF IInv

(* A dispatch binds a fresh run and supersedes the old one. *)
LEMMA DispatchKeeps ==
  ASSUME IInv, NEW r \in Runs, Dispatch(r)
  PROVE  IInv'
<1> DEFINE t == taskOf[r]
           old == bindings[t]
<1>1. /\ phase[r] = "starting" /\ t \in Tasks /\ r # None
      /\ \A x \in Tasks : bindings[x] # r
  BY ConstantsOK DEF Dispatch, IInv, RunsKnowTheirTask, BoundIsLive
<1>2. /\ bindings' \in [Tasks -> Runs \cup {None}] /\ bindings'[t] = r
      /\ \A x \in Tasks : x # t => bindings'[x] = bindings[x]
  BY <1>1 DEF Dispatch, bindTask, Supersede, IInv, TypeOK
<1>3. /\ outcome' \in [Runs -> Outcomes]
      /\ \A x \in Runs : outcome[x] # "open" => outcome'[x] # "open"
      /\ old # None => outcome'[old] # "open"
  <2>1. CASE old = None
    BY <2>1 DEF Dispatch, bindTask, Supersede, IInv, TypeOK
  <2>2. CASE old # None
    <3>1. CloseStreams({old}, "failed") /\ old \in Runs
      BY <1>1, <2>2 DEF Dispatch, bindTask, Supersede, IInv, TypeOK
    <3> QED
      BY <3>1, CloseEffect DEF IInv, Outcomes
  <2> QED
    BY <2>1, <2>2
<1>4. /\ holds' \in [Tasks -> Runs \cup {None}] /\ holds'[t] = None
      /\ \A x \in Tasks : x # t => holds'[x] = holds[x]
  BY <1>1 DEF Dispatch, bindTask, Supersede, IInv, TypeOK, HoldIsCurrent
<1>5. /\ phase' \in [Runs -> Phases] /\ phase'[r] \in {"running", "unsent"}
      /\ \A x \in Runs : x # r => phase'[x] = phase[x]
  BY DEF Dispatch, bindTask, Supersede, IInv, TypeOK, Phases
<1>6. UNCHANGED <<agents, connVars, receipts, runVars, nextSeq>>
  BY DEF Dispatch
<1>7. TypeOK'
  BY <1>2, <1>3, <1>4, <1>5, <1>6 DEF IInv, TypeOK
<1>8. r \notin receipts /\ receipts \subseteq Runs
  BY <1>1 DEF IInv, RunsKnowTheirTask, TypeOK
<1> HIDE DEF t, old
<1>9. RunsKnowTheirTask'
  BY <1>1, <1>5, <1>6, <1>8 DEF IInv, RunsKnowTheirTask
<1>10. HoldIsCurrent'
  BY <1>2, <1>4 DEF IInv, HoldIsCurrent
<1>11. BoundIsLive'
  BY <1>1, <1>2, <1>5, <1>6 DEF IInv, BoundIsLive, t
<1>12. NoOrphanStream'
  <2> SUFFICES ASSUME NEW x \in Runs, phase'[x] \in {"running", "unsent"},
                      bindings'[taskOf[x]] # x
               PROVE  outcome'[x] # "open"
    BY <1>6 DEF NoOrphanStream
  <2>1. x # r
    BY <1>2 DEF t
  <2>2. phase[x] \in {"running", "unsent"} /\ taskOf[x] \in Tasks
    BY <1>5, <2>1 DEF IInv, RunsKnowTheirTask
  <2>3. CASE taskOf[x] = t /\ old = x
    BY <1>3, <2>3, ConstantsOK
  <2>4. CASE bindings[taskOf[x]] # x
    BY <1>3, <2>2, <2>4 DEF IInv, NoOrphanStream
  <2> QED
    BY <1>2, <2>2, <2>3, <2>4 DEF old
<1>13. ReceiptsAreFinal'
  BY <1>2, <1>3, <1>6, <1>8 DEF IInv, ReceiptsAreFinal
<1> QED
  BY <1>7, <1>9, <1>10, <1>11, <1>12, <1>13 DEF IInv

(* Closing streams of runs without a binding is harmless. *)
LEMMA CloseOnlyKeeps ==
  ASSUME IInv, NEW R, NEW why \in Outcomes \ {"open"}, CloseStreams(R, why),
         UNCHANGED <<agents, connVars, bindings, holds, receipts, runVars, nextSeq>>,
         phase' \in [Runs -> Phases],
         \A r \in Runs : \/ phase'[r] = phase[r]
                         \/ /\ phase'[r] = "done" /\ phase[r] # "idle"
                            /\ \A t \in Tasks : bindings[t] # r
  PROVE  IInv'
<1>1. /\ outcome' \in [Runs -> Outcomes]
      /\ \A r \in Runs : outcome[r] # "open" => outcome'[r] # "open"
  BY CloseEffect DEF IInv
<1>2. Settled
  BY <1>1 DEF IInv, TypeOK, HoldIsCurrent, Settled
<1>3. TypeOK'
  BY <1>1 DEF IInv, TypeOK
<1> QED
  BY <1>2, <1>3, SettledKeeps

(* A dispatch that is refused. *)
LEMMA RefuseKeeps ==
  ASSUME IInv, NEW r \in Runs, Refuse(r)
  PROVE  IInv'
<1>1. \A t \in Tasks : bindings[t] # r
  BY ConstantsOK DEF Refuse, IInv, BoundIsLive
<1>2. phase' \in [Runs -> Phases] /\ \A x \in Runs : x # r => phase'[x] = phase[x]
  BY DEF Refuse, IInv, TypeOK, Phases
<1>3. phase[r] = "starting" /\ phase'[r] = "done"
  BY DEF Refuse, IInv, TypeOK
<1>4. CloseStreams({r}, "failed") /\ "failed" \in Outcomes \ {"open"}
  BY DEF Refuse, Outcomes
<1>5. UNCHANGED <<agents, connVars, bindings, holds, receipts, runVars, nextSeq>>
  BY DEF Refuse
<1> QED
  BY <1>1, <1>2, <1>3, <1>4, <1>5, CloseOnlyKeeps

(* A cancellation. *)
LEMMA CancelKeeps ==
  ASSUME IInv, NEW t \in Tasks, Cancel(t)
  PROVE  IInv'
<1>1. CloseStreams({bindings[t]}, "canceled") /\ "canceled" \in Outcomes \ {"open"}
  BY DEF Cancel, Outcomes
<1>2. UNCHANGED <<agents, connVars, bindings, holds, receipts, runVars, nextSeq, phase>>
  BY DEF Cancel
<1> QED
  BY <1>1, <1>2, CloseOnlyKeeps DEF IInv, TypeOK

(* The watchdog. *)
LEMMA WatchdogKeeps ==
  ASSUME IInv, NEW r \in Runs, Watchdog(r)
  PROVE  IInv'
<1>1. CloseStreams({r}, "timedout") /\ "timedout" \in Outcomes \ {"open"}
  BY DEF Watchdog, Outcomes
<1>2. UNCHANGED <<agents, connVars, bindings, holds, receipts, runVars, nextSeq, phase>>
  BY DEF Watchdog
<1> QED
  BY <1>1, <1>2, CloseOnlyKeeps DEF IInv, TypeOK

(* A generator leaves and unbinds its own run only. *)
LEMMA ExitKeeps ==
  ASSUME IInv, NEW r \in Runs, Exit(r)
  PROVE  IInv'
<1> DEFINE T == {t \in Tasks : bindings[t] = r}
<1>1. DropBindings(T) /\ UNCHANGED outcome
  BY DEF Exit, unbindTask
<1>2. /\ bindings' \in [Tasks -> Runs \cup {None}]
      /\ holds' \in [Tasks -> Runs \cup {None}]
      /\ \A t \in Tasks : t \in T => bindings'[t] = None /\ holds'[t] = None
      /\ \A t \in Tasks : t \notin T => bindings'[t] = bindings[t] /\ holds'[t] = holds[t]
  BY <1>1, DropEffect DEF IInv
<1>3. /\ phase' \in [Runs -> Phases] /\ phase'[r] = "done" /\ phase[r] # "idle"
      /\ \A x \in Runs : x # r => phase'[x] = phase[x]
  BY DEF Exit, IInv, TypeOK, Phases
<1>4. \A t \in Tasks : bindings'[t] # r
  BY <1>2, ConstantsOK
<1>5. Settled
  BY <1>1, <1>2, <1>3 DEF IInv, TypeOK, HoldIsCurrent, Settled
<1>6. TypeOK'
  BY <1>1, <1>2, <1>3 DEF IInv, TypeOK, Exit
<1> QED
  BY <1>3, <1>4, <1>5, <1>6, SettledKeeps DEF Exit

(* The grace timer. *)
LEMMA HoldExpiresKeeps ==
  ASSUME IInv, NEW t \in Tasks, HoldExpires(t)
  PROVE  IInv'
<1>1. holds[t] \in Runs /\ bindings[t] = holds[t]
  BY DEF HoldExpires, IInv, TypeOK, HoldIsCurrent
<1>2. Settled
  BY <1>1, FailTaskSettled DEF HoldExpires
<1>3. TypeOK'
  BY <1>2 DEF IInv, TypeOK, Settled, HoldExpires
<1> QED
  BY <1>2, <1>3, SettledKeeps DEF HoldExpires

(* The receipt timer. *)
LEMMA ReceiptExpiresKeeps ==
  ASSUME IInv, NEW r \in Runs, ReceiptExpires(r)
  PROVE  IInv'
<1>1. Settled
  BY UnchangedSettled DEF ReceiptExpires
<1>2. TypeOK'
  BY DEF IInv, TypeOK, ReceiptExpires
<1> QED
  BY <1>1, <1>2, SettledKeeps DEF ReceiptExpires

-----------------------------------------------------------------------------
(* IInv is inductive. *)
THEOREM StepInvariant == IInv /\ [Next]_vars => IInv'
<1> SUFFICES ASSUME IInv, [Next]_vars PROVE IInv'
  OBVIOUS
<1>1. CASE ConnectionStep
  <2>1. PICK s \in Sockets : \/ Accept(s)
                             \/ \E c \in Connections : Authenticated(s, c)
                             \/ \E code \in BOOLEAN : CloseEvent(s, code)
                             \/ ServerVerdict(s)
    BY <1>1 DEF ConnectionStep
  <2>2. CASE Accept(s)
    BY <2>2, SocketOnlyKeeps
  <2>3. CASE \E c \in Connections : Authenticated(s, c)
    BY <2>3, AuthenticatedKeeps
  <2>4. CASE \E code \in BOOLEAN : CloseEvent(s, code)
    BY <2>4, CloseEventKeeps
  <2>5. CASE ServerVerdict(s)
    BY <2>5, SocketOnlyKeeps
  <2> QED
    BY <2>1, <2>2, <2>3, <2>4, <2>5
<1>2. CASE RunStep
  BY <1>2, BeginKeeps, DispatchKeeps, RefuseKeeps, WatchdogKeeps, ExitKeeps,
     ReceiptExpiresKeeps DEF RunStep
<1>3. CASE \E s \in Sockets, f \in Frames : HandleFrame(s, f)
  BY <1>3, HandleFrameKeeps
<1>4. CASE \E c \in Clients : disconnectClient(c)
  BY <1>4, DisconnectKeeps
<1>5. CASE \E t \in Tasks : Cancel(t) \/ HoldExpires(t)
  BY <1>5, CancelKeeps, HoldExpiresKeeps
<1>6. CASE UNCHANGED vars
  BY <1>6 DEF IInv, TypeOK, RunsKnowTheirTask, HoldIsCurrent, BoundIsLive,
              NoOrphanStream, ReceiptsAreFinal
<1> QED
  BY <1>1, <1>2, <1>3, <1>4, <1>5, <1>6 DEF Next

(* For all constants, every reachable state satisfies the inductive invariant. *)
THEOREM Safety == Spec => []IInv
<1>1. Init => IInv
  BY InitInvariant
<1>2. IInv /\ [Next]_vars => IInv'
  BY StepInvariant
<1> QED
  BY <1>1, <1>2, PTL DEF Spec

(* The variables keep their types. *)
THEOREM TypeCorrect == Spec => []TypeOK
<1>1. IInv => TypeOK
  BY DEF IInv
<1> QED
  BY <1>1, Safety, PTL

(* Issue #365: no run loses its binding while its caller's stream stays open. *)
THEOREM StreamsNeverOrphaned == Spec => []NoOrphanStream
<1>1. IInv => NoOrphanStream
  BY DEF IInv
<1> QED
  BY <1>1, Safety, PTL

(* A pending grace hold is always about the binding that owns the task. *)
THEOREM HoldsAreCurrent == Spec => []HoldIsCurrent
<1>1. IInv => HoldIsCurrent
  BY DEF IInv
<1> QED
  BY <1>1, Safety, PTL

(* No binding outlives its executor. *)
THEOREM BindingsAreLive == Spec => []BoundIsLive
<1>1. IInv => BoundIsLive
  BY DEF IInv
<1> QED
  BY <1>1, Safety, PTL

(* A terminal receipt is only kept for a run whose stream was closed. *)
THEOREM ReceiptsStayFinal == Spec => []ReceiptsAreFinal
<1>1. IInv => ReceiptsAreFinal
  BY DEF IInv
<1> QED
  BY <1>1, Safety, PTL

-----------------------------------------------------------------------------
(* What single steps may never do. *)

(* A step is settled and keeps every run's agent, or it is a begin or a dispatch. *)
LEMMA StepKind ==
  ASSUME IInv, [Next]_vars
  PROVE  \/ Settled /\ UNCHANGED agentOf
         \/ \E r \in Runs, t \in Tasks, a \in Agents : Begin(r, t, a)
         \/ \E r \in Runs : Dispatch(r)
<1>1. ASSUME NEW s \in Sockets, Accept(s) \/ ServerVerdict(s)
      PROVE  Settled /\ UNCHANGED agentOf
  BY <1>1, UnchangedSettled DEF Accept, ServerVerdict
<1>2. ASSUME NEW s \in Sockets, NEW c \in Connections, Authenticated(s, c)
      PROVE  Settled /\ UNCHANGED agentOf
  BY <1>2, UnchangedSettled, SettleSettled DEF Authenticated
<1>3. ASSUME NEW s \in Sockets, NEW code \in BOOLEAN, CloseEvent(s, code)
      PROVE  Settled /\ UNCHANGED agentOf
  BY <1>3, UnchangedSettled, SettleSettled DEF CloseEvent, unregisterAgent
<1>4. ASSUME NEW s \in Sockets, NEW f \in Frames, HandleFrame(s, f)
      PROVE  Settled /\ UNCHANGED agentOf
  <2>1. CASE FrameRepeated(s, f)
    BY <2>1, ResumeSettled, BoundRun DEF FrameRepeated, Repeated
  <2>2. CASE FrameBroken(s, f)
    BY <2>2, FailTaskSettled, BoundRun DEF FrameBroken, Broken
  <2>3. CASE FrameOutput(s, f)
    BY <2>3, ResumeSettled, BoundRun DEF FrameOutput, Accepted
  <2>4. CASE FrameTerminal(s, f)
    <3>1. CloseStreams({bindings[f.task]}, "terminal") /\ DropBindings({f.task})
      BY <2>4 DEF FrameTerminal
    <3>2. Settled
      BY <3>1, FailSettled DEF Outcomes
    <3> QED
      BY <2>4, <3>2 DEF FrameTerminal
  <2>5. CASE FrameBadApproval(s, f)
    BY <2>5, FailTaskSettled, BoundRun DEF FrameBadApproval, Accepted
  <2>6. CASE FrameIgnored(s, f)
    BY <2>6, UnchangedSettled DEF FrameIgnored
  <2> QED
    BY <1>4, <2>1, <2>2, <2>3, <2>4, <2>5, <2>6 DEF HandleFrame
<1>5. ASSUME NEW R, NEW why \in Outcomes \ {"open"}, CloseStreams(R, why),
             UNCHANGED <<bindings, holds>>
      PROVE  Settled
  BY <1>5, CloseEffect DEF IInv, TypeOK, HoldIsCurrent, Settled
<1>6. ASSUME NEW r \in Runs, Refuse(r) \/ Watchdog(r)
      PROVE  Settled /\ UNCHANGED agentOf
  BY <1>5, <1>6 DEF Refuse, Watchdog, Outcomes
<1>7. ASSUME NEW r \in Runs, Exit(r)
      PROVE  Settled /\ UNCHANGED agentOf
  <2> DEFINE T == {t \in Tasks : bindings[t] = r}
  <2>1. DropBindings(T) /\ UNCHANGED <<outcome, agentOf>> /\ phase'[r] = "done"
    BY <1>7 DEF Exit, unbindTask, IInv, TypeOK
  <2>2. /\ bindings' \in [Tasks -> Runs \cup {None}]
        /\ holds' \in [Tasks -> Runs \cup {None}]
        /\ \A t \in Tasks : t \in T => bindings'[t] = None /\ holds'[t] = None
        /\ \A t \in Tasks : t \notin T => bindings'[t] = bindings[t] /\ holds'[t] = holds[t]
    BY <2>1, DropEffect DEF IInv
  <2> QED
    BY <2>1, <2>2 DEF IInv, TypeOK, HoldIsCurrent, Settled
<1>8. ASSUME NEW r \in Runs, ReceiptExpires(r)
      PROVE  Settled /\ UNCHANGED agentOf
  BY <1>8, UnchangedSettled DEF ReceiptExpires
<1>9. ASSUME NEW c \in Clients, disconnectClient(c)
      PROVE  Settled /\ UNCHANGED agentOf
  BY <1>9, UnchangedSettled DEF disconnectClient
<1>10. ASSUME NEW t \in Tasks, Cancel(t)
       PROVE  Settled /\ UNCHANGED agentOf
  BY <1>5, <1>10 DEF Cancel, Outcomes
<1>11. ASSUME NEW t \in Tasks, HoldExpires(t)
       PROVE  Settled /\ UNCHANGED agentOf
  <2>1. holds[t] \in Runs /\ bindings[t] = holds[t]
    BY <1>11 DEF HoldExpires, IInv, TypeOK, HoldIsCurrent
  <2> QED
    BY <1>11, <2>1, FailTaskSettled DEF HoldExpires
<1>12. CASE UNCHANGED vars
  BY <1>12, UnchangedSettled
<1> QED
  BY <1>1, <1>2, <1>3, <1>4, <1>6, <1>7, <1>8, <1>9, <1>10, <1>11, <1>12
     DEF Next, ConnectionStep, RunStep

(* Issue #476: a task in flight never passes to another agent.  A settled step  *)
(* binds nothing, a run that begins is not bound, and bindTask refuses another  *)
(* agent's task.                                                               *)
THEOREM TasksKeepTheirAgent == Spec => TaskKeepsAgent
<1> DEFINE A == \A t \in Tasks : bindings[t] # None /\ bindings'[t] # None
                  => agentOf'[bindings'[t]] = agentOf[bindings[t]]
<1>1. ASSUME IInv, [Next]_vars PROVE A
  <2>1. CASE Settled /\ UNCHANGED agentOf
    BY <2>1 DEF Settled
  <2>2. CASE \E r \in Runs, t \in Tasks, a \in Agents : Begin(r, t, a)
    <3>1. PICK r \in Runs, a \in Agents : phase[r] = "idle" /\ UNCHANGED bindings
                                           /\ agentOf' = [agentOf EXCEPT ![r] = a]
      BY <2>2 DEF Begin
    <3>2. \A t \in Tasks : bindings[t] # None => bindings[t] \in Runs /\ bindings[t] # r
      BY <1>1, <3>1 DEF IInv, TypeOK, BoundIsLive
    <3> QED
      BY <1>1, <3>1, <3>2 DEF IInv, TypeOK
  <2>3. CASE \E r \in Runs : Dispatch(r)
    <3>1. PICK r \in Runs : Dispatch(r)
      BY <2>3
    <3>2. /\ bindings[taskOf[r]] # None => agentOf[bindings[taskOf[r]]] = agentOf[r]
          /\ bindings' = [bindings EXCEPT ![taskOf[r]] = r]
          /\ UNCHANGED agentOf
      BY <3>1 DEF Dispatch, bindTask, Supersede
    <3> QED
      BY <1>1, <3>2 DEF IInv, TypeOK
  <2> QED
    BY <1>1, <2>1, <2>2, <2>3, StepKind
<1>2. IInv /\ [Next]_vars => [A]_vars
  BY <1>1
<1> QED
  BY <1>2, Safety, PTL DEF Spec, TaskKeepsAgent

(* A connection that may not be waited for leaves the table with all its tasks: *)
(* only a late hello and a close event change who is registered, and both       *)
(* settle what they displace by what was noted of that connection, not by what  *)
(* its peer says.                                                              *)
THEOREM CondemnedStaysSo == Spec => CondemnedIsNotRescued
<1> DEFINE A == \A a \in Agents : agents[a] # None /\ agents'[a] # agents[a]
                    /\ ~(conn[agents[a]].replay /\ agents[a] \notin serverClosed)
                  => \A t \in TasksOf(a) : bindings'[t] # bindings[t]
<1>1. ASSUME NEW a, failBindingsForAgent(a)
      PROVE  \A t \in TasksOf(a) : bindings'[t] # bindings[t]
  BY <1>1 DEF failBindingsForAgent, DropBindings, TasksOf
<1>2. ASSUME NEW a, NEW h, ~h, SettleBindings(a, h)
      PROVE  \A t \in TasksOf(a) : bindings'[t] # bindings[t]
  BY <1>1, <1>2 DEF SettleBindings
<1>3. ASSUME IInv, NEW s \in Sockets, NEW c \in Connections, Authenticated(s, c)
      PROVE  A
  <2> SUFFICES ASSUME NEW a \in Agents, agents[a] # None, agents'[a] # agents[a],
                      ~(conn[agents[a]].replay /\ agents[a] \notin serverClosed)
               PROVE  \A t \in TasksOf(a) : bindings'[t] # bindings[t]
    OBVIOUS
  <2> DEFINE b == c.agent
             old == agents[b]
             stays == c.replay /\ s \notin serverClosed /\ graceable[s]
             late == ready[s] = "closed"
  <2>1. ~(old # None /\ conn[old].client # c.client)
    BY <1>3 DEF Authenticated
  <2>2. /\ agents' = [agents EXCEPT ![b] = IF late THEN None ELSE s]
        /\ old # None => SettleBindings(b, MayHold(old) /\ (late => stays))
    BY <1>3, <2>1 DEF Authenticated
  <2>3. a = b
    BY <1>3, <2>2 DEF IInv, TypeOK
  <2>4. ~(MayHold(old) /\ (late => stays))
    BY <2>3 DEF MayHold
  <2> HIDE DEF b, old, stays, late
  <2>5. SettleBindings(b, MayHold(old) /\ (late => stays))
    BY <2>2, <2>3 DEF old
  <2> QED
    BY <1>2, <2>3, <2>4, <2>5
<1>4. ASSUME IInv, NEW s \in Sockets, NEW code \in BOOLEAN, CloseEvent(s, code)
      PROVE  A
  <2> SUFFICES ASSUME NEW a \in Agents, agents[a] # None, agents'[a] # agents[a],
                      ~(conn[agents[a]].replay /\ agents[a] \notin serverClosed)
               PROVE  \A t \in TasksOf(a) : bindings'[t] # bindings[t]
    OBVIOUS
  <2>1. unregisterAgent(ident[s], s, code) /\ agents[ident[s]] = s
    BY <1>4 DEF CloseEvent, unregisterAgent
  <2>2. /\ agents' = [agents EXCEPT ![ident[s]] = None]
        /\ SettleBindings(ident[s], MayHold(s) /\ code)
    BY <2>1 DEF unregisterAgent
  <2>3. a = ident[s]
    BY <1>4, <2>2 DEF IInv, TypeOK
  <2>4. ~(MayHold(s) /\ code)
    BY <2>1, <2>3 DEF MayHold
  <2> QED
    BY <1>2, <2>2, <2>3, <2>4
<1>5. ASSUME IInv, [Next]_vars PROVE A
  <2>1. \/ UNCHANGED agents
        \/ \E s \in Sockets, c \in Connections : Authenticated(s, c)
        \/ \E s \in Sockets, code \in BOOLEAN : CloseEvent(s, code)
    BY ZenonT(60), <1>5 DEF Next, ConnectionStep, RunStep, HandleFrame, Accept, ServerVerdict, Begin,
       Dispatch, Refuse, Watchdog, Exit, ReceiptExpires, FrameRepeated, FrameBroken,
       FrameOutput, FrameTerminal, FrameBadApproval, FrameIgnored, disconnectClient,
       Cancel, HoldExpires
  <2>2. CASE UNCHANGED agents
    BY <2>2
  <2> QED
    BY <1>3, <1>4, <1>5, <2>1, <2>2
<1>6. IInv /\ [Next]_vars => [A]_vars
  BY <1>5
<1> QED
  BY <1>6, Safety, PTL DEF Spec, CondemnedIsNotRescued

--------------------------------------------------------------------------------
(* What a step of the server may do to the table, as far as the daemons and     *)
(* their frames can tell: sockets only close, runs only advance, a binding is   *)
(* kept, dropped, or of a run that starts.                                      *)
Onward ==
  /\ \A s \in Sockets : /\ ready[s] = "closed" => ready'[s] = "closed"
                        /\ ready[s] # "idle" => ready'[s] # "idle"
                        /\ authed'[s] => ident'[s] = Identity.agent
  /\ \A r \in Runs : /\ phase[r] # "idle" =>
                          taskOf'[r] = taskOf[r] /\ reliable'[r] = reliable[r]
                     /\ phase[r] \notin {"idle", "starting"} => phase'[r] \notin {"idle", "starting"}
                     /\ phase'[r] # "idle" => agentOf'[r] = Identity.agent
  /\ \A t \in Tasks : bindings'[t] # None =>
       bindings'[t] = bindings[t] \/ phase[bindings'[t]] = "starting"

(* The streams a step closes are given up on, and are those of dispatched runs. *)
GivesUp ==
  \A r \in Runs : \/ outcome'[r] = outcome[r]
                  \/ /\ outcome[r] = "open" /\ phase[r] \notin {"idle", "starting"}
                     /\ outcome'[r] \in Outcomes \ {"open", "terminal"}

(* The agent that every daemon here speaks for is one of the agents. *)
LEMMA IdentityType == Identity \in Connections /\ Identity.agent \in Agents
BY ReplayConstantsOK DEF Identity, Connections

(* Closing the streams of bound runs gives them up. *)
LEMMA CloseGivesUp ==
  ASSUME IInv, NEW R, NEW why \in Outcomes \ {"open", "terminal"}, CloseStreams(R, why),
         \A r \in Runs : r \in R => phase[r] \notin {"idle", "starting"}
  PROVE  GivesUp
BY DEF CloseStreams, GivesUp

(* The run a task is bound to was dispatched. *)
LEMMA BoundIsDispatched ==
  ASSUME IInv, NEW t \in Tasks, bindings[t] # None
  PROVE  bindings[t] \in Runs /\ phase[bindings[t]] \notin {"idle", "starting"}
BY DEF IInv, TypeOK, BoundIsLive

(* Settling a lost or replaced connection gives its runs up, or holds them. *)
LEMMA SettleGivesUp ==
  ASSUME IInv, NEW a, NEW hold, SettleBindings(a, hold)
  PROVE  GivesUp
<1>1. CASE failBindingsForAgent(a)
  <2>1. CloseStreams({bindings[t] : t \in TasksOf(a)}, "failed")
    BY <1>1 DEF failBindingsForAgent
  <2>2. \A r \in Runs : r \in {bindings[t] : t \in TasksOf(a)} => phase[r] \notin {"idle", "starting"}
    BY BoundIsDispatched DEF TasksOf
  <2>3. "failed" \in Outcomes \ {"open", "terminal"}
    BY DEF Outcomes
  <2> QED
    BY <2>1, <2>2, <2>3, CloseGivesUp
<1>2. CASE holdBindingsForAgent(a)
  BY <1>2 DEF holdBindingsForAgent, GivesUp
<1> QED
  BY <1>1, <1>2 DEF SettleBindings

(* failTaskBinding gives the run up. *)
LEMMA FailGivesUp ==
  ASSUME IInv, NEW r \in Runs, phase[r] \notin {"idle", "starting"}, failTaskBinding(r)
  PROVE  GivesUp
<1>1. CloseStreams({r}, "failed") /\ "failed" \in Outcomes \ {"open", "terminal"}
  BY DEF failTaskBinding, Outcomes
<1> QED
  BY <1>1, CloseGivesUp

(* A settled step that touches neither sockets nor runs goes onward. *)
LEMMA SettledOnward ==
  ASSUME TableFits, Settled, UNCHANGED <<connVars, runVars>>,
         \A r \in Runs : phase'[r] = phase[r]
  PROVE  Onward
BY DEF TableFits, Settled, Onward

(* A hello settles the old connection's bindings and only goes onward. *)
LEMMA AuthenticatedOnward ==
  ASSUME IInv, TableFits, NEW s \in Sockets, Authenticated(s, Identity)
  PROVE  Onward /\ GivesUp /\ UNCHANGED nextSeq
<1> USE IdentityType
<1>0. [Next]_vars
  BY DEF Next, ConnectionStep
<1>1. Settled
  BY UnchangedSettled, SettleSettled DEF Authenticated
<1>2. GivesUp
  BY SettleGivesUp DEF Authenticated, GivesUp
<1>3. \A x \in Sockets : ready'[x] = ready[x] \/ (ready[x] = "open" /\ ready'[x] = "closing")
  BY DEF Authenticated, IInv, TypeOK
<1>4. \A x \in Sockets : authed'[x] => ident'[x] = Identity.agent
  <2>1. CASE UNCHANGED <<ident, authed>>
    BY <2>1 DEF TableFits
  <2>2. CASE /\ ident' = [ident EXCEPT ![s] = IF ready[s] = "closed" THEN None ELSE Identity.agent]
             /\ authed' = [authed EXCEPT ![s] = ready[s] = "open"]
    <3> TAKE x \in Sockets
    <3>1. CASE x = s
      BY <2>2, <3>1 DEF IInv, TypeOK
    <3>2. CASE x # s
      BY <2>2, <3>2 DEF TableFits, IInv, TypeOK
    <3> QED
      BY <3>1, <3>2
  <2> QED
    BY <2>1, <2>2 DEF Authenticated
<1> QED
  BY <1>1, <1>2, <1>3, <1>4 DEF Authenticated, Onward, Settled, TableFits

(* The close of a socket settles its bindings and only goes onward. *)
LEMMA CloseEventOnward ==
  ASSUME IInv, TableFits, NEW s \in Sockets, CloseEvent(s, TRUE)
  PROVE  Onward /\ GivesUp /\ UNCHANGED nextSeq /\ ready'[s] = "closed"
<1>1. Settled
  BY UnchangedSettled, SettleSettled DEF CloseEvent, unregisterAgent
<1>2. GivesUp
  BY SettleGivesUp DEF CloseEvent, unregisterAgent, GivesUp
<1>3. ready'[s] = "closed" /\ \A x \in Sockets : ready'[x] = ready[x] \/ ready'[x] = "closed"
  BY DEF CloseEvent, IInv, TypeOK
<1> QED
  BY <1>1, <1>2, <1>3 DEF CloseEvent, Onward, Settled, TableFits

(* A socket that is opened goes onward. *)
LEMMA AcceptOnward ==
  ASSUME IInv, TableFits, NEW s \in Sockets, Accept(s)
  PROVE  Onward /\ GivesUp /\ UNCHANGED nextSeq
BY DEF IInv, TypeOK, TableFits, Accept, Onward, GivesUp

(* A run that begins is a run that was idle. *)
LEMMA BeginOnward ==
  ASSUME IInv, TableFits, NEW r \in Runs, NEW t \in Tasks, Begin(r, t, Identity.agent)
  PROVE  Onward /\ GivesUp /\ UNCHANGED nextSeq
BY IdentityType DEF IInv, TypeOK, TableFits, Begin, Onward, GivesUp

(* A dispatch binds its task to the run that starts, or to nothing. *)
LEMMA DispatchOnward ==
  ASSUME IInv, TableFits, NEW r \in Runs, Dispatch(r)
  PROVE  Onward /\ GivesUp /\ UNCHANGED nextSeq
<1>1. taskOf[r] \in Tasks /\ phase[r] = "starting"
  BY DEF Dispatch, IInv, RunsKnowTheirTask
<1>2. \A t \in Tasks : bindings'[t] = IF t = taskOf[r] THEN r ELSE bindings[t]
  BY <1>1 DEF Dispatch, bindTask, Supersede, IInv, TypeOK
<1>3. \A x \in Runs : phase'[x] = phase[x] \/ phase'[x] \in {"unsent", "running"}
  BY DEF Dispatch, IInv, TypeOK
<1>4. GivesUp
  <2>1. CASE bindings[taskOf[r]] = None
    BY <2>1 DEF Dispatch, bindTask, Supersede, GivesUp
  <2>2. CASE bindings[taskOf[r]] # None
    <3>1. CloseStreams({bindings[taskOf[r]]}, "failed") /\ "failed" \in Outcomes \ {"open", "terminal"}
      BY <2>2 DEF Dispatch, bindTask, Supersede, Outcomes
    <3> QED
      BY <1>1, <2>2, <3>1, BoundIsDispatched, CloseGivesUp
  <2> QED
    BY <2>1, <2>2
<1> QED
  BY <1>1, <1>2, <1>3, <1>4 DEF Dispatch, Onward, TableFits

(* The server's own close of a socket changes no run. *)
LEMMA CloseOnlyOnward ==
  ASSUME IInv, TableFits, UNCHANGED <<connVars, runVars, bindings, phase>>
  PROVE  Onward
BY DEF Onward, TableFits

(* A cancel gives up the run it fails. *)
LEMMA CancelOnward ==
  ASSUME IInv, TableFits, NEW t \in Tasks, Cancel(t)
  PROVE  Onward /\ GivesUp /\ UNCHANGED nextSeq
<1>1. CloseStreams({bindings[t]}, "canceled") /\ "canceled" \in Outcomes \ {"open", "terminal"}
  BY DEF Cancel, Outcomes
<1>2. GivesUp
  BY <1>1, BoundIsDispatched, CloseGivesUp DEF Cancel
<1> QED
  BY <1>2, CloseOnlyOnward DEF Cancel

(* A silent run is given up. *)
LEMMA WatchdogOnward ==
  ASSUME IInv, TableFits, NEW r \in Runs, Watchdog(r)
  PROVE  Onward /\ GivesUp /\ UNCHANGED nextSeq
<1>1. CloseStreams({r}, "timedout") /\ "timedout" \in Outcomes \ {"open", "terminal"}
  BY DEF Watchdog, Outcomes
<1>2. GivesUp
  BY <1>1, CloseGivesUp DEF Watchdog
<1> QED
  BY <1>2, CloseOnlyOnward DEF Watchdog

(* Forgetting a receipt changes no run. *)
LEMMA ReceiptExpiresOnward ==
  ASSUME IInv, TableFits, NEW r \in Runs, ReceiptExpires(r)
  PROVE  Onward /\ GivesUp /\ UNCHANGED nextSeq
BY CloseOnlyOnward DEF ReceiptExpires, GivesUp

(* A run that exits gives its binding up. *)
LEMMA ExitOnward ==
  ASSUME IInv, TableFits, NEW r \in Runs, Exit(r)
  PROVE  Onward /\ GivesUp /\ UNCHANGED nextSeq
<1>1. \A t \in Tasks : bindings'[t] = None \/ bindings'[t] = bindings[t]
  BY DEF Exit, unbindTask, DropBindings
<1>2. \A x \in Runs : phase'[x] = phase[x] \/ (phase[x] \in {"running", "unsent"} /\ phase'[x] = "done")
  BY DEF Exit, IInv, TypeOK
<1> QED
  BY <1>1, <1>2 DEF Exit, Onward, GivesUp, TableFits

(* A hold that expires gives up the runs held. *)
LEMMA HoldExpiresOnward ==
  ASSUME IInv, TableFits, NEW t \in Tasks, HoldExpires(t)
  PROVE  Onward /\ GivesUp /\ UNCHANGED nextSeq
<1>1. holds[t] \in Runs /\ bindings[t] = holds[t] /\ bindings[t] # None
  BY ConstantsOK DEF HoldExpires, IInv, TypeOK, HoldIsCurrent
<1>2. Settled
  BY <1>1, FailTaskSettled DEF HoldExpires
<1>3. GivesUp
  BY <1>1, BoundIsDispatched, FailGivesUp DEF HoldExpires
<1> QED
  BY <1>2, <1>3, SettledOnward DEF HoldExpires

(* A frame that is not accepted. *)
LEMMA UnacceptedOnward ==
  ASSUME IInv, TableFits, NEW s \in Sockets, NEW f \in Frames,
         FrameRepeated(s, f) \/ FrameBroken(s, f) \/ FrameIgnored(s, f)
  PROVE  Onward /\ GivesUp /\ UNCHANGED nextSeq
<1>1. CASE FrameRepeated(s, f)
  <2>1. Settled
    BY <1>1, ResumeSettled, BoundRun DEF FrameRepeated, Repeated
  <2> QED
    BY <1>1, <2>1, SettledOnward DEF FrameRepeated, GivesUp
<1>2. CASE FrameBroken(s, f)
  <2>1. f.task \in Tasks /\ bindings[f.task] # None
    BY <1>2 DEF FrameBroken, Broken, Owned, Frames
  <2>2. Settled /\ GivesUp
    BY <1>2, <2>1, BoundIsDispatched, FailTaskSettled, FailGivesUp DEF FrameBroken
  <2> QED
    BY <1>2, <2>2, SettledOnward DEF FrameBroken
<1>3. CASE FrameIgnored(s, f)
  BY <1>3, CloseOnlyOnward DEF FrameIgnored, GivesUp
<1> QED
  BY <1>1, <1>2, <1>3

-----------------------------------------------------------------------------
(* What is accepted only grows, and was made. *)
SeqOnward == \A r \in Runs : nextSeq'[r] \in Nat /\ nextSeq[r] <= nextSeq'[r] /\ nextSeq'[r] <= made[r]

(* A step that accepts nothing leaves the counts as they are. *)
LEMMA StillOnward ==
  ASSUME ReplayTypeOK, TableFits, UNCHANGED nextSeq
  PROVE  SeqOnward
BY ReplayConstantsOK, ConstantsOK DEF ReplayTypeOK, TypeOK, TableFits, SeqOnward

(* Accepting a genuine frame counts it, and nothing of another run; of a reliable
   run it is the very frame that was expected next. *)
LEMMA AcceptedCounts ==
  ASSUME ReplayTypeOK, IInv, TableFits, NEW s \in Sockets, NEW f \in Frames, Accepted(s, f), Genuine(f),
         CountFrame(bindings[f.task])
  PROVE  /\ SeqOnward
         /\ bindings[f.task] \in Runs
         /\ \A x \in Runs : x # bindings[f.task] => nextSeq'[x] = nextSeq[x]
         /\ reliable[bindings[f.task]] =>
              /\ f.exec = bindings[f.task] /\ f.seq = nextSeq[f.exec] /\ nextSeq'[f.exec] = f.seq + 1
         /\ ~reliable[bindings[f.task]] => nextSeq' = nextSeq
<1> DEFINE r == bindings[f.task]
<1>1. r \in Runs /\ f.task \in Tasks /\ f.seq \in Nat
  BY ConstantsOK DEF Accepted, Owned, Frames, IInv, TypeOK
<1>2. \A x \in Runs : nextSeq[x] \in Nat /\ made[x] \in Nat /\ nextSeq[x] <= made[x]
  BY ConstantsOK DEF ReplayTypeOK, TypeOK, TableFits
<1>3. nextSeq \in [Runs -> Nat]
  BY ConstantsOK DEF IInv, TypeOK
<1>4. CASE reliable[r]
  <2>1. f.exec = r /\ f.seq = nextSeq[r] /\ f.seq < made[r]
    BY <1>1, <1>4, ConstantsOK DEF Accepted, Genuine
  <2>2. nextSeq' = [nextSeq EXCEPT ![r] = @ + 1]
    BY <1>4 DEF CountFrame
  <2> QED
    BY <1>1, <1>2, <1>3, <1>4, <2>1, <2>2 DEF SeqOnward
<1>5. CASE ~reliable[r]
  BY <1>1, <1>2, <1>5 DEF CountFrame, SeqOnward
<1> QED
  BY <1>4, <1>5

(* A step of the server that gives up on streams at most keeps the table fit. *)
LEMMA QuietTableFits ==
  ASSUME ReplayTypeOK, TableFits, Onward, GivesUp, SeqOnward, UNCHANGED clientVars
  PROVE  TableFits'
<1> USE DEF clientVars
<1>1. ASSUME NEW s \in Sockets PROVE (authed[s] => ident[s] = Identity.agent)'
  BY DEF Onward, Identity
<1>2. ASSUME NEW r \in Runs
      PROVE  /\ (phase[r] # "idle" => agentOf[r] = Identity.agent)'
             /\ (phase[r] \in {"idle", "starting"} => backend[r] = "none" /\ outcome[r] = "open")'
             /\ (backend[r] = "none" => made[r] = 0)'
             /\ (nextSeq[r] <= made[r])'
  <2>1. phase'[r] \in {"idle", "starting"} => phase[r] \in {"idle", "starting"}
    BY <1>2 DEF Onward
  <2>2. phase[r] \in {"idle", "starting"} => outcome'[r] = "open"
    BY <1>2 DEF GivesUp, TableFits
  <2> QED
    BY <1>2, <2>1, <2>2 DEF Onward, TableFits, SeqOnward, Identity
<1>3. ASSUME NEW r \in Runs, outcome'[r] = "terminal", NEW t \in Tasks
      PROVE  bindings'[t] # r
  <2>1. outcome[r] = "terminal" /\ phase[r] \notin {"idle", "starting"} /\ bindings[t] # r
    BY <1>3 DEF GivesUp, TableFits
  <2> QED
    BY <1>3, <2>1, ConstantsOK DEF Onward
<1>4. ASSUME NEW d \in Daemons, ws'[d] # None PROVE ready'[ws'[d]] # "idle"
  <2>1. ws' = ws /\ ws[d] \in Sockets
    BY <1>4 DEF ReplayTypeOK
  <2>2. ready[ws[d]] # "idle"
    BY <1>4, <2>1 DEF TableFits
  <2> QED
    BY <2>1, <2>2 DEF Onward
<1> QED
  BY <1>1, <1>2, <1>3, <1>4 DEF TableFits

(* What a run at a daemon is, the server does not change. *)
LEMMA KnownRuns ==
  ASSUME ReplayTypeOK, TableFits, Onward, NEW r \in Runs, backend[r] # "none"
  PROVE  /\ phase[r] \notin {"idle", "starting"}
         /\ taskOf'[r] = taskOf[r] /\ reliable'[r] = reliable[r]
         /\ \A t \in Tasks : bindings'[t] = r => bindings[t] = r
BY ConstantsOK DEF TableFits, Onward

(* A step of the server leaves a genuine frame genuine, and makes none due. *)
LEMMA GenuineStays ==
  ASSUME ReplayTypeOK, TableFits, Onward, UNCHANGED clientVars, NEW f \in Frames, Genuine(f)
  PROVE  Genuine(f)' /\ (f.exec # None /\ Due(f)' => Due(f))
<1>1. f.exec # None => f.exec \in Runs /\ f.task \in Tasks
  BY DEF Frames
<1> QED
  BY <1>1, KnownRuns DEF Genuine, Finished, Due, clientVars

(* A step of the server leaves what the daemons retain sufficient: it accepts more,
   and never less. *)
LEMMA ServerKeepsClients ==
  ASSUME ReplayTypeOK, TableFits, AtHome, FramesGenuine, RetainedWhole, OneWorkerPerTask,
         Onward, SeqOnward, UNCHANGED clientVars
  PROVE  AtHome' /\ RetainedWhole' /\ OneWorkerPerTask'
<1> USE DEF clientVars
<1>1. \A d \in Daemons, t \in Tasks : inflight[d][t] # None =>
        inflight[d][t] \in Runs /\ taskOf'[inflight[d][t]] = t /\ backend[inflight[d][t]] # "none"
  <2> TAKE d \in Daemons, t \in Tasks
  <2> HAVE inflight[d][t] # None
  <2>1. inflight[d][t] \in Runs /\ taskOf[inflight[d][t]] = t /\ backend[inflight[d][t]] # "none"
    BY DEF ReplayTypeOK, AtHome
  <2> QED
    BY <2>1, KnownRuns
<1>2. AtHome'
  BY <1>1 DEF AtHome
<1>3. ASSUME NEW d \in Daemons, NEW r \in Runs, Keeps(d, r) PROVE reliable'[r] = reliable[r]
  <2>1. backend[r] # "none"
    BY <1>1, <1>3 DEF Keeps, RunsOn, FramesGenuine, Genuine, AtHome
  <2> QED
    BY <2>1, KnownRuns
<1>4. RetainedWhole'
  <2>1. \A r \in Runs : nextSeq[r] \in Nat /\ made[r] \in Nat
    BY ConstantsOK DEF ReplayTypeOK, TypeOK
  <2>2. ASSUME NEW d \in Daemons, NEW r \in Runs, reliable'[r], Keeps(d, r),
               NEW n \in nextSeq'[r]..(made[r] - 1)
        PROVE  Holds(d, r, n)
    <3>1. n \in nextSeq[r]..(made[r] - 1)
      BY <2>1, <2>2 DEF SeqOnward
    <3> QED
      BY <1>3, <2>2, <3>1 DEF RetainedWhole
  <2> QED
    BY <2>2 DEF RetainedWhole, Keeps, Holds, RunsOn
<1>5. OneWorkerPerTask'
  <2> SUFFICES ASSUME NEW r \in Runs, backend[r] = "working", r \notin suppressed
               PROVE  \E d \in Daemons : inflight[d][taskOf'[r]] = r
    BY DEF OneWorkerPerTask
  <2>1. taskOf'[r] = taskOf[r]
    BY KnownRuns
  <2> QED
    BY <2>1 DEF OneWorkerPerTask
<1> QED
  BY <1>2, <1>4, <1>5

(* A verdict other than the run's own leaves what was whole whole. *)
LEMMA GivesUpKeepsWhole ==
  ASSUME ReplayTypeOK, TableFits, WholeOutput, Onward, GivesUp, SeqOnward, UNCHANGED clientVars
  PROVE  WholeOutput'
<1> SUFFICES ASSUME NEW r \in Runs, outcome'[r] = "terminal", reliable'[r]
             PROVE  /\ nextSeq'[r] = made[r]
                    /\ backend[r] \in {"spoken", "over"} \/ r \in suppressed
  BY DEF WholeOutput, clientVars
<1>1. outcome[r] = "terminal" /\ reliable[r]
  BY DEF GivesUp, TableFits, Onward
<1>2. nextSeq[r] = made[r] /\ made[r] \in Nat
  BY <1>1, ConstantsOK DEF WholeOutput, ReplayTypeOK
<1> QED
  BY <1>1, <1>2 DEF WholeOutput, SeqOnward

-----------------------------------------------------------------------------
(* The frames on their way to the server. *)

(* A frame that is not due stays so, whatever the server does. *)
LEMMA UpTypes ==
  ASSUME ReplayTypeOK, NEW s \in Sockets, NEW i \in DOMAIN up[s]
  PROVE  up[s][i] \in Frames /\ i \in Nat /\ i \in 1..Len(up[s])
<1>1. up[s] \in Seq(Frames)
  BY DEF ReplayTypeOK
<1> QED
  BY <1>1

(* Frames in flight stay in order when the server reads none of them. *)
LEMMA UpStays ==
  ASSUME ReplayTypeOK, TableFits, FramesGenuine, UpOrdered, UpCarries, Onward, SeqOnward,
         UNCHANGED <<clientVars, up, end>>
  PROVE  FramesGenuine' /\ UpOrdered' /\ UpCarries'
<1> USE DEF clientVars
<1>0. \A r \in Runs : nextSeq[r] \in Nat
  BY ConstantsOK DEF ReplayTypeOK, TypeOK
<1>1. ASSUME NEW s \in Sockets, NEW i \in DOMAIN up[s]
      PROVE  Genuine(up[s][i])' /\ (up[s][i].exec # None /\ Due(up[s][i])' => Due(up[s][i]))
  <2> PICK f \in Frames : f = up[s][i]
    BY <1>1, UpTypes
  <2>1. Genuine(f)' /\ (f.exec # None /\ Due(f)' => Due(f))
    BY <1>1, GenuineStays DEF FramesGenuine
  <2> QED
    BY <2>1
<1>2. ASSUME NEW d \in Daemons, NEW f \in pending[d]
      PROVE  f \in Frames /\ f.exec \in Runs /\ Genuine(f)' /\ (Due(f)' => Due(f))
  <2>1. f \in Frames /\ f.exec # None /\ Genuine(f)
    BY <1>2 DEF ReplayTypeOK, FramesGenuine
  <2> QED
    BY <2>1, GenuineStays DEF Frames
<1>3. FramesGenuine'
  BY <1>1, <1>2 DEF FramesGenuine
<1>4. UpOrdered'
  BY <1>0, <1>1, UpTypes DEF UpOrdered, SeqOnward, Carries, Due, Frames
<1>5. UpCarries'
  <2> SUFFICES ASSUME NEW d \in Daemons, Streaming(d)', NEW f \in pending[d],
                      Due(f)', f.seq >= nextSeq'[f.exec]
               PROVE  Carries(ws[d], Len(up[ws[d]]), f.exec, f.seq)
    BY DEF UpCarries, Carries
  <2>1. Streaming(d)
    BY DEF Streaming, Writable, Onward, ReplayTypeOK
  <2>2. Due(f) /\ f.exec \in Runs /\ f.seq \in Nat
    BY <1>2 DEF Frames
  <2>3. f.seq >= nextSeq[f.exec]
    BY <1>0, <2>2 DEF SeqOnward
  <2> QED
    BY <2>1, <2>2, <2>3 DEF UpCarries
<1> QED
  BY <1>3, <1>4, <1>5

(* The server takes the first frame of a socket, and what was due has been       *)
(* accepted, now or before.                                                     *)
LEMMA UpTaken ==
  ASSUME ReplayTypeOK, TableFits, FramesGenuine, UpOrdered, UpCarries, Onward, SeqOnward,
         UNCHANGED <<clientVars, end>>,
         NEW s \in Sockets, up[s] # <<>>, up'[s] = Tail(up[s]),
         \A x \in Sockets : x # s => up'[x] = up[x],
         NEW h, h = up[s][1], Due(h)' => h.seq < nextSeq'[h.exec]
  PROVE  FramesGenuine' /\ UpOrdered' /\ UpCarries'
<1> USE DEF clientVars
<1>0. \A r \in Runs : nextSeq[r] \in Nat /\ nextSeq'[r] \in Nat /\ nextSeq[r] <= nextSeq'[r]
  BY ConstantsOK DEF ReplayTypeOK, TypeOK, SeqOnward
<1> DEFINE n == Len(up[s])
<1>a. /\ up[s] \in Seq(Frames) /\ n \in Nat /\ n >= 1
      /\ DOMAIN up'[s] = 1..(n - 1) /\ Len(up'[s]) = n - 1
      /\ DOMAIN up[s] = 1..n
      /\ \A i \in 1..(n - 1) : i + 1 \in 1..n /\ up'[s][i] = up[s][i + 1]
  BY DEF ReplayTypeOK
<1> HIDE DEF n
<1>b. h \in Frames /\ Genuine(h)
  BY <1>a DEF FramesGenuine, n
<1>1. ASSUME NEW f \in Frames, Genuine(f)
      PROVE  /\ Genuine(f)'
             /\ f.exec # None => f.exec \in Runs /\ f.task = taskOf[f.exec] /\ (Due(f)' => Due(f))
             /\ f.seq \in Nat
  <2>1. f.exec # None => f.exec \in Runs
    BY DEF Frames
  <2>2. f.seq \in Nat
    BY DEF Frames
  <2> QED
    BY <1>1, <2>1, <2>2, GenuineStays DEF Genuine
<1>2. \A x \in Sockets : x # s => \A i \in DOMAIN up[x] : Genuine(up[x][i]) /\ up[x][i] \in Frames
  BY UpTypes DEF FramesGenuine
<1>3. \A i \in 1..n : Genuine(up[s][i]) /\ up[s][i] \in Frames
  BY <1>a, UpTypes DEF FramesGenuine, n
<1>d. \A x \in Sockets : \A i \in DOMAIN up'[x] : Genuine(up'[x][i]) /\ up'[x][i] \in Frames
  <2> TAKE x \in Sockets
  <2> TAKE i \in DOMAIN up'[x]
  <2>1. CASE x = s
    <3>0. i \in 1..(n - 1)
      BY <1>a, <2>1
    <3>1. i + 1 \in 1..n /\ up'[x][i] = up[s][i + 1]
      BY <1>a, <2>1, <3>0
    <3> PICK m \in 1..n : m = i + 1
      BY <3>1
    <3> QED
      BY <1>3, <3>1
  <2>2. CASE x # s
    BY <1>2, <2>2
  <2> QED
    BY <2>1, <2>2
(* What came behind the head on this socket is expected, or behind its own     *)
(* predecessor still.                                                          *)
<1>4. ASSUME NEW f \in Frames, Genuine(f), Due(f)', NEW j \in 1..n, NEW q \in Nat,
             q >= nextSeq'[f.exec], up[s][j].exec = f.exec, up[s][j].seq = q
      PROVE  j > 1
  <2> SUFFICES ASSUME j = 1 PROVE FALSE
    OBVIOUS
  <2>1. f.exec # None /\ f.exec \in Runs /\ f.task = taskOf[f.exec]
    BY <1>1, <1>4 DEF Due
  <2>2. h.exec = f.exec /\ h.seq = q /\ h.task = f.task
    BY <1>b, <1>1, <1>4, <2>1
  <2>3. Due(h)'
    BY <1>4, <2>2 DEF Due
  <2> QED
    BY <1>0, <1>4, <2>1, <2>2, <2>3
<1>5. FramesGenuine'
  <2>1. ASSUME NEW x \in Sockets, NEW i \in DOMAIN up'[x] PROVE Genuine(up[x][i])'
    <3>1. PICK f \in Frames : f = up'[x][i] /\ Genuine(f)
      BY <1>d
    <3> QED
      BY <1>1, <3>1
  <2>2. ASSUME NEW d \in Daemons, NEW f \in pending[d] PROVE f.exec # None /\ Genuine(f)'
    BY <1>1, <2>2 DEF FramesGenuine, ReplayTypeOK
  <2> QED
    BY <2>1, <2>2 DEF FramesGenuine
<1>6. UpOrdered'
  <2> SUFFICES ASSUME NEW x \in Sockets, NEW i \in DOMAIN up'[x], NEW f \in Frames, f = up'[x][i],
                      Due(f)', f.seq > nextSeq'[f.exec]
               PROVE  Carries(x, i - 1, f.exec, f.seq - 1)'
    BY <1>d DEF UpOrdered
  <2>1. Genuine(f)
    BY <1>d
  <2>2. Due(f) /\ f.exec \in Runs /\ f.seq \in Nat
    BY <1>1, <2>1 DEF Due
  <2>3. f.seq > nextSeq[f.exec] /\ f.seq - 1 \in Nat /\ f.seq - 1 >= nextSeq'[f.exec]
    BY <1>0, <2>2
  <2>4. CASE x # s
    BY <2>2, <2>3, <2>4 DEF UpOrdered, Carries
  <2>5. CASE x = s
    <3>0. i \in 1..(n - 1) /\ DOMAIN up[s] = 1..n
      BY <1>a, <2>5
    <3>1. i + 1 \in 1..n /\ f = up[s][i + 1]
      BY <1>a, <2>5, <3>0
    <3> PICK m : m = i + 1
      OBVIOUS
    <3>2. Carries(s, m - 1, f.exec, f.seq - 1)
      BY <2>2, <2>3, <3>0, <3>1 DEF UpOrdered
    <3>3. PICK j \in 1..(m - 1) : up[s][j].exec = f.exec /\ up[s][j].seq = f.seq - 1
      BY <3>2 DEF Carries
    <3>4. j \in 1..n
      BY <1>a, <3>0, <3>1
    <3>5. j > 1
      BY <1>4, <2>1, <2>3, <3>3, <3>4
    <3>6. j - 1 \in 1..(i - 1) /\ up'[s][j - 1] = up[s][j]
      BY <1>a, <3>0, <3>1, <3>3, <3>5
    <3> QED
      BY <2>5, <3>3, <3>6 DEF Carries
  <2> QED
    BY <2>4, <2>5
<1>7. UpCarries'
  <2> SUFFICES ASSUME NEW d \in Daemons, Streaming(d)', NEW f \in pending[d],
                      Due(f)', f.seq >= nextSeq'[f.exec]
               PROVE  Carries(ws[d], Len(up[ws[d]]), f.exec, f.seq)'
    BY DEF UpCarries
  <2>1. Streaming(d) /\ ws[d] \in Sockets
    BY DEF Streaming, Writable, Onward, ReplayTypeOK
  <2>2. f \in Frames /\ Genuine(f) /\ f.exec # None
    BY DEF FramesGenuine, ReplayTypeOK
  <2>3. Due(f) /\ f.exec \in Runs /\ f.seq \in Nat
    BY <1>1, <2>2 DEF Due
  <2>4. f.seq >= nextSeq[f.exec]
    BY <1>0, <2>3
  <2>5. Carries(ws[d], Len(up[ws[d]]), f.exec, f.seq)
    BY <2>1, <2>3, <2>4 DEF UpCarries
  <2>6. CASE ws[d] # s
    BY <2>1, <2>5, <2>6 DEF Carries
  <2>7. CASE ws[d] = s
    <3>1. PICK j \in 1..n : up[s][j].exec = f.exec /\ up[s][j].seq = f.seq
      BY <2>5, <2>7 DEF Carries, n
    <3>2. j > 1
      BY <1>4, <2>2, <2>3, <3>1
    <3>3. j - 1 \in 1..(n - 1) /\ up'[s][j - 1] = up[s][j]
      BY <1>a, <3>1, <3>2
    <3>4. up'[s][j - 1].exec = f.exec /\ up'[s][j - 1].seq = f.seq
      BY <3>1, <3>3
    <3>5. Len(up'[s]) = n - 1
      BY <1>a
    <3> QED
      BY <2>7, <3>3, <3>4, <3>5 DEF Carries
  <2> QED
    BY <2>6, <2>7
<1> QED
  BY <1>5, <1>6, <1>7

(* The server forgets a socket that is gone. *)
LEMMA UpForgotten ==
  ASSUME ReplayTypeOK, TableFits, FramesGenuine, UpOrdered, UpCarries, Onward, SeqOnward,
         UNCHANGED <<clientVars, end>>,
         NEW s \in Sockets, ready'[s] = "closed", up'[s] = <<>>,
         \A x \in Sockets : x # s => up'[x] = up[x]
  PROVE  FramesGenuine' /\ UpOrdered' /\ UpCarries'
<1> USE DEF clientVars
<1>0. \A r \in Runs : nextSeq[r] \in Nat
  BY ConstantsOK DEF ReplayTypeOK, TypeOK
<1>1. ASSUME NEW f \in Frames, Genuine(f)
      PROVE  /\ Genuine(f)'
             /\ f.exec # None => f.exec \in Runs /\ (Due(f)' => Due(f))
             /\ f.seq \in Nat
  <2>1. (f.exec # None => f.exec \in Runs) /\ f.seq \in Nat
    BY DEF Frames
  <2> QED
    BY <1>1, <2>1, GenuineStays
<1>2. \A x \in Sockets : \A i \in DOMAIN up'[x] :
        x # s /\ i \in DOMAIN up[x] /\ up'[x][i] = up[x][i] /\ up[x][i] \in Frames /\ Genuine(up[x][i])
  BY UpTypes DEF FramesGenuine
<1>3. ASSUME NEW d \in Daemons, NEW f \in pending[d]
      PROVE  f \in Frames /\ f.exec # None /\ Genuine(f)
  BY <1>3 DEF FramesGenuine, ReplayTypeOK
<1>4. FramesGenuine'
  <2>1. ASSUME NEW x \in Sockets, NEW i \in DOMAIN up'[x] PROVE Genuine(up[x][i])'
    <3>1. PICK f \in Frames : f = up'[x][i] /\ Genuine(f)
      BY <1>2, <2>1
    <3> QED
      BY <1>1, <3>1
  <2> QED
    BY <1>1, <1>3, <2>1 DEF FramesGenuine
<1>5. UpOrdered'
  <2> SUFFICES ASSUME NEW x \in Sockets, NEW i \in DOMAIN up'[x], NEW f \in Frames, f = up'[x][i],
                      Due(f)', f.seq > nextSeq'[f.exec]
               PROVE  Carries(x, i - 1, f.exec, f.seq - 1)'
    BY <1>2 DEF UpOrdered
  <2>1. f = up[x][i] /\ i \in DOMAIN up[x] /\ x # s /\ Genuine(f)
    BY <1>2
  <2>2. Due(f) /\ f.exec \in Runs /\ f.seq \in Nat
    BY <1>1, <2>1 DEF Due
  <2>3. f.seq > nextSeq[f.exec]
    BY <1>0, <2>2 DEF SeqOnward
  <2> QED
    BY <2>1, <2>2, <2>3 DEF UpOrdered, Carries
<1>6. UpCarries'
  <2> SUFFICES ASSUME NEW d \in Daemons, Streaming(d)', NEW f \in pending[d],
                      Due(f)', f.seq >= nextSeq'[f.exec]
               PROVE  Carries(ws[d], Len(up[ws[d]]), f.exec, f.seq)'
    BY DEF UpCarries
  <2>1. Streaming(d) /\ ws[d] \in Sockets /\ ws[d] # s
    BY DEF Streaming, Writable, Onward, ReplayTypeOK
  <2>2. Due(f) /\ f.exec \in Runs /\ f.seq \in Nat
    BY <1>1, <1>3 DEF Due
  <2>3. f.seq >= nextSeq[f.exec]
    BY <1>0, <2>2 DEF SeqOnward
  <2> QED
    BY <2>1, <2>2, <2>3 DEF UpCarries, Carries
<1> QED
  BY <1>4, <1>5, <1>6

-----------------------------------------------------------------------------
(* The frames on their way to the daemons.  All the server sends but an         *)
(* assignment is harmless: a cancel, or an acknowledgement of what is accepted. *)
Harmless(f) == f.type # "task.assign" /\ (f.type = "task.ack" => f.seq < nextSeq'[f.run])

(* Whatever is new on its way to a daemon is harmless. *)
AnswersOnly ==
  \A x \in Sockets : \A i \in DOMAIN down'[x] :
    \/ i \in DOMAIN down[x] /\ down'[x][i] = down[x][i]
    \/ Harmless(down'[x][i])

(* Sending harmless frames, to one socket or to none, is such a step. *)
LEMMA SendAnswers ==
  ASSUME ReplayTypeOK, NEW s, NEW fs \in Seq(DownFrames), Send(s, fs),
         \A i \in DOMAIN fs : Harmless(fs[i])
  PROVE  down' \in [Sockets -> Seq(DownFrames)] /\ AnswersOnly
<1> DEFINE t == down[s] \o fs
<1>1. CASE down' = down
  BY <1>1 DEF ReplayTypeOK, AnswersOnly
<1>2. CASE s \in Sockets /\ down' = [down EXCEPT ![s] = t]
  <2>1. down[s] \in Seq(DownFrames) /\ down \in [Sockets -> Seq(DownFrames)]
    BY <1>2 DEF ReplayTypeOK
  <2>2. t \in Seq(DownFrames) /\ DOMAIN t = 1..(Len(down[s]) + Len(fs))
    BY <2>1
  <2>3. \A i \in DOMAIN t : (i \in DOMAIN down[s] /\ t[i] = down[s][i]) \/ Harmless(t[i])
    <3> TAKE i \in DOMAIN t
    <3>1. CASE i <= Len(down[s])
      BY <2>1, <2>2, <3>1
    <3>2. CASE i > Len(down[s])
      <4>1. i - Len(down[s]) \in DOMAIN fs /\ t[i] = fs[i - Len(down[s])]
        BY <2>1, <2>2, <3>2
      <4> QED
        BY <4>1
    <3> QED
      BY <2>1, <2>2, <3>1, <3>2
  <2> HIDE DEF t
  <2>4. down'[s] = t /\ \A x \in Sockets : x # s => down'[x] = down[x]
    BY <1>2, <2>1
  <2> QED
    BY <1>2, <2>1, <2>2, <2>3, <2>4 DEF AnswersOnly
<1>3. CASE s \notin Sockets /\ down' = [down EXCEPT ![s] = t]
  BY <1>1, <1>3 DEF ReplayTypeOK
<1> QED
  BY <1>1, <1>2, <1>3 DEF Send

(* A frame on its way to a daemon is one of the four kinds. *)
LEMMA DownTypes ==
  ASSUME ReplayTypeOK, NEW s \in Sockets, NEW i \in DOMAIN down[s]
  PROVE  down[s][i] \in DownFrames /\ i \in Nat
<1>1. down[s] \in Seq(DownFrames)
  BY DEF ReplayTypeOK
<1> QED
  BY <1>1

(* An acknowledgement names a run and a number. *)
LEMMA AckRun ==
  ASSUME NEW f \in DownFrames, f.type = "task.ack"
  PROVE  f.run \in Runs /\ f.seq \in Nat
BY DEF DownFrames, helloAck, taskAssign, taskCancel, taskAck

(* Harmless answers assign nothing and acknowledge what was accepted. *)
LEMMA AnswersKeep ==
  ASSUME ReplayTypeOK, AssignedOnce, AcksAreHonest, AnswersOnly, Onward, SeqOnward, UNCHANGED backend
  PROVE  AssignedOnce' /\ AcksAreHonest'
<1>1. \A s \in Sockets, i \in Nat, r \in Runs : Assigns(s, i, r)' => Assigns(s, i, r)
  BY DEF Assigns, AnswersOnly, Harmless, taskAssign
<1>2. AssignedOnce'
  BY <1>1 DEF AssignedOnce, Onward
<1>3. ASSUME NEW s \in Sockets, NEW i \in DOMAIN down'[s], down'[s][i].type = "task.ack"
      PROVE  down'[s][i].seq < nextSeq'[down'[s][i].run]
  <2>1. CASE Harmless(down'[s][i])
    BY <1>3, <2>1 DEF Harmless
  <2>2. CASE i \in DOMAIN down[s] /\ down'[s][i] = down[s][i]
    <3>1. down[s][i].run \in Runs /\ down[s][i].seq \in Nat
      BY <1>3, <2>2, DownTypes, AckRun
    <3>2. down[s][i].seq < nextSeq[down[s][i].run]
      BY <1>3, <2>2 DEF AcksAreHonest, Range
    <3>3. nextSeq[down[s][i].run] \in Nat
      BY <3>1, ConstantsOK DEF ReplayTypeOK, TypeOK
    <3> QED
      BY <2>2, <3>1, <3>2, <3>3 DEF SeqOnward
  <2> QED
    BY <1>3, <2>1, <2>2 DEF AnswersOnly
<1> QED
  BY <1>2, <1>3 DEF AcksAreHonest, Range

(* The one assignment of a run that starts. *)
LEMMA AssignKeeps ==
  ASSUME ReplayTypeOK, AssignedOnce, AcksAreHonest, Onward, SeqOnward, UNCHANGED <<backend, nextSeq>>,
         TableFits, NEW r \in Runs, phase[r] = "starting", phase'[r] \notin {"idle", "starting"},
         NEW w, Send(w, <<taskAssign(r)>>)
  PROVE  down' \in [Sockets -> Seq(DownFrames)] /\ AssignedOnce' /\ AcksAreHonest'
<1>1. CASE down' = down
  <2>1. AssignedOnce'
    BY <1>1 DEF AssignedOnce, Assigns, Onward
  <2>2. AcksAreHonest'
    BY <1>1 DEF AcksAreHonest
  <2> QED
    BY <1>1, <2>1, <2>2 DEF ReplayTypeOK
<1>2. CASE w \in Sockets /\ down' = [down EXCEPT ![w] = @ \o <<taskAssign(r)>>]
  <2> DEFINE n == Len(down[w]) + 1
  <2>0. taskAssign(r) \in DownFrames
    BY DEF DownFrames
  <2>1. down \in [Sockets -> Seq(DownFrames)] /\ taskAssign(r) \in DownFrames /\ down[w] \in Seq(DownFrames)
    BY <1>2, <2>0 DEF ReplayTypeOK
  <2>2. /\ down'[w] \in Seq(DownFrames) /\ DOMAIN down'[w] = 1..n
        /\ n \in Nat /\ DOMAIN down[w] = 1..(n - 1)
        /\ down'[w][n] = taskAssign(r)
        /\ \A i \in 1..n : i # n => i \in DOMAIN down[w] /\ down'[w][i] = down[w][i]
        /\ \A x \in Sockets : x # w => down'[x] = down[x]
    BY <1>2, <2>1
  <2>3. down' \in [Sockets -> Seq(DownFrames)]
    BY <1>2, <2>1, <2>2
  <2> HIDE DEF n
  <2>4. \A s \in Sockets, i \in Nat, q \in Runs :
          Assigns(s, i, q)' => Assigns(s, i, q) \/ (s = w /\ i = n /\ q = r)
    BY <2>2 DEF Assigns, taskAssign
  <2>5. \A s \in Sockets, i \in Nat : ~Assigns(s, i, r)
    BY DEF AssignedOnce
  <2>6. AssignedOnce'
    <3>1. backend[r] = "none"
      BY DEF TableFits
    <3>2. \A s \in Sockets, i \in Nat, q \in Runs :
            Assigns(s, i, q)' => phase'[q] \notin {"idle", "starting"} /\ backend'[q] = "none"
      BY <2>4, <3>1 DEF AssignedOnce, Onward
    <3>3. \A s, x \in Sockets, i, j \in Nat, q \in Runs :
            Assigns(s, i, q)' /\ Assigns(x, j, q)' => s = x /\ i = j
      BY <2>4, <2>5 DEF AssignedOnce
    <3> QED
      BY <3>2, <3>3 DEF AssignedOnce
  <2>7. ASSUME NEW s \in Sockets, NEW i \in DOMAIN down'[s], down'[s][i].type = "task.ack"
        PROVE  i \in DOMAIN down[s] /\ down'[s][i] = down[s][i]
    BY <2>2, <2>7 DEF taskAssign
  <2>8. AcksAreHonest'
    BY <2>7 DEF AcksAreHonest, Range
  <2> QED
    BY <2>3, <2>6, <2>8
<1>3. CASE w \notin Sockets /\ down' = [down EXCEPT ![w] = @ \o <<taskAssign(r)>>]
  BY <1>1, <1>3 DEF ReplayTypeOK
<1> QED
  BY <1>1, <1>2, <1>3 DEF Send

-----------------------------------------------------------------------------
(* The server's steps. *)

(* The typed parts of the invariant that most steps need. *)
LEMMA ReplayType ==
  ASSUME ReplayIInv
  PROVE  /\ ReplayTypeOK /\ IInv /\ TypeOK /\ TableFits
         /\ agents \in [Agents -> Sockets \cup {None}]
BY DEF ReplayIInv, ReplayTypeOK, TypeOK

(* The count of upsets stays within its bound. *)
LEMMA UpsetType ==
  ASSUME ReplayTypeOK, Upset \/ UNCHANGED upsets
  PROVE  upsets' \in 0..MaxUpsets
BY ReplayConstantsOK DEF ReplayTypeOK, Upset

(* What a step of the server comes to. *)
LEMMA ServerMoves ==
  ASSUME ReplayIInv, IInv', TableFits', WholeOutput', Onward, SeqOnward,
         UNCHANGED <<clientVars, end, owner>>, Upset \/ UNCHANGED upsets,
         up' \in [Sockets -> Seq(Frames)], FramesGenuine', UpOrdered', UpCarries',
         down' \in [Sockets -> Seq(DownFrames)], AssignedOnce', AcksAreHonest'
  PROVE  ReplayIInv'
<1>1. ReplayTypeOK'
  BY UpsetType DEF ReplayIInv, ReplayTypeOK, IInv, clientVars
<1>2. AtHome' /\ RetainedWhole' /\ OneWorkerPerTask'
  BY ServerKeepsClients DEF ReplayIInv, OutputIsWhole
<1> QED
  BY <1>1, <1>2 DEF ReplayIInv, OutputIsWhole

(* ... and every one but an accepted terminal. *)
LEMMA ServerQuiet ==
  ASSUME ReplayIInv, IInv', Onward, GivesUp, SeqOnward, UNCHANGED <<clientVars, end, owner>>,
         Upset \/ UNCHANGED upsets,
         up' \in [Sockets -> Seq(Frames)], FramesGenuine', UpOrdered', UpCarries',
         down' \in [Sockets -> Seq(DownFrames)], AssignedOnce', AcksAreHonest'
  PROVE  ReplayIInv'
<1>1. TableFits'
  BY QuietTableFits DEF ReplayIInv
<1>2. WholeOutput'
  BY GivesUpKeepsWhole DEF ReplayIInv, OutputIsWhole
<1> QED
  BY <1>1, <1>2, ServerMoves

(* Nothing of the network but answers changes. *)
LEMMA ServerAnswers ==
  ASSUME ReplayIInv, IInv', Onward, GivesUp, SeqOnward, UNCHANGED <<clientVars, up, end, owner>>,
         Upset \/ UNCHANGED upsets, NEW s, NEW fs \in Seq(DownFrames), Send(s, fs),
         \A i \in DOMAIN fs : Harmless(fs[i])
  PROVE  ReplayIInv'
<1>1. ReplayTypeOK /\ TableFits
  BY ReplayType
<1>2. FramesGenuine' /\ UpOrdered' /\ UpCarries'
  BY <1>1, UpStays DEF ReplayIInv
<1>3. down' \in [Sockets -> Seq(DownFrames)] /\ AnswersOnly
  BY <1>1, SendAnswers
<1>4. AssignedOnce' /\ AcksAreHonest'
  BY <1>1, <1>3, AnswersKeep DEF ReplayIInv, OutputIsWhole, clientVars
<1>5. up' \in [Sockets -> Seq(Frames)]
  BY <1>1 DEF ReplayTypeOK
<1> QED
  BY <1>2, <1>3, <1>4, <1>5, ServerQuiet

(* Sending nothing is sending harmless frames. *)
LEMMA NoSend ==
  ASSUME ReplayTypeOK, UNCHANGED down
  PROVE  <<>> \in Seq(DownFrames) /\ Send(None, <<>>) /\ \A i \in DOMAIN <<>> : Harmless(<<>>[i])
BY DEF Send

(* One harmless frame is a sequence of them. *)
LEMMA OneHarmless ==
  ASSUME NEW f \in DownFrames, Harmless(f)
  PROVE  <<f>> \in Seq(DownFrames) /\ \A i \in DOMAIN <<f>> : Harmless(<<f>>[i])
OBVIOUS

(* A cancel is harmless. *)
LEMMA CancelHarmless ==
  ASSUME NEW r \in Runs
  PROVE  taskCancel(r) \in DownFrames /\ Harmless(taskCancel(r))
BY DEF DownFrames, taskCancel, Harmless

(* An acknowledgement of what is accepted is harmless. *)
LEMMA AckHarmless ==
  ASSUME NEW r \in Runs, NEW q \in 0..MaxSeq, q < nextSeq'[r]
  PROVE  taskAck(r, q) \in DownFrames /\ Harmless(taskAck(r, q))
BY DEF DownFrames, taskAck, Harmless

(* ReplayIInv is kept when the server authenticates a connection. *)
LEMMA ServerAuthenticatesKeeps ==
  ASSUME ReplayIInv, NEW s \in Sockets, ServerAuthenticates(s)
  PROVE  ReplayIInv'
<1>1. Authenticated(s, Identity) /\ UNCHANGED <<up, end, owner, clientVars, upsets>>
  BY DEF ServerAuthenticates
<1>2. IInv /\ TableFits /\ ReplayTypeOK
  BY ReplayType
<1>3. IInv'
  BY <1>1, <1>2, IdentityType, StepInvariant DEF Next, ConnectionStep
<1>4. Onward /\ GivesUp /\ SeqOnward
  BY <1>1, <1>2, AuthenticatedOnward, StillOnward
<1> PICK fs : fs = IF authed'[s] THEN <<helloAck>> ELSE <<>>
  OBVIOUS
<1>5. helloAck \in DownFrames /\ Harmless(helloAck)
  BY DEF DownFrames, helloAck, Harmless
<1>6. fs \in Seq(DownFrames) /\ \A i \in DOMAIN fs : Harmless(fs[i])
  BY <1>5, OneHarmless
<1>7. Send(s, fs)
  BY DEF ServerAuthenticates
<1> QED
  BY <1>1, <1>3, <1>4, <1>6, <1>7, ServerAnswers

(* ReplayIInv is kept when the server handles a close. *)
LEMMA ServerCloseKeeps ==
  ASSUME ReplayIInv, NEW s \in Sockets, ServerClose(s)
  PROVE  ReplayIInv'
<1>1. CloseEvent(s, TRUE) /\ UNCHANGED <<down, end, owner, clientVars>> /\ (Upset \/ UNCHANGED upsets)
  BY DEF ServerClose
<1>2. IInv /\ TableFits /\ ReplayTypeOK
  BY ReplayType
<1>3. IInv'
  BY <1>1, <1>2, StepInvariant DEF Next, ConnectionStep
<1>4. Onward /\ GivesUp /\ SeqOnward /\ ready'[s] = "closed"
  BY <1>1, <1>2, CloseEventOnward, StillOnward
<1>5. /\ up' \in [Sockets -> Seq(Frames)] /\ up'[s] = <<>>
      /\ \A x \in Sockets : x # s => up'[x] = up[x]
  BY <1>2 DEF ServerClose, ReplayTypeOK
<1>6. FramesGenuine' /\ UpOrdered' /\ UpCarries'
  BY <1>1, <1>2, <1>4, <1>5, UpForgotten DEF ReplayIInv
<1>7. down' \in [Sockets -> Seq(DownFrames)] /\ AnswersOnly
  BY <1>1, <1>2, NoSend, SendAnswers
<1>8. AssignedOnce' /\ AcksAreHonest'
  BY <1>1, <1>2, <1>4, <1>7, AnswersKeep DEF ReplayIInv, OutputIsWhole, clientVars
<1> QED
  BY <1>1, <1>3, <1>4, <1>5, <1>6, <1>7, <1>8, ServerQuiet

(* ReplayIInv is kept when the server dispatches a run. *)
LEMMA ServerDispatchesKeeps ==
  ASSUME ReplayIInv, NEW r \in Runs, ServerDispatches(r)
  PROVE  ReplayIInv'
<1>1. Dispatch(r) /\ UNCHANGED <<up, end, owner, clientVars, upsets>>
  BY DEF ServerDispatches
<1>2. IInv /\ TableFits /\ ReplayTypeOK
  BY ReplayType
<1>3. IInv'
  BY <1>1, <1>2, StepInvariant DEF Next, RunStep
<1>4. Onward /\ GivesUp /\ SeqOnward /\ UNCHANGED nextSeq
  BY <1>1, <1>2, DispatchOnward, StillOnward
<1>5. phase[r] = "starting" /\ phase'[r] \notin {"idle", "starting"}
  BY <1>1, <1>2 DEF Dispatch, IInv, TypeOK
<1>6. FramesGenuine' /\ UpOrdered' /\ UpCarries'
  BY <1>1, <1>2, <1>4, UpStays DEF ReplayIInv
<1> PICK w : w = agents[agentOf[r]]
  OBVIOUS
<1>7. Send(w, <<taskAssign(r)>>)
  BY DEF ServerDispatches, sendToAgent
<1>8. down' \in [Sockets -> Seq(DownFrames)] /\ AssignedOnce' /\ AcksAreHonest'
  BY <1>1, <1>2, <1>4, <1>5, <1>7, AssignKeeps DEF ReplayIInv, OutputIsWhole, clientVars
<1>9. up' \in [Sockets -> Seq(Frames)]
  BY <1>1, <1>2 DEF ReplayTypeOK
<1> QED
  BY <1>1, <1>3, <1>4, <1>6, <1>8, <1>9, ServerQuiet

(* ReplayIInv is kept when the server cancels a task. *)
LEMMA ServerCancelsKeeps ==
  ASSUME ReplayIInv, NEW t \in Tasks, ServerCancels(t)
  PROVE  ReplayIInv'
<1>1. Cancel(t) /\ Upset /\ UNCHANGED <<up, end, owner, clientVars>> /\ bindings[t] # None
  BY DEF ServerCancels, Cancel
<1>2. IInv /\ TableFits /\ ReplayTypeOK
  BY ReplayType
<1>3. IInv'
  BY <1>1, <1>2, StepInvariant DEF Next
<1>4. Onward /\ GivesUp /\ SeqOnward
  BY <1>1, <1>2, CancelOnward, StillOnward
<1> PICK r, w : r = bindings[t] /\ w = agents[agentOf[bindings[t]]]
  OBVIOUS
<1>5. r \in Runs
  BY <1>1, <1>2, BoundIsDispatched
<1>6. Send(w, <<taskCancel(r)>>)
  BY DEF ServerCancels, sendToAgent
<1>7. <<taskCancel(r)>> \in Seq(DownFrames) /\ \A i \in DOMAIN <<taskCancel(r)>> : Harmless(<<taskCancel(r)>>[i])
  BY <1>5, CancelHarmless, OneHarmless
<1> QED
  BY <1>1, <1>3, <1>4, <1>6, <1>7, ServerAnswers

(* What the server does without a frame is a step of the table that goes onward. *)
LEMMA InternalMoves ==
  ASSUME ReplayIInv, ServerInternal
  PROVE  Next /\ Onward /\ GivesUp /\ UNCHANGED nextSeq
<1>1. IInv /\ TableFits /\ ReplayTypeOK
  BY ReplayType
<1>2. ASSUME NEW r \in Runs, NEW t \in Tasks, Begin(r, t, Identity.agent)
      PROVE  Next /\ Onward /\ GivesUp /\ UNCHANGED nextSeq
  BY <1>1, <1>2, BeginOnward, IdentityType DEF Next, RunStep
<1>3. ASSUME NEW r \in Runs, Exit(r)
      PROVE  Next /\ Onward /\ GivesUp /\ UNCHANGED nextSeq
  BY <1>1, <1>3, ExitOnward DEF Next, RunStep
<1>4. ASSUME NEW t \in Tasks, HoldExpires(t)
      PROVE  Next /\ Onward /\ GivesUp /\ UNCHANGED nextSeq
  BY <1>1, <1>4, HoldExpiresOnward DEF Next
<1>5. ASSUME NEW r \in Runs, Watchdog(r)
      PROVE  Next /\ Onward /\ GivesUp /\ UNCHANGED nextSeq
  BY <1>1, <1>5, WatchdogOnward DEF Next, RunStep
<1>6. ASSUME NEW r \in Runs, ReceiptExpires(r)
      PROVE  Next /\ Onward /\ GivesUp /\ UNCHANGED nextSeq
  BY <1>1, <1>6, ReceiptExpiresOnward DEF Next, RunStep
<1> QED
  BY <1>2, <1>3, <1>4, <1>5, <1>6 DEF ServerInternal

(* ReplayIInv is kept by what the server does without a frame. *)
LEMMA ServerInternalKeeps ==
  ASSUME ReplayIInv, ServerInternal
  PROVE  ReplayIInv'
<1>1. UNCHANGED <<up, down, end, owner, clientVars>> /\ (Upset \/ UNCHANGED upsets)
  BY DEF ServerInternal, netVars
<1>2. IInv /\ TableFits /\ ReplayTypeOK
  BY ReplayType
<1>3. IInv' /\ Onward /\ GivesUp /\ UNCHANGED nextSeq
  BY <1>2, InternalMoves, StepInvariant
<1>4. SeqOnward
  BY <1>2, <1>3, StillOnward
<1> QED
  BY <1>1, <1>2, <1>3, <1>4, NoSend, ServerAnswers

(* The head of a socket that the server reads is not ahead of what it expects. *)
LEMMA HeadExpected ==
  ASSUME ReplayIInv, NEW s \in Sockets, up[s] # <<>>, CanReceive(s), NEW h, h = Head(up[s]),
         Due(h)
  PROVE  /\ h \in Frames /\ h.exec \in Runs /\ bindings[h.task] = h.exec /\ reliable[h.exec]
         /\ Owned(s, h.task)
         /\ h.seq \in Nat /\ nextSeq[h.exec] \in Nat /\ h.seq <= nextSeq[h.exec]
<1>1. ReplayTypeOK /\ TableFits /\ FramesGenuine /\ UpOrdered /\ IInv
  BY DEF ReplayIInv
<1>2. up[s] \in Seq(Frames) /\ 1 \in DOMAIN up[s] /\ h = up[s][1]
  BY <1>1 DEF ReplayTypeOK
<1>3. h \in Frames /\ Genuine(h) /\ h.exec \in Runs /\ h.task \in Tasks /\ h.seq \in Nat
  <2>1. h \in Frames
    BY <1>2
  <2>2. Genuine(h)
    BY <1>1, <1>2 DEF FramesGenuine
  <2>3. h.exec \in Runs \cup {None} /\ h.task \in Tasks /\ h.seq \in Nat
    BY <2>1, ConstantsOK DEF Frames
  <2> QED
    BY <2>1, <2>2, <2>3 DEF Due
<1>4. bindings[h.task] = h.exec /\ reliable[h.exec] /\ nextSeq[h.exec] \in Nat
  BY <1>1, <1>3, ConstantsOK DEF Due, Genuine, ReplayTypeOK, TypeOK
<1>5. Owned(s, h.task)
  BY <1>1, <1>3, <1>4, ConstantsOK DEF Owned, TableFits, CanReceive, Due, Genuine
<1>6. ~(h.seq > nextSeq[h.exec])
  BY <1>1, <1>2 DEF UpOrdered, Carries
<1> QED
  BY <1>3, <1>4, <1>5, <1>6

(* What the server answers to a frame. *)
LEMMA HandlesAnswers ==
  ASSUME ReplayIInv, IInv', NEW s \in Sockets, ServerHandles(s), SeqOnward,
         NEW h \in Frames, h = Head(up[s]), Genuine(h), HandleFrame(s, h)
  PROVE  \E w, fs : /\ fs \in Seq(DownFrames) /\ Send(w, fs)
                    /\ \A i \in DOMAIN fs : Harmless(fs[i])
<1> PICK r : r = bindings[h.task]
  OBVIOUS
<1>1. /\ h.task \in Tasks /\ h.seq \in Nat /\ nextSeq' \in [Runs -> 0..(MaxSeq + 1)] /\ MaxSeq \in Nat
      /\ nextSeq \in [Runs -> 0..(MaxSeq + 1)] /\ receipts \subseteq Runs
  BY ReplayType, ConstantsOK DEF Frames, IInv, TypeOK
<1>2. ASSUME NEW x \in Runs, nextSeq'[x] > 0, NEW fs, fs = <<taskAck(x, nextSeq'[x] - 1)>>
      PROVE  fs \in Seq(DownFrames) /\ \A i \in DOMAIN fs : Harmless(fs[i])
  <2> PICK q : q = nextSeq'[x] - 1
    OBVIOUS
  <2>1. q \in 0..MaxSeq /\ q < nextSeq'[x]
    BY <1>1, <1>2
  <2> QED
    BY <1>2, <2>1, AckHarmless, OneHarmless
<1>3. ASSUME NEW fs, fs = <<>> PROVE fs \in Seq(DownFrames) /\ \A i \in DOMAIN fs : Harmless(fs[i])
  BY <1>3
<1>4. CASE Broken(s, h) /\ sendToAgent(agentOf[r], taskCancel(r))
  <2>1. r \in Runs
    BY <1>1, <1>4, ReplayType, BoundIsDispatched DEF Broken, Owned
  <2> PICK fs : fs = <<taskCancel(r)>>
    OBVIOUS
  <2>2. fs \in Seq(DownFrames) /\ \A i \in DOMAIN fs : Harmless(fs[i])
    BY <2>1, CancelHarmless, OneHarmless
  <2> QED
    BY <1>4, <2>2 DEF sendToAgent
<1>5. CASE /\ Accepted(s, h) \/ Repeated(s, h)
           /\ Send(s, IF reliable[r] THEN <<taskAck(r, nextSeq'[r] - 1)>> ELSE <<>>)
  <2>1. r \in Runs
    BY <1>1, <1>5, ReplayType, BoundIsDispatched DEF Accepted, Repeated, Owned
  <2> PICK fs : fs = IF reliable[r] THEN <<taskAck(r, nextSeq'[r] - 1)>> ELSE <<>>
    OBVIOUS
  <2>2. ASSUME reliable[r] PROVE nextSeq'[r] > 0
    <3>1. nextSeq[r] \in Nat /\ nextSeq'[r] \in Nat /\ nextSeq[r] <= nextSeq'[r]
      BY <1>1, <2>1 DEF SeqOnward
    <3>2. CASE Repeated(s, h)
      BY <1>1, <3>1, <3>2 DEF Repeated
    <3>3. CASE Accepted(s, h)
      <4>1. CountFrame(r) \/ Repeated(s, h) \/ Broken(s, h)
        BY <3>3 DEF HandleFrame, FrameOutput, FrameTerminal, FrameBadApproval, FrameIgnored,
             FrameRepeated, FrameBroken
      <4>2. ~Broken(s, h)
        BY <1>1, <2>1, <2>2, <3>1, <3>3, ConstantsOK DEF Broken, Accepted
      <4>3. CASE CountFrame(r)
        BY <1>1, <2>1, <2>2, <3>1, <4>3 DEF CountFrame
      <4> QED
        BY <3>2, <4>1, <4>2, <4>3
    <3> QED
      BY <1>5, <3>2, <3>3
  <2>3. fs \in Seq(DownFrames) /\ \A i \in DOMAIN fs : Harmless(fs[i])
    BY <1>2, <1>3, <2>1, <2>2
  <2> QED
    BY <1>5, <2>3
<1>6. CASE Send(s, ReceiptAck(h))
  <2> PICK fs : fs = ReceiptAck(h)
    OBVIOUS
  <2>1. CASE h.exec \in receipts /\ h.seq < nextSeq[h.exec] /\ fs = <<taskAck(h.exec, nextSeq[h.exec] - 1)>>
    <3> PICK q : q = nextSeq[h.exec] - 1
      OBVIOUS
    <3>1. h.exec \in Runs /\ q \in 0..MaxSeq
      BY <1>1, <2>1
    <3>2. q < nextSeq'[h.exec]
      BY <1>1, <3>1 DEF SeqOnward
    <3> QED
      BY <1>6, <2>1, <3>1, <3>2, AckHarmless, OneHarmless
  <2>2. CASE fs = <<>>
    BY <1>3, <1>6, <2>2
  <2> QED
    BY <2>1, <2>2 DEF ReceiptAck
<1> QED
  BY <1>4, <1>5, <1>6 DEF ServerHandles

(* A terminal that is accepted is the last its run made, after all the others. *)
LEMMA TerminalFits ==
  ASSUME ReplayIInv, UNCHANGED clientVars, NEW s \in Sockets, NEW f \in Frames, Genuine(f), FrameTerminal(s, f)
  PROVE  TableFits' /\ WholeOutput' /\ Onward /\ SeqOnward
<1> USE DEF clientVars
<1>1. ReplayTypeOK /\ TableFits /\ IInv /\ WholeOutput
  BY DEF ReplayIInv, OutputIsWhole
<1> PICK r : r = bindings[f.task]
  OBVIOUS
<1>2. f.task \in Tasks /\ bindings[f.task] # None /\ Accepted(s, f) /\ f.kind = "terminal"
  BY DEF FrameTerminal, Accepted, Owned, Frames
<1>3. r \in Runs /\ phase[r] \notin {"idle", "starting"} /\ outcome[r] # "terminal"
  BY <1>1, <1>2, BoundIsDispatched DEF TableFits
<1>4. /\ SeqOnward
      /\ reliable[r] => f.exec = r /\ f.seq = nextSeq[r] /\ nextSeq'[r] = f.seq + 1
      /\ \A x \in Runs : x # r => nextSeq'[x] = nextSeq[x]
  BY <1>1, <1>2, AcceptedCounts DEF FrameTerminal
<1>5. /\ UNCHANGED <<connVars, runVars, phase>>
      /\ \A t \in Tasks : bindings'[t] = IF t = f.task THEN None ELSE bindings[t]
      /\ \A x \in Runs : outcome'[x] = IF x = r /\ outcome[x] = "open" THEN "terminal" ELSE outcome[x]
  BY <1>2 DEF FrameTerminal, DropBindings, CloseStreams
<1>6. \A t \in Tasks : bindings'[t] # r
  BY <1>1, <1>2, <1>3, <1>5, ConstantsOK DEF IInv, BoundIsLive
<1>7. Onward
  BY <1>1, <1>5 DEF Onward, TableFits
<1>8. TableFits'
  <2>1. ASSUME NEW x \in Runs
        PROVE  /\ (phase[x] # "idle" => agentOf[x] = Identity.agent)'
               /\ (phase[x] \in {"idle", "starting"} => backend[x] = "none" /\ outcome[x] = "open")'
               /\ (backend[x] = "none" => made[x] = 0)'
               /\ (nextSeq[x] <= made[x])'
    BY <1>1, <1>3, <1>4, <1>5, <2>1 DEF TableFits, SeqOnward, Identity
  <2>2. ASSUME NEW x \in Runs, outcome'[x] = "terminal", NEW t \in Tasks PROVE bindings'[t] # x
    <3>1. CASE x = r
      BY <1>6, <3>1
    <3>2. CASE x # r
      BY <1>1, <1>5, <2>2, <3>2, ConstantsOK DEF TableFits
    <3> QED
      BY <3>1, <3>2
  <2>3. \A x \in Sockets : (authed[x] => ident[x] = Identity.agent)'
    BY <1>1, <1>5 DEF TableFits, Identity
  <2>4. \A d \in Daemons : (ws[d] # None => ready[ws[d]] # "idle")'
    BY <1>1, <1>5 DEF TableFits
  <2> QED
    BY <2>1, <2>2, <2>3, <2>4 DEF TableFits
<1>9. WholeOutput'
  <2> SUFFICES ASSUME NEW x \in Runs, outcome'[x] = "terminal", reliable'[x]
               PROVE  /\ nextSeq'[x] = made[x]
                      /\ backend[x] \in {"spoken", "over"} \/ x \in suppressed
    BY DEF WholeOutput
  <2>1. CASE x = r
    BY <1>2, <1>3, <1>4, <1>5, <2>1, ConstantsOK DEF Genuine, Finished
  <2>2. CASE x # r
    BY <1>1, <1>4, <1>5, <2>2 DEF WholeOutput
  <2> QED
    BY <2>1, <2>2
<1> QED
  BY <1>4, <1>7, <1>8, <1>9

(* ReplayIInv is kept when the server handles the oldest frame of a socket. *)
LEMMA ServerHandlesKeeps ==
  ASSUME ReplayIInv, NEW s \in Sockets, ServerHandles(s)
  PROVE  ReplayIInv'
<1>1. up[s] # <<>> /\ UNCHANGED <<end, owner, clientVars, upsets>>
  BY DEF ServerHandles
<1>2. IInv /\ TableFits /\ ReplayTypeOK /\ FramesGenuine
  BY DEF ReplayIInv
<1>3. /\ up \in [Sockets -> Seq(Frames)] /\ up' = [up EXCEPT ![s] = Tail(@)]
      /\ 1 \in DOMAIN up[s]
  BY <1>1, <1>2 DEF ReplayTypeOK, ServerHandles
<1> PICK h : h = up[s][1]
  OBVIOUS
<1>4. h = Head(up[s]) /\ h \in Frames /\ Genuine(h) /\ HandleFrame(s, h)
  BY <1>2, <1>3 DEF FramesGenuine, ServerHandles
<1>5. IInv'
  BY <1>2, <1>4, StepInvariant DEF Next
<1>6. CanReceive(s) /\ ~FrameBadApproval(s, h)
  BY <1>4 DEF HandleFrame, FrameRepeated, FrameBroken, FrameOutput, FrameTerminal, FrameBadApproval,
       FrameIgnored, Genuine
<1>7. TableFits' /\ WholeOutput' /\ Onward /\ SeqOnward
  <2>1. CASE FrameTerminal(s, h)
    BY <1>1, <1>4, <2>1, TerminalFits
  <2>2. ASSUME Onward, GivesUp, SeqOnward PROVE TableFits' /\ WholeOutput'
    BY <1>1, <2>2, QuietTableFits, GivesUpKeepsWhole DEF ReplayIInv, OutputIsWhole
  <2>3. CASE FrameOutput(s, h)
    <3>1. Accepted(s, h) /\ CountFrame(bindings[h.task])
      BY <2>3 DEF FrameOutput
    <3>2. SeqOnward
      BY <1>2, <1>4, <3>1, AcceptedCounts
    <3>3. Onward /\ GivesUp
      BY <1>2, <2>3 DEF FrameOutput, Onward, GivesUp, TableFits
    <3> QED
      BY <2>2, <3>2, <3>3
  <2>4. CASE FrameRepeated(s, h) \/ FrameBroken(s, h) \/ FrameIgnored(s, h)
    <3>1. Onward /\ GivesUp /\ UNCHANGED nextSeq
      BY <1>2, <1>4, <2>4, UnacceptedOnward
    <3> QED
      BY <1>2, <2>2, <3>1, StillOnward
  <2> QED
    BY <1>4, <1>6, <2>1, <2>3, <2>4 DEF HandleFrame
<1>8. Due(h)' => h.seq < nextSeq'[h.exec]
  <2> SUFFICES ASSUME Due(h)' PROVE h.seq < nextSeq'[h.exec]
    OBVIOUS
  <2>1. Due(h)
    BY <1>1, <1>2, <1>4, <1>7, GenuineStays DEF Due
  <2>2. /\ h.exec \in Runs /\ bindings[h.task] = h.exec /\ reliable[h.exec] /\ Owned(s, h.task)
        /\ h.seq \in Nat /\ nextSeq[h.exec] \in Nat /\ h.seq <= nextSeq[h.exec]
    BY <1>1, <1>4, <1>6, <2>1, HeadExpected
  <2>3. nextSeq'[h.exec] \in Nat /\ nextSeq[h.exec] <= nextSeq'[h.exec]
    BY <1>7, <2>2 DEF SeqOnward
  <2>4. CASE h.seq = nextSeq[h.exec]
    <3>1. Accepted(s, h) /\ ~Repeated(s, h) /\ ~Broken(s, h)
      BY <2>2, <2>4, ConstantsOK DEF Accepted, Repeated, Broken
    <3>2. CountFrame(bindings[h.task])
      BY <1>4, <3>1 DEF HandleFrame, FrameRepeated, FrameBroken, FrameOutput, FrameTerminal,
           FrameBadApproval, FrameIgnored
    <3> QED
      BY <1>2, <1>4, <2>2, <3>1, <3>2, AcceptedCounts
  <2> QED
    BY <2>2, <2>3, <2>4
<1>9. /\ up' \in [Sockets -> Seq(Frames)] /\ up'[s] = Tail(up[s])
      /\ \A x \in Sockets : x # s => up'[x] = up[x]
  BY <1>1, <1>3
<1>10. FramesGenuine' /\ UpOrdered' /\ UpCarries'
  BY <1>1, <1>2, <1>7, <1>8, <1>9, UpTaken DEF ReplayIInv
<1>11. down' \in [Sockets -> Seq(DownFrames)] /\ AnswersOnly
  BY <1>2, <1>4, <1>5, <1>7, HandlesAnswers, SendAnswers
<1>12. AssignedOnce' /\ AcksAreHonest'
  BY <1>1, <1>2, <1>7, <1>11, AnswersKeep DEF ReplayIInv, OutputIsWhole, clientVars
<1> QED
  BY <1>1, <1>5, <1>7, <1>9, <1>10, <1>11, <1>12, ServerMoves

-----------------------------------------------------------------------------
(* The daemons' steps: the table is as it was. *)

(* When the table is as it was, so is its invariant. *)
LEMMA Unmoved ==
  ASSUME ReplayIInv, UNCHANGED vars
  PROVE  /\ IInv' /\ TypeOK'
         /\ \A r \in Runs : nextSeq[r] \in Nat /\ made[r] \in Nat
<1>1. IInv /\ [Next]_vars
  BY DEF ReplayIInv
<1>2. IInv'
  BY <1>1, StepInvariant
<1>3. \A r \in Runs : nextSeq[r] \in Nat /\ made[r] \in Nat
  BY ConstantsOK DEF ReplayIInv, ReplayTypeOK, TypeOK
<1> QED
  BY <1>2, <1>3 DEF IInv

(* What a daemon retains is numbered, and is of one run that is under way. *)
LEMMA Retained ==
  ASSUME ReplayTypeOK, FramesGenuine, NEW d \in Daemons, NEW f \in pending[d]
  PROVE  /\ f \in Frames /\ f.exec \in Runs /\ f.seq \in Nat /\ Genuine(f)
         /\ reliable[f.exec] /\ backend[f.exec] # "none" /\ f.task = taskOf[f.exec]
         /\ f.seq < made[f.exec]
<1>1. f \in Frames /\ Genuine(f) /\ f.exec # None
  BY DEF ReplayTypeOK, FramesGenuine
<1>2. f.exec \in Runs \cup {None} /\ f.seq \in Nat
  BY <1>1, ConstantsOK DEF Frames
<1> QED
  BY <1>1, <1>2 DEF Genuine

(* A run in flight is in flight under its own task. *)
LEMMA Working ==
  ASSUME ReplayTypeOK, AtHome, NEW d \in Daemons, NEW t \in Tasks, inflight[d][t] # None
  PROVE  /\ inflight[d][t] \in Runs /\ taskOf[inflight[d][t]] = t
         /\ backend[inflight[d][t]] # "none"
BY DEF ReplayTypeOK, AtHome

(* A daemon forgets frames, silences runs, ends them or leaves its socket.      *)
Quieter ==
  /\ \A d \in Daemons : pending'[d] \subseteq pending[d]
  /\ suppressed \subseteq suppressed'
  /\ \A r \in Runs : backend[r] # "none" => backend'[r] # "none"
  /\ \A r \in Runs : backend[r] \in {"spoken", "over"} => backend'[r] \in {"spoken", "over"}
  /\ \A d \in Daemons : Streaming(d)' => Streaming(d) /\ ws'[d] = ws[d]

(* A daemon that only grows quieter breaks nothing about frames. *)
LEMMA QuieterKeeps ==
  ASSUME ReplayIInv, UNCHANGED <<vars, up, made>>, Quieter
  PROVE  FramesGenuine' /\ UpOrdered' /\ UpCarries' /\ WholeOutput'
<1>1. ReplayTypeOK /\ FramesGenuine /\ UpOrdered /\ UpCarries /\ WholeOutput
  BY DEF ReplayIInv, OutputIsWhole
<1>2. ASSUME NEW f \in Frames, Genuine(f) PROVE Genuine(f)'
  <2>1. f.exec # None => f.exec \in Runs
    BY DEF Frames
  <2>2. ASSUME f.exec \in Runs, Finished(f.exec) PROVE Finished(f.exec)'
    BY <2>2 DEF Finished, Quieter
  <2> QED
    BY <1>2, <2>1, <2>2 DEF Genuine, Quieter
<1>3. FramesGenuine'
  <2>1. ASSUME NEW s \in Sockets, NEW i \in DOMAIN up[s] PROVE Genuine(up[s][i])'
    <3>1. PICK f \in Frames : f = up[s][i] /\ Genuine(f)
      BY <1>1, UpTypes DEF FramesGenuine
    <3> QED
      BY <1>2, <3>1
  <2>2. ASSUME NEW d \in Daemons, NEW f \in pending'[d] PROVE Genuine(f)' /\ f.exec # None
    BY <1>1, <1>2, <2>2, Retained, ConstantsOK DEF Quieter
  <2> QED
    BY <2>1, <2>2 DEF FramesGenuine
<1>4. UpOrdered'
  BY <1>1 DEF UpOrdered, Due, Carries
<1>5. UpCarries'
  BY <1>1 DEF UpCarries, Due, Carries, Quieter
<1>6. WholeOutput'
  BY <1>1 DEF WholeOutput, Quieter
<1> QED
  BY <1>3, <1>4, <1>5, <1>6

(* TableFits is kept when runs only make more and no daemon takes a new socket. *)
LEMMA ClientTableFits ==
  ASSUME ReplayIInv, UNCHANGED vars,
         \A r \in Runs : /\ made'[r] \in Nat /\ made[r] <= made'[r]
                         /\ phase[r] \in {"idle", "starting"} => backend'[r] = backend[r]
                         /\ backend'[r] = "none" => backend[r] = "none" /\ made'[r] = made[r],
         \A d \in Daemons : ws'[d] = None \/ ws'[d] = ws[d]
  PROVE  TableFits'
<1>1. TableFits /\ \A r \in Runs : nextSeq[r] \in Nat /\ made[r] \in Nat
  BY Unmoved DEF ReplayIInv
<1>2. ASSUME NEW r \in Runs
      PROVE  /\ (phase[r] # "idle" => agentOf[r] = Identity.agent)'
             /\ (phase[r] \in {"idle", "starting"} => backend[r] = "none" /\ outcome[r] = "open")'
             /\ (backend[r] = "none" => made[r] = 0)'
             /\ (nextSeq[r] <= made[r])'
             /\ (outcome[r] = "terminal" => \A t \in Tasks : bindings[t] # r)'
  BY <1>1, <1>2 DEF TableFits, Identity
<1>3. ASSUME NEW d \in Daemons, ws'[d] # None PROVE ready[ws'[d]] # "idle"
  BY <1>1, <1>3 DEF TableFits
<1>4. \A s \in Sockets : (authed[s] => ident[s] = Identity.agent)'
  BY <1>1 DEF TableFits, Identity
<1> QED
  BY <1>2, <1>3, <1>4 DEF TableFits

(* Frames on their way to a daemon are lost with its socket ... *)
LEMMA DownKept ==
  ASSUME ReplayIInv, UNCHANGED vars, \A r \in Runs : backend[r] = "none" => backend'[r] = "none",
         \A x \in Sockets : \A i \in DOMAIN down'[x] : i \in DOMAIN down[x] /\ down'[x][i] = down[x][i]
  PROVE  AssignedOnce' /\ AcksAreHonest'
<1>1. AssignedOnce /\ AcksAreHonest
  BY DEF ReplayIInv, OutputIsWhole
<1>2. \A x \in Sockets, i \in Nat, r \in Runs : Assigns(x, i, r)' => Assigns(x, i, r)
  BY DEF Assigns
<1>3. AssignedOnce'
  BY <1>1, <1>2 DEF AssignedOnce
<1>4. AcksAreHonest'
  BY <1>1 DEF AcksAreHonest, Range
<1> QED
  BY <1>3, <1>4

(* ... or read, the first first. *)
LEMMA DownTaken ==
  ASSUME ReplayIInv, UNCHANGED vars, NEW s \in Sockets, down[s] # <<>>, down'[s] = Tail(down[s]),
         \A x \in Sockets : x # s => down'[x] = down[x],
         \A r \in Runs : backend[r] = "none" => backend'[r] = "none" \/ down[s][1] = taskAssign(r)
  PROVE  /\ down'[s] \in Seq(DownFrames) /\ AssignedOnce' /\ AcksAreHonest'
<1>1. AssignedOnce /\ AcksAreHonest /\ ReplayTypeOK
  BY DEF ReplayIInv, OutputIsWhole
<1>2. /\ down'[s] \in Seq(DownFrames) /\ 1 \in DOMAIN down[s]
      /\ \A i \in DOMAIN down'[s] : /\ i \in Nat /\ i + 1 \in Nat /\ i + 1 # 1
                                    /\ i + 1 \in DOMAIN down[s] /\ down'[s][i] = down[s][i + 1]
  BY <1>1 DEF ReplayTypeOK
<1>3. \A x \in Sockets, i \in Nat, r \in Runs :
        Assigns(x, i, r)' => IF x = s THEN Assigns(s, i + 1, r) /\ i + 1 \in Nat /\ i + 1 # 1
                                      ELSE Assigns(x, i, r)
  BY <1>2 DEF Assigns
<1>4. \A r \in Runs : down[s][1] = taskAssign(r) => Assigns(s, 1, r)
  BY <1>2 DEF Assigns
<1>5. AssignedOnce'
  <2>1. ASSUME NEW x \in Sockets, NEW i \in Nat, NEW r \in Runs, Assigns(x, i, r)'
        PROVE  phase[r] \notin {"idle", "starting"} /\ backend'[r] = "none"
    <3>1. down[s][1] # taskAssign(r)
      BY <1>1, <1>3, <1>4, <2>1 DEF AssignedOnce
    <3>2. phase[r] \notin {"idle", "starting"} /\ backend[r] = "none"
      BY <1>1, <1>3, <2>1 DEF AssignedOnce
    <3> QED
      BY <3>1, <3>2
  <2>2. ASSUME NEW x \in Sockets, NEW y \in Sockets, NEW i \in Nat, NEW j \in Nat, NEW r \in Runs,
               Assigns(x, i, r)', Assigns(y, j, r)'
        PROVE  x = y /\ i = j
    <3> DEFINE m == IF x = s THEN i + 1 ELSE i
               k == IF y = s THEN j + 1 ELSE j
    <3>1. Assigns(x, m, r) /\ Assigns(y, k, r) /\ m \in Nat /\ k \in Nat
      BY <1>3, <2>2
    <3>2. x = y /\ m = k
      BY <1>1, <3>1 DEF AssignedOnce
    <3> QED
      BY <3>2
  <2> QED
    BY <2>1, <2>2 DEF AssignedOnce
<1>6. ASSUME NEW x \in Sockets, NEW i \in DOMAIN down'[x], down'[x][i].type = "task.ack"
      PROVE  down'[x][i].seq < nextSeq[down'[x][i].run]
  <2>1. PICK m \in DOMAIN down[x] : down'[x][i] = down[x][m]
    <3>1. CASE x = s
      BY <1>2, <1>6, <3>1
    <3>2. CASE x # s
      BY <1>6, <3>2
    <3> QED
      BY <3>1, <3>2
  <2>2. down[x][m] \in Range(down[x])
    BY DEF Range
  <2> QED
    BY <1>1, <1>6, <2>1, <2>2 DEF AcksAreHonest
<1>7. AcksAreHonest'
  BY <1>6 DEF AcksAreHonest, Range
<1> QED
  BY <1>2, <1>5, <1>7

(* Runs stop, and frames are forgotten: the rest is at home still. *)
LEMMA HomeKept ==
  ASSUME ReplayIInv, UNCHANGED vars, Quieter,
         \A d \in Daemons, t \in Tasks : inflight'[d][t] # None => inflight'[d][t] = inflight[d][t]
  PROVE  AtHome'
<1>1. ReplayTypeOK /\ FramesGenuine /\ AtHome
  BY DEF ReplayIInv
<1>2. ASSUME NEW d \in Daemons, NEW t \in Tasks, inflight'[d][t] # None
      PROVE  taskOf[inflight'[d][t]] = t /\ backend'[inflight'[d][t]] # "none"
  BY <1>1, <1>2, Working DEF Quieter
<1>3. ASSUME NEW d \in Daemons, NEW e \in Daemons, NEW t \in Tasks,
             inflight'[d][t] # None, inflight'[d][t] = inflight'[e][t]
      PROVE  d = e
  BY <1>1, <1>3 DEF AtHome
<1>4. ASSUME NEW d \in Daemons, NEW e \in Daemons, NEW t \in Tasks, NEW f \in pending'[d],
             f.exec = inflight'[e][t]
      PROVE  d = e
  <2>1. f \in pending[d] /\ f.exec # None
    BY <1>1, <1>4, Retained, ConstantsOK DEF Quieter
  <2> QED
    BY <1>1, <1>4, <2>1 DEF AtHome
<1> QED
  BY <1>2, <1>3, <1>4 DEF AtHome

(* Whole runs are forgotten: those that speak on are whole still, or new.      *)
LEMMA DroppedKeeps ==
  ASSUME ReplayIInv, UNCHANGED <<vars, made>>, NEW d \in Daemons, NEW R,
         pending'[d] = Without(d, R), \A e \in Daemons : e # d => pending'[e] = pending[e],
         \A e \in Daemons, r \in Runs : r \in RunsOn(e)' \ suppressed' =>
           \/ made[r] = 0
           \/ r \in RunsOn(e) \ suppressed /\ (e = d => r \notin R)
  PROVE  RetainedWhole'
<1>1. ReplayTypeOK /\ FramesGenuine /\ RetainedWhole /\ TableFits
  BY DEF ReplayIInv
<1>2. \A e \in Daemons : \A f \in pending'[e] : f \in pending[e] /\ (e = d => f.exec \notin R)
  BY DEF Without
<1>3. \A e \in Daemons : \A f \in pending[e] : (e = d => f.exec \notin R) => f \in pending'[e]
  BY DEF Without
<1>4. ASSUME NEW e \in Daemons, NEW r \in Runs, reliable[r], Keeps(e, r)', NEW n \in nextSeq[r]..(made[r] - 1)
      PROVE  Holds(e, r, n)'
  <2>1. made[r] # 0
    BY <1>1, <1>4, Unmoved
  <2>2. Keeps(e, r) /\ (e = d => r \notin R)
    BY <1>2, <1>4, <2>1 DEF Keeps
  <2>3. Holds(e, r, n)
    BY <1>1, <1>4, <2>2 DEF RetainedWhole
  <2> QED
    BY <1>3, <2>2, <2>3 DEF Holds
<1>5. ASSUME NEW e \in Daemons, NEW f \in pending'[e], NEW n \in f.seq..(made[f.exec] - 1)
      PROVE  Holds(e, f.exec, n)'
  <2>1. Holds(e, f.exec, n) /\ (e = d => f.exec \notin R)
    BY <1>1, <1>2, <1>5 DEF RetainedWhole
  <2> QED
    BY <1>3, <2>1 DEF Holds
<1>6. \A e \in Daemons : \A f, g \in pending'[e] : f.exec = g.exec /\ f.seq = g.seq => f = g
  BY <1>1, <1>2 DEF RetainedWhole
<1> QED
  BY <1>4, <1>5, <1>6 DEF RetainedWhole

(* What a step of a daemon comes to. *)
LEMMA ClientMoves ==
  ASSUME ReplayIInv, UNCHANGED vars,
         up' \in [Sockets -> Seq(Frames)], down' \in [Sockets -> Seq(DownFrames)],
         end' \in [Sockets -> {"idle", "open", "flushing", "closing", "closed"}],
         owner' \in [Sockets -> Daemons \cup {None}], ws' \in [Daemons -> Sockets \cup {None}],
         replayReady' \in [Daemons -> BOOLEAN],
         inflight' \in [Daemons -> [Tasks -> Runs \cup {None}]],
         pending' \in [Daemons -> SUBSET Frames], made' \in [Runs -> 0..(MaxSeq + 1)],
         suppressed' \subseteq Runs, backend' \in [Runs -> {"none", "working", "spoken", "over"}],
         Upset \/ UNCHANGED upsets, Quieter \/ \A d \in Daemons : IsFiniteSet(pending'[d]),
         TableFits', AssignedOnce', AtHome', FramesGenuine', RetainedWhole', UpOrdered', UpCarries',
         WholeOutput', AcksAreHonest', OneWorkerPerTask'
  PROVE  ReplayIInv'
<1>1. IInv' /\ TypeOK'
  BY Unmoved
<1>2. \A d \in Daemons : IsFiniteSet(pending'[d])
  BY FS_Subset DEF Quieter, ReplayIInv, ReplayTypeOK
<1>3. ReplayTypeOK'
  BY <1>1, <1>2, UpsetType DEF ReplayIInv, ReplayTypeOK
<1> QED
  BY <1>1, <1>3 DEF ReplayIInv, OutputIsWhole

(* The close event of the socket, the return of a backend, an expiry, a crash. *)
LEMMA ClientCloseKeeps ==
  ASSUME ReplayIInv, NEW d \in Daemons, ClientClose(d)
  PROVE  ReplayIInv'
<1> PICK s : s = ws[d]
  OBVIOUS
<1>1. ReplayTypeOK /\ AtHome /\ OneWorkerPerTask /\ FramesGenuine
  BY DEF ReplayIInv, OutputIsWhole
<1>2. /\ s \in Sockets /\ UNCHANGED <<vars, up, owner, replayReady, inflight, pending, made, backend>>
      /\ ws' = [ws EXCEPT ![d] = None] /\ end' = [end EXCEPT ![s] = "closed"]
      /\ down' = [down EXCEPT ![s] = <<>>]
      /\ suppressed' = suppressed \cup {r \in RunsOn(d) : ~reliable[r]}
      /\ Upset \/ UNCHANGED upsets
  BY <1>1 DEF ClientClose, ReplayTypeOK
<1>3. /\ end' \in [Sockets -> {"idle", "open", "flushing", "closing", "closed"}]
      /\ ws' \in [Daemons -> Sockets \cup {None}]
      /\ ws'[d] = None /\ \A e \in Daemons : e # d => ws'[e] = ws[e]
      /\ end'[s] = "closed" /\ \A x \in Sockets : x # s => end'[x] = end[x]
      /\ down' \in [Sockets -> Seq(DownFrames)]
      /\ down'[s] = <<>> /\ \A x \in Sockets : x # s => down'[x] = down[x]
  BY <1>1, <1>2 DEF ReplayTypeOK
<1>4. RunsOn(d) \subseteq Runs
  BY <1>1, Working DEF RunsOn
<1>5. Quieter
  BY <1>1, <1>2, <1>3, ConstantsOK DEF Quieter, Streaming, Writable, ReplayTypeOK
<1>6. FramesGenuine' /\ UpOrdered' /\ UpCarries' /\ WholeOutput' /\ AtHome'
  BY <1>2, <1>5, QuieterKeeps, HomeKept
<1>7. TableFits'
  BY <1>2, <1>3, ClientTableFits, Unmoved
<1>8. AssignedOnce' /\ AcksAreHonest'
  BY <1>2, <1>3, DownKept
<1>9. RetainedWhole'
  <2>1. \A e \in Daemons, x \in Runs : x \in RunsOn(e)' \ suppressed' => x \in RunsOn(e) \ suppressed
    BY <1>2 DEF RunsOn
  <2>2. pending'[d] = Without(d, {}) /\ \A e \in Daemons : pending'[e] = pending[e]
    BY <1>2 DEF Without
  <2> QED
    BY <1>2, <2>1, <2>2, DroppedKeeps
<1>10. OneWorkerPerTask'
  BY <1>1, <1>2 DEF OneWorkerPerTask
<1>11. /\ up' \in [Sockets -> Seq(Frames)] /\ owner' \in [Sockets -> Daemons \cup {None}]
       /\ replayReady' \in [Daemons -> BOOLEAN]
       /\ inflight' \in [Daemons -> [Tasks -> Runs \cup {None}]]
       /\ pending' \in [Daemons -> SUBSET Frames] /\ made' \in [Runs -> 0..(MaxSeq + 1)]
       /\ suppressed' \subseteq Runs /\ backend' \in [Runs -> {"none", "working", "spoken", "over"}]
  BY <1>1, <1>2, <1>4 DEF ReplayTypeOK
<1> QED
  BY <1>2, <1>3, <1>5, <1>6, <1>7, <1>8, <1>9, <1>10, <1>11, ClientMoves

(* ReplayIInv is kept when a backend returns. *)
LEMMA ReturnKeeps ==
  ASSUME ReplayIInv, NEW d \in Daemons, NEW r \in Runs, Return(d, r)
  PROVE  ReplayIInv'
<1>1. ReplayTypeOK /\ AtHome /\ OneWorkerPerTask /\ FramesGenuine
  BY DEF ReplayIInv, OutputIsWhole
<1> PICK t : t = taskOf[r]
  OBVIOUS
<1>2. t \in Tasks /\ inflight[d][t] = r /\ backend[r] # "none"
  BY <1>1, Working DEF Return, RunsOn
<1>3. /\ UNCHANGED <<vars, netVars, ws, replayReady, pending, made, suppressed, upsets>>
      /\ backend' \in [Runs -> {"none", "working", "spoken", "over"}]
      /\ backend'[r] = "over" /\ \A x \in Runs : x # r => backend'[x] = backend[x]
      /\ inflight' \in [Daemons -> [Tasks -> Runs \cup {None}]]
      /\ inflight'[d][t] = None
      /\ \A e \in Daemons, u \in Tasks : e # d \/ u # t => inflight'[e][u] = inflight[e][u]
  BY <1>1, <1>2 DEF Return, ReplayTypeOK
<1>4. \A e \in Daemons, u \in Tasks : inflight'[e][u] # None => inflight'[e][u] = inflight[e][u]
  BY <1>3
<1>5. Quieter
  BY <1>3 DEF Quieter, Streaming, Writable, netVars
<1>6. FramesGenuine' /\ UpOrdered' /\ UpCarries' /\ WholeOutput' /\ AtHome'
  BY <1>3, <1>4, <1>5, QuieterKeeps, HomeKept DEF netVars
<1>7. TableFits'
  <2>1. phase[r] \notin {"idle", "starting"}
    BY <1>2 DEF ReplayIInv, TableFits
  <2> QED
    BY <1>3, <2>1, ClientTableFits, Unmoved
<1>8. AssignedOnce' /\ AcksAreHonest'
  BY <1>2, <1>3, DownKept DEF netVars
<1>9. RetainedWhole'
  <2>1. \A e \in Daemons, x \in Runs : x \in RunsOn(e)' \ suppressed' => x \in RunsOn(e) \ suppressed
    BY <1>3, <1>4 DEF RunsOn
  <2>2. pending'[d] = Without(d, {}) /\ \A e \in Daemons : pending'[e] = pending[e]
    BY <1>3 DEF Without
  <2> QED
    BY <1>3, <2>1, <2>2, DroppedKeeps
<1>10. OneWorkerPerTask'
  <2> SUFFICES ASSUME NEW x \in Runs, backend'[x] = "working", x \notin suppressed
               PROVE  \E e \in Daemons : inflight'[e][taskOf[x]] = x
    BY <1>3 DEF OneWorkerPerTask
  <2>1. x # r /\ backend[x] = "working"
    BY <1>3
  <2>2. PICK e \in Daemons : inflight[e][taskOf[x]] = x
    BY <1>1, <2>1 DEF OneWorkerPerTask
  <2>3. phase[x] # "idle" /\ taskOf[x] \in Tasks
    BY <2>1 DEF ReplayIInv, TableFits, IInv, RunsKnowTheirTask
  <2> QED
    BY <1>2, <1>3, <2>1, <2>2, <2>3
<1>11. /\ up' \in [Sockets -> Seq(Frames)] /\ owner' \in [Sockets -> Daemons \cup {None}]
       /\ down' \in [Sockets -> Seq(DownFrames)]
       /\ end' \in [Sockets -> {"idle", "open", "flushing", "closing", "closed"}]
       /\ ws' \in [Daemons -> Sockets \cup {None}]
       /\ replayReady' \in [Daemons -> BOOLEAN]
       /\ pending' \in [Daemons -> SUBSET Frames] /\ made' \in [Runs -> 0..(MaxSeq + 1)]
       /\ suppressed' \subseteq Runs
  BY <1>1, <1>3 DEF ReplayTypeOK, netVars
<1> QED
  BY <1>3, <1>5, <1>6, <1>7, <1>8, <1>9, <1>10, <1>11, ClientMoves

(* Frames of a run that is no longer reported are dropped, and the socket, if   *)
(* it was open, closes.                                                        *)
LEMMA ExpireKeeps ==
  ASSUME ReplayIInv, NEW d \in Daemons, NEW r \in Runs, Expire(d, r)
  PROVE  ReplayIInv'
<1>1. ReplayTypeOK /\ AtHome /\ OneWorkerPerTask /\ FramesGenuine
  BY DEF ReplayIInv, OutputIsWhole
<1>2. /\ UNCHANGED <<vars, up, down, owner, ws, replayReady, inflight, made, backend>> /\ Upset
      /\ pending' = [pending EXCEPT ![d] = Without(d, {r})]
      /\ suppressed' = IF r \in RunsOn(d) THEN suppressed \cup {r} ELSE suppressed
      /\ Terminate(d)
  BY DEF Expire
<1>3. /\ pending' \in [Daemons -> SUBSET Frames]
      /\ pending'[d] = Without(d, {r}) /\ \A e \in Daemons : e # d => pending'[e] = pending[e]
  BY <1>1, <1>2 DEF ReplayTypeOK, Without
<1>4. /\ end' \in [Sockets -> {"idle", "open", "flushing", "closing", "closed"}]
      /\ \A x \in Sockets : end'[x] = end[x] \/ end'[x] = "closing"
  BY <1>1, <1>2 DEF ReplayTypeOK, Terminate, Writable
<1>5. Quieter
  BY <1>1, <1>2, <1>3, <1>4 DEF Quieter, Streaming, Writable, ReplayTypeOK, Without
<1>6. FramesGenuine' /\ UpOrdered' /\ UpCarries' /\ WholeOutput' /\ AtHome'
  BY <1>2, <1>5, QuieterKeeps, HomeKept
<1>7. TableFits'
  BY <1>2, ClientTableFits, Unmoved
<1>8. AssignedOnce' /\ AcksAreHonest'
  BY <1>2, DownKept
<1>9. RetainedWhole'
  <2>1. \A e \in Daemons, x \in Runs : x \in RunsOn(e)' \ suppressed' =>
          x \in RunsOn(e) \ suppressed /\ (e = d => x # r)
    BY <1>2 DEF RunsOn
  <2> QED
    BY <1>2, <1>3, <2>1, DroppedKeeps
<1>10. OneWorkerPerTask'
  BY <1>1, <1>2 DEF OneWorkerPerTask
<1>11. /\ up' \in [Sockets -> Seq(Frames)] /\ owner' \in [Sockets -> Daemons \cup {None}]
       /\ down' \in [Sockets -> Seq(DownFrames)]
       /\ ws' \in [Daemons -> Sockets \cup {None}]
       /\ replayReady' \in [Daemons -> BOOLEAN]
       /\ inflight' \in [Daemons -> [Tasks -> Runs \cup {None}]]
       /\ made' \in [Runs -> 0..(MaxSeq + 1)]
       /\ suppressed' \subseteq Runs /\ backend' \in [Runs -> {"none", "working", "spoken", "over"}]
  BY <1>1, <1>2 DEF ReplayTypeOK
<1> QED
  BY <1>2, <1>3, <1>4, <1>5, <1>6, <1>7, <1>8, <1>9, <1>10, <1>11, ClientMoves

(* ReplayIInv is kept when a daemon crashes: its runs are over. *)
LEMMA CrashKeeps ==
  ASSUME ReplayIInv, NEW d \in Daemons, Crash(d)
  PROVE  ReplayIInv'
<1>1. ReplayTypeOK /\ AtHome /\ OneWorkerPerTask /\ FramesGenuine /\ TableFits
  BY DEF ReplayIInv, OutputIsWhole
<1>2. /\ UNCHANGED <<vars, up, owner, replayReady, made, suppressed>> /\ Upset
      /\ ws' = [ws EXCEPT ![d] = None]
      /\ end' = [s \in Sockets |-> IF s = ws[d] THEN "closed" ELSE end[s]]
      /\ down' = [s \in Sockets |-> IF s = ws[d] THEN <<>> ELSE down[s]]
      /\ backend' = [r \in Runs |-> IF r \in RunsOn(d) THEN "over" ELSE backend[r]]
      /\ inflight' = [inflight EXCEPT ![d] = [t \in Tasks |-> None]]
      /\ pending' = [pending EXCEPT ![d] = {}]
  BY DEF Crash
<1>3. /\ ws' \in [Daemons -> Sockets \cup {None}]
      /\ ws'[d] = None /\ \A e \in Daemons : e # d => ws'[e] = ws[e]
      /\ end' \in [Sockets -> {"idle", "open", "flushing", "closing", "closed"}]
      /\ \A x \in Sockets : end'[x] = end[x] \/ end'[x] = "closed"
      /\ inflight' \in [Daemons -> [Tasks -> Runs \cup {None}]]
      /\ \A t \in Tasks : inflight'[d][t] = None
      /\ \A e \in Daemons : e # d => inflight'[e] = inflight[e]
      /\ pending' \in [Daemons -> SUBSET Frames]
      /\ pending'[d] = {} /\ \A e \in Daemons : e # d => pending'[e] = pending[e]
      /\ backend' \in [Runs -> {"none", "working", "spoken", "over"}]
  BY <1>1, <1>2 DEF ReplayTypeOK
<1>4. /\ down' \in [Sockets -> Seq(DownFrames)]
      /\ \A x \in Sockets : down'[x] = down[x] \/ down'[x] = <<>>
  BY <1>1, <1>2 DEF ReplayTypeOK
<1>5. \A r \in RunsOn(d) : r \in Runs /\ backend[r] # "none" /\ phase[r] \notin {"idle", "starting"}
  BY <1>1, Working DEF RunsOn, TableFits
<1>6. Quieter
  BY <1>1, <1>2, <1>3, <1>5, ConstantsOK DEF Quieter, Streaming, Writable, ReplayTypeOK
<1>7. FramesGenuine' /\ UpOrdered' /\ UpCarries' /\ WholeOutput' /\ AtHome'
  BY <1>2, <1>3, <1>6, QuieterKeeps, HomeKept
<1>8. TableFits'
  BY <1>2, <1>3, <1>5, ClientTableFits, Unmoved
<1>9. AssignedOnce' /\ AcksAreHonest'
  BY <1>2, <1>4, <1>5, DownKept
<1>10. RetainedWhole'
  <2>1. pending'[d] = Without(d, Runs)
    BY <1>1, <1>3, Retained DEF Without
  <2>2. \A e \in Daemons, x \in Runs : x \in RunsOn(e)' \ suppressed' =>
          x \in RunsOn(e) \ suppressed /\ (e = d => x \notin Runs)
    BY <1>2, <1>3 DEF RunsOn
  <2>3. UNCHANGED <<vars, made>> /\ \A e \in Daemons : e # d => pending'[e] = pending[e]
    BY <1>2, <1>3
  <2> QED
    BY <2>1, <2>2, <2>3, DroppedKeeps
<1>11. OneWorkerPerTask'
  <2> SUFFICES ASSUME NEW x \in Runs, backend'[x] = "working", x \notin suppressed
               PROVE  \E e \in Daemons : inflight'[e][taskOf[x]] = x
    BY <1>2 DEF OneWorkerPerTask
  <2>1. x \notin RunsOn(d) /\ backend[x] = "working"
    BY <1>2
  <2>2. taskOf[x] \in Tasks
    BY <1>1, <2>1 DEF ReplayIInv, TableFits, IInv, RunsKnowTheirTask
  <2>3. PICK e \in Daemons : inflight[e][taskOf[x]] = x
    BY <1>1, <2>1 DEF OneWorkerPerTask
  <2>4. e # d
    BY <2>1, <2>2, <2>3, ConstantsOK DEF RunsOn
  <2> QED
    BY <1>3, <2>3, <2>4
<1>12. /\ up' \in [Sockets -> Seq(Frames)] /\ owner' \in [Sockets -> Daemons \cup {None}]
       /\ replayReady' \in [Daemons -> BOOLEAN]
       /\ made' \in [Runs -> 0..(MaxSeq + 1)] /\ suppressed' \subseteq Runs
  BY <1>1, <1>2 DEF ReplayTypeOK
<1> QED
  BY <1>2, <1>3, <1>4, <1>6, <1>7, <1>8, <1>9, <1>10, <1>11, <1>12, ClientMoves

(* What a daemon reads. *)
LEMMA DownKinds ==
  ASSUME NEW f \in DownFrames
  PROVE  /\ f.type = "task.assign" => f.run \in Runs /\ f = taskAssign(f.run)
         /\ f.type = "task.cancel" => f.run \in Runs
         /\ f.type = "task.ack" => f.run \in Runs /\ f.seq \in Nat
BY DEF DownFrames, helloAck, taskAssign, taskCancel, taskAck

(* Reading the oldest frame of a socket leaves the other sockets alone. *)
LEMMA ReadTypes ==
  ASSUME ReplayIInv, NEW s \in Sockets, down[s] # <<>>, down' = [down EXCEPT ![s] = Tail(@)]
  PROVE  /\ down' \in [Sockets -> Seq(DownFrames)] /\ down'[s] = Tail(down[s])
         /\ \A x \in Sockets : x # s => down'[x] = down[x]
         /\ Head(down[s]) = down[s][1] /\ down[s][1] \in DownFrames /\ 1 \in DOMAIN down[s]
<1>1. down \in [Sockets -> Seq(DownFrames)]
  BY DEF ReplayIInv, ReplayTypeOK
<1> QED
  BY <1>1

(* An acknowledgement only covers what was accepted. *)
LEMMA AckKeeps ==
  ASSUME ReplayIInv, UNCHANGED <<vars, end, owner, ws, made, upsets>>, NEW d \in Daemons,
         NEW s \in Sockets, down[s] # <<>>, down' = [down EXCEPT ![s] = Tail(@)],
         NEW r \in Runs, NEW q \in Nat, q < nextSeq[r], acknowledgeFrames(d, r, q)
  PROVE  ReplayIInv'
<1>1. ReplayTypeOK /\ AtHome /\ OneWorkerPerTask /\ FramesGenuine /\ RetainedWhole
  BY DEF ReplayIInv, OutputIsWhole
<1>2. /\ UNCHANGED <<up, replayReady, inflight, suppressed, backend>>
      /\ pending' = [pending EXCEPT ![d] = {f \in @ : f.exec # r \/ f.seq > q}]
  BY DEF acknowledgeFrames
<1>3. /\ pending' \in [Daemons -> SUBSET Frames]
      /\ pending'[d] = {f \in pending[d] : f.exec # r \/ f.seq > q}
      /\ \A e \in Daemons : e # d => pending'[e] = pending[e]
  BY <1>1, <1>2 DEF ReplayTypeOK
<1>4. Quieter
  BY <1>2, <1>3 DEF Quieter, Streaming, Writable
<1>5. FramesGenuine' /\ UpOrdered' /\ UpCarries' /\ WholeOutput' /\ AtHome'
  BY <1>2, <1>4, QuieterKeeps, HomeKept
<1>6. TableFits'
  BY <1>2, ClientTableFits, Unmoved
<1>7. down' \in [Sockets -> Seq(DownFrames)] /\ AssignedOnce' /\ AcksAreHonest'
  BY <1>2, ReadTypes, DownTaken
<1>8. RetainedWhole'
  <2>1. \A e \in Daemons, x \in Runs, n \in Nat :
          Holds(e, x, n) /\ (x = r => n > q) => Holds(e, x, n)'
    BY <1>3 DEF Holds
  <2>2. \A x \in Runs : nextSeq[x] \in Nat /\ made[x] \in Nat
    BY Unmoved
  <2>3. \A e \in Daemons : \A f \in pending'[e] : f \in pending[e]
    BY <1>3
  <2>4. ASSUME NEW e \in Daemons, NEW x \in Runs, reliable[x], Keeps(e, x)', NEW n \in nextSeq[x]..(made[x] - 1)
        PROVE  Holds(e, x, n)'
    <3>1. Keeps(e, x)
      BY <1>2, <2>3, <2>4 DEF Keeps, RunsOn
    <3>2. Holds(e, x, n) /\ n \in Nat
      BY <1>1, <2>2, <2>4, <3>1 DEF RetainedWhole
    <3> QED
      BY <2>1, <2>2, <2>4, <3>2
  <2>5. ASSUME NEW e \in Daemons, NEW f \in pending'[e], NEW n \in f.seq..(made[f.exec] - 1)
        PROVE  Holds(e, f.exec, n)'
    <3>1. f.exec \in Runs /\ f.seq \in Nat /\ Holds(e, f.exec, n)
      BY <1>1, <2>3, <2>5, Retained DEF RetainedWhole
    <3>2. e = d /\ f.exec = r => f.seq > q
      BY <1>3, <2>5
    <3>3. n \in Nat /\ (e = d /\ f.exec = r => n > q)
      BY <2>2, <2>5, <3>1, <3>2
    <3>4. CASE e = d
      BY <2>1, <3>1, <3>3, <3>4
    <3>5. CASE e # d
      BY <1>3, <3>1, <3>5 DEF Holds
    <3> QED
      BY <3>4, <3>5
  <2>6. \A e \in Daemons : \A f, g \in pending'[e] : f.exec = g.exec /\ f.seq = g.seq => f = g
    BY <1>1, <2>3 DEF RetainedWhole
  <2> QED
    BY <1>2, <2>4, <2>5, <2>6 DEF RetainedWhole
<1>9. OneWorkerPerTask'
  BY <1>1, <1>2 DEF OneWorkerPerTask
<1>10. /\ up' \in [Sockets -> Seq(Frames)] /\ owner' \in [Sockets -> Daemons \cup {None}]
       /\ end' \in [Sockets -> {"idle", "open", "flushing", "closing", "closed"}]
       /\ ws' \in [Daemons -> Sockets \cup {None}]
       /\ replayReady' \in [Daemons -> BOOLEAN]
       /\ inflight' \in [Daemons -> [Tasks -> Runs \cup {None}]]
       /\ made' \in [Runs -> 0..(MaxSeq + 1)]
       /\ suppressed' \subseteq Runs /\ backend' \in [Runs -> {"none", "working", "spoken", "over"}]
  BY <1>1, <1>2 DEF ReplayTypeOK
<1> QED
  BY <1>2, <1>3, <1>4, <1>5, <1>6, <1>7, <1>8, <1>9, <1>10, ClientMoves

(* ReplayIInv is kept when a daemon receives a cancel: a reliable run is silenced
   along with what is retained of it. *)
LEMMA ReceiveCancelKeeps ==
  ASSUME ReplayIInv, UNCHANGED <<vars, end, owner, ws, made, upsets>>, NEW d \in Daemons,
         NEW s \in Sockets, down[s] # <<>>, down' = [down EXCEPT ![s] = Tail(@)],
         NEW r \in Runs, ReceiveCancel(d, r)
  PROVE  ReplayIInv'
<1>1. ReplayTypeOK /\ AtHome /\ OneWorkerPerTask /\ FramesGenuine
  BY DEF ReplayIInv, OutputIsWhole
<1> PICK R : R = IF r \in RunsOn(d) /\ reliable[r] THEN {r} ELSE {}
  OBVIOUS
<1>2. /\ UNCHANGED <<up, replayReady, inflight, backend>>
      /\ suppressed' = suppressed \cup R
      /\ pending' = IF R = {} THEN pending ELSE [pending EXCEPT ![d] = Without(d, R)]
  BY DEF ReceiveCancel
<1>3. /\ pending' \in [Daemons -> SUBSET Frames]
      /\ pending'[d] = Without(d, R) /\ \A e \in Daemons : e # d => pending'[e] = pending[e]
  BY <1>1, <1>2 DEF ReplayTypeOK, Without
<1>4. Quieter
  BY <1>2, <1>3 DEF Quieter, Streaming, Writable, Without
<1>5. FramesGenuine' /\ UpOrdered' /\ UpCarries' /\ WholeOutput' /\ AtHome'
  BY <1>2, <1>4, QuieterKeeps, HomeKept
<1>6. TableFits'
  BY <1>2, ClientTableFits, Unmoved
<1>7. down' \in [Sockets -> Seq(DownFrames)] /\ AssignedOnce' /\ AcksAreHonest'
  BY <1>2, ReadTypes, DownTaken
<1>8. RetainedWhole'
  <2>1. \A e \in Daemons, x \in Runs : x \in RunsOn(e)' \ suppressed' =>
          x \in RunsOn(e) \ suppressed /\ (e = d => x \notin R)
    BY <1>2 DEF RunsOn
  <2> QED
    BY <1>2, <1>3, <2>1, DroppedKeeps
<1>9. OneWorkerPerTask'
  BY <1>1, <1>2 DEF OneWorkerPerTask
<1>10. /\ up' \in [Sockets -> Seq(Frames)] /\ owner' \in [Sockets -> Daemons \cup {None}]
       /\ end' \in [Sockets -> {"idle", "open", "flushing", "closing", "closed"}]
       /\ ws' \in [Daemons -> Sockets \cup {None}]
       /\ replayReady' \in [Daemons -> BOOLEAN]
       /\ inflight' \in [Daemons -> [Tasks -> Runs \cup {None}]]
       /\ made' \in [Runs -> 0..(MaxSeq + 1)]
       /\ suppressed' \subseteq Runs /\ backend' \in [Runs -> {"none", "working", "spoken", "over"}]
  BY <1>1, <1>2 DEF ReplayTypeOK
<1> QED
  BY <1>2, <1>3, <1>4, <1>5, <1>6, <1>7, <1>8, <1>9, <1>10, ClientMoves

(* A run is new to the daemon that is assigned it, and to every other one.      *)
LEMMA RunTaskKeeps ==
  ASSUME ReplayIInv, UNCHANGED <<vars, end, owner, ws, made, upsets>>, NEW d \in Daemons,
         NEW s \in Sockets, down[s] # <<>>, down' = [down EXCEPT ![s] = Tail(@)],
         NEW r \in Runs, down[s][1] = taskAssign(r), runTask(d, r)
  PROVE  ReplayIInv'
<1>1. ReplayTypeOK /\ AtHome /\ OneWorkerPerTask /\ FramesGenuine /\ AssignedOnce /\ TableFits
  BY DEF ReplayIInv, OutputIsWhole
<1>2. phase[r] \notin {"idle", "starting"} /\ backend[r] = "none" /\ made[r] = 0
  <2>1. Assigns(s, 1, r)
    BY ReadTypes DEF Assigns
  <2>2. phase[r] \notin {"idle", "starting"} /\ backend[r] = "none"
    BY <1>1, <2>1 DEF AssignedOnce
  <2> QED
    BY <1>1, <2>2 DEF TableFits
<1> PICK t, P : t = taskOf[r] /\ P = {inflight[d][taskOf[r]]} \ {None}
  OBVIOUS
<1>3. t \in Tasks
  BY <1>2 DEF ReplayIInv, IInv, RunsKnowTheirTask
<1>4. /\ UNCHANGED up /\ suppressed' = suppressed \cup P
      /\ pending' = [pending EXCEPT ![d] = Without(d, P)]
      /\ inflight' = [inflight EXCEPT ![d][t] = r]
      /\ backend' = [backend EXCEPT ![r] = "working"]
      /\ replayReady' = IF reliable[r] THEN replayReady ELSE [replayReady EXCEPT ![d] = FALSE]
  BY DEF runTask
<1>5. /\ pending' \in [Daemons -> SUBSET Frames]
      /\ pending'[d] = Without(d, P) /\ \A e \in Daemons : e # d => pending'[e] = pending[e]
      /\ replayReady' \in [Daemons -> BOOLEAN]
      /\ \A e \in Daemons : replayReady'[e] => replayReady[e]
      /\ backend' \in [Runs -> {"none", "working", "spoken", "over"}]
      /\ backend'[r] = "working" /\ \A x \in Runs : x # r => backend'[x] = backend[x]
  BY <1>1, <1>4 DEF ReplayTypeOK, Without
<1>6. /\ inflight' \in [Daemons -> [Tasks -> Runs \cup {None}]]
      /\ inflight'[d][t] = r
      /\ \A e \in Daemons, u \in Tasks : e # d \/ u # t => inflight'[e][u] = inflight[e][u]
  BY <1>1, <1>3, <1>4 DEF ReplayTypeOK
<1>7. P \subseteq Runs /\ (\A e \in Daemons, u \in Tasks : inflight[e][u] # r)
  BY <1>1, <1>2, <1>3, Working, ConstantsOK
<1>8. Quieter
  BY <1>2, <1>4, <1>5 DEF Quieter, Streaming, Writable, Without
<1>9. FramesGenuine' /\ UpOrdered' /\ UpCarries' /\ WholeOutput'
  BY <1>4, <1>8, QuieterKeeps
<1>10. TableFits'
  BY <1>2, <1>5, ClientTableFits, Unmoved
<1>11. down' \in [Sockets -> Seq(DownFrames)] /\ AssignedOnce' /\ AcksAreHonest'
  BY <1>5, ReadTypes, DownTaken
<1>12. AtHome'
  <2>1. ASSUME NEW e \in Daemons, NEW u \in Tasks, inflight'[e][u] # None
        PROVE  taskOf[inflight'[e][u]] = u /\ backend'[inflight'[e][u]] # "none"
    <3>1. CASE e = d /\ u = t
      BY <1>5, <1>6, <3>1
    <3>2. CASE ~(e = d /\ u = t)
      BY <1>1, <1>5, <1>6, <2>1, <3>2, Working
    <3> QED
      BY <3>1, <3>2
  <2>2. ASSUME NEW e \in Daemons, NEW g \in Daemons, NEW u \in Tasks,
               inflight'[e][u] # None, inflight'[e][u] = inflight'[g][u]
        PROVE  e = g
    <3>1. CASE u = t /\ (e = d \/ g = d)
      BY <1>6, <1>7, <2>2, <3>1
    <3>2. CASE ~(u = t /\ (e = d \/ g = d))
      BY <1>1, <1>6, <2>2, <3>2 DEF AtHome
    <3> QED
      BY <3>1, <3>2
  <2>3. ASSUME NEW e \in Daemons, NEW g \in Daemons, NEW u \in Tasks, NEW f \in pending'[e],
               f.exec = inflight'[g][u]
        PROVE  e = g
    <3>1. f \in pending[e] /\ f.exec # r
      BY <1>1, <1>2, <1>8, Retained DEF Quieter
    <3>2. inflight'[g][u] = inflight[g][u]
      BY <1>6, <2>3, <3>1
    <3> QED
      BY <1>1, <2>3, <3>1, <3>2 DEF AtHome
  <2> QED
    BY <2>1, <2>2, <2>3 DEF AtHome
<1>13. RetainedWhole'
  <2>1. ASSUME NEW e \in Daemons, NEW x \in Runs, x \in RunsOn(e)' \ suppressed', x # r
        PROVE  x \in RunsOn(e) \ suppressed /\ (e = d => x \notin P)
    <3>1. PICK u \in Tasks : x = inflight'[e][u]
      BY <2>1 DEF RunsOn
    <3>2. inflight'[e][u] = inflight[e][u]
      BY <1>6, <2>1, <3>1
    <3> QED
      BY <1>4, <2>1, <3>1, <3>2 DEF RunsOn
  <2>2. \A e \in Daemons, x \in Runs : x \in RunsOn(e)' \ suppressed' =>
          \/ made[x] = 0
          \/ x \in RunsOn(e) \ suppressed /\ (e = d => x \notin P)
    BY <1>2, <2>1
  <2> QED
    BY <1>4, <1>5, <2>2, DroppedKeeps
<1>14. OneWorkerPerTask'
  <2> SUFFICES ASSUME NEW x \in Runs, backend'[x] = "working", x \notin suppressed'
               PROVE  \E e \in Daemons : inflight'[e][taskOf[x]] = x
    BY DEF OneWorkerPerTask
  <2>1. CASE x = r
    BY <1>6, <2>1
  <2>2. CASE x # r
    <3>1. backend[x] = "working" /\ x \notin suppressed /\ x \notin P
      BY <1>4, <1>5, <2>2
    <3>2. taskOf[x] \in Tasks
      BY <1>1, <3>1 DEF ReplayIInv, TableFits, IInv, RunsKnowTheirTask
    <3>3. PICK e \in Daemons : inflight[e][taskOf[x]] = x
      BY <1>1, <3>1 DEF OneWorkerPerTask
    <3>4. ~(e = d /\ taskOf[x] = t)
      BY <3>1, <3>3, ConstantsOK
    <3> QED
      BY <1>6, <3>2, <3>3, <3>4
  <2> QED
    BY <2>1, <2>2
<1>15. /\ up' \in [Sockets -> Seq(Frames)] /\ owner' \in [Sockets -> Daemons \cup {None}]
       /\ end' \in [Sockets -> {"idle", "open", "flushing", "closing", "closed"}]
       /\ ws' \in [Daemons -> Sockets \cup {None}]
       /\ made' \in [Runs -> 0..(MaxSeq + 1)] /\ suppressed' \subseteq Runs
  BY <1>1, <1>4, <1>7 DEF ReplayTypeOK
<1> QED
  BY <1>5, <1>6, <1>8, <1>9, <1>10, <1>11, <1>12, <1>13, <1>14, <1>15, ClientMoves

(* Frames are written behind those on their way. *)
Appended(w, q) ==
  /\ up'[w] = up[w] \o q
  /\ \A x \in Sockets : x # w => up'[x] = up[x]

(* What a socket carries after more was sent on it. *)
LEMMA AppendedParts ==
  ASSUME ReplayTypeOK, NEW w \in Sockets, NEW q \in Seq(Frames), Appended(w, q)
  PROVE  /\ Len(up[w]) \in Nat /\ Len(q) \in Nat
         /\ DOMAIN up[w] = 1..Len(up[w]) /\ DOMAIN q = 1..Len(q)
         /\ Len(up'[w]) = Len(up[w]) + Len(q) /\ DOMAIN up'[w] = 1..(Len(up[w]) + Len(q))
         /\ \A i \in 1..Len(up[w]) : up'[w][i] = up[w][i]
         /\ \A j \in 1..Len(q) : up'[w][Len(up[w]) + j] = q[j]
<1>1. up[w] \in Seq(Frames)
  BY DEF ReplayTypeOK
<1> QED
  BY <1>1 DEF Appended

(* Written behind its predecessor, a frame is in order. *)
LEMMA AppendedOrder ==
  ASSUME ReplayTypeOK, FramesGenuine, UpOrdered, UNCHANGED vars,
         NEW w \in Sockets, NEW q \in Seq(Frames), Appended(w, q),
         \A f \in Frames : Genuine(f) => Genuine(f)', \A j \in 1..Len(q) : Genuine(q[j])',
         \A j \in 1..Len(q) : Due(q[j]) /\ q[j].seq > nextSeq[q[j].exec] =>
           \/ Carries(w, Len(up[w]), q[j].exec, q[j].seq - 1)
           \/ \E i \in 1..(j - 1) : q[i].exec = q[j].exec /\ q[i].seq = q[j].seq - 1
  PROVE  /\ \A x \in Sockets : \A i \in DOMAIN up'[x] : Genuine(up[x][i])'
         /\ UpOrdered'
         /\ \A x \in Sockets, r \in Runs, k \in Nat :
              Carries(x, Len(up[x]), r, k) => Carries(x, Len(up[x]), r, k)'
         /\ \A j \in 1..Len(q) : Carries(w, Len(up[w]), q[j].exec, q[j].seq)'
<1> DEFINE n == Len(up[w])
           m == Len(q)
<1>1. /\ n \in Nat /\ m \in Nat /\ DOMAIN up[w] = 1..n /\ DOMAIN q = 1..m
      /\ Len(up'[w]) = n + m /\ DOMAIN up'[w] = 1..(n + m)
      /\ \A i \in 1..n : up'[w][i] = up[w][i]
      /\ \A j \in 1..m : up'[w][n + j] = q[j]
  BY AppendedParts
<1>2. \A x \in Sockets : x # w => up'[x] = up[x]
  BY DEF Appended
<1> HIDE DEF n, m
<1>3. \A x \in Sockets : \A i \in DOMAIN up[x] :
        i \in DOMAIN up'[x] /\ up'[x][i] = up[x][i] /\ up[x][i] \in Frames /\ Genuine(up[x][i])
  BY <1>1, <1>2, UpTypes DEF FramesGenuine
<1>4. \A x \in Sockets : \A i \in DOMAIN up'[x] :
        \/ i \in DOMAIN up[x] /\ up'[x][i] = up[x][i]
        \/ x = w /\ i \in n + 1..n + m /\ i - n \in 1..m /\ i = n + (i - n) /\ up'[x][i] = q[i - n]
  <2> TAKE x \in Sockets
  <2> TAKE i \in DOMAIN up'[x]
  <2>1. CASE x = w /\ i <= n
    BY <1>1, <2>1
  <2>2. CASE x = w /\ ~(i <= n)
    <3>1. i \in n + 1..n + m /\ i - n \in 1..m /\ i = n + (i - n)
      BY <1>1, <2>2
    <3> PICK j \in 1..m : j = i - n
      BY <3>1
    <3> QED
      BY <1>1, <2>2, <3>1
  <2>3. CASE x # w
    BY <1>2, <2>3
  <2> QED
    BY <2>1, <2>2, <2>3
<1>5. \A x \in Sockets : \A i \in DOMAIN up'[x] : Genuine(up[x][i])'
  <2> TAKE x \in Sockets
  <2> TAKE i \in DOMAIN up'[x]
  <2> PICK g : g = up'[x][i]
    OBVIOUS
  <2>1. CASE i \in DOMAIN up[x] /\ up'[x][i] = up[x][i]
    <3>1. g \in Frames /\ Genuine(g)
      BY <1>3, <2>1
    <3> QED
      BY <3>1
  <2>2. CASE i - n \in 1..m /\ up'[x][i] = q[i - n]
    <3> PICK j \in 1..m : j = i - n
      BY <2>2
    <3>1. Genuine(q[j])' /\ q[j] = g
      BY <2>2 DEF m
    <3> QED
      BY <3>1
  <2> QED
    BY <1>4, <2>1, <2>2
<1>6. \A x \in Sockets, r \in Runs, k \in Nat :
        Carries(x, Len(up[x]), r, k) => Carries(x, Len(up[x]), r, k)'
  <2> SUFFICES ASSUME NEW x \in Sockets, NEW r \in Runs, NEW k \in Nat, Carries(x, Len(up[x]), r, k)
               PROVE  Carries(x, Len(up[x]), r, k)'
    OBVIOUS
  <2>1. CASE x # w
    BY <1>2, <2>1 DEF Carries
  <2>2. CASE x = w
    <3>1. PICK i \in 1..n : up[w][i].exec = r /\ up[w][i].seq = k
      BY <2>2 DEF Carries, n
    <3>2. n \in Nat /\ m \in Nat /\ \A j \in 1..n : up'[w][j] = up[w][j]
      BY <1>1
    <3>3. i \in 1..n + m /\ up'[w][i] = up[w][i]
      BY <3>2
    <3> QED
      BY <1>1, <2>2, <3>1, <3>3 DEF Carries
  <2> QED
    BY <2>1, <2>2
<1>7. \A j \in 1..m : Carries(w, Len(up[w]), q[j].exec, q[j].seq)'
  <2> TAKE j \in 1..m
  <2>1. n + j \in 1..n + m /\ up'[w][n + j] = q[j]
    BY <1>1
  <2> PICK i \in 1..n + m : i = n + j
    BY <2>1
  <2> QED
    BY <1>1, <2>1 DEF Carries
<1>8. UpOrdered'
  <2> SUFFICES ASSUME NEW x \in Sockets, NEW i \in DOMAIN up'[x], NEW f, f = up'[x][i],
                      Due(f), f.seq > nextSeq[f.exec]
               PROVE  \E k \in 1..(i - 1) : up'[x][k].exec = f.exec /\ up'[x][k].seq = f.seq - 1
    BY DEF UpOrdered, Carries, Due
  <2>1. CASE i \in DOMAIN up[x] /\ up'[x][i] = up[x][i]
    <3>1. PICK k \in 1..(i - 1) : up[x][k].exec = f.exec /\ up[x][k].seq = f.seq - 1
      BY <2>1 DEF UpOrdered, Carries
    <3>2. k \in DOMAIN up[x]
      BY <2>1, UpTypes
    <3> QED
      BY <1>3, <3>1, <3>2
  <2>2. CASE x = w /\ i - n \in 1..m /\ i = n + (i - n) /\ up'[x][i] = q[i - n]
    <3> PICK j \in 1..m : j = i - n
      BY <2>2
    <3>1. \/ Carries(w, n, f.exec, f.seq - 1)
          \/ \E k \in 1..(j - 1) : q[k].exec = f.exec /\ q[k].seq = f.seq - 1
      BY <2>2 DEF m, n
    <3>2. CASE Carries(w, n, f.exec, f.seq - 1)
      <4>1. PICK k \in 1..n : up[w][k].exec = f.exec /\ up[w][k].seq = f.seq - 1
        BY <3>2 DEF Carries
      <4>2. k \in 1..(i - 1) /\ up'[w][k] = up[w][k]
        BY <1>1, <2>2
      <4> QED
        BY <2>2, <4>1, <4>2
    <3>3. CASE \E k \in 1..(j - 1) : q[k].exec = f.exec /\ q[k].seq = f.seq - 1
      <4>1. PICK k \in 1..(j - 1) : q[k].exec = f.exec /\ q[k].seq = f.seq - 1
        BY <3>3
      <4>2. k \in 1..m /\ n + k \in 1..(i - 1)
        BY <1>1, <2>2
      <4>3. up'[w][n + k] = q[k]
        BY <1>1, <4>2
      <4> QED
        BY <2>2, <4>1, <4>2, <4>3
    <3> QED
      BY <3>1, <3>2, <3>3
  <2> QED
    BY <1>4, <2>1, <2>2
<1> QED
  BY <1>5, <1>6, <1>7, <1>8 DEF m

(* What a daemon writes is lost, or on its way to a server that still reads.   *)
LEMMA TransmitMoves ==
  ASSUME ReplayTypeOK, NEW d \in Daemons, NEW q \in Seq(Frames), Transmit(d, q)
  PROVE  /\ up' \in [Sockets -> Seq(Frames)]
         /\ \/ UNCHANGED up /\ ~(Writable(d) /\ ready[ws[d]] # "closed")
            \/ /\ Writable(d) /\ ready[ws[d]] # "closed"
               /\ ws[d] \in Sockets /\ Appended(ws[d], q)
<1>1. CASE ~(Writable(d) /\ ready[ws[d]] # "closed")
  BY <1>1 DEF Transmit, ReplayTypeOK
<1>2. CASE Writable(d) /\ ready[ws[d]] # "closed"
  <2>1. ws[d] \in Sockets /\ up \in [Sockets -> Seq(Frames)] /\ up' = [up EXCEPT ![ws[d]] = @ \o q]
    BY <1>2 DEF Transmit, ReplayTypeOK, Writable
  <2>2. up[ws[d]] \o q \in Seq(Frames)
    BY <2>1
  <2> QED
    BY <1>2, <2>1, <2>2 DEF Appended
<1> QED
  BY <1>1, <1>2

(* hello.ack: all that is retained is sent, in the order it was made. *)
LEMMA ReceiveHelloAckKeeps ==
  ASSUME ReplayIInv, UNCHANGED <<vars, end, owner, ws, made, upsets>>, NEW d \in Daemons,
         NEW s \in Sockets, down[s] # <<>>, down' = [down EXCEPT ![s] = Tail(@)],
         ReceiveHelloAck(d)
  PROVE  ReplayIInv'
<1>1. /\ ReplayTypeOK /\ AtHome /\ OneWorkerPerTask /\ FramesGenuine /\ RetainedWhole
      /\ UpOrdered /\ UpCarries /\ WholeOutput
  BY DEF ReplayIInv, OutputIsWhole
<1>2. /\ UNCHANGED <<inflight, pending, suppressed, backend>>
      /\ replayReady' \in [Daemons -> BOOLEAN]
      /\ \A e \in Daemons : e # d => replayReady'[e] = replayReady[e]
  BY <1>1 DEF ReceiveHelloAck, ReplayTypeOK
<1> PICK q \in Replays(pending[d]) : Transmit(d, q)
  BY DEF ReceiveHelloAck
<1> DEFINE m == Len(q)
<1>3. /\ q \in Seq(Frames) /\ m \in Nat /\ DOMAIN q = 1..m
      /\ \A j \in 1..m : q[j] \in pending[d]
      /\ \A f \in pending[d] : \E j \in 1..m : q[j] = f
      /\ \A i, j \in 1..m : i < j /\ q[i].exec = q[j].exec => q[i].seq < q[j].seq
  <2>1. Cardinality(pending[d]) \in Nat /\ pending[d] \subseteq Frames
    BY <1>1, FS_CardinalityType DEF ReplayTypeOK
  <2> PICK c \in Nat : c = Cardinality(pending[d])
    BY <2>1
  <2>2. q \in [1..c -> pending[d]] /\ Range(q) = pending[d]
    BY DEF Replays
  <2>3. q \in Seq(pending[d]) /\ q \in Seq(Frames) /\ m = c /\ DOMAIN q = 1..m
    BY <2>1, <2>2
  <2>4. \A i, j \in DOMAIN q : i < j /\ q[i].exec = q[j].exec => q[i].seq < q[j].seq
    BY DEF Replays
  <2> QED
    BY <2>2, <2>3, <2>4 DEF Range
<1> HIDE DEF m
<1>4. \A f \in Frames : Genuine(f) => Genuine(f)'
  BY <1>2 DEF Genuine, Finished
<1>5. \A j \in 1..m : Genuine(q[j])' /\ q[j].exec \in Runs /\ q[j].seq \in Nat /\ reliable[q[j].exec]
                        /\ q[j].seq < made[q[j].exec]
  <2> TAKE j \in 1..m
  <2> PICK f \in pending[d] : f = q[j]
    BY <1>3
  <2>1. f \in Frames /\ Genuine(f) /\ f.exec \in Runs /\ f.seq \in Nat /\ reliable[f.exec] /\ f.seq < made[f.exec]
    BY <1>1, Retained
  <2>2. Genuine(f)'
    BY <1>4, <2>1
  <2> QED
    BY <2>1, <2>2
(* The frame before an unaccepted one is retained too, and goes before it.     *)
<1>6. ASSUME NEW j \in 1..m, q[j].seq > nextSeq[q[j].exec]
      PROVE  \E i \in 1..(j - 1) : q[i].exec = q[j].exec /\ q[i].seq = q[j].seq - 1
  <2> PICK r, k : r = q[j].exec /\ k = q[j].seq
    OBVIOUS
  <2>1. /\ r \in Runs /\ k \in Nat /\ reliable[r] /\ k < made[r] /\ k > nextSeq[r]
        /\ nextSeq[r] \in Nat /\ made[r] \in Nat /\ Keeps(d, r)
    BY <1>3, <1>5, <1>6, Unmoved DEF Keeps
  <2>2. k - 1 \in nextSeq[r]..(made[r] - 1)
    BY <2>1
  <2>3. PICK f \in pending[d] : f.exec = r /\ f.seq = k - 1
    BY <1>1, <2>1, <2>2 DEF RetainedWhole, Holds
  <2>4. PICK i \in 1..m : q[i] = f
    BY <1>3
  <2>5. ~(i > j) /\ i # j
    BY <1>3, <2>1, <2>3, <2>4
  <2>6. i \in 1..(j - 1)
    BY <1>3, <2>5
  <2> QED
    BY <2>3, <2>4, <2>6
<1>7. /\ up' \in [Sockets -> Seq(Frames)] /\ FramesGenuine' /\ UpOrdered' /\ UpCarries'
  <2>1. \A e \in Daemons : \A f \in pending[e] : Genuine(f)' /\ f.exec # None
    BY <1>1, <1>4, Retained, ConstantsOK
  <2>2. CASE UNCHANGED up /\ ~(Writable(d) /\ ready[ws[d]] # "closed")
    <3>1. \A e \in Daemons : Streaming(e)' => Streaming(e)
      BY <1>2, <2>2 DEF Streaming, Writable
    <3>2. UpCarries'
      BY <1>1, <1>2, <2>2, <3>1 DEF UpCarries, Due, Carries
    <3>3. UpOrdered'
      BY <1>1, <2>2 DEF UpOrdered, Due, Carries
    <3>4. FramesGenuine'
      <4>1. ASSUME NEW x \in Sockets, NEW i \in DOMAIN up[x] PROVE Genuine(up[x][i])'
        <5>1. PICK f \in Frames : f = up[x][i] /\ Genuine(f)
          BY <1>1, UpTypes DEF FramesGenuine
        <5> QED
          BY <1>4, <2>2, <5>1
      <4> QED
        BY <1>2, <2>1, <2>2, <4>1 DEF FramesGenuine
    <3> QED
      BY <1>1, <2>2, <3>2, <3>3, <3>4 DEF ReplayTypeOK
  <2>3. CASE ws[d] \in Sockets /\ Appended(ws[d], q) /\ up' \in [Sockets -> Seq(Frames)]
    <3>1. /\ \A x \in Sockets : \A i \in DOMAIN up'[x] : Genuine(up[x][i])'
          /\ UpOrdered'
          /\ \A x \in Sockets, r \in Runs, k \in Nat :
               Carries(x, Len(up[x]), r, k) => Carries(x, Len(up[x]), r, k)'
          /\ \A j \in 1..m : Carries(ws[d], Len(up[ws[d]]), q[j].exec, q[j].seq)'
      BY <1>1, <1>3, <1>4, <1>5, <1>6, <2>3, AppendedOrder DEF m
    <3>2. FramesGenuine'
      BY <1>2, <2>1, <3>1 DEF FramesGenuine
    <3>3. UpCarries'
      <4> SUFFICES ASSUME NEW e \in Daemons, Streaming(e)', NEW f \in pending[e],
                          Due(f), f.seq >= nextSeq[f.exec]
                   PROVE  Carries(ws[e], Len(up[ws[e]]), f.exec, f.seq)'
        BY <1>2 DEF UpCarries, Due
      <4>1. f.exec \in Runs /\ f.seq \in Nat
        BY <1>1, Retained
      <4>2. CASE e = d
        BY <1>3, <3>1, <4>2
      <4>3. CASE e # d
        <5>1. Streaming(e) /\ ws[e] \in Sockets
          BY <1>1, <1>2, <4>3 DEF Streaming, Writable, ReplayTypeOK
        <5>2. Carries(ws[e], Len(up[ws[e]]), f.exec, f.seq)
          BY <1>1, <5>1 DEF UpCarries
        <5> QED
          BY <3>1, <4>1, <5>1, <5>2
      <4> QED
        BY <4>2, <4>3
    <3> QED
      BY <2>3, <3>1, <3>2, <3>3
  <2> QED
    BY <1>1, <1>3, <2>2, <2>3, TransmitMoves
<1>8. TableFits'
  BY <1>2, ClientTableFits, Unmoved
<1>9. down' \in [Sockets -> Seq(DownFrames)] /\ AssignedOnce' /\ AcksAreHonest'
  BY <1>2, ReadTypes, DownTaken
<1>10. AtHome' /\ WholeOutput' /\ OneWorkerPerTask'
  BY <1>1, <1>2 DEF AtHome, WholeOutput, OneWorkerPerTask
<1>11. RetainedWhole'
  BY <1>1, <1>2 DEF RetainedWhole, Keeps, Holds, RunsOn
<1>12. /\ owner' \in [Sockets -> Daemons \cup {None}]
       /\ end' \in [Sockets -> {"idle", "open", "flushing", "closing", "closed"}]
       /\ ws' \in [Daemons -> Sockets \cup {None}]
       /\ inflight' \in [Daemons -> [Tasks -> Runs \cup {None}]]
       /\ pending' \in [Daemons -> SUBSET Frames] /\ \A e \in Daemons : IsFiniteSet(pending'[e])
       /\ made' \in [Runs -> 0..(MaxSeq + 1)]
       /\ suppressed' \subseteq Runs /\ backend' \in [Runs -> {"none", "working", "spoken", "over"}]
  BY <1>1, <1>2 DEF ReplayTypeOK
<1> QED
  BY <1>2, <1>7, <1>8, <1>9, <1>10, <1>11, <1>12, ClientMoves

(* ReplayIInv is kept whichever frame a daemon reads. *)
LEMMA ClientHandlesKeeps ==
  ASSUME ReplayIInv, NEW d \in Daemons, ClientHandles(d)
  PROVE  ReplayIInv'
<1> PICK s : s = ws[d]
  OBVIOUS
<1>1. /\ s \in Sockets /\ down[s] # <<>> /\ down' = [down EXCEPT ![s] = Tail(@)]
      /\ UNCHANGED <<vars, end, owner, ws, made, upsets>>
  BY DEF ClientHandles, ReplayIInv, ReplayTypeOK
<1> PICK f \in DownFrames : f = down[s][1] /\ f = Head(down[s])
  BY <1>1, ReadTypes
<1>2. CASE f.type = "hello.ack" /\ ReceiveHelloAck(d)
  BY <1>1, <1>2, DownKinds, ReceiveHelloAckKeeps
<1>3. CASE f.type = "task.ack" /\ acknowledgeFrames(d, f.run, f.seq)
  <2>1. f.run \in Runs /\ f.seq \in Nat
    BY <1>3, DownKinds
  <2>2. f \in Range(down[s])
    BY <1>1, ReadTypes DEF Range
  <2>3. f.seq < nextSeq[f.run]
    BY <1>1, <1>3, <2>2 DEF ReplayIInv, OutputIsWhole, AcksAreHonest
  <2> QED
    BY <1>1, <1>3, <2>1, <2>3, AckKeeps
<1>4. CASE f.type = "task.assign" /\ runTask(d, f.run)
  BY <1>1, <1>4, DownKinds, RunTaskKeeps
<1>5. CASE f.type = "task.cancel" /\ ReceiveCancel(d, f.run)
  BY <1>1, <1>5, DownKinds, ReceiveCancelKeeps
<1> QED
  BY <1>2, <1>3, <1>4, <1>5 DEF ClientHandles

(* A new connection: what is on the other sockets does not change. *)
LEMMA ConnectKeeps ==
  ASSUME ReplayIInv, NEW d \in Daemons, NEW s \in Sockets, Connect(d, s)
  PROVE  ReplayIInv'
<1>1. /\ ReplayTypeOK /\ IInv /\ TableFits /\ AtHome /\ OneWorkerPerTask /\ FramesGenuine /\ RetainedWhole
      /\ UpOrdered /\ UpCarries /\ WholeOutput /\ AssignedOnce /\ AcksAreHonest
  BY DEF ReplayIInv, OutputIsWhole
<1>2. /\ Accept(s) /\ ready[s] = "idle"
      /\ UNCHANGED <<up, down, inflight, pending, made, suppressed, backend, upsets>>
      /\ ws' \in [Daemons -> Sockets \cup {None}]
      /\ ws'[d] = s /\ \A e \in Daemons : e # d => ws'[e] = ws[e]
      /\ replayReady' \in [Daemons -> BOOLEAN]
      /\ replayReady'[d] = FALSE /\ \A e \in Daemons : e # d => replayReady'[e] = replayReady[e]
      /\ end' \in [Sockets -> {"idle", "open", "flushing", "closing", "closed"}]
      /\ \A x \in Sockets : x # s => end'[x] = end[x]
      /\ owner' \in [Sockets -> Daemons \cup {None}]
  BY <1>1 DEF Connect, Accept, ReplayTypeOK
<1>3. /\ UNCHANGED <<agents, conn, ident, authed, graceable, serverClosed, bindings, holds,
                     receipts, runVars, nextSeq, phase, outcome>>
      /\ ready'[s] = "open" /\ \A x \in Sockets : x # s => ready'[x] = ready[x]
  BY <1>1, <1>2 DEF Accept, IInv, TypeOK
<1>4. IInv' /\ TypeOK'
  <2>1. IInv'
    BY <1>1, <1>2, StepInvariant DEF Next, ConnectionStep
  <2> QED
    BY <2>1 DEF IInv
<1>5. ReplayTypeOK'
  BY <1>1, <1>2, <1>4 DEF ReplayTypeOK
<1>6. TableFits'
  <2>1. \A x \in Sockets : (authed[x] => ident[x] = Identity.agent)'
    BY <1>1, <1>3 DEF TableFits, Identity
  <2>2. ASSUME NEW r \in Runs
        PROVE  /\ (phase[r] # "idle" => agentOf[r] = Identity.agent)'
               /\ (phase[r] \in {"idle", "starting"} => backend[r] = "none" /\ outcome[r] = "open")'
               /\ (backend[r] = "none" => made[r] = 0)'
               /\ (nextSeq[r] <= made[r])'
               /\ (outcome[r] = "terminal" => \A t \in Tasks : bindings[t] # r)'
    BY <1>1, <1>2, <1>3, <2>2 DEF TableFits, Identity
  <2>3. ASSUME NEW e \in Daemons, ws'[e] # None PROVE ready'[ws'[e]] # "idle"
    <3>1. CASE e = d
      BY <1>2, <1>3, <3>1
    <3>2. CASE e # d
      <4>1. ws'[e] = ws[e] /\ ws[e] \in Sockets /\ ready[ws[e]] # "idle"
        BY <1>1, <1>2, <2>3, <3>2 DEF TableFits, ReplayTypeOK
      <4> QED
        BY <1>2, <1>3, <4>1
    <3> QED
      BY <3>1, <3>2
  <2> QED
    BY <2>1, <2>2, <2>3 DEF TableFits
<1>7. AssignedOnce'
  BY <1>1, <1>2, <1>3 DEF AssignedOnce, Assigns
<1>8. AtHome'
  BY <1>1, <1>2, <1>3 DEF AtHome
<1>9. FramesGenuine'
  BY <1>1, <1>2, <1>3 DEF FramesGenuine, Genuine, Finished
<1>10. RetainedWhole'
  BY <1>1, <1>2, <1>3 DEF RetainedWhole, Keeps, Holds, RunsOn
<1>11. UpOrdered'
  BY <1>1, <1>2, <1>3 DEF UpOrdered, Due, Carries
<1>12. UpCarries'
  <2> SUFFICES ASSUME NEW e \in Daemons, Streaming(e)', NEW f \in pending[e],
                      Due(f), f.seq >= nextSeq[f.exec]
               PROVE  Carries(ws'[e], Len(up[ws'[e]]), f.exec, f.seq)
    BY <1>2, <1>3 DEF UpCarries, Due, Carries
  <2>1. e # d /\ ws'[e] = ws[e]
    BY <1>2 DEF Streaming
  <2>2. ws[e] \in Sockets /\ ws[e] # s
    BY <1>1, <1>2, <2>1 DEF Streaming, Writable, ReplayTypeOK, TableFits
  <2>3. Streaming(e)
    BY <1>2, <1>3, <2>1, <2>2 DEF Streaming, Writable
  <2> QED
    BY <1>1, <2>1, <2>3 DEF UpCarries
<1>13. OutputIsWhole'
  BY <1>1, <1>2, <1>3 DEF OutputIsWhole, WholeOutput, AcksAreHonest, OneWorkerPerTask
<1> QED
  BY <1>4, <1>5, <1>6, <1>7, <1>8, <1>9, <1>10, <1>11, <1>12, <1>13 DEF ReplayIInv

(* On a connection that has replayed, the frame before the next one of a run is *)
(* on its way, unless it was accepted.                                         *)
LEMMA NextIsOrdered ==
  ASSUME ReplayIInv, NEW d \in Daemons, NEW r \in Runs, r \in RunsOn(d) \ suppressed, reliable[r],
         Streaming(d), bindings[taskOf[r]] = r, made[r] > nextSeq[r]
  PROVE  Carries(ws[d], Len(up[ws[d]]), r, made[r] - 1)
<1>1. ReplayTypeOK /\ FramesGenuine /\ RetainedWhole /\ UpCarries
  BY DEF ReplayIInv
<1>2. nextSeq[r] \in Nat /\ made[r] \in Nat
  BY <1>1, ConstantsOK DEF ReplayTypeOK, TypeOK
<1> PICK k : k = made[r] - 1
  OBVIOUS
<1>3. k \in nextSeq[r]..(made[r] - 1) /\ Keeps(d, r)
  BY <1>2 DEF Keeps
<1>4. PICK f \in pending[d] : f.exec = r /\ f.seq = k
  BY <1>1, <1>3 DEF RetainedWhole, Holds
<1>5. Due(f) /\ f.seq >= nextSeq[f.exec]
  BY <1>1, <1>2, <1>4, Retained, ConstantsOK DEF Due
<1> QED
  BY <1>1, <1>4, <1>5 DEF UpCarries

(* A daemon writes one more frame of a run, or loses it with the connection.    *)
LEMMA EmitWrites ==
  ASSUME ReplayIInv, UNCHANGED <<vars, ws>>, NEW d \in Daemons, NEW f \in Frames,
         NEW q \in {<<>>, <<f>>}, Transmit(d, q) \/ (UNCHANGED up /\ q = <<>>), Genuine(f)',
         \A g \in Frames : Genuine(g) => Genuine(g)',
         q = <<f>> /\ Writable(d) /\ ready[ws[d]] # "closed" /\ Due(f) /\ f.seq > nextSeq[f.exec]
           => Carries(ws[d], Len(up[ws[d]]), f.exec, f.seq - 1),
         \A e \in Daemons : Streaming(e)' => Streaming(e),
         \A e \in Daemons : \A g \in pending'[e] :
           \/ g \in pending[e]
           \/ e = d /\ g = f /\ f.exec # None /\ (replayReady[d] => q = <<f>> /\ Transmit(d, q))
  PROVE  /\ up' \in [Sockets -> Seq(Frames)] /\ FramesGenuine' /\ UpOrdered' /\ UpCarries'
<1>1. ReplayTypeOK /\ FramesGenuine /\ UpOrdered /\ UpCarries
  BY DEF ReplayIInv
<1>2. /\ q \in Seq(Frames) /\ Len(q) \in Nat
      /\ \A j \in 1..Len(q) : j = 1 /\ q = <<f>> /\ q[j] = f
  <2>1. CASE q = <<>>
    <3>1. <<>> \in Seq(Frames) /\ Len(<<>>) = 0
      OBVIOUS
    <3> QED
      BY <2>1, <3>1
  <2>2. CASE q = <<f>>
    <3>1. <<f>> \in Seq(Frames) /\ Len(<<f>>) = 1 /\ <<f>>[1] = f
      OBVIOUS
    <3> QED
      BY <2>2, <3>1
  <2> QED
    BY <2>1, <2>2
<1>3. \A e \in Daemons : \A g \in pending'[e] : Genuine(g)' /\ g.exec # None
  BY <1>1, Retained, ConstantsOK
<1>4. ASSUME NEW e \in Daemons, NEW g \in pending[e]
      PROVE  g.exec \in Runs /\ g.seq \in Nat
  BY <1>1, <1>4, Retained
<1>5. CASE UNCHANGED up /\ (~(Writable(d) /\ ready[ws[d]] # "closed") \/ q = <<>>)
  <2>1. UpOrdered'
    BY <1>1, <1>5 DEF UpOrdered, Due, Carries
  <2>2. FramesGenuine'
    <3>1. ASSUME NEW x \in Sockets, NEW i \in DOMAIN up[x] PROVE Genuine(up[x][i])'
      <4>1. PICK g \in Frames : g = up[x][i] /\ Genuine(g)
        BY <1>1, UpTypes DEF FramesGenuine
      <4> QED
        BY <1>5, <4>1
    <3> QED
      BY <1>3, <1>5, <3>1 DEF FramesGenuine
  <2>3. UpCarries'
    <3> SUFFICES ASSUME NEW e \in Daemons, Streaming(e)', NEW g \in pending'[e],
                        Due(g), g.seq >= nextSeq[g.exec]
                 PROVE  Carries(ws[e], Len(up[ws[e]]), g.exec, g.seq)'
      BY DEF UpCarries, Due
    <3>1. Streaming(e)
      OBVIOUS
    <3>2. g \in pending[e]
      BY <1>5, <3>1 DEF Streaming
    <3>3. Carries(ws[e], Len(up[ws[e]]), g.exec, g.seq)
      BY <1>1, <3>1, <3>2 DEF UpCarries
    <3> QED
      BY <1>5, <3>3 DEF Carries
  <2> QED
    BY <1>1, <1>5, <2>1, <2>2, <2>3 DEF ReplayTypeOK
<1>6. CASE /\ Writable(d) /\ ready[ws[d]] # "closed" /\ ws[d] \in Sockets
           /\ Appended(ws[d], q) /\ up' \in [Sockets -> Seq(Frames)]
  <2>1. ASSUME NEW j \in 1..Len(q)
        PROVE  /\ Genuine(q[j])'
               /\ Due(q[j]) /\ q[j].seq > nextSeq[q[j].exec] =>
                    Carries(ws[d], Len(up[ws[d]]), q[j].exec, q[j].seq - 1)
    <3>1. j = 1 /\ q = <<f>> /\ q[j] = f
      BY <1>2
    <3> QED
      BY <1>6, <3>1
  <2>2. /\ \A x \in Sockets : \A i \in DOMAIN up'[x] : Genuine(up[x][i])'
        /\ UpOrdered'
        /\ \A x \in Sockets, r \in Runs, k \in Nat :
             Carries(x, Len(up[x]), r, k) => Carries(x, Len(up[x]), r, k)'
        /\ \A j \in 1..Len(q) : Carries(ws[d], Len(up[ws[d]]), q[j].exec, q[j].seq)'
    BY <1>1, <1>2, <1>6, <2>1, AppendedOrder
  <2>3. FramesGenuine'
    BY <1>3, <2>2 DEF FramesGenuine
  <2>4. UpCarries'
    <3> SUFFICES ASSUME NEW e \in Daemons, Streaming(e)', NEW g \in pending'[e],
                        Due(g), g.seq >= nextSeq[g.exec]
                 PROVE  Carries(ws[e], Len(up[ws[e]]), g.exec, g.seq)'
      BY DEF UpCarries, Due
    <3>1. Streaming(e)
      OBVIOUS
    <3>2. CASE g \in pending[e]
      <4>1. ws[e] \in Sockets /\ Carries(ws[e], Len(up[ws[e]]), g.exec, g.seq)
        BY <1>1, <3>1, <3>2 DEF UpCarries, Streaming, Writable, ReplayTypeOK
      <4> QED
        BY <1>4, <2>2, <3>2, <4>1
    <3>3. CASE e = d /\ g = f /\ q = <<f>>
      <4>1. 1 \in 1..Len(q) /\ q[1] = f
        BY <3>3
      <4> QED
        BY <2>2, <3>3, <4>1
    <3> QED
      BY <3>1, <3>2, <3>3 DEF Streaming
  <2> QED
    BY <1>6, <2>2, <2>3, <2>4
<1> QED
  BY <1>1, <1>2, <1>5, <1>6, TransmitMoves

(* A daemon sends one more frame of a run in flight: unnumbered; retained, and   *)
(* sent if it may be; or, with no room for it, as the run's last word.         *)
LEMMA EmitKeeps ==
  ASSUME ReplayIInv, NEW d \in Daemons, NEW r \in Runs, NEW kind \in {"output", "terminal"},
         Emit(d, r, kind)
  PROVE  ReplayIInv'
<1>1. /\ ReplayTypeOK /\ TableFits /\ AtHome /\ OneWorkerPerTask /\ FramesGenuine /\ RetainedWhole
      /\ UpCarries /\ WholeOutput
  BY DEF ReplayIInv, OutputIsWhole
<1>2. /\ r \in RunsOn(d) \ suppressed /\ backend[r] = "working"
      /\ UNCHANGED <<vars, down, owner, ws, replayReady, inflight>>
      /\ made[r] < (IF kind = "output" THEN MaxSeq ELSE MaxSeq + 1)
  BY DEF Emit
<1> PICK k, t : k = made[r] /\ t = taskOf[r]
  OBVIOUS
<1>3. /\ k \in Nat /\ MaxSeq \in Nat /\ k <= MaxSeq /\ k + 1 \in 0..(MaxSeq + 1)
      /\ nextSeq[r] \in Nat /\ nextSeq[r] <= k
  BY <1>1, <1>2, Unmoved, ConstantsOK DEF TableFits
<1>4. /\ made' \in [Runs -> 0..(MaxSeq + 1)] /\ made'[r] = k + 1
      /\ \A x \in Runs : x # r => made'[x] = made[x]
      /\ backend' \in [Runs -> {"none", "working", "spoken", "over"}]
      /\ backend'[r] = IF kind = "terminal" THEN "spoken" ELSE "working"
      /\ \A x \in Runs : x # r => backend'[x] = backend[x]
  BY <1>1, <1>2, <1>3 DEF Emit, ReplayTypeOK
<1>5. t \in Tasks /\ inflight[d][t] = r
  BY <1>1, <1>2, Working DEF RunsOn
<1> PICK f : f = [task |-> t, exec |-> IF reliable[r] THEN r ELSE None,
                  seq |-> IF reliable[r] THEN k ELSE 0, kind |-> kind]
  OBVIOUS
<1>6. suppressed \subseteq suppressed' /\ suppressed' \subseteq Runs
  BY <1>1 DEF Emit, ReplayTypeOK
(* r has not spoken its last word yet. *)
<1>7. \A g \in Frames : Genuine(g) => Genuine(g)' /\ (g.exec = r => g.kind # "terminal")
  <2> TAKE g \in Frames
  <2> HAVE Genuine(g)
  <2>1. (g.exec # None => g.exec \in Runs) /\ g.seq \in Nat
    BY ConstantsOK DEF Frames
  <2>2. CASE g.exec = r
    <3>1. ~Finished(r)
      BY <1>2 DEF Finished
    <3> QED
      BY <1>2, <1>3, <1>4, <2>1, <2>2, <3>1, ConstantsOK DEF Genuine
  <2>3. CASE g.exec # r
    BY <1>2, <1>4, <1>6, <2>1, <2>3 DEF Genuine, Finished
  <2> QED
    BY <2>2, <2>3
<1>8. TableFits'
  <2>1. phase[r] \notin {"idle", "starting"}
    BY <1>1, <1>2 DEF TableFits
  <2>2. \A x \in Runs : made[x] \in Nat
    BY <1>2, Unmoved
  <2> QED
    BY <1>2, <1>3, <1>4, <2>1, <2>2, ClientTableFits
<1>9. AssignedOnce' /\ AcksAreHonest'
  BY <1>2, <1>4, DownKept
<1>10. WholeOutput'
  <2> SUFFICES ASSUME NEW x \in Runs, outcome[x] = "terminal", reliable[x]
               PROVE  /\ nextSeq[x] = made'[x]
                      /\ backend'[x] \in {"spoken", "over"} \/ x \in suppressed'
    BY <1>2 DEF WholeOutput
  <2>1. x # r
    BY <1>1, <1>2 DEF WholeOutput
  <2> QED
    BY <1>1, <1>4, <1>6, <2>1 DEF WholeOutput
<1>11. OneWorkerPerTask'
  BY <1>1, <1>2, <1>4, <1>6 DEF OneWorkerPerTask
<1>12. \A e \in Daemons : (r \in RunsOn(e) => e = d) /\ (\A g \in pending[e] : g.exec = r => e = d)
  BY <1>1, <1>5, Working, ConstantsOK DEF RunsOn, AtHome
<1>13. \A x \in Runs : nextSeq[x] \in Nat /\ made[x] \in Nat
  BY <1>2, Unmoved
<1>19. ASSUME \A e, x \in Daemons, u \in Tasks : \A h \in pending'[e] : h.exec = inflight[x][u] => e = x
      PROVE  AtHome'
  <2>1. \A e \in Daemons, u \in Tasks : inflight[e][u] # None =>
          taskOf[inflight[e][u]] = u /\ backend'[inflight[e][u]] # "none"
    <3> TAKE e \in Daemons, u \in Tasks
    <3> HAVE inflight[e][u] # None
    <3>1. inflight[e][u] \in Runs /\ taskOf[inflight[e][u]] = u /\ backend[inflight[e][u]] # "none"
      BY <1>1, Working
    <3> QED
      BY <1>4, <3>1
  <2>2. \A e, x \in Daemons, u \in Tasks : inflight[e][u] # None /\ inflight[e][u] = inflight[x][u] => e = x
    BY <1>1 DEF AtHome
  <2> QED
    BY <1>2, <1>19, <2>1, <2>2 DEF AtHome
(* It suffices to look at what is retained, and what is on its way. *)
<1>14. ASSUME end' \in [Sockets -> {"idle", "open", "flushing", "closing", "closed"}],
              Upset \/ UNCHANGED upsets, pending' \in [Daemons -> SUBSET Frames],
              \A e \in Daemons : IsFiniteSet(pending'[e]),
              AtHome', RetainedWhole',
              up' \in [Sockets -> Seq(Frames)], FramesGenuine', UpOrdered', UpCarries'
       PROVE  ReplayIInv'
  <2>1. /\ owner' \in [Sockets -> Daemons \cup {None}] /\ ws' \in [Daemons -> Sockets \cup {None}]
        /\ replayReady' \in [Daemons -> BOOLEAN] /\ down' \in [Sockets -> Seq(DownFrames)]
        /\ inflight' \in [Daemons -> [Tasks -> Runs \cup {None}]]
    BY <1>1, <1>2 DEF ReplayTypeOK
  <2> QED
    BY <1>2, <1>4, <1>6, <1>8, <1>9, <1>10, <1>11, <1>14, <2>1, ClientMoves
<1>15. CASE ~reliable[r] /\ Transmit(d, <<f>>) /\ UNCHANGED <<end, pending, suppressed, upsets>>
  <2>1. f \in Frames /\ f.exec = None /\ f.kind = kind
    BY <1>3, <1>5, <1>15 DEF Frames
  <2>2. Genuine(f)'
    BY <2>1 DEF Genuine
  <2>3. AtHome'
    BY <1>1, <1>15, <1>19 DEF AtHome
  <2>4. RetainedWhole'
    <3>1. ASSUME NEW e \in Daemons, NEW g \in pending[e] PROVE made'[g.exec] = made[g.exec]
      BY <1>1, <1>4, <1>15, <3>1, Retained
    <3>2. \A x \in Runs : reliable[x] => made'[x] = made[x]
      BY <1>4, <1>15
    <3> QED
      BY <1>1, <1>2, <1>15, <3>1, <3>2 DEF RetainedWhole, Keeps, Holds, RunsOn
  <2>5. up' \in [Sockets -> Seq(Frames)] /\ FramesGenuine' /\ UpOrdered' /\ UpCarries'
    <3>1. \A e \in Daemons : Streaming(e)' => Streaming(e)
      BY <1>2, <1>15 DEF Streaming, Writable
    <3>2. <<f>> \in {<<>>, <<f>>} /\ ~Due(f)
      BY <2>1 DEF Due
    <3> QED
      BY <1>2, <1>7, <1>15, <2>1, <2>2, <3>1, <3>2, EmitWrites
  <2> QED
    BY <1>1, <1>14, <1>15, <2>3, <2>4, <2>5 DEF ReplayTypeOK
<1>16. ASSUME reliable[r]
       PROVE  /\ f \in Frames /\ f.exec = r /\ f.seq = k /\ f.kind = kind /\ f.task = t
              /\ \A g : g = [f EXCEPT !.kind = "terminal"] =>
                   g \in Frames /\ g.exec = r /\ g.seq = k /\ g.kind = "terminal" /\ g.task = t
              /\ Streaming(d) /\ bindings[t] = r /\ k > nextSeq[r] =>
                   Carries(ws[d], Len(up[ws[d]]), r, k - 1)
  <2>1. f \in Frames /\ f.exec = r /\ f.seq = k /\ f.kind = kind /\ f.task = t
    BY <1>3, <1>5, <1>16 DEF Frames
  <2>2. \A g : g = [f EXCEPT !.kind = "terminal"] =>
          g \in Frames /\ g.exec = r /\ g.seq = k /\ g.kind = "terminal" /\ g.task = t
    BY <2>1 DEF Frames
  <2>3. Streaming(d) /\ bindings[t] = r /\ k > nextSeq[r] =>
          Carries(ws[d], Len(up[ws[d]]), r, k - 1)
    BY <1>2, <1>16, NextIsOrdered
  <2> QED
    BY <2>1, <2>2, <2>3
<1>17. CASE /\ reliable[r] /\ pending' = [pending EXCEPT ![d] = @ \cup {f}]
            /\ Transmit(d, IF replayReady[d] THEN <<f>> ELSE <<>>)
            /\ UNCHANGED <<end, suppressed, upsets>>
  <2>1. /\ pending' \in [Daemons -> SUBSET Frames] /\ pending'[d] = pending[d] \cup {f}
        /\ \A e \in Daemons : e # d => pending'[e] = pending[e]
        /\ \A e \in Daemons : IsFiniteSet(pending'[e])
    <3>1. f \in Frames
      BY <1>16, <1>17
    <3>2. /\ pending' \in [Daemons -> SUBSET Frames] /\ pending'[d] = pending[d] \cup {f}
          /\ \A e \in Daemons : e # d => pending'[e] = pending[e]
      BY <1>1, <1>17, <3>1 DEF ReplayTypeOK
    <3>3. \A e \in Daemons : IsFiniteSet(pending[e])
      BY <1>1 DEF ReplayTypeOK
    <3>4. IsFiniteSet(pending[d] \cup {f})
      BY <3>3, FS_AddElement
    <3> QED
      BY <3>2, <3>3, <3>4
  <2>2. Genuine(f)'
    <3>1. f.exec = r /\ f.seq = k /\ f.kind = kind /\ f.task = taskOf[r] /\ reliable[r]
      BY <1>16, <1>17
    <3> QED
      BY <1>2, <1>3, <1>4, <3>1 DEF Genuine, Finished
  <2>3. AtHome'
    <3>1. ASSUME NEW e \in Daemons, NEW x \in Daemons, NEW u \in Tasks, NEW g \in pending'[e],
                 g.exec = inflight[x][u]
          PROVE  e = x
      <4>1. CASE g \in pending[e]
        BY <1>1, <3>1, <4>1 DEF AtHome
      <4>2. CASE e = d /\ g = f
        <5>1. r \in RunsOn(x)
          BY <1>16, <1>17, <3>1, <4>2, ConstantsOK DEF RunsOn
        <5> QED
          BY <1>12, <4>2, <5>1
      <4> QED
        BY <2>1, <4>1, <4>2
    <3> QED
      BY <1>19, <3>1
  <2>4. RetainedWhole'
    <3>1. \A e \in Daemons, x \in Runs, n \in Nat : Holds(e, x, n) => Holds(e, x, n)'
      BY <2>1 DEF Holds
    <3>2. Holds(d, r, k)'
      BY <1>16, <1>17, <2>1 DEF Holds
    <3>3. ASSUME NEW e \in Daemons, NEW x \in Runs, reliable[x], Keeps(e, x)',
                 NEW n \in nextSeq[x]..(made'[x] - 1)
          PROVE  Holds(e, x, n)'
      <4>1. Keeps(e, x)
        BY <1>2, <1>16, <1>17, <2>1, <3>3 DEF Keeps, RunsOn
      <4>2. CASE x # r
        BY <1>1, <1>4, <1>13, <3>1, <3>3, <4>1, <4>2 DEF RetainedWhole
      <4>3. CASE x = r
        <5>1. e = d
          BY <1>12, <4>1, <4>3 DEF Keeps
        <5>2. n = k \/ n \in nextSeq[r]..(made[r] - 1)
          BY <1>3, <1>4, <3>3, <4>3
        <5>3. CASE n \in nextSeq[r]..(made[r] - 1)
          BY <1>1, <1>13, <3>1, <3>3, <4>1, <4>3, <5>3 DEF RetainedWhole
        <5> QED
          BY <3>2, <4>3, <5>1, <5>2, <5>3
      <4> QED
        BY <4>2, <4>3
    <3>4. ASSUME NEW e \in Daemons, NEW g \in pending'[e], NEW n \in g.seq..(made'[g.exec] - 1)
          PROVE  Holds(e, g.exec, n)'
      <4>1. CASE g \in pending[e]
        <5>1. g.exec \in Runs /\ g.seq \in Nat /\ g.seq < made[g.exec]
          BY <1>1, <4>1, Retained
        <5>2. n \in Nat /\ ((g.exec = r /\ n = k) \/ n \in g.seq..(made[g.exec] - 1))
          BY <1>3, <1>4, <1>13, <3>4, <5>1
        <5>3. CASE n \in g.seq..(made[g.exec] - 1)
          BY <1>1, <3>1, <4>1, <5>1, <5>2, <5>3 DEF RetainedWhole
        <5>4. CASE g.exec = r /\ n = k
          BY <1>12, <3>2, <4>1, <5>4
        <5> QED
          BY <5>2, <5>3, <5>4
      <4>2. CASE e = d /\ g = f
        <5>1. g.exec = r /\ n = k
          BY <1>3, <1>4, <1>16, <1>17, <3>4, <4>2
        <5> QED
          BY <3>2, <4>2, <5>1
      <4> QED
        BY <2>1, <4>1, <4>2
    <3>5. ASSUME NEW e \in Daemons, NEW g \in pending'[e], NEW h \in pending'[e],
                 g.exec = h.exec, g.seq = h.seq
          PROVE  g = h
      <4>1. \A x \in pending[e] : ~(x.exec = r /\ x.seq = k)
        BY <1>1, <1>3, Retained
      <4> QED
        BY <1>1, <1>16, <1>17, <2>1, <3>5, <4>1 DEF RetainedWhole
    <3> QED
      BY <1>2, <3>3, <3>4, <3>5 DEF RetainedWhole
  <2>5. up' \in [Sockets -> Seq(Frames)] /\ FramesGenuine' /\ UpOrdered' /\ UpCarries'
    <3> PICK q \in {<<>>, <<f>>} : q = IF replayReady[d] THEN <<f>> ELSE <<>>
      OBVIOUS
    <3>1. \A e \in Daemons : Streaming(e)' => Streaming(e)
      BY <1>2, <1>17 DEF Streaming, Writable
    <3>2. /\ Transmit(d, q) /\ (replayReady[d] => q = <<f>>)
          /\ q = <<f>> => replayReady[d]
      BY <1>17
    <3>3. q = <<f>> /\ Writable(d) /\ ready[ws[d]] # "closed" /\ Due(f) /\ f.seq > nextSeq[f.exec]
            => Carries(ws[d], Len(up[ws[d]]), f.exec, f.seq - 1)
      BY <1>16, <1>17, <3>2 DEF Streaming, Due
    <3>4. \A e \in Daemons : \A g \in pending'[e] :
            \/ g \in pending[e]
            \/ e = d /\ g = f /\ f.exec # None /\ (replayReady[d] => q = <<f>> /\ Transmit(d, q))
      BY <1>16, <1>17, <2>1, <3>2, ConstantsOK
    <3> QED
      BY <1>2, <1>7, <1>16, <1>17, <2>2, <3>1, <3>2, <3>3, <3>4, EmitWrites
  <2> QED
    BY <1>1, <1>14, <1>17, <2>1, <2>3, <2>4, <2>5 DEF ReplayTypeOK
<1>18. CASE /\ reliable[r] /\ (Upset \/ UNCHANGED upsets)
            /\ suppressed' = suppressed \cup {r}
            /\ pending' = [pending EXCEPT ![d] = Without(d, {r})]
            /\ IF replayReady[d] /\ Writable(d)
               THEN /\ Transmit(d, <<[f EXCEPT !.kind = "terminal"]>>)
                    /\ end' = [end EXCEPT ![ws[d]] = "flushing"]
               ELSE Terminate(d) /\ UNCHANGED up
  <2> PICK g : g = [f EXCEPT !.kind = "terminal"]
    OBVIOUS
  <2>1. /\ pending' \in [Daemons -> SUBSET Frames] /\ pending'[d] = Without(d, {r})
        /\ \A e \in Daemons : pending'[e] \subseteq pending[e]
        /\ \A e \in Daemons : \A h \in pending'[e] : h.exec # r
        /\ \A e \in Daemons : \A h \in pending[e] : h.exec # r => h \in pending'[e]
        /\ \A e \in Daemons : IsFiniteSet(pending'[e])
    <3>1. /\ pending' \in [Daemons -> SUBSET Frames] /\ pending'[d] = Without(d, {r})
          /\ \A e \in Daemons : e # d => pending'[e] = pending[e]
      BY <1>1, <1>18 DEF ReplayTypeOK, Without
    <3>2. \A e \in Daemons : \A h \in pending'[e] : h \in pending[e] /\ h.exec # r
      BY <1>12, <3>1 DEF Without
    <3>3. \A e \in Daemons : \A h \in pending[e] : h.exec # r => h \in pending'[e]
      BY <3>1 DEF Without
    <3>4. \A e \in Daemons : IsFiniteSet(pending'[e])
      BY <1>1, <3>2, FS_Subset DEF ReplayTypeOK
    <3> QED
      BY <3>1, <3>2, <3>3, <3>4
  <2>2. /\ g \in Frames /\ g.exec = r /\ g.seq = k /\ g.kind = "terminal" /\ g.task = t
    BY <1>16, <1>18
  <2>3. Genuine(g)'
    BY <1>2, <1>3, <1>4, <1>18, <2>2 DEF Genuine, Finished
  <2>4. AtHome'
    <3>1. \A e, x \in Daemons, u \in Tasks : \A h \in pending'[e] : h.exec = inflight[x][u] => e = x
      BY <1>1, <2>1 DEF AtHome
    <3> QED
      BY <1>19, <3>1
  <2>5. RetainedWhole'
    <3>1. \A e \in Daemons, x \in Runs, n \in Nat : x # r /\ Holds(e, x, n) => Holds(e, x, n)'
      BY <2>1 DEF Holds
    <3>2. ASSUME NEW e \in Daemons, NEW x \in Runs, reliable[x], Keeps(e, x)',
                 NEW n \in nextSeq[x]..(made'[x] - 1)
          PROVE  Holds(e, x, n)'
      <4>1. x # r /\ Keeps(e, x)
        BY <1>2, <1>18, <2>1, <3>2 DEF Keeps, RunsOn
      <4>2. n \in Nat /\ n \in nextSeq[x]..(made[x] - 1)
        BY <1>4, <1>13, <3>2, <4>1
      <4> QED
        BY <1>1, <3>1, <3>2, <4>1, <4>2 DEF RetainedWhole
    <3>3. ASSUME NEW e \in Daemons, NEW h \in pending'[e], NEW n \in h.seq..(made'[h.exec] - 1)
          PROVE  Holds(e, h.exec, n)'
      <4>1. h \in pending[e] /\ h.exec \in Runs /\ h.exec # r /\ h.seq \in Nat
        BY <1>1, <2>1, <3>3, Retained
      <4>2. n \in Nat /\ n \in h.seq..(made[h.exec] - 1)
        BY <1>4, <1>13, <3>3, <4>1
      <4> QED
        BY <1>1, <3>1, <4>1, <4>2 DEF RetainedWhole
    <3>4. \A e \in Daemons : \A x, h \in pending'[e] : x.exec = h.exec /\ x.seq = h.seq => x = h
      BY <1>1, <2>1 DEF RetainedWhole
    <3> QED
      BY <1>2, <3>2, <3>3, <3>4 DEF RetainedWhole
  <2>6. /\ end' \in [Sockets -> {"idle", "open", "flushing", "closing", "closed"}]
        /\ \A x \in Sockets : \/ end'[x] = end[x]
                              \/ end'[x] = "closing"
                              \/ end[x] \in {"open", "flushing"}
    BY <1>1, <1>18 DEF ReplayTypeOK, Terminate, Writable
  <2>7. up' \in [Sockets -> Seq(Frames)] /\ FramesGenuine' /\ UpOrdered' /\ UpCarries'
    <3>1. \A e \in Daemons : Streaming(e)' => Streaming(e)
      BY <1>1, <1>2, <2>6 DEF Streaming, Writable, ReplayTypeOK
    <3>2. \A e \in Daemons : \A h \in pending'[e] : h \in pending[e]
      BY <2>1
    <3>3. CASE replayReady[d] /\ Writable(d) /\ Transmit(d, <<g>>)
      <4>1. Writable(d) /\ ready[ws[d]] # "closed" /\ Due(g) /\ g.seq > nextSeq[g.exec]
              => Carries(ws[d], Len(up[ws[d]]), g.exec, g.seq - 1)
        BY <1>16, <1>18, <2>2, <3>3 DEF Streaming, Due
      <4>2. <<g>> \in {<<>>, <<g>>}
        OBVIOUS
      <4> QED
        BY <1>2, <1>7, <2>2, <2>3, <3>1, <3>2, <3>3, <4>1, <4>2, EmitWrites
    <3>4. CASE UNCHANGED up
      <4>1. <<>> \in {<<>>, <<g>>} /\ <<>> # <<g>>
        OBVIOUS
      <4> QED
        BY <1>2, <1>7, <2>2, <2>3, <3>1, <3>2, <3>4, <4>1, EmitWrites
    <3> QED
      BY <1>18, <3>3, <3>4
  <2> QED
    BY <1>14, <1>18, <2>1, <2>4, <2>5, <2>6, <2>7
<1> QED
  BY <1>15, <1>17, <1>18 DEF Emit

-----------------------------------------------------------------------------
(* ReplayIInv is inductive. *)

(* Nothing is made, sent or retained at first. *)
LEMMA ReplayInitInvariant == ReplayInit => ReplayIInv
<1> SUFFICES ASSUME ReplayInit PROVE ReplayIInv
  OBVIOUS
<1>1. IInv
  BY InitInvariant DEF ReplayInit
<1>2. ReplayTypeOK
  <2>1. TypeOK
    BY <1>1 DEF IInv
  <2>2. \A d \in Daemons : IsFiniteSet(pending[d])
    BY FS_EmptySet DEF ReplayInit
  <2> QED
    BY <2>1, <2>2, ReplayConstantsOK, ConstantsOK DEF ReplayInit, ReplayTypeOK
<1>3. /\ \A s \in Sockets : DOMAIN up[s] = {} /\ DOMAIN down[s] = {} /\ ~authed[s]
      /\ \A d \in Daemons : ws[d] = None /\ pending[d] = {} /\ ~replayReady[d]
      /\ \A d \in Daemons, t \in Tasks : inflight[d][t] = None
      /\ \A r \in Runs : /\ made[r] = 0 /\ nextSeq[r] = 0 /\ backend[r] = "none" /\ outcome[r] = "open"
                         /\ phase[r] = "idle"
  BY DEF ReplayInit, Init
<1>4. TableFits /\ AssignedOnce /\ FramesGenuine /\ UpOrdered /\ UpCarries
  BY <1>3 DEF TableFits, AssignedOnce, Assigns, FramesGenuine, UpOrdered, UpCarries, Streaming
<1>5. AtHome
  BY <1>3 DEF AtHome
<1>6. RetainedWhole
  BY <1>3 DEF RetainedWhole, Keeps, RunsOn
<1>7. OutputIsWhole
  BY <1>3 DEF OutputIsWhole, WholeOutput, AcksAreHonest, OneWorkerPerTask, Range
<1> QED
  BY <1>1, <1>2, <1>4, <1>5, <1>6, <1>7 DEF ReplayIInv

(* Every step of the server, of a daemon and of the network keeps ReplayIInv. *)
THEOREM ReplayStepInvariant == ReplayIInv /\ [ReplayNext]_allVars => ReplayIInv'
<1> SUFFICES ASSUME ReplayIInv, [ReplayNext]_allVars PROVE ReplayIInv'
  OBVIOUS
<1>1. CASE ServerStep
  BY <1>1, ServerAuthenticatesKeeps, ServerHandlesKeeps, ServerCloseKeeps, ServerDispatchesKeeps,
     ServerCancelsKeeps, ServerInternalKeeps DEF ServerStep
<1>2. CASE ClientStep
  BY <1>2, ConnectKeeps, ClientCloseKeeps, ClientHandlesKeeps, CrashKeeps, EmitKeeps, ReturnKeeps,
     ExpireKeeps DEF ClientStep
<1>3. CASE UNCHANGED allVars
  <2>1. /\ UNCHANGED vars /\ UNCHANGED <<up, down, end, owner>> /\ UNCHANGED upsets
        /\ UNCHANGED <<ws, replayReady, inflight, pending, made, suppressed, backend>>
    BY <1>3 DEF allVars, netVars, clientVars
  <2>2. Quieter
    BY <2>1 DEF Quieter, Streaming, Writable
  <2>3. FramesGenuine' /\ UpOrdered' /\ UpCarries' /\ WholeOutput' /\ AtHome'
    BY <2>1, <2>2, QuieterKeeps, HomeKept
  <2>4. TableFits' /\ AssignedOnce' /\ AcksAreHonest'
    BY <2>1, ClientTableFits, DownKept, Unmoved
  <2>5. RetainedWhole' /\ OneWorkerPerTask'
    BY <2>1 DEF ReplayIInv, OutputIsWhole, RetainedWhole, Keeps, Holds, RunsOn, OneWorkerPerTask
  <2>6. /\ up' \in [Sockets -> Seq(Frames)] /\ down' \in [Sockets -> Seq(DownFrames)]
        /\ end' \in [Sockets -> {"idle", "open", "flushing", "closing", "closed"}]
        /\ owner' \in [Sockets -> Daemons \cup {None}] /\ ws' \in [Daemons -> Sockets \cup {None}]
        /\ replayReady' \in [Daemons -> BOOLEAN]
        /\ inflight' \in [Daemons -> [Tasks -> Runs \cup {None}]]
        /\ pending' \in [Daemons -> SUBSET Frames] /\ made' \in [Runs -> 0..(MaxSeq + 1)]
        /\ suppressed' \subseteq Runs /\ backend' \in [Runs -> {"none", "working", "spoken", "over"}]
    BY <2>1 DEF ReplayIInv, ReplayTypeOK
  <2> QED
    BY <2>1, <2>2, <2>3, <2>4, <2>5, <2>6, ClientMoves
<1> QED
  BY <1>1, <1>2, <1>3 DEF ReplayNext

(* For all constants, every reachable state satisfies the inductive invariant. *)
THEOREM ReplaySafety == ReplaySpec => []ReplayIInv
<1>1. ReplayInit => ReplayIInv
  BY ReplayInitInvariant
<1>2. ReplayIInv /\ [ReplayNext]_allVars => ReplayIInv'
  BY ReplayStepInvariant
<1> QED
  BY <1>1, <1>2, PTL DEF ReplaySpec

(* However connections break and replay, the gap check (bindings.ts, "sequence *)
(* gap") never fails a run of a correct client.                               *)
THEOREM GapsAreReal == ReplaySpec => []NoSpuriousGap
<1>1. ReplayIInv => NoSpuriousGap
  <2> SUFFICES ASSUME ReplayIInv, NEW s \in Sockets, up[s] # <<>>, CanReceive(s),
                      NEW h, h = Head(up[s]), h.exec # None, Broken(s, h)
               PROVE  FALSE
    BY DEF NoSpuriousGap
  <2>1. Due(h) /\ h.seq > nextSeq[h.exec]
    BY DEF Broken, Due
  <2>2. h.seq \in Nat /\ nextSeq[h.exec] \in Nat /\ h.seq <= nextSeq[h.exec]
    BY <2>1, HeadExpected
  <2> QED
    BY <2>1, <2>2
<1> QED
  BY <1>1, ReplaySafety, PTL

(* No prefix is dropped before it is accepted: what a daemon retains of a run   *)
(* is without a gap, and without a frame kept twice.                           *)
THEOREM NothingDroppedEarly == ReplaySpec => []RetainedUntilAccepted
<1>1. ReplayIInv => RetainedUntilAccepted
  <2> DEFINE mine(d, r) == {f \in pending[d] : f.exec = r}
  <2> SUFFICES ASSUME ReplayIInv, NEW d \in Daemons, NEW r \in RunsOn(d) \ suppressed, reliable[r]
               PROVE  /\ \A n \in nextSeq[r]..(made[r] - 1) : \E f \in mine(d, r) : f.seq = n
                      /\ \A f \in mine(d, r) : \A n \in f.seq..(made[r] - 1) :
                           \E g \in mine(d, r) : g.seq = n
                      /\ \A f, g \in mine(d, r) : f.seq = g.seq => f = g
    BY DEF RetainedUntilAccepted
  <2>1. ReplayTypeOK /\ AtHome /\ RetainedWhole
    BY DEF ReplayIInv
  <2>2. r \in Runs /\ Keeps(d, r)
    BY <2>1, Working DEF Keeps, RunsOn
  <2> QED
    BY <2>1, <2>2 DEF RetainedWhole, Holds
<1> QED
  BY <1>1, ReplaySafety, PTL

(* Nothing of a run's output is cut off, forgotten early or made twice over.   *)
THEOREM OutputStaysWhole == ReplaySpec => []OutputIsWhole
<1>1. ReplayIInv => OutputIsWhole
  BY DEF ReplayIInv
<1> QED
  BY <1>1, ReplaySafety, PTL

-----------------------------------------------------------------------------
(* What the steps are: of the table, and of the promise to the caller. *)

(* A step of the server is a step of the table; unless it handles a frame, it only
   gives runs up. *)
LEMMA ServerStepMoves ==
  ASSUME ReplayIInv, ServerStep
  PROVE  /\ Next /\ UNCHANGED clientVars
         /\ \/ Onward /\ GivesUp /\ UNCHANGED nextSeq
            \/ \E s \in Sockets : ServerHandles(s)
<1>1. IInv /\ TableFits /\ ReplayTypeOK /\ FramesGenuine
  BY DEF ReplayIInv
<1>2. ASSUME NEW s \in Sockets, ServerAuthenticates(s)
      PROVE  Next /\ UNCHANGED clientVars /\ Onward /\ GivesUp /\ UNCHANGED nextSeq
  BY <1>1, <1>2, AuthenticatedOnward, IdentityType DEF ServerAuthenticates, Next, ConnectionStep
<1>3. ASSUME NEW s \in Sockets, ServerClose(s)
      PROVE  Next /\ UNCHANGED clientVars /\ Onward /\ GivesUp /\ UNCHANGED nextSeq
  BY <1>1, <1>3, CloseEventOnward DEF ServerClose, Next, ConnectionStep
<1>4. ASSUME NEW s \in Sockets, ServerHandles(s)
      PROVE  Next /\ UNCHANGED clientVars
  <2>1. up[s] \in Seq(Frames) /\ up[s] # <<>>
    BY <1>1, <1>4 DEF ReplayTypeOK, ServerHandles
  <2> PICK f \in Frames : f = Head(up[s])
    BY <2>1
  <2> QED
    BY <1>4 DEF ServerHandles, Next
<1>5. ASSUME NEW r \in Runs, ServerDispatches(r)
      PROVE  Next /\ UNCHANGED clientVars /\ Onward /\ GivesUp /\ UNCHANGED nextSeq
  BY <1>1, <1>5, DispatchOnward DEF ServerDispatches, Next, RunStep
<1>6. ASSUME NEW t \in Tasks, ServerCancels(t)
      PROVE  Next /\ UNCHANGED clientVars /\ Onward /\ GivesUp /\ UNCHANGED nextSeq
  BY <1>1, <1>6, CancelOnward DEF ServerCancels, Next
<1>7. CASE ServerInternal
  BY <1>7, InternalMoves DEF ServerInternal
<1> QED
  BY <1>2, <1>3, <1>4, <1>5, <1>6, <1>7 DEF ServerStep

(* A daemon does nothing to the table but to connect. *)
LEMMA ClientStepMoves ==
  ASSUME ReplayIInv, ClientStep
  PROVE  \/ UNCHANGED vars
         \/ \E s \in Sockets : Accept(s)
<1>1. ASSUME NEW d \in Daemons, NEW s \in Sockets, Connect(d, s) PROVE Accept(s)
  BY <1>1 DEF Connect
<1>2. ASSUME NEW d \in Daemons, ClientClose(d) \/ ClientHandles(d) \/ Crash(d) PROVE UNCHANGED vars
  BY <1>2 DEF ClientClose, ClientHandles, Crash
<1>3. ASSUME NEW d \in Daemons, NEW r \in Runs,
             (\E kind \in {"output", "terminal"} : Emit(d, r, kind)) \/ Return(d, r) \/ Expire(d, r)
      PROVE  UNCHANGED vars
  BY <1>3 DEF Emit, Return, Expire
<1> QED
  BY <1>1, <1>2, <1>3 DEF ClientStep

(* TaskBindings is what the server is in it: its invariants and action          *)
(* properties hold here too.                                                   *)
THEOREM ReplayRefinesBindings == ReplaySpec => Spec
<1>1. ReplayInit => Init
  BY DEF ReplayInit
<1>2. ReplayIInv /\ [ReplayNext]_allVars => [Next]_vars
  <2> SUFFICES ASSUME ReplayIInv, [ReplayNext]_allVars PROVE [Next]_vars
    OBVIOUS
  <2>1. CASE ServerStep
    BY <2>1, ServerStepMoves
  <2>2. CASE ClientStep
    BY <2>2, ClientStepMoves DEF Next, ConnectionStep
  <2>3. CASE UNCHANGED allVars
    BY <2>3 DEF allVars
  <2> QED
    BY <2>1, <2>2, <2>3 DEF ReplayNext
<1> QED
  BY <1>1, <1>2, ReplaySafety, PTL DEF ReplaySpec, Spec

(* Whether the mapped variables of a run change. *)
LEMMA MapsStill ==
  ASSUME ReplayIInv, Onward, NEW r \in Runs, outcome'[r] = outcome[r],
         nextSeq'[r] = nextSeq[r], made'[r] = made[r]
  PROVE  /\ (IF reliable'[r] THEN made'[r] ELSE 0) = (IF reliable[r] THEN made[r] ELSE 0)
         /\ (IF reliable'[r] THEN nextSeq'[r] ELSE 0) = (IF reliable[r] THEN nextSeq[r] ELSE 0)
         /\ (IF reliable'[r] THEN outcome'[r] ELSE "open") = (IF reliable[r] THEN outcome[r] ELSE "open")
<1>1. CASE phase[r] = "idle"
  <2>1. made[r] = 0 /\ outcome[r] = "open" /\ nextSeq[r] <= made[r]
    BY <1>1 DEF ReplayIInv, TableFits
  <2>2. nextSeq[r] = 0
    BY <2>1, ConstantsOK DEF ReplayIInv, ReplayTypeOK, TypeOK
  <2> QED
    BY <2>1, <2>2
<1>2. CASE phase[r] # "idle"
  BY <1>2 DEF Onward
<1> QED
  BY <1>1, <1>2

(* Giving runs up is one of the endings that TaskDelivery allows. *)
LEMMA GivesUpDelivers ==
  ASSUME ReplayIInv, TypeOK', Onward, GivesUp, UNCHANGED <<nextSeq, made>>
  PROVE  Delivery!Next
<1> PICK R \in SUBSET Runs : R = {r \in Runs : reliable[r] /\ outcome'[r] # outcome[r]}
  OBVIOUS
<1>1. ASSUME NEW r \in Runs
      PROVE  /\ (IF reliable'[r] THEN made'[r] ELSE 0) = (IF reliable[r] THEN made[r] ELSE 0)
             /\ (IF reliable'[r] THEN nextSeq'[r] ELSE 0) = (IF reliable[r] THEN nextSeq[r] ELSE 0)
             /\ IF r \in R
                THEN /\ (IF reliable[r] THEN outcome[r] ELSE "open") = "open"
                     /\ (IF reliable'[r] THEN outcome'[r] ELSE "open") \notin {"open", "terminal"}
                ELSE (IF reliable'[r] THEN outcome'[r] ELSE "open") = (IF reliable[r] THEN outcome[r] ELSE "open")
  <2>1. CASE outcome'[r] = outcome[r]
    BY <2>1, MapsStill
  <2>2. CASE outcome'[r] # outcome[r]
    <3>1. /\ outcome[r] = "open" /\ outcome'[r] \notin {"open", "terminal"} /\ reliable'[r] = reliable[r]
      BY <2>2 DEF GivesUp, Onward
    <3> QED
      BY <3>1
  <2> QED
    BY <2>1, <2>2
<1>2. [r \in Runs |-> IF reliable'[r] THEN outcome'[r] ELSE "open"] \in [Runs -> Outcomes]
  BY DEF TypeOK, Outcomes
<1>3. Delivery!GiveUp(R)
  BY <1>1, <1>2 DEF Delivery!GiveUp
<1> QED
  BY <1>3 DEF Delivery!Next

(* The server takes a frame for the caller, and its run's terminal last.       *)
LEMMA HandlesDelivers ==
  ASSUME ReplayIInv, TypeOK', NEW s \in Sockets, ServerHandles(s)
  PROVE  [Delivery!Next]_(Delivery!vars)
<1>1. UNCHANGED clientVars /\ up[s] # <<>> /\ up[s] \in Seq(Frames) /\ 1 \in DOMAIN up[s]
  BY DEF ServerHandles, ReplayIInv, ReplayTypeOK
<1>2. IInv /\ TableFits /\ ReplayTypeOK /\ FramesGenuine
  BY DEF ReplayIInv
<1> PICK h : h = up[s][1]
  OBVIOUS
<1>3. h = Head(up[s]) /\ h \in Frames /\ Genuine(h) /\ HandleFrame(s, h)
  BY <1>1, <1>2 DEF FramesGenuine, ServerHandles
<1> PICK r : r = bindings[h.task]
  OBVIOUS
<1>4. CASE FrameRepeated(s, h) \/ FrameBroken(s, h) \/ FrameIgnored(s, h)
  BY <1>1, <1>2, <1>3, <1>4, UnacceptedOnward, GivesUpDelivers DEF clientVars
<1>5. ASSUME Accepted(s, h), CountFrame(r), UNCHANGED runVars,
             \/ UNCHANGED outcome
             \/ /\ h.kind = "terminal" /\ outcome[r] = "open" /\ outcome'[r] = "terminal"
                /\ \A x \in Runs : x # r => outcome'[x] = outcome[x]
      PROVE  [Delivery!Next]_(Delivery!vars)
  <2>1. /\ SeqOnward /\ r \in Runs
        /\ \A x \in Runs : x # r => nextSeq'[x] = nextSeq[x]
        /\ reliable[r] => h.exec = r /\ h.seq = nextSeq[r] /\ nextSeq'[r] = h.seq + 1
        /\ ~reliable[r] => nextSeq' = nextSeq
    BY <1>2, <1>3, <1>5, AcceptedCounts
  <2>2. nextSeq[r] \in Nat /\ made[r] \in Nat /\ nextSeq'[r] <= made[r]
    BY <1>2, <2>1, ConstantsOK DEF ReplayTypeOK, TypeOK, SeqOnward
  <2>3. UNCHANGED <<made, reliable>>
    BY <1>1, <1>5 DEF clientVars
  <2>4. CASE UNCHANGED outcome
    <3>1. CASE reliable[r]
      <4>1. \A x \in Runs : x # r =>
              (IF reliable'[x] THEN nextSeq'[x] ELSE 0) = (IF reliable[x] THEN nextSeq[x] ELSE 0)
        BY <2>1, <2>3
      <4>2. [x \in Runs |-> IF reliable'[x] THEN nextSeq'[x] ELSE 0]
              = [[x \in Runs |-> IF reliable[x] THEN nextSeq[x] ELSE 0] EXCEPT ![r] = nextSeq[r] + 1]
        BY <2>1, <2>3, <3>1, <4>1
      <4>3. /\ [x \in Runs |-> IF reliable[x] THEN nextSeq[x] ELSE 0][r] = nextSeq[r]
            /\ [x \in Runs |-> IF reliable[x] THEN nextSeq[x] ELSE 0][r]
                 < [x \in Runs |-> IF reliable[x] THEN made[x] ELSE 0][r]
        BY <2>1, <2>2, <3>1
      <4>4. Delivery!Take(r)
        BY <2>3, <2>4, <4>2, <4>3 DEF Delivery!Take
      <4> QED
        BY <2>1, <4>4 DEF Delivery!Next
    <3>2. CASE ~reliable[r]
      BY <2>1, <2>3, <2>4, <3>2 DEF Delivery!vars
    <3> QED
      BY <3>1, <3>2
  <2>5. CASE /\ h.kind = "terminal" /\ outcome[r] = "open"
             /\ outcome'[r] = "terminal" /\ \A x \in Runs : x # r => outcome'[x] = outcome[x]
    <3>1. CASE reliable[r]
      <4>1. nextSeq[r] + 1 = made[r] /\ nextSeq'[r] = made[r]
        BY <1>3, <2>1, <2>2, <2>5, <3>1, ConstantsOK DEF Genuine
      <4>2. \A x \in Runs : x # r =>
              (IF reliable'[x] THEN nextSeq'[x] ELSE 0) = (IF reliable[x] THEN nextSeq[x] ELSE 0)
              /\ (IF reliable'[x] THEN outcome'[x] ELSE "open") = (IF reliable[x] THEN outcome[x] ELSE "open")
        BY <2>1, <2>3, <2>5
      <4>3. [x \in Runs |-> IF reliable'[x] THEN nextSeq'[x] ELSE 0]
              = [[x \in Runs |-> IF reliable[x] THEN nextSeq[x] ELSE 0] EXCEPT ![r] = made[r]]
        BY <2>3, <3>1, <4>1, <4>2
      <4>4. [x \in Runs |-> IF reliable'[x] THEN outcome'[x] ELSE "open"]
              = [[x \in Runs |-> IF reliable[x] THEN outcome[x] ELSE "open"] EXCEPT ![r] = "terminal"]
        BY <2>3, <2>5, <3>1, <4>2
      <4>5. /\ [x \in Runs |-> IF reliable[x] THEN made[x] ELSE 0]'
                 = [x \in Runs |-> IF reliable[x] THEN made[x] ELSE 0]
            /\ [x \in Runs |-> IF reliable[x] THEN made[x] ELSE 0][r] = made[r]
            /\ [x \in Runs |-> IF reliable[x] THEN nextSeq[x] ELSE 0][r] + 1 = made[r]
            /\ [x \in Runs |-> IF reliable[x] THEN outcome[x] ELSE "open"][r] = "open"
        BY <2>1, <2>3, <2>5, <3>1, <4>1
      <4>6. Delivery!Complete(r)
        BY <4>3, <4>4, <4>5 DEF Delivery!Complete
      <4> QED
        BY <2>1, <4>6 DEF Delivery!Next
    <3>2. CASE ~reliable[r]
      BY <2>1, <2>3, <2>5, <3>2 DEF Delivery!vars
    <3> QED
      BY <3>1, <3>2
  <2> QED
    BY <1>5, <2>4, <2>5
<1>6. CASE FrameOutput(s, h)
  BY <1>5, <1>6 DEF FrameOutput
<1>7. CASE FrameTerminal(s, h)
  <2>1. /\ Accepted(s, h) /\ CountFrame(r) /\ UNCHANGED runVars /\ h.kind = "terminal"
        /\ outcome' = [x \in Runs |-> IF x = r /\ outcome[x] = "open" THEN "terminal" ELSE outcome[x]]
    BY <1>7 DEF FrameTerminal, CloseStreams
  <2>2. outcome = [x \in Runs |-> outcome[x]]
    BY <1>2 DEF IInv, TypeOK
  <2>3. CASE outcome[r] = "open"
    <3>1. r \in Runs
      BY <1>2, <1>3, <2>1, BoundIsDispatched DEF Accepted, Owned, Frames
    <3> QED
      BY <1>5, <2>1, <2>3, <3>1
  <2>4. CASE outcome[r] # "open"
    BY <1>5, <2>1, <2>2, <2>4
  <2> QED
    BY <2>3, <2>4
<1> QED
  BY <1>3, <1>4, <1>6, <1>7 DEF HandleFrame, FrameBadApproval, Genuine

(* The daemon makes one more frame of a run whose stream its terminal has not   *)
(* closed.                                                                     *)
LEMMA EmitDelivers ==
  ASSUME ReplayIInv, NEW d \in Daemons, NEW r \in Runs, NEW kind \in {"output", "terminal"},
         Emit(d, r, kind)
  PROVE  [Delivery!Next]_(Delivery!vars)
<1>1. /\ UNCHANGED <<reliable, nextSeq, outcome>> /\ made' = [made EXCEPT ![r] = @ + 1]
      /\ r \notin suppressed /\ backend[r] = "working"
  BY DEF Emit
<1>2. \A x \in Runs : made'[x] = IF x = r THEN made[r] + 1 ELSE made[x]
  BY <1>1 DEF ReplayIInv, ReplayTypeOK
<1>3. CASE reliable[r]
  <2>1. outcome[r] # "terminal"
    BY <1>1, <1>3 DEF ReplayIInv, OutputIsWhole, WholeOutput
  <2>2. Delivery!Make(r)
    BY <1>1, <1>2, <1>3, <2>1 DEF Delivery!Make
  <2> QED
    BY <2>2 DEF Delivery!Next
<1>4. CASE ~reliable[r]
  BY <1>1, <1>2, <1>4 DEF Delivery!vars
<1> QED
  BY <1>3, <1>4

(* docs/design.md 4.1, for every reliable run: the caller's view is one ordered *)
(* and complete stream.                                                        *)
THEOREM EveryRunDelivers == ReplaySpec => DeliversInOrder
<1>1. ReplayInit => Delivery!Init
  BY DEF ReplayInit, Init, Delivery!Init
<1>2. ReplayIInv /\ TypeOK' /\ [ReplayNext]_allVars => [Delivery!Next]_(Delivery!vars)
  <2> SUFFICES ASSUME ReplayIInv, TypeOK', [ReplayNext]_allVars PROVE [Delivery!Next]_(Delivery!vars)
    OBVIOUS
  <2>1. CASE ServerStep
    BY <2>1, ServerStepMoves, GivesUpDelivers, HandlesDelivers DEF clientVars
  <2>2. CASE ClientStep
    <3>1. CASE UNCHANGED <<reliable, nextSeq, outcome, made>>
      BY <3>1 DEF Delivery!vars
    <3>2. CASE \E d \in Daemons, r \in Runs, kind \in {"output", "terminal"} : Emit(d, r, kind)
      BY <3>2, EmitDelivers
    <3> QED
      BY <2>2, <3>1, <3>2 DEF ClientStep, Connect, Accept, ClientClose, ClientHandles, Crash, Return, Expire
  <2>3. CASE UNCHANGED allVars
    BY <2>3 DEF allVars, clientVars, Delivery!vars
  <2> QED
    BY <2>1, <2>2, <2>3 DEF ReplayNext
<1>3. ReplayIInv => TypeOK
  BY DEF ReplayIInv, IInv
<1> QED
  BY <1>1, <1>2, <1>3, ReplaySafety, PTL DEF ReplaySpec, DeliversInOrder, Delivery!Spec

================================================================================
