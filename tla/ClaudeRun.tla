------------------------------- MODULE ClaudeRun -------------------------------
(***************************************************************************)
(* One task of the claude backend: the servers and the prompt file it      *)
(* needs, the child that works on it, the permissions the child asks for,  *)
(* the files and the tool calls it hands over, the one corrective attempt  *)
(* when it only talked about a tool, and the verdict.                      *)
(*                                                                         *)
(* Code: handle in packages/client/src/backends/claude.ts, with            *)
(* send-file-mcp.ts, caller-tools-mcp.ts and heartbeat.ts.  Which session  *)
(* the child works in is ClaudeSessions.                                   *)
(***************************************************************************)
EXTENDS Naturals, Sequences, FiniteSets, SequencesExt

CONSTANTS
  Requests,     \* ids of the control requests a child may send
  Retry,        \* claudeRetryNarratedToolCall
  Nothing


Attempts == 1..2

VARIABLES
  task,         \* what the task needs
  pc,           \* where handle() is
  signal,       \* the caller has cancelled
  aborted,      \* and the running child has been told
  cur,          \* child: the attempt that is current, or 0
  child,        \* the processes, one per attempt
  run,          \* what handle() keeps of the stream
  exit,         \* how the current child ended
  first,        \* firstAttempt: run and exit before the retry, or Nothing
  buffer,       \* speculativeRetryArtifacts, or Nothing
  wire,         \* frames emitted; their order does not matter but for the last
  captured,     \* capturedToolCalls: the attempt of each
  staged,       \* the staged prompt file exists
  tools,        \* the task's caller-tools server is up
  tokens,       \* attempts whose send_file capability is registered
  reading,      \* send_file calls that await the file, by attempt
  sent,         \* control requests a child has sent
  asks,         \* controlRequests: of the current child
  answers,      \* control responses written: <<attempt, request>>
  due           \* the terminal frame owed, or Nothing

vars == <<task, pc, signal, aborted, cur, child, run, exit, first, buffer, wire, captured,
          staged, tools, tokens, reading, sent, asks, answers, due>>

Terminal == {"completed", "input-required", "failed", "canceled"}

Frames == [kind : {"working", "beat", "text", "file", "result"} \cup Terminal,
           by : 0..2,      \* the attempt it comes from
           calls : 0..2]   \* tool calls in its envelope

Frame(kind, by) == [kind |-> kind, by |-> by, calls |-> 0]

(* Nothing is no state of a request, and no artifacts of a second attempt.    *)
ConstantsOK ==
  /\ Retry \in BOOLEAN /\ Nothing \notin {"pending", "settled", "withdrawn"}
  /\ \A held \in SUBSET {Frame("text", 2), Frame("file", 2)} : held # Nothing

Runs == [art : BOOLEAN,        \* emittedAnyArtifact
         asked : BOOLEAN,      \* emittedAskUserQuestion, pendingInputRequest
         final : 0..2,         \* finalText: the attempt it is from, 0 for none
         narrated : BOOLEAN,   \* and whether it describes a call
         completed : BOOLEAN,  \* sawCompletedResult
         error : BOOLEAN,      \* sawErrorResult
         used : BOOLEAN,       \* emittedToolUseCount > 0
         stained : BOOLEAN]    \* stderrTail is not empty, or stdinError

Ended == pc = "done"
Settled == pc \in {"closing", "done"}   \* settled
Living(a) == a # 0 /\ child[a].state = "alive"
Attached == pc = "running" /\ Living(cur)

(* A child is current only while it is the last one that was started.         *)
TypeOK ==
  /\ task \in [native : BOOLEAN, staged : BOOLEAN, files : BOOLEAN]
  /\ pc \in {"queued", "mapping", "servers", "running", "closing", "done"}
  /\ signal \in BOOLEAN /\ aborted \in BOOLEAN /\ (aborted => signal)
  /\ child \in [Attempts -> [state : {"none", "alive", "exited", "gone"}, killed : BOOLEAN,
                             told : BOOLEAN,     \* it has sent its result
                             stdin : BOOLEAN]]   \* its stdin is open
  /\ cur = Cardinality({a \in Attempts : child[a].state # "none"})
  /\ run \in Runs
  /\ exit \in {Nothing, "zero", "nonzero", "error"}
  /\ (first = Nothing) = (cur < 2)
  /\ buffer = Nothing \/ buffer \subseteq Frames
  /\ wire \subseteq Frames
  /\ captured \in Seq(Attempts)
  /\ staged \in BOOLEAN /\ tools \in BOOLEAN
  /\ tokens \subseteq Attempts /\ reading \subseteq Attempts
  /\ sent \in [Attempts -> SUBSET Requests]
  /\ asks \in [Requests -> {Nothing, "pending", "settled", "withdrawn"}]
  /\ answers \subseteq Attempts \X Requests
  /\ due \in Frames \cup {Nothing}

Idle == [state |-> "none", killed |-> FALSE, told |-> FALSE, stdin |-> FALSE]
NewChild == [state |-> "alive", killed |-> FALSE, told |-> FALSE, stdin |-> TRUE]
NewRun == [art |-> FALSE, asked |-> FALSE, final |-> 0, narrated |-> FALSE,
           completed |-> FALSE, error |-> FALSE, used |-> FALSE, stained |-> FALSE]

(* A task with caller tools always has a prompt of its own.                   *)
Init ==
  /\ task \in {f \in [native : BOOLEAN, staged : BOOLEAN, files : BOOLEAN] : f.native => f.staged}
  /\ pc = "queued" /\ signal = FALSE /\ aborted = FALSE /\ cur = 0
  /\ child = [a \in Attempts |-> Idle]
  /\ run = NewRun /\ exit = Nothing /\ first = Nothing /\ buffer = Nothing
  /\ wire = {} /\ captured = <<>>
  /\ staged = FALSE /\ tools = FALSE /\ tokens = {} /\ reading = {}
  /\ sent = [a \in Attempts |-> {}] /\ asks = [r \in Requests |-> Nothing]
  /\ answers = {} /\ due = Nothing

Streams == <<run, exit, first, buffer, captured, reading, sent, asks, answers>>

(* emitArtifactFrame: held back while the attempt is speculative.             *)
EmitArtifact(frame) ==
  IF buffer = Nothing
  THEN wire' = wire \cup {frame} /\ UNCHANGED buffer
  ELSE buffer' = buffer \cup {frame} /\ UNCHANGED wire

---------------------------------------------------------------------------
(* Before the child.                                                          *)

(* handle(): a task cancelled before its turn is answered at once.            *)
Begin ==
  /\ pc = "queued"
  /\ IF signal THEN pc' = "done" /\ wire' = wire \cup {Frame("canceled", 0)}
               ELSE pc' = "mapping" /\ UNCHANGED wire
  /\ UNCHANGED <<task, signal, aborted, cur, child, staged, tools, tokens, due, Streams>>

(* The parts are mapped, or a part is no good, or there is nothing to say.    *)
Mapped ==
  /\ pc = "mapping"
  /\ \/ pc' = "servers" /\ UNCHANGED wire
     \/ pc' = "done" /\ wire' = wire \cup {Frame("failed", 0)}
  /\ UNCHANGED <<task, signal, aborted, cur, child, staged, tools, tokens, due, Streams>>

(* The send_file server cannot be reached: the task does without.             *)
FilesUnavailable ==
  /\ pc = "servers" /\ task.files
  /\ task' = [task EXCEPT !.files = FALSE]
  /\ UNCHANGED <<pc, signal, aborted, cur, child, wire, staged, tools, tokens, due, Streams>>

(* The caller-tools server cannot: the task fails.                            *)
ToolsFail ==
  /\ pc = "servers" /\ task.native
  /\ pc' = "done" /\ wire' = wire \cup {Frame("failed", 0)}
  /\ UNCHANGED <<task, signal, aborted, cur, child, staged, tools, tokens, due, Streams>>

(* The prompt cannot be staged or the child not spawned: what was set up goes *)
(* before the task fails.                                                     *)
LaunchFails ==
  /\ pc = "servers"
  /\ pc' = "closing" /\ due' = Frame("failed", 0)
  /\ wire' = wire \cup {Frame("working", 0)}
  /\ tools' = task.native
  /\ UNCHANGED <<task, signal, aborted, cur, child, staged, tokens, Streams>>

(* The spawned child has no stdin: it is killed and not waited for.           *)
LaunchMute ==
  /\ pc = "servers"
  /\ pc' = "closing" /\ due' = Frame("failed", 0)
  /\ wire' = wire \cup {Frame("working", 0)}
  /\ tools' = task.native
  /\ cur' = 1
  /\ child' = [child EXCEPT ![1] = [NewChild EXCEPT !.killed = TRUE, !.stdin = FALSE]]
  /\ UNCHANGED <<task, signal, aborted, staged, tokens, Streams>>

(* The prompt is staged, the child spawned and given its message, its file    *)
(* capability registered; an abort that has come meanwhile kills it.          *)
Launch ==
  /\ pc = "servers"
  /\ pc' = "running"
  /\ wire' = wire \cup {Frame("working", 0)}
  /\ tools' = task.native /\ staged' = task.staged
  /\ cur' = 1
  /\ aborted' = signal
  /\ tokens' = IF task.files /\ ~signal THEN {1} ELSE {}
  /\ child' = [child EXCEPT ![1] = [NewChild EXCEPT !.killed = signal]]
  /\ UNCHANGED <<task, signal, due, Streams>>

---------------------------------------------------------------------------
(* The child's stream: handleEvent.                                           *)

Held == <<task, pc, signal, aborted, cur, staged, tools, due, exit, first>>

From(a, kind) == Frame(kind, a) \in wire
Buffered(kind) == buffer # Nothing /\ \E f \in buffer : f.kind = kind

(* Text of the model, streamed or whole, reasoning, traces.                   *)
Text ==
  /\ Attached /\ ~child[cur].told /\ ~run.asked
  /\ ~From(cur, "text") /\ ~Buffered("text")
  /\ EmitArtifact(Frame("text", cur))
  /\ run' = [run EXCEPT !.art = TRUE]
  /\ UNCHANGED <<Held, child, captured, tokens, reading, sent, asks, answers>>

(* A tool call of the model in its message.                                   *)
ToolUse ==
  /\ Attached /\ ~child[cur].told /\ ~run.asked /\ ~run.used
  /\ run' = [run EXCEPT !.used = TRUE]
  /\ UNCHANGED <<Held, child, wire, buffer, captured, tokens, reading, sent, asks, answers>>

(* AskUserQuestion: the question ends the turn, and so does stdin.  A task    *)
(* with the openai extension runs without the built-in tools.                 *)
Ask ==
  /\ Attached /\ ~child[cur].told /\ ~run.asked /\ ~task.native /\ child[cur].stdin
  /\ run' = [run EXCEPT !.used = TRUE, !.asked = TRUE]
  /\ child' = [child EXCEPT ![cur].stdin = FALSE]
  /\ UNCHANGED <<Held, wire, buffer, captured, tokens, reading, sent, asks, answers>>

(* The result event: how the turn ended, its text, which may only describe a  *)
(* call, and the end of stdin.                                                *)
Result ==
  /\ Attached /\ ~child[cur].told
  /\ \E completed \in BOOLEAN, error \in BOOLEAN, narrated \in BOOLEAN :
       run' = [run EXCEPT !.final = IF run.asked THEN @ ELSE cur,
                          !.narrated = IF run.asked THEN @ ELSE narrated,
                          !.completed = @ \/ completed, !.error = @ \/ error]
  /\ child' = [child EXCEPT ![cur].told = TRUE, ![cur].stdin = FALSE]
  /\ UNCHANGED <<Held, wire, buffer, captured, tokens, reading, sent, asks, answers>>

Complains ==
  /\ Attached
  /\ ~run.stained /\ run' = [run EXCEPT !.stained = TRUE]
  /\ UNCHANGED <<Held, child, wire, buffer, captured, tokens, reading, sent, asks, answers>>

(* onInvoke: a call of a caller's tool, which the model has announced, is     *)
(* captured for the envelope.                                                 *)
Invoke ==
  /\ Attached /\ tools /\ run.used /\ Len(SelectSeq(captured, LAMBDA a : a = cur)) = 0
  /\ captured' = Append(captured, cur)
  /\ UNCHANGED <<Held, child, run, wire, buffer, tokens, reading, sent, asks, answers>>

(* performSendFile: a registered capability starts to read.                   *)
SendFile ==
  /\ \E a \in tokens : Living(a) /\ a \notin reading /\ ~From(a, "file") /\ ~Buffered("file")
                       /\ reading' = reading \cup {a}
  /\ UNCHANGED <<Held, child, run, wire, buffer, captured, tokens, sent, asks, answers>>

(* performSendFile: the file is read.  A capability revoked meanwhile         *)
(* delivers nothing.                                                          *)
FileRead ==
  /\ \E a \in reading :
       /\ reading' = reading \ {a}
       /\ \/ /\ a \in tokens
             /\ EmitArtifact(Frame("file", a)) /\ run' = [run EXCEPT !.art = TRUE]
          \/ UNCHANGED <<run, wire, buffer>>
  /\ UNCHANGED <<Held, child, captured, tokens, sent, asks, answers>>

---------------------------------------------------------------------------
(* Permissions the child asks for.                                            *)

(* control_request: put to the operator, unless its id is known.              *)
Control ==
  /\ Attached /\ ~child[cur].told
  /\ \E r \in Requests \ sent[cur] :
       /\ sent' = [sent EXCEPT ![cur] = @ \cup {r}]
       /\ asks' = [asks EXCEPT ![r] = IF @ # Nothing THEN @
                                      ELSE IF signal THEN "settled" ELSE "pending"]
  /\ UNCHANGED <<Held, child, run, wire, buffer, captured, tokens, reading, answers>>

(* control_cancel_request: the child takes it back.                           *)
Withdraw ==
  /\ Attached
  /\ \E r \in sent[cur] :
       /\ asks[r] = "pending"
       /\ asks' = [asks EXCEPT ![r] = "withdrawn"]
  /\ UNCHANGED <<Held, child, run, wire, buffer, captured, tokens, reading, sent, answers>>

(* The decision, or its time-out, is written to the child that asked; a       *)
(* child whose stdin was ended meanwhile makes it a stdin error.              *)
Decide ==
  /\ \E r \in Requests :
       /\ asks[r] = "pending"
       /\ asks' = [asks EXCEPT ![r] = "settled"]
       /\ IF child[cur].stdin THEN answers' = answers \cup {<<cur, r>>} /\ UNCHANGED run
                              ELSE run' = [run EXCEPT !.stained = TRUE] /\ UNCHANGED answers
  /\ UNCHANGED <<Held, child, wire, buffer, captured, tokens, reading, sent>>

(* What is still asked when its child closes or the task is cancelled is      *)
(* denied and not written.                                                    *)
Dropped == [r \in Requests |-> IF asks[r] = "pending" THEN "settled" ELSE asks[r]]

---------------------------------------------------------------------------
(* The end of a child, the corrective attempt, the verdict.                   *)

(* treatExitAsSuccess, its second half.                                       *)
CompletedAnyway(r, e) ==
  e = "nonzero" /\ r.completed /\ ~r.error /\ ~r.stained

(* The verdict from what the stream left, the exit and the captured calls.    *)
Verdict(r, e, calls) ==
  IF aborted THEN Frame("canceled", 0)
  ELSE IF e = "error" \/ (e = "nonzero" /\ calls = 0 /\ ~CompletedAnyway(r, e))
       THEN Frame("failed", 0)
  ELSE IF r.asked THEN Frame("input-required", 0)
  ELSE [kind |-> "completed", by |-> r.final, calls |-> calls]

(* Everything the task holds is given back; the frames that are still to go   *)
(* out, and the terminal one.  A turn that streamed nothing sends its result. *)
Settle(r, e, out) ==
  LET verdict == Verdict(r, e, Len(captured))
      result == verdict.kind = "completed" /\ ~r.art /\ r.final # 0 IN
  /\ pc' = "closing"
  /\ run' = r /\ exit' = e
  /\ staged' = FALSE /\ tokens' = {}
  /\ buffer' = Nothing
  /\ wire' = wire \cup out \cup (IF result THEN {Frame("result", r.final)} ELSE {})
  /\ due' = verdict
  /\ UNCHANGED <<task, signal, aborted, captured, tools, reading, sent, answers>>

(* shouldRetryNarratedToolCall, and what it depends on.                       *)
Narrated(e) ==
  /\ Retry /\ cur = 1 /\ ~aborted /\ task.native /\ ~run.used
  /\ run.completed /\ ~run.error /\ run.narrated /\ e # "error"

FirstWouldSucceed(r, e) == e = "zero" \/ CompletedAnyway(r, e)

(* The corrective child: what is known of the first is put aside, artifacts   *)
(* are held back, the file capability changes hands, requests are forgotten.  *)
RetryOnce(e) ==
  /\ Narrated(e)
  /\ first' = [run |-> run, exit |-> e]
  /\ buffer' = {}
  /\ cur' = 2
  /\ child' = [child EXCEPT ![1].state = "gone", ![1].stdin = FALSE, ![2] = NewChild]
  /\ tokens' = IF task.files THEN {2} ELSE {}
  /\ exit' = e
  /\ asks' = [r \in Requests |-> Nothing]
  /\ UNCHANGED <<task, pc, signal, aborted, run, wire, captured, staged, tools, reading, sent,
                 answers, due>>

(* It cannot be spawned: the first attempt stands.                            *)
RetryFails(e) ==
  /\ Narrated(e)
  /\ child' = [child EXCEPT ![1].state = "gone", ![1].stdin = FALSE]
  /\ asks' = Dropped
  /\ Settle(run, e, {})
  /\ UNCHANGED <<cur, first>>

(* With a bug: a retry that captured nothing still replaces the first.        *)
SettleRetryKept(e) ==
  /\ cur = 2
  /\ child' = [child EXCEPT ![2].state = "gone", ![2].stdin = FALSE]
  /\ asks' = Dropped
  /\ Settle(run, e, buffer)
  /\ UNCHANGED <<cur, first>>

(* The retry is over.  Without a captured call a first attempt that would     *)
(* have succeeded is restored, and what the retry said is dropped; else the   *)
(* retry stands and its artifacts go out.                                     *)
SettleRetry(e) ==
  /\ cur = 2
  /\ child' = [child EXCEPT ![2].state = "gone", ![2].stdin = FALSE]
  /\ asks' = Dropped
  /\ IF ~Contains(captured, 2) /\ FirstWouldSucceed(first.run, first.exit)
     THEN Settle(first.run, first.exit, {})
     ELSE Settle(run, e, buffer)
  /\ UNCHANGED <<cur, first>>

SettleOnly(e) ==
  /\ cur = 1 /\ ~Narrated(e)
  /\ child' = [child EXCEPT ![1].state = "gone", ![1].stdin = FALSE]
  /\ asks' = Dropped
  /\ Settle(run, e, {})
  /\ UNCHANGED <<cur, first>>

(* A child that waits for an answer does not end by itself.                   *)
MayEnd(a) ==
  \/ child[a].killed \/ ~child[a].stdin
  \/ \A r \in sent[a] : asks[r] = "withdrawn" \/ <<a, r>> \in answers

Closed(e) == RetryOnce(e) \/ RetryFails(e) \/ SettleRetry(e) \/ SettleOnly(e)

(* close: the child and its streams are at their end.                         *)
Closes ==
  /\ pc = "running" /\ child[cur].state \in {"alive", "exited"} /\ MayEnd(cur)
  /\ \E e \in {"zero", "nonzero"} : Closed(e)

(* error: the spawned child never came to life.                               *)
Errs ==
  /\ Attached /\ ~child[cur].told /\ sent[cur] = {} /\ cur \notin reading
  /\ ~Contains(captured, cur) /\ ~From(cur, "text") /\ ~Buffered("text")
  /\ ~From(cur, "file") /\ ~Buffered("file")
  /\ cur = 1 => run = NewRun
  /\ SettleRetry("error") \/ SettleOnly("error")

(* exit: the process is gone, its streams not yet; its capability goes.       *)
Exits ==
  /\ Attached /\ child[cur].told
  /\ child' = [child EXCEPT ![cur].state = "exited"]
  /\ tokens' = tokens \ {cur}
  /\ UNCHANGED <<Held, run, wire, buffer, captured, reading, sent, asks, answers>>

(* A child that was not waited for.                                           *)
Gone ==
  /\ Settled /\ Living(cur)
  /\ child' = [child EXCEPT ![cur].state = "gone"]
  /\ UNCHANGED <<Held, wire, Streams, tokens>>

(* The caller cancels: onAbort kills the child and takes its capability; what *)
(* it asked is denied.  Once the task has settled nobody listens.             *)
Abort ==
  /\ ~signal /\ ~Ended
  /\ signal' = TRUE
  /\ aborted' = (pc = "running")
  /\ child' = IF pc = "running" THEN [child EXCEPT ![cur].killed = TRUE] ELSE child
  /\ tokens' = {}
  /\ asks' = Dropped
  /\ UNCHANGED <<task, pc, cur, run, exit, first, buffer, wire, captured, staged, tools,
                 reading, sent, answers, due>>

(* startLivenessHeartbeat: a beat while the child is silent.                  *)
Beat ==
  /\ pc = "running" /\ ~aborted
  /\ Frame("beat", 0) \notin wire
  /\ wire' = wire \cup {Frame("beat", 0)}
  /\ UNCHANGED <<task, pc, signal, aborted, cur, child, staged, tools, tokens, due, Streams>>

(* closeCallerToolsMcp, and the verdict.                                      *)
Close ==
  /\ pc = "closing"
  /\ pc' = "done"
  /\ tools' = FALSE
  /\ wire' = wire \cup {due}
  /\ due' = Nothing
  /\ UNCHANGED <<task, signal, aborted, cur, child, staged, tokens, Streams>>

---------------------------------------------------------------------------
Stream == Text \/ ToolUse \/ Ask \/ Result \/ Complains \/ Invoke
Files == SendFile \/ FileRead
Permissions == Control \/ Withdraw \/ Decide

Next ==
  \/ Begin \/ Mapped \/ FilesUnavailable \/ ToolsFail
  \/ LaunchFails \/ LaunchMute \/ Launch
  \/ Stream \/ Files \/ Permissions
  \/ Closes \/ Errs \/ Exits \/ Gone \/ Close
  \/ Abort \/ Beat

Spec == Init /\ [][Next]_vars

(* The daemon runs what is ready, an approval is decided or times out, and a  *)
(* child that waits for nothing comes to its end.                             *)
Fairness ==
  /\ WF_vars(Begin) /\ WF_vars(Mapped) /\ WF_vars(Launch) /\ WF_vars(Close)
  /\ WF_vars(Decide) /\ WF_vars(Closes)

FairSpec == Spec /\ Fairness

---------------------------------------------------------------------------
(* Properties.                                                                *)

Answers(frames) == {f \in frames : f.kind \in Terminal}

(* A task is answered with one terminal frame and nothing comes after it: no  *)
(* artifact of a late child or file, no beat.                                 *)
OneTerminal ==
  [][/\ Ended => wire' = wire
     /\ Answers(wire') = {} \/ (Ended' /\ Cardinality(Answers(wire')) = 1)]_vars

(* The corrective attempt that brought no call leaves no trace: none of its   *)
(* artifacts went out and the verdict is the one the first attempt had earned,*)
(* whatever the second did to the stream's state.                             *)
DiscardLeavesNoTrace ==
  (Ended /\ first # Nothing /\ ~aborted
     /\ FirstWouldSucceed(first.run, first.exit) /\ ~Contains(captured, 2)) =>
  /\ \A f \in wire : f.by # 2
  /\ Answers(wire) = {[kind |-> "completed", by |-> first.run.final, calls |-> 0]}

(* A call of a caller's tool that was taken from the model reaches the caller *)
(* in the verdict, with whatever code the capped child exits; only the        *)
(* caller's own cancellation outranks it.                                     *)
CallsReachCaller ==
  (Ended /\ captured # <<>>) => \A f \in Answers(wire) :
    \/ f.kind = "canceled" /\ aborted
    \/ f.kind = "completed" /\ f.calls = Len(captured)

(* A decision is written only to the child that asked, while it lives, has    *)
(* not taken the request back and the task is not cancelled.                  *)
AnswersReachAsker ==
  [][\A p \in answers' \ answers :
       /\ p[2] \in sent[p[1]] /\ asks[p[2]] # "withdrawn"
       /\ child[p[1]].state # "gone" /\ ~signal]_vars

(* A file goes out only on behalf of the child that still works: not for one  *)
(* that exited, was cancelled or was replaced while the file was read.        *)
FilesFromLiving ==
  [][\A a \in Attempts :
       (~From(a, "file") /\ ~Buffered("file") /\ (From(a, "file")' \/ Buffered("file")')) =>
       /\ pc = "running" /\ ~signal /\ child[cur].state = "alive"
       /\ cur \notin reading']_vars

(* A child finds its prompt file as long as it lives, and what a task set up  *)
(* is gone when it is answered.                                               *)
SetUpLasts ==
  /\ (pc = "running" /\ Living(cur) /\ task.staged) => staged
  /\ Ended => ~staged /\ ~tools /\ tokens = {}

(* A cancellation that came before the child was launched, or while it ran,   *)
(* decides the verdict.                                                       *)
CancelWins ==
  [][(pc = "running" /\ signal /\ pc' = "closing") => due'.kind = "canceled"]_vars
=============================================================================
