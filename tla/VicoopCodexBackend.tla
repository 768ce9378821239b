--------------------------- MODULE VicoopCodexBackend ---------------------------
(***************************************************************************)
(* The vicoop-codex backend: one local server, started for the first task  *)
(* and shared by all, and one streamed answer per task, folded into the    *)
(* final message while its pieces go out as they come.                     *)
(*                                                                         *)
(* Code: createVicoopCodexBackend, streamChatCompletions and applyChunk in *)
(* packages/client/src/backends/vicoop-codex.ts, and the calls of stop in  *)
(* cli.ts.  The server is external.                                        *)
(***************************************************************************)
EXTENDS Naturals

CONSTANTS
  Tasks,
  MaxServers,   \* bound: servers started
  Nothing

(* Nothing is no server and no verdict.                                       *)
ConstantsOK ==
  /\ MaxServers \in Nat /\ Nothing \notin 1..MaxServers
  /\ Nothing \notin {"completed", "failed", "canceled"}

VARIABLES
  serve,        \* the server in use
  promise,      \* outcome of startServe, by server
  alive,        \* servers whose process runs
  told,         \* servers sent SIGTERM
  exited,       \* the daemon has left
  pc,           \* where handle() is, by task
  at,           \* the server a task waits for or uses
  signal,       \* cancelled tasks
  said,         \* external: what the server has put into a task's stream
  acc,          \* what the accumulator holds of it
  shown,        \* what has gone out as artifacts
  failing,      \* streamError
  verdict,      \* terminal frame
  usage         \* the terminal frame carries the protocol's usage

vars == <<serve, promise, alive, told, exited, pc, at, signal, said, acc, shown, failing,
          verdict, usage>>

Server == <<serve, promise, alive, told>>
Stream == <<said, acc, shown, failing>>
Verdict == <<verdict, usage>>

Servers == 1..MaxServers
Chunks == {"text", "reasoning", "tool", "usage", "error"}
Starting == {n \in Servers : promise[n] = "pending"}       \* servePending

(* The server in use has reported and nothing of its end is known.            *)
TypeOK ==
  /\ serve \in Servers \cup {Nothing}
  /\ serve # Nothing => promise[serve] = "ok" /\ serve \in alive \ told
  /\ promise \in [Servers -> {"none", "pending", "ok", "failed"}]
  /\ alive \subseteq Servers /\ told \subseteq Servers /\ exited \in BOOLEAN
  /\ pc \in [Tasks -> {"new", "wait", "request", "stream", "done"}]
  /\ at \in [Tasks -> Servers \cup {Nothing}] /\ signal \subseteq Tasks
  /\ said \in [Tasks -> SUBSET Chunks] /\ acc \in [Tasks -> SUBSET {"text", "tool", "usage"}]
  /\ shown \in [Tasks -> SUBSET {"text", "reasoning"}] /\ failing \subseteq Tasks
  /\ verdict \in [Tasks -> {Nothing, "completed", "failed", "canceled"}]
  /\ usage \subseteq Tasks

Init ==
  /\ serve = Nothing /\ promise = [n \in Servers |-> "none"] /\ alive = {} /\ told = {}
  /\ exited = FALSE
  /\ pc = [t \in Tasks |-> "new"] /\ at = [t \in Tasks |-> Nothing] /\ signal = {}
  /\ said = [t \in Tasks |-> {}] /\ acc = [t \in Tasks |-> {}] /\ shown = [t \in Tasks |-> {}]
  /\ failing = {} /\ verdict = [t \in Tasks |-> Nothing] /\ usage = {}

Ends(t, v) ==
  /\ pc' = [pc EXCEPT ![t] = "done"] /\ at' = [at EXCEPT ![t] = Nothing]
  /\ verdict' = [verdict EXCEPT ![t] = v]

(* What has failed has been cancelled, if the signal says so.                 *)
Fails(t) == Ends(t, IF t \in signal THEN "canceled" ELSE "failed") /\ UNCHANGED usage

---------------------------------------------------------------------------
(* The server.                                                                *)

(* startServe: the process is spawned and its report awaited, or it cannot be.*)
StartServe(n) ==
  /\ promise[n] = "none" /\ \A m \in Servers : m < n => promise[m] # "none"
  /\ \/ promise' = [promise EXCEPT ![n] = "pending"] /\ alive' = alive \cup {n}
     \/ promise' = [promise EXCEPT ![n] = "failed"] /\ UNCHANGED alive
  /\ UNCHANGED <<serve, told>>

(* ensureServe: the server in use, the one being started, or a new one.       *)
EnsureServe(n) ==
  IF serve # Nothing THEN n = serve /\ UNCHANGED Server
  ELSE IF Starting # {} THEN n \in Starting /\ UNCHANGED Server
  ELSE StartServe(n)

(* handle(): a task cancelled before it starts, or without content, never     *)
(* reaches the server.                                                        *)
Arrive(t) ==
  /\ pc[t] = "new" /\ ~exited
  /\ \/ t \in signal /\ Ends(t, "canceled") /\ UNCHANGED Server
     \/ t \notin signal /\ Ends(t, "failed") /\ UNCHANGED Server
     \/ /\ t \notin signal /\ pc' = [pc EXCEPT ![t] = "wait"]
        /\ \E n \in Servers : EnsureServe(n) /\ at' = [at EXCEPT ![t] = n]
        /\ UNCHANGED verdict
  /\ UNCHANGED <<exited, signal, Stream, usage>>

(* The report of the server is read.                                          *)
Listening(n) ==
  /\ promise[n] = "pending" /\ n \in alive \ told /\ ~exited
  /\ promise' = [promise EXCEPT ![n] = "ok"] /\ serve' = n
  /\ UNCHANGED <<alive, told, exited, pc, at, signal, Stream, Verdict>>

(* It has ended without one, or takes too long and is told to end.            *)
StartFails(n) ==
  /\ promise[n] = "pending" /\ ~exited
  /\ promise' = [promise EXCEPT ![n] = "failed"]
  /\ told' = IF n \in alive THEN told \cup {n} ELSE told
  /\ UNCHANGED <<serve, alive, exited, pc, at, signal, Stream, Verdict>>

(* The process ends, told to or not.                                          *)
Dies(n) ==
  /\ n \in alive /\ alive' = alive \ {n}
  /\ serve' = IF serve = n THEN Nothing ELSE serve
  /\ UNCHANGED <<promise, told, exited, pc, at, signal, Stream, Verdict>>

(* Client.stop aborts every task and stops the backend, at a signal and again *)
(* when the daemon leaves.                                                    *)
Stop ==
  /\ ~exited /\ exited' \in BOOLEAN
  /\ signal' = Tasks
  /\ told' = IF serve # Nothing THEN told \cup {serve} ELSE told
  /\ serve' = Nothing
  /\ UNCHANGED <<promise, alive, pc, at, Stream, Verdict>>

---------------------------------------------------------------------------
(* A task.                                                                    *)

Cancel(t) ==
  /\ t \notin signal /\ pc[t] # "done" /\ ~exited
  /\ signal' = signal \cup {t}
  /\ UNCHANGED <<Server, exited, pc, at, Stream, Verdict>>

(* The wait for the server is over; it is not cut short by the signal.        *)
Waited(t) ==
  /\ pc[t] = "wait" /\ ~exited
  /\ \/ promise[at[t]] = "ok" /\ pc' = [pc EXCEPT ![t] = "request"] /\ UNCHANGED <<at, Verdict>>
     \/ promise[at[t]] = "failed" /\ Fails(t)
  /\ UNCHANGED <<Server, exited, signal, Stream>>

Response(t) ==
  /\ pc[t] = "request" /\ at[t] \in alive /\ ~exited
  /\ pc' = [pc EXCEPT ![t] = "stream"]
  /\ UNCHANGED <<Server, exited, at, signal, Stream, Verdict>>

(* The request is refused or aborted, its server is gone, or the stream       *)
(* breaks.                                                                    *)
RequestFails(t) ==
  /\ pc[t] \in {"request", "stream"} /\ t \notin failing /\ ~exited
  /\ Fails(t)
  /\ UNCHANGED <<Server, exited, signal, Stream>>

(* A frame of the stream: text and reasoning go out as they come, text, tool  *)
(* calls and usage are kept for the end; an error stops the reading.          *)
Chunk(t) ==
  /\ pc[t] = "stream" /\ at[t] \in alive /\ t \notin failing /\ ~exited
  /\ \E c \in Chunks :
       /\ said' = [said EXCEPT ![t] = @ \cup {c}]
       /\ acc' = [acc EXCEPT ![t] = @ \cup ({c} \cap {"text", "tool", "usage"})]
       /\ shown' = [shown EXCEPT ![t] = @ \cup ({c} \cap {"text", "reasoning"})]
       /\ failing' = IF c = "error" THEN failing \cup {t} ELSE failing
  /\ UNCHANGED <<Server, exited, pc, at, signal, Verdict>>

(* The stream has ended, or stopped at an error.                              *)
Answer(t) ==
  /\ pc[t] = "stream" /\ ~exited
  /\ IF t \in failing THEN Fails(t)
     ELSE IF t \in signal THEN Ends(t, "canceled") /\ UNCHANGED usage
     ELSE /\ Ends(t, "completed")
          /\ usage' = IF "usage" \in acc[t] THEN usage \cup {t} ELSE usage
  /\ UNCHANGED <<Server, exited, signal, Stream>>

---------------------------------------------------------------------------
Next ==
  \/ Stop
  \/ \E n \in Servers : Listening(n) \/ StartFails(n) \/ Dies(n)
  \/ \E t \in Tasks : Arrive(t) \/ Cancel(t) \/ Waited(t) \/ Response(t) \/ RequestFails(t)
                      \/ Chunk(t) \/ Answer(t)

Spec == Init /\ [][Next]_vars

(* The start is timed; a stream that was aborted or whose server is gone      *)
(* fails, any other may go on for ever.                                       *)
Fairness ==
  /\ \A n \in Servers : WF_vars(StartFails(n))
  /\ \A t \in Tasks : /\ WF_vars(Waited(t)) /\ WF_vars(t \in failing /\ Answer(t))
                      /\ WF_vars((t \in signal \/ at[t] \notin alive) /\ RequestFails(t))

FairSpec == Spec /\ Fairness

---------------------------------------------------------------------------
(* However many tasks come at once, and whenever a server ends or is given    *)
(* up, no two of them run that nobody has told to end.                        *)
OneServer == \A n, m \in alive \ told : n = m

(* A task cancelled after it began, in whatever it waited for, ends as        *)
(* canceled.                                                                  *)
CancelWins ==
  [][\A t \in Tasks :
       pc[t] # "new" /\ verdict[t] = Nothing /\ verdict'[t] # Nothing /\ t \in signal
       => verdict'[t] = "canceled"]_vars

(* An error the server reports inside its stream is never a completed,        *)
(* perhaps empty, answer, and all the answer's text has gone out.             *)
NoSilentError ==
  \A t \in Tasks : verdict[t] = "completed" =>
    "error" \notin said[t] /\ ("text" \in said[t] => "text" \in shown[t])

(* The usage that is billed is what the server reported, and absent if it did *)
(* not report any.                                                            *)
BilledAsReported ==
  \A t \in Tasks : verdict[t] = "completed" => (t \in usage <=> "usage" \in said[t])
=============================================================================
