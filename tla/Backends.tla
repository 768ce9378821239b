-------------------------------- MODULE Backends --------------------------------
(* The backends of a daemon: codex with a process for every task, which keeps  *)
(* a line of tasks for each context, and codex over one app-server; a task of  *)
(* Claude Code, and the sessions of its conversations; tasks over the OpenClaw *)
(* gateway and over vicoop-codex.  Every one is a module of its own; this      *)
(* names what is proved of them.                                               *)

CONSTANTS
  Tasks, Contexts, ctx,     \* of codex with a process for every task
  Turns, Rooms, room, Callers, caller, Native,   \* of codex over an app-server
  Ttl, MaxTime,             \* of the sessions of Claude Code, of Tasks in Rooms
  Requests, Retry,          \* of claude
  Jobs,                     \* the tasks of openclaw, and those of vicoop-codex
  Keys, key, MaxConns, MaxQueue,
  MaxServers,
  Nothing

VARIABLES
  state, signal, stopped, worker, uses, tail, prev, held, proc, buffer, verdict,
  step, stop, line, locks, servers, starting, ready, alive, on, sessions, thread, turn, active,
  interrupts, text, invoked, hold, approvals, tools, asked, asks, temp, reply,
  now, counter, chats, talk, persisted,
  claude, phase, cancelled, aborted, cur, child, stream, exit, first, withheld, wire, captured,
  staged, bridge, tokens, fetching, sent, prompts, answers, due,
  conn, link, lacks, subscribed, owner, stage, gw, aborts, run, settled, pend, finalized,
  requested, queue, reading, passed, outcome,
  serve, promise, up, told, exited, doing, at, ended, said, acc, shown, failing, answer, usage

Codex == INSTANCE CodexExecution
Threads == INSTANCE CodexBackend WITH
  Tasks <- Turns, Contexts <- Rooms, ctx <- room, pc <- step, signal <- stop, calls <- invoked,
  verdict <- reply
Chats == INSTANCE ClaudeSessions WITH Contexts <- Rooms, sessions <- chats, task <- talk
Claude == INSTANCE ClaudeRun WITH
  task <- claude, pc <- phase, signal <- cancelled, run <- stream, buffer <- withheld,
  tools <- bridge, reading <- fetching, asks <- prompts
Openclaw == INSTANCE OpenclawBackend WITH
  Tasks <- Jobs, pc <- stage, signal <- aborts, asked <- requested, out <- passed,
  verdict <- outcome
Vicoop == INSTANCE VicoopCodexBackend WITH
  Tasks <- Jobs, alive <- up, pc <- doing, signal <- ended, verdict <- answer

(* Two tasks of a context never have processes at the same time, and so never *)
(* two app-servers that write one session.                                    *)
OneProcess == Codex!OneProcess

(* Conversations: a session is written by one process, is one caller's, and   *)
(* outlives the failure of all but its own first run; over an app-server what *)
(* a turn asks for goes to the task that works on its thread, an operator     *)
(* sees only the caller's own, an answered task says nothing more, and is     *)
(* poked no more.                                                             *)
ConversationsAreOwn ==
  /\ []OneProcess
  /\ [](Chats!OwnSession /\ Chats!RefreshedStays /\ Chats!FailedIsForgotten)
  /\ [](/\ Threads!HandlersAreOwn /\ Threads!ApprovalsStayWithCaller
        /\ Threads!FailedIsForgotten /\ Threads!CallsAreOwn)
  /\ Threads!AnsweredOnce /\ Threads!NoDeadPoke /\ Threads!StoppedByCallCompletes

(* Claude Code: a discarded attempt leaves no trace, a taken call reaches the *)
(* caller whatever code the capped child exits with, what a task set up lasts *)
(* as long as its child and no longer, an approval's answer reaches the child *)
(* that asked, a file goes out for a living child only, and a cancellation    *)
(* that came in time decides the one terminal frame.                          *)
ClaudeKeepsItsWord ==
  /\ [](Claude!DiscardLeavesNoTrace /\ Claude!CallsReachCaller /\ Claude!SetUpLasts)
  /\ Claude!OneTerminal /\ Claude!AnswersReachAsker /\ Claude!FilesFromLiving /\ Claude!CancelWins

(* Other programs' runs: the end of a run at the gateway is heard whenever it *)
(* comes, a cancellation reaches it, nothing is kept of ended tasks; of the   *)
(* servers of vicoop-codex one at most is not told to end, an error in a      *)
(* stream is no answer, and usage is billed as it was reported.               *)
RunsAreHeard ==
  /\ [](Openclaw!EndIsHeard /\ Openclaw!AbortReachesRun /\ Openclaw!NoEventsPileUp)
  /\ Openclaw!QuietOnceDone
  /\ [](Vicoop!OneServer /\ Vicoop!NoSilentError /\ Vicoop!BilledAsReported)
  /\ Vicoop!CancelWins
=============================================================================
