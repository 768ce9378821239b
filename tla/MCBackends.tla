------------------------------ MODULE MCBackends ------------------------------
(* The backends of a daemon: one execution of codex per context, a task of    *)
(* Claude Code with its corrective attempt, the sessions of its conversations,*)
(* tasks over the codex app-server, over the OpenClaw gateway and over        *)
(* vicoop-codex.  A daemon runs one backend, so a behaviour is about one.     *)
EXTENDS Backends

VARIABLES
  about,
  messages, owed, minted, speaker, toolset, view, frozen, split                \* ChatHistory

execVars == <<state, signal, stopped, worker, uses, tail, prev, held, proc, buffer, verdict>>
claudeVars == <<claude, phase, cancelled, aborted, cur, child, stream, exit, first, withheld, wire,
                captured, staged, bridge, tokens, fetching, sent, prompts, answers, due>>
chatVars == <<now, counter, chats, talk, persisted>>
codexVars == <<step, stop, line, locks, servers, starting, ready, alive, on, sessions, thread, turn,
               active, interrupts, text, invoked, hold, approvals, tools, asked, asks, temp, reply>>
openclawVars == <<conn, link, lacks, subscribed, owner, stage, gw, aborts, run, settled, pend,
                  finalized, requested, queue, reading, passed, outcome>>
vicoopVars == <<serve, promise, up, told, exited, doing, at, ended, said, acc, shown, failing, answer,
                usage>>
historyVars == <<messages, owed, minted, speaker, toolset, view, frozen, split>>

(* A task of Claude Code whose children ask for permissions, one that has a   *)
(* corrective attempt, or both.                                               *)
Asking == INSTANCE ClaudeRun WITH
  Requests <- {"r1"}, Retry <- FALSE, task <- claude, pc <- phase, signal <- cancelled,
  run <- stream, buffer <- withheld, tools <- bridge, reading <- fetching, asks <- prompts
Retrying == INSTANCE ClaudeRun WITH
  Requests <- {}, Retry <- TRUE, task <- claude, pc <- phase, signal <- cancelled,
  run <- stream, buffer <- withheld, tools <- bridge, reading <- fetching, asks <- prompts

(* Three tasks of one conversation, or two of two callers in two contexts.    *)
OneChat == INSTANCE ClaudeSessions WITH
  Contexts <- {"c1"}, Callers <- {"k1"}, sessions <- chats, task <- talk
TwoChats == INSTANCE ClaudeSessions WITH
  Tasks <- {"t1", "t2"}, Contexts <- Rooms, sessions <- chats, task <- talk

(* A conversation over the openai extension, of seven messages at most; the    *)
(* code's segments are of ten entries.                                         *)
History == INSTANCE ChatHistory WITH
  Names <- {"read"}, STEP <- 2, MIN <- 2, MaxMessages <- 7, MaxCalls <- 2,
  due <- owed, pc <- speaker, live <- toolset

ASSUME BackendsConstantsOK ==
  /\ Codex!ConstantsOK /\ Threads!ConstantsOK /\ Claude!ConstantsOK /\ Chats!ConstantsOK
  /\ Openclaw!ConstantsOK /\ Vicoop!ConstantsOK /\ History!ConstantsOK

(* Every task of codex in one context, every one of openclaw in one session;   *)
(* over an app-server one turn is of another caller, one of another room.      *)
MCctx == [t \in Tasks |-> "c1"]
MCroom == [t \in Turns |-> IF t = "t4" THEN "c2" ELSE "c1"]
MCcaller == [t \in Turns |-> IF t = "t3" THEN "k2" ELSE "k1"]
MCkey == [t \in Jobs |-> "k1"]

-----------------------------------------------------------------------------
AllInit ==
  /\ Codex!Init /\ Threads!Init /\ Claude!Init /\ Chats!Init /\ Openclaw!Init /\ Vicoop!Init
  /\ about \notin {"asking", "retrying"} => claude.files /\ claude.native
  /\ History!Init /\ (about # "history" => messages = <<>>)

BackendsInit ==
  /\ about \in {"execution", "asking", "retrying", "one chat", "two chats", "line", "mixed",
                "beside", "openclaw", "vicoop", "history"}
  /\ AllInit

Claudes == (about = "asking" /\ Asking!Next) \/ (about = "retrying" /\ Retrying!Next)
Talks == (about = "one chat" /\ OneChat!Next) \/ (about = "two chats" /\ TwoChats!Next)
(* Two turns over the app-server: of one context, of one caller or of two; or  *)
(* of two contexts, then one with the openai extension.  The others stay away. *)
Party == {"t1", CASE about = "line" -> "t2" [] about = "mixed" -> "t3" [] OTHER -> "t4"}
Codexes ==
  /\ about \in {"line", "mixed", "beside"} /\ Threads!Next
  /\ \A t \in Turns \ Party : step'[t] = "new" /\ t \notin stop'

BackendsNext ==
  /\ UNCHANGED about
  /\ \/ about = "execution" /\ Codex!Next
        /\ UNCHANGED <<claudeVars, chatVars, codexVars, openclawVars, vicoopVars, historyVars>>
     \/ Claudes /\ UNCHANGED <<execVars, chatVars, codexVars, openclawVars, vicoopVars, historyVars>>
     \/ Talks /\ UNCHANGED <<execVars, claudeVars, codexVars, openclawVars, vicoopVars, historyVars>>
     \/ Codexes /\ UNCHANGED <<execVars, claudeVars, chatVars, openclawVars, vicoopVars, historyVars>>
     \/ about = "openclaw" /\ Openclaw!Next
        /\ UNCHANGED <<execVars, claudeVars, chatVars, codexVars, vicoopVars, historyVars>>
     \/ about = "vicoop" /\ Vicoop!Next
        /\ UNCHANGED <<execVars, claudeVars, chatVars, codexVars, openclawVars, historyVars>>
     \/ about = "history" /\ History!Next
        /\ UNCHANGED <<execVars, claudeVars, chatVars, codexVars, openclawVars, vicoopVars>>

backendVars ==
  <<about, execVars, claudeVars, chatVars, codexVars, openclawVars, vicoopVars, historyVars>>
BackendsSpec == BackendsInit /\ [][BackendsNext]_backendVars

-----------------------------------------------------------------------------
(* Over the openai extension every call a model is told of has one result,    *)
(* after it, names are those of the tools it has, the segments are what the   *)
(* history begins with, and a segment that a prompt cache holds stays.        *)
HistoryIsWhole ==
  /\ [](History!CallsArePaired /\ History!NamesAreLive /\ History!TextIsWhole)
  /\ History!FrozenStays
=============================================================================
