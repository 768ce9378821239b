------------------------------ MODULE ChatHistory ------------------------------
(***************************************************************************)
(* One conversation over the openai extension.  Every request carries the  *)
(* whole of it; what is shown to the model is projected from that anew:    *)
(* the calls that were never answered are answered, names are those of the *)
(* tools that are live, and a prefix is cut into segments that a prompt    *)
(* cache may hold.                                                         *)
(*                                                                         *)
(* Code: packages/client/src/backends/openai-compat.ts, caller-tools-mcp.ts*)
(* and their use in claude.ts; historyToInjectItems in codex.ts.  Caller   *)
(* and model are external.                                                 *)
(***************************************************************************)
EXTENDS Naturals, Sequences, SequencesExt

CONSTANTS
  Names,        \* functions the caller may declare
  STEP,         \* FREEZE_STEP_ENTRIES
  MIN,          \* MIN_CACHEABLE_FROZEN_CHARS, in entries
  MaxMessages,  \* bound: messages of the conversation
  MaxCalls      \* bound: calls of one answer

ConstantsOK == STEP \in Nat \ {0} /\ MIN \in Nat /\ MaxMessages \in Nat /\ MaxCalls \in Nat

VARIABLES
  messages,     \* chat_completions_request.messages
  due,          \* calls whose result the caller has not sent
  minted,       \* ids of calls so far: randomUUID
  pc,           \* whose turn it is
  live,         \* the tools of the request; {} also when tool_choice is "none"
  view,         \* the history shown to the model; <<>> for none
  frozen,       \* the segments it begins with, where it is split
  split         \* not historyCacheBudgetTripped

vars == <<messages, due, minted, pc, live, view, frozen, split>>

-----------------------------------------------------------------------------
(* A name is a sequence: <<>> when there is none, and it is longer where it   *)
(* is qualified with the server's.                                            *)
Bare == {<<n>> : n \in Names}
Qualified(n) == <<"mcp">> \o n
Usable(c) == c.name # <<>>

Message(role) == [role |-> role, calls |-> <<>>, id |-> 0, name |-> <<>>, good |-> TRUE, lost |-> FALSE]
System == Message("system")
User == Message("user")
Says(calls, good) == [Message("assistant") EXCEPT !.calls = calls, !.good = good]
Result(c, name) == [Message("tool") EXCEPT !.id = c.id, !.name = name]
Results(calls, named) ==
  [k \in DOMAIN calls |-> Result(calls[k], IF named THEN calls[k].name ELSE <<>>)]

(* Histories from elsewhere: a call without a name, an id used twice.         *)
Starts == {<<>>, <<System, Says(<<[id |-> 1, name |-> <<>>]>>, TRUE)>>,
           <<Says([k \in 1..2 |-> [id |-> 1, name |-> <<"other">>]], TRUE)>>}

TypeOK ==
  /\ Len(messages) \in 0..MaxMessages /\ minted \in Nat
  /\ \A c \in Range(due) : c.id \in 1..minted /\ c.name \in Bare
  /\ pc \in {"caller", "model"} /\ live \subseteq Names /\ split \in BOOLEAN
  /\ \A i \in DOMAIN view : view[i].role # "system"

Init ==
  /\ messages \in Starts /\ due = <<>> /\ minted = 1 /\ pc = "caller"
  /\ live = {} /\ view = <<>> /\ frozen = <<>> /\ split = TRUE

-----------------------------------------------------------------------------
(* The projection.                                                            *)

(* The result that stands in for the one that never came.                     *)
Orphaned(c) == [Result(c, c.name) EXCEPT !.lost = TRUE]

Answered(history) == {history[i].id : i \in {j \in DOMAIN history : history[j].role = "tool"}}

(* A call with a name and without a result anywhere is answered where it was  *)
(* made, once.                                                                *)
Orphan(history, answered, i, k) ==
  LET c == history[i].calls[k]
  IN /\ Usable(c) /\ c.id \notin answered
     /\ \A j \in 1..i : \A l \in DOMAIN history[j].calls :
          (j < i \/ l < k) /\ Usable(history[j].calls[l]) => history[j].calls[l].id # c.id

RepairedFrom(history, answered) ==
  FlattenSeq([i \in DOMAIN history |->
    LET ks == SelectSeq([k \in DOMAIN history[i].calls |-> k],
                        LAMBDA k : Orphan(history, answered, i, k))
    IN <<history[i]>> \o [n \in DOMAIN ks |-> Orphaned(history[i].calls[ks[n]])]])

(* With a bug: the results that come after a call are not known of.            *)
repairAsItGoes(history) == RepairedFrom(history, {})

repairOrphanedToolCalls(history) == RepairedFrom(history, Answered(history))

(* The last user turn goes elsewhere, and so does what the system says; one   *)
(* entry that does not parse and there is no history.                         *)
Prior(m) ==
  LET before == IF m # <<>> /\ Last(m).role = "user" THEN Front(m) ELSE m
  IN SelectSeq(before, LAMBDA e : e.role # "system")

parseHistoryEntry(e) == e.good

chatHistoryFromMessages(m) ==
  IF \A i \in DOMAIN Prior(m) : parseHistoryEntry(Prior(m)[i])
  THEN repairOrphanedToolCalls(Prior(m)) ELSE <<>>

(* Calls and results are told under the names the tools have now.             *)
Rename(name, tools) == IF name \in {<<n>> : n \in tools} THEN Qualified(name) ELSE name

requalifyHistoryToolNames(history, tools) ==
  [i \in DOMAIN history |->
     [history[i] EXCEPT
        !.name = Rename(@, tools),
        !.calls = [k \in DOMAIN @ |-> [@[k] EXCEPT !.name = Rename(@, tools)]]]]

(* How many entries are frozen, all but the last exchange in whole steps; and *)
(* the segments they are cut into.                                            *)
FrozenCount(n) ==
  IF n <= 2 THEN 0
  ELSE LET count == ((n - 2) \div STEP) * STEP IN IF count < MIN THEN 0 ELSE count

formatChatHistoryBlocks(history) ==
  LET count == FrozenCount(Len(history))
  IN [b \in 1..((count + STEP - 1) \div STEP) |->
        SubSeq(history, (b - 1) * STEP + 1, IF b * STEP < count THEN b * STEP ELSE count)]

(* What codex is given instead: a call for each that has a name, and every    *)
(* result.                                                                    *)
ItemsOf(e) ==
  IF e.role = "tool" THEN <<[kind |-> "output", id |-> e.id]>>
  ELSE LET calls == SelectSeq(e.calls, Usable)
       IN [k \in DOMAIN calls |-> [kind |-> "call", id |-> calls[k].id]]

historyToInjectItems(history) == FlattenSeq([i \in DOMAIN history |-> ItemsOf(history[i])])

-----------------------------------------------------------------------------
(* A request, by the caller: results that have come, early or late, with or   *)
(* without their name, and a user turn or none.  handle() shows the model     *)
(* what it makes of all of it.                                                *)
Handle(tools) ==
  /\ live' = tools
  /\ view' = requalifyHistoryToolNames(chatHistoryFromMessages(messages'), tools)
  /\ frozen' = IF split THEN formatChatHistoryBlocks(view') ELSE <<>>
  /\ pc' = "model"

Ask(tools) ==
  /\ pc = "caller"
  /\ \E sent \in SUBSET Range(due), named \in BOOLEAN, turn \in {0, 1} :
       /\ messages' = messages
                        \o Results(SelectSeq(due, LAMBDA c : c \in sent), named)
                        \o [k \in 1..turn |-> User]
       /\ Len(messages') < MaxMessages
       /\ messages' # <<>> /\ Last(messages').role \in {"user", "tool"}
       /\ due' = SelectSeq(due, LAMBDA c : c \notin sent)
  /\ Handle(tools)
  /\ UNCHANGED <<minted, split>>

(* The caller mends what does not parse.                                      *)
Amend ==
  /\ pc = "caller"
  /\ \E i \in DOMAIN messages : ~messages[i].good
  /\ messages' = [i \in DOMAIN messages |-> [messages[i] EXCEPT !.good = TRUE]]
  /\ UNCHANGED <<due, minted, pc, live, view, frozen, split>>

(* The model answers in words.  The caller may keep any answer in a form that *)
(* does not parse.                                                            *)
Answer ==
  /\ pc = "model" /\ pc' = "caller"
  /\ \E good \in BOOLEAN : messages' = Append(messages, Says(<<>>, good))
  /\ UNCHANGED <<due, minted, live, view, frozen, split>>

(* With bugs: the ids of the tool server's own requests, which begin again at *)
(* each request.                                                              *)
requestId(k) == 1 + k

(* Or with calls, each under an id of its own.                                *)
callId(k) == minted + k

Invoke ==
  /\ pc = "model" /\ pc' = "caller"
  /\ \E n \in 1..MaxCalls :
       \E names \in [1..n -> {<<x>> : x \in live}] :
         LET calls == [k \in 1..n |-> [id |-> callId(k), name |-> names[k]]]
         IN /\ \E good \in BOOLEAN : messages' = Append(messages, Says(calls, good))
            /\ due' = due \o calls
            /\ minted' = minted + n
  /\ UNCHANGED <<live, view, frozen, split>>

(* Or the task fails; after a marker it was not allowed, nothing is split.    *)
Fail ==
  /\ pc = "model" /\ pc' = "caller"
  /\ \/ UNCHANGED split
     \/ frozen # <<>> /\ split' = FALSE
  /\ UNCHANGED <<messages, due, minted, live, view, frozen>>

Next == (\E tools \in SUBSET Names : Ask(tools)) \/ Amend \/ Answer \/ Invoke \/ Fail

Spec == Init /\ [][Next]_vars

-----------------------------------------------------------------------------
(* No call is left hanging and none is answered twice or before it is made:   *)
(* repairOrphanedToolCalls, however late and in which order results come.     *)
CallsArePaired ==
  LET items == historyToInjectItems(view)
      Outputs(id) == {j \in DOMAIN items : items[j] = [kind |-> "output", id |-> id]}
      Calls(id) == {j \in DOMAIN items : items[j] = [kind |-> "call", id |-> id]}
  IN \A i \in DOMAIN items :
       IF items[i].kind = "call"
       THEN \E j \in Outputs(items[i].id) : j > i /\ Outputs(items[i].id) = {j}
       ELSE \E j \in Calls(items[i].id) : j < i

(* A tool that is live is not told of under its bare name, and a result has   *)
(* its call's name or none: requalifyHistoryToolNames.                        *)
NamesAreLive ==
  \A i \in DOMAIN view :
    /\ view[i].name \notin {<<n>> : n \in live}
    /\ \A k \in DOMAIN view[i].calls :
         /\ view[i].calls[k].name \notin {<<n>> : n \in live}
         /\ \A j \in DOMAIN view :
              view[j].role = "tool" /\ view[j].id = view[i].calls[k].id
                => view[j].name \in {<<>>, view[i].calls[k].name}

(* The segments are what the history begins with: formatChatHistoryBlocks.    *)
TextIsWhole == IsPrefix(FlattenSeq(frozen), view)

(* As a conversation grows its segments stay what they were, unless a result  *)
(* came after one had been made up, the tools are others or an entry does not  *)
(* parse; so a cache that holds them is read and not written again.           *)
Grows ==
  /\ pc = "caller" /\ pc' = "model" /\ view' # <<>> /\ split /\ live' = live
  /\ \A i \in DOMAIN view :
       view[i].lost => \E j \in DOMAIN view' : view'[j].lost /\ view'[j].id = view[i].id

FrozenStays == [][Grows => IsPrefix(frozen, frozen')]_vars
=============================================================================
