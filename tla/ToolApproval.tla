------------------------------ MODULE ToolApproval ------------------------------
(***************************************************************************)
(* Remote tool approval for one task: a run's native permission request    *)
(* travels to the server, the owner or the requester decides it over HTTP, *)
(* the decision travels back and is consumed once                          *)
(* (packages/server/src/tool-approvals.ts, requester-approvals.ts, the     *)
(* approval frames of ws.ts, and packages/client/src/remote-approval.ts).  *)
(*                                                                         *)
(* Frames towards the server are numbered and replayed: what TaskReplay    *)
(* shows of them is taken for granted here, so `up` loses nothing of a run *)
(* the daemon still works on.  Frames towards the daemon are lost with     *)
(* their connection.  Both ends negotiated the capability.                 *)
(***************************************************************************)
EXTENDS Naturals, Sequences, Functions

CONSTANTS
  None,         \* undefined
  MaxRuns,      \* bound: dispatches of the task, each with its execution id
  MaxRequests,  \* bound: approval requests
  MaxFrames,    \* bound: frames in flight in one direction
  MaxUpsets     \* bound: breaks, restarts, cancels, timeouts and withdrawals, together

VARIABLES
  bound,      \* Registry.bindings of the task
  stream,     \* the bound run's event queue: open, or closed ahead of its generator
  held,       \* a reconnect hold is on the bound run
  shown,      \* the status last pushed to the bound run's stream
  origin,     \* per run: who sent the message that started it, as bound
  entry,      \* ToolApprovals.entries
  late,       \* requests whose expiresAt has passed on the server's clock
  audit,      \* tool_approval_decided events: the decisions granted, per request
  call,       \* the requester's decision request under way
  connected, up, down,
  inflight,   \* the run the daemon works on, unsuppressed
  suppressed, \* runs whose retained frames were dropped
  asker,      \* the run that raised a request
  tool,       \* what the backend was told of a request
  upsets

serverVars == <<bound, stream, held, shown, origin, entry>>
approverVars == <<audit, call>>
clientVars == <<inflight, suppressed, asker, tool>>
vars == <<serverVars, late, approverVars, connected, up, down, clientVars, upsets>>

(* Ids are fresh; one stands here for its place in the order of use. *)
Runs == 1..MaxRuns
Requests == 1..MaxRequests

Decisions == {"allow_once", "deny"}
Approvers == {"owner", "requester"}
Origins == {"requester", "another"}

Entries ==
  {e \in [run : Runs, state : {"pending", "decided", "received"},
          decision : Decisions \cup {None}, by : Approvers \cup {None}] :
     /\ e.state = "pending" <=> e.decision = None
     /\ e.state = "pending" => e.by = None
     /\ e.state = "decided" => e.by # None}
Grants == [decision : Decisions, by : Approvers]
Calls == [req : Requests, decision : Decisions]

request(q) == [type |-> "approval.request", req |-> q]
received(q, d) == [type |-> "approval.received", req |-> q, decision |-> d]
status == [type |-> "task.status"]
terminal == [type |-> "task.complete"]
assign(r) == [type |-> "task.assign", run |-> r]
cancel(r) == [type |-> "task.cancel", run |-> r]
resolve(q, d) == [type |-> "approval.resolve", req |-> q, decision |-> d]

ASSUME ConstantsOK ==
  /\ MaxRuns \in Nat /\ MaxRequests \in Nat /\ MaxFrames \in Nat /\ MaxUpsets \in Nat
  /\ None \notin Nat /\ None \notin Decisions \cup Approvers \cup Origins
  /\ None \notin Entries /\ None \notin Calls

UpFrames == {status, terminal} \cup {request(q) : q \in Requests}
              \cup {received(q, d) : q \in Requests, d \in Decisions}
DownFrames == {assign(r) : r \in Runs} \cup {cancel(r) : r \in Runs}
                \cup {resolve(q, d) : q \in Requests, d \in Decisions}

TypeOK ==
  /\ bound \in Runs \cup {None} /\ stream \in {"open", "canceled", "timedout"}
  /\ held \in BOOLEAN
  /\ shown \in {"working", "auth-required"}
  /\ origin \in [Runs -> Origins \cup {None}]
  /\ entry \in [Requests -> Entries \cup {None}]
  /\ late \subseteq Requests
  /\ audit \in [Requests -> SUBSET Grants]
  /\ call \in Calls \cup {None}
  /\ connected \in BOOLEAN
  /\ up \in [Runs -> Seq(UpFrames)] /\ down \in Seq(DownFrames)
  /\ inflight \in Runs \cup {None} /\ suppressed \subseteq Runs
  /\ asker \in [Requests -> Runs \cup {None}]
  /\ tool \in [Requests -> {"unasked", "asked", "allowed", "denied"}]
  /\ upsets \in 0..MaxUpsets

Init ==
  /\ bound = None /\ stream = "open" /\ held = FALSE /\ shown = "working"
  /\ origin = [r \in Runs |-> None]
  /\ entry = [q \in Requests |-> None]
  /\ late = {}
  /\ audit = [q \in Requests |-> {}]
  /\ call = None
  /\ connected = TRUE
  /\ up = [r \in Runs |-> <<>>] /\ down = <<>>
  /\ inflight = None /\ suppressed = {}
  /\ asker = [q \in Requests |-> None]
  /\ tool = [q \in Requests |-> "unasked"]
  /\ upsets = 0

-----------------------------------------------------------------------------
Upset == upsets < MaxUpsets /\ upsets' = upsets + 1

(* The server's table. *)

Open(q) == entry[q] # None /\ entry[q].state \in {"pending", "decided"}

waiting(r) == {q \in Requests : Open(q) /\ entry[q].run = r}

(* sendToAgent: to the connection there is, or nowhere. *)
Send(fs) == down' = IF connected THEN down \o fs ELSE down

(* The records of run r are dropped. *)
invalidate(r) ==
  entry' = [q \in Requests |->
              IF entry[q] # None /\ entry[q].run = r THEN None ELSE entry[q]]

(* failTaskBinding, unbindTask: the task is free again. *)
Unbind ==
  /\ bound' = None /\ stream' = "open" /\ held' = FALSE /\ shown' = "working"
  /\ invalidate(bound)

(* pushStatus on the bound run; a finished queue takes nothing. *)
Show(s) == shown' = IF stream = "open" THEN s ELSE shown

(* A message of the requester (or of somebody else) is dispatched and replaces   *)
(* the run that owned the task.                                                *)
Dispatch(r, who) ==
  /\ origin[r] = None /\ (\A p \in 1..(r - 1) : origin[p] # None)
  /\ connected
  /\ Len(down) < MaxFrames
  /\ origin' = [origin EXCEPT ![r] = who]
  /\ bound' = r /\ stream' = "open" /\ held' = FALSE /\ shown' = "working"
  /\ invalidate(bound)
  /\ Send(<<assign(r)>>)
  /\ UNCHANGED <<late, approverVars, connected, up, clientVars, upsets>>

(* A cancel or the watchdog closes the queue; the binding goes when the generator *)
(* leaves.  An open approval suspends the watchdog.                              *)
CloseStream(why, fs) ==
  /\ bound # None /\ stream = "open"
  /\ Len(down) < MaxFrames
  /\ stream' = why
  /\ Send(fs) /\ Upset
  /\ UNCHANGED <<bound, held, shown, origin, entry, late, approverVars, connected, up,
                 clientVars>>

Cancel == CloseStream("canceled", <<cancel(bound)>>)

Watchdog == waiting(bound) = {} /\ CloseStream("timedout", <<>>)

Exit ==
  /\ bound # None /\ stream # "open"
  /\ Unbind
  /\ UNCHANGED <<origin, late, approverVars, connected, up, down, clientVars, upsets>>

HoldExpires ==
  /\ bound # None /\ held
  /\ Unbind
  /\ UNCHANGED <<origin, late, approverVars, connected, up, down, clientVars, upsets>>

(* tick, every second until the receipt: a decision is delivered again. *)
ResendNever(q) == Open(q) /\ UNCHANGED vars

Resend(q) ==
  /\ Open(q) /\ q \notin late /\ entry[q].state = "decided"
  /\ resolve(q, entry[q].decision) \notin Range(down) /\ Len(down) < MaxFrames
  /\ Send(<<resolve(q, entry[q].decision)>>)
  /\ UNCHANGED <<serverVars, late, approverVars, connected, up, clientVars, upsets>>

(* tick after the deadline: deny, cancel and fail the run. *)
Expire(q) ==
  /\ Open(q) /\ q \in late
  /\ Len(down) < MaxFrames
  /\ Send(<<resolve(q, "deny"), cancel(bound)>>)
  /\ Unbind
  /\ UNCHANGED <<origin, late, approverVars, connected, up, clientVars, upsets>>

DeadlinePasses(q) ==
  /\ tool[q] = "asked" \/ Open(q)
  /\ q \notin late
  /\ late' = late \cup {q} /\ Upset
  /\ UNCHANGED <<serverVars, approverVars, connected, up, down, clientVars>>

-----------------------------------------------------------------------------
(* Frames of a run at the server. *)

HandleRequest(r, q) ==
  IF q \in late \/ waiting(r) # {}
  THEN /\ Send(<<cancel(r)>>)
       /\ Unbind
  ELSE /\ entry' = [entry EXCEPT ![q] =
                      [run |-> r, state |-> "pending", decision |-> None, by |-> None]]
       /\ Show("auth-required")
       /\ held' = FALSE /\ UNCHANGED <<bound, stream, down>>

(* The client may deny by itself; it cannot claim an allow that was not granted. *)
HandleReceived(r, q, d) ==
  /\ IF Open(q) /\ entry[q].run = r
          /\ (d = "allow_once" => entry[q].state = "decided" /\ entry[q].decision = d)
     THEN /\ entry' = [entry EXCEPT ![q].state = "received", ![q].decision = d]
          /\ Show("working")
     ELSE UNCHANGED <<entry, shown>>
  /\ held' = FALSE /\ UNCHANGED <<bound, stream, down>>

HandleStatus(r) ==
  /\ Show(IF waiting(r) # {} THEN "auth-required" ELSE "working")
  /\ held' = FALSE /\ UNCHANGED <<bound, stream, entry, down>>

ServerHandles(r) ==
  /\ connected /\ up[r] # <<>>
  /\ up' = [up EXCEPT ![r] = Tail(@)]
  /\ LET f == Head(up[r])
     IN \/ bound # r /\ UNCHANGED <<bound, stream, held, shown, entry, down>>
        \/ bound = r /\ f.type = "approval.request" /\ HandleRequest(r, f.req)
        \/ bound = r /\ f.type = "approval.received" /\ HandleReceived(r, f.req, f.decision)
        \/ bound = r /\ f.type = "task.status" /\ HandleStatus(r)
        \/ bound = r /\ f.type = "task.complete" /\ Unbind /\ UNCHANGED down
  /\ UNCHANGED <<origin, late, approverVars, connected, clientVars, upsets>>

-----------------------------------------------------------------------------
(* Decisions over HTTP. *)

(* With a bug: the last decision wins. *)
decideOver(q, d, by) ==
  IF entry[q] # None /\ entry[q].run = bound /\ q \notin late
  THEN /\ entry' = [entry EXCEPT ![q].state = "decided", ![q].decision = d, ![q].by = by]
       /\ audit' = [audit EXCEPT ![q] = @ \cup {[decision |-> d, by |-> by]}]
       /\ Send(<<resolve(q, d)>>)
  ELSE UNCHANGED <<entry, audit, down>>

(* The first decision wins, a later one changes nothing: its answer is the record *)
(* or a conflict.                                                              *)
decide(q, d, by) ==
  IF entry[q] # None /\ entry[q].run = bound /\ q \notin late /\ entry[q].state = "pending"
  THEN /\ entry' = [entry EXCEPT ![q].state = "decided", ![q].decision = d, ![q].by = by]
       /\ audit' = [audit EXCEPT ![q] = @ \cup {[decision |-> d, by |-> by]}]
       /\ Send(<<resolve(q, d)>>)
  ELSE UNCHANGED <<entry, audit, down>>

OwnerDecides(q, d) ==
  /\ entry[q] # None /\ Len(down) < MaxFrames
  /\ decide(q, d, "owner")
  /\ UNCHANGED <<bound, stream, held, shown, origin, late, call, connected, up,
                 clientVars, upsets>>

CallStep(c) ==
  /\ call' = c
  /\ UNCHANGED <<serverVars, late, audit, connected, up, down, clientVars, upsets>>

(* authorizeRequesterApproval, from the reads of token and policy on: the token's  *)
(* identity is that of the message that started the run.                          *)
MatchOrigin(q, d) ==
  /\ call = None /\ entry[q] # None /\ origin[entry[q].run] = "requester"
  /\ CallStep([req |-> q, decision |-> d])

(* The grant and the task's row are read next, and may say no. *)
RequesterRefused == call # None /\ CallStep(None)

(* checkLive and decide, in one turn: of the run that owns the task by now. *)
RequesterDecides ==
  /\ call # None /\ Len(down) < MaxFrames
  /\ call' = None
  /\ IF entry[call.req] # None /\ entry[call.req].run = bound
     THEN decide(call.req, call.decision, "requester")
     ELSE UNCHANGED <<entry, audit, down>>
  /\ UNCHANGED <<bound, stream, held, shown, origin, late, connected, up, clientVars, upsets>>

-----------------------------------------------------------------------------
(* The daemon. *)

NextRequest(q) == tool[q] = "unasked" /\ \A p \in 1..(q - 1) : tool[p] # "unasked"

Pending == {q \in Requests : tool[q] = "asked"}

Emit(fs) == up' = IF inflight = None THEN up ELSE [up EXCEPT ![inflight] = @ \o fs]

(* finish: the backend gets decision d, and the server a receipt. *)
Finish(q, d) ==
  /\ tool' = [tool EXCEPT ![q] = IF d = "allow_once" THEN "allowed" ELSE "denied"]
  /\ Emit(<<received(q, d)>>)

(* What the run asked and nobody answered is denied, unheard. *)
Abandon ==
  tool' = [q \in Requests |-> IF q \in Pending THEN "denied" ELSE tool[q]]

(* The run is suppressed and aborted. *)
Suppress == suppressed' = suppressed \cup ({inflight} \ {None}) /\ Abandon

(* With a bug: requests of one run may overlap. *)
AskBeside(q) ==
  /\ inflight # None /\ NextRequest(q) /\ Len(up[inflight]) < MaxFrames
  /\ asker' = [asker EXCEPT ![q] = inflight]
  /\ tool' = [tool EXCEPT ![q] = "asked"] /\ Emit(<<request(q)>>)
  /\ UNCHANGED <<serverVars, late, approverVars, connected, down, inflight, suppressed, upsets>>

(* RemoteApprovalBroker: one pending request per run, the next is denied. *)
Ask(q) ==
  /\ inflight # None /\ NextRequest(q) /\ Len(up[inflight]) < MaxFrames
  /\ asker' = [asker EXCEPT ![q] = inflight]
  /\ IF Pending = {}
     THEN tool' = [tool EXCEPT ![q] = "asked"] /\ Emit(<<request(q)>>)
     ELSE tool' = [tool EXCEPT ![q] = "denied"] /\ UNCHANGED up
  /\ UNCHANGED <<serverVars, late, approverVars, connected, down, inflight, suppressed, upsets>>

(* Its own deadline, or the backend withdraws the question. *)
Withdraw(q) ==
  /\ tool[q] = "asked" /\ inflight # None
  /\ Finish(q, "deny") /\ Upset
  /\ UNCHANGED <<serverVars, late, approverVars, connected, down, inflight,
                 suppressed, asker>>

Progress ==
  /\ inflight # None /\ up[inflight] = <<>>
  /\ Emit(<<status>>)
  /\ UNCHANGED <<serverVars, late, approverVars, connected, down, clientVars, upsets>>

(* The backend ends; what it still asked is denied behind the terminal. *)
Return ==
  /\ inflight # None /\ Len(up[inflight]) < MaxFrames
  /\ \/ Pending = {} /\ Emit(<<terminal>>)
     \/ \E q \in Pending : Emit(<<terminal, received(q, "deny")>>)
  /\ Abandon
  /\ inflight' = None
  /\ UNCHANGED <<serverVars, late, approverVars, connected, down, suppressed, asker, upsets>>

Consume(f) ==
  \/ /\ f.type = "task.assign"
     /\ inflight' = f.run /\ Suppress /\ UNCHANGED up
  \/ /\ f.type = "task.cancel" /\ f.run = inflight
     /\ inflight' = None /\ Suppress /\ UNCHANGED up
  \/ /\ f.type = "approval.resolve" /\ f.req \in Pending
     /\ Finish(f.req, f.decision) /\ UNCHANGED <<inflight, suppressed>>
  \/ /\ \/ f.type = "task.cancel" /\ f.run # inflight
        \/ f.type = "approval.resolve" /\ f.req \notin Pending
     /\ UNCHANGED <<inflight, suppressed, tool, up>>

ClientHandles ==
  /\ connected /\ down # <<>>
  /\ down' = Tail(down)
  /\ Consume(Head(down))
  /\ UNCHANGED <<serverVars, late, approverVars, connected, asker, upsets>>

(* What a suppressed run had in transit is lost; the rest is replayed. *)
Disconnect ==
  /\ Upset
  /\ connected' = FALSE /\ down' = <<>>
  /\ held' = (bound # None)
  /\ UNCHANGED <<bound, stream, shown, origin, entry, late, approverVars, asker>>

Break ==
  /\ connected /\ Disconnect
  /\ up' = [r \in Runs |-> IF r \in suppressed THEN <<>> ELSE up[r]]
  /\ UNCHANGED <<inflight, suppressed, tool>>

Crash ==
  /\ inflight # None /\ Disconnect
  /\ up' = [r \in Runs |-> <<>>]
  /\ inflight' = None /\ Suppress

Reconnect ==
  /\ ~connected /\ connected' = TRUE
  /\ UNCHANGED <<serverVars, late, approverVars, up, down, clientVars, upsets>>

-----------------------------------------------------------------------------
Next ==
  \/ \E r \in Runs : ServerHandles(r) \/ (\E who \in Origins : Dispatch(r, who))
  \/ Cancel \/ Watchdog \/ Exit \/ HoldExpires
  \/ \E q \in Requests : Resend(q) \/ Expire(q) \/ DeadlinePasses(q)
  \/ \E q \in Requests, d \in Decisions : OwnerDecides(q, d) \/ MatchOrigin(q, d)
  \/ RequesterRefused \/ RequesterDecides
  \/ \E q \in Requests : Ask(q) \/ Withdraw(q)
  \/ Progress \/ Return \/ ClientHandles
  \/ Break \/ Crash \/ Reconnect

(* Both ends process what they receive, the daemon reconnects, a hold runs out, the *)
(* server's tick resends and expires.  Nothing is expected of approvers, of the backend, or of *)
(* the deadline.                                                                  *)
Fairness ==
  /\ WF_vars(ClientHandles) /\ WF_vars(Reconnect) /\ WF_vars(HoldExpires)
  /\ \A r \in Runs : WF_vars(ServerHandles(r))
  /\ \A q \in Requests : WF_vars(Resend(q)) /\ WF_vars(Expire(q))

Spec == Init /\ [][Next]_vars /\ Fairness

-----------------------------------------------------------------------------
(* Properties *)

(* A tool runs only on one recorded decision, an allow, by the owner or by the     *)
(* requester whose own message started the run that asked, whatever decisions      *)
(* race, repeat or arrive late (docs/tool-approval-v1.md, "first authorized        *)
(* decision wins").                                                               *)
AllowedIsGranted ==
  \A q \in Requests : tool[q] = "allowed" =>
    \E by \in Approvers : /\ audit[q] = {[decision |-> "allow_once", by |-> by]}
                          /\ by = "requester" => origin[asker[q]] = "requester"

(* A record is about the run that owns the task now: nothing of a superseded or     *)
(* failed run can still be decided (registry.ts, failBinding and unbindTask).       *)
NoGhost == \A q \in Requests : entry[q] # None => entry[q].run = bound /\ asker[q] = bound

(* The stream says auth-required exactly while an approval is open, heartbeats      *)
(* and replays notwithstanding (ws.ts, task.status).                              *)
ShownWhileWaiting ==
  bound # None /\ stream = "open" => (shown = "auth-required" <=> waiting(bound) # {})

(* A correct daemon's request never meets an open one, for which the server would   *)
(* fail the run: receipts are in front of the next request.                       *)
NoFalseDuplicate ==
  \A r \in Runs : bound = r /\ up[r] # <<>> /\ Head(up[r]).type = "approval.request" =>
    waiting(r) = {}

(* What the record says was received is what the backend was told. *)
ReceiptIsTrue ==
  \A q \in Requests : entry[q] # None /\ entry[q].state = "received" =>
    tool[q] = IF entry[q].decision = "allow_once" THEN "allowed" ELSE "denied"

Undelivered(q) == stream = "open" /\ entry[q] # None /\ entry[q].state = "decided"

(* "The server retries delivery until receipt": a decision is consumed, or its run  *)
(* ends, without the deadline having to pass.                                    *)
DecisionGetsThrough ==
  \A q \in Requests : Undelivered(q) ~> ~Undelivered(q)
=============================================================================
