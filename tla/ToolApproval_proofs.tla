-------------------------- MODULE ToolApproval_proofs --------------------------
(***************************************************************************)
(* Remote approval is safe for every number of runs and requests.  IInv is *)
(* inductive: besides the invariants to be proved it says what every frame *)
(* under way, every record and the decision request under way know.        *)
(***************************************************************************)
EXTENDS ToolApproval, TLAPS

Answer(d) == IF d = "allow_once" THEN "allowed" ELSE "denied"

(* The requests decided once, to allow, by one entitled to. *)
Approved ==
  {q \in Requests : \E by \in Approvers :
     /\ audit[q] = {[decision |-> "allow_once", by |-> by]}
     /\ by = "requester" => origin[asker[q]] = "requester"}

AskersKnown ==
  \A q \in Requests : /\ audit[q] # {} => tool[q] # "unasked"
                      /\ tool[q] # "unasked" => asker[q] \in Runs

(* A record's state agrees with the decisions granted. *)
RecordsAgree ==
  \A q \in Requests : entry[q] # None =>
    /\ tool[q] # "unasked"
    /\ entry[q].state = "pending" => audit[q] = {}
    /\ entry[q].state = "decided" /\ entry[q].decision = "allow_once" => q \in Approved

OneOpen == \A p, q \in Requests : Open(p) /\ Open(q) => p = q

(* The frames of a mailbox, and that no request is in it twice. *)
Frames(s) == {s[i] : i \in 1..Len(s)}

Once(s) == \A i, j \in 1..Len(s) : s[i].type = "approval.request" /\ s[i] = s[j] => i = j

(* A request in transit comes from its run, is there once and unknown so far. *)
RequestsOnce == \A r \in Runs : Once(up[r])

RequestsFresh ==
  \A r \in Runs : \A f \in Frames(up[r]) : f.type = "approval.request" =>
    asker[f.req] = r /\ tool[f.req] # "unasked" /\ entry[f.req] = None /\ audit[f.req] = {}

ReceiptsTrue ==
  \A r \in Runs : \A f \in Frames(up[r]) : f.type = "approval.received" =>
    tool[f.req] = Answer(f.decision)

DecisionsGranted ==
  \A f \in Frames(down) : f.type = "approval.resolve" /\ f.decision = "allow_once" =>
    f.req \in Approved

CallIsRequesters ==
  call # None => tool[call.req] # "unasked" /\ origin[asker[call.req]] = "requester"

IInv ==
  /\ TypeOK
  /\ AskersKnown /\ NoGhost /\ RecordsAgree /\ OneOpen /\ ShownWhileWaiting /\ ReceiptIsTrue
  /\ RequestsOnce /\ RequestsFresh /\ ReceiptsTrue
  /\ DecisionsGranted /\ CallIsRequesters /\ AllowedIsGranted

-----------------------------------------------------------------------------
(* The value for "undefined" is none of the values it stands in for. *)
LEMMA NoneIsNothing ==
  /\ None \notin Runs /\ None \notin Entries /\ None \notin Calls
  /\ None \notin Decisions /\ None \notin Approvers /\ None \notin Origins
  /\ Runs \subseteq Nat /\ Requests \subseteq Nat /\ MaxUpsets \in Nat
BY ConstantsOK DEF ConstantsOK, Runs, Requests

(* Frames and mailboxes. *)

(* A frame to the server is one of its four kinds, built from its fields. *)
LEMMA UpFrame ==
  ASSUME NEW f \in UpFrames
  PROVE  /\ f.type = "approval.request" => f.req \in Requests /\ f = request(f.req)
         /\ f.type = "approval.received" =>
              f.req \in Requests /\ f.decision \in Decisions /\ f = received(f.req, f.decision)
         /\ f.type \in {"approval.request", "approval.received", "task.status", "task.complete"}
BY DEF UpFrames, request, received, status, terminal

(* So is a frame to the daemon. *)
LEMMA DownFrame ==
  ASSUME NEW f \in DownFrames
  PROVE  /\ f.type = "task.assign" => f.run \in Runs
         /\ f.type = "task.cancel" => f.run \in Runs
         /\ f.type = "approval.resolve" =>
              f.req \in Requests /\ f.decision \in Decisions /\ f = resolve(f.req, f.decision)
         /\ f.type \in {"task.assign", "task.cancel", "approval.resolve"}
BY DEF DownFrames, assign, cancel, resolve

(* Taking the first frame of a mailbox adds nothing, and a request taken is gone. *)
LEMMA TailFrames ==
  ASSUME NEW S, NEW s \in Seq(S), s # <<>>
  PROVE  /\ Tail(s) \in Seq(S) /\ Head(s) \in S /\ Head(s) \in Frames(s)
         /\ Frames(Tail(s)) \subseteq Frames(s)
         /\ Once(s) => Once(Tail(s))
         /\ Once(s) /\ Head(s).type = "approval.request" => Head(s) \notin Frames(Tail(s))
<1>1. /\ Tail(s) \in Seq(S) /\ Head(s) \in S /\ 1 \in 1..Len(s) /\ s[1] = Head(s)
      /\ \A i \in 1..Len(Tail(s)) : i + 1 \in 1..Len(s) /\ Tail(s)[i] = s[i + 1] /\ i + 1 # 1
  OBVIOUS
<1>2. Head(s) \in Frames(s) /\ Frames(Tail(s)) \subseteq Frames(s)
  BY <1>1 DEF Frames
<1>3. Once(s) => Once(Tail(s))
  <2>1. \A i, j \in 1..Len(Tail(s)) : i + 1 = j + 1 => i = j
    OBVIOUS
  <2> QED BY <1>1, <2>1 DEF Once
<1>4. Once(s) /\ Head(s).type = "approval.request" => Head(s) \notin Frames(Tail(s))
  BY <1>1 DEF Once, Frames
<1> QED BY <1>1, <1>2, <1>3, <1>4

(* A mailbox written to holds the old frames and the new. *)
LEMMA ConcatFrames ==
  ASSUME NEW S, NEW s \in Seq(S), NEW t \in Seq(S)
  PROVE  /\ s \o t \in Seq(S)
         /\ Frames(s \o t) = Frames(s) \cup Frames(t)
         /\ Once(s) /\ Once(t) /\ (\A f \in Frames(t) : f.type = "approval.request" => f \notin Frames(s))
              => Once(s \o t)
<1>1. /\ s \o t \in Seq(S) /\ Len(s \o t) = Len(s) + Len(t) /\ Len(s) \in Nat /\ Len(t) \in Nat
      /\ \A i \in 1..Len(s) : i \in 1..Len(s \o t) /\ (s \o t)[i] = s[i]
      /\ \A i \in 1..Len(t) : i + Len(s) \in 1..Len(s \o t) /\ (s \o t)[i + Len(s)] = t[i]
  OBVIOUS
<1>2. \A i \in 1..Len(s \o t) : \/ i \in 1..Len(s) /\ (s \o t)[i] = s[i]
                                \/ i - Len(s) \in 1..Len(t) /\ (s \o t)[i] = t[i - Len(s)]
  OBVIOUS
<1>3. Frames(s \o t) = Frames(s) \cup Frames(t)
  BY SMTT(30), <1>1, <1>2 DEF Frames
<1>4. ASSUME Once(s), Once(t), \A f \in Frames(t) : f.type = "approval.request" => f \notin Frames(s)
      PROVE  Once(s \o t)
  <2> SUFFICES ASSUME NEW i \in 1..Len(s \o t), NEW j \in 1..Len(s \o t),
                      (s \o t)[i].type = "approval.request", (s \o t)[i] = (s \o t)[j]
               PROVE  i = j
    BY DEF Once
  <2>1. CASE i \in 1..Len(s) /\ j \in 1..Len(s)
    BY <1>1, <1>4, <2>1 DEF Once
  <2>2. CASE i \notin 1..Len(s) /\ j \notin 1..Len(s)
    <3>1. i - Len(s) = j - Len(s)
      BY <1>2, <1>4, <2>2 DEF Once
    <3> QED BY <1>1, <3>1
  <2>3. CASE i \in 1..Len(s) /\ j \notin 1..Len(s)
    BY <1>1, <1>2, <1>4, <2>3 DEF Frames
  <2>4. CASE i \notin 1..Len(s) /\ j \in 1..Len(s)
    BY <1>1, <1>2, <1>4, <2>4 DEF Frames
  <2> QED BY <2>1, <2>2, <2>3, <2>4
<1> QED BY <1>1, <1>3, <1>4

(* The mailboxes the actions write: none, one or two frames. *)
LEMMA FewFrames ==
  /\ Frames(<<>>) = {} /\ Once(<<>>)
  /\ \A x : Frames(<<x>>) = {x} /\ Once(<<x>>)
  /\ \A x, y : /\ Frames(<<x, y>>) = {x, y}
               /\ y.type # "approval.request" /\ x # y => Once(<<x, y>>)
BY DEF Frames, Once

(* What a send to the daemon, or a frame of the run at work, adds. *)
LEMMA SendEffect ==
  ASSUME TypeOK, NEW fs \in Seq(DownFrames), Send(fs)
  PROVE  down' \in Seq(DownFrames) /\ Frames(down') \subseteq Frames(down) \cup Frames(fs)
<1>1. down \in Seq(DownFrames)
  BY DEF TypeOK
<1>2. CASE connected
  BY <1>1, <1>2, ConcatFrames DEF Send
<1>3. CASE ~connected
  BY <1>1, <1>3 DEF Send
<1> QED BY <1>2, <1>3

(* Only the mailbox of the run at work grows. *)
LEMMA EmitEffect ==
  ASSUME TypeOK, NEW fs \in Seq(UpFrames), Emit(fs)
  PROVE  /\ up' \in [Runs -> Seq(UpFrames)]
         /\ \A r \in Runs : up'[r] = IF r = inflight THEN up[r] \o fs ELSE up[r]
<1>1. up \in [Runs -> Seq(UpFrames)] /\ inflight \in Runs \cup {None}
  BY DEF TypeOK
<1>2. CASE inflight = None
  BY <1>1, <1>2, NoneIsNothing DEF Emit
<1>3. CASE inflight # None
  <2>1. up[inflight] \o fs \in Seq(UpFrames)
    BY <1>1, <1>3
  <2> QED BY <1>1, <1>3, <2>1 DEF Emit
<1> QED BY <1>2, <1>3

(* All records are of the run that owns the task: they go together. *)
LEMMA InvalidateEffect ==
  ASSUME IInv, invalidate(bound)
  PROVE  entry' = [q \in Requests |-> None]
BY DEF IInv, NoGhost, invalidate

(* A record is well formed and about the run that owns the task. *)
LEMMA RecordIsOfOwner ==
  ASSUME IInv, NEW q \in Requests, entry[q] # None
  PROVE  /\ entry[q] \in Entries /\ entry[q].run \in Runs
         /\ bound = entry[q].run /\ bound \in Runs /\ asker[q] = bound
<1>1. entry[q] \in Entries
  BY DEF IInv, TypeOK
<1>2. entry[q].run \in Runs
  BY <1>1 DEF Entries
<1> QED BY <1>1, <1>2 DEF IInv, NoGhost

(* The invariant holds before anything has happened. *)
THEOREM InitInvariant == Init => IInv
<1> SUFFICES ASSUME Init PROVE IInv
  OBVIOUS
<1>1. TypeOK
  <2>1. up \in [Runs -> Seq(UpFrames)] /\ down \in Seq(DownFrames)
    BY DEF Init
  <2>2. 0 \in 0..MaxUpsets
    BY NoneIsNothing
  <2>3. audit \in [Requests -> SUBSET Grants] /\ late \subseteq Requests /\ suppressed \subseteq Runs
    BY DEF Init
  <2>4. held \in BOOLEAN /\ connected \in BOOLEAN
    BY DEF Init
  <2>5. /\ bound \in Runs \cup {None} /\ stream \in {"open", "canceled", "timedout"}
        /\ shown \in {"working", "auth-required"} /\ call \in Calls \cup {None}
        /\ inflight \in Runs \cup {None}
    BY DEF Init
  <2>6. /\ origin \in [Runs -> Origins \cup {None}] /\ entry \in [Requests -> Entries \cup {None}]
        /\ asker \in [Requests -> Runs \cup {None}]
        /\ tool \in [Requests -> {"unasked", "asked", "allowed", "denied"}]
    BY DEF Init
  <2> QED BY <2>1, <2>2, <2>3, <2>4, <2>5, <2>6 DEF Init, TypeOK
<1>2. AskersKnown /\ NoGhost /\ RecordsAgree /\ OneOpen /\ ShownWhileWaiting /\ ReceiptIsTrue
  BY DEF Init, AskersKnown, NoGhost, RecordsAgree, OneOpen, ShownWhileWaiting, ReceiptIsTrue, Open
<1>3. /\ RequestsOnce /\ RequestsFresh /\ ReceiptsTrue
      /\ DecisionsGranted /\ CallIsRequesters /\ AllowedIsGranted
  BY FewFrames DEF Init, RequestsOnce, RequestsFresh, ReceiptsTrue, DecisionsGranted, CallIsRequesters, AllowedIsGranted
<1> QED BY <1>1, <1>2, <1>3 DEF IInv

-----------------------------------------------------------------------------
(* The steps. *)

(* A step is quiet if it decides nothing and knows no new request: records stay or  *)
(* go all together, an asked tool is told no, or what it was granted, and nothing   *)
(* untrue is sent either way.                                                      *)
QuietServer ==
  /\ UNCHANGED <<asker, audit>>
  /\ call' \in {call, None}
  /\ \A r \in Runs : origin[r] = "requester" => origin'[r] = "requester"
  /\ \/ UNCHANGED <<bound, stream, shown, entry>>
     \/ UNCHANGED <<bound, entry>> /\ stream' # "open"
     \/ entry' = [q \in Requests |-> None] /\ shown' = "working"

QuietTool ==
  \A q \in Requests :
    \/ tool'[q] = tool[q]
    \/ tool[q] = "asked" /\ tool'[q] = "denied"
    \/ tool[q] = "asked" /\ tool'[q] = "allowed" /\ q \in Approved

QuietUp ==
  \A r \in Runs :
    /\ Once(up'[r])
    /\ \A f \in Frames(up'[r]) :
         \/ f \in Frames(up[r])
         \/ f.type \notin {"approval.request", "approval.received"}
         \/ f.type = "approval.received" /\ tool'[f.req] = Answer(f.decision)

QuietDown ==
  \A f \in Frames(down') :
    \/ f \in Frames(down)
    \/ f.type # "approval.resolve" \/ f.decision = "deny" \/ f.req \in Approved

(* A quiet step preserves the invariant. *)
LEMMA QuietStep ==
  ASSUME IInv, TypeOK', QuietServer, QuietTool, QuietUp, QuietDown
  PROVE  IInv'
<1>1. Approved \subseteq Approved'
  BY DEF IInv, QuietServer, AskersKnown, Approved
<1>2. AskersKnown' /\ CallIsRequesters'
  BY DEF IInv, TypeOK, QuietServer, QuietTool, AskersKnown, CallIsRequesters, Calls
<1>3. AllowedIsGranted'
  <2>1. \A q \in Requests : tool[q] = "allowed" => q \in Approved
    BY DEF IInv, AllowedIsGranted, Approved
  <2>2. \A q \in Requests : tool'[q] = "allowed" => q \in Approved'
    BY <1>1, <2>1 DEF QuietTool
  <2> QED BY <2>2 DEF AllowedIsGranted, Approved
<1>4. (NoGhost /\ OneOpen)'
  BY DEF IInv, QuietServer, NoGhost, OneOpen, Open
<1>5. RecordsAgree'
  BY <1>1 DEF IInv, QuietServer, QuietTool, RecordsAgree
<1>6. ReceiptIsTrue'
  BY DEF IInv, QuietServer, QuietTool, ReceiptIsTrue
<1>7. ShownWhileWaiting'
  <2>1. CASE UNCHANGED <<bound, stream, shown, entry>>
    BY <2>1 DEF IInv, ShownWhileWaiting, Open, waiting
  <2>2. CASE stream' # "open"
    BY <2>2 DEF ShownWhileWaiting
  <2>3. CASE entry' = [q \in Requests |-> None] /\ shown' = "working"
    <3>1. \A q \in Requests : entry'[q] = None
      BY <2>3
    <3>2. waiting(bound)' = {}
      BY <3>1 DEF Open, waiting
    <3> QED BY <2>3, <3>2 DEF ShownWhileWaiting
  <2> QED BY <2>1, <2>2, <2>3 DEF QuietServer
<1>8. (RequestsOnce /\ RequestsFresh /\ ReceiptsTrue)'
  <2>1. \A r \in Runs : \A f \in Frames(up[r]) :
          f.type \in {"approval.request", "approval.received"} => f.req \in Requests
    BY UpFrame DEF IInv, TypeOK, Frames
  <2>2. RequestsOnce'
    BY DEF RequestsOnce, QuietUp
  <2>3. RequestsFresh'
    BY <2>1 DEF IInv, RequestsFresh, QuietUp, QuietServer, QuietTool
  <2>4. ReceiptsTrue'
    BY <2>1 DEF IInv, ReceiptsTrue, QuietUp, QuietTool, Answer
  <2> QED BY <2>2, <2>3, <2>4
<1>9. DecisionsGranted'
  BY <1>1 DEF IInv, DecisionsGranted, QuietDown
<1> QED BY <1>2, <1>3, <1>4, <1>5, <1>6, <1>7, <1>8, <1>9 DEF IInv

(* A dispatch (executor.ts, dispatch) supersedes the run and its records. *)
LEMMA DispatchStep ==
  ASSUME IInv, NEW r \in Runs, NEW who \in Origins, Dispatch(r, who)
  PROVE  IInv'
<1>0. /\ entry' = [q \in Requests |-> None]
      /\ bound' = r /\ stream' = "open" /\ shown' = "working" /\ held' = FALSE
      /\ origin[r] = None /\ origin' = [origin EXCEPT ![r] = who]
      /\ UNCHANGED <<late, audit, call, connected, up, inflight, suppressed, asker, tool, upsets>>
  BY InvalidateEffect DEF Dispatch, approverVars, clientVars
<1>1. <<assign(r)>> \in Seq(DownFrames)
  BY DEF DownFrames
<1>2. down' \in Seq(DownFrames) /\ Frames(down') \subseteq Frames(down) \cup {assign(r)}
  BY <1>1, SendEffect, FewFrames DEF IInv, Dispatch
<1>3. TypeOK'
  <2>1. held' \in BOOLEAN /\ connected' \in BOOLEAN
    BY <1>0 DEF IInv, TypeOK
  <2>2. origin' \in [Runs -> Origins \cup {None}] /\ entry' \in [Requests -> Entries \cup {None}]
    BY <1>0 DEF IInv, TypeOK
  <2> QED BY <1>0, <1>2, <2>1, <2>2 DEF IInv, TypeOK
<1>4. QuietServer
  BY <1>0, NoneIsNothing DEF IInv, TypeOK, Origins, QuietServer
<1>5. QuietTool /\ QuietUp
  BY <1>0 DEF QuietTool, QuietUp, IInv, RequestsOnce
<1>6. QuietDown
  BY <1>2 DEF QuietDown, assign
<1> QED BY <1>3, <1>4, <1>5, <1>6, QuietStep

(* Cancel and Watchdog. *)
LEMMA CloseStreamStep ==
  ASSUME IInv, NEW why \in {"canceled", "timedout"}, NEW fs \in {<<cancel(bound)>>, <<>>},
         CloseStream(why, fs)
  PROVE  IInv'
<1>0. /\ bound # None /\ stream' = why /\ upsets' \in 0..MaxUpsets
      /\ UNCHANGED <<bound, held, shown, origin, entry, late, audit, call, connected, up,
                     inflight, suppressed, asker, tool>>
  BY NoneIsNothing DEF CloseStream, Upset, approverVars, clientVars, IInv, TypeOK
<1>1. fs \in Seq(DownFrames) /\ Frames(fs) \subseteq {cancel(bound)}
  <2>1. cancel(bound) \in DownFrames
    BY <1>0 DEF DownFrames, IInv, TypeOK
  <2>2. CASE fs = <<>>
    BY <2>2, FewFrames
  <2>3. CASE fs = <<cancel(bound)>>
    BY <2>1, <2>3, FewFrames
  <2> QED BY <2>2, <2>3
<1>2. down' \in Seq(DownFrames) /\ Frames(down') \subseteq Frames(down) \cup {cancel(bound)}
  BY <1>1, SendEffect DEF IInv, CloseStream
<1>3. TypeOK'
  BY <1>0, <1>2 DEF IInv, TypeOK
<1>4. QuietServer /\ QuietTool /\ QuietUp
  BY <1>0 DEF QuietServer, QuietTool, QuietUp, IInv, RequestsOnce
<1>5. QuietDown
  BY <1>2 DEF QuietDown, cancel
<1> QED BY <1>3, <1>4, <1>5, QuietStep

(* Whatever unbinds the task, and takes and sends no more than this, is safe: Exit, *)
(* HoldExpires, Expire, a terminal and a request the server refuses.               *)
LEMMA UnbindStep ==
  ASSUME IInv, Unbind,
         UNCHANGED <<origin, late, audit, call, connected, inflight, suppressed, asker, tool, upsets>>,
         up' \in [Runs -> Seq(UpFrames)], QuietUp, down' \in Seq(DownFrames), QuietDown
  PROVE  IInv'
<1>0. /\ entry' = [q \in Requests |-> None]
      /\ bound' = None /\ stream' = "open" /\ shown' = "working"
  BY InvalidateEffect DEF Unbind
<1>1. held' \in BOOLEAN /\ connected' \in BOOLEAN
  BY DEF Unbind, IInv, TypeOK
<1>2. TypeOK'
  BY <1>0, <1>1 DEF IInv, TypeOK
<1>3. QuietServer /\ QuietTool
  BY <1>0 DEF QuietServer, QuietTool
<1> QED BY <1>2, <1>3, QuietStep

(* What is not written to stays quiet. *)
LEMMA SameMail ==
  ASSUME IInv
  PROVE  /\ UNCHANGED up => up' \in [Runs -> Seq(UpFrames)] /\ (UNCHANGED tool => QuietUp)
         /\ UNCHANGED down => down' \in Seq(DownFrames) /\ QuietDown
BY DEF IInv, TypeOK, QuietUp, QuietDown, RequestsOnce

(* The generator leaves, or a hold runs out. *)
LEMMA ExitStep ==
  ASSUME IInv, Exit \/ HoldExpires
  PROVE  IInv'
BY SameMail, UnbindStep DEF Exit, HoldExpires, approverVars, clientVars

(* The deadline denies and fails the run (tool-approvals.ts, tick). *)
LEMMA ExpireStep ==
  ASSUME IInv, NEW q \in Requests, Expire(q)
  PROVE  IInv'
<1>1. bound \in Runs
  BY RecordIsOfOwner DEF Expire, Open
<1>2. <<resolve(q, "deny"), cancel(bound)>> \in Seq(DownFrames)
  <2>1. resolve(q, "deny") \in DownFrames /\ cancel(bound) \in DownFrames
    BY <1>1 DEF DownFrames, Decisions
  <2> QED BY <2>1
<1>3. /\ down' \in Seq(DownFrames)
      /\ Frames(down') \subseteq Frames(down) \cup {resolve(q, "deny"), cancel(bound)}
  BY <1>2, SendEffect, FewFrames DEF IInv, Expire
<1>4. QuietDown
  BY <1>3 DEF QuietDown, resolve, cancel
<1> QED BY <1>3, <1>4, SameMail, UnbindStep DEF Expire, approverVars, clientVars

(* A resent decision is the one that was recorded. *)
LEMMA ResendStep ==
  ASSUME IInv, NEW q \in Requests, Resend(q)
  PROVE  IInv'
<1>0. /\ entry[q].state = "decided" /\ entry[q] # None
      /\ UNCHANGED <<bound, stream, held, shown, origin, entry, late, audit, call, connected, up,
                     inflight, suppressed, asker, tool, upsets>>
  BY DEF Resend, Open, serverVars, approverVars, clientVars
<1>1. entry[q].decision \in Decisions
  BY <1>0, RecordIsOfOwner, NoneIsNothing DEF Entries
<1>2. <<resolve(q, entry[q].decision)>> \in Seq(DownFrames)
  BY <1>1 DEF DownFrames
<1>3. /\ down' \in Seq(DownFrames)
      /\ Frames(down') \subseteq Frames(down) \cup {resolve(q, entry[q].decision)}
  BY <1>2, SendEffect, FewFrames DEF IInv, Resend
<1>4. TypeOK'
  BY <1>0, <1>3 DEF IInv, TypeOK
<1>5. QuietServer /\ QuietTool /\ QuietUp
  BY <1>0 DEF QuietServer, QuietTool, QuietUp, IInv, RequestsOnce
<1>6. entry[q].decision = "deny" \/ q \in Approved
  BY <1>0, <1>1 DEF IInv, RecordsAgree, Decisions
<1>7. QuietDown
  BY <1>3, <1>6 DEF QuietDown, resolve
<1> QED BY <1>4, <1>5, <1>7, QuietStep

(* The deadline, a requester who is refused, a reconnect and a stutter. *)
LEMMA IdleStep ==
  ASSUME IInv, \/ (\E q \in Requests : DeadlinePasses(q)) \/ RequesterRefused \/ Reconnect
               \/ UNCHANGED vars
  PROVE  IInv'
<1>0. /\ UNCHANGED <<bound, stream, held, shown, origin, entry, audit, up, down, inflight,
                     suppressed, asker, tool>>
      /\ call' \in {call, None}
  BY DEF DeadlinePasses, RequesterRefused, CallStep, Reconnect, vars, serverVars, approverVars, clientVars
<1>1. connected' \in BOOLEAN /\ late' \subseteq Requests /\ upsets' \in 0..MaxUpsets
  <2>1. CASE \E q \in Requests : DeadlinePasses(q)
    BY <2>1, NoneIsNothing DEF DeadlinePasses, Upset, IInv, TypeOK
  <2>2. CASE RequesterRefused
    BY <2>2 DEF RequesterRefused, CallStep, IInv, TypeOK
  <2>3. CASE Reconnect
    BY <2>3 DEF Reconnect, IInv, TypeOK
  <2>4. CASE UNCHANGED vars
    BY <2>4 DEF vars, IInv, TypeOK
  <2> QED BY <2>1, <2>2, <2>3, <2>4
<1>2. TypeOK'
  BY <1>0, <1>1 DEF IInv, TypeOK
<1>3. QuietServer /\ QuietTool
  BY <1>0 DEF QuietServer, QuietTool
<1> QED BY <1>0, <1>2, <1>3, SameMail, QuietStep

(* Frames of the run at work that are neither requests nor untrue. *)
LEMMA EmitQuiet ==
  ASSUME IInv, NEW fs \in Seq(UpFrames), Emit(fs), Once(fs),
         \A f \in Frames(fs) :
           /\ f.type # "approval.request"
           /\ f.type = "approval.received" => tool'[f.req] = Answer(f.decision)
  PROVE  up' \in [Runs -> Seq(UpFrames)] /\ QuietUp
<1>1. /\ up' \in [Runs -> Seq(UpFrames)]
      /\ \A r \in Runs : up'[r] = IF r = inflight THEN up[r] \o fs ELSE up[r]
  BY EmitEffect DEF IInv
<1>2. up \in [Runs -> Seq(UpFrames)] /\ \A r \in Runs : Once(up[r])
  BY DEF IInv, TypeOK, RequestsOnce
<1>3. SUFFICES ASSUME NEW r \in Runs
               PROVE  /\ Once(up'[r])
                      /\ \A f \in Frames(up'[r]) : f \in Frames(up[r]) \/ f \in Frames(fs)
  BY <1>1 DEF QuietUp
<1>4. CASE r # inflight
  BY <1>1, <1>2, <1>4
<1>5. CASE r = inflight
  <2>1. up'[r] = up[r] \o fs /\ up[r] \in Seq(UpFrames)
    BY <1>1, <1>2, <1>5
  <2> QED BY <1>2, <2>1, ConcatFrames
<1> QED BY <1>4, <1>5

(* A single frame that is no request and tells no untruth. *)
LEMMA EmitOne ==
  ASSUME IInv, NEW f \in UpFrames, Emit(<<f>>), f.type # "approval.request",
         f.type = "approval.received" => tool'[f.req] = Answer(f.decision)
  PROVE  up' \in [Runs -> Seq(UpFrames)] /\ QuietUp
<1>1. <<f>> \in Seq(UpFrames)
  OBVIOUS
<1>2. Frames(<<f>>) = {f} /\ Once(<<f>>)
  BY FewFrames
<1>3. \A g \in Frames(<<f>>) :
        /\ g.type # "approval.request"
        /\ g.type = "approval.received" => tool'[g.req] = Answer(g.decision)
  BY <1>2
<1> QED BY <1>1, <1>2, <1>3, EmitQuiet

(* The fields of a receipt. *)
LEMMA ReceiptFrame ==
  ASSUME NEW q \in Requests, NEW d \in Decisions
  PROVE  /\ received(q, d) \in UpFrames /\ received(q, d).type = "approval.received"
         /\ received(q, d).req = q /\ received(q, d).decision = d
BY DEF UpFrames, received

(* Abandoned requests are denied. *)
LEMMA AbandonEffect ==
  ASSUME IInv, Abandon
  PROVE  /\ tool' \in [Requests -> {"unasked", "asked", "allowed", "denied"}] /\ QuietTool
         /\ \A q \in Pending : tool'[q] = "denied"
BY DEF IInv, TypeOK, Abandon, Pending, QuietTool

(* An answered request gets the answer that its receipt reports. *)
LEMMA FinishEffect ==
  ASSUME IInv, NEW q \in Pending, NEW d \in Decisions, Finish(q, d),
         d = "allow_once" => q \in Approved
  PROVE  /\ tool' \in [Requests -> {"unasked", "asked", "allowed", "denied"}] /\ QuietTool
         /\ up' \in [Runs -> Seq(UpFrames)] /\ QuietUp
<1>1. q \in Requests /\ tool[q] = "asked"
  BY DEF Pending
<1>2. tool' = [tool EXCEPT ![q] = Answer(d)] /\ Emit(<<received(q, d)>>)
  BY DEF Finish, Answer
<1>3. tool' \in [Requests -> {"unasked", "asked", "allowed", "denied"}] /\ QuietTool
  BY <1>1, <1>2 DEF IInv, TypeOK, QuietTool, Answer, Decisions
<1>4. tool'[q] = Answer(d)
  BY <1>1, <1>2 DEF IInv, TypeOK
<1>5. up' \in [Runs -> Seq(UpFrames)] /\ QuietUp
  BY <1>1, <1>2, <1>4, ReceiptFrame, EmitOne
<1> QED BY <1>3, <1>5

(* A status frame knows nothing of approvals. *)
LEMMA ProgressStep ==
  ASSUME IInv, Progress
  PROVE  IInv'
<1>0. UNCHANGED <<bound, stream, held, shown, origin, entry, late, audit, call, connected, down,
                  inflight, suppressed, asker, tool, upsets>>
  BY DEF Progress, serverVars, approverVars, clientVars
<1>1. status \in UpFrames /\ status.type = "task.status" /\ Emit(<<status>>)
  BY DEF UpFrames, status, Progress
<1>2. up' \in [Runs -> Seq(UpFrames)] /\ QuietUp
  BY <1>1, EmitOne
<1>3. TypeOK'
  BY <1>0, <1>2 DEF IInv, TypeOK
<1>4. QuietServer /\ QuietTool
  BY <1>0 DEF QuietServer, QuietTool
<1> QED BY <1>0, <1>2, <1>3, <1>4, SameMail, QuietStep

(* The backend or its deadline takes a request back. *)
LEMMA WithdrawStep ==
  ASSUME IInv, NEW q \in Requests, Withdraw(q)
  PROVE  IInv'
<1>0. /\ UNCHANGED <<bound, stream, held, shown, origin, entry, late, audit, call, connected, down,
                     inflight, suppressed, asker>>
      /\ upsets' \in 0..MaxUpsets
  BY NoneIsNothing DEF Withdraw, Upset, serverVars, approverVars, IInv, TypeOK
<1>1. q \in Pending /\ "deny" \in Decisions /\ Finish(q, "deny")
  BY DEF Withdraw, Pending, Decisions
<1>2. /\ tool' \in [Requests -> {"unasked", "asked", "allowed", "denied"}] /\ QuietTool
      /\ up' \in [Runs -> Seq(UpFrames)] /\ QuietUp
  BY <1>1, FinishEffect
<1>3. TypeOK'
  BY <1>0, <1>2 DEF IInv, TypeOK
<1>4. QuietServer
  BY <1>0 DEF QuietServer
<1> QED BY <1>0, <1>2, <1>3, <1>4, SameMail, QuietStep

(* The backend ends and what it still asked is denied. *)
LEMMA ReturnStep ==
  ASSUME IInv, Return
  PROVE  IInv'
<1>0. /\ UNCHANGED <<bound, stream, held, shown, origin, entry, late, audit, call, connected, down,
                     suppressed, asker, upsets>>
      /\ inflight' = None /\ Abandon
  BY DEF Return, serverVars, approverVars
<1>1. terminal \in UpFrames /\ terminal.type = "task.complete"
  BY DEF UpFrames, terminal
<1>2. up' \in [Runs -> Seq(UpFrames)] /\ QuietUp
  <2>1. CASE Emit(<<terminal>>)
    BY <1>1, <2>1, EmitOne
  <2>2. ASSUME NEW q \in Pending, Emit(<<terminal, received(q, "deny")>>)
        PROVE  up' \in [Runs -> Seq(UpFrames)] /\ QuietUp
    <3>1. q \in Requests /\ "deny" \in Decisions /\ tool'[q] = Answer("deny")
      BY <1>0, AbandonEffect DEF Pending, Decisions, Answer
    <3> DEFINE f == received(q, "deny")
    <3>2. /\ f \in UpFrames /\ f.type = "approval.received" /\ f.req = q /\ f.decision = "deny"
      BY <3>1, ReceiptFrame
    <3> HIDE DEF f
    <3>3. <<terminal, f>> \in Seq(UpFrames) /\ terminal # f
      BY <1>1, <3>2
    <3>4. Frames(<<terminal, f>>) = {terminal, f} /\ Once(<<terminal, f>>)
      BY <3>2, <3>3, FewFrames
    <3> QED BY <1>1, <2>2, <3>1, <3>2, <3>3, <3>4, EmitQuiet DEF f
  <2> QED BY <2>1, <2>2 DEF Return
<1>3. tool' \in [Requests -> {"unasked", "asked", "allowed", "denied"}] /\ QuietTool
  BY <1>0, AbandonEffect
<1>4. TypeOK'
  BY <1>0, <1>2, <1>3 DEF IInv, TypeOK
<1>5. QuietServer
  BY <1>0 DEF QuietServer
<1> QED BY <1>0, <1>2, <1>3, <1>4, <1>5, SameMail, QuietStep

(* A request is new: nobody knew of it, and it is the only one of its name. *)
LEMMA AskStep ==
  ASSUME IInv, NEW q \in Requests, Ask(q)
  PROVE  IInv'
<1>0. /\ UNCHANGED <<bound, stream, held, shown, origin, entry, late, audit, call, connected, down,
                     inflight, suppressed, upsets>>
      /\ inflight \in Runs /\ tool[q] = "unasked"
      /\ asker' = [asker EXCEPT ![q] = inflight]
  BY DEF Ask, NextRequest, serverVars, approverVars, IInv, TypeOK
<1>1. PICK t \in {"asked", "denied"} : tool' = [tool EXCEPT ![q] = t]
  BY DEF Ask
<1>2. /\ audit[q] = {} /\ entry[q] = None /\ (call # None => call.req # q)
      /\ \A p \in Requests : p # q => asker'[p] = asker[p] /\ tool'[p] = tool[p]
      /\ asker'[q] = inflight /\ tool'[q] = t
  BY <1>0, <1>1 DEF IInv, TypeOK, AskersKnown, RecordsAgree, CallIsRequesters
<1>3. request(q) \in UpFrames /\ request(q).type = "approval.request" /\ request(q).req = q
  BY DEF UpFrames, request
<1>4. \A r \in Runs : \A f \in Frames(up[r]) :
        f.type \in {"approval.request", "approval.received"} =>
          f.req \in Requests /\ tool[f.req] # "unasked"
  <2>1. \A r \in Runs : \A f \in Frames(up[r]) :
          /\ f.type = "approval.request" => f.req \in Requests
          /\ f.type = "approval.received" => f.req \in Requests /\ f.decision \in Decisions
    BY UpFrame DEF IInv, TypeOK, Frames
  <2> QED BY <2>1 DEF IInv, RequestsFresh, ReceiptsTrue, Answer
<1>5. /\ up' \in [Runs -> Seq(UpFrames)]
      /\ \A r \in Runs : /\ Once(up'[r])
                         /\ \A f \in Frames(up'[r]) : f \in Frames(up[r]) \/ (r = inflight /\ f = request(q))
  <2>1. CASE UNCHANGED up
    BY <2>1 DEF IInv, TypeOK, RequestsOnce
  <2>2. CASE Emit(<<request(q)>>)
    <3>1. <<request(q)>> \in Seq(UpFrames)
      BY <1>3
    <3>2. /\ up' \in [Runs -> Seq(UpFrames)]
          /\ \A r \in Runs : up'[r] = IF r = inflight THEN up[r] \o <<request(q)>> ELSE up[r]
      BY <2>2, <3>1, EmitEffect DEF IInv
    <3>3. \A r \in Runs : up[r] \in Seq(UpFrames) /\ Once(up[r]) /\ request(q) \notin Frames(up[r])
      BY <1>0, <1>3, <1>4 DEF IInv, TypeOK, RequestsOnce
    <3>4. Frames(<<request(q)>>) = {request(q)} /\ Once(<<request(q)>>)
      BY FewFrames
    <3>5. \A r \in Runs : /\ Once(up[r] \o <<request(q)>>)
                          /\ Frames(up[r] \o <<request(q)>>) = Frames(up[r]) \cup {request(q)}
      <4> SUFFICES ASSUME NEW r \in Runs
                   PROVE  /\ Once(up[r] \o <<request(q)>>)
                          /\ Frames(up[r] \o <<request(q)>>) = Frames(up[r]) \cup {request(q)}
        OBVIOUS
      <4> DEFINE old == up[r]
                 new == <<request(q)>>
      <4>1. /\ old \in Seq(UpFrames) /\ Once(old) /\ new \in Seq(UpFrames) /\ Once(new)
            /\ Frames(new) = {request(q)} /\ \A f \in Frames(new) : f \notin Frames(old)
        BY <3>1, <3>3, <3>4
      <4> HIDE DEF old, new
      <4>2. Once(old \o new) /\ Frames(old \o new) = Frames(old) \cup Frames(new)
        BY <4>1, ConcatFrames
      <4> QED BY <4>1, <4>2 DEF old, new
    <3>6. ASSUME NEW r \in Runs
          PROVE  /\ Once(up'[r])
                 /\ \A f \in Frames(up'[r]) : f \in Frames(up[r]) \/ (r = inflight /\ f = request(q))
      <4>1. CASE r = inflight
        <5>1. up'[r] = up[r] \o <<request(q)>>
          BY <3>2, <4>1
        <5> QED BY <3>5, <4>1, <5>1
      <4>2. CASE r # inflight
        BY <3>2, <3>3, <4>2
      <4> QED BY <4>1, <4>2
    <3> QED BY <3>2, <3>6
  <2> QED BY <2>1, <2>2 DEF Ask
<1>6. TypeOK'
  <2>1. /\ asker' \in [Requests -> Runs \cup {None}]
        /\ tool' \in [Requests -> {"unasked", "asked", "allowed", "denied"}]
    BY <1>0, <1>1 DEF IInv, TypeOK
  <2> QED BY <1>0, <1>5, <2>1 DEF IInv, TypeOK
<1>7. AskersKnown' /\ CallIsRequesters'
  BY <1>0, <1>2 DEF IInv, TypeOK, Calls, AskersKnown, CallIsRequesters
<1>8. Approved \subseteq Approved'
  BY <1>0, <1>2 DEF Approved
<1>9. (AllowedIsGranted /\ NoGhost /\ OneOpen /\ ReceiptIsTrue)'
  BY <1>0, <1>2 DEF IInv, AllowedIsGranted, NoGhost, OneOpen, ReceiptIsTrue, Open
<1>10. RecordsAgree'
  BY <1>0, <1>2, <1>8 DEF IInv, RecordsAgree
<1>11. ShownWhileWaiting'
  BY <1>0 DEF IInv, ShownWhileWaiting, waiting, Open
<1>12. (RequestsOnce /\ RequestsFresh /\ ReceiptsTrue)'
  <2>1. RequestsOnce'
    BY <1>5 DEF RequestsOnce
  <2>2. RequestsFresh'
    <3> SUFFICES ASSUME NEW r \in Runs, NEW f \in Frames(up'[r]), f.type = "approval.request"
                 PROVE  /\ asker'[f.req] = r /\ tool'[f.req] # "unasked"
                        /\ entry'[f.req] = None /\ audit'[f.req] = {}
      BY DEF RequestsFresh
    <3>1. CASE f \in Frames(up[r])
      <4>1. f.req \in Requests /\ f.req # q
        BY <1>0, <1>4, <3>1
      <4>2. asker[f.req] = r /\ tool[f.req] # "unasked" /\ entry[f.req] = None /\ audit[f.req] = {}
        BY <3>1 DEF IInv, RequestsFresh
      <4> QED BY <1>0, <1>2, <4>1, <4>2
    <3>2. CASE r = inflight /\ f = request(q)
      BY <1>0, <1>2, <1>3, <3>2
    <3> QED BY <1>5, <3>1, <3>2
  <2>3. ReceiptsTrue'
    <3> SUFFICES ASSUME NEW r \in Runs, NEW f \in Frames(up'[r]), f.type = "approval.received"
                 PROVE  tool'[f.req] = Answer(f.decision)
      BY DEF ReceiptsTrue
    <3>1. f \in Frames(up[r])
      BY <1>3, <1>5
    <3>2. f.req \in Requests /\ f.req # q
      BY <1>0, <1>4, <3>1
    <3> QED BY <1>2, <3>1, <3>2 DEF IInv, ReceiptsTrue
  <2> QED BY <2>1, <2>2, <2>3
<1>13. DecisionsGranted'
  BY <1>0, <1>8 DEF IInv, DecisionsGranted
<1> QED BY <1>6, <1>7, <1>9, <1>10, <1>11, <1>12, <1>13 DEF IInv

(* The daemon handles a frame: only a granted decision allows a tool. *)
LEMMA ClientHandlesStep ==
  ASSUME IInv, ClientHandles
  PROVE  IInv'
<1> DEFINE f == Head(down)
<1>0. /\ UNCHANGED <<bound, stream, held, shown, origin, entry, late, audit, call, connected,
                     asker, upsets>>
      /\ down # <<>> /\ down' = Tail(down) /\ Consume(f)
  BY DEF ClientHandles, serverVars, approverVars
<1>1. /\ down' \in Seq(DownFrames) /\ f \in DownFrames /\ f \in Frames(down)
      /\ Frames(down') \subseteq Frames(down)
  BY <1>0, TailFrames DEF IInv, TypeOK
<1> HIDE DEF f
<1>2. QuietDown /\ QuietServer
  BY <1>0, <1>1 DEF QuietDown, QuietServer
<1>3. /\ inflight' \in Runs \cup {None} /\ suppressed' \subseteq Runs
      /\ tool' \in [Requests -> {"unasked", "asked", "allowed", "denied"}] /\ QuietTool
      /\ up' \in [Runs -> Seq(UpFrames)] /\ QuietUp
  <2>1. CASE UNCHANGED up /\ Suppress /\ inflight' \in Runs \cup {None}
    <3>1. Abandon /\ suppressed' \subseteq Runs
      BY <2>1 DEF Suppress, IInv, TypeOK
    <3>2. QuietUp /\ up' \in [Runs -> Seq(UpFrames)]
      BY <2>1, SameMail DEF QuietUp, IInv, RequestsOnce
    <3> QED BY <2>1, <3>1, <3>2, AbandonEffect
  <2>2. CASE f.type = "approval.resolve" /\ f.req \in Pending /\ Finish(f.req, f.decision)
               /\ UNCHANGED <<inflight, suppressed>>
    <3>1. f.decision \in Decisions /\ (f.decision = "allow_once" => f.req \in Approved)
      BY <1>1, <2>2, DownFrame DEF IInv, DecisionsGranted
    <3> QED BY <2>2, <3>1, FinishEffect DEF IInv, TypeOK
  <2>3. CASE UNCHANGED <<inflight, suppressed, tool, up>>
    BY <2>3, SameMail DEF QuietTool, IInv, TypeOK
  <2>4. f.type = "task.assign" => f.run \in Runs
    BY <1>1, DownFrame
  <2> QED BY <1>0, <2>1, <2>2, <2>3, <2>4 DEF Consume
<1>4. TypeOK'
  BY <1>0, <1>1, <1>3 DEF IInv, TypeOK
<1> QED BY <1>2, <1>3, <1>4, QuietStep

(* Losing the connection or the daemon loses frames, and adds none. *)
LEMMA DisconnectStep ==
  ASSUME IInv, Break \/ Crash
  PROVE  IInv'
<1>0. /\ UNCHANGED <<bound, stream, shown, origin, entry, late, audit, call, asker>>
      /\ down' = <<>> /\ upsets' \in 0..MaxUpsets
  BY NoneIsNothing DEF Break, Crash, Disconnect, Upset, approverVars, IInv, TypeOK
<1>1. connected' \in BOOLEAN /\ held' \in BOOLEAN
  BY DEF Break, Crash, Disconnect
<1>2. /\ inflight' \in Runs \cup {None} /\ suppressed' \subseteq Runs
      /\ tool' \in [Requests -> {"unasked", "asked", "allowed", "denied"}] /\ QuietTool
  <2>1. CASE Break
    BY <2>1 DEF Break, QuietTool, IInv, TypeOK
  <2>2. CASE Crash
    BY <2>2, AbandonEffect DEF Crash, Suppress, IInv, TypeOK
  <2> QED BY <2>1, <2>2
<1>3. \A r \in Runs : up'[r] = up[r] \/ up'[r] = <<>>
  BY DEF Break, Crash
<1>4. up' \in [Runs -> Seq(UpFrames)]
  <2>1. up \in [Runs -> Seq(UpFrames)] /\ <<>> \in Seq(UpFrames)
    BY DEF IInv, TypeOK
  <2>2. CASE Break
    BY <2>1, <2>2 DEF Break
  <2>3. CASE Crash
    BY <2>1, <2>3 DEF Crash
  <2> QED BY <2>2, <2>3
<1>5. QuietUp
  BY <1>3, FewFrames DEF QuietUp, IInv, RequestsOnce
<1>6. down' \in Seq(DownFrames) /\ QuietDown
  BY <1>0, FewFrames DEF QuietDown
<1>7. TypeOK'
  BY <1>0, <1>1, <1>2, <1>4, <1>6 DEF IInv, TypeOK
<1>8. QuietServer
  BY <1>0 DEF QuietServer
<1> QED BY <1>2, <1>5, <1>6, <1>7, <1>8, QuietStep

(* The first decision on a pending record, by one entitled to decide. *)
LEMMA DecideStep ==
  ASSUME IInv, NEW q \in Requests, NEW d \in Decisions, NEW by \in Approvers,
         decide(q, d, by), by = "requester" => origin[asker[q]] = "requester",
         call' \in {call, None},
         UNCHANGED <<bound, stream, held, shown, origin, late, connected, up, inflight,
                     suppressed, asker, tool, upsets>>
  PROVE  IInv'
<1>1. CASE UNCHANGED <<entry, audit, down>>
  <2>1. TypeOK'
    BY <1>1 DEF IInv, TypeOK
  <2>2. QuietServer /\ QuietTool
    BY <1>1 DEF QuietServer, QuietTool
  <2> QED BY <1>1, <2>1, <2>2, SameMail, QuietStep
<1>2. CASE /\ entry[q] # None /\ entry[q].state = "pending"
           /\ entry' = [entry EXCEPT ![q].state = "decided", ![q].decision = d, ![q].by = by]
           /\ audit' = [audit EXCEPT ![q] = @ \cup {[decision |-> d, by |-> by]}]
           /\ Send(<<resolve(q, d)>>)
  <2> DEFINE e == [entry[q] EXCEPT !.state = "decided", !.decision = d, !.by = by]
             g == [decision |-> d, by |-> by]
  <2>1. audit[q] = {} /\ tool[q] # "unasked" /\ asker[q] = bound /\ tool[q] # "allowed"
    BY <1>2 DEF IInv, RecordsAgree, NoGhost, AllowedIsGranted
  <2>2. /\ e \in Entries /\ e.state = "decided" /\ e.decision = d /\ e.run = entry[q].run
    <3>1. entry[q] \in Entries
      BY <1>2, RecordIsOfOwner
    <3> QED BY <3>1, NoneIsNothing DEF Entries
  <2>3. g \in Grants
    BY DEF Grants
  <2>4. /\ entry' = [entry EXCEPT ![q] = e] /\ audit' = [audit EXCEPT ![q] = {g}]
    BY <1>2, <2>1 DEF IInv, TypeOK
  <2> HIDE DEF e
  <2>5. /\ entry'[q] = e /\ audit'[q] = {g}
        /\ \A p \in Requests : p # q => entry'[p] = entry[p] /\ audit'[p] = audit[p]
    BY <2>4 DEF IInv, TypeOK
  <2>6. /\ entry' \in [Requests -> Entries \cup {None}] /\ audit' \in [Requests -> SUBSET Grants]
    BY <2>2, <2>3, <2>4 DEF IInv, TypeOK
  <2>7. e # None /\ entry[q].run = bound
    BY <1>2, <2>2, NoneIsNothing DEF IInv, NoGhost
  <2>8. down' \in Seq(DownFrames) /\ Frames(down') \subseteq Frames(down) \cup {resolve(q, d)}
    <3>1. <<resolve(q, d)>> \in Seq(DownFrames)
      BY DEF DownFrames
    <3> QED BY <1>2, <3>1, SendEffect, FewFrames DEF IInv
  <2>9. Approved \subseteq Approved' /\ (d = "allow_once" => q \in Approved')
    <3>1. q \notin Approved
      BY <2>1 DEF Approved
    <3>2. d = "allow_once" => q \in Approved'
      BY <2>5 DEF Approved
    <3> QED BY <2>5, <3>1, <3>2 DEF Approved
  <2>10. TypeOK'
    BY <2>6, <2>8 DEF IInv, TypeOK
  <2>11. AskersKnown' /\ CallIsRequesters'
    BY <2>1, <2>5 DEF IInv, AskersKnown, CallIsRequesters
  <2>12. AllowedIsGranted'
    BY <2>1, <2>5 DEF IInv, AllowedIsGranted
  <2>13. (NoGhost /\ OneOpen /\ ReceiptIsTrue)'
    <3>1. \A p \in Requests : entry'[p] # None =>
            entry[p] # None /\ entry'[p].run = entry[p].run
      BY <1>2, <2>2, <2>5
    <3>2. NoGhost'
      BY <3>1 DEF IInv, NoGhost
    <3>3. OneOpen'
      BY <1>2, <2>2, <2>5 DEF IInv, OneOpen, Open
    <3>4. ReceiptIsTrue'
      BY <2>2, <2>5 DEF IInv, ReceiptIsTrue
    <3> QED BY <3>2, <3>3, <3>4
  <2>14. RecordsAgree'
    BY <2>1, <2>2, <2>5, <2>9 DEF IInv, RecordsAgree
  <2>15. ShownWhileWaiting'
    <3>1. waiting(bound)' = waiting(bound)
      BY <1>2, <2>2, <2>5, <2>7 DEF waiting, Open
    <3> QED BY <3>1 DEF IInv, ShownWhileWaiting
  <2>16. (RequestsOnce /\ RequestsFresh /\ ReceiptsTrue)'
    <3>1. \A r \in Runs : \A f \in Frames(up[r]) : f.type = "approval.request" => f.req \in Requests
      BY UpFrame DEF IInv, TypeOK, Frames
    <3>2. RequestsOnce' /\ ReceiptsTrue'
      BY DEF IInv, RequestsOnce, ReceiptsTrue
    <3>3. \A r \in Runs : \A f \in Frames(up[r]) : f.type = "approval.request" =>
            /\ asker[f.req] = r /\ tool[f.req] # "unasked"
            /\ entry[f.req] = None /\ audit[f.req] = {} /\ f.req \in Requests
      BY <3>1 DEF IInv, RequestsFresh
    <3>4. \A p \in Requests : entry[p] = None => entry'[p] = None /\ audit'[p] = audit[p]
      BY <1>2, <2>5
    <3>5. RequestsFresh'
      BY <3>3, <3>4 DEF RequestsFresh
    <3> QED BY <3>2, <3>5
  <2>17. DecisionsGranted'
    BY <2>8, <2>9 DEF IInv, DecisionsGranted, resolve
  <2> QED BY <2>10, <2>11, <2>12, <2>13, <2>14, <2>15, <2>16, <2>17 DEF IInv
<1> QED BY <1>1, <1>2 DEF decide

(* The owner is always entitled. *)
LEMMA OwnerDecidesStep ==
  ASSUME IInv, NEW q \in Requests, NEW d \in Decisions, OwnerDecides(q, d)
  PROVE  IInv'
BY DecideStep DEF OwnerDecides, clientVars, Approvers

(* The requester who is matched sent the message of the run that asked. *)
LEMMA MatchOriginStep ==
  ASSUME IInv, NEW q \in Requests, NEW d \in Decisions, MatchOrigin(q, d)
  PROVE  IInv'
<1>0. /\ UNCHANGED <<bound, stream, held, shown, origin, entry, late, audit, connected, up, down,
                     inflight, suppressed, asker, tool, upsets>>
      /\ call' = [req |-> q, decision |-> d]
      /\ entry[q] # None /\ origin[entry[q].run] = "requester"
  BY DEF MatchOrigin, CallStep, serverVars, clientVars
<1>1. TypeOK'
  BY <1>0 DEF IInv, TypeOK, Calls
<1>2. CallIsRequesters'
  BY <1>0, RecordIsOfOwner DEF IInv, RecordsAgree, CallIsRequesters
<1>3. (AskersKnown /\ NoGhost /\ OneOpen /\ ReceiptIsTrue /\ AllowedIsGranted)'
  BY <1>0 DEF IInv, AskersKnown, NoGhost, OneOpen, Open, ReceiptIsTrue, AllowedIsGranted
<1>4. Approved' = Approved
  BY <1>0 DEF Approved
<1>5. RecordsAgree' /\ DecisionsGranted'
  BY <1>0, <1>4 DEF IInv, RecordsAgree, DecisionsGranted
<1>6. ShownWhileWaiting'
  BY <1>0 DEF IInv, ShownWhileWaiting, waiting, Open
<1>7. (RequestsOnce /\ RequestsFresh /\ ReceiptsTrue)'
  BY <1>0 DEF IInv, RequestsOnce, RequestsFresh, ReceiptsTrue
<1> QED BY <1>1, <1>2, <1>3, <1>5, <1>6, <1>7 DEF IInv

(* By the time the requester decides, the entitlement still holds. *)
LEMMA RequesterDecidesStep ==
  ASSUME IInv, RequesterDecides
  PROVE  IInv'
<1>0. /\ call # None /\ call' = None
      /\ UNCHANGED <<bound, stream, held, shown, origin, late, connected, up, inflight,
                     suppressed, asker, tool, upsets>>
      /\ decide(call.req, call.decision, "requester") \/ UNCHANGED <<entry, audit, down>>
  BY DEF RequesterDecides, clientVars
<1>1. call.req \in Requests /\ call.decision \in Decisions /\ origin[asker[call.req]] = "requester"
  BY <1>0 DEF IInv, TypeOK, Calls, CallIsRequesters
<1>2. CASE decide(call.req, call.decision, "requester")
  BY <1>0, <1>1, <1>2, DecideStep DEF Approvers
<1>3. CASE UNCHANGED <<entry, audit, down>>
  <2>1. TypeOK'
    BY <1>0, <1>3 DEF IInv, TypeOK
  <2>2. QuietServer /\ QuietTool
    BY <1>0, <1>3 DEF QuietServer, QuietTool
  <2> QED BY <1>0, <1>3, <2>1, <2>2, SameMail, QuietStep
<1> QED BY <1>0, <1>2, <1>3

(* The server takes the first frame of a mailbox. *)
LEMMA TakeEffect ==
  ASSUME IInv, NEW r \in Runs, up[r] # <<>>, up' = [up EXCEPT ![r] = Tail(@)]
  PROVE  /\ up' \in [Runs -> Seq(UpFrames)]
         /\ \A p \in Runs : Once(up'[p]) /\ Frames(up'[p]) \subseteq Frames(up[p])
         /\ Head(up[r]) \in Frames(up[r]) /\ Head(up[r]) \in UpFrames
         /\ Head(up[r]).type = "approval.request" => Head(up[r]) \notin Frames(up'[r])
<1>1. up \in [Runs -> Seq(UpFrames)] /\ up[r] \in Seq(UpFrames) /\ \A p \in Runs : Once(up[p])
  BY DEF IInv, TypeOK, RequestsOnce
<1>2. /\ Tail(up[r]) \in Seq(UpFrames) /\ Head(up[r]) \in UpFrames /\ Head(up[r]) \in Frames(up[r])
      /\ Frames(Tail(up[r])) \subseteq Frames(up[r]) /\ Once(Tail(up[r]))
      /\ Head(up[r]).type = "approval.request" => Head(up[r]) \notin Frames(Tail(up[r]))
  BY <1>1, TailFrames
<1>3. \A p \in Runs : up'[p] = IF p = r THEN Tail(up[r]) ELSE up[p]
  BY <1>1
<1>4. up' \in [Runs -> Seq(UpFrames)]
  BY <1>1, <1>2
<1> QED BY <1>1, <1>2, <1>3, <1>4

(* The records and the status alone change: what is left to show. *)
LEMMA RecordStep ==
  ASSUME IInv, TypeOK',
         UNCHANGED <<bound, stream, origin, audit, call, down, asker, tool>>,
         \A r \in Runs : Once(up'[r]) /\ Frames(up'[r]) \subseteq Frames(up[r]),
         NoGhost', RecordsAgree', OneOpen', ReceiptIsTrue', ShownWhileWaiting', RequestsFresh'
  PROVE  IInv'
<1>1. (AskersKnown /\ CallIsRequesters /\ AllowedIsGranted)'
  BY DEF IInv, AskersKnown, CallIsRequesters, AllowedIsGranted
<1>2. RequestsOnce' /\ ReceiptsTrue'
  BY DEF IInv, RequestsOnce, ReceiptsTrue
<1>3. Approved' = Approved
  BY DEF Approved
<1>4. DecisionsGranted'
  BY <1>3 DEF IInv, DecisionsGranted
<1> QED BY <1>1, <1>2, <1>4 DEF IInv

(* A request from the run that owns the task opens a record, or fails the run. *)
LEMMA HandleRequestStep ==
  ASSUME IInv, NEW r \in Runs, NEW q \in Requests, bound = r,
         up[r] # <<>>, up' = [up EXCEPT ![r] = Tail(@)], Head(up[r]) = request(q),
         HandleRequest(r, q),
         UNCHANGED <<origin, late, audit, call, connected, inflight, suppressed, asker, tool, upsets>>
  PROVE  IInv'
<1>1. request(q).type = "approval.request" /\ request(q).req = q
  BY DEF request
<1>2. asker[q] = r /\ tool[q] # "unasked" /\ entry[q] = None /\ audit[q] = {}
  <2>1. request(q) \in Frames(up[r])
    BY TakeEffect
  <2> QED BY <1>1, <2>1 DEF IInv, RequestsFresh
<1>3. CASE Send(<<cancel(r)>>) /\ Unbind
  <2>1. <<cancel(r)>> \in Seq(DownFrames)
    BY DEF DownFrames
  <2>2. down' \in Seq(DownFrames) /\ Frames(down') \subseteq Frames(down) \cup {cancel(r)}
    BY <1>3, <2>1, SendEffect, FewFrames DEF IInv
  <2>3. QuietDown
    BY <2>2 DEF QuietDown, cancel
  <2>4. up' \in [Runs -> Seq(UpFrames)] /\ QuietUp
    BY TakeEffect DEF QuietUp
  <2> QED BY <1>3, <2>2, <2>3, <2>4, UnbindStep
<1>4. CASE /\ waiting(r) = {} /\ Show("auth-required") /\ held' = FALSE
           /\ entry' = [entry EXCEPT ![q] =
                          [run |-> r, state |-> "pending", decision |-> None, by |-> None]]
           /\ UNCHANGED <<bound, stream, down>>
  <2> DEFINE e == [run |-> r, state |-> "pending", decision |-> None, by |-> None]
  <2>1. e \in Entries /\ e.state = "pending" /\ e.run = r /\ e # None
    BY NoneIsNothing DEF Entries
  <2>2. entry' = [entry EXCEPT ![q] = e]
    BY <1>4
  <2> HIDE DEF e
  <2>3. /\ entry' \in [Requests -> Entries \cup {None}]
        /\ entry'[q] = e /\ \A p \in Requests : p # q => entry'[p] = entry[p]
    BY <2>1, <2>2 DEF IInv, TypeOK
  <2>4. TypeOK'
    <3>1. held' \in BOOLEAN /\ connected' \in BOOLEAN
      BY <1>4 DEF IInv, TypeOK
    <3>2. shown' \in {"working", "auth-required"}
      BY <1>4 DEF IInv, TypeOK, Show
    <3>3. up' \in [Runs -> Seq(UpFrames)]
      BY TakeEffect
    <3> QED BY <1>4, <2>3, <3>1, <3>2, <3>3 DEF IInv, TypeOK
  <2>5. \A p \in Requests : ~Open(p)
    BY <1>4 DEF waiting, IInv, NoGhost, Open
  <2>6. NoGhost'
    BY <1>2, <1>4, <2>1, <2>3 DEF IInv, NoGhost
  <2>7. RecordsAgree'
    <3>1. Approved' = Approved
      BY DEF Approved
    <3> QED BY <1>2, <2>1, <2>3, <3>1 DEF IInv, RecordsAgree
  <2>8. OneOpen'
    BY <2>3, <2>5 DEF OneOpen, Open
  <2>9. ReceiptIsTrue'
    BY <2>1, <2>3 DEF IInv, ReceiptIsTrue
  <2>10. ShownWhileWaiting'
    <3>1. waiting(bound)' # {}
      BY <1>4, <2>1, <2>3 DEF waiting, Open
    <3> QED BY <1>4, <3>1 DEF ShownWhileWaiting, Show
  <2>11. RequestsFresh'
    <3> SUFFICES ASSUME NEW p \in Runs, NEW f \in Frames(up'[p]), f.type = "approval.request"
                 PROVE  asker[f.req] = p /\ tool[f.req] # "unasked" /\ entry'[f.req] = None /\ audit[f.req] = {}
      BY DEF RequestsFresh
    <3>1. f \in Frames(up[p]) /\ f \in UpFrames
      BY TakeEffect DEF IInv, TypeOK, Frames
    <3>2. f = request(f.req) /\ f.req \in Requests
      BY <3>1, UpFrame
    <3>3. asker[f.req] = p /\ tool[f.req] # "unasked" /\ entry[f.req] = None /\ audit[f.req] = {}
      BY <3>1 DEF IInv, RequestsFresh
    <3>4. f.req # q
      BY <1>1, <1>2, <3>2, <3>3, TakeEffect
    <3> QED BY <2>3, <3>2, <3>3, <3>4
  <2> QED BY <1>4, <2>4, <2>6, <2>7, <2>8, <2>9, <2>10, <2>11, TakeEffect, RecordStep
<1>5. CASE q \in late \/ waiting(r) # {}
  BY <1>3, <1>5 DEF HandleRequest
<1>6. CASE ~(q \in late \/ waiting(r) # {})
  BY <1>4, <1>6 DEF HandleRequest
<1> QED BY <1>5, <1>6

(* A receipt closes the one open record. *)
LEMMA HandleReceivedStep ==
  ASSUME IInv, NEW r \in Runs, NEW q \in Requests, NEW d \in Decisions, bound = r,
         up[r] # <<>>, up' = [up EXCEPT ![r] = Tail(@)], Head(up[r]) = received(q, d),
         HandleReceived(r, q, d),
         UNCHANGED <<origin, late, audit, call, connected, inflight, suppressed, asker, tool, upsets>>
  PROVE  IInv'
<1>1. tool[q] = Answer(d)
  <2>1. received(q, d) \in Frames(up[r])
    BY TakeEffect
  <2> QED BY <2>1, ReceiptFrame DEF IInv, ReceiptsTrue
<1>2. held' = FALSE /\ UNCHANGED <<bound, stream, down>>
  BY DEF HandleReceived
<1>3. up' \in [Runs -> Seq(UpFrames)] /\ held' \in BOOLEAN /\ connected' \in BOOLEAN
  BY <1>2, TakeEffect DEF IInv, TypeOK
<1>4. \A p \in Runs : Once(up'[p]) /\ Frames(up'[p]) \subseteq Frames(up[p])
  BY TakeEffect
<1>5. Approved' = Approved
  BY DEF Approved
<1>6. CASE UNCHANGED <<entry, shown>>
  <2>1. TypeOK'
    BY <1>2, <1>3, <1>6 DEF IInv, TypeOK
  <2>2. QuietServer /\ QuietTool /\ QuietUp
    BY <1>2, <1>4, <1>6 DEF QuietServer, QuietTool, QuietUp
  <2> QED BY <1>2, <2>1, <2>2, SameMail, QuietStep
<1>7. CASE /\ Open(q) /\ Show("working")
           /\ entry' = [entry EXCEPT ![q].state = "received", ![q].decision = d]
  <2> DEFINE e == [entry[q] EXCEPT !.state = "received", !.decision = d]
  <2>1. entry[q] # None /\ entry[q].run = r /\ asker[q] = r /\ tool[q] # "unasked" /\ entry[q] \in Entries
    BY <1>7, RecordIsOfOwner DEF Open, IInv, RecordsAgree
  <2>2. e \in Entries /\ e.state = "received" /\ e.decision = d /\ e.run = r
    BY <2>1, NoneIsNothing DEF Entries
  <2>3. entry' = [entry EXCEPT ![q] = e]
    BY <1>7 DEF IInv, TypeOK
  <2> HIDE DEF e
  <2>4. /\ entry' \in [Requests -> Entries \cup {None}]
        /\ entry'[q] = e /\ \A p \in Requests : p # q => entry'[p] = entry[p]
    BY <2>2, <2>3 DEF IInv, TypeOK
  <2>5. TypeOK'
    <3>1. shown' \in {"working", "auth-required"}
      BY <1>7 DEF IInv, TypeOK, Show
    <3> QED BY <1>2, <1>3, <2>4, <3>1 DEF IInv, TypeOK
  <2>6. NoGhost'
    BY <1>2, <2>1, <2>2, <2>4 DEF IInv, NoGhost
  <2>7. RecordsAgree'
    BY <1>5, <2>1, <2>2, <2>4 DEF IInv, RecordsAgree
  <2>8. OneOpen'
    BY <2>2, <2>4 DEF IInv, OneOpen, Open
  <2>9. ReceiptIsTrue'
    BY <1>1, <2>2, <2>4 DEF IInv, ReceiptIsTrue, Answer
  <2>10. ShownWhileWaiting'
    <3>1. waiting(bound)' = {}
      BY <1>7, <2>2, <2>4 DEF waiting, IInv, OneOpen, Open
    <3> QED BY <1>2, <1>7, <3>1 DEF ShownWhileWaiting, Show
  <2>11. RequestsFresh'
    <3>1. \A p \in Runs : \A f \in Frames(up[p]) : f.type = "approval.request" => f.req \in Requests
      BY UpFrame DEF IInv, TypeOK, Frames
    <3>2. \A p \in Requests : entry[p] = None => entry'[p] = None
      BY <2>1, <2>4
    <3> QED BY <1>4, <3>1, <3>2 DEF IInv, RequestsFresh
  <2> QED BY <1>2, <1>4, <2>5, <2>6, <2>7, <2>8, <2>9, <2>10, <2>11, RecordStep
<1> QED BY <1>6, <1>7 DEF HandleReceived

(* A status frame repeats an open approval. *)
LEMMA HandleStatusStep ==
  ASSUME IInv, NEW r \in Runs, bound = r,
         up[r] # <<>>, up' = [up EXCEPT ![r] = Tail(@)], HandleStatus(r),
         UNCHANGED <<origin, late, audit, call, connected, inflight, suppressed, asker, tool, upsets>>
  PROVE  IInv'
<1>1. /\ held' = FALSE /\ UNCHANGED <<bound, stream, entry, down>>
      /\ Show(IF waiting(r) # {} THEN "auth-required" ELSE "working")
  BY DEF HandleStatus
<1>2. TypeOK'
  <2>1. held' \in BOOLEAN /\ connected' \in BOOLEAN
    BY <1>1 DEF IInv, TypeOK
  <2>2. shown' \in {"working", "auth-required"}
    BY <1>1 DEF IInv, TypeOK, Show
  <2>3. up' \in [Runs -> Seq(UpFrames)]
    BY TakeEffect
  <2> QED BY <1>1, <2>1, <2>2, <2>3 DEF IInv, TypeOK
<1>3. (NoGhost /\ OneOpen /\ ReceiptIsTrue)'
  BY <1>1 DEF IInv, NoGhost, OneOpen, ReceiptIsTrue, Open
<1>4. RecordsAgree'
  <2>1. Approved' = Approved
    BY DEF Approved
  <2> QED BY <1>1, <2>1 DEF IInv, RecordsAgree
<1>5. ShownWhileWaiting'
  <2>1. waiting(bound)' = waiting(r)
    BY <1>1 DEF waiting, Open
  <2> QED BY <1>1, <2>1 DEF ShownWhileWaiting, Show
<1>6. \A p \in Runs : Once(up'[p]) /\ Frames(up'[p]) \subseteq Frames(up[p])
  BY TakeEffect
<1>7. RequestsFresh'
  BY <1>1, <1>6 DEF IInv, RequestsFresh
<1> QED BY <1>1, <1>2, <1>3, <1>4, <1>5, <1>6, <1>7, RecordStep

(* Whatever the server takes from a mailbox preserves the invariant. *)
LEMMA ServerHandlesStep ==
  ASSUME IInv, NEW r \in Runs, ServerHandles(r)
  PROVE  IInv'
<1> DEFINE f == Head(up[r])
<1>0. /\ up[r] # <<>> /\ up' = [up EXCEPT ![r] = Tail(@)]
      /\ UNCHANGED <<origin, late, audit, call, connected, inflight, suppressed, asker, tool, upsets>>
  BY DEF ServerHandles, approverVars, clientVars
<1>1. f \in UpFrames
  BY <1>0, TakeEffect
<1>2. up' \in [Runs -> Seq(UpFrames)] /\ QuietUp
  BY <1>0, TakeEffect DEF QuietUp
<1>3. CASE bound # r /\ UNCHANGED <<bound, stream, held, shown, entry, down>>
  <2>1. TypeOK'
    BY <1>0, <1>2, <1>3 DEF IInv, TypeOK
  <2>2. QuietServer /\ QuietTool
    BY <1>0, <1>3 DEF QuietServer, QuietTool
  <2> QED BY <1>2, <1>3, <2>1, <2>2, SameMail, QuietStep
<1>4. CASE bound = r /\ f.type = "approval.request" /\ HandleRequest(r, f.req)
  BY <1>0, <1>1, <1>4, UpFrame, HandleRequestStep
<1>5. CASE bound = r /\ f.type = "approval.received" /\ HandleReceived(r, f.req, f.decision)
  BY <1>0, <1>1, <1>5, UpFrame, HandleReceivedStep
<1>6. CASE bound = r /\ f.type = "task.status" /\ HandleStatus(r)
  BY <1>0, <1>6, HandleStatusStep
<1>7. CASE bound = r /\ f.type = "task.complete" /\ Unbind /\ UNCHANGED down
  BY <1>0, <1>2, <1>7, SameMail, UnbindStep
<1> QED BY <1>3, <1>4, <1>5, <1>6, <1>7 DEF ServerHandles

-----------------------------------------------------------------------------
(* Every step preserves the invariant. *)
THEOREM StepInvariant == IInv /\ [Next]_vars => IInv'
<1> SUFFICES ASSUME IInv, [Next]_vars PROVE IInv'
  OBVIOUS
<1>1. ASSUME NEW r \in Runs, ServerHandles(r) PROVE IInv'
  BY <1>1, ServerHandlesStep
<1>2. ASSUME NEW r \in Runs, NEW who \in Origins, Dispatch(r, who) PROVE IInv'
  BY <1>2, DispatchStep
<1>3. CASE Cancel \/ Watchdog
  BY <1>3, CloseStreamStep DEF Cancel, Watchdog
<1>4. CASE Exit \/ HoldExpires
  BY <1>4, ExitStep
<1>5. ASSUME NEW q \in Requests, Resend(q) PROVE IInv'
  BY <1>5, ResendStep
<1>6. ASSUME NEW q \in Requests, Expire(q) PROVE IInv'
  BY <1>6, ExpireStep
<1>7. CASE (\E q \in Requests : DeadlinePasses(q)) \/ RequesterRefused \/ Reconnect \/ UNCHANGED vars
  BY <1>7, IdleStep
<1>8. ASSUME NEW q \in Requests, NEW d \in Decisions, OwnerDecides(q, d) PROVE IInv'
  BY <1>8, OwnerDecidesStep
<1>9. ASSUME NEW q \in Requests, NEW d \in Decisions, MatchOrigin(q, d) PROVE IInv'
  BY <1>9, MatchOriginStep
<1>10. CASE RequesterDecides
  BY <1>10, RequesterDecidesStep
<1>11. ASSUME NEW q \in Requests, Ask(q) PROVE IInv'
  BY <1>11, AskStep
<1>12. ASSUME NEW q \in Requests, Withdraw(q) PROVE IInv'
  BY <1>12, WithdrawStep
<1>13. CASE Progress \/ Return \/ ClientHandles \/ Break \/ Crash
  BY <1>13, ProgressStep, ReturnStep, ClientHandlesStep, DisconnectStep
<1> QED BY <1>1, <1>2, <1>3, <1>4, <1>5, <1>6, <1>7, <1>8, <1>9, <1>10, <1>11, <1>12, <1>13 DEF Next

(* The inductive invariant holds in every behaviour. *)
THEOREM Safety == Spec => []IInv
BY InitInvariant, StepInvariant, PTL DEF Spec

(* Every variable keeps to its type, records among them: a decided record names its *)
(* decision and who decided.                                                       *)
THEOREM TypeCorrect == Spec => []TypeOK
<1>1. IInv => TypeOK
  BY DEF IInv
<1> QED BY <1>1, Safety, PTL

(* A tool runs only on one recorded decision, an allow by one entitled to. *)
THEOREM AllowedToolsAreGranted == Spec => []AllowedIsGranted
<1>1. IInv => AllowedIsGranted
  BY DEF IInv
<1> QED BY <1>1, Safety, PTL

(* Nothing of a superseded, failed or finished run can still be decided. *)
THEOREM RecordsAreOfTheOwner == Spec => []NoGhost
<1>1. IInv => NoGhost
  BY DEF IInv
<1> QED BY <1>1, Safety, PTL

(* An open stream says auth-required exactly while an approval is open. *)
THEOREM StatusShowsApprovals == Spec => []ShownWhileWaiting
<1>1. IInv => ShownWhileWaiting
  BY DEF IInv
<1> QED BY <1>1, Safety, PTL

(* What a record says was received is what the backend was told. *)
THEOREM ReceiptsAreTrue == Spec => []ReceiptIsTrue
<1>1. IInv => ReceiptIsTrue
  BY DEF IInv
<1> QED BY <1>1, Safety, PTL
-----------------------------------------------------------------------------
(* Requests and receipts keep their order: no request of the run that owns    *)
(* the task reaches the server while another is open.                         *)

(* A decision is the only one granted.                                        *)
DecisionsAlone ==
  \A q \in Requests : entry[q] # None /\ entry[q].state = "decided" =>
    audit[q] = {[decision |-> entry[q].decision, by |-> entry[q].by]}

(* A run that is assigned has not been before: it has asked nothing.          *)
AssignedOnce ==
  \A i, j \in 1..Len(down) : down[i].type = "task.assign" /\ down[i] = down[j] => i = j

AssignedFresh ==
  \A f \in Frames(down) : f.type = "task.assign" =>
    /\ origin[f.run] # None /\ f.run # inflight /\ f.run \notin suppressed
    /\ \A q \in Requests : asker[q] # f.run

RunsDispatched ==
  /\ \A q \in Requests : asker[q] # None => origin[asker[q]] # None
  /\ inflight # None => origin[inflight] # None /\ inflight \notin suppressed
  /\ \A r \in suppressed : origin[r] # None

Asks(r, i) == up[r][i].type = "approval.request"
Receipt(r, j, q) == up[r][j].type = "approval.received" /\ up[r][j].req = q

(* What is open at the server, or asked before in the same mailbox, has its   *)
(* receipt in front of the next request.                                      *)
OpenBefore(r) ==
  \A i \in 1..Len(up[r]) : Asks(r, i) =>
    \A q \in waiting(r) : \E j \in 1..Len(up[r]) : j < i /\ Receipt(r, j, q)

AskedBefore(r) ==
  \A i, k \in 1..Len(up[r]) : i < k /\ Asks(r, i) /\ Asks(r, k) =>
    \E j \in 1..Len(up[r]) : i < j /\ j < k /\ Receipt(r, j, up[r][i].req)

(* What the run at work does not ask any more has its receipt under way.      *)
OpenAnswered ==
  inflight # None => \A q \in waiting(inflight) \ Pending :
    \E j \in 1..Len(up[inflight]) : Receipt(inflight, j, q)

AskedAnswered ==
  inflight # None => \A i \in 1..Len(up[inflight]) :
    Asks(inflight, i) /\ up[inflight][i].req \notin Pending =>
      \E j \in 1..Len(up[inflight]) : i < j /\ Receipt(inflight, j, up[inflight][i].req)

InOrder == \A r \in Runs : OpenBefore(r) /\ AskedBefore(r)

Runners == AssignedOnce /\ AssignedFresh /\ RunsDispatched

Mail == InOrder /\ OpenAnswered /\ AskedAnswered

OrderInv == DecisionsAlone /\ Runners /\ Mail

(* Nothing has been sent.                                                     *)
LEMMA InitOrder == Init => OrderInv
BY FewFrames DEF Init, OrderInv, DecisionsAlone, Runners, AssignedOnce, AssignedFresh, RunsDispatched,
   Mail, InOrder, OpenBefore, AskedBefore, OpenAnswered, AskedAnswered

NoNewAssign ==
  \A i \in 1..Len(down') : down'[i].type = "task.assign" => i \in 1..Len(down) /\ down'[i] = down[i]

(* Cancellations and decisions assign nothing.                                *)
LEMMA SendAssignsNothing ==
  ASSUME TypeOK, NEW fs \in Seq(DownFrames), Send(fs),
         \A i \in 1..Len(fs) : fs[i].type # "task.assign"
  PROVE  NoNewAssign
<1>1. down \in Seq(DownFrames)
  BY DEF TypeOK
<1>2. CASE connected
  <2>1. down' = down \o fs
    BY <1>2 DEF Send
  <2>2. \A i \in 1..Len(down \o fs) : \/ i \in 1..Len(down) /\ (down \o fs)[i] = down[i]
                                      \/ i - Len(down) \in 1..Len(fs) /\ (down \o fs)[i] = fs[i - Len(down)]
    BY <1>1
  <2> QED BY <2>1, <2>2 DEF NoNewAssign
<1>3. CASE ~connected
  BY <1>3 DEF Send, NoNewAssign
<1> QED BY <1>2, <1>3

(* A run that was at work may ask or be given up; no run is assigned.         *)
LEMMA RunnersKeep ==
  ASSUME TypeOK, Runners, UNCHANGED origin, NoNewAssign,
         \A q \in Requests : asker'[q] = asker[q] \/ (inflight # None /\ asker'[q] = inflight),
         inflight' \in {inflight, None},
         suppressed' \subseteq suppressed \cup ({inflight} \ {None}),
         inflight' = None \/ suppressed' = suppressed
  PROVE  Runners'
<1>1. AssignedOnce'
  BY DEF Runners, AssignedOnce, NoNewAssign
<1>2. AssignedFresh'
  <2>1. ASSUME NEW f \in Frames(down'), f.type = "task.assign" PROVE f \in Frames(down)
    BY <2>1 DEF Frames, NoNewAssign
  <2>2. ASSUME NEW f \in Frames(down'), f.type = "task.assign"
        PROVE  /\ origin'[f.run] # None /\ f.run # inflight' /\ f.run \notin suppressed'
               /\ \A q \in Requests : asker'[q] # f.run
    <3>1. /\ origin[f.run] # None /\ f.run # inflight /\ f.run \notin suppressed
          /\ \A q \in Requests : asker[q] # f.run
      BY <2>1, <2>2 DEF Runners, AssignedFresh
    <3>2. f \in DownFrames
      <4>1. f \in Frames(down) /\ down \in Seq(DownFrames)
        BY <2>1, <2>2 DEF TypeOK
      <4> QED BY <4>1 DEF Frames
    <3>3. f.run \in Runs
      BY <2>2, <3>2, DownFrame
    <3> QED BY <3>1, <3>3, NoneIsNothing
  <2> QED BY <2>2 DEF AssignedFresh
<1>3. RunsDispatched'
  BY DEF Runners, RunsDispatched
<1> QED BY <1>1, <1>2, <1>3 DEF Runners

(* Nothing is asked or answered: records and mailboxes may go.                *)
LEMMA MailKeeps ==
  ASSUME TypeOK, Mail,
         \A r \in Runs : waiting(r)' \subseteq waiting(r),
         \A r \in Runs : up'[r] = up[r] \/ up'[r] = <<>>,
         \/ inflight' = None
         \/ inflight' = inflight /\ up'[inflight] = up[inflight] /\ Pending \subseteq Pending'
  PROVE  Mail'
<1>1. ASSUME NEW r \in Runs PROVE OpenBefore(r)' /\ AskedBefore(r)'
  <2>1. CASE up'[r] = up[r]
    BY <2>1 DEF Mail, InOrder, OpenBefore, AskedBefore, Asks, Receipt
  <2>2. CASE up'[r] = <<>>
    BY <2>2 DEF OpenBefore, AskedBefore
  <2> QED BY <2>1, <2>2
<1>2. CASE inflight' = None
  BY <1>1, <1>2 DEF Mail, InOrder, OpenAnswered, AskedAnswered
<1>3. CASE inflight' # None
  <2>1. inflight' = inflight /\ inflight \in Runs /\ up'[inflight] = up[inflight] /\ Pending \subseteq Pending'
    BY <1>3 DEF TypeOK
  <2>2. waiting(inflight)' \subseteq waiting(inflight)
    BY <2>1
  <2>3. OpenAnswered' /\ AskedAnswered'
    BY <2>1, <2>2 DEF Mail, OpenAnswered, AskedAnswered, Asks, Receipt
  <2> QED BY <1>1, <2>3 DEF Mail, InOrder
<1> QED BY <1>2, <1>3

(* A mailbox that stays as it is keeps its order, while records only go.      *)
LEMMA SameBox ==
  ASSUME NEW r \in Runs, OpenBefore(r), AskedBefore(r), up'[r] = up[r], waiting(r)' \subseteq waiting(r)
  PROVE  OpenBefore(r)' /\ AskedBefore(r)'
BY DEF OpenBefore, AskedBefore, Asks, Receipt

LEMMA SameWork ==
  ASSUME OpenAnswered, AskedAnswered, UNCHANGED inflight, Pending \subseteq Pending',
         inflight # None => up'[inflight] = up[inflight] /\ waiting(inflight)' \subseteq waiting(inflight)
  PROVE  OpenAnswered' /\ AskedAnswered'
BY DEF OpenAnswered, AskedAnswered, Asks, Receipt

(* The same, read off a mailbox t of m frames, for open requests W and those  *)
(* the daemon still asks P.                                                   *)
Receipts(t, m, i, k, q) ==
  \E j \in 1..m : i < j /\ j < k /\ t[j].type = "approval.received" /\ t[j].req = q

OpenFirst(t, m, W) ==
  \A i \in 1..m : t[i].type = "approval.request" => \A q \in W : Receipts(t, m, 0, i, q)

AskedFirst(t, m) ==
  \A i, k \in 1..m :
    i < k /\ t[i].type = "approval.request" /\ t[k].type = "approval.request" =>
      Receipts(t, m, i, k, t[i].req)

OpenDone(t, m, W, P) == \A q \in W \ P : Receipts(t, m, 0, m + 1, q)

AskedDone(t, m, P) ==
  \A i \in 1..m : t[i].type = "approval.request" /\ t[i].req \notin P =>
    Receipts(t, m, i, m + 1, t[i].req)

LEMMA OrderOf ==
  ASSUME NEW r \in Runs, NEW t, t = up'[r], NEW m \in Nat, Len(t) = m
  PROVE  /\ OpenFirst(t, m, waiting(r)') => OpenBefore(r)'
         /\ AskedFirst(t, m) => AskedBefore(r)'
         /\ inflight' = r /\ OpenDone(t, m, waiting(r)', Pending') => OpenAnswered'
         /\ inflight' = r /\ AskedDone(t, m, Pending') => AskedAnswered'
<1>1. OpenFirst(t, m, waiting(r)') => OpenBefore(r)'
  BY DEF OpenFirst, Receipts, OpenBefore, Asks, Receipt
<1>2. AskedFirst(t, m) => AskedBefore(r)'
  BY DEF AskedFirst, Receipts, AskedBefore, Asks, Receipt
<1>3. inflight' = r /\ OpenDone(t, m, waiting(r)', Pending') => OpenAnswered'
  BY DEF OpenDone, Receipts, OpenAnswered, Receipt
<1>4. inflight' = r /\ AskedDone(t, m, Pending') => AskedAnswered'
  BY DEF AskedDone, Receipts, AskedAnswered, Asks, Receipt
<1> QED BY <1>1, <1>2, <1>3, <1>4

(* The server takes the first frame: a request may become open, the record a  *)
(* receipt is about does not stay open.                                       *)
LEMMA TakenKeeps ==
  ASSUME TypeOK, Mail, NEW r \in Runs, up[r] # <<>>,
         up'[r] = Tail(up[r]), \A p \in Runs : p # r => up'[p] = up[p],
         UNCHANGED <<inflight, tool>>,
         \A p \in Runs : p # r => waiting(p)' \subseteq waiting(p),
         \A q \in waiting(r)' : \/ q \in waiting(r)
                                \/ Asks(r, 1) /\ up[r][1].req = q,
         \A q \in waiting(r)' : ~Receipt(r, 1, q)
  PROVE  Mail'
<1>1. /\ up \in [Runs -> Seq(UpFrames)] /\ up[r] \in Seq(UpFrames)
      /\ up'[r] = Tail(up[r]) /\ \A p \in Runs : p # r => up'[p] = up[p]
  BY DEF TypeOK
<1>2. PICK t : t = up'[r]
  OBVIOUS
<1> DEFINE n == Len(up[r])
<1>3. n \in Nat /\ n - 1 \in Nat
  BY <1>1
<1>4. PICK m \in Nat : m = n - 1
  BY <1>3
<1>5. n \in Nat /\ n >= 1 /\ m \in Nat /\ n = m + 1 /\ Len(t) = m
  BY <1>1, <1>2, <1>3, <1>4
<1>6. \A i \in 1..m : i + 1 \in 1..n /\ t[i] = up[r][i + 1]
  BY <1>1, <1>5, <1>2
<1>7. \A j \in 2..n : j - 1 \in 1..m /\ t[j - 1] = up[r][j]
  BY <1>1, <1>5, <1>2
<1> DEFINE Now(j, q) == t[j].type = "approval.received" /\ t[j].req = q
           AsksNow(i) == t[i].type = "approval.request"
<1>8. \A q : \A j \in 2..n : Receipt(r, j, q) => j - 1 \in 1..m /\ Now(j - 1, q)
  BY <1>7 DEF Receipt
<1>9. \A i \in 1..m : AsksNow(i) => i + 1 \in 1..n /\ Asks(r, i + 1) /\ t[i].req = up[r][i + 1].req
  BY <1>6 DEF Asks
<1>10. 1 \in 1..n
  BY <1>5
<1> HIDE DEF n, Now, AsksNow
<1>11. /\ \A i \in 1..n : Asks(r, i) => \A q \in waiting(r) : \E j \in 1..n : j < i /\ Receipt(r, j, q)
      /\ \A i, k \in 1..n : i < k /\ Asks(r, i) /\ Asks(r, k) =>
           \E j \in 1..n : i < j /\ j < k /\ Receipt(r, j, up[r][i].req)
  BY DEF n, Mail, InOrder, OpenBefore, AskedBefore
<1>12. OpenBefore(r)'
  <2>1. ASSUME NEW i \in 1..m, AsksNow(i), NEW q \in waiting(r)'
        PROVE  \E j \in 1..m : j < i /\ Now(j, q)
    <3>1. i + 1 \in 1..n /\ Asks(r, i + 1)
      BY <1>9, <2>1
    <3>2. PICK j \in 1..n : j < i + 1 /\ 1 < j /\ Receipt(r, j, q)
      <4>1. CASE q \in waiting(r)
        <5>1. PICK j \in 1..n : j < i + 1 /\ Receipt(r, j, q)
          BY <1>11, <3>1, <4>1
        <5>2. j # 1
          BY <5>1
        <5> QED BY <1>5, <5>1, <5>2
      <4>2. CASE Asks(r, 1) /\ up[r][1].req = q
        BY <1>5, <1>10, <1>11, <3>1, <4>2
      <4> QED BY <4>1, <4>2
    <3>3. j \in 2..n /\ j - 1 < i
      BY <1>5, <3>2
    <3>4. j - 1 \in 1..m /\ Now(j - 1, q)
      BY <1>8, <3>2, <3>3
    <3> QED BY <3>3, <3>4
  <2>2. Len(t) = m
    BY <1>5
  <2>3. \A i \in 1..m : \A j \in 1..m : 0 < j
    OBVIOUS
  <2>4. OpenFirst(t, m, waiting(r)')
    BY <2>1, <2>3 DEF Now, AsksNow, OpenFirst, Receipts
  <2> QED BY <1>2, <1>5, <2>2, <2>4, OrderOf
<1>13. AskedBefore(r)'
  <2>1. ASSUME NEW i \in 1..m, NEW k \in 1..m, i < k, AsksNow(i), AsksNow(k)
        PROVE  \E j \in 1..m : i < j /\ j < k /\ Now(j, t[i].req)
    <3>1. /\ i + 1 \in 1..n /\ Asks(r, i + 1) /\ t[i].req = up[r][i + 1].req
          /\ k + 1 \in 1..n /\ Asks(r, k + 1)
      BY <1>9, <2>1
    <3>2. PICK j \in 1..n : i + 1 < j /\ j < k + 1 /\ Receipt(r, j, up[r][i + 1].req)
      BY <1>11, <2>1, <3>1
    <3>3. j \in 2..n /\ i < j - 1 /\ j - 1 < k
      BY <1>5, <3>2
    <3>4. j - 1 \in 1..m /\ Now(j - 1, t[i].req)
      BY <1>8, <3>1, <3>2, <3>3
    <3> QED BY <3>3, <3>4
  <2>2. Len(t) = m
    BY <1>5
  <2>3. AskedFirst(t, m)
    BY <2>1 DEF Now, AsksNow, AskedFirst, Receipts
  <2> QED BY <1>2, <1>5, <2>2, <2>3, OrderOf
<1>14. InOrder'
  <2>1. ASSUME NEW p \in Runs, p # r PROVE OpenBefore(p)' /\ AskedBefore(p)'
    <3>1. waiting(p)' \subseteq waiting(p) /\ up'[p] = up[p] /\ OpenBefore(p) /\ AskedBefore(p)
      BY <1>1, <2>1 DEF Mail, InOrder
    <3> QED BY <3>1, SameBox
  <2> QED BY <1>12, <1>13, <2>1 DEF InOrder
<1>15. Pending' = Pending
  BY DEF Pending
<1>16. OpenAnswered' /\ AskedAnswered'
  <2>1. CASE inflight = r
    <3>1. /\ \A q \in waiting(r) \ Pending : \E j \in 1..n : Receipt(r, j, q)
          /\ \A i \in 1..n : Asks(r, i) /\ up[r][i].req \notin Pending =>
               \E j \in 1..n : i < j /\ Receipt(r, j, up[r][i].req)
      BY <2>1, NoneIsNothing DEF n, Mail, OpenAnswered, AskedAnswered
    <3>2. ASSUME NEW q \in waiting(r)', q \notin Pending
          PROVE  \E j \in 1..m : Now(j, q)
      <4>1. PICK j \in 1..n : 1 < j /\ Receipt(r, j, q)
        <5>1. CASE q \in waiting(r)
          <6>1. PICK j \in 1..n : Receipt(r, j, q)
            BY <3>1, <3>2, <5>1
          <6>2. j # 1
            BY <3>2, <6>1
          <6> QED BY <1>5, <6>1, <6>2
        <5>2. CASE Asks(r, 1) /\ up[r][1].req = q
          BY <1>10, <3>1, <3>2, <5>2
        <5> QED BY <3>2, <5>1, <5>2
      <4>2. j \in 2..n
        BY <1>5, <4>1
      <4> QED BY <1>8, <4>1, <4>2
    <3>3. ASSUME NEW i \in 1..m, AsksNow(i), t[i].req \notin Pending
          PROVE  \E j \in 1..m : i < j /\ Now(j, t[i].req)
      <4>1. i + 1 \in 1..n /\ Asks(r, i + 1) /\ t[i].req = up[r][i + 1].req
        BY <1>9, <3>3
      <4>2. PICK j \in 1..n : i + 1 < j /\ Receipt(r, j, up[r][i + 1].req)
        BY <3>1, <3>3, <4>1
      <4>3. j \in 2..n /\ i < j - 1
        BY <1>5, <4>2
      <4>4. j - 1 \in 1..m /\ Now(j - 1, t[i].req)
        BY <1>8, <4>1, <4>2, <4>3
      <4> QED BY <4>3, <4>4
    <3>4. inflight' = r /\ Len(t) = m
      BY <1>5, <2>1
    <3>5. \A j \in 1..m : 0 < j /\ j < m + 1
      BY <1>5
    <3>6. OpenDone(t, m, waiting(r)', Pending')
      BY <1>15, <3>2, <3>5 DEF Now, OpenDone, Receipts
    <3>7. AskedDone(t, m, Pending')
      BY <1>15, <3>3, <3>5 DEF Now, AsksNow, AskedDone, Receipts
    <3> QED BY <1>2, <1>5, <3>4, <3>6, <3>7, OrderOf
  <2>2. CASE inflight # r
    <3>1. inflight # None =>
            inflight \in Runs /\ waiting(inflight)' \subseteq waiting(inflight) /\ up'[inflight] = up[inflight]
      BY <1>1, <2>2 DEF TypeOK
    <3> QED BY <1>15, <3>1, SameWork DEF Mail
  <2> QED BY <2>1, <2>2
<1> QED BY <1>14, <1>16 DEF Mail

(* The run at work sends no request, but a receipt for what it ceases to ask, *)
(* or it ends.                                                                *)
LEMMA AppendedKeeps ==
  ASSUME TypeOK, Mail, NEW fs \in Seq(UpFrames), Emit(fs),
         \A i \in 1..Len(fs) : fs[i].type # "approval.request",
         \A r \in Runs : waiting(r)' \subseteq waiting(r),
         \/ inflight' = None
         \/ /\ inflight' = inflight /\ inflight # None
            /\ \A q \in Pending \ Pending' :
                 \E i \in 1..Len(fs) : fs[i].type = "approval.received" /\ fs[i].req = q
  PROVE  Mail'
<1>1. \A r \in Runs : /\ up[r] \in Seq(UpFrames)
                      /\ up'[r] = IF r = inflight THEN up[r] \o fs ELSE up[r]
  BY EmitEffect DEF TypeOK
<1>2. ASSUME NEW r \in Runs, r # inflight PROVE OpenBefore(r)' /\ AskedBefore(r)'
  BY <1>1, <1>2, SameBox DEF Mail, InOrder
<1>3. ASSUME NEW r \in Runs, r = inflight
      PROVE  /\ OpenBefore(r)' /\ AskedBefore(r)'
             /\ inflight' # None => OpenAnswered' /\ AskedAnswered'
  <2> DEFINE s == up[r]
             n == Len(s)
             t == up'[r]
             m == Len(t)
  <2>1. s \in Seq(UpFrames) /\ t = s \o fs
    BY <1>1, <1>3
  <2>2. n \in Nat /\ Len(fs) \in Nat /\ m = n + Len(fs)
    BY <2>1
  <2>3. \A i \in 1..n : i \in 1..m /\ t[i] = s[i]
    BY <2>1, <2>2
  <2>4. \A i \in 1..Len(fs) : n + i \in 1..m /\ t[n + i] = fs[i] /\ n < n + i
    BY <2>1, <2>2
  <2>5. \A i \in 1..m : t[i].type = "approval.request" => i \in 1..n
    <3>1. \A i \in 1..m : i \in 1..n \/ (i - n \in 1..Len(fs) /\ t[i] = fs[i - n])
      BY <2>1, <2>2
    <3> QED BY <3>1
  <2>6. /\ \A i \in 1..n : s[i].type = "approval.request" =>
             \A q \in waiting(r) : \E j \in 1..n : j < i /\ s[j].type = "approval.received" /\ s[j].req = q
        /\ \A i, k \in 1..n : i < k /\ s[i].type = "approval.request" /\ s[k].type = "approval.request" =>
             \E j \in 1..n : i < j /\ j < k /\ s[j].type = "approval.received" /\ s[j].req = s[i].req
    BY DEF Mail, InOrder, OpenBefore, AskedBefore, Asks, Receipt
  <2>7. r # None
    BY NoneIsNothing
  <2>8. /\ \A q \in waiting(r) \ Pending :
             \E j \in 1..n : s[j].type = "approval.received" /\ s[j].req = q
        /\ \A i \in 1..n : s[i].type = "approval.request" /\ s[i].req \notin Pending =>
             \E j \in 1..n : i < j /\ s[j].type = "approval.received" /\ s[j].req = s[i].req
    BY <1>3, <2>7 DEF Mail, OpenAnswered, AskedAnswered, Asks, Receipt
  <2>9. waiting(r)' \subseteq waiting(r)
    OBVIOUS
  <2> HIDE DEF m, n, s, t
  <2>10. \A i \in 1..m : t[i].type = "approval.request" =>
           \A q \in waiting(r)' : \E j \in 1..m : j < i /\ t[j].type = "approval.received" /\ t[j].req = q
    BY <2>3, <2>5, <2>6, <2>9
  <2>11. \A i, k \in 1..m : i < k /\ t[i].type = "approval.request" /\ t[k].type = "approval.request" =>
           \E j \in 1..m : i < j /\ j < k /\ t[j].type = "approval.received" /\ t[j].req = t[i].req
    BY <2>3, <2>5, <2>6
  <2>12. Len(up'[r]) = m
    BY DEF m, t
  <2>13. OpenBefore(r)' /\ AskedBefore(r)'
    <3>1. m \in Nat /\ \A j \in 1..m : 0 < j
      BY <2>2
    <3>2. OpenFirst(t, m, waiting(r)') /\ AskedFirst(t, m)
      BY <2>10, <2>11, <3>1 DEF OpenFirst, AskedFirst, Receipts
    <3> QED BY <2>12, <3>1, <3>2, OrderOf DEF t
  <2>14. ASSUME inflight' # None PROVE OpenAnswered' /\ AskedAnswered'
    <3>1. inflight' = r
      BY <1>3, <2>14
    <3>2. \A q \in Pending \ Pending' :
            \E i \in 1..Len(fs) : fs[i].type = "approval.received" /\ fs[i].req = q
      BY <2>14
    <3>3. ASSUME NEW q, q \notin Pending', NEW k \in 0..n,
                 q \in Pending \/ \E j \in 1..n : k < j /\ s[j].type = "approval.received" /\ s[j].req = q
          PROVE  \E j \in 1..m : k < j /\ t[j].type = "approval.received" /\ t[j].req = q
      <4>1. CASE q \in Pending
        <5>1. PICK i \in 1..Len(fs) : fs[i].type = "approval.received" /\ fs[i].req = q
          BY <3>2, <3>3, <4>1
        <5>2. n + i \in 1..m /\ t[n + i] = fs[i] /\ k < n + i
          BY <2>2, <2>4, <3>3
        <5> QED BY <5>1, <5>2
      <4>2. CASE \E j \in 1..n : k < j /\ s[j].type = "approval.received" /\ s[j].req = q
        BY <2>3, <4>2
      <4> QED BY <3>3, <4>1, <4>2
    <3>4. \A q \in waiting(r)' \ Pending' :
            \E j \in 1..m : t[j].type = "approval.received" /\ t[j].req = q
      <4>1. 0 \in 0..n /\ \A j \in 1..n : 0 < j
        BY <2>2
      <4>2. ASSUME NEW q \in waiting(r)', q \notin Pending'
            PROVE  q \in Pending \/ \E j \in 1..n : 0 < j /\ s[j].type = "approval.received" /\ s[j].req = q
        BY <2>8, <2>9, <4>1, <4>2
      <4> QED BY <3>3, <4>1, <4>2
    <3>5. \A i \in 1..m : t[i].type = "approval.request" /\ t[i].req \notin Pending' =>
            \E j \in 1..m : i < j /\ t[j].type = "approval.received" /\ t[j].req = t[i].req
      <4>1. ASSUME NEW i \in 1..m, t[i].type = "approval.request", t[i].req \notin Pending'
            PROVE  \E j \in 1..m : i < j /\ t[j].type = "approval.received" /\ t[j].req = t[i].req
        <5>1. i \in 1..n /\ i \in 0..n /\ t[i] = s[i]
          BY <2>2, <2>3, <2>5, <4>1
        <5>2. t[i].req \in Pending \/ \E j \in 1..n : i < j /\ s[j].type = "approval.received" /\ s[j].req = t[i].req
          BY <2>8, <4>1, <5>1
        <5> QED BY <3>3, <4>1, <5>1, <5>2
      <4> QED BY <4>1
    <3>6. m \in Nat /\ \A j \in 1..m : 0 < j /\ j < m + 1
      BY <2>2
    <3>7. OpenDone(t, m, waiting(r)', Pending')
      BY <3>4, <3>6 DEF OpenDone, Receipts
    <3>8. AskedDone(t, m, Pending')
      BY <3>5, <3>6 DEF AskedDone, Receipts
    <3> QED BY <2>12, <3>1, <3>6, <3>7, <3>8, OrderOf DEF t
  <2> QED BY <2>13, <2>14
<1>4. InOrder'
  BY <1>2, <1>3 DEF InOrder
<1>5. CASE inflight' = None
  BY <1>4, <1>5 DEF Mail, OpenAnswered, AskedAnswered
<1>6. CASE inflight' # None
  <2>1. inflight \in Runs
    BY <1>6 DEF TypeOK
  <2> QED BY <1>3, <1>4, <1>6, <2>1 DEF Mail
<1> QED BY <1>5, <1>6

(* A request is sent when whatever was asked before has its receipt.          *)
LEMMA AskedKeeps ==
  ASSUME TypeOK, Mail, NEW q \in Requests, inflight # None, Emit(<<request(q)>>),
         Pending = {}, q \in Pending', UNCHANGED inflight,
         \A r \in Runs : waiting(r)' \subseteq waiting(r)
  PROVE  Mail'
<1>1. request(q) \in UpFrames /\ request(q).type = "approval.request" /\ request(q).req = q
  BY DEF UpFrames, request
<1>2. <<request(q)>> \in Seq(UpFrames)
  BY <1>1
<1>3. \A r \in Runs : /\ up[r] \in Seq(UpFrames)
                      /\ up'[r] = IF r = inflight THEN up[r] \o <<request(q)>> ELSE up[r]
  BY <1>2, EmitEffect DEF TypeOK
<1>4. ASSUME NEW r \in Runs, r # inflight PROVE OpenBefore(r)' /\ AskedBefore(r)'
  BY <1>3, <1>4, SameBox DEF Mail, InOrder
<1>5. inflight \in Runs
  BY DEF TypeOK
<1>6. ASSUME NEW r \in Runs, r = inflight
      PROVE  OpenBefore(r)' /\ AskedBefore(r)' /\ OpenAnswered' /\ AskedAnswered'
  <2> DEFINE s == up[r]
             n == Len(s)
             t == up'[r]
             m == Len(t)
  <2>1. s \in Seq(UpFrames) /\ t = s \o <<request(q)>>
    BY <1>3, <1>6
  <2>2. n \in Nat /\ m = n + 1
    BY <2>1
  <2>3. \A i \in 1..n : i \in 1..m /\ t[i] = s[i]
    BY <2>1, <2>2
  <2>4. t[m].type = "approval.request" /\ t[m].req = q
    BY <1>1, <2>1, <2>2
  <2>5. \A i \in 1..m : i \in 1..n \/ i = m
    BY <2>2
  <2>6. \A i \in 1..n : i < m
    BY <2>2
  <2>7. /\ \A i \in 1..n : s[i].type = "approval.request" =>
             \A p \in waiting(r) : \E j \in 1..n : j < i /\ s[j].type = "approval.received" /\ s[j].req = p
        /\ \A i, k \in 1..n : i < k /\ s[i].type = "approval.request" /\ s[k].type = "approval.request" =>
             \E j \in 1..n : i < j /\ j < k /\ s[j].type = "approval.received" /\ s[j].req = s[i].req
    BY DEF Mail, InOrder, OpenBefore, AskedBefore, Asks, Receipt
  <2>8. /\ \A p \in waiting(r) : \E j \in 1..n : s[j].type = "approval.received" /\ s[j].req = p
        /\ \A i \in 1..n : s[i].type = "approval.request" =>
             \E j \in 1..n : i < j /\ s[j].type = "approval.received" /\ s[j].req = s[i].req
    BY <1>6 DEF Mail, OpenAnswered, AskedAnswered, Asks, Receipt
  <2>9. waiting(r)' \subseteq waiting(r) /\ inflight' = r /\ m \in Nat
    BY <1>6, <2>2
  <2>10. Len(up'[r]) = m
    OBVIOUS
  <2> HIDE DEF m, n, s, t
  <2>11. \A i \in 1..m : t[i].type = "approval.request" =>
           \A p \in waiting(r)' : \E j \in 1..m : j < i /\ t[j].type = "approval.received" /\ t[j].req = p
    <3>1. ASSUME NEW i \in 1..m, t[i].type = "approval.request", NEW p \in waiting(r)'
          PROVE  \E j \in 1..m : j < i /\ t[j].type = "approval.received" /\ t[j].req = p
      <4>1. PICK j \in 1..n : j < i /\ s[j].type = "approval.received" /\ s[j].req = p
        <5>1. CASE i \in 1..n
          BY <2>3, <2>7, <2>9, <3>1, <5>1
        <5>2. CASE i = m
          BY <2>6, <2>8, <2>9, <3>1, <5>2
        <5> QED BY <2>5, <5>1, <5>2
      <4> QED BY <2>3, <4>1
    <3> QED BY <3>1
  <2>12. \A i, k \in 1..m : i < k /\ t[i].type = "approval.request" /\ t[k].type = "approval.request" =>
           \E j \in 1..m : i < j /\ j < k /\ t[j].type = "approval.received" /\ t[j].req = t[i].req
    <3>1. ASSUME NEW i \in 1..m, NEW k \in 1..m, i < k, t[i].type = "approval.request",
                 t[k].type = "approval.request"
          PROVE  \E j \in 1..m : i < j /\ j < k /\ t[j].type = "approval.received" /\ t[j].req = t[i].req
      <4>1. i \in 1..n
        BY <2>5, <2>9, <3>1
      <4>2. PICK j \in 1..n : i < j /\ j < k /\ s[j].type = "approval.received" /\ s[j].req = s[i].req
        <5>1. CASE k \in 1..n
          BY <2>3, <2>7, <3>1, <4>1, <5>1
        <5>2. CASE k = m
          BY <2>3, <2>6, <2>8, <3>1, <4>1, <5>2
        <5> QED BY <2>5, <5>1, <5>2
      <4> QED BY <2>3, <4>1, <4>2
    <3> QED BY <3>1
  <2>13. \A p \in waiting(r)' \ Pending' :
           \E j \in 1..m : t[j].type = "approval.received" /\ t[j].req = p
    BY <2>3, <2>8, <2>9
  <2>14. \A i \in 1..m : t[i].type = "approval.request" /\ t[i].req \notin Pending' =>
           \E j \in 1..m : i < j /\ t[j].type = "approval.received" /\ t[j].req = t[i].req
    <3>1. ASSUME NEW i \in 1..m, t[i].type = "approval.request", t[i].req \notin Pending'
          PROVE  \E j \in 1..m : i < j /\ t[j].type = "approval.received" /\ t[j].req = t[i].req
      <4>1. i \in 1..n
        BY <2>4, <2>5, <3>1
      <4> QED BY <2>3, <2>8, <3>1, <4>1
    <3> QED BY <3>1
  <2>15. \A j \in 1..m : 0 < j /\ j < m + 1
    BY <2>9
  <2>16. OpenBefore(r)' /\ AskedBefore(r)'
    <3>1. OpenFirst(t, m, waiting(r)') /\ AskedFirst(t, m)
      BY <2>11, <2>12, <2>15 DEF OpenFirst, AskedFirst, Receipts
    <3> QED BY <2>9, <2>10, <3>1, OrderOf DEF t
  <2>17. OpenAnswered' /\ AskedAnswered'
    <3>1. OpenDone(t, m, waiting(r)', Pending')
      BY <2>13, <2>15 DEF OpenDone, Receipts
    <3>2. AskedDone(t, m, Pending')
      BY <2>14, <2>15 DEF AskedDone, Receipts
    <3> QED BY <2>9, <2>10, <3>1, <3>2, OrderOf DEF t
  <2> QED BY <2>16, <2>17
<1> QED BY <1>4, <1>5, <1>6 DEF Mail, InOrder

(* Records that stay, or go all together, open nothing.                       *)
LEMMA NothingOpens ==
  ASSUME UNCHANGED entry \/ entry' = [q \in Requests |-> None]
  PROVE  \A r \in Runs : waiting(r)' \subseteq waiting(r)
BY DEF waiting, Open

(* The server closes, resends or forgets, and the daemon does nothing.        *)
LEMMA ServerOrder ==
  ASSUME IInv, OrderInv, UNCHANGED <<up, inflight, suppressed, asker, tool, audit>>,
         UNCHANGED entry \/ entry' = [q \in Requests |-> None],
         Runners'
  PROVE  OrderInv'
<1>1. \A r \in Runs : waiting(r)' \subseteq waiting(r)
  BY NothingOpens
<1>2. Pending' = Pending
  BY DEF Pending
<1>3. Mail'
  BY <1>1, <1>2, MailKeeps DEF IInv, OrderInv
<1>4. DecisionsAlone'
  BY DEF OrderInv, DecisionsAlone
<1> QED BY <1>3, <1>4 DEF OrderInv

LEMMA QuietOrder ==
  ASSUME IInv, OrderInv, UNCHANGED <<up, inflight, suppressed, asker, tool, audit>>, UNCHANGED origin,
         UNCHANGED entry \/ entry' = [q \in Requests |-> None],
         NoNewAssign
  PROVE  OrderInv'
<1>1. Runners'
  BY RunnersKeep DEF IInv, TypeOK, OrderInv
<1> QED BY <1>1, ServerOrder

(* What is not written to assigns nothing new.                                *)
LEMMA SameDown == UNCHANGED down \/ down' = <<>> => NoNewAssign
BY DEF NoNewAssign

(* A run is dispatched once, before it asks.                                  *)
LEMMA DispatchOrder ==
  ASSUME IInv, OrderInv, NEW r \in Runs, NEW who \in Origins, Dispatch(r, who)
  PROVE  OrderInv'
<1>1. /\ entry' = [q \in Requests |-> None]
      /\ origin[r] = None /\ origin' = [origin EXCEPT ![r] = who]
      /\ connected /\ down' = down \o <<assign(r)>>
      /\ UNCHANGED <<audit, up, inflight, suppressed, asker, tool>>
  BY InvalidateEffect DEF Dispatch, Send, approverVars, clientVars
<1>2. /\ down \in Seq(DownFrames) /\ origin \in [Runs -> Origins \cup {None}]
      /\ inflight \in Runs \cup {None} /\ \A q \in Requests : asker[q] \in Runs \cup {None}
  BY DEF IInv, TypeOK
<1>3. origin'[r] # None /\ \A p \in Runs : origin[p] # None => origin'[p] # None
  BY <1>1, <1>2, NoneIsNothing
<1>4. assign(r).type = "task.assign" /\ assign(r).run = r
  BY DEF assign
<1>5. \A i \in 1..Len(down) : down[i].type = "task.assign" =>
        /\ origin[down[i].run] # None /\ down[i].run \in Runs
        /\ down[i].run # inflight /\ down[i].run \notin suppressed
        /\ \A q \in Requests : asker[q] # down[i].run
  BY <1>2, DownFrame DEF OrderInv, Runners, AssignedFresh, Frames
<1>6. \A i \in 1..Len(down) : down[i] # assign(r)
  BY <1>1, <1>4, <1>5
<1>7. r # inflight /\ r \notin suppressed /\ \A q \in Requests : asker[q] # r
  BY <1>1, NoneIsNothing DEF OrderInv, Runners, RunsDispatched
<1>8. \A i \in 1..Len(down') : \/ i \in 1..Len(down) /\ down'[i] = down[i]
                               \/ i = Len(down) + 1 /\ down'[i] = assign(r)
  BY <1>1, <1>2
<1>9. AssignedOnce'
  <2>1. SUFFICES ASSUME NEW i \in 1..Len(down'), NEW j \in 1..Len(down'),
                        down'[i].type = "task.assign", down'[i] = down'[j]
                 PROVE  i = j
    BY DEF AssignedOnce
  <2>2. CASE i \in 1..Len(down) /\ down'[i] = down[i]
    <3>1. j \in 1..Len(down) /\ down'[j] = down[j]
      BY <1>6, <1>8, <2>1, <2>2
    <3> QED BY <2>1, <2>2, <3>1 DEF OrderInv, Runners, AssignedOnce
  <2>3. CASE i = Len(down) + 1 /\ down'[i] = assign(r)
    BY <1>6, <1>8, <2>1, <2>3
  <2> QED BY <1>8, <2>2, <2>3
<1>10. AssignedFresh'
  <2>1. ASSUME NEW f \in Frames(down'), f.type = "task.assign"
        PROVE  /\ origin'[f.run] # None /\ f.run # inflight /\ f.run \notin suppressed
               /\ \A q \in Requests : asker[q] # f.run
    <3>1. PICK i \in 1..Len(down') : f = down'[i]
      BY DEF Frames
    <3>2. CASE i \in 1..Len(down) /\ down'[i] = down[i]
      BY <1>3, <1>5, <2>1, <3>1, <3>2
    <3>3. CASE down'[i] = assign(r)
      BY <1>3, <1>4, <1>7, <3>1, <3>3
    <3> QED BY <1>8, <3>2, <3>3
  <2> QED BY <1>1, <2>1 DEF AssignedFresh
<1>11. RunsDispatched'
  <2>1. suppressed \subseteq Runs
    BY DEF IInv, TypeOK
  <2> QED BY <1>1, <1>2, <1>3, <2>1 DEF OrderInv, Runners, RunsDispatched
<1> QED BY <1>1, <1>9, <1>10, <1>11, ServerOrder DEF Runners

(* Frames to the daemon other than an assignment.                             *)
LEMMA PlainFrames ==
  /\ \A r \in Runs : cancel(r) \in DownFrames /\ cancel(r).type # "task.assign"
  /\ \A q \in Requests, d \in Decisions :
       resolve(q, d) \in DownFrames /\ resolve(q, d).type # "task.assign"
<1>1. ASSUME NEW r \in Runs PROVE cancel(r) \in DownFrames /\ cancel(r).type # "task.assign"
  <2>1. cancel(r) \in DownFrames
    BY DEF DownFrames
  <2> QED BY <2>1 DEF cancel
<1>2. ASSUME NEW q \in Requests, NEW d \in Decisions
      PROVE  resolve(q, d) \in DownFrames /\ resolve(q, d).type # "task.assign"
  <2>1. resolve(q, d) \in DownFrames
    BY DEF DownFrames
  <2> QED BY <2>1 DEF resolve
<1> QED BY <1>1, <1>2

LEMMA SendFew ==
  ASSUME TypeOK, NEW f \in DownFrames, f.type # "task.assign",
         NEW g \in DownFrames, g.type # "task.assign",
         Send(<<>>) \/ Send(<<f>>) \/ Send(<<f, g>>)
  PROVE  NoNewAssign
<1>1. /\ <<>> \in Seq(DownFrames) /\ <<f>> \in Seq(DownFrames) /\ <<f, g>> \in Seq(DownFrames)
      /\ \A i \in 1..Len(<<>>) : <<>>[i].type # "task.assign"
      /\ \A i \in 1..Len(<<f>>) : <<f>>[i].type # "task.assign"
      /\ \A i \in 1..Len(<<f, g>>) : <<f, g>>[i].type # "task.assign"
  OBVIOUS
<1> QED BY <1>1, SendAssignsNothing

(* Cancel and Watchdog, the ends of a binding, and the deliveries.            *)
LEMMA BindingOrder ==
  ASSUME IInv, OrderInv,
         \/ Cancel \/ Watchdog \/ Exit \/ HoldExpires
         \/ \E q \in Requests : Resend(q) \/ Expire(q)
  PROVE  OrderInv'
<1>1. CASE Cancel \/ Watchdog
  <2>1. /\ bound \in Runs /\ UNCHANGED <<up, inflight, suppressed, asker, tool, audit>>
        /\ UNCHANGED origin /\ UNCHANGED entry
        /\ Send(<<>>) \/ Send(<<cancel(bound)>>)
    BY <1>1 DEF Cancel, Watchdog, CloseStream, clientVars, approverVars, IInv, TypeOK
  <2>2. NoNewAssign
    BY <2>1, PlainFrames, SendFew DEF IInv
  <2> QED BY <2>1, <2>2, QuietOrder
<1>2. CASE Exit \/ HoldExpires
  <2>1. /\ UNCHANGED <<up, inflight, suppressed, asker, tool, audit>>
        /\ UNCHANGED origin /\ UNCHANGED down /\ entry' = [q \in Requests |-> None]
    BY <1>2, InvalidateEffect DEF Exit, HoldExpires, Unbind, clientVars, approverVars
  <2> QED BY <2>1, SameDown, QuietOrder
<1>3. ASSUME NEW q \in Requests, Resend(q) PROVE OrderInv'
  <2>1. /\ entry[q] # None /\ entry[q].state = "decided"
        /\ UNCHANGED <<up, inflight, suppressed, asker, tool, audit>>
        /\ UNCHANGED origin /\ UNCHANGED entry
        /\ Send(<<resolve(q, entry[q].decision)>>)
    BY <1>3 DEF Resend, Open, serverVars, clientVars, approverVars
  <2>2. entry[q].decision \in Decisions
    BY <2>1, RecordIsOfOwner, NoneIsNothing DEF Entries
  <2>3. NoNewAssign
    BY <2>1, <2>2, PlainFrames, SendFew DEF IInv
  <2> QED BY <2>1, <2>3, QuietOrder
<1>4. ASSUME NEW q \in Requests, Expire(q) PROVE OrderInv'
  <2>1. /\ entry[q] # None /\ UNCHANGED <<up, inflight, suppressed, asker, tool, audit>>
        /\ UNCHANGED origin /\ entry' = [p \in Requests |-> None]
        /\ Send(<<resolve(q, "deny"), cancel(bound)>>)
    BY <1>4, InvalidateEffect DEF Expire, Open, Unbind, clientVars, approverVars
  <2>2. bound \in Runs /\ "deny" \in Decisions
    BY <2>1, RecordIsOfOwner DEF Decisions
  <2>3. NoNewAssign
    BY <2>1, <2>2, PlainFrames, SendFew DEF IInv
  <2> QED BY <2>1, <2>3, QuietOrder
<1> QED BY <1>1, <1>2, <1>3, <1>4

(* Clocks and calls in progress.                                              *)
LEMMA IdleOrder ==
  ASSUME IInv, OrderInv,
         \/ \E q \in Requests : DeadlinePasses(q)
         \/ \E q \in Requests, d \in Decisions : MatchOrigin(q, d)
         \/ RequesterRefused \/ Reconnect \/ UNCHANGED vars
  PROVE  OrderInv'
<1>1. /\ UNCHANGED <<up, inflight, suppressed, asker, tool, audit>>
      /\ UNCHANGED origin /\ UNCHANGED entry /\ UNCHANGED down
  BY DEF DeadlinePasses, MatchOrigin, RequesterRefused, CallStep, Reconnect, vars, serverVars,
     approverVars, clientVars
<1> QED BY <1>1, SameDown, QuietOrder

(* A decision leaves the record open, and is the first.                       *)
LEMMA DecideOrder ==
  ASSUME IInv, OrderInv, NEW q \in Requests, NEW d \in Decisions, NEW by \in Approvers,
         decide(q, d, by), UNCHANGED <<origin, up, inflight, suppressed, asker, tool>>
  PROVE  OrderInv'
<1>1. CASE UNCHANGED <<entry, audit, down>>
  BY <1>1, SameDown, QuietOrder
<1>2. CASE /\ entry[q] # None /\ entry[q].state = "pending"
           /\ entry' = [entry EXCEPT ![q].state = "decided", ![q].decision = d, ![q].by = by]
           /\ audit' = [audit EXCEPT ![q] = @ \cup {[decision |-> d, by |-> by]}]
           /\ Send(<<resolve(q, d)>>)
  <2> DEFINE e == [entry[q] EXCEPT !.state = "decided", !.decision = d, !.by = by]
  <2>1. audit[q] = {} /\ entry[q] \in Entries
    BY <1>2, RecordIsOfOwner DEF IInv, RecordsAgree
  <2>2. /\ entry'[q] = e /\ audit'[q] = {[decision |-> d, by |-> by]}
        /\ \A p \in Requests : p # q => entry'[p] = entry[p] /\ audit'[p] = audit[p]
    BY <1>2, <2>1 DEF IInv, TypeOK
  <2>3. e.run = entry[q].run /\ e.decision = d /\ e.by = by
    BY <2>1 DEF Entries
  <2> HIDE DEF e
  <2>4. DecisionsAlone'
    BY <2>2, <2>3 DEF OrderInv, DecisionsAlone
  <2>5. \A r \in Runs : waiting(r)' \subseteq waiting(r)
    BY <1>2, <2>2, <2>3 DEF waiting, Open
  <2>6. Pending' = Pending
    BY DEF Pending
  <2>7. Mail'
    BY <2>5, <2>6, MailKeeps DEF IInv, OrderInv
  <2>8. NoNewAssign
    BY <1>2, PlainFrames, SendFew DEF IInv
  <2>9. Runners'
    BY <2>8, RunnersKeep DEF IInv, TypeOK, OrderInv
  <2> QED BY <2>4, <2>7, <2>9 DEF OrderInv
<1> QED BY <1>1, <1>2 DEF decide

LEMMA DecidersOrder ==
  ASSUME IInv, OrderInv,
         \/ \E q \in Requests, d \in Decisions : OwnerDecides(q, d)
         \/ RequesterDecides
  PROVE  OrderInv'
<1>1. ASSUME NEW q \in Requests, NEW d \in Decisions, OwnerDecides(q, d) PROVE OrderInv'
  BY <1>1, DecideOrder DEF OwnerDecides, clientVars, Approvers
<1>2. CASE RequesterDecides
  <2>1. /\ call # None /\ UNCHANGED <<origin, up, inflight, suppressed, asker, tool>>
        /\ decide(call.req, call.decision, "requester") \/ UNCHANGED <<entry, audit, down>>
    BY <1>2 DEF RequesterDecides, clientVars
  <2>2. call.req \in Requests /\ call.decision \in Decisions
    BY <2>1 DEF IInv, TypeOK, Calls
  <2>3. CASE decide(call.req, call.decision, "requester")
    BY <2>1, <2>2, <2>3, DecideOrder DEF Approvers
  <2>4. CASE UNCHANGED <<entry, audit, down>>
    BY <2>1, <2>4, SameDown, QuietOrder
  <2> QED BY <2>1, <2>3, <2>4
<1> QED BY <1>1, <1>2

(* A run asks once what it asked before was answered, or is denied at once.   *)
LEMMA AskOrder ==
  ASSUME IInv, OrderInv, NEW q \in Requests, Ask(q)
  PROVE  OrderInv'
<1>1. /\ UNCHANGED <<entry, audit, inflight, suppressed>> /\ UNCHANGED origin /\ UNCHANGED down
      /\ inflight # None /\ tool[q] = "unasked" /\ asker' = [asker EXCEPT ![q] = inflight]
  BY DEF Ask, NextRequest, serverVars, approverVars
<1>2. NoNewAssign
  BY <1>1, SameDown
<1>3. \A p \in Requests : asker'[p] = asker[p] \/ asker'[p] = inflight
  BY <1>1 DEF IInv, TypeOK
<1>4. Runners'
  BY <1>1, <1>2, <1>3, RunnersKeep DEF IInv, OrderInv
<1>5. DecisionsAlone'
  BY <1>1 DEF OrderInv, DecisionsAlone
<1>6. \A r \in Runs : waiting(r)' \subseteq waiting(r)
  BY <1>1, NothingOpens
<1>7. CASE Pending = {}
  <2>1. tool' = [tool EXCEPT ![q] = "asked"] /\ Emit(<<request(q)>>)
    BY <1>7 DEF Ask
  <2>2. q \in Pending'
    BY <2>1 DEF Pending, IInv, TypeOK
  <2>3. Mail'
    BY <1>1, <1>6, <1>7, <2>1, <2>2, AskedKeeps DEF IInv, OrderInv
  <2> QED BY <1>4, <1>5, <2>3 DEF OrderInv
<1>8. CASE Pending # {}
  <2>1. tool' = [tool EXCEPT ![q] = "denied"] /\ UNCHANGED up
    BY <1>8 DEF Ask
  <2>2. Pending \subseteq Pending'
    BY <1>1, <2>1 DEF Pending, IInv, TypeOK
  <2>3. Mail'
    BY <1>1, <1>6, <2>1, <2>2, MailKeeps DEF IInv, OrderInv
  <2> QED BY <1>4, <1>5, <2>3 DEF OrderInv
<1> QED BY <1>7, <1>8

(* An answer is followed by its receipt.                                      *)
LEMMA FinishMail ==
  ASSUME IInv, OrderInv, NEW q \in Pending, NEW d \in Decisions, Finish(q, d),
         UNCHANGED <<entry, inflight>>
  PROVE  Mail'
<1> DEFINE f == received(q, d)
<1>1. q \in Requests /\ f \in UpFrames /\ f.type = "approval.received" /\ f.req = q
  BY ReceiptFrame DEF Pending
<1>2. Emit(<<f>>) /\ \A p \in Requests : p # q => tool'[p] = tool[p]
  BY DEF Finish, IInv, TypeOK
<1> HIDE DEF f
<1>3. <<f>> \in Seq(UpFrames) /\ 1 \in 1..Len(<<f>>) /\ \A i \in 1..Len(<<f>>) : <<f>>[i] = f
  BY <1>1
<1>4. \A r \in Runs : waiting(r)' \subseteq waiting(r)
  BY NothingOpens
<1>5. \A p \in Pending \ Pending' : p = q
  BY <1>2 DEF Pending
<1>6. \A i \in 1..Len(<<f>>) : <<f>>[i].type # "approval.request"
  BY <1>1, <1>3
<1>7. \A p \in Pending \ Pending' :
        \E i \in 1..Len(<<f>>) : <<f>>[i].type = "approval.received" /\ <<f>>[i].req = p
  BY <1>1, <1>3, <1>5
<1> QED BY <1>2, <1>3, <1>4, <1>6, <1>7, AppendedKeeps DEF IInv, OrderInv

(* What the backend reports, withdraws or ends with.                          *)
LEMMA BackendOrder ==
  ASSUME IInv, OrderInv,
         Progress \/ Return \/ \E q \in Requests : Withdraw(q)
  PROVE  OrderInv'
<1>1. /\ UNCHANGED <<entry, audit>> /\ UNCHANGED origin /\ UNCHANGED down
      /\ UNCHANGED suppressed /\ UNCHANGED asker /\ inflight' \in {inflight, None}
  BY DEF Progress, Return, Withdraw, serverVars, approverVars, clientVars
<1>2. NoNewAssign
  BY <1>1, SameDown
<1>3. Runners'
  BY <1>1, <1>2, RunnersKeep DEF IInv, OrderInv
<1>4. DecisionsAlone'
  BY <1>1 DEF OrderInv, DecisionsAlone
<1>5. \A r \in Runs : waiting(r)' \subseteq waiting(r)
  BY <1>1, NothingOpens
<1>6. CASE Progress
  <2>1. /\ Emit(<<status>>) /\ UNCHANGED <<inflight, tool>> /\ inflight # None
    BY <1>6 DEF Progress, clientVars
  <2>2. <<status>> \in Seq(UpFrames) /\ \A i \in 1..Len(<<status>>) : <<status>>[i].type # "approval.request"
    BY DEF UpFrames, status
  <2>3. Pending' = Pending
    BY <2>1 DEF Pending
  <2>4. Mail'
    BY <1>5, <2>1, <2>2, <2>3, AppendedKeeps DEF IInv, OrderInv
  <2> QED BY <1>3, <1>4, <2>4 DEF OrderInv
<1>7. CASE Return
  <2>1. terminal \in UpFrames /\ terminal.type # "approval.request"
    BY DEF UpFrames, terminal
  <2>2. PICK fs \in Seq(UpFrames) :
          Emit(fs) /\ \A i \in 1..Len(fs) : fs[i].type # "approval.request"
    <3>1. CASE Emit(<<terminal>>)
      <4>1. <<terminal>> \in Seq(UpFrames) /\ \A i \in 1..Len(<<terminal>>) : <<terminal>>[i] = terminal
        BY <2>1
      <4> QED BY <2>1, <3>1, <4>1
    <3>2. ASSUME NEW q \in Pending, Emit(<<terminal, received(q, "deny")>>)
          PROVE  \E fs \in Seq(UpFrames) :
                   Emit(fs) /\ \A i \in 1..Len(fs) : fs[i].type # "approval.request"
      <4> DEFINE f == received(q, "deny")
      <4>1. f \in UpFrames /\ f.type # "approval.request"
        BY ReceiptFrame DEF Pending, Decisions
      <4>2. Emit(<<terminal, f>>)
        BY <3>2
      <4> HIDE DEF f
      <4>3. /\ <<terminal, f>> \in Seq(UpFrames)
            /\ \A i \in 1..Len(<<terminal, f>>) : <<terminal, f>>[i] \in {terminal, f}
        BY <2>1, <4>1
      <4>4. \A i \in 1..Len(<<terminal, f>>) : <<terminal, f>>[i].type # "approval.request"
        BY <2>1, <4>1, <4>3
      <4> QED BY <4>2, <4>3, <4>4
    <3> QED BY <1>7, <3>1, <3>2 DEF Return
  <2>3. inflight' = None
    BY <1>7 DEF Return
  <2>4. Mail'
    BY <1>5, <2>2, <2>3, AppendedKeeps DEF IInv, OrderInv
  <2> QED BY <1>3, <1>4, <2>4 DEF OrderInv
<1>8. ASSUME NEW q \in Requests, Withdraw(q) PROVE OrderInv'
  <2>1. q \in Pending /\ Finish(q, "deny") /\ UNCHANGED <<entry, inflight>> /\ "deny" \in Decisions
    BY <1>1, <1>8 DEF Withdraw, Pending, Decisions
  <2>2. Mail'
    BY <2>1, FinishMail
  <2> QED BY <1>3, <1>4, <2>2 DEF OrderInv
<1> QED BY <1>6, <1>7, <1>8

(* The daemon takes the first frame: if it is an assignment, it was the only  *)
(* one of its run.                                                            *)
LEMMA TakenRunners ==
  ASSUME TypeOK, Runners, down # <<>>, down' = Tail(down), UNCHANGED <<origin, asker>>,
         suppressed' \subseteq suppressed \cup ({inflight} \ {None}),
         \/ inflight' = inflight /\ suppressed' = suppressed
         \/ inflight' = None
         \/ Head(down).type = "task.assign" /\ inflight' = Head(down).run
  PROVE  Runners'
<1> DEFINE f == Head(down)
<1>1. down \in Seq(DownFrames)
  BY DEF TypeOK
<1>2. /\ 1 \in 1..Len(down) /\ down[1] = f
      /\ \A i \in 1..Len(down') : i + 1 \in 1..Len(down) /\ down'[i] = down[i + 1] /\ i + 1 # 1
      /\ \A i, j \in 1..Len(down') : i + 1 = j + 1 => i = j
  BY <1>1
<1>3. f \in Frames(down) /\ f \in DownFrames
  BY <1>1, <1>2 DEF Frames
<1>4. \A g \in DownFrames : g.type = "task.assign" => g.run \in Runs /\ g = assign(g.run)
  BY DEF DownFrames, assign, cancel, resolve
<1> HIDE DEF f
<1>5. AssignedOnce'
  BY <1>2 DEF Runners, AssignedOnce
<1>6. ASSUME NEW g \in Frames(down'), g.type = "task.assign"
      PROVE  /\ g \in Frames(down) /\ g \in DownFrames /\ g.run \in Runs
             /\ f.type = "task.assign" => g.run # f.run
  <2>1. PICK i \in 1..Len(down') : g = down'[i]
    BY DEF Frames
  <2>2. i + 1 \in 1..Len(down) /\ g = down[i + 1] /\ i + 1 # 1
    BY <1>2, <2>1
  <2>3. g # f
    BY <1>2, <1>6, <2>2 DEF Runners, AssignedOnce
  <2>4. g \in Frames(down) /\ g \in DownFrames
    BY <1>1, <2>2 DEF Frames
  <2> QED BY <1>3, <1>4, <1>6, <2>3, <2>4
<1>7. AssignedFresh'
  <2>1. ASSUME NEW g \in Frames(down'), g.type = "task.assign"
        PROVE  /\ origin'[g.run] # None /\ g.run # inflight' /\ g.run \notin suppressed'
               /\ \A q \in Requests : asker'[q] # g.run
    <3>1. g \in Frames(down) /\ g.run \in Runs /\ (f.type = "task.assign" => g.run # f.run)
      BY <1>6, <2>1
    <3>2. /\ origin[g.run] # None /\ g.run # inflight /\ g.run \notin suppressed
          /\ \A q \in Requests : asker[q] # g.run
      BY <2>1, <3>1 DEF Runners, AssignedFresh
    <3> QED BY <3>1, <3>2, NoneIsNothing DEF f
  <2> QED BY <2>1 DEF AssignedFresh
<1>8. RunsDispatched'
  <2>1. f.type = "task.assign" => origin[f.run] # None /\ f.run # inflight /\ f.run \notin suppressed
    BY <1>3 DEF Runners, AssignedFresh
  <2> QED BY <2>1 DEF f, Runners, RunsDispatched
<1> QED BY <1>5, <1>7, <1>8 DEF Runners

(* The daemon handles a frame.                                                *)
LEMMA ClientHandlesOrder ==
  ASSUME IInv, OrderInv, ClientHandles
  PROVE  OrderInv'
<1> DEFINE f == Head(down)
<1>1. /\ UNCHANGED <<entry, audit>> /\ UNCHANGED <<origin, asker>>
      /\ down # <<>> /\ down' = Tail(down) /\ Consume(f)
  BY DEF ClientHandles, serverVars, approverVars
<1>2. f \in DownFrames /\ f \in Frames(down)
  BY <1>1, TailFrames DEF IInv, TypeOK
<1>3. DecisionsAlone'
  BY <1>1 DEF OrderInv, DecisionsAlone
<1>4. \A r \in Runs : waiting(r)' \subseteq waiting(r)
  BY <1>1, NothingOpens
<1>5. TypeOK /\ Mail /\ Runners
  BY DEF IInv, OrderInv
<1>6. CASE f.type = "task.assign" /\ inflight' = f.run /\ Suppress /\ UNCHANGED up
  <2>1. Runners'
    BY <1>1, <1>5, <1>6, TakenRunners DEF Suppress
  <2>2. f.run \in Runs /\ \A q \in Requests : asker[q] # f.run
    BY <1>2, <1>5, <1>6, DownFrame DEF Runners, AssignedFresh
  <2>3. waiting(f.run) = {}
    BY <2>2, RecordIsOfOwner DEF waiting, Open
  <2>4. \A i \in 1..Len(up[f.run]) : ~Asks(f.run, i)
    <3>1. ASSUME NEW i \in 1..Len(up[f.run]), Asks(f.run, i) PROVE FALSE
      <4>1. up[f.run] \in Seq(UpFrames)
        BY <1>5, <2>2 DEF TypeOK
      <4>2. up[f.run][i] \in Frames(up[f.run]) /\ up[f.run][i] \in UpFrames
        BY <3>1, <4>1 DEF Frames
      <4>3. up[f.run][i].req \in Requests /\ asker[up[f.run][i].req] = f.run
        BY <2>2, <3>1, <4>2, UpFrame DEF Asks, IInv, RequestsFresh
      <4> QED BY <2>2, <4>3
    <3> QED BY <3>1
  <2>5. PICK n \in Runs : n = f.run
    BY <2>2
  <2>6. /\ inflight' = n /\ n \in Runs /\ up' = up /\ waiting(n)' \subseteq waiting(n) /\ waiting(n) = {}
        /\ \A i \in 1..Len(up[n]) : ~Asks(n, i)
    BY <1>4, <1>6, <2>2, <2>3, <2>4, <2>5
  <2> HIDE DEF f
  <2>7. PICK t : t = up'[n]
    OBVIOUS
  <2>8. OpenAnswered' /\ AskedAnswered'
    <3>1. t \in Seq(UpFrames) /\ \A i \in 1..Len(t) : t[i].type # "approval.request"
      BY <1>5, <2>6, <2>7 DEF Asks, TypeOK
    <3>2. OpenDone(t, Len(t), waiting(n)', Pending') /\ AskedDone(t, Len(t), Pending')
      BY <2>6, <3>1 DEF OpenDone, AskedDone
    <3>3. Len(t) \in Nat
      BY <3>1
    <3> QED BY <2>6, <2>7, <3>2, <3>3, OrderOf
  <2>9. InOrder'
    BY <1>4, <1>5, <2>6, SameBox DEF Mail, InOrder
  <2> QED BY <1>3, <2>1, <2>8, <2>9 DEF OrderInv, Mail
<1>7. CASE inflight' = None /\ Suppress /\ UNCHANGED up
  <2>1. Runners'
    BY <1>1, <1>5, <1>7, TakenRunners DEF Suppress
  <2>2. Mail'
    BY <1>4, <1>5, <1>7, MailKeeps
  <2> QED BY <1>3, <2>1, <2>2 DEF OrderInv
<1>8. CASE /\ f.type = "approval.resolve" /\ f.req \in Pending
           /\ Finish(f.req, f.decision) /\ UNCHANGED <<inflight, suppressed>>
  <2>1. Runners'
    BY <1>1, <1>5, <1>8, TakenRunners
  <2>2. f.decision \in Decisions
    BY <1>2, <1>8, DownFrame
  <2>3. Mail'
    BY <1>1, <1>8, <2>2, FinishMail
  <2> QED BY <1>3, <2>1, <2>3 DEF OrderInv
<1>9. CASE UNCHANGED <<inflight, suppressed, tool, up>>
  <2>1. Runners'
    BY <1>1, <1>5, <1>9, TakenRunners
  <2>2. Pending' = Pending
    BY <1>9 DEF Pending
  <2>3. Mail'
    BY <1>4, <1>5, <1>9, <2>2, MailKeeps
  <2> QED BY <1>3, <2>1, <2>3 DEF OrderInv
<1> HIDE DEF f
<1> QED BY <1>1, <1>6, <1>7, <1>8, <1>9 DEF Consume

(* A run at work keeps its mailbox when the connection breaks.                *)
LEMMA DisconnectOrder ==
  ASSUME IInv, OrderInv, Break \/ Crash
  PROVE  OrderInv'
<1>1. /\ UNCHANGED <<entry, audit, asker>> /\ UNCHANGED origin /\ down' = <<>>
  BY DEF Break, Crash, Disconnect, approverVars
<1>2. NoNewAssign
  BY <1>1, SameDown
<1>3. DecisionsAlone'
  BY <1>1 DEF OrderInv, DecisionsAlone
<1>4. \A r \in Runs : waiting(r)' \subseteq waiting(r)
  BY <1>1, NothingOpens
<1>5. \A r \in Runs : up'[r] = up[r] \/ up'[r] = <<>>
  BY DEF Break, Crash
<1>6. CASE Break
  <2>1. UNCHANGED <<inflight, suppressed, tool>>
    BY <1>6 DEF Break
  <2>2. inflight = None \/ up'[inflight] = up[inflight]
    BY <1>6 DEF Break, OrderInv, Runners, RunsDispatched, IInv, TypeOK
  <2>3. Pending' = Pending
    BY <2>1 DEF Pending
  <2>4. Mail'
    BY <1>4, <1>5, <2>1, <2>2, <2>3, MailKeeps DEF IInv, OrderInv
  <2>5. Runners'
    BY <1>1, <1>2, <2>1, RunnersKeep DEF IInv, OrderInv
  <2> QED BY <1>3, <2>4, <2>5 DEF OrderInv
<1>7. CASE Crash
  <2>1. inflight' = None /\ suppressed' = suppressed \cup ({inflight} \ {None})
    BY <1>7 DEF Crash, Suppress
  <2>2. Mail'
    BY <1>4, <1>5, <2>1, MailKeeps DEF IInv, OrderInv
  <2>3. Runners'
    BY <1>1, <1>2, <2>1, RunnersKeep DEF IInv, OrderInv
  <2> QED BY <1>3, <2>2, <2>3 DEF OrderInv
<1> QED BY <1>6, <1>7

-----------------------------------------------------------------------------
(* What the server owes to the order when it takes a frame.                   *)
LEMMA TakenOrder ==
  ASSUME IInv, OrderInv, NEW r \in Runs, up[r] # <<>>, up' = [up EXCEPT ![r] = Tail(@)],
         UNCHANGED <<origin, audit, inflight, suppressed, asker, tool>>,
         NoNewAssign, DecisionsAlone',
         \A p \in Runs : p # r => waiting(p)' \subseteq waiting(p),
         \A q \in waiting(r)' : \/ q \in waiting(r)
                                \/ Asks(r, 1) /\ up[r][1].req = q,
         \A q \in waiting(r)' : ~Receipt(r, 1, q)
  PROVE  OrderInv'
<1>1. up'[r] = Tail(up[r]) /\ \A p \in Runs : p # r => up'[p] = up[p]
  BY DEF IInv, TypeOK
<1>2. Mail'
  BY <1>1, TakenKeeps DEF IInv, OrderInv
<1>3. Runners'
  BY RunnersKeep DEF IInv, TypeOK, OrderInv
<1> QED BY <1>2, <1>3 DEF OrderInv

(* Records that stay or go, and a frame that closes none which stays.         *)
LEMMA TakenQuietly ==
  ASSUME IInv, OrderInv, NEW r \in Runs, up[r] # <<>>, up' = [up EXCEPT ![r] = Tail(@)],
         UNCHANGED <<origin, audit, inflight, suppressed, asker, tool>>,
         NoNewAssign,
         \/ entry' = [q \in Requests |-> None]
         \/ UNCHANGED entry /\ \A q \in waiting(r) : ~Receipt(r, 1, q)
  PROVE  OrderInv'
<1>1. \A p \in Runs : waiting(p)' \subseteq waiting(p)
  BY NothingOpens
<1>2. DecisionsAlone'
  BY DEF OrderInv, DecisionsAlone
<1>3. entry' = [q \in Requests |-> None] => waiting(r)' = {}
  BY DEF waiting, Open
<1>4. \A q \in waiting(r)' : ~Receipt(r, 1, q)
  BY <1>1, <1>3
<1> QED BY <1>1, <1>2, <1>4, TakenOrder

(* A request at the server opens its record, if none of its run is open.      *)
LEMMA RequestOrder ==
  ASSUME IInv, OrderInv, NEW r \in Runs, NEW q \in Requests, up[r] # <<>>,
         up' = [up EXCEPT ![r] = Tail(@)], up[r][1] = request(q), HandleRequest(r, q),
         UNCHANGED <<origin, audit, inflight, suppressed, asker, tool>>, bound = r
  PROVE  OrderInv'
<1>1. Asks(r, 1) /\ up[r][1].req = q /\ \A p \in Requests : ~Receipt(r, 1, p)
  BY DEF Asks, Receipt, request
<1>2. CASE Send(<<cancel(r)>>) /\ Unbind
  <2>1. entry' = [p \in Requests |-> None]
    BY <1>2, InvalidateEffect DEF Unbind
  <2>2. NoNewAssign
    BY <1>2, PlainFrames, SendFew DEF IInv
  <2> QED BY <2>1, <2>2, TakenQuietly
<1>3. CASE UNCHANGED down
           /\ entry' = [entry EXCEPT ![q] =
                          [run |-> r, state |-> "pending", decision |-> None, by |-> None]]
  <2>1. /\ entry'[q].run = r /\ entry'[q].state = "pending"
        /\ \A p \in Requests : p # q => entry'[p] = entry[p]
    BY <1>3 DEF IInv, TypeOK
  <2>2. DecisionsAlone'
    BY <2>1 DEF OrderInv, DecisionsAlone
  <2>3. \A p \in Runs : p # r => waiting(p)' \subseteq waiting(p)
    BY <2>1 DEF waiting, Open
  <2>4. \A p \in waiting(r)' : p \in waiting(r) \/ p = q
    BY <2>1 DEF waiting, Open
  <2>5. NoNewAssign
    BY <1>3, SameDown
  <2>6. \A p \in waiting(r)' : p \in Requests
    BY DEF waiting
  <2> QED BY <1>1, <2>2, <2>3, <2>4, <2>5, <2>6, TakenOrder
<1> QED BY <1>2, <1>3 DEF HandleRequest

(* A receipt that the server does not accept is about no open request: an     *)
(* allow the daemon reports was granted, and the record says so.              *)
LEMMA ReceiptCloses ==
  ASSUME IInv, OrderInv, NEW r \in Runs, NEW q \in waiting(r), NEW d \in Decisions,
         tool[q] = Answer(d)
  PROVE  d = "allow_once" => entry[q].state = "decided" /\ entry[q].decision = d
<1> SUFFICES ASSUME d = "allow_once" PROVE entry[q].state = "decided" /\ entry[q].decision = d
  OBVIOUS
<1>1. q \in Requests /\ entry[q] # None /\ entry[q].state \in {"pending", "decided"}
  BY DEF waiting, Open
<1>2. PICK by \in Approvers : audit[q] = {[decision |-> "allow_once", by |-> by]}
  BY <1>1 DEF IInv, AllowedIsGranted, Answer
<1>3. entry[q].state = "decided"
  BY <1>1, <1>2 DEF IInv, RecordsAgree
<1>4. audit[q] = {[decision |-> entry[q].decision, by |-> entry[q].by]}
  BY <1>1, <1>3 DEF OrderInv, DecisionsAlone
<1>5. [decision |-> "allow_once", by |-> by] = [decision |-> entry[q].decision, by |-> entry[q].by]
  BY <1>2, <1>4
<1>6. [decision |-> "allow_once", by |-> by].decision
        = [decision |-> entry[q].decision, by |-> entry[q].by].decision
  BY <1>5
<1> QED BY <1>3, <1>6

LEMMA ReceivedOrder ==
  ASSUME IInv, OrderInv, NEW r \in Runs, NEW q \in Requests, NEW d \in Decisions, up[r] # <<>>,
         up' = [up EXCEPT ![r] = Tail(@)], up[r][1] = received(q, d), tool[q] = Answer(d),
         HandleReceived(r, q, d),
         UNCHANGED <<origin, audit, inflight, suppressed, asker, tool>>
  PROVE  OrderInv'
<1>1. \A p \in Requests : Receipt(r, 1, p) => p = q
  BY ReceiptFrame DEF Receipt
<1>2. NoNewAssign
  BY SameDown DEF HandleReceived
<1>3. CASE /\ UNCHANGED entry
           /\ ~ (/\ Open(q) /\ entry[q].run = r
                 /\ (d = "allow_once" => entry[q].state = "decided" /\ entry[q].decision = d))
  <2>1. q \notin waiting(r)
    BY <1>3, ReceiptCloses DEF waiting
  <2>2. \A p \in waiting(r) : ~Receipt(r, 1, p)
    BY <1>1, <2>1 DEF waiting
  <2> QED BY <1>2, <1>3, <2>2, TakenQuietly
<1>4. CASE Open(q) /\ entry' = [entry EXCEPT ![q].state = "received", ![q].decision = d]
  <2> DEFINE e == [entry[q] EXCEPT !.state = "received", !.decision = d]
  <2>1. entry[q] \in Entries
    BY <1>4, RecordIsOfOwner DEF Open
  <2>2. e.state = "received"
    BY <2>1 DEF Entries
  <2>3. entry'[q] = e /\ \A p \in Requests : p # q => entry'[p] = entry[p]
    BY <1>4 DEF IInv, TypeOK
  <2> HIDE DEF e
  <2>4. DecisionsAlone'
    BY <2>2, <2>3 DEF OrderInv, DecisionsAlone
  <2>5. \A p \in Runs : waiting(p)' \subseteq waiting(p) /\ q \notin waiting(p)'
    BY <2>2, <2>3 DEF waiting, Open
  <2>6. \A p \in waiting(r)' : ~Receipt(r, 1, p)
    <3>1. \A p \in waiting(r)' : p \in Requests
      BY DEF waiting
    <3> QED BY <1>1, <2>5, <3>1
  <2> QED BY <1>2, <2>4, <2>5, <2>6, TakenOrder
<1> QED BY <1>3, <1>4 DEF HandleReceived

(* The server handles a frame.                                                *)
LEMMA ServerHandlesOrder ==
  ASSUME IInv, OrderInv, NEW r \in Runs, ServerHandles(r)
  PROVE  OrderInv'
<1> DEFINE f == Head(up[r])
<1>1. /\ up[r] # <<>> /\ up' = [up EXCEPT ![r] = Tail(@)]
      /\ UNCHANGED <<origin, audit, inflight, suppressed, asker, tool>>
  BY DEF ServerHandles, approverVars, clientVars
<1>2. f \in UpFrames /\ f \in Frames(up[r])
  BY <1>1, TakeEffect
<1>3. up[r][1] = f
  BY <1>1 DEF IInv, TypeOK
<1> HIDE DEF f
<1>4. CASE bound # r /\ UNCHANGED <<entry, down>>
  <2>1. waiting(r) = {}
    BY <1>4, RecordIsOfOwner DEF waiting, Open
  <2> QED BY <1>1, <1>4, <2>1, SameDown, TakenQuietly
<1>5. CASE bound = r /\ f.type = "approval.request" /\ HandleRequest(r, f.req)
  <2>1. f.req \in Requests /\ up[r][1] = request(f.req)
    BY <1>2, <1>3, <1>5, UpFrame
  <2> QED BY <1>1, <1>5, <2>1, RequestOrder
<1>6. CASE f.type = "approval.received" /\ HandleReceived(r, f.req, f.decision)
  <2>1. f.req \in Requests /\ f.decision \in Decisions /\ up[r][1] = received(f.req, f.decision)
    BY <1>2, <1>3, <1>6, UpFrame
  <2>2. tool[f.req] = Answer(f.decision)
    BY <1>2, <1>6 DEF IInv, ReceiptsTrue
  <2> QED BY <1>1, <1>6, <2>1, <2>2, ReceivedOrder
<1>7. CASE f.type = "task.status" /\ HandleStatus(r)
  <2>1. UNCHANGED entry /\ UNCHANGED down /\ \A q \in waiting(r) : ~Receipt(r, 1, q)
    BY <1>3, <1>7 DEF HandleStatus, Receipt
  <2> QED BY <1>1, <2>1, SameDown, TakenQuietly
<1>8. CASE Unbind /\ UNCHANGED down
  <2>1. entry' = [q \in Requests |-> None]
    BY <1>8, InvalidateEffect DEF Unbind
  <2> QED BY <1>1, <1>8, <2>1, SameDown, TakenQuietly
<1> QED BY <1>4, <1>5, <1>6, <1>7, <1>8 DEF ServerHandles, f

-----------------------------------------------------------------------------
(* Every step keeps receipts in front of requests.                            *)
THEOREM StepOrder == IInv /\ OrderInv /\ [Next]_vars => OrderInv'
<1> SUFFICES ASSUME IInv, OrderInv, [Next]_vars PROVE OrderInv'
  OBVIOUS
<1>1. ASSUME NEW r \in Runs, ServerHandles(r) PROVE OrderInv'
  BY <1>1, ServerHandlesOrder
<1>2. ASSUME NEW r \in Runs, NEW who \in Origins, Dispatch(r, who) PROVE OrderInv'
  BY <1>2, DispatchOrder
<1>3. CASE \/ Cancel \/ Watchdog \/ Exit \/ HoldExpires
           \/ \E q \in Requests : Resend(q) \/ Expire(q)
  BY <1>3, BindingOrder
<1>4. CASE \/ \E q \in Requests : DeadlinePasses(q)
           \/ \E q \in Requests, d \in Decisions : MatchOrigin(q, d)
           \/ RequesterRefused \/ Reconnect \/ UNCHANGED vars
  BY <1>4, IdleOrder
<1>5. CASE RequesterDecides \/ \E q \in Requests, d \in Decisions : OwnerDecides(q, d)
  BY <1>5, DecidersOrder
<1>6. ASSUME NEW q \in Requests, Ask(q) PROVE OrderInv'
  BY <1>6, AskOrder
<1>7. CASE Progress \/ Return \/ \E q \in Requests : Withdraw(q)
  BY <1>7, BackendOrder
<1>8. CASE ClientHandles \/ Break \/ Crash
  BY <1>8, ClientHandlesOrder, DisconnectOrder
<1> QED BY <1>1, <1>2, <1>3, <1>4, <1>5, <1>6, <1>7, <1>8 DEF Next

(* A correct daemon's request never meets an open one, for which the server   *)
(* would fail the run, however decisions, breaks and withdrawals interleave.  *)
THEOREM RequestsNeverMeet == Spec => []NoFalseDuplicate
<1>1. IInv /\ OrderInv => NoFalseDuplicate
  <2> SUFFICES ASSUME IInv, OrderInv, NEW r \in Runs, up[r] # <<>>,
                      Head(up[r]).type = "approval.request", NEW q \in waiting(r)
               PROVE  FALSE
    BY DEF NoFalseDuplicate
  <2>1. 1 \in 1..Len(up[r]) /\ up[r][1] = Head(up[r])
    BY DEF IInv, TypeOK
  <2>2. \E j \in 1..Len(up[r]) : j < 1
    BY <2>1 DEF OrderInv, Mail, InOrder, OpenBefore, Asks
  <2> QED BY <2>2
<1> QED BY <1>1, InitInvariant, InitOrder, StepInvariant, StepOrder, PTL DEF Spec

=============================================================================
