----------------------------- MODULE OpenclawBackend -----------------------------
(***************************************************************************)
(* The openclaw backend: tasks over one gateway connection.  A task sends  *)
(* its message and learns the id of its run from the acknowledgement; the  *)
(* events of the run may come before.  What the agent says meanwhile goes  *)
(* to the one task that listens to the session, in order, each message     *)
(* after the files it names have been read.                                *)
(*                                                                         *)
(* Code: createOpenclawBackend and GatewayClient in                        *)
(* packages/client/src/backends/openclaw.ts.  The gateway is external.     *)
(***************************************************************************)
EXTENDS Naturals, Sequences, FiniteSets, SequencesExt

CONSTANTS
  Tasks, Keys,
  key,          \* session key of each task: its agent, context and caller
  MaxConns,     \* bound: connections tried
  MaxQueue,     \* bound: messages waiting for a task's files to be read
  Nothing


VARIABLES
  conn,         \* connections tried so far
  link,         \* the last of them
  lacks,        \* gatewayLacksMessageSubscribe
  subscribed,   \* subscribedSessionKeys
  owner,        \* sessionMessageOwners
  pc,           \* where handle() is, by task
  gw,           \* the connection a task uses
  signal,       \* cancelled tasks
  run,          \* the task's run at the gateway
  settled,      \* what ended the wait
  pend,         \* pendingRunEvents of the task's run
  finalized,    \* recentlyFinalizedRuns
  asked,        \* chat.abort of the task's run
  queue,        \* processingTail: runs whose message waits to be passed on
  reading,      \* the first of them is being processed
  out,          \* artifacts emitted: the runs they come from
  verdict       \* terminal frame

vars == <<conn, link, lacks, subscribed, owner, pc, gw, signal, run, settled, pend, finalized,
          asked, queue, reading, out, verdict>>

Link == <<conn, link, lacks>>
Streaming == <<subscribed, owner>>
Events == <<settled, pend, finalized>>
Passing == <<queue, reading, out>>

Ends == {"final", "error", "aborted"}          \* terminal chat events
Causes == {"timeout", "gateway_closed", "abort_failed"}

(* Nothing is no task, no event and no cause.                                 *)
ConstantsOK ==
  /\ key \in [Tasks -> Keys] /\ MaxConns \in Nat /\ MaxQueue \in Nat
  /\ Nothing \notin Tasks \cup Ends \cup Causes \cup {"delta", "completed", "failed", "canceled"}

Registered == {"send", "running", "draining", "final"}   \* in taskFinalizers
Bound == {"running", "draining", "final"}                \* runId is known
Up(t) == link = "up" /\ gw[t] = conn

(* A session's listener is a task of that session that has not ended.         *)
TypeOK ==
  /\ conn \in 0..MaxConns /\ link \in {"down", "connecting", "up"} /\ lacks \in BOOLEAN
  /\ subscribed \subseteq Keys
  /\ owner \in [Keys -> Tasks \cup {Nothing}]
  /\ \A k \in Keys : owner[k] # Nothing =>
       /\ key[owner[k]] = k /\ pc[owner[k]] \in Registered /\ Up(owner[k])
  /\ pc \in [Tasks -> {"new", "connect", "subscribe", "done"} \cup Registered]
  /\ gw \in [Tasks -> 0..MaxConns] /\ signal \subseteq Tasks
  /\ run \in [Tasks -> {"none", "live", "over"}]
  /\ settled \in [Tasks -> Ends \cup Causes \cup {Nothing}]
  /\ pend \in [Tasks -> Ends \cup {"delta", Nothing}]
  /\ finalized \subseteq Tasks
  /\ asked \in [Tasks -> {"no", "pending", "sent", "answered"}]
  /\ queue \in [Tasks -> Seq(Tasks)] /\ reading \subseteq Tasks
  /\ out \in [Tasks -> SUBSET Tasks]
  /\ verdict \in [Tasks -> {Nothing, "completed", "failed", "canceled"}]

Init ==
  /\ conn = 0 /\ link = "down" /\ lacks = FALSE
  /\ subscribed = {} /\ owner = [k \in Keys |-> Nothing]
  /\ pc = [t \in Tasks |-> "new"] /\ gw = [t \in Tasks |-> 0] /\ signal = {}
  /\ run = [t \in Tasks |-> "none"] /\ settled = [t \in Tasks |-> Nothing]
  /\ pend = [t \in Tasks |-> Nothing] /\ finalized = {}
  /\ asked = [t \in Tasks |-> "no"]
  /\ queue = [t \in Tasks |-> <<>>] /\ reading = {}
  /\ out = [t \in Tasks |-> {}] /\ verdict = [t \in Tasks |-> Nothing]

(* The terminal frame and handle()'s last block.                              *)
EndsWith(t, v) ==
  /\ pc' = [pc EXCEPT ![t] = "done"] /\ verdict' = [verdict EXCEPT ![t] = v]
  /\ finalized' = IF pc[t] \in Bound THEN finalized \cup {t} ELSE finalized
  /\ pend' = IF pc[t] \in Bound THEN [pend EXCEPT ![t] = Nothing] ELSE pend
  /\ owner' = [k \in Keys |-> IF owner[k] = t THEN Nothing ELSE owner[k]]

---------------------------------------------------------------------------
(* The connection.                                                            *)

(* handle(), and ensureConnected: the connection there is, the one being      *)
(* opened, or a new one.  A cancelled task, or one whose parts are no good,   *)
(* does not get so far.                                                       *)
Arrive(t) ==
  /\ pc[t] = "new"
  /\ \/ /\ t \in signal /\ EndsWith(t, "canceled") /\ UNCHANGED <<Link, gw>>
     \/ /\ t \notin signal /\ EndsWith(t, "failed") /\ UNCHANGED <<Link, gw>>
     \/ /\ t \notin signal /\ pc' = [pc EXCEPT ![t] = "connect"]
        /\ \/ link # "down" /\ UNCHANGED Link
           \/ /\ link = "down" /\ conn < MaxConns
              /\ conn' = conn + 1 /\ link' = "connecting" /\ UNCHANGED lacks
        /\ gw' = [gw EXCEPT ![t] = conn']
        /\ UNCHANGED <<owner, verdict, finalized, pend>>
  /\ UNCHANGED <<subscribed, signal, run, settled, asked, Passing>>

(* The handshake is done, at the configured place or at a discovered one; or  *)
(* it fails or takes too long everywhere.                                     *)
Opened ==
  /\ link = "connecting" /\ link' = "up"
  /\ UNCHANGED <<conn, lacks, Streaming, pc, gw, signal, run, Events, asked, Passing, verdict>>

OpenFails ==
  /\ link = "connecting" /\ link' = "down"
  /\ UNCHANGED <<conn, lacks, Streaming, pc, gw, signal, run, Events, asked, Passing, verdict>>

NoGateway(t) ==
  /\ pc[t] = "connect" /\ (gw[t] # conn \/ link = "down")
  /\ EndsWith(t, "failed")
  /\ UNCHANGED <<Link, subscribed, gw, signal, run, settled, asked, Passing>>

(* chat.send goes out.  The task listens to its session if it may and nobody  *)
(* else does; its finalizer is registered; an abort seen so far waits.        *)
Send(t) ==
  /\ pc' = [pc EXCEPT ![t] = "send"]
  /\ owner' = IF key[t] \in subscribed' /\ owner[key[t]] = Nothing
              THEN [owner EXCEPT ![key[t]] = t] ELSE owner
  /\ asked' = [asked EXCEPT ![t] = IF t \in signal THEN "pending" ELSE "no"]

(* The session is known to be subscribed to, or not to be possible.           *)
Connected(t) ==
  /\ pc[t] = "connect" /\ Up(t)
  /\ UNCHANGED subscribed
  /\ IF key[t] \in subscribed \/ lacks THEN Send(t)
     ELSE pc' = [pc EXCEPT ![t] = "subscribe"] /\ UNCHANGED <<owner, asked>>
  /\ UNCHANGED <<Link, gw, signal, run, Events, Passing, verdict>>

(* The answer to sessions.messages.subscribe, whatever it is; an unknown      *)
(* method is not asked for again.                                             *)
Subscribed(t) ==
  /\ pc[t] = "subscribe" /\ Up(t)
  /\ \/ subscribed' = subscribed \cup {key[t]} /\ UNCHANGED lacks
     \/ lacks' = TRUE /\ UNCHANGED subscribed
     \/ UNCHANGED <<lacks, subscribed>>
  /\ Send(t)
  /\ UNCHANGED <<conn, link, gw, signal, run, Events, Passing, verdict>>

(* It can no longer come: chat.send fails at once.                            *)
SubscribeLost(t) ==
  /\ pc[t] = "subscribe" /\ ~Up(t)
  /\ EndsWith(t, "failed")
  /\ UNCHANGED <<Link, subscribed, gw, signal, run, settled, asked, Passing>>

(* handleGatewayClose: everything known of the connection is dropped and      *)
(* every task that waits is failed.                                           *)
Close ==
  /\ link = "up" /\ link' = "down" /\ lacks' = FALSE
  /\ pend' = [t \in Tasks |-> Nothing] /\ finalized' = {}
  /\ subscribed' = {} /\ owner' = [k \in Keys |-> Nothing]
  /\ run' = [t \in Tasks |-> IF run[t] = "live" THEN "over" ELSE run[t]]
  /\ settled' = [t \in Tasks |-> IF pc[t] \in Registered /\ settled[t] = Nothing
                                 THEN "gateway_closed" ELSE settled[t]]
  /\ UNCHANGED <<conn, pc, gw, signal, asked, Passing, verdict>>

---------------------------------------------------------------------------
(* A run and its events.                                                      *)

(* chat.send reaches the gateway.                                             *)
RunStarts(t) ==
  /\ pc[t] = "send" /\ Up(t) /\ run[t] = "none"
  /\ run' = [run EXCEPT ![t] = "live"]
  /\ UNCHANGED <<Link, Streaming, pc, gw, signal, Events, asked, Passing, verdict>>

(* The acknowledgement: the run is known, the events that came before it are  *)
(* taken, an abort that waited goes out.                                      *)
Ack(t) ==
  /\ pc[t] = "send" /\ Up(t) /\ run[t] # "none"
  /\ pc' = [pc EXCEPT ![t] = "running"]
  /\ pend' = [pend EXCEPT ![t] = Nothing]
  /\ settled' = [settled EXCEPT ![t] = IF @ = Nothing /\ pend[t] \in Ends THEN pend[t] ELSE @]
  /\ asked' = [asked EXCEPT ![t] = IF @ = "pending" THEN "sent" ELSE @]
  /\ UNCHANGED <<Link, Streaming, gw, signal, run, finalized, Passing, verdict>>

(* chat.send is refused, or the connection is lost before the acknowledgement:*)
(* the task fails without waiting for the messages in its queue.              *)
SendFails(t) ==
  /\ pc[t] = "send" /\ (run[t] = "none" \/ ~Up(t))
  /\ EndsWith(t, "failed")
  /\ UNCHANGED <<Link, subscribed, gw, signal, run, settled, asked, Passing>>

(* With a bug: whatever has no task is dropped.                               *)
TakeOrDrop(t, e) ==
  IF pc[t] \in Bound
  THEN /\ settled' = [settled EXCEPT ![t] = IF @ = Nothing /\ e \in Ends THEN e ELSE @]
       /\ UNCHANGED pend
  ELSE UNCHANGED <<settled, pend>>

(* A chat event: for the task of the run, if it is known; dropped if the run  *)
(* is over; kept otherwise.  A run's first terminal event is the one kept.    *)
Take(t, e) ==
  IF pc[t] \in Bound
  THEN /\ settled' = [settled EXCEPT ![t] = IF @ = Nothing /\ e \in Ends THEN e ELSE @]
       /\ UNCHANGED pend
  ELSE IF t \in finalized THEN UNCHANGED <<settled, pend>>
  ELSE /\ pend' = [pend EXCEPT ![t] = IF @ \in Ends THEN @ ELSE e]
       /\ UNCHANGED settled

(* A run goes on, ends, or an event of it comes late or twice.                *)
ChatEvent(t) ==
  /\ run[t] # "none" /\ Up(t)
  /\ \E e \in Ends \cup {"delta"} :
       /\ e = "aborted" => asked[t] = "sent"
       /\ run' = [run EXCEPT ![t] = IF e = "delta" THEN @ ELSE "over"]
       /\ Take(t, e)
  /\ UNCHANGED <<Link, Streaming, pc, gw, signal, finalized, asked, Passing, verdict>>

(* session.message: said in a run, put in the queue of the session's listener *)
(* for as long as that waits.                                                 *)
Message(r) ==
  /\ run[r] = "live" /\ Up(r)
  /\ LET t == owner[key[r]] IN
       /\ t # Nothing /\ pc[t] \in {"send", "running"}
       /\ Len(queue[t]) < MaxQueue /\ r \notin out[t]
       /\ queue' = [queue EXCEPT ![t] = Append(@, r)]
  /\ UNCHANGED <<Link, Streaming, pc, gw, signal, run, Events, asked, reading, out, verdict>>

(* The next message: its files are read, unless the task has ended.           *)
Read(t) ==
  /\ queue[t] # <<>> /\ t \notin reading
  /\ IF pc[t] = "done" THEN queue' = [queue EXCEPT ![t] = <<>>] /\ UNCHANGED reading
                       ELSE reading' = reading \cup {t} /\ UNCHANGED queue
  /\ UNCHANGED <<Link, Streaming, pc, gw, signal, run, Events, asked, out, verdict>>

(* The files are read and the message goes out.                               *)
Pass(t) ==
  /\ t \in reading
  /\ reading' = reading \ {t} /\ queue' = [queue EXCEPT ![t] = Tail(@)]
  /\ out' = [out EXCEPT ![t] = @ \cup {Head(queue[t])}]
  /\ UNCHANGED <<Link, Streaming, pc, gw, signal, run, Events, asked, verdict>>

---------------------------------------------------------------------------
(* The end of the wait.                                                       *)

(* onAbort: the run is aborted, as soon as it is known.                       *)
Abort(t) ==
  /\ t \notin signal /\ pc[t] # "done"
  /\ signal' = signal \cup {t}
  /\ asked' = [asked EXCEPT ![t] = IF pc[t] \in Bound THEN "sent"
                                  ELSE IF pc[t] = "send" THEN "pending" ELSE @]
  /\ UNCHANGED <<Link, Streaming, pc, gw, run, Events, Passing, verdict>>

(* chat.abort is refused or can no longer be answered.                        *)
AbortFails(t) ==
  /\ asked[t] = "sent" /\ pc[t] \in Bound
  /\ asked' = [asked EXCEPT ![t] = "answered"]
  /\ settled' = [settled EXCEPT ![t] = IF @ = Nothing THEN "abort_failed" ELSE @]
  /\ UNCHANGED <<Link, Streaming, pc, gw, signal, run, pend, finalized, Passing, verdict>>

(* taskTimeoutMs since chat.send.                                             *)
Timeout(t) ==
  /\ pc[t] \in {"send", "running"} /\ settled[t] = Nothing
  /\ settled' = [settled EXCEPT ![t] = "timeout"]
  /\ UNCHANGED <<Link, Streaming, pc, gw, signal, run, pend, finalized, asked, Passing, verdict>>

(* The wait is over: what is queued is passed on first.                       *)
Settled(t) ==
  /\ pc[t] = "running" /\ settled[t] # Nothing
  /\ pc' = [pc EXCEPT ![t] = "draining"]
  /\ UNCHANGED <<Link, Streaming, gw, signal, run, Events, asked, Passing, verdict>>

(* The queue is empty and closed; the verdict, which for a run that came to   *)
(* its end waits for the files of the result.                                 *)
Drained(t) ==
  /\ pc[t] = "draining" /\ queue[t] = <<>>
  /\ \/ /\ settled[t] = "final" /\ pc' = [pc EXCEPT ![t] = "final"]
        /\ UNCHANGED <<owner, verdict, finalized, pend>>
     \/ settled[t] = "aborted" /\ EndsWith(t, "canceled")
     \/ settled[t] \notin {"final", "aborted"} /\ EndsWith(t, "failed")
  /\ UNCHANGED <<Link, subscribed, gw, signal, run, settled, asked, Passing>>

(* A task that has passed on nothing sends its result.                        *)
Finish(t) ==
  /\ pc[t] = "final"
  /\ EndsWith(t, "completed")
  /\ out' = [out EXCEPT ![t] = IF @ = {} THEN {t} ELSE @]
  /\ UNCHANGED <<Link, subscribed, gw, signal, run, settled, asked, queue, reading>>

---------------------------------------------------------------------------
Bridge(t) == NoGateway(t) \/ Connected(t) \/ SubscribeLost(t) \/ SendFails(t) \/ Settled(t)
             \/ Drained(t) \/ Finish(t)

Next ==
  \/ Opened \/ OpenFails \/ Close
  \/ \E t \in Tasks :
       \/ Bridge(t) \/ Arrive(t) \/ Subscribed(t) \/ RunStarts(t) \/ Ack(t) \/ ChatEvent(t)
       \/ Message(t) \/ Read(t) \/ Pass(t) \/ Abort(t) \/ AbortFails(t) \/ Timeout(t)

Spec == Init /\ [][Next]_vars

(* The gateway answers requests; it may never end a run.  Files are read and  *)
(* timers fire.                                                               *)
Fairness ==
  /\ WF_vars(Opened \/ OpenFails)
  /\ \A t \in Tasks :
       /\ WF_vars(Bridge(t)) /\ WF_vars(Subscribed(t)) /\ WF_vars(RunStarts(t))
       /\ WF_vars(Ack(t)) /\ WF_vars(Read(t)) /\ WF_vars(Pass(t)) /\ WF_vars(Timeout(t))

FairSpec == Spec /\ Fairness

---------------------------------------------------------------------------
(* The end of a run is never lost, not even when it came before the           *)
(* acknowledgement: a task whose run is over on a living connection knows.    *)
EndIsHeard ==
  \A t \in Tasks : pc[t] = "running" /\ run[t] = "over" /\ Up(t) => settled[t] # Nothing

(* A cancelled task has had its run aborted as soon as it knows the run,      *)
(* whenever the cancellation came.                                            *)
AbortReachesRun ==
  \A t \in Tasks \cap signal : pc[t] = "running" => asked[t] \in {"sent", "answered"}

(* Nothing is kept of the runs of tasks that have ended, however late or      *)
(* often the gateway reports on them.                                         *)
NoEventsPileUp == \A t \in Tasks : pc[t] = "done" => pend[t] = Nothing

(* What a task has to pass on comes before it is completed or cancelled.      *)
QuietOnceDone ==
  [][\A t \in Tasks : verdict[t] \in {"completed", "canceled"} => out'[t] = out[t]]_vars
=============================================================================
