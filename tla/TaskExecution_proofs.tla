------------------------- MODULE TaskExecution_proofs -------------------------
(***************************************************************************)
(* One task's requests for every number of requests, of events and of      *)
(* failed writes.  The inductive invariant has three layers: what is       *)
(* possible within one run (its queue, its loop and what it was told), who *)
(* may hold the task's binding, controller, turn and label, and what a     *)
(* cancellation under way has already said to the row.                     *)
(***************************************************************************)
EXTENDS TaskExecution, SequenceTheorems, TLAPS

(* A queue holds one terminal event at most: the last, after which nothing is *)
(* accepted.                                                                  *)
Ordered(q, closed) == \A i \in 1 .. Len(q) : q[i] \in Terminal => i = Len(q) /\ closed
EndsTerminal(q) == q # <<>> /\ q[Len(q)] \in Terminal
HasCancel(q) == \E i \in 1 .. Len(q) : q[i] = "canceled"

Before == {"idle", "waiting", "dispatching", "marked"}
Serving == {"parked", "saving", "paused", "closing"}
Looping(x) == x.told = None /\ x.stage \in {"parked", "saving", "paused"}

(* Nothing reaches a run before it is bound. *)
Fresh(x) ==
  x.stage \in Before =>
    /\ x.queue = <<>> /\ ~x.closed /\ ~x.aborted /\ x.status = "working"
    /\ x.told = None /\ x.pushed = 0 /\ ~x.asking

(* A verdict that was given is the run's, and nothing is behind it. *)
Given(x) ==
  x.told # None => x.queue = <<>> /\ x.status = x.told /\ x.stage \in {"paused", "closing", "done"}

(* A run in its loop has no verdict, but will have one once its queue is closed. *)
Looks(x) ==
  Looping(x) =>
    /\ x.status \notin Terminal
    /\ x.stage = "parked" => x.queue = <<>> /\ ~x.closed /\ ~x.aborted
    /\ x.closed => EndsTerminal(x.queue)

Lasts(x) ==
  /\ Ordered(x.queue, x.closed)
  /\ x.stage = "closing" /\ x.told = None => x.aborted
  /\ x.aborted => x.closed

(* What was pushed bounds what waits in the queue. *)
Counted(x) ==
  /\ x.pushed <= MaxOutput
  /\ Len(x.queue) <= 2 * x.pushed
  /\ ~x.closed /\ x.pushed # 0 => Len(x.queue) <= 2 * x.pushed - 1
  /\ ~x.closed /\ x.pushed # 0 /\ x.asking => Len(x.queue) <= 2 * x.pushed - 2
  /\ ~x.closed /\ x.pushed = 0 => x.queue = <<>> /\ ~x.asking
  /\ ~x.closed /\ x.pushed = 0 /\ x.stage \in {"saving", "paused"} => x.told # None

Sound(x) == Fresh(x) /\ Given(x) /\ Looks(x) /\ Lasts(x) /\ Counted(x)

(* A cancellation has reached the run. *)
Canceled(x) == x.status = "canceled" \/ x.aborted \/ HasCancel(x.queue)

(* Who holds the binding and the controller, and that an open loop is bound. *)
Holder(r) ==
  /\ binding = r => controller = r /\ (exec[r].told # None => exec[r].closed)
  /\ Looping(exec[r]) /\ ~exec[r].closed => binding = r
  /\ controller = r => exec[r].stage \in Serving /\ exec[r].marked
  /\ controller = r /\ binding # r => exec[r].closed

(* Who has the turn, and what it may rely on in the row. *)
Turned(r) ==
  /\ turn = r <=> exec[r].stage \in {"dispatching", "marked"}
  /\ exec[r].stage \in {"idle", "waiting", "dispatching"} => ~exec[r].marked
  /\ exec[r].stage = "marked" \/ Looping(exec[r]) => exec[r].marked
  /\ exec[r].stage = "marked" => row = [dispatch |-> r, status |-> "working"]
  /\ exec[r].stage = "dispatching" =>
       /\ reading # None
       /\ faults = 0 => (reading = "canceled" <=> row.status = "canceled")

(* What the cancel has said to a run is in the row, or is about to be. *)
Announced == row.status = "canceled" \/ (turn = "cancel" /\ reading = None)
Known(r) == faults = 0 /\ Canceled(exec[r]) => Announced

(* A run that is over without a verdict was aborted, or the store failed. *)
Ends(r) == exec[r].stage = "done" /\ exec[r].told = None => exec[r].aborted \/ faults # 0

Each(r) == Sound(exec[r]) /\ Holder(r) /\ Turned(r) /\ Known(r) /\ Ends(r)

Labels == row.dispatch # None => exec[row.dispatch].marked

Types ==
  /\ row \in [dispatch : Runs \cup {None}, status : Statuses]
  /\ turn \in Runs \cup {None, "cancel"}
  /\ reading \in Statuses \cup {None}
  /\ binding \in Runs \cup {None} /\ controller \in Runs \cup {None}
  /\ exec \in [Runs -> Executions]
  /\ faults \in 0 .. MaxFaults

IInv == Types /\ (\A r \in Runs : Each(r)) /\ Labels /\ RowAgrees

-----------------------------------------------------------------------------
(* The empty queue. *)
LEMMA NoEvents ==
  ASSUME NEW c
  PROVE  /\ <<>> \in Seq(Events) /\ Len(<<>>) = 0
         /\ Ordered(<<>>, c) /\ ~EndsTerminal(<<>>) /\ ~HasCancel(<<>>)
<1>1. <<>> \in Seq(Events) /\ Len(<<>>) = 0
  BY EmptySeq
<1> QED
  BY <1>1 DEF Ordered, EndsTerminal, HasCancel

(* Taking the first event of a queue. *)
LEMMA Pop ==
  ASSUME NEW q \in Seq(Events), q # <<>>, NEW c
  PROVE  /\ Head(q) \in Events /\ Tail(q) \in Seq(Events) /\ Len(q) = Len(Tail(q)) + 1
         /\ Len(Tail(q)) \in Nat
         /\ Ordered(q, c) => Ordered(Tail(q), c)
         /\ Ordered(q, c) /\ Head(q) \in Terminal => Tail(q) = <<>> /\ c
         /\ EndsTerminal(q) /\ Head(q) \notin Terminal => EndsTerminal(Tail(q))
         /\ HasCancel(Tail(q)) => HasCancel(q)
         /\ Head(q) = "canceled" => HasCancel(q)
<1> DEFINE t == Tail(q)
<1>1. /\ Head(q) \in Events /\ t \in Seq(Events) /\ Len(t) = Len(q) - 1
      /\ \A i \in 1 .. Len(t) : t[i] = q[i + 1]
  BY HeadTailProperties
<1>2. Len(q) \in Nat /\ Len(t) \in Nat /\ (Len(t) = 0 <=> t = <<>>)
  BY <1>1, LenProperties, EmptySeq
<1>3. Len(q) = Len(t) + 1
  BY <1>1, <1>2
<1>4. Head(q) = q[1]
  OBVIOUS
<1> HIDE DEF t
<1>5. Ordered(q, c) => Ordered(t, c)
  <2> SUFFICES ASSUME Ordered(q, c), NEW i \in 1 .. Len(t), t[i] \in Terminal
               PROVE  i = Len(t) /\ c
    BY DEF Ordered
  <2>1. i + 1 \in 1 .. Len(q) /\ q[i + 1] \in Terminal
    BY <1>1, <1>2, <1>3
  <2>2. i + 1 = Len(q) /\ c
    BY <2>1 DEF Ordered
  <2> QED
    BY <2>2, <1>2, <1>3
<1>6. Ordered(q, c) /\ Head(q) \in Terminal => t = <<>> /\ c
  BY <1>2, <1>3, <1>4 DEF Ordered
<1>7. EndsTerminal(q) /\ Head(q) \notin Terminal => EndsTerminal(t)
  <2> SUFFICES ASSUME EndsTerminal(q), Head(q) \notin Terminal PROVE EndsTerminal(t)
    OBVIOUS
  <2>1. Len(t) # 0
    BY <1>2, <1>3, <1>4 DEF EndsTerminal
  <2>2. t[Len(t)] = q[Len(q)]
    BY <2>1, <1>1, <1>2, <1>3
  <2> QED
    BY <2>1, <2>2, <1>2 DEF EndsTerminal
<1>8. HasCancel(t) => HasCancel(q)
  <2> SUFFICES ASSUME NEW i \in 1 .. Len(t), t[i] = "canceled" PROVE HasCancel(q)
    BY DEF HasCancel
  <2>1. i + 1 \in 1 .. Len(q) /\ q[i + 1] = "canceled"
    BY <1>1, <1>2, <1>3
  <2> QED
    BY <2>1 DEF HasCancel
<1>9. Head(q) = "canceled" => HasCancel(q)
  BY <1>2, <1>3, <1>4 DEF HasCancel
<1> QED
  BY <1>1, <1>2, <1>3, <1>5, <1>6, <1>7, <1>8, <1>9 DEF t

(* Adding an event to an open queue, and closing the queue after a terminal one. *)
LEMMA Add ==
  ASSUME NEW q \in Seq(Events), NEW e \in Events, Ordered(q, FALSE)
  PROVE  /\ Append(q, e) \in Seq(Events) /\ Len(Append(q, e)) = Len(q) + 1
         /\ Len(q) \in Nat /\ Append(q, e) # <<>>
         /\ e \notin Terminal => Ordered(Append(q, e), FALSE)
         /\ e \in Terminal => Ordered(Append(q, e), TRUE) /\ EndsTerminal(Append(q, e))
         /\ HasCancel(Append(q, e)) => HasCancel(q) \/ e = "canceled"
<1> DEFINE s == Append(q, e)
<1>1. /\ s \in Seq(Events) /\ s # <<>> /\ Len(s) = Len(q) + 1
      /\ \A i \in 1 .. Len(q) : s[i] = q[i]
      /\ s[Len(q) + 1] = e
  BY AppendProperties
<1>2. Len(q) \in Nat
  BY LenProperties
<1> HIDE DEF s
<1>3. \A i \in 1 .. Len(s) : i \in 1 .. Len(q) \/ i = Len(q) + 1
  BY <1>1, <1>2
<1>4. \A i \in 1 .. Len(q) : q[i] \notin Terminal
  BY DEF Ordered
<1>5. e \notin Terminal => Ordered(s, FALSE)
  BY <1>1, <1>3, <1>4 DEF Ordered
<1>6. e \in Terminal => Ordered(s, TRUE) /\ EndsTerminal(s)
  BY <1>1, <1>3, <1>4 DEF Ordered, EndsTerminal
<1>7. HasCancel(s) => HasCancel(q) \/ e = "canceled"
  BY <1>1, <1>3 DEF HasCancel
<1> QED
  BY <1>1, <1>2, <1>5, <1>6, <1>7 DEF s

-----------------------------------------------------------------------------
(* One run.                                                                   *)

(* What a step of the loop or of the queue makes of a run that serves. *)
Keeps(x, y) ==
  /\ y \in Executions /\ Sound(y)
  /\ y.stage \in Serving /\ y.marked = x.marked
  /\ x.closed => y.closed
  /\ y.told # None => y.closed \/ x.told # None
  /\ x.status \in Terminal => y.status = x.status
  /\ Looping(y) => Looping(x)

Served(x) == x \in Executions /\ Sound(x) /\ x.stage \in Serving

(* Leaving the loop after a verdict or an abort. *)
LEMMA LeaveKeeps ==
  ASSUME NEW x, Served(x), x.told # None \/ x.aborted
  PROVE  /\ Keeps(x, Leave(x)) /\ Leave(x).stage = "closing"
         /\ Canceled(Leave(x)) => Canceled(x)
BY NoEvents DEF Served, Keeps, Leave, Executions, Sound, Fresh, Given, Looks, Looping, Lasts,
  Counted, Before, Serving, Canceled, Statuses, Terminal

(* The next event is looked for once the caller has come back. *)
LEMMA TakeKeeps ==
  ASSUME NEW x, Served(x), x.stage = "paused", x.told = None
  PROVE  /\ Keeps(x, Take(x))
         /\ Take(x).closed = x.closed
         /\ Canceled(Take(x)) => Canceled(x)
<1> USE ConstantsOK DEF Served, Keeps, Executions, Serving, Before
<1>1. CASE x.aborted
  BY <1>1, LeaveKeeps DEF Take, Leave
<1>2. CASE ~x.aborted /\ x.queue # <<>>
  <2> DEFINE e == Head(x.queue)  q == Tail(x.queue)
             z == [x EXCEPT !.queue = q]
  <2>1. Take(x) = Consume(z, e)
    BY <1>2 DEF Take
  <2>2. /\ e \in Events /\ q \in Seq(Events) /\ Len(x.queue) = Len(q) + 1 /\ Len(q) \in Nat
        /\ Ordered(q, x.closed)
        /\ e \in Terminal => q = <<>> /\ x.closed
        /\ EndsTerminal(x.queue) /\ e \notin Terminal => EndsTerminal(q)
        /\ HasCancel(q) => HasCancel(x.queue)
        /\ e = "canceled" => HasCancel(x.queue)
    BY <1>2, Pop DEF Sound, Lasts
  <2> HIDE DEF e, q
  <2>3. z \in Executions /\ x.queue # <<>>
    BY <2>2, <1>2
  <2>4. CASE e \in Terminal
    <3> DEFINE y == [x EXCEPT !.queue = <<>>, !.stage = "paused", !.status = e, !.told = e]
    <3>1. Take(x) = y
      BY <2>1, <2>2, <2>4 DEF Consume
    <3>2. y \in Executions
      BY <2>4, NoEvents DEF Terminal, Statuses
    <3>3. y.closed /\ e # None /\ x.status \notin Terminal
      BY <2>2, <2>4 DEF Sound, Looks, Looping, Statuses
    <3>4. Sound(y)
      BY <2>2, <2>4, <3>3, NoEvents DEF Sound, Fresh, Given, Looks, Looping, Lasts, Counted
    <3>5. Canceled(y) => Canceled(x)
      BY <2>2, NoEvents DEF Canceled
    <3>6. y.stage = "paused" /\ y.marked = x.marked /\ y.closed = x.closed /\ y.told = e
      OBVIOUS
    <3> HIDE DEF y, Executions
    <3> QED
      BY <2>4, <3>1, <3>2, <3>3, <3>4, <3>5, <3>6 DEF Looping
  <2>5. CASE e \notin Terminal
    <3>1. x.status \notin Terminal
      BY DEF Sound, Looks, Looping
    <3>2. PICK g \in {"saving", "paused"}, s \in Statuses :
            /\ Consume(z, e) = [z EXCEPT !.status = s, !.stage = g]
            /\ s \notin Terminal
      BY <2>2, <2>3, <2>5, <3>1 DEF Consume, Events, Statuses, Terminal
    <3> DEFINE y == [z EXCEPT !.status = s, !.stage = g]
    <3>3. y \in Executions
      BY <2>3
    <3>4. Sound(y)
      BY <2>2, <2>3, <2>5, <3>1, <3>2 DEF Sound, Fresh, Given, Looks, Looping, Lasts, Counted
    <3>5. Canceled(y) => Canceled(x)
      BY <2>2, <3>2 DEF Canceled, Terminal
    <3>6. y.stage = g /\ y.marked = x.marked /\ y.closed = x.closed /\ y.told = x.told
      OBVIOUS
    <3> HIDE DEF y, Executions
    <3> QED
      BY <2>1, <3>1, <3>2, <3>3, <3>4, <3>5, <3>6 DEF y, Looping
  <2> QED
    BY <2>4, <2>5
<1>3. CASE ~x.aborted /\ x.queue = <<>>
  BY <1>3, NoEvents DEF Take, Sound, Fresh, Given, Looks, Looping, Lasts, Counted, Canceled
<1> QED
  BY <1>1, <1>2, <1>3

(* An event that is not a verdict reaches an open queue: the loop takes it or it waits. *)
LEMMA PushKeeps ==
  ASSUME NEW x \in Executions, NEW e \in {"progress", "auth-required", "working"},
         Ordered(x.queue, FALSE), Given(x), Looks(x), Lasts(x),
         x.stage \in Serving, x.told = None, ~x.closed,
         x.pushed # 0, x.pushed <= MaxOutput,
         x.stage # "parked" => Len(x.queue) <= 2 * x.pushed - 2,
         x.stage # "parked" /\ x.asking => Len(x.queue) <= 2 * x.pushed - 3
  PROVE  /\ Keeps(x, Push(x, e))
         /\ Canceled(Push(x, e)) => Canceled(x)
         /\ Push(x, e).closed = x.closed /\ Push(x, e).told = None
<1> USE ConstantsOK DEF Keeps, Executions, Serving, Before
<1> DEFINE y == Push(x, e)
<1>1. e \in Events /\ e \notin Terminal
  BY DEF Events, Statuses, Terminal
<1>2. CASE x.stage = "parked"
  <2>1. PICK g \in {"saving", "paused"}, s \in Statuses :
          /\ y = [x EXCEPT !.status = s, !.stage = g]
          /\ s \notin Terminal
    BY <1>1, <1>2 DEF Push, Consume, Events, Statuses, Terminal, Looks, Looping
  <2>2. Sound(y)
    BY <1>2, <2>1 DEF Sound, Fresh, Given, Looks, Looping, Lasts, Counted
  <2>3. Canceled(y) => Canceled(x)
    BY <2>1 DEF Canceled, Terminal
  <2>4. y \in Executions /\ y.stage = g /\ y.marked = x.marked /\ y.closed = x.closed /\ y.told = x.told
    BY <2>1
  <2>5. x.status \notin Terminal
    BY <1>2 DEF Looks, Looping
  <2> HIDE DEF y, Executions
  <2> QED
    BY <1>2, <2>1, <2>2, <2>3, <2>4, <2>5 DEF y, Looping
<1>3. CASE x.stage # "parked"
  <2> DEFINE q == Append(x.queue, e)
  <2>1. y = [x EXCEPT !.queue = q]
    BY <1>3 DEF Push
  <2>2. /\ q \in Seq(Events) /\ Len(q) = Len(x.queue) + 1 /\ Len(x.queue) \in Nat
        /\ Ordered(q, FALSE) /\ q # <<>>
        /\ HasCancel(q) => HasCancel(x.queue)
    BY <1>1, Add DEF Terminal
  <2> HIDE DEF q
  <2>3. y \in Executions
    BY <2>1, <2>2
  <2>4. Sound(y)
    <3>1. x.pushed \in Nat /\ MaxOutput \in Nat /\ x.stage # "closing" /\ x.stage \notin Before
      BY DEF Lasts
    <3>2. Counted(y)
      BY <1>3, <2>1, <2>2, <3>1 DEF Counted
    <3>3. Ordered(y.queue, y.closed)
      BY <2>1, <2>2 DEF Ordered
    <3> HIDE DEF y
    <3>4. Fresh(y) /\ Given(y) /\ Looks(y) /\ Lasts(y)
      BY <1>3, <2>1, <2>2, <3>1, <3>3 DEF Fresh, Given, Looks, Looping, Lasts
    <3> QED
      BY <3>2, <3>4 DEF Sound
  <2>5. Canceled(y) => Canceled(x)
    BY <2>1, <2>2 DEF Canceled
  <2>6. y.stage = x.stage /\ y.marked = x.marked /\ y.closed = x.closed /\ y.told = x.told
        /\ y.status = x.status
    BY <2>1
  <2> HIDE DEF y, Executions
  <2> QED
    BY <1>3, <2>1, <2>2, <2>3, <2>4, <2>5, <2>6 DEF y, Looping
<1> QED
  BY <1>2, <1>3

(* A verdict reaches the queue, which is closed behind it. *)
LEMMA ShutKeeps ==
  ASSUME NEW x, Served(x), x.told # None => x.closed, NEW v \in Terminal
  PROVE  LET y == End(Push(x, v))
         IN /\ Keeps(x, y) /\ y.closed
            /\ Canceled(y) => Canceled(x) \/ v = "canceled"
            /\ x.stage = "parked" => y.stage = "paused"
            /\ x.stage # "parked" => y.stage = x.stage
<1> USE ConstantsOK DEF Served, Keeps, Executions, Serving, Before
<1> DEFINE y == End(Push(x, v))
<1>1. v \in Events /\ v \in Statuses /\ v # None
  BY DEF Events, Statuses
<1>2. CASE x.closed
  <2>1. y = x /\ x.stage # "parked"
    BY <1>2 DEF Push, End, Sound, Looks, Looping, Given
  <2> QED
    BY <1>2, <2>1
<1>3. CASE ~x.closed /\ x.stage = "parked"
  <2>1. y = [x EXCEPT !.stage = "paused", !.status = v, !.told = v, !.closed = TRUE]
    BY <1>1, <1>3 DEF Push, End, Consume
  <2>2. x.queue = <<>> /\ x.status \notin Terminal /\ ~x.aborted
    BY <1>3 DEF Sound, Looks, Looping
  <2>3. Sound(y)
    <3>1. /\ y.queue = <<>> /\ y.stage = "paused" /\ y.status = v /\ y.told = v /\ y.closed
          /\ ~y.aborted /\ y.pushed = x.pushed /\ y.pushed \in Nat
      BY <2>1, <2>2
    <3>2. Counted(y)
      BY <3>1, NoEvents DEF Sound, Counted
    <3>3. Ordered(y.queue, y.closed)
      BY <3>1 DEF Ordered
    <3> HIDE DEF y
    <3>4. Fresh(y) /\ Given(y) /\ Looks(y) /\ Lasts(y)
      BY <1>1, <3>1, <3>3 DEF Fresh, Given, Looks, Looping, Lasts
    <3> QED
      BY <3>2, <3>4 DEF Sound
  <2>4. Canceled(y) => Canceled(x) \/ v = "canceled"
    BY <2>1, <2>2 DEF Canceled
  <2> HIDE DEF y
  <2>5. y \in Executions /\ y.stage = "paused" /\ y.marked = x.marked /\ y.closed /\ y.told # None
    BY <1>1, <2>1
  <2> HIDE DEF y, Executions
  <2> QED
    BY <1>3, <2>2, <2>3, <2>4, <2>5 DEF y, Looping
<1>4. CASE ~x.closed /\ x.stage # "parked"
  <2> DEFINE q == Append(x.queue, v)
  <2>1. y = [x EXCEPT !.queue = q, !.closed = TRUE]
    BY <1>4 DEF Push, End
  <2>2. /\ q \in Seq(Events) /\ Len(q) = Len(x.queue) + 1 /\ Len(x.queue) \in Nat
        /\ Ordered(q, TRUE) /\ EndsTerminal(q)
        /\ HasCancel(q) => HasCancel(x.queue) \/ v = "canceled"
    BY <1>1, <1>4, Add DEF Sound, Lasts
  <2> HIDE DEF q
  <2>3. x.told = None /\ x.stage # "closing" /\ x.pushed # 0
    BY <1>4 DEF Sound, Lasts, Counted
  <2>4. Sound(y)
    <3>1. Counted(y)
      BY <1>4, <2>1, <2>2, <2>3 DEF Sound, Counted
    <3>2. Fresh(y) /\ Given(y) /\ Looks(y) /\ Lasts(y)
      BY ZenonT(30), <1>4, <2>1, <2>2, <2>3 DEF Sound, Fresh, Given, Looks, Looping, Lasts
    <3> QED
      BY <3>1, <3>2 DEF Sound
  <2>5. Canceled(y) => Canceled(x) \/ v = "canceled"
    BY <2>1, <2>2 DEF Canceled
  <2>6. y \in Executions /\ y.stage = x.stage /\ y.marked = x.marked /\ y.closed /\ y.told = x.told
        /\ y.status = x.status
    BY <2>1, <2>2
  <2> HIDE DEF y, Executions
  <2> QED
    BY <1>4, <2>3, <2>4, <2>5, <2>6 DEF y, Looping
<1> QED
  BY <1>2, <1>3, <1>4

(* The same where the approvals of the binding go with it. *)
LEMMA FinishKeeps ==
  ASSUME NEW x, Served(x), x.told # None => x.closed, NEW v \in Terminal
  PROVE  LET y == FinishWith(x, v)
         IN /\ Keeps(x, y) /\ y.closed
            /\ Canceled(y) => Canceled(x) \/ v = "canceled"
            /\ x.stage = "parked" => y.stage = "paused"
            /\ x.stage # "parked" => y.stage = x.stage
<1> DEFINE z == [x EXCEPT !.asking = FALSE]
<1>1. /\ z \in Executions /\ z.stage = x.stage /\ z.queue = x.queue /\ z.closed = x.closed
      /\ z.aborted = x.aborted /\ z.status = x.status /\ z.told = x.told /\ z.pushed = x.pushed
      /\ z.marked = x.marked /\ ~z.asking /\ x.pushed \in Nat /\ Len(x.queue) \in Nat
  BY LenProperties DEF Served, Executions
<1> HIDE DEF z
<1>2. Served(z)
  <2>1. Counted(z)
    BY <1>1 DEF Served, Sound, Counted
  <2>2. Fresh(z) /\ Given(z) /\ Looks(z) /\ Lasts(z)
    BY <1>1 DEF Served, Sound, Fresh, Given, Looks, Looping, Lasts
  <2> QED
    BY <1>1, <2>1, <2>2 DEF Served, Sound
<1>3. FinishWith(x, v) = End(Push(z, v))
  BY DEF FinishWith, z
<1>4. Canceled(z) <=> Canceled(x)
  BY <1>1 DEF Canceled
<1> QED
  BY <1>1, <1>2, <1>3, <1>4, ShutKeeps DEF Keeps, Looping

(* An abort finds a closed queue: it cuts off what is still in it. *)
LEMMA AbortKeeps ==
  ASSUME NEW x, Served(x), x.closed
  PROVE  Keeps(x, Abort(x)) /\ Abort(x).stage = x.stage /\ Abort(x).closed
<1>1. x.stage # "parked"
  BY ConstantsOK DEF Served, Sound, Looks, Looping, Given
<1>2. CASE x.aborted
  BY <1>2 DEF Abort, Keeps, Served
<1>3. CASE ~x.aborted
  <2> DEFINE y == [x EXCEPT !.aborted = TRUE]
  <2>1. Abort(x) = y
    BY <1>1, <1>3 DEF Abort
  <2>2. /\ y \in Executions /\ y.stage = x.stage /\ y.queue = x.queue /\ y.closed = x.closed
        /\ y.aborted /\ y.status = x.status /\ y.told = x.told /\ y.pushed = x.pushed
        /\ y.marked = x.marked /\ y.asking = x.asking
    BY DEF Served, Executions
  <2> HIDE DEF y
  <2>3. Sound(y)
    BY <1>1, <2>2 DEF Served, Serving, Before, Sound, Fresh, Given, Looks, Looping, Lasts, Counted
  <2> QED
    BY <2>1, <2>2, <2>3 DEF Keeps, Served, Looping
<1> QED
  BY <1>2, <1>3

-----------------------------------------------------------------------------
(* At the start no run has begun. *)
THEOREM InitInvariant == Init => IInv
<1> SUFFICES ASSUME Init PROVE IInv
  OBVIOUS
<1> USE ConstantsOK, NoEvents DEF Init
<1>1. NewExecution \in Executions
  BY DEF NewExecution, Executions, Statuses, Terminal
<1>2. Types
  BY <1>1 DEF Types, Statuses
<1>3. ASSUME NEW r \in Runs PROVE Each(r)
  <2>1. Ordered(<<>>, FALSE) /\ ~HasCancel(<<>>)
    BY DEF Ordered, HasCancel
  <2>2. Counted(NewExecution)
    BY DEF NewExecution, Counted
  <2>3. Fresh(NewExecution) /\ Given(NewExecution) /\ Looks(NewExecution) /\ Lasts(NewExecution)
    BY <2>1 DEF NewExecution, Fresh, Given, Looks, Looping, Lasts, Before
  <2>4. ~Canceled(NewExecution) /\ ~Looping(NewExecution)
    BY <2>1 DEF NewExecution, Canceled, Looping
  <2> QED
    BY <2>2, <2>3, <2>4 DEF Sound, NewExecution, Each, Holder, Turned, Known, Ends
<1>4. Labels /\ RowAgrees
  BY DEF Labels, RowAgrees, StoredVerdictIsOwn, VerdictReachesStore
<1> QED
  BY <1>2, <1>3, <1>4 DEF IInv

-----------------------------------------------------------------------------
(* A step of the queue or of the loop of run r, which may lose its binding once *)
(* its queue is closed.                                                       *)
LEMMA RunKeeps ==
  ASSUME IInv, NEW r \in Runs, exec[r].stage \in Serving,
         NEW y, Keeps(exec[r], y), exec' = [exec EXCEPT ![r] = y],
         UNCHANGED <<row, turn, reading, controller, faults>>,
         binding' = binding \/ (binding = r /\ binding' = None /\ y.closed),
         Canceled(y) => Canceled(exec[r])
  PROVE  IInv'
<1>1. /\ Types /\ Each(r) /\ Labels /\ RowAgrees /\ y \in Executions
      /\ exec'[r] = y /\ \A q \in Runs \ {r} : exec'[q] = exec[q]
  BY DEF IInv, Types, Keeps
<1>2. Types'
  BY <1>1 DEF Types
<1>3. Each(r)'
  <2>1. Sound(y) /\ y.stage \in Serving /\ y.stage \notin {"idle", "waiting", "dispatching", "marked", "done"}
    BY DEF Keeps, Serving
  <2>2. Holder(r)'
    BY <1>1, <2>1, ConstantsOK DEF Each, Holder, Keeps, Looping, Types
  <2>3. Turned(r)'
    BY <1>1, <2>1 DEF Each, Turned, Keeps, Looping, Serving
  <2>4. Known(r)' /\ Ends(r)'
    BY <1>1, <2>1 DEF Each, Known, Ends, Announced
  <2> QED
    BY <1>1, <2>1, <2>2, <2>3, <2>4 DEF Each
<1>4. ASSUME NEW q \in Runs \ {r} PROVE Each(q)'
  BY <1>1, ConstantsOK DEF IInv, Each, Holder, Turned, Known, Ends, Announced
<1>5. Labels' /\ RowAgrees'
  <2>1. Labels'
    BY <1>1 DEF Labels, Keeps, Types
  <2>2. StoredVerdictIsOwn'
    BY <1>1 DEF RowAgrees, StoredVerdictIsOwn, Keeps, Types, Terminal
  <2>3. VerdictReachesStore'
    BY <1>1 DEF RowAgrees, VerdictReachesStore, Keeps, Serving
  <2> QED
    BY <2>1, <2>2, <2>3 DEF RowAgrees
<1> QED
  BY <1>2, <1>3, <1>4, <1>5 DEF IInv

(* Who is bound serves and its verdict is not given behind an open queue. *)
LEMMA BoundServes ==
  ASSUME IInv, NEW r \in Runs, binding = r
  PROVE  Served(exec[r]) /\ (exec[r].told # None => exec[r].closed) /\ controller = r
BY DEF IInv, Types, Each, Holder, Served

(* One more event of a run is counted, or an approval was answered. *)
Counts(x, z) ==
  /\ z.stage = x.stage /\ z.queue = x.queue /\ z.closed = x.closed /\ z.aborted = x.aborted
  /\ z.status = x.status /\ z.told = x.told /\ z.marked = x.marked
  /\ z.pushed = x.pushed + 1 \/ (z.pushed = x.pushed /\ x.asking /\ ~z.asking)

(* An event that is no verdict, for the bound run. *)
LEMMA PushedKeeps ==
  ASSUME IInv, NEW r \in Runs, binding = r,
         NEW z \in Executions, Counts(exec[r], z), z.pushed <= MaxOutput,
         NEW e \in {"progress", "auth-required", "working"},
         exec' = [exec EXCEPT ![r] = Push(z, e)],
         UNCHANGED <<row, turn, reading, controller, faults>>, binding' = binding
  PROVE  IInv'
<1> DEFINE x == exec[r]
           y == Push(z, e)
           p == z.pushed
           a == z.asking
<1>1. Served(x) /\ (x.told # None => x.closed) /\ Counted(x) /\ exec' = [exec EXCEPT ![r] = y]
  BY BoundServes DEF Served, Sound
<1>2. x \in Executions /\ x.pushed \in Nat /\ Len(x.queue) \in Nat /\ MaxOutput \in Nat
  BY <1>1, LenProperties, ConstantsOK DEF Served, Executions
<1> HIDE DEF x
<1>3. Counts(x, z) /\ p \in Nat /\ a \in BOOLEAN
  BY DEF x, Executions
<1> USE DEF Counts
<1>4. Given(z) /\ Looks(z) /\ Lasts(z) /\ x.stage \notin Before
  BY <1>1, <1>3 DEF Served, Sound, Given, Looks, Looping, Lasts, Serving, Before
<1>5. Canceled(z) <=> Canceled(x)
  BY <1>3 DEF Canceled
<1>6. Keeps(z, y) /\ (Canceled(y) => Canceled(z))
  <2>1. CASE x.closed
    <3>1. y = z
      BY <1>3, <2>1 DEF Push
    <3>2. Counted(z)
      BY <1>1, <1>2, <1>3, <2>1 DEF x, Counted
    <3>3. Sound(z)
      BY <1>3, <1>4, <3>2 DEF Sound, Fresh
    <3> HIDE DEF y
    <3> QED
      BY <1>1, <1>3, <2>1, <3>1, <3>3 DEF Keeps, Served
  <2>2. CASE ~x.closed
    <3>1. x.told = None /\ x.stage # "closing" /\ ~x.aborted
      BY <1>1, <2>2 DEF Served, Sound, Lasts
    <3>2. x.pushed = 0 => x.stage = "parked" /\ p = 1
      BY <1>1, <2>2, <3>1 DEF x, Counted, Served, Serving
    <3>3. p # 0 /\ Ordered(z.queue, FALSE)
      <4>1. p # 0
        BY <1>2, <3>2 DEF x
      <4>2. ~z.closed /\ Ordered(z.queue, z.closed)
        BY <1>3, <1>4, <2>2 DEF Lasts
      <4> QED
        BY <4>1, <4>2 DEF Ordered
    <3>4. z.stage # "parked" => Len(z.queue) <= 2 * p - 2 /\ (a => Len(z.queue) <= 2 * p - 3)
      <4>1. CASE p = x.pushed + 1
        <5>1. x.pushed # 0 => Len(x.queue) <= 2 * x.pushed - 1
          BY <1>1, <2>2 DEF Counted
        <5>2. z.stage # "parked" => Len(x.queue) <= 2 * p - 3
          BY <1>2, <1>3, <3>2, <4>1, <5>1
        <5> QED
          BY <1>2, <1>3, <5>2
      <4>2. CASE p = x.pushed /\ x.asking /\ ~a
        BY <1>1, <1>2, <1>3, <2>2, <3>2, <4>2 DEF Counted
      <4> QED
        BY <4>1, <4>2 DEF x
    <3> HIDE DEF y
    <3> QED
      BY <1>1, <1>3, <1>4, <2>2, <3>1, <3>3, <3>4, PushKeeps DEF Served, y
  <2> QED
    BY <2>1, <2>2
<1> HIDE DEF y
<1>7. Keeps(x, y)
  BY <1>3, <1>6 DEF Keeps, Looping
<1>8. x.stage \in Serving /\ (Canceled(y) => Canceled(x))
  BY <1>1, <1>5, <1>6 DEF Served
<1> QED
  BY <1>1, <1>7, <1>8, RunKeeps DEF x

(* What the connection handler pushes. *)
LEMMA PushesKeep ==
  ASSUME IInv, NEW r \in Runs, Output(r) \/ ApprovalRequested(r) \/ ApprovalReceived(r)
  PROVE  IInv'
<1> DEFINE x == exec[r]
<1>1. x \in Executions /\ x.pushed \in Nat /\ x.pushed <= MaxOutput /\ MaxOutput \in Nat
  BY ConstantsOK DEF IInv, Types, Executions, Each, Sound, Counted
<1>2. CASE Output(r)
  <2> DEFINE z == [x EXCEPT !.pushed = @ + 1]
  <2>1. z \in Executions /\ Counts(x, z) /\ z.pushed <= MaxOutput
    BY <1>1, <1>2 DEF Executions, Output, Counts
  <2>2. exec' = [exec EXCEPT ![r] = Push(z, "progress")] /\ binding = r
        /\ UNCHANGED <<row, turn, reading, controller, faults>> /\ binding' = binding
    BY <1>2 DEF Output, Bound, Become, Progress
  <2> HIDE DEF z
  <2> QED
    BY <2>1, <2>2, PushedKeeps
<1>3. CASE ApprovalRequested(r)
  <2> DEFINE w == [x EXCEPT !.asking = TRUE]
             z == [w EXCEPT !.pushed = @ + 1]
  <2>0. w \in Executions /\ Counts(x, [w EXCEPT !.pushed = x.pushed + 1]) /\ w.pushed = x.pushed
    BY <1>1 DEF Executions, Counts
  <2>1. z \in Executions /\ Counts(x, z) /\ z.pushed <= MaxOutput
    <3> HIDE DEF w
    <3> QED
      BY <1>1, <1>3, <2>0 DEF Executions, ApprovalRequested
  <2>2. exec' = [exec EXCEPT ![r] = Push(z, "auth-required")] /\ binding = r
        /\ UNCHANGED <<row, turn, reading, controller, faults>> /\ binding' = binding
    BY <1>3 DEF ApprovalRequested, Bound, Become, Progress
  <2> HIDE DEF z
  <2> QED
    BY <2>1, <2>2, PushedKeeps
<1>4. CASE ApprovalReceived(r)
  <2> DEFINE z == [x EXCEPT !.asking = FALSE]
  <2>1. z \in Executions /\ Counts(x, z) /\ z.pushed <= MaxOutput
    BY <1>1, <1>4 DEF Executions, ApprovalReceived, Counts
  <2>2. exec' = [exec EXCEPT ![r] = Push(z, "working")] /\ binding = r
        /\ UNCHANGED <<row, turn, reading, controller, faults>> /\ binding' = binding
    BY <1>4 DEF ApprovalReceived, Bound, Become
  <2> HIDE DEF z
  <2> QED
    BY <2>1, <2>2, PushedKeeps
<1> QED
  BY <1>2, <1>3, <1>4

(* A verdict for the bound run. *)
LEMMA UnbindsKeeps ==
  ASSUME IInv, NEW r \in Runs, NEW v \in {"completed", "failed"}, Unbinds(r, v)
  PROVE  IInv'
<1>1. v \in Terminal /\ v # "canceled"
  BY DEF Terminal
<1>2. Served(exec[r]) /\ (exec[r].told # None => exec[r].closed) /\ binding = r
  BY BoundServes DEF Unbinds, Bound
<1>3. LET y == FinishWith(exec[r], v)
      IN Keeps(exec[r], y) /\ y.closed /\ (Canceled(y) => Canceled(exec[r]))
  BY <1>1, <1>2, FinishKeeps
<1> QED
  BY <1>2, <1>3, RunKeeps DEF Unbinds, Become, Served

(* The backstop ends a loop whose agent is silent. *)
LEMMA WatchdogKeeps ==
  ASSUME IInv, NEW r \in Runs, Watchdog(r)
  PROVE  IInv'
<1>1. "failed" \in Terminal
  BY DEF Terminal
<1>2. Served(exec[r]) /\ exec[r].told = None
  BY DEF IInv, Types, Each, Served, Watchdog, InLoop, Serving
<1>3. LET y == End(Push(exec[r], "failed"))
      IN Keeps(exec[r], y) /\ y.closed /\ (Canceled(y) => Canceled(exec[r]))
  BY <1>1, <1>2, ShutKeeps
<1> DEFINE y == End(Push(exec[r], "failed"))
<1>4. exec' = [exec EXCEPT ![r] = y] /\ UNCHANGED <<row, turn, reading, controller, faults>> /\ binding' = binding
  BY DEF Watchdog, Become
<1> HIDE DEF y
<1>5. Keeps(exec[r], y) /\ (Canceled(y) => Canceled(exec[r])) /\ exec[r].stage \in Serving
  BY <1>2, <1>3 DEF y, Served
<1> QED
  BY <1>4, <1>5, RunKeeps

(* The caller comes back. *)
LEMMA ResumeKeeps ==
  ASSUME IInv, NEW r \in Runs, Resume(r)
  PROVE  IInv'
<1> DEFINE x == exec[r]
           y == IF x.told # None THEN Leave(x) ELSE Take(x)
<1>1. Served(x) /\ x.stage = "paused"
  BY DEF IInv, Types, Each, Served, Resume, Serving
<1>2. exec' = [exec EXCEPT ![r] = y] /\ UNCHANGED <<row, turn, reading, controller, faults>> /\ binding' = binding
  BY DEF Resume, Become
<1>3. Keeps(x, y) /\ (Canceled(y) => Canceled(x))
  <2>1. CASE x.told # None
    BY <1>1, <2>1, LeaveKeeps
  <2>2. CASE x.told = None
    BY <1>1, <2>2, TakeKeeps
  <2> QED
    BY <2>1, <2>2
<1> HIDE DEF y
<1> QED
  BY <1>1, <1>2, <1>3, RunKeeps DEF Served

-----------------------------------------------------------------------------
(* The row.                                                                   *)

(* A run's save changes the row only under its own label, or under none, and  *)
(* never takes a cancellation back.                                           *)
Wrote(r) ==
  /\ row' \in [dispatch : Runs \cup {None}, status : Statuses] /\ row'.dispatch = row.dispatch
  /\ row' # row => /\ row'.status = exec[r].status
                   /\ row.dispatch = (IF exec[r].marked THEN r ELSE None)
                   /\ row.status # "canceled" \/ row.dispatch = None
  /\ row.status = "canceled" => row'.status = "canceled"

LEMMA UpdateWrites ==
  ASSUME IInv, NEW r \in Runs, updateTask(r, exec[r].status)
  PROVE  /\ Wrote(r)
         /\ row'.dispatch = r => row'.status \in {exec[r].status, "canceled"}
<1>1. /\ row \in [dispatch : Runs \cup {None}, status : Statuses] /\ exec[r].status \in Statuses
      /\ row.dispatch = r => exec[r].marked
  BY ConstantsOK DEF IInv, Types, Labels, Executions
<1>2. row' = row \/ row' = [row EXCEPT !.status = exec[r].status]
  BY DEF updateTask
<1>3. row' \in [dispatch : Runs \cup {None}, status : Statuses] /\ row'.dispatch = row.dispatch
  BY <1>1, <1>2
<1>4. row.status = "canceled" /\ (exec[r].marked => row.dispatch = r) => row' = row
  BY DEF updateTask
<1>5. (IF exec[r].marked THEN row.dispatch # r ELSE row.dispatch # None) => row' = row
  BY DEF updateTask
<1>6. row' # row => row'.status = exec[r].status
  BY <1>1, <1>2
<1>7. row.status = "canceled" => row' = row
  BY <1>4, <1>5
<1>8. row'.dispatch = r => row'.status \in {exec[r].status, "canceled"}
  BY <1>1, <1>2, <1>3 DEF updateTask
<1> QED
  BY <1>1, <1>3, <1>5, <1>6, <1>7, <1>8 DEF Wrote

(* What may be said of the run that saves, at rest or gone, and of its holds. *)
Rests(r, y) ==
  /\ y \in Executions /\ Sound(y) /\ y.marked = exec[r].marked
  /\ y.status = exec[r].status /\ y.told = exec[r].told /\ y.closed = exec[r].closed
  /\ y.aborted = exec[r].aborted /\ y.queue = exec[r].queue
  /\ \/ y.stage = "paused" /\ exec[r].stage \in {"saving", "paused"} /\ UNCHANGED <<binding, controller>>
     \/ y.stage = "done" /\ Release(r)
     \/ y.stage = "done" /\ exec[r].stage = "done" /\ UNCHANGED <<binding, controller>>

(* A save by a run past its dispatch, or its failure. *)
LEMMA SaveKeeps ==
  ASSUME IInv, NEW r \in Runs, exec[r].stage \in {"saving", "paused", "closing", "done"},
         NEW y, Rests(r, y), exec' = [exec EXCEPT ![r] = y], UNCHANGED <<turn, reading>>,
         (updateTask(r, exec[r].status) /\ faults' = faults) \/ StoreFails,
         y.stage = "done" /\ y.told = None => y.aborted \/ faults' # 0
  PROVE  IInv'
<1>1. /\ Types /\ Each(r) /\ Labels /\ RowAgrees /\ y \in Executions
      /\ exec'[r] = y /\ \A q \in Runs \ {r} : exec'[q] = exec[q]
      /\ exec' \in [Runs -> Executions] /\ y.stage \in {"paused", "done"}
  BY DEF IInv, Types, Rests
<1>2. Wrote(r) /\ faults' \in 0 .. MaxFaults /\ (faults' = 0 => faults = 0)
      /\ (faults' = 0 /\ row'.dispatch = r => row'.status \in {exec[r].status, "canceled"})
  BY <1>1, UpdateWrites, ConstantsOK DEF StoreFails, Types, Wrote
<1>3. binding' \in {binding, None} /\ controller' \in {controller, None}
      /\ (binding' # binding => binding = r) /\ (controller' # controller => controller = r)
      /\ (y.stage = "done" => binding' # r /\ controller' # r)
  BY <1>1, ConstantsOK DEF Rests, Release, Each, Holder, Types, Serving
<1>4. Types'
  BY <1>1, <1>2, <1>3 DEF Types, Wrote
<1>5. turn # r /\ y.stage \notin {"idle", "waiting", "dispatching", "marked"}
  BY <1>1 DEF Each, Turned
<1>6. faults' = 0 /\ row'.status = "canceled" => Announced \/ row'.status = row.status
  BY <1>1, <1>2 DEF Wrote, Each, Known, Canceled
<1>7. ASSUME NEW q \in Runs, faults' = 0, Canceled(exec[q]) PROVE Announced'
  <2>1. Announced
    BY <1>2, <1>7 DEF IInv, Each, Known
  <2> QED
    BY <1>2, <2>1 DEF Announced, Wrote
<1>8. Each(r)'
  <2>1. Holder(r)'
    BY <1>1, <1>3, ConstantsOK DEF Rests, Each, Holder, Looping, Serving
  <2>2. Turned(r)'
    BY <1>1, <1>5 DEF Rests, Each, Turned, Looping
  <2>3. Known(r)'
    BY <1>1, <1>7 DEF Rests, Known, Canceled
  <2>4. Ends(r)' /\ Sound(exec[r])'
    BY <1>1 DEF Rests, Ends
  <2> QED
    BY <2>1, <2>2, <2>3, <2>4 DEF Each
<1>9. ASSUME NEW q \in Runs \ {r} PROVE Each(q)'
  <2>1. Each(q) /\ exec'[q] = exec[q]
    BY <1>1 DEF IInv
  <2>2. Holder(q)'
    BY <1>3, <2>1, ConstantsOK DEF Each, Holder
  <2>3. Turned(q)'
    <3>1. exec[q].stage = "marked" => row' = row
      BY <1>2, <2>1, ConstantsOK DEF Each, Turned, Wrote
    <3>2. exec[q].stage = "dispatching" /\ faults' = 0 =>
            (row'.status = "canceled" <=> row.status = "canceled")
      BY <1>2, <1>6, <2>1, ConstantsOK DEF Each, Turned, Announced, Wrote
    <3> QED
      BY <1>2, <2>1, <3>1, <3>2 DEF Each, Turned
  <2>4. Known(q)' /\ Ends(q)'
    BY <1>2, <1>7, <2>1 DEF Each, Known, Ends
  <2> QED
    BY <2>1, <2>2, <2>3, <2>4 DEF Each
<1>10. Labels' /\ RowAgrees'
  <2>1. Labels'
    BY <1>1, <1>2 DEF Labels, Wrote, Rests, Types
  <2>2. StoredVerdictIsOwn'
    BY <1>1, <1>2, ConstantsOK DEF RowAgrees, StoredVerdictIsOwn, Wrote, Rests, Types
  <2>3. VerdictReachesStore'
    BY <1>1, <1>2, ConstantsOK DEF RowAgrees, VerdictReachesStore, Wrote, Rests, Types
  <2> QED
    BY <2>1, <2>2, <2>3 DEF RowAgrees
<1> QED
  BY <1>4, <1>8, <1>9, <1>10 DEF IInv

(* The save around an approval, the save that breaks the stream, the last save *)
(* and the SDK's.                                                             *)
LEMMA SavesKeep ==
  ASSUME IInv, NEW r \in Runs, Saved(r) \/ Breaks(r) \/ Finish(r) \/ SdkSaves(r)
  PROVE  IInv'
<1> DEFINE x == exec[r]
<1>1. x \in Executions /\ Sound(x) /\ Ends(r) /\ exec = [exec EXCEPT ![r] = x]
  BY DEF IInv, Types, Each
<1> USE DEF Serving
<1>2. CASE Saved(r)
  <2> DEFINE y == [x EXCEPT !.stage = "paused"]
  <2>1. Sound(y)
    BY <1>1, <1>2 DEF Saved, Executions, Sound, Fresh, Given, Looks, Looping, Lasts, Counted, Before
  <2>2. Rests(r, y) /\ y.stage = "paused" /\ exec[r].stage = "saving"
    BY <1>1, <1>2, <2>1 DEF Saved, Rests, Executions
  <2>3. exec' = [exec EXCEPT ![r] = y] /\ UNCHANGED <<turn, reading>>
        /\ updateTask(r, exec[r].status) /\ faults' = faults
    BY <1>2 DEF Saved, Become
  <2> HIDE DEF y
  <2> QED
    BY <2>2, <2>3, SaveKeeps
<1>3. CASE Breaks(r) \/ Finish(r)
  <2> DEFINE y == [x EXCEPT !.stage = "done", !.asking = FALSE]
  <2>1. x.stage \in {"saving", "paused", "closing"} /\ exec' = [exec EXCEPT ![r] = y]
        /\ UNCHANGED <<turn, reading>> /\ Release(r)
        /\ ((updateTask(r, exec[r].status) /\ faults' = faults) \/ StoreFails)
        /\ (x.stage # "closing" => StoreFails)
    BY <1>3 DEF Breaks, Finish, Become
  <2>2. /\ y \in Executions /\ y.queue = x.queue /\ y.closed = x.closed
        /\ y.aborted = x.aborted /\ y.status = x.status /\ y.told = x.told /\ y.pushed = x.pushed
        /\ y.marked = x.marked /\ ~y.asking /\ y.stage = "done"
    BY <1>1 DEF Executions
  <2> HIDE DEF y
  <2>3. Sound(y)
    BY <1>1, <2>2 DEF Sound, Fresh, Given, Looks, Looping, Lasts, Counted, Before
  <2>4. Rests(r, y)
    BY <2>1, <2>2, <2>3 DEF Rests
  <2>5. y.told = None => y.aborted \/ faults' # 0
    BY <1>1, <2>1, <2>2 DEF StoreFails, Sound, Lasts, IInv, Types
  <2> QED
    BY <2>1, <2>2, <2>4, <2>5, SaveKeeps
<1>4. CASE SdkSaves(r)
  <2>1. Rests(r, x) /\ x.stage \in {"paused", "done"}
    BY <1>1, <1>4 DEF SdkSaves, Rests
  <2>2. exec' = [exec EXCEPT ![r] = x] /\ UNCHANGED <<turn, reading>>
        /\ updateTask(r, exec[r].status) /\ faults' = faults
        /\ (x.stage = "done" /\ x.told = None => x.aborted \/ faults' # 0)
    BY <1>1, <1>4 DEF SdkSaves, Ends
  <2> HIDE DEF x
  <2> QED
    BY <2>1, <2>2, SaveKeeps DEF x
<1> QED
  BY <1>2, <1>3, <1>4

-----------------------------------------------------------------------------
(* Steps before the binding, and a caller that goes away: run r alone changes,  *)
(* and it may take the turn or give it back.                                  *)
LEMMA OutsideKeeps ==
  ASSUME IInv, NEW r \in Runs, NEW y \in Executions, exec' = [exec EXCEPT ![r] = y],
         UNCHANGED <<row, binding, controller>>,
         faults' \in 0 .. MaxFaults, faults' = 0 => faults = 0,
         \/ turn' = turn /\ reading' = reading
         \/ turn = None /\ turn' = r /\ reading' \in Statuses
         \/ turn = r /\ turn' = None /\ reading' = None,
         y.marked = exec[r].marked,
         exec[r].marked => y.status = exec[r].status /\ (y.stage = "done" => exec[r].stage = "done"),
         Each(r)'
  PROVE  IInv'
<1>1. /\ Types /\ Labels /\ RowAgrees
      /\ exec'[r] = y /\ \A q \in Runs \ {r} : exec'[q] = exec[q]
  BY DEF IInv, Types
<1>2. Types'
  BY <1>1 DEF Types
<1>3. ASSUME NEW q \in Runs \ {r} PROVE Each(q)'
  <2>1. Each(q) /\ exec'[q] = exec[q] /\ (Announced => Announced')
    BY <1>1, ConstantsOK DEF IInv, Announced
  <2> QED
    BY <2>1, ConstantsOK DEF Each, Holder, Turned, Known, Ends
<1>4. Labels' /\ RowAgrees'
  <2>1. Labels' /\ StoredVerdictIsOwn'
    BY <1>1 DEF Labels, RowAgrees, StoredVerdictIsOwn, Types
  <2>2. ASSUME NEW q \in Runs, exec'[q].stage = "done", row.dispatch = q, faults' = 0
        PROVE  row.status \in {exec'[q].status, "canceled"}
    <3>1. exec[q].stage = "done" /\ exec'[q].status = exec[q].status
      BY <1>1, <2>2, ConstantsOK DEF Labels
    <3> QED
      BY <1>1, <2>2, <3>1 DEF RowAgrees, VerdictReachesStore
  <2> QED
    BY <2>1, <2>2 DEF RowAgrees, VerdictReachesStore
<1> QED
  BY <1>2, <1>3, <1>4 DEF IInv

(* A request arrives. *)
LEMMA BeginKeeps ==
  ASSUME IInv, NEW r \in Runs, Begin(r)
  PROVE  IInv'
<1> DEFINE x == exec[r]
           y == [x EXCEPT !.stage = "waiting"]
<1>1. /\ x \in Executions /\ Each(r) /\ x.stage = "idle" /\ exec' = [exec EXCEPT ![r] = y]
      /\ exec'[r] = y /\ turn' = turn /\ reading' = reading /\ Types
      /\ UNCHANGED <<row, binding, controller>> /\ faults' = faults
  BY DEF IInv, Types, Begin, Become
<1>2. /\ y \in Executions /\ y.stage = "waiting" /\ y.queue = x.queue /\ y.closed = x.closed
      /\ y.aborted = x.aborted /\ y.status = x.status /\ y.told = x.told /\ y.pushed = x.pushed
      /\ y.asking = x.asking /\ y.marked = x.marked
  BY <1>1 DEF Executions
<1> HIDE DEF y
<1>3. Sound(y)
  BY <1>1, <1>2 DEF Each, Sound, Fresh, Given, Looks, Looping, Lasts, Counted, Before
<1>4. Each(r)'
  <2>1. Holder(r)' /\ Turned(r)'
    BY <1>1, <1>2 DEF Each, Holder, Turned, Looping, Serving
  <2>2. Known(r)' /\ Ends(r)'
    BY <1>1, <1>2 DEF Each, Known, Ends, Canceled, Announced
  <2> QED
    BY <1>1, <1>3, <2>1, <2>2 DEF Each
<1> QED
  BY <1>1, <1>2, <1>4, OutsideKeeps DEF Types

(* A caller goes away. *)
LEMMA DetachKeeps ==
  ASSUME IInv, NEW r \in Runs, Detach(r)
  PROVE  IInv'
<1> DEFINE x == exec[r]
           y == [x EXCEPT !.attached = FALSE]
<1>1. /\ x \in Executions /\ Each(r) /\ exec' = [exec EXCEPT ![r] = y]
      /\ exec'[r] = y /\ turn' = turn /\ reading' = reading /\ Types
      /\ UNCHANGED <<row, binding, controller>> /\ faults' = faults
  BY DEF IInv, Types, Detach, Become
<1>2. /\ y \in Executions /\ y.stage = x.stage /\ y.queue = x.queue /\ y.closed = x.closed
      /\ y.aborted = x.aborted /\ y.status = x.status /\ y.told = x.told /\ y.pushed = x.pushed
      /\ y.asking = x.asking /\ y.marked = x.marked
  BY <1>1 DEF Executions
<1> HIDE DEF y
<1>3. Sound(y)
  BY <1>1, <1>2 DEF Each, Sound, Fresh, Given, Looks, Looping, Lasts, Counted, Before
<1>4. Each(r)'
  <2>1. Holder(r)' /\ Turned(r)'
    BY <1>1, <1>2 DEF Each, Holder, Turned, Looping, Serving
  <2>2. Known(r)' /\ Ends(r)'
    BY <1>1, <1>2 DEF Each, Known, Ends, Canceled, Announced
  <2> QED
    BY <1>1, <1>3, <2>1, <2>2 DEF Each
<1> QED
  BY <1>1, <1>2, <1>4, OutsideKeeps DEF Types

(* The turn: the stored status is read, and a task that is over is answered. *)
LEMMA ReadsKeep ==
  ASSUME IInv, NEW r \in Runs, DispatchReads(r)
  PROVE  IInv'
<1> DEFINE x == exec[r]
           y == [x EXCEPT !.stage = "dispatching"]
<1>1. /\ x \in Executions /\ Each(r) /\ exec' = [exec EXCEPT ![r] = y] /\ x.stage = "waiting"
      /\ exec'[r] = y /\ turn = None /\ turn' = r /\ reading' = row.status /\ Types
      /\ UNCHANGED <<row, binding, controller>> /\ faults' = faults /\ row.status \in Statuses
  BY DEF IInv, Types, DispatchReads, Become
<1>2. /\ y \in Executions /\ y.stage = "dispatching" /\ y.queue = x.queue /\ y.closed = x.closed
      /\ y.aborted = x.aborted /\ y.status = x.status /\ y.told = x.told /\ y.pushed = x.pushed
      /\ y.asking = x.asking /\ y.marked = x.marked
  BY <1>1 DEF Executions
<1> HIDE DEF y
<1>3. Sound(y)
  BY <1>1, <1>2 DEF Each, Sound, Fresh, Given, Looks, Looping, Lasts, Counted, Before
<1>4. Each(r)'
  <2>1. Holder(r)' /\ Turned(r)'
    BY <1>1, <1>2, ConstantsOK DEF Each, Holder, Turned, Looping, Serving
  <2>2. Known(r)' /\ Ends(r)'
    BY <1>1, <1>2, ConstantsOK DEF Each, Known, Ends, Canceled, Announced
  <2> QED
    BY <1>1, <1>3, <2>1, <2>2 DEF Each
<1> QED
  BY <1>1, <1>2, <1>4, OutsideKeeps DEF Types

(* A dispatch that ends in its turn: the task was over, or the mark was not made. *)
LEMMA RejectsKeep ==
  ASSUME IInv, NEW r \in Runs, DispatchInterrupted(r) \/ DispatchFails(r)
  PROVE  IInv'
<1> DEFINE x == exec[r]
<1>1. /\ x \in Executions /\ Each(r) /\ x.stage = "dispatching" /\ Types
      /\ turn' = None /\ reading' = None /\ UNCHANGED <<row, binding, controller>>
  BY DEF IInv, Types, DispatchInterrupted, DispatchFails, Leaves, StoreFails
<1>2. PICK g \in {"done", "paused"}, v \in Terminal :
        /\ exec' = [exec EXCEPT ![r] = [x EXCEPT !.stage = g, !.closed = TRUE, !.status = v, !.told = v]]
        /\ \/ v = reading /\ faults' = faults
           \/ faults' = faults + 1 /\ faults < MaxFaults
  BY DEF DispatchInterrupted, DispatchFails, Become, StoreFails, Terminal
<1> DEFINE y == [x EXCEPT !.stage = g, !.closed = TRUE, !.status = v, !.told = v]
<1>3. /\ y \in Executions /\ y.stage = g /\ y.queue = x.queue /\ y.closed
      /\ y.aborted = x.aborted /\ y.status = v /\ y.told = v /\ y.pushed = x.pushed
      /\ y.asking = x.asking /\ y.marked = x.marked
  BY <1>1 DEF Executions, Statuses
<1>4. exec' = [exec EXCEPT ![r] = y] /\ exec'[r] = y
  BY <1>1, <1>2 DEF Types
<1> HIDE DEF y
<1>5. x.queue = <<>> /\ ~x.aborted /\ ~x.marked /\ turn = r /\ v # None
  BY <1>1, ConstantsOK DEF Each, Sound, Fresh, Before, Turned, Statuses
<1>6. Sound(y)
  <2>1. Ordered(y.queue, y.closed) /\ Counted(y)
    BY <1>1, <1>3, <1>5, NoEvents DEF Each, Sound, Counted, Ordered
  <2> QED
    BY <1>3, <1>5, <2>1 DEF Sound, Fresh, Given, Looks, Looping, Lasts, Before
<1>7. faults' \in 0 .. MaxFaults /\ (faults' = 0 => faults = 0 /\ v = reading)
  BY <1>1, <1>2, ConstantsOK DEF Types
<1>8. Each(r)'
  <2>1. Holder(r)' /\ Turned(r)'
    BY <1>1, <1>3, <1>4, <1>5, ConstantsOK DEF Each, Holder, Turned, Looping, Serving
  <2>2. Known(r)' /\ Ends(r)'
    BY <1>1, <1>3, <1>4, <1>5, <1>7, NoEvents, ConstantsOK
    DEF Each, Turned, Known, Ends, Canceled, Announced
  <2> QED
    BY <1>4, <1>6, <2>1, <2>2 DEF Each
<1> QED
  BY <1>1, <1>3, <1>4, <1>5, <1>7, <1>8, OutsideKeeps DEF Types

(* The mark: the row is the run's, and says nothing of earlier ones. *)
LEMMA MarksKeep ==
  ASSUME IInv, NEW r \in Runs, DispatchMarks(r)
  PROVE  IInv'
<1> DEFINE x == exec[r]
           y == [x EXCEPT !.stage = "marked", !.marked = TRUE]
<1>1. /\ x \in Executions /\ Each(r) /\ exec' = [exec EXCEPT ![r] = y] /\ x.stage = "dispatching"
      /\ exec'[r] = y /\ UNCHANGED <<turn, reading, binding, controller>> /\ faults' = faults
      /\ row' = [dispatch |-> r, status |-> "working"] /\ reading \notin Terminal /\ Types
      /\ turn = r /\ \A q \in Runs \ {r} : exec'[q] = exec[q]
  BY DEF IInv, Types, DispatchMarks, Become, Each, Turned
<1>2. /\ y \in Executions /\ y.stage = "marked" /\ y.queue = x.queue /\ y.closed = x.closed
      /\ y.aborted = x.aborted /\ y.status = x.status /\ y.told = x.told /\ y.pushed = x.pushed
      /\ y.asking = x.asking /\ y.marked
  BY <1>1 DEF Executions
<1> HIDE DEF y
<1>3. Types'
  BY <1>1, <1>2 DEF Types, Statuses
<1>4. Sound(y)
  BY <1>1, <1>2 DEF Each, Sound, Fresh, Given, Looks, Looping, Lasts, Counted, Before
<1>5. faults = 0 => ~Announced
  BY <1>1, ConstantsOK DEF Each, Turned, Announced, Terminal
<1>6. Each(r)'
  <2>1. Holder(r)' /\ Turned(r)'
    BY <1>1, <1>2 DEF Each, Holder, Turned, Looping, Serving
  <2>2. Known(r)' /\ Ends(r)'
    BY <1>1, <1>2, <1>5 DEF Each, Known, Ends, Canceled
  <2> QED
    BY <1>1, <1>4, <2>1, <2>2 DEF Each
<1>7. ASSUME NEW q \in Runs \ {r} PROVE Each(q)'
  <2>1. Each(q) /\ exec'[q] = exec[q]
    BY <1>1 DEF IInv
  <2>2. exec[q].stage \notin {"dispatching", "marked"}
    BY <1>1, <2>1 DEF Each, Turned
  <2> QED
    BY <1>1, <1>5, <2>1, <2>2 DEF Each, Holder, Turned, Known, Ends
<1>8. Labels' /\ RowAgrees'
  BY <1>1, <1>2 DEF Labels, RowAgrees, StoredVerdictIsOwn, VerdictReachesStore
<1> QED
  BY <1>3, <1>6, <1>7, <1>8 DEF IInv

(* The binding: the run it supersedes is failed. *)
LEMMA BindsKeep ==
  ASSUME IInv, NEW r \in Runs, NEW sent \in BOOLEAN, DispatchBinds(r, sent)
  PROVE  IInv'
<1> DEFINE x == exec[r]
           y == IF sent THEN [x EXCEPT !.stage = "parked"]
                ELSE [x EXCEPT !.stage = "paused", !.status = "failed", !.told = "failed"]
           new == IF sent THEN r ELSE None
<1>1. /\ x \in Executions /\ Each(r) /\ x.stage = "marked" /\ Types /\ UNCHANGED <<row, faults>>
      /\ turn' = None /\ reading' = None /\ binding' = new /\ controller' = new /\ new \in {r, None}
      /\ turn = r /\ row = [dispatch |-> r, status |-> "working"] /\ x.marked
  BY DEF IInv, Types, DispatchBinds, Leaves, Each, Turned
<1>2. binding # r
  BY <1>1 DEF Each, Holder, Serving
<1>3. binding \in Runs => LET z == FinishWith(exec[binding], "failed")
                          IN Keeps(exec[binding], z) /\ z.closed /\ (Canceled(z) => Canceled(exec[binding]))
  BY BoundServes, FinishKeeps DEF Terminal
<1>4. "failed" \in Terminal /\ "failed" # None
  BY ConstantsOK DEF Terminal, Statuses
<1>5. /\ y \in Executions /\ y.stage \in {"parked", "paused"} /\ y.queue = x.queue /\ y.closed = x.closed
      /\ y.aborted = x.aborted /\ y.pushed = x.pushed /\ y.asking = x.asking /\ y.marked
      /\ IF sent THEN y.stage = "parked" /\ y.status = x.status /\ y.told = x.told
         ELSE y.stage = "paused" /\ y.status = "failed" /\ y.told = "failed"
  BY <1>1, <1>4 DEF Executions, Statuses
<1>6. exec' = [q \in Runs |-> IF q = r THEN y
                              ELSE IF q = binding THEN FinishWith(exec[q], "failed") ELSE exec[q]]
  BY <1>1 DEF DispatchBinds
<1> HIDE DEF x, y
<1>7. /\ exec'[r] = y
      /\ \A q \in Runs \ {r} :
           \/ exec'[q] = exec[q] /\ binding # q
           \/ /\ binding = q /\ Keeps(exec[q], exec'[q]) /\ exec'[q].closed
              /\ Canceled(exec'[q]) => Canceled(exec[q])
  BY <1>2, <1>3, <1>6
<1>8. exec' \in [Runs -> Executions]
  BY <1>1, <1>2, <1>3, <1>5, <1>6 DEF Keeps, Types
<1>9. Types'
  BY <1>1, <1>8 DEF Types
<1>10. ~Announced
  BY <1>1, ConstantsOK DEF Announced
<1>11. Each(r)'
  <2>1. x.queue = <<>> /\ ~x.closed /\ ~x.aborted /\ x.status = "working" /\ x.told = None
        /\ x.pushed = 0 /\ ~x.asking
    BY <1>1 DEF x, Each, Sound, Fresh, Before
  <2>2. Sound(y)
    <3>1. Ordered(y.queue, y.closed) /\ Counted(y)
      BY <1>4, <1>5, <2>1, NoEvents, ConstantsOK DEF Counted, Ordered
    <3> QED
      BY <1>4, <1>5, <2>1, <3>1 DEF Sound, Fresh, Given, Looks, Looping, Lasts, Before, Terminal
  <2>3. Holder(r)'
    BY <1>1, <1>4, <1>5, <1>7, <2>1, ConstantsOK DEF Holder, Looping, Serving
  <2>4. Turned(r)'
    BY <1>1, <1>5, <1>7, ConstantsOK DEF Turned, Looping
  <2>5. Known(r)' /\ Ends(r)'
    BY <1>5, <1>7, <2>1, NoEvents DEF Known, Ends, Canceled
  <2> QED
    BY <1>7, <2>2, <2>3, <2>4, <2>5 DEF Each
<1>12. ASSUME NEW q \in Runs \ {r} PROVE Each(q)'
  <2>1. Each(q) /\ exec[q].stage \notin {"dispatching", "marked"}
    BY <1>1 DEF IInv, Each, Turned
  <2>2. Sound(exec'[q])
    BY <1>7, <2>1 DEF Each, Keeps
  <2>3. Holder(q)'
    BY <1>1, <1>7, <2>1, ConstantsOK DEF Each, Holder
  <2>4. Turned(q)'
    BY <1>1, <1>7, <2>1, ConstantsOK DEF Each, Turned, Keeps, Serving
  <2>5. Known(q)' /\ Ends(q)'
    BY <1>1, <1>7, <1>10, <2>1 DEF Each, Known, Ends, Keeps, Serving
  <2> QED
    BY <2>2, <2>3, <2>4, <2>5 DEF Each
<1>13. Labels' /\ RowAgrees'
  BY <1>1, <1>5, <1>7 DEF Labels, RowAgrees, StoredVerdictIsOwn, VerdictReachesStore
<1> QED
  BY <1>9, <1>11, <1>12, <1>13 DEF IInv

-----------------------------------------------------------------------------
(* The cancel takes the turn, and gives it back when there is nothing to cancel. *)
LEMMA CancelTurns ==
  ASSUME IInv, CancelReads \/ CancelRefused
  PROVE  IInv'
<1>1. /\ UNCHANGED <<row, binding, controller, exec, faults>> /\ Types /\ Labels /\ RowAgrees
      /\ turn \notin Runs /\ turn' \notin Runs
      /\ turn' \in {None, "cancel"} /\ reading' \in Statuses \cup {None}
      /\ (Announced => Announced')
  BY ConstantsOK
  DEF IInv, Types, CancelReads, CancelRefused, Leaves, Announced, Terminal, Statuses
<1>2. ASSUME NEW q \in Runs PROVE Each(q)'
  BY <1>1 DEF IInv, Each, Holder, Turned, Known, Ends
<1> QED
  BY <1>1, <1>2
  DEF IInv, Types, Labels, RowAgrees, StoredVerdictIsOwn, VerdictReachesStore

(* CANCELED goes through the sink of the bound run, and its controller is aborted. *)
LEMMA CancelActsOn ==
  ASSUME IInv, CancelActs, NEW q \in Runs
  PROVE  \/ exec'[q] = exec[q] /\ controller # q
         \/ /\ controller = q /\ Keeps(exec[q], exec'[q]) /\ exec'[q].closed
            /\ exec[q].stage = "parked" => exec'[q].stage = "paused"
<1> DEFINE x == exec[q]
           y == IF q = binding THEN End(Push(x, "canceled")) ELSE x
           z == IF q = controller THEN Abort(y) ELSE y
<1>1. Each(q) /\ x \in Executions /\ exec'[q] = z
  BY DEF IInv, Types, CancelActs
<1>2. CASE controller # q
  BY <1>1, <1>2 DEF Each, Holder
<1>3. CASE controller = q
  <2>1. Served(x)
    BY <1>1, <1>3 DEF Each, Holder, Served
  <2>2. Keeps(x, y) /\ y.closed /\ (x.stage = "parked" => y.stage = "paused")
    <3>1. CASE binding = q
      BY <2>1, <3>1, BoundServes, ShutKeeps DEF Terminal
    <3>2. CASE binding # q
      BY <1>1, <1>3, <2>1, <3>2 DEF Each, Holder, Keeps, Served, Sound, Looks, Looping, Given
    <3> QED
      BY <3>1, <3>2
  <2> HIDE DEF y
  <2>3. Keeps(y, Abort(y)) /\ Abort(y).stage = y.stage /\ Abort(y).closed
    BY <2>2, AbortKeeps DEF Keeps, Served
  <2>4. Keeps(x, Abort(y))
    BY <2>2, <2>3 DEF Keeps
  <2> QED
    BY <1>1, <1>3, <2>2, <2>3, <2>4
<1> QED
  BY <1>2, <1>3

LEMMA CancelActsKeeps ==
  ASSUME IInv, CancelActs
  PROVE  IInv'
<1>1. /\ UNCHANGED <<row, binding, controller, faults>> /\ Types /\ Labels /\ RowAgrees
      /\ turn = "cancel" /\ turn' = "cancel" /\ reading' = None /\ Announced'
  BY DEF IInv, Types, CancelActs, Announced
<1>2. exec' \in [Runs -> Executions]
  <2>1. ASSUME NEW q \in Runs PROVE exec'[q] \in Executions
    BY <1>1, CancelActsOn DEF Keeps, Types
  <2>2. exec' = [q \in Runs |-> exec'[q]]
    BY DEF CancelActs
  <2> QED
    BY <2>1, <2>2
<1>3. ASSUME NEW q \in Runs PROVE Each(q)'
  <2>1. Each(q) /\ turn # q
    BY <1>1, ConstantsOK DEF IInv
  <2>2. CASE exec'[q] = exec[q] /\ controller # q
    BY <1>1, <2>1, <2>2 DEF Each, Holder, Turned, Known, Ends
  <2>3. CASE controller = q /\ Keeps(exec[q], exec'[q]) /\ exec'[q].closed
    <3>1. Holder(q)' /\ Turned(q)'
      BY <1>1, <2>1, <2>3 DEF Each, Holder, Turned, Keeps, Serving
    <3> QED
      BY <1>1, <2>3, <3>1 DEF Each, Known, Ends, Keeps, Serving
  <2> QED
    BY <2>2, <2>3, CancelActsOn
<1>4. Labels' /\ RowAgrees'
  <2>1. \A q \in Runs : /\ exec'[q].marked = exec[q].marked
                        /\ exec[q].status \in Terminal => exec'[q].status = exec[q].status
                        /\ exec'[q].stage = "done" => exec'[q] = exec[q]
    BY CancelActsOn DEF Keeps, Serving
  <2> QED
    BY <1>1, <2>1 DEF Types, Labels, RowAgrees, StoredVerdictIsOwn, VerdictReachesStore, Terminal
<1> QED
  BY <1>1, <1>2, <1>3, <1>4 DEF IInv, Types

(* The cancel's own save, or its failure. *)
LEMMA CancelWritesKeeps ==
  ASSUME IInv, CancelWrites
  PROVE  IInv'
<1>1. /\ UNCHANGED <<reading, binding, controller, exec>> /\ Types /\ Labels /\ RowAgrees
      /\ turn = "cancel" /\ turn' = None /\ reading = None
      /\ \/ row' = [row EXCEPT !.status = "canceled"] /\ faults' = faults
         \/ row' = row /\ faults' = faults + 1 /\ faults < MaxFaults
  BY DEF IInv, CancelWrites, StoreFails
<1>2. /\ row' \in [dispatch : Runs \cup {None}, status : Statuses] /\ row'.dispatch = row.dispatch
      /\ faults' \in 0 .. MaxFaults /\ (faults' = 0 => faults = 0 /\ row'.status = "canceled")
      /\ row'.status \in {row.status, "canceled"}
  BY <1>1, ConstantsOK DEF Types, Statuses, Terminal
<1>3. ASSUME NEW q \in Runs PROVE Each(q)'
  <2>1. Each(q) /\ turn # q /\ turn' # q
    BY <1>1, ConstantsOK DEF IInv
  <2> QED
    BY <1>1, <1>2, <2>1 DEF Each, Holder, Turned, Known, Announced, Ends
<1>4. Labels' /\ RowAgrees'
  BY <1>1, <1>2 DEF Labels, RowAgrees, StoredVerdictIsOwn, VerdictReachesStore
<1> QED
  BY <1>1, <1>2, <1>3, <1>4 DEF IInv, Types

-----------------------------------------------------------------------------
(* Every step preserves the invariant. *)
THEOREM StepInvariant == IInv /\ [Next]_vars => IInv'
<1> SUFFICES ASSUME IInv, [Next]_vars PROVE IInv'
  OBVIOUS
<1>1. CASE UNCHANGED vars
  BY <1>1 DEF vars, IInv, Types, Each, Holder, Turned, Known, Ends, Announced, Labels, RowAgrees,
    StoredVerdictIsOwn, VerdictReachesStore
<1>2. CASE Cancel
  BY <1>2, CancelTurns, CancelActsKeeps, CancelWritesKeeps DEF Cancel
<1>3. ASSUME NEW r \in Runs, Begin(r) \/ DispatchReads(r) \/ Dispatch(r) PROVE IInv'
  BY <1>3, BeginKeeps, ReadsKeep, RejectsKeep, MarksKeep, BindsKeep DEF Dispatch
<1>4. ASSUME NEW r \in Runs, Output(r) \/ ApprovalRequested(r) \/ ApprovalReceived(r) PROVE IInv'
  BY <1>4, PushesKeep
<1>5. ASSUME NEW r \in Runs, NEW v \in {"completed", "failed"}, Unbinds(r, v) PROVE IInv'
  BY <1>5, UnbindsKeeps
<1>6. ASSUME NEW r \in Runs, ApprovalExpires(r) PROVE IInv'
  BY <1>6, UnbindsKeeps DEF ApprovalExpires
<1>7. ASSUME NEW r \in Runs, Watchdog(r) \/ Detach(r) \/ Resume(r) PROVE IInv'
  BY <1>7, WatchdogKeeps, DetachKeeps, ResumeKeeps
<1>8. ASSUME NEW r \in Runs, Saved(r) \/ Breaks(r) \/ Finish(r) \/ SdkSaves(r) PROVE IInv'
  BY <1>8, SavesKeep
<1> QED
  BY <1>1, <1>2, <1>3, <1>4, <1>5, <1>6, <1>7, <1>8 DEF Next

THEOREM Safety == Spec => []IInv
BY InitInvariant, StepInvariant, PTL DEF Spec

(* What is pushed to a queue is bounded by the run's output, and everything has *)
(* its type.                                                                  *)
THEOREM TypeCorrect == Spec => []TypeOK
<1>1. IInv => TypeOK
  <2> SUFFICES ASSUME IInv PROVE TypeOK
    OBVIOUS
  <2>1. Types
    BY DEF IInv
  <2>2. ASSUME NEW r \in Runs PROVE exec[r].pushed <= MaxOutput /\ Len(exec[r].queue) <= 2 * MaxOutput
    <3>1. exec[r].pushed \in Nat /\ Len(exec[r].queue) \in Nat
      BY <2>1, LenProperties DEF Types, Executions
    <3>2. exec[r].pushed <= MaxOutput /\ Len(exec[r].queue) <= 2 * exec[r].pushed
      BY DEF IInv, Each, Sound, Counted
    <3> QED
      BY <3>1, <3>2, ConstantsOK
  <2> QED
    BY <2>1, <2>2 DEF Types, TypeOK
<1> QED
  BY <1>1, Safety, PTL

(* What the row says is what the run it is labelled with came to, and a run    *)
(* that is over says it there, however dispatches, saves and cancels race.    *)
THEOREM RowsAgree == Spec => []RowAgrees
<1>1. IInv => RowAgrees
  BY DEF IInv
<1> QED
  BY <1>1, Safety, PTL

(* Whoever reads a run's stream to its end has all of its output and a verdict. *)
THEOREM StreamsAreComplete == Spec => []StreamIsComplete
<1>1. IInv => StreamIsComplete
  BY ConstantsOK DEF IInv, Each, Sound, Given, Ends, StreamIsComplete, OutputBeforeVerdict,
    EndsWithVerdict, Statuses, Terminal
<1> QED
  BY <1>1, Safety, PTL

(* A cancel aborts the run that owns the task. *)
THEOREM CancelsReachTheOwner == Spec => []CancelReachesOwner
<1>1. IInv => CancelReachesOwner
  BY DEF IInv, Types, Each, Holder, CancelReachesOwner
<1> QED
  BY <1>1, Safety, PTL

-----------------------------------------------------------------------------
(* A caller who waits is told what ended the run before its stream closes, and *)
(* a cancellation on record is not taken back.                                *)
LEMMA WaitingStep ==
  ASSUME IInv, [Next]_vars, NEW r \in Runs, exec[r].stage = "parked"
  PROVE  exec'[r].stage \notin {"closing", "done"}
<1> DEFINE x == exec[r]
<1>1. /\ x \in Executions /\ Each(r) /\ exec \in [Runs -> Executions] /\ Served(x) /\ x.told = None
      /\ binding = r
  BY DEF IInv, Types, Each, Served, Serving, Sound, Given, Looks, Looping, Holder
<1>2. CASE exec'[r] = x
  BY <1>2
<1>3. CASE CancelActs
  BY <1>3, CancelActsOn
<1>4. ASSUME NEW z \in Executions, NEW e \in Events, z.stage = "parked", exec' = [exec EXCEPT ![r] = Push(z, e)]
      PROVE  exec'[r].stage \notin {"closing", "done"}
  <2>1. Push(z, e) = z \/ Push(z, e) = Consume(z, e)
    BY <1>4 DEF Push
  <2>2. Consume(z, e).stage \in {"paused", "saving"}
    BY <1>4 DEF Consume, Executions
  <2> QED
    BY <1>1, <1>4, <2>1, <2>2
<1>5. ASSUME NEW v \in Terminal,
             exec' = [exec EXCEPT ![r] = FinishWith(x, v)] \/ exec' = [exec EXCEPT ![r] = End(Push(x, v))]
      PROVE  exec'[r].stage = "paused"
  BY <1>1, <1>5, FinishKeeps, ShutKeeps
<1>6. ASSUME NEW q \in Runs, NEW sent \in BOOLEAN, DispatchBinds(q, sent)
      PROVE  exec'[r].stage = "paused"
  <2>1. exec'[r] = FinishWith(x, "failed")
    BY <1>1, <1>6 DEF DispatchBinds
  <2> QED
    BY <1>1, <2>1, FinishKeeps DEF Terminal
<1>7. CASE Output(r)
  <2> DEFINE z == [x EXCEPT !.pushed = @ + 1]
  <2>1. z \in Executions /\ z.stage = "parked"
    BY <1>1 DEF Executions
  <2>2. exec' = [exec EXCEPT ![r] = Push(z, "progress")]
    BY <1>7 DEF Output, Become, Progress
  <2> HIDE DEF z
  <2> QED
    BY <1>4, <2>1, <2>2 DEF Events
<1>8. CASE ApprovalRequested(r)
  <2> DEFINE w == [x EXCEPT !.asking = TRUE]
             z == [w EXCEPT !.pushed = @ + 1]
  <2>1. w \in Executions /\ w.stage = "parked"
    BY <1>1 DEF Executions
  <2>2. z \in Executions /\ z.stage = "parked"
    <3> HIDE DEF w
    <3> QED
      BY <2>1 DEF Executions
  <2>3. exec' = [exec EXCEPT ![r] = Push(z, "auth-required")]
    BY <1>8 DEF ApprovalRequested, Become, Progress
  <2> HIDE DEF z
  <2> QED
    BY <1>4, <2>2, <2>3 DEF Events, Statuses
<1>9. CASE ApprovalReceived(r)
  <2> DEFINE z == [x EXCEPT !.asking = FALSE]
  <2>1. z \in Executions /\ z.stage = "parked"
    BY <1>1 DEF Executions
  <2>2. exec' = [exec EXCEPT ![r] = Push(z, "working")]
    BY <1>9 DEF ApprovalReceived, Become
  <2> HIDE DEF z
  <2> QED
    BY <1>4, <2>1, <2>2 DEF Events, Statuses
<1>10. ASSUME NEW v \in {"completed", "failed"}, Unbinds(r, v) PROVE exec'[r].stage = "paused"
  BY <1>5, <1>10 DEF Unbinds, Become, Terminal
<1>11. CASE ApprovalExpires(r)
  BY <1>10, <1>11 DEF ApprovalExpires
<1>12. CASE Watchdog(r)
  BY <1>5, <1>12 DEF Watchdog, Become, Terminal
<1>13. CASE Detach(r)
  BY <1>1, <1>13 DEF Detach, Become, Executions
<1>14. ~Begin(r) /\ ~DispatchReads(r) /\ ~DispatchInterrupted(r) /\ ~DispatchMarks(r)
       /\ ~DispatchFails(r) /\ ~Resume(r) /\ ~Saved(r) /\ ~Breaks(r) /\ ~Finish(r) /\ ~SdkSaves(r)
  BY DEF Begin, DispatchReads, DispatchInterrupted, DispatchMarks, DispatchFails, Resume, Saved,
    Breaks, Finish, SdkSaves
<1>15. CASE UNCHANGED vars \/ CancelReads \/ CancelRefused \/ CancelWrites
  BY <1>2, <1>15 DEF vars, CancelReads, CancelRefused, CancelWrites
<1>16. ASSUME NEW q \in Runs \ {r}, NEW y, exec' = [exec EXCEPT ![q] = y] PROVE exec'[r] = x
  BY <1>1, <1>16
<1>17. ASSUME NEW q \in Runs \ {r},
              \/ Begin(q) \/ DispatchReads(q) \/ DispatchInterrupted(q) \/ DispatchMarks(q) \/ DispatchFails(q)
              \/ Output(q) \/ ApprovalRequested(q) \/ ApprovalReceived(q) \/ ApprovalExpires(q)
              \/ Unbinds(q, "completed") \/ Unbinds(q, "failed")
              \/ Watchdog(q) \/ Detach(q) \/ Resume(q) \/ Saved(q) \/ Breaks(q) \/ Finish(q) \/ SdkSaves(q)
       PROVE  exec'[r] = x
  <2>1. (\E y : exec' = [exec EXCEPT ![q] = y]) \/ exec' = exec
    BY <1>17 DEF Begin, DispatchReads, DispatchInterrupted, DispatchMarks, DispatchFails, Output,
      ApprovalRequested, ApprovalReceived, ApprovalExpires, Unbinds, Watchdog, Detach, Resume, Saved,
      Breaks, Finish, SdkSaves, Become
  <2> QED
    BY <1>16, <2>1
<1> HIDE DEF x
<1> QED
  BY <1>2, <1>3, <1>6, <1>7, <1>8, <1>9, <1>10, <1>11, <1>12, <1>13, <1>14, <1>15, <1>17
  DEF Next, Cancel, Dispatch

LEMMA CanceledStep ==
  ASSUME IInv, [Next]_vars, row.status = "canceled", faults = 0
  PROVE  row'.status = "canceled"
<1>1. CASE UNCHANGED row
  BY <1>1
<1>2. ASSUME NEW r \in Runs, updateTask(r, exec[r].status) PROVE row'.status = "canceled"
  BY <1>2, UpdateWrites DEF Wrote
<1>3. ASSUME NEW r \in Runs PROVE ~DispatchMarks(r)
  BY DEF IInv, Each, Turned, DispatchMarks, Terminal
<1>4. CASE CancelWrites
  BY <1>4 DEF CancelWrites, StoreFails, IInv, Types
<1>5. ASSUME NEW r \in Runs, Saved(r) \/ Breaks(r) \/ Finish(r) \/ SdkSaves(r) PROVE row'.status = "canceled"
  BY <1>1, <1>2, <1>5 DEF Saved, Breaks, Finish, SdkSaves, StoreFails
<1>6. CASE UNCHANGED vars \/ CancelReads \/ CancelRefused \/ CancelActs
  BY <1>1, <1>6 DEF vars, CancelReads, CancelRefused, CancelActs
<1>7. ASSUME NEW r \in Runs,
             \/ Begin(r) \/ DispatchReads(r) \/ DispatchInterrupted(r) \/ DispatchFails(r)
             \/ (\E sent \in BOOLEAN : DispatchBinds(r, sent))
             \/ Output(r) \/ ApprovalRequested(r) \/ ApprovalReceived(r) \/ ApprovalExpires(r)
             \/ (\E v \in {"completed", "failed"} : Unbinds(r, v))
             \/ Watchdog(r) \/ Detach(r) \/ Resume(r)
      PROVE  UNCHANGED row
  BY <1>7 DEF Begin, DispatchReads, DispatchInterrupted, DispatchFails, DispatchBinds, StoreFails,
    Output, ApprovalRequested, ApprovalReceived, ApprovalExpires, Unbinds, Watchdog, Detach, Resume
<1> QED
  BY <1>1, <1>3, <1>4, <1>5, <1>6, <1>7 DEF Next, Cancel, Dispatch

THEOREM CallersAreToldTheTruth == Spec => CallersAreAnswered
<1>1. IInv /\ [Next]_vars =>
        [\A r \in Runs : exec[r].stage = "parked" => exec'[r].stage \notin {"closing", "done"}]_vars
  BY WaitingStep
<1>2. IInv /\ [Next]_vars => [row.status = "canceled" /\ faults = 0 => row'.status = "canceled"]_vars
  BY CanceledStep
<1>3. Spec => WaitingCallerIsAnswered
  BY <1>1, Safety, PTL DEF Spec, WaitingCallerIsAnswered
<1>4. Spec => CanceledStaysCanceled
  BY <1>2, Safety, PTL DEF Spec, CanceledStaysCanceled
<1> QED
  BY <1>3, <1>4 DEF CallersAreAnswered
=============================================================================
