------------------------------ MODULE PaymentGate ------------------------------
(***************************************************************************)
(* Payment around the runs of one task of one agent: the challenge, the    *)
(* signed submission, the claim of the offering, its settlement before     *)
(* ("exact") or after ("upto") the work, and the release of the offering.  *)
(*                                                                         *)
(* Code: packages/server/src/x402/gate.ts, x402/store.ts and the part of   *)
(* executor.ts that calls them.  The SDK's MerchantGate is external: what  *)
(* is modelled is the order in which the store's methods are called, as    *)
(* the gate's and the store's tests show it.  Each await lets every other  *)
(* request in.  All instances share the offering; a crash takes all of a   *)
(* server's requests.                                                      *)
(***************************************************************************)
EXTENDS Naturals, FiniteSets
LOCAL INSTANCE TLC

CONSTANTS
  Requests,    \* message requests for the task
  Auths,       \* payment authorizations the payer may sign
  ExactTerms,  \* prices under which the fee is fixed
  UptoTerms,   \* prices under which consumption is metered
  None,        \* undefined; as a price: the agent is free
  MaxUpsets    \* bound: price changes, cancels and crashes

Terms == ExactTerms \cup UptoTerms

VARIABLES
  price,    \* ClientConnection.x402Pricing
  offering, \* the row of x402_offerings, or None
  signed,   \* per authorization: the terms the payer signed, or None
  row,      \* the stored task: [status, dispatch]
  binding,  \* the request whose run is bound
  turn,     \* one record per request
  settled,  \* settlements asked of the facilitator: [auth, terms, by, result]
  upsets

vars == <<price, offering, signed, row, binding, turn, settled, upsets>>

(* The requests are alike.                                                    *)
Symmetry == Permutations(Requests)

Terminal == {"completed", "failed", "canceled"}
Results == {"paid", "failed", "unknown"}  \* "unknown": the settlement threw

(* `claim` stands for claimed_at and also says whose it is; `unknown` is    *)
(* failure.indeterminate; `started` is publicationStartedAt.                *)
Offerings == [terms : Terms, status : {"offered", "verified", "completed", "failed"},
              claim : Requests \cup {None}, lapsed : BOOLEAN,
              started : BOOLEAN, unknown : BOOLEAN]

ASSUME ConstantsOK ==
  /\ None \notin Requests \cup Auths \cup Terms /\ None \notin Offerings
  /\ ExactTerms \cap UptoTerms = {}
  /\ MaxUpsets \in Nat

Turns == [
  stage : {"idle", "publishing", "classifying", "verifying", "claiming", "charging",
           "halting",      \* told the caller, then writes the task
           "admitted",     \* past the gate, waits for its turn to dispatch
           "running",      \* parked until the agent emits
           "authorizing",  \* awaits authorizeDelivery
           "yielding",     \* until the caller asks for more
           "settling", "clearing", "deleting", "saving", "done"},
  auth : Auths \cup {None},     \* the signed payload of the message
  terms : Terms \cup {None},    \* to publish; then those of the obligation
  paid : BOOLEAN,               \* holds a settlement (X402Settlement)
  queue : Terminal \cup {None}, \* a terminal event that waits in the queue
  event : {"output", "failed", None},
  aborted : BOOLEAN,
  fate : {"pending", "interrupted", "rejected", "unreachable", "bound", "gone"},  \* of its dispatch
  allowed : BOOLEAN,            \* deliveryAuthorized
  shown : BOOLEAN,              \* output reached the caller
  verdict : Terminal \cup {"challenge", None}]

NewTurn == [stage |-> "idle", auth |-> None, terms |-> None, paid |-> FALSE, queue |-> None,
            event |-> None, aborted |-> FALSE, fate |-> "pending",
            allowed |-> FALSE, shown |-> FALSE, verdict |-> None]

TypeOK ==
  /\ price \in Terms \cup {None}
  /\ offering \in Offerings \cup {None}
  /\ signed \in [Auths -> Terms \cup {None}]
  /\ row \in [status : {"open"} \cup Terminal, dispatch : Requests \cup {None}]
  /\ binding \in Requests \cup {None}
  /\ turn \in [Requests -> Turns]
  /\ settled \subseteq [auth : Auths, terms : Terms, by : Requests, result : Results]
  /\ upsets \in 0..MaxUpsets

Init ==
  /\ price \in Terms
  /\ offering = None
  /\ signed = [a \in Auths |-> None]
  /\ row = [status |-> "open", dispatch |-> None]
  /\ binding = None
  /\ turn = [r \in Requests |-> NewTurn]
  /\ settled = {}
  /\ upsets = 0

-----------------------------------------------------------------------------
(* The store: each operator is one statement of PostgresX402Store.            *)

Live(o) == o # None /\ ~o.lapsed

FreshOffering(t) ==
  [terms |-> t, status |-> "offered", claim |-> None, lapsed |-> FALSE,
   started |-> FALSE, unknown |-> FALSE]

(* publishing and put: a live offering keeps its terms, a lapsed one is replaced. *)
published(t) == FreshOffering(IF Live(offering) THEN offering.terms ELSE t)

(* With a bug: whoever claimed it before.                                     *)
claimAgain(r) ==
  /\ Live(offering)
  /\ offering' = [offering EXCEPT !.claim = r]

claim(r) ==
  /\ Live(offering) /\ offering.claim = None
  /\ offering' = [offering EXCEPT !.claim = r]

(* updateIfStatus before acceptance: a claimed lifecycle is left alone. *)
updateUnclaimed(status) ==
  offering' = IF Live(offering) /\ offering.claim = None
              THEN [offering EXCEPT !.status = status] ELSE offering

(* updateIfStatus with the result of a settlement. *)
recordSettlement(result) ==
  offering' = IF ~Live(offering) THEN offering
              ELSE [offering EXCEPT
                     !.status = IF result = "paid" THEN "completed" ELSE "failed",
                     !.unknown = result = "unknown"]

-----------------------------------------------------------------------------
(* The generator of a request.                                                *)

Step(r, t) == turn' = [turn EXCEPT ![r] = t]

(* settleTerminal up to its first await. *)
settleTerminal(t, verdict) ==
  [t EXCEPT !.verdict = verdict, !.event = None,
            !.stage = IF ~t.paid THEN "saving"
                      ELSE IF t.terms \in UptoTerms /\ verdict = "completed"
                      THEN "settling" ELSE "clearing"]

(* The body of the loop; failures carry a message, the other verdicts none. *)
Consume(t, e) ==
  IF t.paid /\ ~t.allowed /\ e \in {"output", "failed"}
  THEN [t EXCEPT !.stage = "authorizing", !.event = e]
  ELSE IF e = "output" THEN [t EXCEPT !.stage = "yielding", !.shown = TRUE, !.event = None]
  ELSE settleTerminal(t, e)

(* AsyncEventQueue.iterate from one yield to the next. *)
Take(t) ==
  IF t.aborted THEN [t EXCEPT !.stage = "saving", !.verdict = "canceled"]
  ELSE IF t.queue # None THEN Consume(t, t.queue)
  ELSE [t EXCEPT !.stage = "running"]

InLoop == {"running", "authorizing", "yielding"}

(* pushStatus(final) and finish(): only the first terminal counts. *)
FinishWith(t, e) ==
  IF t.queue # None \/ t.stage \notin InLoop THEN t
  ELSE IF t.stage = "running" THEN Consume([t EXCEPT !.queue = e], e)
  ELSE [t EXCEPT !.queue = e]

(* Halts with a refusal; the caller is told and then the task is written. *)
Refused(t) == [t EXCEPT !.stage = "halting", !.verdict = "failed"]

-----------------------------------------------------------------------------
(* The gate.                                                                  *)

(* A request arrives, with a signed payload or without.  The A2A handler    *)
(* admits it while the task is not over; a free agent has no gate.          *)
Begin(r) ==
  /\ turn[r].stage = "idle" /\ row.status \notin Terminal
  /\ \E a \in {b \in Auths : signed[b] # None} \cup {None} :
       Step(r, [turn[r] EXCEPT
                 !.auth = a,
                 !.terms = IF a = None THEN price ELSE None,
                 !.stage = IF price = None THEN "admitted"
                           ELSE IF a = None THEN "publishing" ELSE "classifying"])
  /\ UNCHANGED <<price, offering, signed, row, binding, settled, upsets>>

(* requestPayment under the advisory lock; an accepted payment is not replaced. *)
Publish(r) ==
  /\ turn[r].stage = "publishing"
  /\ IF Live(offering) /\ offering.claim # None
     THEN /\ Step(r, Refused(turn[r]))
          /\ UNCHANGED offering
     ELSE /\ offering' = published(turn[r].terms)
          /\ Step(r, [turn[r] EXCEPT !.stage = "halting", !.verdict = "challenge",
                                     !.terms = offering'.terms])
  /\ UNCHANGED <<price, signed, row, binding, settled, upsets>>

(* The payer signs what it was asked for. *)
Sign(a) ==
  /\ signed[a] = None
  /\ \E r \in Requests : /\ turn[r].verdict = "challenge"
                         /\ signed' = [signed EXCEPT ![a] = turn[r].terms]
  /\ UNCHANGED <<price, offering, row, binding, turn, settled, upsets>>

(* classify: reads the offering and its frozen terms. *)
Classify(r) ==
  /\ turn[r].stage = "classifying"
  /\ IF Live(offering) /\ offering.terms = signed[turn[r].auth]
     THEN Step(r, [turn[r] EXCEPT !.stage = "verifying", !.terms = offering.terms])
     ELSE Step(r, Refused(turn[r]))
  /\ UNCHANGED <<price, offering, signed, row, binding, settled, upsets>>

(* The facilitator's answer to verify (a "no" is also an outage), and the patch after it. *)
Verify(r) ==
  /\ turn[r].stage = "verifying"
  /\ \/ /\ updateUnclaimed("verified")
        /\ Step(r, [turn[r] EXCEPT !.stage = "claiming"])
     \/ /\ updateUnclaimed("failed")
        /\ Step(r, Refused(turn[r]))
  /\ UNCHANGED <<price, signed, row, binding, settled, upsets>>

(* The one-shot claim: the loser is refused. *)
Claim(r) ==
  /\ turn[r].stage = "claiming"
  /\ \/ /\ claim(r)
        /\ Step(r, [turn[r] EXCEPT
                     !.paid = @ \/ turn[r].terms \in UptoTerms,
                     !.stage = IF turn[r].terms \in ExactTerms THEN "charging" ELSE "admitted"])
     \/ /\ ~(Live(offering) /\ offering.claim = None)
        /\ Step(r, Refused(turn[r]))
        /\ UNCHANGED offering
  /\ UNCHANGED <<price, signed, row, binding, settled, upsets>>

asksFor(r, terms, result) ==
  settled' = settled \cup {[auth |-> turn[r].auth, terms |-> terms, by |-> r, result |-> result]}

(* A fixed fee is settled before the work; whatever is not a success halts the turn. *)
Charge(r) ==
  /\ turn[r].stage = "charging"
  /\ \E result \in Results :
       /\ asksFor(r, turn[r].terms, result)
       /\ recordSettlement(result)
       /\ Step(r, IF result = "paid" THEN [turn[r] EXCEPT !.stage = "admitted", !.paid = TRUE]
                  ELSE Refused(turn[r]))
  /\ UNCHANGED <<price, signed, row, binding, upsets>>

(* The halted request writes its outcome on a task that was never dispatched. *)
HaltSave(r) ==
  /\ turn[r].stage = "halting"
  /\ row' = IF row.dispatch # None \/ row.status = "canceled" THEN row
            ELSE [row EXCEPT !.status = IF turn[r].verdict = "failed" THEN "failed" ELSE "open"]
  /\ Step(r, [turn[r] EXCEPT !.stage = "done"])
  /\ UNCHANGED <<price, offering, signed, binding, settled, upsets>>

-----------------------------------------------------------------------------
(* The run.                                                                   *)

(* serializeDispatch: a task that is over is not dispatched, whoever ended  *)
(* it; otherwise the run is marked and bound, and fails the one it          *)
(* supersedes.  The marker may fail to be stored, the agent may be away.    *)
Dispatch(r) ==
  LET over(fate, verdict) == [settleTerminal(turn[r], verdict) EXCEPT !.fate = fate]
      bind(t) ==
        /\ row' = [status |-> "open", dispatch |-> r]
        /\ binding' = r
        /\ turn' = [q \in Requests |->
             IF q = r THEN t
             ELSE IF q = binding THEN FinishWith(turn[q], "failed") ELSE turn[q]]
  IN
  /\ turn[r].stage = "admitted"
  /\ \/ /\ row.status \in Terminal
        /\ Step(r, over("interrupted", row.status))
        /\ UNCHANGED <<row, binding>>
     \/ /\ row.status \notin Terminal
        /\ Step(r, over("rejected", "failed"))
        /\ UNCHANGED <<row, binding>>
     \/ /\ row.status \notin Terminal
        /\ bind([turn[r] EXCEPT !.fate = "bound", !.stage = "running"])
     \/ /\ row.status \notin Terminal
        /\ bind(over("unreachable", "failed"))
  /\ UNCHANGED <<price, offering, signed, settled, upsets>>

(* The agent emits output, or ends the run. *)
Emit(r) ==
  /\ binding = r
  /\ \/ /\ turn[r].stage = "running"
        /\ Step(r, Consume(turn[r], "output"))
     \/ /\ turn[r].queue = None /\ turn[r].stage \in InLoop
        /\ \E e \in {"completed", "failed"} : Step(r, FinishWith(turn[r], e))
  /\ UNCHANGED <<price, offering, signed, row, binding, settled, upsets>>

(* authorizeDelivery: publication is recorded in the lifecycle, or the run is failed. *)
AuthorizeDelivery(r) ==
  LET t == turn[r] IN
  /\ t.stage = "authorizing"
  /\ \/ /\ Live(offering) /\ offering.status \in {"verified", "completed"}
        /\ offering' = [offering EXCEPT !.started = TRUE]
        /\ Step(r, Consume([t EXCEPT !.allowed = TRUE], t.event))
     \/ /\ Step(r, settleTerminal(t, "failed"))
        /\ UNCHANGED offering
  /\ UNCHANGED <<price, signed, row, binding, settled, upsets>>

(* The caller asks for more. *)
Resume(r) ==
  /\ turn[r].stage = "yielding"
  /\ Step(r, Take(turn[r]))
  /\ UNCHANGED <<price, offering, signed, row, binding, settled, upsets>>

(* gate.settle: metered under the terms of the obligation. *)
Settle(r) ==
  LET t == turn[r] IN
  /\ t.stage = "settling"
  /\ \E result \in Results :
       /\ asksFor(r, t.terms, result)
       /\ recordSettlement(result)
       /\ Step(r, [t EXCEPT !.stage = "clearing",
                            !.verdict = IF result = "paid" THEN @ ELSE "failed"])
  /\ UNCHANGED <<price, signed, row, binding, upsets>>

(* With a bug: the record of an uncertain settlement is released too. *)
ClearAlways(r) ==
  /\ turn[r].stage = "clearing"
  /\ Step(r, [turn[r] EXCEPT !.stage = "deleting"])
  /\ UNCHANGED <<price, offering, signed, row, binding, settled, upsets>>

(* clear: what may have been settled is kept for reconciliation. *)
Clear(r) ==
  /\ turn[r].stage = "clearing"
  /\ Step(r, [turn[r] EXCEPT
               !.stage = IF Live(offering) /\ offering.unknown THEN "saving" ELSE "deleting"])
  /\ UNCHANGED <<price, offering, signed, row, binding, settled, upsets>>

Delete(r) ==
  /\ turn[r].stage = "deleting"
  /\ offering' = None
  /\ Step(r, [turn[r] EXCEPT !.stage = "saving"])
  /\ UNCHANGED <<price, signed, row, binding, settled, upsets>>

(* The final write, and the finally block.  A dispatched run writes while   *)
(* its dispatch is the latest, a rejected one on a fresh task, an           *)
(* interrupted one not at all.                                              *)
Save(r) ==
  LET writes == \/ row.dispatch = r
                \/ turn[r].fate = "rejected" /\ row.dispatch = None
  IN
  /\ turn[r].stage = "saving"
  /\ row' = IF writes /\ row.status # "canceled"
            THEN [row EXCEPT !.status = turn[r].verdict] ELSE row
  /\ binding' = IF binding = r THEN None ELSE binding
  /\ Step(r, [turn[r] EXCEPT !.stage = "done"])
  /\ UNCHANGED <<price, offering, signed, settled, upsets>>

-----------------------------------------------------------------------------
(* The surroundings.                                                          *)

Over == {"idle", "halting", "done"}

(* The offer's deadline, or the retention of a claim whose execution is over: *)
(* deployments set the retention longer than the longest execution.         *)
Lapse ==
  /\ Live(offering)
  /\ offering.claim # None => turn[offering.claim].stage \in Over
  /\ offering' = [offering EXCEPT !.lapsed = TRUE]
  /\ UNCHANGED <<price, signed, row, binding, turn, settled, upsets>>

(* sweepExpiredX402Offerings. *)
Sweep ==
  /\ offering # None /\ offering.lapsed
  /\ offering' = None
  /\ UNCHANGED <<price, signed, row, binding, turn, settled, upsets>>

Upset == upsets < MaxUpsets /\ upsets' = upsets + 1

Reprice ==
  /\ Upset
  /\ price' \in (Terms \cup {None}) \ {price}
  /\ UNCHANGED <<offering, signed, row, binding, turn, settled>>

(* cancelCurrent: the verdict goes through the queue, then the run is aborted. *)
Cancel ==
  /\ Upset
  /\ row.status \notin Terminal
  /\ row' = [row EXCEPT !.status = "canceled"]
  /\ IF binding = None THEN UNCHANGED turn
     ELSE Step(binding, [FinishWith(turn[binding], "canceled") EXCEPT !.aborted = TRUE])
  /\ UNCHANGED <<price, offering, signed, binding, settled>>

(* The server restarts: its requests and bindings are gone. *)
Crash ==
  /\ Upset
  /\ turn' = [r \in Requests |->
       IF turn[r].stage \in {"idle", "done"} THEN turn[r]
       ELSE [turn[r] EXCEPT !.stage = "done", !.fate = "gone"]]
  /\ binding' = None
  /\ UNCHANGED <<price, offering, signed, row, settled>>

-----------------------------------------------------------------------------

Next ==
  \/ \E r \in Requests :
       \/ Begin(r) \/ Publish(r) \/ Classify(r) \/ Verify(r) \/ Claim(r) \/ Charge(r)
       \/ HaltSave(r) \/ Dispatch(r) \/ Emit(r) \/ AuthorizeDelivery(r) \/ Resume(r)
       \/ Settle(r) \/ Clear(r) \/ Delete(r) \/ Save(r)
  \/ \E a \in Auths : Sign(a)
  \/ Lapse \/ Sweep \/ Reprice \/ Cancel \/ Crash

Spec == Init /\ [][Next]_vars

-----------------------------------------------------------------------------

(* A request that holds a settlement owns the live offering until it has    *)
(* released it: no retry, late verification, expiry or other submission     *)
(* takes the claim from under its work.                                     *)
HoldsPayment(r) ==
  turn[r].paid /\ turn[r].stage \in {"admitted", "running", "authorizing", "yielding",
                                   "settling", "clearing", "deleting"}
ClaimHeld == \A r \in Requests : HoldsPayment(r) => Live(offering) /\ offering.claim = r

(* The agent works for a request only if the agent was free when it came, or *)
(* it was accepted under the terms its payer signed; a fixed fee has been   *)
(* collected by then, also where the facilitator failed or was away.  Of    *)
(* two submissions of one authorization one works: the claim is its own     *)
(* until it is done.                                                        *)
WorkIsPaidFor ==
  /\ ClaimHeld
  /\ \A r \in Requests : turn[r].fate = "bound" /\ turn[r].terms # None =>
       /\ turn[r].paid
       /\ turn[r].terms \in ExactTerms => \E s \in settled : s.by = r /\ s.result = "paid"

(* Whatever the price is by then, a settlement is under the terms signed.    *)
TermsAreSigned == \A s \in settled : s.terms = signed[s.auth]

(* A metered payment is taken only for a request that ends completed.        *)
MeteredIsCompleted ==
  \A s \in settled : s.terms \in UptoTerms /\ s.result = "paid" => turn[s.by].verdict = "completed"

(* Output of a paid run is visible only once its publication is on record in *)
(* the payment's lifecycle.                                                 *)
OutputIsRecorded == \A r \in Requests : turn[r].shown /\ HoldsPayment(r) => offering.started

(* A settlement whose outcome is unknown stays on record, with its claim,    *)
(* until its retention ends.                                                *)
UncertainIsKept ==
  [][Live(offering) /\ offering.unknown =>
       offering' # None /\ offering'.unknown /\ offering'.claim = offering.claim]_vars

(* The test "a losing verification cannot invalidate accepted metered work": *)
(* an accepted request is not stopped by a refused one.                     *)
AcceptedIsDispatched ==
  \A r \in Requests : turn[r].paid /\ turn[r].fate = "interrupted" => row.status # "failed"

=============================================================================
