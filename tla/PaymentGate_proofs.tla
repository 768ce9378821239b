--------------------------- MODULE PaymentGate_proofs ---------------------------
(***************************************************************************)
(* The payment invariants hold for every number of requests, of            *)
(* authorizations and of prices.  What makes them inductive is what a      *)
(* request knows at each stage: whose claim it holds, under which terms,   *)
(* and that nothing uncertain is on record while it may still settle.      *)
(***************************************************************************)
EXTENDS PaymentGate, TLAPS

Unpaid == {"idle", "publishing", "classifying", "verifying", "claiming", "charging", "halting"}
Early == Unpaid \cup {"admitted"}
Late == {"clearing", "deleting", "saving", "done"}

(* The request has the claim and may yet use it.                              *)
Owns(r) == turn[r].stage = "charging" \/ HoldsPayment(r)

(* It was paid for, and something waits for its publication.                  *)
Authorizing(t) == t.stage = "authorizing" => t.paid /\ t.event \in {"output", "failed"}

(* What a request knows at its stage.                                         *)
Stages(r) ==
  LET t == turn[r] IN
  /\ t.stage \in Early => t.fate = "pending" /\ ~t.allowed /\ ~t.shown
  /\ t.stage \in Unpaid => ~t.paid
  /\ t.stage \in {"settling", "clearing", "deleting"} => t.paid
  /\ t.stage = "settling" => t.verdict = "completed" /\ t.terms \in UptoTerms
  /\ t.stage = "charging" => t.terms \in ExactTerms
  /\ t.stage = "publishing" => t.terms # None
  /\ t.stage = "classifying" => t.auth # None
  /\ t.stage \in {"clearing", "deleting", "saving"} => t.verdict \in Terminal
  /\ Authorizing(t)

(* Who owns the claim finds it on record, with nothing uncertain before it    *)
(* has settled, and with its publication once it was authorized or seen.      *)
Owned(r) ==
  Owns(r) => /\ Live(offering) /\ offering.claim = r
             /\ turn[r].stage # "clearing" => ~offering.unknown
             /\ turn[r].shown \/ turn[r].allowed => offering.started

(* What is admitted or bound has been paid for, or the agent was free.        *)
Funded(r) ==
  LET t == turn[r] IN
  (t.stage = "admitted" \/ t.fate = "bound") /\ t.terms # None =>
    /\ t.paid
    /\ t.terms \in ExactTerms => \E s \in settled : s.by = r /\ s.result = "paid"

(* What is submitted is under the terms of its authorization.                 *)
Submitted(r) ==
  LET t == turn[r] IN
  t.stage \in {"verifying", "claiming", "charging"} \/ t.paid =>
    t.auth # None /\ t.terms # None /\ signed[t.auth] = t.terms

Good(r) == Stages(r) /\ Owned(r) /\ Funded(r) /\ Submitted(r)

(* An unclaimed offering has no uncertain settlement.                         *)
Unclaimed == Live(offering) /\ offering.claim = None => ~offering.unknown

(* A metered payment was taken by a request past the point of no return.      *)
MeteredIsLate ==
  \A s \in settled : s.terms \in UptoTerms /\ s.result = "paid" =>
    turn[s.by].verdict = "completed" /\ turn[s.by].stage \in Late

IInv ==
  /\ TypeOK /\ (\A r \in Requests : Good(r))
  /\ Unclaimed /\ MeteredIsLate /\ TermsAreSigned

-----------------------------------------------------------------------------
(* At the start no request has come and nothing is settled. *)
THEOREM InitInvariant == Init => IInv
<1> SUFFICES ASSUME Init PROVE IInv
  OBVIOUS
<1> USE DEF Init, NewTurn
<1>1. TypeOK
  BY ConstantsOK DEF TypeOK, Turns, Terms, Terminal
<1>2. \A r \in Requests : Good(r)
  BY DEF Good, Stages, Owned, Owns, HoldsPayment, Funded, Submitted, Unpaid, Early, Authorizing
<1>3. Unclaimed /\ MeteredIsLate /\ TermsAreSigned
  BY DEF Unclaimed, Live, MeteredIsLate, TermsAreSigned
<1> QED BY <1>1, <1>2, <1>3 DEF IInv

(* A request that a step leaves alone stays good, if what it owns is left to it. *)
LEMMA OthersKeep ==
  ASSUME NEW q \in Requests, Good(q), turn'[q] = turn[q],
         settled \subseteq settled',
         \A a \in Auths : signed[a] # None => signed'[a] = signed[a],
         TypeOK, ConstantsOK,
         Owns(q) => /\ Live(offering)' /\ offering'.claim = q
                    /\ offering'.unknown => offering.unknown
                    /\ offering.started => offering'.started
  PROVE  Good(q)'
<1>1. Owns(q)' <=> Owns(q)
  BY DEF Owns, HoldsPayment
<1>2. Stages(q)'
  BY DEF Good, Stages, Authorizing
<1>3. Owned(q)'
  BY <1>1 DEF Good, Owned
<1>4. Funded(q)'
  BY DEF Good, Funded
<1>5. Submitted(q)'
  <2>1. turn[q].auth \in Auths \cup {None}
    BY DEF TypeOK, Turns
  <2> QED BY <2>1 DEF Good, Submitted
<1> QED BY <1>2, <1>3, <1>4, <1>5 DEF Good

-----------------------------------------------------------------------------
(* What a step of the loop, or the answer of a dispatch, may do to a request. *)
Moves(t, u) ==
  /\ u \in Turns
  /\ u.auth = t.auth /\ u.terms = t.terms /\ u.paid = t.paid /\ u.allowed = t.allowed
  /\ u.stage \in InLoop \cup {"settling", "clearing", "saving"}
  /\ u.stage = "settling" => u.paid /\ u.verdict = "completed" /\ u.terms \in UptoTerms
  /\ u.stage = "clearing" => u.paid
  /\ u.stage \in {"clearing", "saving"} => u.verdict \in Terminal
  /\ Authorizing(u)
  /\ u.shown => t.shown \/ ~t.paid \/ t.allowed

(* The end of the loop is a move of the turn. *)
LEMMA SettleTerminalMoves ==
  ASSUME NEW t \in Turns, NEW v \in Terminal
  PROVE  Moves(t, settleTerminal(t, v)) /\ settleTerminal(t, v).fate = t.fate
<1>1. PICK st \in {"saving", "settling", "clearing"} :
        /\ settleTerminal(t, v) = [t EXCEPT !.verdict = v, !.event = None, !.stage = st]
        /\ st = "saving" <=> ~t.paid
        /\ st = "settling" => t.terms \in UptoTerms /\ v = "completed"
  BY DEF settleTerminal
<1> DEFINE u == [t EXCEPT !.verdict = v, !.event = None, !.stage = st]
<1>2. u \in Turns
  BY DEF Turns, Terminal
<1>3. /\ u.auth = t.auth /\ u.terms = t.terms /\ u.paid = t.paid /\ u.allowed = t.allowed
      /\ u.shown = t.shown /\ u.fate = t.fate /\ u.stage = st /\ u.verdict = v
  BY DEF Turns
<1> HIDE DEF u
<1> QED BY <1>1, <1>2, <1>3 DEF Moves, u, Authorizing

(* So is what the loop makes of an event. *)
LEMMA ConsumeMoves ==
  ASSUME NEW t \in Turns, NEW e \in {"output", "completed", "failed", "canceled"}
  PROVE  Moves(t, Consume(t, e)) /\ Consume(t, e).fate = t.fate
<1>1. CASE t.paid /\ ~t.allowed /\ e \in {"output", "failed"}
  BY ZenonT(30), <1>1 DEF Consume, Moves, Turns, InLoop, Authorizing
<1>2. CASE ~(t.paid /\ ~t.allowed /\ e \in {"output", "failed"}) /\ e = "output"
  BY ZenonT(30), <1>2 DEF Consume, Moves, Turns, InLoop, Authorizing
<1>3. CASE ~(t.paid /\ ~t.allowed /\ e \in {"output", "failed"}) /\ e # "output"
  BY <1>3, SettleTerminalMoves DEF Consume, Terminal
<1> QED BY <1>1, <1>2, <1>3

(* A terminal event for a request in the loop, or for one that has left it. *)
LEMMA FinishMoves ==
  ASSUME NEW t \in Turns, NEW e \in Terminal, Authorizing(t)
  PROVE  /\ FinishWith(t, e).fate = t.fate
         /\ \/ FinishWith(t, e) = t
            \/ t.stage \in InLoop /\ Moves(t, FinishWith(t, e))
<1>1. CASE t.queue # None \/ t.stage \notin InLoop
  BY <1>1 DEF FinishWith
<1>2. CASE t.queue = None /\ t.stage = "running"
  <2> DEFINE u == [t EXCEPT !.queue = e]
  <2>1. u \in Turns /\ u.auth = t.auth /\ u.terms = t.terms /\ u.paid = t.paid
        /\ u.allowed = t.allowed /\ u.shown = t.shown /\ u.fate = t.fate
    BY DEF Turns, Terminal
  <2>2. FinishWith(t, e) = Consume(u, e)
    BY <1>2 DEF FinishWith, InLoop
  <2> HIDE DEF u
  <2>3. Moves(u, Consume(u, e)) /\ Consume(u, e).fate = u.fate
    BY <2>1, ConsumeMoves DEF Terminal
  <2> QED BY <1>2, <2>1, <2>2, <2>3 DEF Moves, InLoop, Authorizing
<1>3. CASE t.queue = None /\ t.stage \in InLoop /\ t.stage # "running"
  BY <1>3 DEF FinishWith, Moves, Turns, Terminal, InLoop, Authorizing
<1> QED BY <1>1, <1>2, <1>3

(* So is the next event, or the caller's abort. *)
LEMMA TakeMoves ==
  ASSUME NEW t \in Turns
  PROVE  Moves(t, Take(t)) /\ Take(t).fate = t.fate
<1>1. CASE t.aborted
  BY <1>1 DEF Take, Moves, Turns, Terminal, InLoop, Authorizing
<1>2. CASE ~t.aborted /\ t.queue # None
  BY <1>2, ConsumeMoves DEF Take, Turns, Terminal
<1>3. CASE ~t.aborted /\ t.queue = None
  BY <1>3 DEF Take, Moves, Turns, InLoop, Authorizing
<1> QED BY <1>1, <1>2, <1>3

(* Requests that are past the gate and have not ended move, others rest. *)
MayMove(q) ==
  \/ turn'[q] = turn[q]
  \/ /\ turn[q].stage \in InLoop \cup {"admitted"}
     /\ Moves(turn[q], turn'[q])
     /\ turn'[q].fate = "bound" => turn[q].fate = "bound" \/ turn[q].stage = "admitted"

(* Where only turns move, whatever they know is kept. *)
LEMMA MovesKeep ==
  ASSUME IInv, \A q \in Requests : MayMove(q), UNCHANGED <<offering, signed, settled>>
  PROVE  /\ \A q \in Requests : Good(q)'
         /\ Unclaimed' /\ MeteredIsLate' /\ TermsAreSigned'
<1> USE ConstantsOK
<1>1. ASSUME NEW q \in Requests PROVE Good(q)'
  <2>1. CASE turn'[q] = turn[q]
    <3>1. Good(q) /\ TypeOK
      BY DEF IInv
    <3>2. Owns(q) => Live(offering)' /\ offering'.claim = q
      BY <3>1 DEF Good, Owned, Live
    <3> QED BY <2>1, <3>1, <3>2, OthersKeep
  <2>2. CASE turn'[q] # turn[q]
    <3>1. /\ turn[q].stage \in InLoop \cup {"admitted"}
          /\ Moves(turn[q], turn'[q])
          /\ turn'[q].fate = "bound" => turn[q].fate = "bound" \/ turn[q].stage = "admitted"
      BY <2>2 DEF MayMove
    <3>2. Good(q)
      BY DEF IInv
    <3>3. Stages(q)'
      BY <3>1 DEF Stages, Moves, InLoop, Unpaid, Early, Authorizing
    <3>4. Owns(q)' => Owns(q) /\ turn[q].paid /\ turn[q].stage # "clearing"
      BY <3>1 DEF Owns, HoldsPayment, Moves, InLoop, Authorizing
    <3>5. Owned(q)'
      BY <3>1, <3>2, <3>4 DEF Good, Owned, Moves, Live, Authorizing
    <3>6. Funded(q)'
      BY <3>1, <3>2 DEF Good, Funded, Moves, InLoop, Authorizing
    <3>7. Submitted(q)'
      BY <3>1, <3>2 DEF Good, Submitted, Moves, InLoop, Authorizing
    <3> QED BY <3>3, <3>5, <3>6, <3>7 DEF Good
  <2> QED BY <2>1, <2>2
<1>2. Unclaimed' /\ TermsAreSigned'
  BY DEF IInv, Unclaimed, Live, TermsAreSigned
<1>3. MeteredIsLate'
  <2>1. SUFFICES ASSUME NEW s \in settled, s.terms \in UptoTerms, s.result = "paid"
                 PROVE  turn'[s.by].verdict = "completed" /\ turn'[s.by].stage \in Late
    BY DEF MeteredIsLate
  <2>2. s.by \in Requests /\ turn[s.by].verdict = "completed" /\ turn[s.by].stage \in Late
    BY <2>1 DEF IInv, TypeOK, MeteredIsLate
  <2>3. turn'[s.by] = turn[s.by]
    BY <2>2 DEF MayMove, Late, InLoop
  <2> QED BY <2>2, <2>3
<1> QED BY <1>1, <1>2, <1>3

-----------------------------------------------------------------------------
(* A step of one request, which owns the claim if it changes a claimed offering. *)
LEMMA Solo ==
  ASSUME IInv, NEW r \in Requests, Good(r)',
         \A q \in Requests \ {r} : turn'[q] = turn[q],
         settled \subseteq settled',
         \A a \in Auths : signed[a] # None => signed'[a] = signed[a],
         \/ UNCHANGED offering
         \/ ~(Live(offering) /\ offering.claim \in Requests \ {r})
  PROVE  \A q \in Requests : Good(q)'
<1> SUFFICES ASSUME NEW q \in Requests \ {r} PROVE Good(q)'
  OBVIOUS
<1>1. Good(q) /\ TypeOK
  BY DEF IInv
<1>2. Owns(q) => UNCHANGED offering /\ Live(offering) /\ offering.claim = q
  BY <1>1 DEF Good, Owned
<1>3. Owns(q) => Live(offering)'
  BY <1>2 DEF Live
<1> QED BY <1>1, <1>2, <1>3, OthersKeep, ConstantsOK

(* A request's own step leaves what was settled as it was. *)
LEMMA MeteredKept ==
  ASSUME IInv, UNCHANGED settled,
         \A q \in Requests : turn[q].stage \in Late =>
           turn'[q].stage \in Late /\ turn'[q].verdict = turn[q].verdict
  PROVE  MeteredIsLate'
BY DEF IInv, TypeOK, MeteredIsLate

(* Nothing but the requests' own places changes, up to the price and the row. *)
LEMMA TermsKept ==
  ASSUME IInv, UNCHANGED <<signed, settled>>
  PROVE  TermsAreSigned'
BY DEF IInv, TermsAreSigned

(* A refusal leaves a turn that holds nothing. *)
LEMMA RefusedTurn ==
  ASSUME NEW t \in Turns
  PROVE  LET u == Refused(t) IN
         /\ u \in Turns /\ u.stage = "halting" /\ u.fate = t.fate /\ u.allowed = t.allowed
         /\ u.shown = t.shown /\ u.paid = t.paid /\ u.verdict = "failed" /\ u.auth = t.auth
         /\ u.terms = t.terms
BY DEF Refused, Turns, Terminal

(* A request that arrives holds nothing yet. *)
LEMMA BeginKeeps ==
  ASSUME IInv, NEW r \in Requests, Begin(r)
  PROVE  IInv'
<1> USE ConstantsOK
<1>1. PICK a \in {b \in Auths : signed[b] # None} \cup {None} :
        turn' = [turn EXCEPT ![r] = [turn[r] EXCEPT
                 !.auth = a,
                 !.terms = IF a = None THEN price ELSE None,
                 !.stage = IF price = None THEN "admitted"
                           ELSE IF a = None THEN "publishing" ELSE "classifying"]]
  BY DEF Begin, Step
<1>2. Good(r) /\ turn[r].stage = "idle" /\ turn \in [Requests -> Turns] /\ price \in Terms \cup {None}
  BY DEF IInv, Begin, TypeOK
<1>3. TypeOK'
  <2> DEFINE u == [turn[r] EXCEPT
                    !.auth = a,
                    !.terms = IF a = None THEN price ELSE None,
                    !.stage = IF price = None THEN "admitted"
                              ELSE IF a = None THEN "publishing" ELSE "classifying"]
  <2>1. PICK terms \in Terms \cup {None}, stage \in {"admitted", "publishing", "classifying"} :
          u = [turn[r] EXCEPT !.auth = a, !.terms = terms, !.stage = stage]
    BY <1>2
  <2>2. u \in Turns
    <3>1. turn[r] \in Turns /\ a \in Auths \cup {None}
      BY <1>2
    <3>2. [turn[r] EXCEPT !.auth = a, !.terms = terms, !.stage = stage] \in Turns
      BY <3>1 DEF Turns
    <3> QED BY <2>1, <3>2
  <2>3. turn' = [turn EXCEPT ![r] = u]
    BY <1>1
  <2> HIDE DEF u
  <2> QED BY <1>2, <2>2, <2>3 DEF IInv, TypeOK, Begin
<1>4. Good(r)'
  <2>1. /\ turn'[r].stage \in {"admitted", "publishing", "classifying"} /\ turn'[r].fate = "pending"
        /\ ~turn'[r].allowed /\ ~turn'[r].shown /\ ~turn'[r].paid
        /\ turn'[r].stage = "admitted" => turn'[r].terms = None
        /\ turn'[r].stage = "publishing" => turn'[r].terms # None
        /\ turn'[r].stage = "classifying" => turn'[r].auth # None
    BY <1>1, <1>2 DEF Good, Stages, Unpaid, Early, Turns, Authorizing
  <2> QED BY <2>1 DEF Good, Stages, Owned, Owns, HoldsPayment, Funded, Submitted, Unpaid, Early, Authorizing
<1>5. \A q \in Requests : Good(q)'
  BY <1>1, <1>4, Solo DEF Begin, IInv, TypeOK
<1>6. Unclaimed' /\ MeteredIsLate' /\ TermsAreSigned'
  <2>1. MeteredIsLate'
    BY <1>1, <1>2, MeteredKept DEF Begin, Late
  <2> QED BY <2>1, TermsKept DEF Begin, IInv, Unclaimed, Live
<1> QED BY <1>3, <1>5, <1>6 DEF IInv

(* A challenge replaces only what nobody has claimed. *)
LEMMA PublishKeeps ==
  ASSUME IInv, NEW r \in Requests, Publish(r)
  PROVE  IInv'
<1> USE ConstantsOK
<1>1. Good(r) /\ turn[r].stage = "publishing" /\ turn \in [Requests -> Turns] /\ turn[r].terms \in Terms
  BY DEF IInv, Publish, TypeOK, Good, Stages, Turns, Authorizing
<1>2. \/ UNCHANGED offering
      \/ /\ ~(Live(offering) /\ offering.claim # None)
         /\ offering' = published(turn[r].terms)
  BY DEF Publish
<1>3. offering' \in Offerings \cup {None} /\ (offering' # None => offering'.terms \in Terms)
  <2>1. published(turn[r].terms) \in Offerings
    BY <1>1 DEF published, FreshOffering, Offerings, Live, IInv, TypeOK
  <2> QED BY <1>2, <2>1 DEF IInv, TypeOK, Offerings
<1>4. PICK u \in Turns :
        /\ turn' = [turn EXCEPT ![r] = u]
        /\ u.stage = "halting" /\ u.fate = turn[r].fate /\ u.allowed = turn[r].allowed
        /\ u.shown = turn[r].shown /\ u.paid = turn[r].paid
  <2>1. CASE Live(offering) /\ offering.claim # None
    BY <1>1, <2>1, RefusedTurn DEF Publish, Step
  <2>2. CASE ~(Live(offering) /\ offering.claim # None)
    <3>1. offering'.terms \in Terms
      BY <2>2, <1>1 DEF Publish, published, FreshOffering, IInv, TypeOK, Offerings, Live
    <3> DEFINE u == [turn[r] EXCEPT !.stage = "halting", !.verdict = "challenge",
                                    !.terms = offering'.terms]
    <3>2. u \in Turns /\ u.stage = "halting" /\ u.fate = turn[r].fate /\ u.allowed = turn[r].allowed
          /\ u.shown = turn[r].shown /\ u.paid = turn[r].paid
      BY ZenonT(30), <1>1, <3>1 DEF Turns
    <3>3. turn' = [turn EXCEPT ![r] = u]
      BY <2>2 DEF Publish, Step
    <3> HIDE DEF u
    <3> QED BY <3>2, <3>3
  <2> QED BY <2>1, <2>2
<1>5. TypeOK'
  BY <1>3, <1>4 DEF IInv, TypeOK, Publish
<1>6. Good(r)'
  <2>1. turn'[r] = u
    BY <1>1, <1>4
  <2> QED BY <1>1, <1>4, <2>1 DEF Good, Stages, Owned, Owns, HoldsPayment, Funded, Submitted, Unpaid, Early, Authorizing
<1>7. \A q \in Requests : Good(q)'
  BY <1>1, <1>2, <1>4, <1>6, Solo DEF Publish
<1>8. Unclaimed'
  BY <1>2 DEF published, FreshOffering, IInv, Unclaimed, Live
<1>9. MeteredIsLate' /\ TermsAreSigned'
  BY <1>1, <1>4, MeteredKept, TermsKept DEF Publish, Late
<1> QED BY <1>5, <1>7, <1>8, <1>9 DEF IInv

(* The payer signs: no terms that were signed change. *)
LEMMA SignKeeps ==
  ASSUME IInv, NEW a \in Auths, Sign(a)
  PROVE  IInv'
<1> USE ConstantsOK
<1>1. PICK r \in Requests : turn[r].verdict = "challenge" /\ signed' = [signed EXCEPT ![a] = turn[r].terms]
  BY DEF Sign
<1>2. signed[a] = None /\ UNCHANGED <<price, offering, row, binding, turn, settled, upsets>>
  BY DEF Sign
<1>3. TypeOK'
  <2>1. turn[r].terms \in Terms \cup {None}
    BY DEF IInv, TypeOK, Turns
  <2> QED BY <1>1, <1>2, <2>1 DEF IInv, TypeOK
<1>4. \A b \in Auths : signed[b] # None => signed'[b] = signed[b]
  BY <1>1, <1>2 DEF IInv, TypeOK
<1>5. ASSUME NEW q \in Requests PROVE Good(q)'
  <2>1. Good(q) /\ TypeOK
    BY DEF IInv
  <2>2. Owns(q) => Live(offering)' /\ offering'.claim = q
    BY <1>2, <2>1 DEF Good, Owned, Live
  <2> QED BY <1>2, <1>4, <2>1, <2>2, OthersKeep
<1>6. TermsAreSigned'
  <2>1. SUFFICES ASSUME NEW s \in settled PROVE s.terms = signed'[s.auth]
    BY <1>2 DEF TermsAreSigned
  <2>2. s.auth \in Auths /\ s.terms \in Terms /\ s.terms = signed[s.auth]
    BY DEF IInv, TypeOK, TermsAreSigned
  <2> QED BY <1>4, <2>2
<1>7. Unclaimed' /\ MeteredIsLate'
  BY <1>2 DEF IInv, Unclaimed, Live, MeteredIsLate
<1> QED BY <1>3, <1>5, <1>6, <1>7 DEF IInv

(* A request's turn becomes u. *)
LEMMA OneTurn ==
  ASSUME IInv, NEW r \in Requests, NEW u \in Turns, turn' = [turn EXCEPT ![r] = u]
  PROVE  /\ turn' \in [Requests -> Turns] /\ turn'[r] = u
         /\ \A q \in Requests \ {r} : turn'[q] = turn[q]
BY DEF IInv, TypeOK

(* The submission goes on under the terms it signed. *)
LEMMA ClassifyKeeps ==
  ASSUME IInv, NEW r \in Requests, Classify(r)
  PROVE  IInv'
<1> USE ConstantsOK
<1>1. Good(r) /\ turn[r] \in Turns /\ turn[r].stage = "classifying"
  BY DEF IInv, Classify, TypeOK
<1>2. UNCHANGED <<price, offering, signed, row, binding, settled, upsets>>
  BY DEF Classify
<1>3. PICK u \in Turns :
        /\ turn' = [turn EXCEPT ![r] = u]
        /\ u.fate = turn[r].fate /\ u.allowed = turn[r].allowed
        /\ u.shown = turn[r].shown /\ u.paid = turn[r].paid
        /\ \/ u.stage = "halting"
           \/ u.stage = "verifying" /\ u.auth # None /\ u.terms \in Terms /\ signed[u.auth] = u.terms
  <2>1. CASE Live(offering) /\ offering.terms = signed[turn[r].auth]
    <3> DEFINE u == [turn[r] EXCEPT !.stage = "verifying", !.terms = offering.terms]
    <3>1. offering.terms \in Terms
      BY <2>1 DEF IInv, TypeOK, Live, Offerings
    <3>2. turn[r].auth # None
      BY <1>1 DEF Good, Stages, Authorizing
    <3>3. u \in Turns /\ u.fate = turn[r].fate /\ u.allowed = turn[r].allowed
          /\ u.shown = turn[r].shown /\ u.paid = turn[r].paid /\ u.stage = "verifying"
          /\ u.auth = turn[r].auth /\ u.terms = offering.terms
      BY <1>1, <3>1 DEF Turns
    <3>4. turn' = [turn EXCEPT ![r] = u]
      BY <2>1 DEF Classify, Step
    <3> HIDE DEF u
    <3> QED BY <2>1, <3>1, <3>2, <3>3, <3>4
  <2>2. CASE ~(Live(offering) /\ offering.terms = signed[turn[r].auth])
    BY <1>1, <2>2, RefusedTurn DEF Classify, Step
  <2> QED BY <2>1, <2>2
<1>4. /\ turn' \in [Requests -> Turns] /\ turn'[r] = u
      /\ \A q \in Requests \ {r} : turn'[q] = turn[q]
  BY <1>3, OneTurn
<1>5. TypeOK'
  BY <1>2, <1>4 DEF IInv, TypeOK
<1>6. Good(r)'
  BY <1>1, <1>2, <1>3, <1>4 DEF Good, Stages, Owned, Owns, HoldsPayment, Funded, Submitted, Unpaid, Early, Authorizing
<1>7. \A q \in Requests : Good(q)'
  BY <1>2, <1>4, <1>6, Solo
<1>8. Unclaimed' /\ MeteredIsLate' /\ TermsAreSigned'
  BY <1>1, <1>2, <1>4, MeteredKept, TermsKept DEF IInv, Unclaimed, Live, Late
<1> QED BY <1>5, <1>7, <1>8 DEF IInv

(* A verification touches no claimed offering. *)
LEMMA VerifyKeeps ==
  ASSUME IInv, NEW r \in Requests, Verify(r)
  PROVE  IInv'
<1> USE ConstantsOK
<1>1. Good(r) /\ turn[r] \in Turns /\ turn[r].stage = "verifying"
  BY DEF IInv, Verify, TypeOK
<1>2. UNCHANGED <<price, signed, row, binding, settled, upsets>>
  BY DEF Verify
<1>3. PICK u \in Turns :
        /\ turn' = [turn EXCEPT ![r] = u]
        /\ u.fate = turn[r].fate /\ u.allowed = turn[r].allowed
        /\ u.shown = turn[r].shown /\ u.paid = turn[r].paid
        /\ u.auth = turn[r].auth /\ u.terms = turn[r].terms
        /\ u.stage \in {"halting", "claiming"}
  <2>1. CASE Step(r, [turn[r] EXCEPT !.stage = "claiming"])
    <3> DEFINE u == [turn[r] EXCEPT !.stage = "claiming"]
    <3>1. u \in Turns /\ u.fate = turn[r].fate /\ u.allowed = turn[r].allowed
          /\ u.shown = turn[r].shown /\ u.paid = turn[r].paid
          /\ u.auth = turn[r].auth /\ u.terms = turn[r].terms /\ u.stage = "claiming"
      BY <1>1 DEF Turns
    <3> QED BY <2>1, <3>1 DEF Step
  <2>2. CASE Step(r, Refused(turn[r]))
    BY <1>1, <2>2, RefusedTurn DEF Step
  <2> QED BY <2>1, <2>2 DEF Verify
<1>4. /\ turn' \in [Requests -> Turns] /\ turn'[r] = u
      /\ \A q \in Requests \ {r} : turn'[q] = turn[q]
  BY <1>3, OneTurn
<1>5. /\ offering' \in Offerings \cup {None}
      /\ \/ UNCHANGED offering
         \/ /\ Live(offering) /\ offering.claim = None
            /\ Live(offering') /\ offering'.claim = None /\ offering'.unknown = offering.unknown
  <2>1. PICK status \in {"verified", "failed"} : updateUnclaimed(status)
    BY DEF Verify
  <2>2. offering \in Offerings \cup {None}
    BY DEF IInv, TypeOK
  <2>3. CASE Live(offering) /\ offering.claim = None
    <3>1. offering \in Offerings /\ offering' = [offering EXCEPT !.status = status]
      BY <2>1, <2>2, <2>3 DEF updateUnclaimed, Live
    <3>2. offering' \in Offerings /\ offering'.lapsed = offering.lapsed
          /\ offering'.claim = offering.claim /\ offering'.unknown = offering.unknown
      BY <3>1 DEF Offerings
    <3>3. offering' # None
      BY <3>2
    <3> QED BY <2>3, <3>2, <3>3 DEF Live
  <2> QED BY <2>1, <2>2, <2>3 DEF updateUnclaimed
<1>6. TypeOK'
  BY <1>2, <1>4, <1>5 DEF IInv, TypeOK
<1>7. Good(r)'
  BY <1>1, <1>2, <1>3, <1>4 DEF Good, Stages, Owned, Owns, HoldsPayment, Funded, Submitted, Unpaid, Early, Authorizing
<1>8. \A q \in Requests : Good(q)'
  BY <1>2, <1>4, <1>5, <1>7, Solo
<1>9. Unclaimed'
  BY <1>5 DEF IInv, Unclaimed, Live
<1>10. MeteredIsLate' /\ TermsAreSigned'
  BY <1>1, <1>2, <1>4, MeteredKept, TermsKept DEF Late
<1> QED BY <1>6, <1>8, <1>9, <1>10 DEF IInv

(* The claim is taken once, from an offering with nothing uncertain. *)
LEMMA ClaimKeeps ==
  ASSUME IInv, NEW r \in Requests, Claim(r)
  PROVE  IInv'
<1> USE ConstantsOK
<1>1. Good(r) /\ turn[r] \in Turns /\ turn[r].stage = "claiming"
  BY DEF IInv, Claim, TypeOK
<1>2. UNCHANGED <<price, signed, row, binding, settled, upsets>>
  BY DEF Claim
<1>3. ~turn[r].paid /\ turn[r].fate = "pending" /\ ~turn[r].allowed /\ ~turn[r].shown
      /\ turn[r].auth # None /\ turn[r].terms \in Terms /\ signed[turn[r].auth] = turn[r].terms
  BY <1>1 DEF Good, Stages, Submitted, Unpaid, Early, Turns, Authorizing
<1>4. CASE claim(r) /\ Step(r, [turn[r] EXCEPT
                     !.paid = @ \/ turn[r].terms \in UptoTerms,
                     !.stage = IF turn[r].terms \in ExactTerms THEN "charging" ELSE "admitted"])
  <2>1. offering \in Offerings /\ offering.claim = None /\ ~offering.lapsed
        /\ offering' = [offering EXCEPT !.claim = r]
    BY <1>4 DEF claim, Live, IInv, TypeOK
  <2>2. offering' \in Offerings /\ offering'.claim = r /\ ~offering'.lapsed
        /\ offering'.unknown = offering.unknown
    BY <2>1 DEF Offerings
  <2>3. Live(offering)' /\ ~offering'.unknown
    BY <2>1, <2>2 DEF Live, IInv, Unclaimed
  <2>4. PICK paid \in BOOLEAN, stage \in {"charging", "admitted"} :
          /\ turn' = [turn EXCEPT ![r] = [turn[r] EXCEPT !.paid = paid, !.stage = stage]]
          /\ paid <=> turn[r].terms \in UptoTerms
          /\ stage = "charging" <=> turn[r].terms \in ExactTerms
    BY <1>3, <1>4 DEF Step
  <2> DEFINE u == [turn[r] EXCEPT !.paid = paid, !.stage = stage]
  <2>5. /\ u \in Turns /\ u.stage = stage /\ u.paid = paid /\ u.fate = turn[r].fate
        /\ u.allowed = turn[r].allowed /\ u.shown = turn[r].shown
        /\ u.auth = turn[r].auth /\ u.terms = turn[r].terms
    BY <1>1 DEF Turns
  <2> HIDE DEF u
  <2>6. /\ turn' \in [Requests -> Turns] /\ turn'[r] = u
        /\ \A q \in Requests \ {r} : turn'[q] = turn[q]
    BY <2>4, <2>5, OneTurn DEF u
  <2>7. TypeOK'
    BY <1>2, <2>2, <2>6 DEF IInv, TypeOK
  <2>8. Stages(r)' /\ Funded(r)' /\ Submitted(r)'
    BY <1>2, <1>3, <2>4, <2>5, <2>6 DEF Stages, Funded, Submitted, Unpaid, Early, Terms, Authorizing
  <2>9. Owned(r)'
    BY <1>3, <2>2, <2>3, <2>4, <2>5, <2>6 DEF Owned, Owns, HoldsPayment
  <2>10. \A q \in Requests : Good(q)'
    BY <1>2, <2>1, <2>6, <2>8, <2>9, Solo DEF Good
  <2>11. Unclaimed' /\ MeteredIsLate' /\ TermsAreSigned'
    BY <1>1, <1>2, <2>2, <2>6, MeteredKept, TermsKept DEF Unclaimed, Late
  <2> QED BY <2>7, <2>10, <2>11 DEF IInv
<1>5. CASE Step(r, Refused(turn[r])) /\ UNCHANGED offering
  <2>1. PICK u \in Turns : turn' = [turn EXCEPT ![r] = u] /\ u = Refused(turn[r])
    BY <1>1, <1>5, RefusedTurn DEF Step
  <2>2. /\ turn' \in [Requests -> Turns] /\ turn'[r] = u
        /\ \A q \in Requests \ {r} : turn'[q] = turn[q]
    BY <2>1, OneTurn
  <2>3. u.stage = "halting" /\ u.fate = turn[r].fate /\ ~u.allowed /\ ~u.shown /\ ~u.paid
    BY <1>1, <1>3, <2>1, RefusedTurn
  <2>4. Good(r)'
    BY <1>3, <2>2, <2>3 DEF Good, Stages, Owned, Owns, HoldsPayment, Funded, Submitted, Unpaid, Early, Authorizing
  <2>5. \A q \in Requests : Good(q)'
    BY <1>2, <1>5, <2>2, <2>4, Solo
  <2>6. TypeOK'
    BY <1>2, <1>5, <2>2 DEF IInv, TypeOK
  <2>7. Unclaimed' /\ MeteredIsLate' /\ TermsAreSigned'
    BY <1>1, <1>2, <1>5, <2>2, MeteredKept, TermsKept DEF IInv, Unclaimed, Live, Late
  <2> QED BY <2>5, <2>6, <2>7 DEF IInv
<1> QED BY <1>4, <1>5 DEF Claim

(* A settlement's result is recorded in an offering that stays claimed. *)
LEMMA ResultRecorded ==
  ASSUME TypeOK, ConstantsOK, NEW result \in Results, recordSettlement(result), Live(offering)
  PROVE  /\ offering' \in Offerings /\ Live(offering)'
         /\ offering'.claim = offering.claim /\ offering'.started = offering.started
         /\ offering'.unknown <=> result = "unknown"
<1>1. offering \in Offerings
  BY DEF Live, TypeOK
<1>2. PICK status \in {"completed", "failed"} :
        offering' = [offering EXCEPT !.status = status, !.unknown = (result = "unknown")]
  BY DEF recordSettlement
<1>3. offering' \in Offerings /\ offering'.claim = offering.claim /\ offering'.started = offering.started
      /\ offering'.lapsed = offering.lapsed /\ offering'.unknown = (result = "unknown")
  BY <1>1, <1>2 DEF Offerings
<1> QED BY <1>3 DEF Live

(* The settlement is under the terms signed. *)
LEMMA AskedAsSigned ==
  ASSUME IInv, NEW r \in Requests, Submitted(r), turn[r].auth \in Auths, turn[r].terms \in Terms,
         turn[r].stage = "charging" \/ turn[r].paid,
         NEW result \in Results, asksFor(r, turn[r].terms, result), UNCHANGED signed
  PROVE  /\ TermsAreSigned' /\ settled \subseteq settled'
         /\ settled' \subseteq [auth : Auths, terms : Terms, by : Requests, result : Results]
         /\ [auth |-> turn[r].auth, terms |-> turn[r].terms, by |-> r, result |-> result] \in settled'
BY DEF IInv, TypeOK, asksFor, Submitted, TermsAreSigned

(* A fixed fee is settled by the owner, before any work. *)
LEMMA ChargeKeeps ==
  ASSUME IInv, NEW r \in Requests, Charge(r)
  PROVE  IInv'
<1> USE ConstantsOK
<1>1. Good(r) /\ turn[r] \in Turns /\ turn[r].stage = "charging" /\ TypeOK
  BY DEF IInv, Charge, TypeOK
<1>2. UNCHANGED <<price, signed, row, binding, upsets>>
  BY DEF Charge
<1>3. PICK result \in Results :
        /\ asksFor(r, turn[r].terms, result)
        /\ recordSettlement(result)
        /\ Step(r, IF result = "paid" THEN [turn[r] EXCEPT !.stage = "admitted", !.paid = TRUE]
                   ELSE Refused(turn[r]))
  BY DEF Charge
<1>4. /\ ~turn[r].paid /\ turn[r].fate = "pending" /\ ~turn[r].allowed /\ ~turn[r].shown
      /\ turn[r].auth \in Auths /\ turn[r].terms \in Terms /\ turn[r].terms \in ExactTerms
      /\ signed[turn[r].auth] = turn[r].terms
      /\ Live(offering) /\ offering.claim = r
  BY <1>1 DEF Good, Stages, Submitted, Owned, Owns, Unpaid, Early, Turns, Authorizing
<1>5. /\ offering' \in Offerings /\ Live(offering)' /\ offering'.claim = r
      /\ offering'.unknown <=> result = "unknown"
  BY <1>1, <1>3, <1>4, ResultRecorded
<1>6. /\ TermsAreSigned' /\ settled \subseteq settled'
      /\ settled' \subseteq [auth : Auths, terms : Terms, by : Requests, result : Results]
      /\ [auth |-> turn[r].auth, terms |-> turn[r].terms, by |-> r, result |-> result] \in settled'
  BY <1>1, <1>2, <1>3, <1>4, AskedAsSigned DEF Good
<1>7. PICK u \in Turns :
        /\ turn' = [turn EXCEPT ![r] = u]
        /\ u.fate = "pending" /\ ~u.allowed /\ ~u.shown
        /\ u.auth = turn[r].auth /\ u.terms = turn[r].terms
        /\ \/ result = "paid" /\ u.stage = "admitted" /\ u.paid
           \/ u.stage = "halting" /\ ~u.paid
  <2>1. CASE result = "paid"
    <3> DEFINE u == [turn[r] EXCEPT !.stage = "admitted", !.paid = TRUE]
    <3>1. u \in Turns /\ u.stage = "admitted" /\ u.paid /\ u.fate = turn[r].fate
          /\ u.allowed = turn[r].allowed /\ u.shown = turn[r].shown
          /\ u.auth = turn[r].auth /\ u.terms = turn[r].terms
      BY <1>1 DEF Turns
    <3>2. turn' = [turn EXCEPT ![r] = u]
      BY <1>3, <2>1 DEF Step
    <3> HIDE DEF u
    <3> QED BY <1>4, <2>1, <3>1, <3>2
  <2>2. CASE result # "paid"
    <3>1. turn' = [turn EXCEPT ![r] = Refused(turn[r])]
      BY <1>3, <2>2 DEF Step
    <3>2. Refused(turn[r]) \in Turns
      BY <1>1, RefusedTurn
    <3> QED BY ZenonT(30), <1>1, <1>4, <3>1, <3>2, RefusedTurn
  <2> QED BY <2>1, <2>2
<1>8. /\ turn' \in [Requests -> Turns] /\ turn'[r] = u
      /\ \A q \in Requests \ {r} : turn'[q] = turn[q]
  BY <1>7, OneTurn
<1>9. TypeOK'
  BY <1>1, <1>2, <1>5, <1>6, <1>8 DEF TypeOK
<1>10. Good(r)'
  <2>1. Stages(r)' /\ Submitted(r)'
    BY <1>2, <1>4, <1>7, <1>8 DEF Stages, Submitted, Unpaid, Early, Authorizing
  <2>2. Owned(r)'
    BY <1>5, <1>7, <1>8 DEF Owned, Owns, HoldsPayment
  <2>3. Funded(r)'
    BY <1>6, <1>7, <1>8 DEF Funded
  <2> QED BY <2>1, <2>2, <2>3 DEF Good
<1>11. \A q \in Requests : Good(q)'
  BY <1>2, <1>4, <1>6, <1>8, <1>10, Solo
<1>12. Unclaimed'
  BY <1>5 DEF Unclaimed
<1>13. MeteredIsLate'
  <2>1. SUFFICES ASSUME NEW s \in settled', s.terms \in UptoTerms, s.result = "paid"
                 PROVE  turn'[s.by].verdict = "completed" /\ turn'[s.by].stage \in Late
    BY DEF MeteredIsLate
  <2>2. s \in settled
    BY <1>3, <1>4, <2>1 DEF asksFor
  <2>3. s.by \in Requests /\ turn[s.by].verdict = "completed" /\ turn[s.by].stage \in Late
    BY <2>1, <2>2 DEF IInv, TypeOK, MeteredIsLate
  <2> QED BY <1>1, <1>8, <2>3 DEF Late
<1> QED BY <1>6, <1>9, <1>11, <1>12, <1>13 DEF IInv

(* Metered work is settled by the owner, after it completed. *)
LEMMA SettleKeeps ==
  ASSUME IInv, NEW r \in Requests, Settle(r)
  PROVE  IInv'
<1> USE ConstantsOK
<1>1. Good(r) /\ turn[r] \in Turns /\ turn[r].stage = "settling" /\ TypeOK
  BY DEF IInv, Settle, TypeOK
<1>2. UNCHANGED <<price, signed, row, binding, upsets>>
  BY DEF Settle
<1>3. PICK result \in Results :
        /\ asksFor(r, turn[r].terms, result)
        /\ recordSettlement(result)
        /\ Step(r, [turn[r] EXCEPT !.stage = "clearing",
                                   !.verdict = IF result = "paid" THEN @ ELSE "failed"])
  BY DEF Settle
<1>4. /\ turn[r].paid /\ turn[r].verdict = "completed"
      /\ turn[r].auth \in Auths /\ turn[r].terms \in Terms /\ turn[r].terms \in UptoTerms
      /\ signed[turn[r].auth] = turn[r].terms
      /\ Live(offering) /\ offering.claim = r
      /\ turn[r].shown \/ turn[r].allowed => offering.started
  BY <1>1 DEF Good, Stages, Submitted, Owned, Owns, HoldsPayment, Turns, Authorizing
<1>5. /\ offering' \in Offerings /\ Live(offering)' /\ offering'.claim = r
      /\ offering'.started = offering.started
  BY <1>1, <1>3, <1>4, ResultRecorded
<1>6. /\ TermsAreSigned' /\ settled \subseteq settled'
      /\ settled' \subseteq [auth : Auths, terms : Terms, by : Requests, result : Results]
  BY <1>1, <1>2, <1>3, <1>4, AskedAsSigned DEF Good
<1>7. PICK u \in Turns :
        /\ turn' = [turn EXCEPT ![r] = u]
        /\ u.fate = turn[r].fate /\ u.allowed = turn[r].allowed /\ u.shown = turn[r].shown
        /\ u.auth = turn[r].auth /\ u.terms = turn[r].terms /\ u.paid /\ u.stage = "clearing"
        /\ result = "paid" => u.verdict = "completed"
        /\ u.verdict \in Terminal
  <2>1. PICK v \in {"completed", "failed"} :
          /\ turn' = [turn EXCEPT ![r] = [turn[r] EXCEPT !.stage = "clearing", !.verdict = v]]
          /\ result = "paid" => v = "completed"
    BY <1>1, <1>3, <1>4 DEF Step, Turns
  <2> DEFINE u == [turn[r] EXCEPT !.stage = "clearing", !.verdict = v]
  <2>2. u \in Turns /\ u.fate = turn[r].fate /\ u.allowed = turn[r].allowed /\ u.shown = turn[r].shown
        /\ u.auth = turn[r].auth /\ u.terms = turn[r].terms /\ u.paid = turn[r].paid
        /\ u.stage = "clearing" /\ u.verdict = v
    BY <1>1 DEF Turns, Terminal
  <2> HIDE DEF u
  <2> QED BY <1>4, <2>1, <2>2 DEF u, Terminal
<1>8. /\ turn' \in [Requests -> Turns] /\ turn'[r] = u
      /\ \A q \in Requests \ {r} : turn'[q] = turn[q]
  BY <1>7, OneTurn
<1>9. TypeOK'
  BY <1>1, <1>2, <1>5, <1>6, <1>8 DEF TypeOK
<1>10. Good(r)'
  <2>1. Stages(r)' /\ Submitted(r)'
    BY <1>2, <1>4, <1>7, <1>8 DEF Stages, Submitted, Unpaid, Early, Authorizing
  <2>2. Owned(r)'
    BY <1>4, <1>5, <1>7, <1>8 DEF Owned, Owns, HoldsPayment
  <2>3. Funded(r)'
    BY <1>1, <1>6, <1>7, <1>8 DEF Good, Funded
  <2> QED BY <2>1, <2>2, <2>3 DEF Good
<1>11. \A q \in Requests : Good(q)'
  BY <1>2, <1>4, <1>6, <1>8, <1>10, Solo
<1>12. Unclaimed'
  BY <1>5 DEF Unclaimed
<1>13. MeteredIsLate'
  <2>1. SUFFICES ASSUME NEW s \in settled', s.terms \in UptoTerms, s.result = "paid"
                 PROVE  turn'[s.by].verdict = "completed" /\ turn'[s.by].stage \in Late
    BY DEF MeteredIsLate
  <2>2. CASE s \in settled
    <3>1. s.by \in Requests /\ turn[s.by].verdict = "completed" /\ turn[s.by].stage \in Late
      BY <2>1, <2>2 DEF IInv, TypeOK, MeteredIsLate
    <3> QED BY <1>1, <1>8, <3>1 DEF Late
  <2>3. CASE s \notin settled
    <3>1. s.by = r /\ s.result = result
      BY <1>3, <2>3 DEF asksFor
    <3> QED BY <1>7, <1>8, <2>1, <3>1 DEF Late
  <2> QED BY <2>2, <2>3
<1> QED BY <1>6, <1>9, <1>11, <1>12, <1>13 DEF IInv

(* A step of one request that leaves the offering and the settlements alone. *)
LEMMA LoneStep ==
  ASSUME IInv, NEW r \in Requests, NEW u \in Turns, turn' = [turn EXCEPT ![r] = u],
         Good(r)', UNCHANGED <<offering, signed, settled>>, row' \in [status : {"open"} \cup Terminal, dispatch : Requests \cup {None}],
         binding' \in Requests \cup {None}, upsets' \in 0..MaxUpsets, price' \in Terms \cup {None},
         turn[r].stage \in Late => u.stage \in Late /\ u.verdict = turn[r].verdict
  PROVE  IInv'
<1>1. /\ turn' \in [Requests -> Turns] /\ turn'[r] = u
      /\ \A q \in Requests \ {r} : turn'[q] = turn[q]
  BY OneTurn
<1>2. TypeOK'
  BY <1>1 DEF IInv, TypeOK
<1>3. \A q \in Requests : Good(q)'
  BY <1>1, Solo
<1>4. Unclaimed' /\ MeteredIsLate' /\ TermsAreSigned'
  BY <1>1, MeteredKept, TermsKept DEF IInv, Unclaimed, Live
<1> QED BY <1>2, <1>3, <1>4 DEF IInv

(* A halted request writes only the task. *)
LEMMA HaltSaveKeeps ==
  ASSUME IInv, NEW r \in Requests, HaltSave(r)
  PROVE  IInv'
<1> DEFINE u == [turn[r] EXCEPT !.stage = "done"]
<1>1. Good(r) /\ turn[r] \in Turns /\ turn[r].stage = "halting" /\ TypeOK
  BY DEF IInv, HaltSave, TypeOK
<1>2. u \in Turns /\ u.stage = "done" /\ u.fate = turn[r].fate /\ u.paid = turn[r].paid
      /\ u.verdict = turn[r].verdict /\ u.terms = turn[r].terms /\ u.auth = turn[r].auth
  BY <1>1 DEF Turns
<1>3. turn' = [turn EXCEPT ![r] = u] /\ UNCHANGED <<price, offering, signed, binding, settled, upsets>>
  BY DEF HaltSave, Step
<1>4. row' \in [status : {"open"} \cup Terminal, dispatch : Requests \cup {None}]
  BY <1>1 DEF HaltSave, TypeOK, Terminal
<1> HIDE DEF u
<1>5. turn'[r] = u
  BY <1>2, <1>3, OneTurn
<1>6. Good(r)'
  BY <1>1, <1>2, <1>3, <1>5 DEF Good, Stages, Owned, Owns, HoldsPayment, Funded, Submitted, Unpaid, Early, Authorizing
<1> QED BY <1>1, <1>2, <1>3, <1>4, <1>6, LoneStep DEF TypeOK, Late

(* The final write has released the claim. *)
LEMMA SaveKeeps ==
  ASSUME IInv, NEW r \in Requests, Save(r)
  PROVE  IInv'
<1> DEFINE u == [turn[r] EXCEPT !.stage = "done"]
<1>1. Good(r) /\ turn[r] \in Turns /\ turn[r].stage = "saving" /\ TypeOK
  BY DEF IInv, Save, TypeOK
<1>2. u \in Turns /\ u.stage = "done" /\ u.fate = turn[r].fate /\ u.paid = turn[r].paid
      /\ u.verdict = turn[r].verdict /\ u.terms = turn[r].terms /\ u.auth = turn[r].auth
  BY <1>1 DEF Turns
<1>3. turn' = [turn EXCEPT ![r] = u] /\ UNCHANGED <<price, offering, signed, settled, upsets>>
  BY DEF Save, Step
<1>4. /\ row' \in [status : {"open"} \cup Terminal, dispatch : Requests \cup {None}]
      /\ binding' \in Requests \cup {None}
  BY <1>1 DEF Save, TypeOK, Terminal, Good, Stages, Authorizing
<1> HIDE DEF u
<1>5. turn'[r] = u
  BY <1>2, <1>3, OneTurn
<1>6. Good(r)'
  BY <1>1, <1>2, <1>3, <1>5 DEF Good, Stages, Owned, Owns, HoldsPayment, Funded, Submitted, Unpaid, Early, Authorizing
<1> QED BY <1>1, <1>2, <1>3, <1>4, <1>6, LoneStep DEF TypeOK, Late

(* What may have been settled is kept; the rest is known to be certain. *)
LEMMA ClearKeeps ==
  ASSUME IInv, NEW r \in Requests, Clear(r)
  PROVE  IInv'
<1>1. Good(r) /\ turn[r] \in Turns /\ turn[r].stage = "clearing" /\ TypeOK
  BY DEF IInv, Clear, TypeOK
<1>2. PICK stage \in {"saving", "deleting"} :
        /\ turn' = [turn EXCEPT ![r] = [turn[r] EXCEPT !.stage = stage]]
        /\ stage = "deleting" => ~(Live(offering) /\ offering.unknown)
  BY DEF Clear, Step
<1> DEFINE u == [turn[r] EXCEPT !.stage = stage]
<1>3. u \in Turns /\ u.stage = stage /\ u.fate = turn[r].fate /\ u.paid = turn[r].paid
      /\ u.verdict = turn[r].verdict /\ u.terms = turn[r].terms /\ u.auth = turn[r].auth
      /\ u.allowed = turn[r].allowed /\ u.shown = turn[r].shown
  BY <1>1 DEF Turns
<1> HIDE DEF u
<1>4. turn' = [turn EXCEPT ![r] = u] /\ UNCHANGED <<price, offering, signed, row, binding, settled, upsets>>
  BY <1>2 DEF Clear, u
<1>5. turn'[r] = u
  BY <1>3, <1>4, OneTurn
<1>6. Good(r)'
  <2>1. Stages(r)' /\ Funded(r)' /\ Submitted(r)'
    BY <1>1, <1>3, <1>4, <1>5 DEF Good, Stages, Funded, Submitted, Unpaid, Early, Authorizing
  <2>2. Owned(r)'
    BY <1>1, <1>2, <1>3, <1>4, <1>5 DEF Good, Owned, Owns, HoldsPayment, Live
  <2> QED BY <2>1, <2>2 DEF Good
<1> QED BY <1>1, <1>3, <1>4, <1>6, LoneStep DEF TypeOK, Late

(* The offering goes with the request that owned it. *)
LEMMA DeleteKeeps ==
  ASSUME IInv, NEW r \in Requests, Delete(r)
  PROVE  IInv'
<1> USE ConstantsOK
<1> DEFINE u == [turn[r] EXCEPT !.stage = "saving"]
<1>1. Good(r) /\ turn[r] \in Turns /\ turn[r].stage = "deleting" /\ TypeOK
  BY DEF IInv, Delete, TypeOK
<1>2. u \in Turns /\ u.stage = "saving" /\ u.fate = turn[r].fate /\ u.paid = turn[r].paid
      /\ u.verdict = turn[r].verdict /\ u.terms = turn[r].terms /\ u.auth = turn[r].auth
  BY <1>1 DEF Turns
<1>3. /\ turn' = [turn EXCEPT ![r] = u] /\ offering' = None
      /\ UNCHANGED <<price, signed, row, binding, settled, upsets>>
  BY DEF Delete, Step
<1> HIDE DEF u
<1>4. /\ turn' \in [Requests -> Turns] /\ turn'[r] = u
      /\ \A q \in Requests \ {r} : turn'[q] = turn[q]
  BY <1>2, <1>3, OneTurn
<1>5. offering.claim = r
  BY <1>1 DEF Good, Stages, Owned, Owns, HoldsPayment, Authorizing
<1>6. TypeOK'
  BY <1>1, <1>3, <1>4 DEF TypeOK
<1>7. Good(r)'
  BY <1>1, <1>2, <1>3, <1>4 DEF Good, Stages, Owned, Owns, HoldsPayment, Funded, Submitted, Unpaid, Early, Authorizing
<1>8. \A q \in Requests : Good(q)'
  BY <1>3, <1>4, <1>5, <1>7, Solo
<1>9. Unclaimed' /\ MeteredIsLate' /\ TermsAreSigned'
  BY <1>1, <1>2, <1>3, <1>4, MeteredKept, TermsKept DEF Unclaimed, Live, Late
<1> QED BY <1>6, <1>8, <1>9 DEF IInv

-----------------------------------------------------------------------------
(* A request comes to its turn to dispatch with a fate and a place. *)
LEMMA DispatchedMoves ==
  ASSUME NEW t \in Turns, NEW v \in Terminal,
         NEW fate \in {"interrupted", "rejected", "unreachable", "bound"}
  PROVE  /\ Moves(t, [settleTerminal(t, v) EXCEPT !.fate = fate])
         /\ Moves(t, [t EXCEPT !.fate = fate, !.stage = "running"])
<1>1. Moves(t, settleTerminal(t, v))
  BY SettleTerminalMoves
<1> DEFINE s == settleTerminal(t, v)
<1>2. s \in Turns
  BY <1>1 DEF Moves
<1> HIDE DEF s
<1> DEFINE w == [s EXCEPT !.fate = fate]
<1>3. w \in Turns /\ w.auth = s.auth /\ w.terms = s.terms /\ w.paid = s.paid /\ w.allowed = s.allowed
      /\ w.stage = s.stage /\ w.verdict = s.verdict /\ w.shown = s.shown /\ w.event = s.event
  BY <1>2 DEF Turns
<1> HIDE DEF w
<1>4. Moves(t, w)
  BY <1>1, <1>3 DEF Moves, Authorizing, s
<1>5. Moves(t, [t EXCEPT !.fate = fate, !.stage = "running"])
  BY ZenonT(30) DEF Moves, Turns, InLoop, Authorizing
<1> QED BY <1>4, <1>5 DEF w, s

(* A dispatch binds what was paid for, and ends the run it supersedes. *)
LEMMA DispatchKeeps ==
  ASSUME IInv, NEW r \in Requests, Dispatch(r)
  PROVE  IInv'
<1> USE ConstantsOK
<1>1. TypeOK /\ turn[r] \in Turns /\ turn[r].stage = "admitted"
      /\ \A q \in Requests : Good(q) /\ turn[q] \in Turns /\ Authorizing(turn[q])
  BY DEF IInv, Dispatch, TypeOK, Good, Stages
<1>2. UNCHANGED <<price, offering, signed, settled, upsets>>
  BY DEF Dispatch
<1>3. PICK t \in Turns : Moves(turn[r], t) /\
        \/ turn' = [turn EXCEPT ![r] = t] /\ UNCHANGED <<row, binding>>
        \/ /\ row' = [status |-> "open", dispatch |-> r] /\ binding' = r
           /\ turn' = [q \in Requests |->
                IF q = r THEN t
                ELSE IF q = binding THEN FinishWith(turn[q], "failed") ELSE turn[q]]
  <2> DEFINE over(fate, v) == [settleTerminal(turn[r], v) EXCEPT !.fate = fate]
  <2>1. \A fate \in {"interrupted", "rejected", "unreachable", "bound"}, v \in Terminal :
          Moves(turn[r], over(fate, v)) /\ over(fate, v) \in Turns
    <3>1. ASSUME NEW fate \in {"interrupted", "rejected", "unreachable", "bound"}, NEW v \in Terminal
          PROVE  Moves(turn[r], over(fate, v)) /\ over(fate, v) \in Turns
      <4>1. Moves(turn[r], over(fate, v))
        BY <1>1, DispatchedMoves
      <4> QED BY <4>1 DEF Moves
    <3> QED BY <3>1
  <2>2. Moves(turn[r], [turn[r] EXCEPT !.fate = "bound", !.stage = "running"])
        /\ [turn[r] EXCEPT !.fate = "bound", !.stage = "running"] \in Turns
    <3>1. Moves(turn[r], [turn[r] EXCEPT !.fate = "bound", !.stage = "running"])
      BY <1>1, DispatchedMoves DEF Terminal
    <3> QED BY <3>1 DEF Moves
  <2>3. CASE /\ row.status \in Terminal
             /\ Step(r, over("interrupted", row.status)) /\ UNCHANGED <<row, binding>>
    BY <2>1, <2>3 DEF Step
  <2>4. CASE Step(r, over("rejected", "failed")) /\ UNCHANGED <<row, binding>>
    BY <2>1, <2>4 DEF Step, Terminal
  <2>5. CASE /\ row' = [status |-> "open", dispatch |-> r] /\ binding' = r
             /\ turn' = [q \in Requests |->
                  IF q = r THEN [turn[r] EXCEPT !.fate = "bound", !.stage = "running"]
                  ELSE IF q = binding THEN FinishWith(turn[q], "failed") ELSE turn[q]]
    BY <2>2, <2>5
  <2>6. CASE /\ row' = [status |-> "open", dispatch |-> r] /\ binding' = r
             /\ turn' = [q \in Requests |->
                  IF q = r THEN over("unreachable", "failed")
                  ELSE IF q = binding THEN FinishWith(turn[q], "failed") ELSE turn[q]]
    BY <2>1, <2>6 DEF Terminal
  <2> QED BY <2>3, <2>4, <2>5, <2>6 DEF Dispatch
<1>4. ASSUME NEW q \in Requests PROVE turn'[q] \in Turns /\ MayMove(q)
  <2>1. CASE q = r
    <3>1. turn'[r] = t
      BY <1>1, <1>3, <2>1 DEF TypeOK
    <3> QED BY <1>1, <1>3, <2>1, <3>1 DEF MayMove
  <2>2. CASE q # r
    <3>1. turn'[q] = turn[q] \/ turn'[q] = FinishWith(turn[q], "failed")
      BY <1>1, <1>3, <2>2 DEF TypeOK
    <3>2. /\ FinishWith(turn[q], "failed").fate = turn[q].fate
          /\ \/ FinishWith(turn[q], "failed") = turn[q]
             \/ turn[q].stage \in InLoop /\ Moves(turn[q], FinishWith(turn[q], "failed"))
      BY <1>1, FinishMoves DEF Terminal
    <3> QED BY <1>1, <3>1, <3>2 DEF MayMove, Moves
  <2> QED BY <2>1, <2>2
<1>5. turn' \in [Requests -> Turns]
  <2>1. turn' = [q \in Requests |-> turn'[q]]
    BY <1>1, <1>3 DEF TypeOK
  <2> QED BY <1>4, <2>1
<1>6. TypeOK'
  BY <1>1, <1>2, <1>3, <1>5 DEF TypeOK
<1>7. (\A q \in Requests : Good(q)') /\ Unclaimed' /\ MeteredIsLate' /\ TermsAreSigned'
  BY <1>2, <1>4, MovesKeep
<1> QED BY <1>6, <1>7 DEF IInv

(* One request moves in the loop. *)
LEMMA LoopStep ==
  ASSUME IInv, NEW r \in Requests, turn[r].stage \in InLoop, NEW u \in Turns,
         u = turn[r] \/ Moves(turn[r], u), u.fate = turn[r].fate, turn' = [turn EXCEPT ![r] = u],
         UNCHANGED <<price, offering, signed, binding, settled>>,
         row' \in [status : {"open"} \cup Terminal, dispatch : Requests \cup {None}], upsets' \in 0..MaxUpsets
  PROVE  IInv'
<1>1. /\ turn' \in [Requests -> Turns] /\ turn'[r] = u
      /\ \A q \in Requests \ {r} : turn'[q] = turn[q]
  BY OneTurn
<1>2. \A q \in Requests : MayMove(q)
  BY <1>1 DEF MayMove
<1>3. TypeOK'
  BY <1>1 DEF IInv, TypeOK
<1> QED BY <1>2, <1>3, MovesKeep DEF IInv

(* The agent moves only the bound run. *)
LEMMA EmitKeeps ==
  ASSUME IInv, NEW r \in Requests, Emit(r)
  PROVE  IInv'
<1>1. TypeOK /\ turn[r] \in Turns /\ Authorizing(turn[r]) /\ turn[r].stage \in InLoop
      /\ UNCHANGED <<price, offering, signed, row, binding, settled, upsets>>
  BY DEF IInv, Emit, TypeOK, Good, Stages, InLoop
<1>2. PICK u : turn' = [turn EXCEPT ![r] = u] /\ u.fate = turn[r].fate
               /\ (u = turn[r] \/ Moves(turn[r], u))
  <2>1. CASE Step(r, Consume(turn[r], "output"))
    BY <1>1, <2>1, ConsumeMoves DEF Step
  <2>2. ASSUME NEW e \in {"completed", "failed"}, Step(r, FinishWith(turn[r], e))
        PROVE  \E u : turn' = [turn EXCEPT ![r] = u] /\ u.fate = turn[r].fate
                      /\ (u = turn[r] \/ Moves(turn[r], u))
    BY <1>1, <2>2, FinishMoves DEF Step, Terminal
  <2> QED BY <2>1, <2>2 DEF Emit
<1>3. u \in Turns
  BY <1>1, <1>2 DEF Moves
<1> QED BY <1>1, <1>2, <1>3, LoopStep DEF TypeOK

(* The caller moves only its own run. *)
LEMMA ResumeKeeps ==
  ASSUME IInv, NEW r \in Requests, Resume(r)
  PROVE  IInv'
<1>1. TypeOK /\ turn[r] \in Turns /\ turn[r].stage \in InLoop
      /\ UNCHANGED <<price, offering, signed, row, binding, settled, upsets>>
      /\ turn' = [turn EXCEPT ![r] = Take(turn[r])]
  BY DEF IInv, Resume, TypeOK, InLoop, Step
<1>2. Moves(turn[r], Take(turn[r])) /\ Take(turn[r]).fate = turn[r].fate
  BY <1>1, TakeMoves
<1>3. Take(turn[r]) \in Turns
  BY <1>2 DEF Moves
<1> QED BY <1>1, <1>2, <1>3, LoopStep DEF TypeOK

(* Publication is recorded before the event goes out, or the run fails. *)
LEMMA AuthorizeDeliveryKeeps ==
  ASSUME IInv, NEW r \in Requests, AuthorizeDelivery(r)
  PROVE  IInv'
<1> USE ConstantsOK
<1>1. TypeOK /\ turn[r] \in Turns /\ Good(r) /\ Authorizing(turn[r]) /\ turn[r].stage = "authorizing"
      /\ UNCHANGED <<price, signed, row, binding, settled, upsets>>
  BY DEF IInv, AuthorizeDelivery, TypeOK, Good, Stages
<1>2. CASE Step(r, settleTerminal(turn[r], "failed")) /\ UNCHANGED offering
  <2>1. /\ Moves(turn[r], settleTerminal(turn[r], "failed"))
        /\ settleTerminal(turn[r], "failed").fate = turn[r].fate
    BY <1>1, SettleTerminalMoves DEF Terminal
  <2>2. settleTerminal(turn[r], "failed") \in Turns
    BY <2>1 DEF Moves
  <2> QED BY <1>1, <1>2, <2>1, <2>2, LoopStep DEF Step, InLoop, TypeOK
<1>3. CASE /\ Live(offering)
           /\ offering' = [offering EXCEPT !.started = TRUE]
           /\ Step(r, Consume([turn[r] EXCEPT !.allowed = TRUE], turn[r].event))
  <2>1. turn[r].paid /\ offering.claim = r /\ ~offering.unknown
    BY <1>1 DEF Good, Owned, Owns, HoldsPayment, Authorizing
  <2>2. /\ offering' \in Offerings /\ offering'.claim = r /\ ~offering'.unknown /\ offering'.started
        /\ ~offering'.lapsed
    BY <1>1, <1>3, <2>1 DEF TypeOK, Live, Offerings
  <2> DEFINE t == [turn[r] EXCEPT !.allowed = TRUE]
             u == Consume(t, turn[r].event)
  <2>3. t \in Turns /\ t.auth = turn[r].auth /\ t.terms = turn[r].terms /\ t.paid /\ t.fate = turn[r].fate
    BY <1>1, <2>1 DEF Turns
  <2>4. turn[r].event \in {"output", "completed", "failed", "canceled"}
    BY <1>1 DEF Authorizing
  <2>5. turn' = [turn EXCEPT ![r] = u]
    BY <1>3 DEF Step
  <2> HIDE DEF t
  <2>6. Moves(t, u) /\ u.fate = t.fate
    BY <2>3, <2>4, ConsumeMoves
  <2> HIDE DEF u
  <2>7. u \in Turns
    BY <2>6 DEF Moves
  <2>8. /\ turn' \in [Requests -> Turns] /\ turn'[r] = u
        /\ \A q \in Requests \ {r} : turn'[q] = turn[q]
    BY <2>5, <2>7, OneTurn
  <2>9. TypeOK'
    BY <1>1, <2>2, <2>8 DEF TypeOK
  <2>10. Good(r)'
    <3>1. Stages(r)' /\ Submitted(r)'
      BY ZenonT(30), <1>1, <2>1, <2>3, <2>6, <2>8 DEF Good, Stages, Submitted, Moves, Authorizing, InLoop, Unpaid, Early
    <3>2. Owned(r)'
      BY <2>2, <2>8 DEF Owned, Live
    <3>3. Funded(r)'
      BY <1>1, <2>1, <2>3, <2>6, <2>8 DEF Good, Funded, Moves, InLoop
    <3> QED BY <3>1, <3>2, <3>3 DEF Good
  <2>11. \A q \in Requests : Good(q)'
    BY <1>1, <2>1, <2>8, <2>10, Solo
  <2>12. Unclaimed' /\ MeteredIsLate' /\ TermsAreSigned'
    BY <1>1, <2>2, <2>8, MeteredKept, TermsKept DEF Unclaimed, Late
  <2> QED BY <2>9, <2>11, <2>12 DEF IInv
<1> QED BY <1>2, <1>3 DEF AuthorizeDelivery

(* The surroundings leave the requests as they are. *)
LEMMA SurroundingsKeep ==
  ASSUME IInv, Lapse \/ Sweep \/ Reprice
  PROVE  IInv'
<1> USE ConstantsOK
<1>1. UNCHANGED <<signed, row, binding, turn, settled>>
  BY DEF Lapse, Sweep, Reprice
<1>2. /\ TypeOK'
      /\ offering' = offering \/ offering' = None
         \/ /\ Live(offering) /\ offering'.lapsed
            /\ offering.claim # None => turn[offering.claim].stage \in Over
  <2>1. TypeOK
    BY DEF IInv
  <2>2. CASE Lapse
    <3>1. offering \in Offerings /\ offering' \in Offerings /\ offering'.lapsed
      BY <2>1, <2>2 DEF Lapse, Live, TypeOK, Offerings
    <3> QED BY <1>1, <2>1, <2>2, <3>1 DEF Lapse, TypeOK
  <2>3. CASE Sweep
    BY <1>1, <2>1, <2>3 DEF Sweep, TypeOK
  <2>4. CASE Reprice
    BY <1>1, <2>1, <2>4 DEF Reprice, Upset, TypeOK
  <2> QED BY <2>2, <2>3, <2>4
<1>3. \A q \in Requests : Owns(q) => UNCHANGED offering
  <2>1. SUFFICES ASSUME NEW q \in Requests, Owns(q) PROVE UNCHANGED offering
    OBVIOUS
  <2>2. Live(offering) /\ offering.claim = q /\ turn[q].stage \notin Over
    BY <2>1 DEF IInv, Good, Owned, Owns, HoldsPayment, Over
  <2> QED BY <2>2 DEF Lapse, Sweep, Reprice, Live
<1>4. ASSUME NEW q \in Requests PROVE Good(q)'
  <2>1. Good(q) /\ TypeOK
    BY DEF IInv
  <2>2. Owns(q) => Live(offering)' /\ offering'.claim = q
    BY <1>3, <2>1 DEF Good, Owned, Live
  <2> QED BY <1>1, <1>3, <2>1, <2>2, OthersKeep
<1>5. Unclaimed'
  BY <1>2 DEF IInv, Unclaimed, Live
<1>6. MeteredIsLate' /\ TermsAreSigned'
  BY <1>1 DEF IInv, MeteredIsLate, TermsAreSigned
<1> QED BY <1>2, <1>4, <1>5, <1>6 DEF IInv

(* A cancel moves only the bound run. *)
LEMMA CancelKeeps ==
  ASSUME IInv, Cancel
  PROVE  IInv'
<1> USE ConstantsOK
<1>1. TypeOK /\ UNCHANGED <<price, offering, signed, binding, settled>>
      /\ row' \in [status : {"open"} \cup Terminal, dispatch : Requests \cup {None}] /\ upsets' \in 0..MaxUpsets
  BY DEF IInv, Cancel, Upset, TypeOK, Terminal
<1>2. CASE binding = None
  <2>1. turn' = turn
    BY <1>2 DEF Cancel
  <2>2. \A q \in Requests : MayMove(q)
    BY <2>1 DEF MayMove
  <2>3. TypeOK'
    BY <1>1, <2>1 DEF TypeOK
  <2> QED BY <1>1, <2>2, <2>3, MovesKeep DEF IInv
<1>3. CASE binding # None
  <2>1. PICK r \in Requests : binding = r
    BY <1>1, <1>3 DEF TypeOK
  <2>2. turn[r] \in Turns /\ Good(r) /\ Authorizing(turn[r])
    BY <1>1 DEF IInv, TypeOK, Good, Stages
  <2>f. PICK f : f = FinishWith(turn[r], "canceled")
    OBVIOUS
  <2> DEFINE u == [f EXCEPT !.aborted = TRUE]
  <2>3. turn' = [turn EXCEPT ![r] = u]
    BY <1>3, <2>1, <2>f DEF Cancel, Step
  <2>4. f.fate = turn[r].fate /\ (f = turn[r] \/ (turn[r].stage \in InLoop /\ Moves(turn[r], f)))
    <3>1. "canceled" \in Terminal
      BY DEF Terminal
    <3>2. /\ FinishWith(turn[r], "canceled").fate = turn[r].fate
          /\ \/ FinishWith(turn[r], "canceled") = turn[r]
             \/ turn[r].stage \in InLoop /\ Moves(turn[r], FinishWith(turn[r], "canceled"))
      BY <2>2, <3>1, FinishMoves
    <3> QED BY <2>f, <3>2
  <2>5. f \in Turns
    BY <2>2, <2>4 DEF Moves
  <2>6. u \in Turns /\ u.stage = f.stage /\ u.fate = f.fate /\ u.paid = f.paid /\ u.terms = f.terms
        /\ u.auth = f.auth /\ u.allowed = f.allowed /\ u.shown = f.shown /\ u.verdict = f.verdict
        /\ u.event = f.event
    BY <2>5 DEF Turns
  <2> HIDE DEF u
  <2>7. CASE f = turn[r]
    <3>1. turn'[r] = u
      BY <2>3, <2>6, OneTurn
    <3>2. Good(r)'
      BY <1>1, <2>2, <2>6, <2>7, <3>1 DEF Good, Stages, Owned, Owns, HoldsPayment, Funded, Submitted, Live, Authorizing
    <3> QED BY <1>1, <2>3, <2>6, <2>7, <3>2, LoneStep DEF TypeOK, Late
  <2>8. CASE turn[r].stage \in InLoop /\ Moves(turn[r], f)
    <3>1. Moves(turn[r], u)
      BY <2>6, <2>8 DEF Moves, Authorizing
    <3> QED BY <1>1, <2>3, <2>4, <2>6, <2>8, <3>1, LoopStep
  <2> QED BY <2>4, <2>7, <2>8
<1> QED BY <1>2, <1>3

(* A crash ends the requests and leaves the claims to their retention. *)
LEMMA CrashKeeps ==
  ASSUME IInv, Crash
  PROVE  IInv'
<1>1. TypeOK /\ UNCHANGED <<price, offering, signed, row, settled>>
  BY DEF IInv, Crash
<1>2. ASSUME NEW q \in Requests
      PROVE  /\ turn'[q] \in Turns
             /\ turn'[q].verdict = turn[q].verdict
             /\ \/ turn'[q] = turn[q]
                \/ /\ turn'[q].stage = "done" /\ turn'[q].fate = "gone"
                   /\ turn'[q].auth = turn[q].auth /\ turn'[q].terms = turn[q].terms
                   /\ turn'[q].paid = turn[q].paid
  <2>1. turn[q] \in Turns
    BY <1>1 DEF TypeOK
  <2>2. turn'[q] = turn[q] \/ turn'[q] = [turn[q] EXCEPT !.stage = "done", !.fate = "gone"]
    BY DEF Crash
  <2> QED BY <2>1, <2>2 DEF Turns
<1>3. TypeOK'
  <2>1. turn' \in [Requests -> Turns]
    <3>1. turn' = [q \in Requests |-> turn'[q]]
      BY DEF Crash
    <3> QED BY <1>2, <3>1
  <2>2. upsets' \in 0..MaxUpsets
    <3>1. upsets < MaxUpsets /\ upsets' = upsets + 1
      BY DEF Crash, Upset
    <3>2. upsets \in 0..MaxUpsets
      BY <1>1 DEF TypeOK
    <3>3. MaxUpsets \in Nat
      BY ConstantsOK
    <3> QED BY <3>1, <3>2, <3>3
  <2>3. binding' \in Requests \cup {None}
    BY DEF Crash
  <2> QED BY <1>1, <2>1, <2>2, <2>3 DEF TypeOK
<1>4. ASSUME NEW q \in Requests PROVE Good(q)'
  <2>1. Good(q)
    BY DEF IInv
  <2>2. CASE turn'[q] = turn[q]
    BY <1>1, <2>1, <2>2 DEF Good, Stages, Owned, Owns, HoldsPayment, Funded, Submitted, Live
  <2>3. CASE turn'[q] # turn[q]
    BY <1>1, <1>2, <2>1, <2>3 DEF Good, Stages, Owned, Owns, HoldsPayment, Funded, Submitted, Unpaid,
       Early, Authorizing
  <2> QED BY <2>2, <2>3
<1>5. MeteredIsLate'
  <2>1. \A q \in Requests : turn[q].stage \in Late =>
          turn'[q].stage \in Late /\ turn'[q].verdict = turn[q].verdict
    BY <1>2 DEF Late
  <2> QED BY <1>1, <2>1, MeteredKept
<1>6. Unclaimed' /\ TermsAreSigned'
  BY <1>1, TermsKept DEF IInv, Unclaimed, Live
<1> QED BY <1>3, <1>4, <1>5, <1>6 DEF IInv

-----------------------------------------------------------------------------
(* Every step keeps what the requests know. *)
THEOREM StepInvariant == IInv /\ [Next]_vars => IInv'
<1> SUFFICES ASSUME IInv, [Next]_vars PROVE IInv'
  OBVIOUS
<1>1. ASSUME NEW r \in Requests,
             \/ Begin(r) \/ Publish(r) \/ Classify(r) \/ Verify(r) \/ Claim(r) \/ Charge(r)
             \/ HaltSave(r) \/ Dispatch(r) \/ Emit(r) \/ AuthorizeDelivery(r) \/ Resume(r)
             \/ Settle(r) \/ Clear(r) \/ Delete(r) \/ Save(r)
      PROVE  IInv'
  BY <1>1, BeginKeeps, PublishKeeps, ClassifyKeeps, VerifyKeeps, ClaimKeeps, ChargeKeeps,
     HaltSaveKeeps, DispatchKeeps, EmitKeeps, AuthorizeDeliveryKeeps, ResumeKeeps, SettleKeeps,
     ClearKeeps, DeleteKeeps, SaveKeeps
<1>2. ASSUME NEW a \in Auths, Sign(a) PROVE IInv'
  BY <1>2, SignKeeps
<1>3. CASE Lapse \/ Sweep \/ Reprice \/ Cancel \/ Crash
  BY <1>3, SurroundingsKeep, CancelKeeps, CrashKeeps
<1>4. CASE UNCHANGED vars
  <2>1. \A q \in Requests : MayMove(q)
    BY <1>4 DEF MayMove, vars
  <2>2. TypeOK'
    BY <1>4 DEF IInv, TypeOK, vars
  <2> QED BY <1>4, <2>1, <2>2, MovesKeep DEF IInv, vars
<1> QED BY <1>1, <1>2, <1>3, <1>4 DEF Next

(* The requests know it at all times. *)
THEOREM Safety == Spec => []IInv
BY InitInvariant, StepInvariant, PTL DEF Spec

(* Every variable keeps to its type. *)
THEOREM TypeCorrect == Spec => []TypeOK
<1>1. IInv => TypeOK
  BY DEF IInv
<1> QED BY <1>1, Safety, PTL

(* A request that holds a settlement owns the live offering until it has      *)
(* released it, whatever retries, verifications, expiries and crashes do.     *)
THEOREM ClaimsAreHeld == Spec => []ClaimHeld
<1>1. IInv => ClaimHeld
  BY DEF IInv, Good, Owned, Owns, ClaimHeld
<1> QED BY <1>1, Safety, PTL

(* The agent works only for free, or for a request accepted under the terms   *)
(* its payer signed, whose fixed fee has been collected and which has the     *)
(* claim to itself.                                                           *)
THEOREM WorkHasBeenPaidFor == Spec => []WorkIsPaidFor
<1>1. IInv => WorkIsPaidFor
  BY DEF IInv, Good, Funded, Owned, Owns, ClaimHeld, WorkIsPaidFor
<1> QED BY <1>1, Safety, PTL

(* Every settlement is under the terms signed. *)
THEOREM SettledAsSigned == Spec => []TermsAreSigned
<1>1. IInv => TermsAreSigned
  BY DEF IInv
<1> QED BY <1>1, Safety, PTL

(* A metered payment is taken only for a request that ends completed. *)
THEOREM MeteredIffCompleted == Spec => []MeteredIsCompleted
<1>1. IInv => MeteredIsCompleted
  BY DEF IInv, MeteredIsLate, MeteredIsCompleted
<1> QED BY <1>1, Safety, PTL

(* Output of a paid run is visible only once its publication is on record. *)
THEOREM OutputHasBeenRecorded == Spec => []OutputIsRecorded
<1>1. IInv => OutputIsRecorded
  BY DEF IInv, Good, Owned, Owns, OutputIsRecorded
<1> QED BY <1>1, Safety, PTL

(* A settlement whose outcome is unknown stays on record, with its claim,     *)
(* until its retention ends: only the owner of the claim deletes or settles   *)
(* it, and finds nothing uncertain when it does.                              *)
THEOREM UncertainStays == Spec => UncertainIsKept
<1> DEFINE Kept == Live(offering) /\ offering.unknown =>
                     offering' # None /\ offering'.unknown /\ offering'.claim = offering.claim
<1>1. ASSUME IInv, [Next]_vars PROVE Kept
  <2> SUFFICES ASSUME Live(offering), offering.unknown
               PROVE  offering' # None /\ offering'.unknown /\ offering'.claim = offering.claim
    OBVIOUS
  <2>1. offering \in Offerings /\ offering # None /\ offering.claim # None
    BY <1>1 DEF IInv, TypeOK, Unclaimed, Live
  <2>2. \A r \in Requests : turn[r].stage # "deleting" /\ turn[r].stage # "settling"
                            /\ turn[r].stage # "charging"
    BY <1>1 DEF IInv, Good, Stages, Owned, Owns, HoldsPayment
  <2>3. CASE UNCHANGED offering
    BY <2>1, <2>3
  <2>4. ASSUME NEW r \in Requests, Verify(r) \/ AuthorizeDelivery(r)
        PROVE  offering' # None /\ offering'.unknown /\ offering'.claim = offering.claim
    <3>1. \/ UNCHANGED offering
          \/ offering' = [offering EXCEPT !.started = TRUE]
      BY <2>1, <2>4 DEF Verify, AuthorizeDelivery, updateUnclaimed
    <3>2. [offering EXCEPT !.started = TRUE] \in Offerings
      BY <2>1 DEF Offerings
    <3> QED BY <2>1, <3>1, <3>2, ConstantsOK DEF Offerings
  <2>5. CASE Lapse
    <3>1. offering' = [offering EXCEPT !.lapsed = TRUE]
      BY <2>5 DEF Lapse
    <3>2. [offering EXCEPT !.lapsed = TRUE] \in Offerings
      BY <2>1 DEF Offerings
    <3> QED BY <2>1, <3>1, <3>2, ConstantsOK DEF Offerings
  <2>6. ASSUME NEW r \in Requests, Publish(r) \/ Claim(r)
        PROVE  UNCHANGED offering
    BY <2>1, <2>6 DEF Publish, Claim, claim
  <2>7. ASSUME NEW r \in Requests, Charge(r) \/ Settle(r) \/ Delete(r)
        PROVE  FALSE
    BY <2>2, <2>7 DEF Charge, Settle, Delete
  <2>8. CASE Sweep
    BY <2>8 DEF Sweep, Live
  <2>9. ASSUME NEW r \in Requests,
               \/ Begin(r) \/ Classify(r) \/ HaltSave(r) \/ Dispatch(r) \/ Emit(r)
               \/ Resume(r) \/ Clear(r) \/ Save(r)
        PROVE  UNCHANGED offering
    BY <2>9 DEF Begin, Classify, HaltSave, Dispatch, Emit, Resume, Clear, Save
  <2>10. (\E a \in Auths : Sign(a)) \/ Reprice \/ Cancel \/ Crash => UNCHANGED offering
    BY DEF Sign, Reprice, Cancel, Crash
  <2> QED BY <1>1, <2>3, <2>4, <2>5, <2>6, <2>7, <2>8, <2>9, <2>10 DEF Next, vars
<1>2. IInv /\ [Next]_vars => [Kept]_vars
  BY <1>1
<1> QED BY <1>2, Safety, PTL DEF Spec, UncertainIsKept
=============================================================================
