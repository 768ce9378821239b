------------------------------- MODULE DeviceFlow -------------------------------
(***************************************************************************)
(* Signing in: a client asks for a device code, somebody signs in with     *)
(* Google in a browser, and the client receives what it asked for, by      *)
(* polling or straight from the callback, as the popup of the admin UI     *)
(* does.  Which of the two the callback does is up to the page the sign-in *)
(* was started from, whatever the client expects.                          *)
(*                                                                         *)
(* Code: packages/server/src/auth/device-flow.ts, device-ui.ts and         *)
(* google-oauth.ts, the hourly sweep of src/index.ts, the login of         *)
(* packages/client/src/login.ts, and packages/admin-ui/src/lib/            *)
(* device-flow.ts.  Google, the browser and the clock are external.  A     *)
(* client is named by its device code; the clients that register ask for   *)
(* the same agent id.                                                      *)
(***************************************************************************)
EXTENDS Naturals, FiniteSets

CONSTANTS
  Codes,      \* device codes, each of one client
  Browsers,   \* sign-ins somebody starts in a browser
  Polls,      \* calls of the token endpoint that may be open at once
  Instances,  \* server instances, each with its own lastPoll
  People,     \* Google accounts
  Plans,      \* what clients ask for: pairs of a way and an intent
  Hasty,      \* codes whose client calls again while its call is unanswered
  Nobody

ConstantsOK ==
  /\ Hasty \subseteq Codes /\ Nobody \notin People
  /\ Browsers \cap Polls = {}
  /\ Plans \subseteq {"poll", "popup"} \X {"caller", "owner_session", "client_register"}

VARIABLES
  client,    \* what the client of a code asked for and where it is
  session,   \* rows of device_sessions
  lapsed,    \* external: codes whose lifetime is over
  browser,   \* where a sign-in is
  poll,      \* where a call of the token endpoint is
  recent,    \* lastPoll: instance and code called less than the interval ago
  tokens,    \* history: what was issued, for which code, to whom, on which way
  approvals  \* history: who approved a code's row

vars == <<client, session, lapsed, browser, poll, recent, tokens, approvals>>

NoRow == [status |-> "none", principal |-> Nobody]
NoSignIn == [pc |-> "idle", code |-> Nobody, who |-> Nobody, onsite |-> FALSE]
NoPoll == [pc |-> "idle", code |-> Nobody, at |-> Nobody, answer |-> "none", row |-> NoRow]

Intent(c) == client[c].plan[2]
Pending(c) == session[c].status = "pending" /\ c \notin lapsed
Audience(c) == IF Intent(c) = "client_register" THEN "client" ELSE Intent(c)
Named == \E t \in tokens : t.audience = "client"

(* A row names its approver exactly when it is approved, and a call that is   *)
(* about to issue has read an approved row.                                   *)
TypeOK ==
  /\ \A c \in Codes :
       /\ client[c].st \in {"idle", "waiting", "got", "ended"}
       /\ client[c].st # "idle" => client[c].plan \in Plans
       /\ session[c].status \in {"none", "pending", "approved", "expired"}
       /\ session[c].status \in {"none", "pending"} => session[c].principal = Nobody
       /\ session[c].status = "approved" => session[c].principal \in People
  /\ lapsed \subseteq Codes /\ recent \subseteq Instances \X Codes
  /\ \A b \in Browsers : browser[b].pc \in {"idle", "consent", "callback", "exchanged"}
  /\ \A q \in Polls :
       /\ poll[q].pc \in {"idle", "sent", "admitted", "approved", "answered"}
       /\ poll[q].pc = "approved" => poll[q].row.principal \in People
  /\ \A t \in tokens : t.code \in Codes /\ t.principal \in People

Init ==
  /\ client = [c \in Codes |-> [st |-> "idle", plan |-> <<"poll", "caller">>]]
  /\ session = [c \in Codes |-> NoRow]
  /\ lapsed = {} /\ recent = {} /\ tokens = {} /\ approvals = {}
  /\ browser = [b \in Browsers |-> NoSignIn]
  /\ poll = [q \in Polls |-> NoPoll]

(* POST /oauth/device/code stores the row; or the user code cannot be          *)
(* allocated, and the client ends.                                            *)
Ask(c, plan) ==
  /\ client[c].st = "idle"
  /\ \/ /\ client' = [client EXCEPT ![c] = [st |-> "waiting", plan |-> plan]]
        /\ session' = [session EXCEPT ![c].status = "pending"]
     \/ /\ client' = [client EXCEPT ![c] = [st |-> "ended", plan |-> plan]]
        /\ UNCHANGED session
  /\ UNCHANGED <<lapsed, browser, poll, recent, tokens, approvals>>

(* External: the lifetime of a code passes, and with it the client's deadline *)
(* or the popup's timer, which run on.                                        *)
Lapse(c) ==
  /\ session[c].status # "none" \/ client[c].st = "waiting"
  /\ c \notin lapsed
  /\ lapsed' = lapsed \cup {c}
  /\ UNCHANGED <<client, session, browser, poll, recent, tokens, approvals>>

(* The hourly sweep deletes the rows past their lifetime.                      *)
Sweep(c) ==
  /\ c \in lapsed /\ session[c].status # "none"
  /\ session' = [session EXCEPT ![c] = NoRow]
  /\ UNCHANGED <<client, lapsed, browser, poll, recent, tokens, approvals>>

-----------------------------------------------------------------------------
(* In the browser: the start page looks the code up and hands it to Google,    *)
(* signed into the state with the origin the URL names for the answer, if it   *)
(* names one.  The admin UI's popup does; anybody's link may, for any code.    *)
Start(b, c, onsite) ==
  /\ browser[b].pc = "idle" /\ Pending(c)
  /\ browser' = [browser EXCEPT ![b] =
       [pc |-> "consent", code |-> c, who |-> Nobody, onsite |-> onsite]]
  /\ UNCHANGED <<client, session, lapsed, poll, recent, tokens, approvals>>

(* Google returns to the callback, which goes on only while the row is         *)
(* pending.  A person who refuses ends the sign-in.                           *)
Return(b) ==
  LET c == browser[b].code IN
  /\ browser[b].pc = "consent"
  /\ browser' = [browser EXCEPT ![b] =
       IF Pending(c) THEN [@ EXCEPT !.pc = "callback"] ELSE NoSignIn]
  /\ UNCHANGED <<client, session, lapsed, poll, recent, tokens, approvals>>

Refuse(b) ==
  /\ browser[b].pc = "consent"
  /\ browser' = [browser EXCEPT ![b] = NoSignIn]
  /\ UNCHANGED <<client, session, lapsed, poll, recent, tokens, approvals>>

(* The authorization code is exchanged for an identity with a verified email,  *)
(* or the page reports a failure.                                             *)
Identify(b, p) ==
  /\ browser[b].pc = "callback"
  /\ browser' = [browser EXCEPT ![b] =
       IF p = Nobody THEN NoSignIn ELSE [@ EXCEPT !.pc = "exchanged", !.who = p]]
  /\ UNCHANGED <<client, session, lapsed, poll, recent, tokens, approvals>>

(* The sign-in is answered where it began: it says so, and is for a token. *)
Onsite(b) == browser[b].onsite /\ Intent(browser[b].code) \in {"caller", "owner_session"}

(* The admin UI hears of a token that is posted to it while it waits. *)
Posted(c) ==
  IF client[c].st = "waiting" /\ client[c].plan[1] = "popup"
  THEN [client EXCEPT ![c].st = "got"] ELSE client

(* Such a callback issues the token and deletes the row in one transaction,    *)
(* without asking again how the row stands, and posts the token to the page    *)
(* that opened it, which need not be the client.                              *)
Deliver(b) ==
  LET c == browser[b].code IN
  /\ browser[b].pc = "exchanged" /\ Onsite(b)
  /\ browser' = [browser EXCEPT ![b] = NoSignIn]
  /\ \/ /\ tokens' = tokens \cup {[code |-> c, by |-> b, audience |-> Audience(c),
                                   principal |-> browser[b].who]}
        /\ session' = [session EXCEPT ![c] = NoRow]
        /\ client' \in {client, Posted(c)}
     \/ UNCHANGED <<tokens, session, client>>
  /\ UNCHANGED <<lapsed, poll, recent, approvals>>

(* With a bug: the update does not ask whether the row is still pending. *)
DecidedOrNot(c) == session[c].status # "none"

Undecided(c) == session[c].status = "pending"

(* Every other callback approves the row, if it is still pending.  It does not *)
(* ask again whether the code has lapsed.                                     *)
Approve(b) ==
  LET c == browser[b].code IN
  /\ browser[b].pc = "exchanged" /\ ~Onsite(b)
  /\ browser' = [browser EXCEPT ![b] = NoSignIn]
  /\ IF Undecided(c)
     THEN /\ session' = [session EXCEPT ![c] = [status |-> "approved",
                                                principal |-> browser[b].who]]
          /\ approvals' = approvals \cup {<<c, browser[b].who>>}
     ELSE UNCHANGED <<session, approvals>>
  /\ UNCHANGED <<client, lapsed, poll, recent, tokens>>

-----------------------------------------------------------------------------
(* The client polls in a loop until its deadline: one call at a time, unless  *)
(* it repeats a call it has no answer to.                                     *)
Call(q, c) ==
  /\ poll[q].pc = "idle"
  /\ client[c].st = "waiting" /\ client[c].plan[1] = "poll"
  /\ c \in Hasty \/ \A r \in Polls : poll[r].code # c
  /\ poll' = [poll EXCEPT ![q] = [NoPoll EXCEPT !.pc = "sent", !.code = c]]
  /\ UNCHANGED <<client, session, lapsed, browser, recent, tokens, approvals>>

Answered(q, a) == [poll EXCEPT ![q].pc = "answered", ![q].answer = a, ![q].row = NoRow]

(* An instance admits the call, or slows the client down.                      *)
Admit(q, i) ==
  LET c == poll[q].code IN
  /\ poll[q].pc = "sent"
  /\ IF <<i, c>> \in recent
     THEN poll' = Answered(q, "slow_down") /\ UNCHANGED recent
     ELSE /\ poll' = [poll EXCEPT ![q].pc = "admitted", ![q].at = i]
          /\ recent' = recent \cup {<<i, c>>}
  /\ UNCHANGED <<client, session, lapsed, browser, tokens, approvals>>

(* External: the interval since the last call passes.                          *)
Interval(i, c) ==
  /\ <<i, c>> \in recent
  /\ recent' = recent \ {<<i, c>>}
  /\ UNCHANGED <<client, session, lapsed, browser, poll, tokens, approvals>>

Forgotten(q) == recent \ {<<poll[q].at, poll[q].code>>}

(* The row is read.  One past its lifetime is marked, whatever its status; an  *)
(* approved one leads to the transaction of the next step.                    *)
Read(q) ==
  LET c == poll[q].code
      expired == session[c].status \in {"none", "expired"} \/ c \in lapsed
  IN
  /\ poll[q].pc = "admitted"
  /\ IF expired
     THEN /\ poll' = Answered(q, "expired")
          /\ session' = [session EXCEPT ![c] =
               IF @.status = "none" THEN @ ELSE [@ EXCEPT !.status = "expired"]]
          /\ recent' = Forgotten(q)
     ELSE /\ poll' = IF session[c].status = "pending" THEN Answered(q, "pending")
                     ELSE [poll EXCEPT ![q].pc = "approved", ![q].row = session[c]]
          /\ UNCHANGED <<session, recent>>
  /\ UNCHANGED <<client, lapsed, browser, tokens, approvals>>

(* One transaction issues the token, or registers the client and mints its     *)
(* token, and deletes the row: it does not ask whether there still is one.    *)
(* A registration fails when the agent id is taken, and any may fail.         *)
Issue(q) ==
  LET c == poll[q].code IN
  /\ poll[q].pc = "approved"
  /\ \/ /\ Intent(c) = "client_register" => ~Named
        /\ tokens' = tokens \cup {[code |-> c, by |-> q, audience |-> Audience(c),
                                   principal |-> poll[q].row.principal]}
        /\ session' = [session EXCEPT ![c] = NoRow]
        /\ recent' = Forgotten(q)
        /\ poll' = Answered(q, "token")
     \/ poll' = Answered(q, "error") /\ UNCHANGED <<tokens, session, recent>>
  /\ UNCHANGED <<client, lapsed, browser, approvals>>

(* The client takes the answer: a token and a final error end it, anything     *)
(* else makes it wait for its next turn.                                      *)
Receive(q) ==
  LET c == poll[q].code IN
  /\ poll[q].pc = "answered"
  /\ client' = [client EXCEPT ![c].st =
       CASE @ # "waiting" -> @
         [] poll[q].answer = "token" -> "got"
         [] poll[q].answer \in {"expired", "error"} -> "ended"
         [] OTHER -> @]
  /\ poll' = [poll EXCEPT ![q] = NoPoll]
  /\ UNCHANGED <<session, lapsed, browser, recent, tokens, approvals>>

(* The loop's deadline passes between two calls, or the popup's timer runs     *)
(* out; the admin UI also lets its user cancel.                               *)
GiveUp(c) ==
  /\ client[c].st = "waiting"
  /\ \/ c \in lapsed /\ \A q \in Polls : poll[q].code # c
     \/ client[c].plan[1] = "popup"
  /\ client' = [client EXCEPT ![c].st = "ended"]
  /\ UNCHANGED <<session, lapsed, browser, poll, recent, tokens, approvals>>

-----------------------------------------------------------------------------
Next ==
  \/ \E c \in Codes, plan \in Plans : Ask(c, plan)
  \/ \E c \in Codes : Lapse(c) \/ Sweep(c) \/ GiveUp(c)
  \/ \E b \in Browsers, c \in Codes, onsite \in BOOLEAN : Start(b, c, onsite)
  \/ \E b \in Browsers : Return(b) \/ Refuse(b) \/ Deliver(b) \/ Approve(b)
  \/ \E b \in Browsers, p \in People \cup {Nobody} : Identify(b, p)
  \/ \E q \in Polls, c \in Codes : Call(q, c)
  \/ \E q \in Polls, i \in Instances : Admit(q, i)
  \/ \E i \in Instances, c \in Codes : Interval(i, c)
  \/ \E q \in Polls : Read(q) \/ Issue(q) \/ Receive(q)

Spec == Init /\ [][Next]_vars

-----------------------------------------------------------------------------
(* What polling yields belongs to the one person whose sign-in approved that   *)
(* code, though others signed in beside it; a token is of the kind its code    *)
(* was asked for; and no callback registers an agent.                         *)
TokenIsApprovers ==
  \A t \in tokens :
    /\ t.audience = Audience(t.code)
    /\ IF t.by \in Polls
       THEN approvals \cap ({t.code} \X People) = {<<t.code, t.principal>>}
       ELSE t.audience # "client"

(* A client that makes one call at a time polls at most one token out of its   *)
(* code, however many people sign in with it and wherever they are answered.   *)
OneTokenPerPoller ==
  \A t, u \in tokens :
    t.code = u.code /\ t.code \notin Hasty /\ {t.by, u.by} \subseteq Polls => t = u

(* An agent id is registered once, though two registrations ask for it.        *)
OneClientPerName ==
  Cardinality({t \in tokens : t.audience = "client"}) <= 1

(* A code may yield more than one token, but only to those who were let        *)
(* through before the first: once it has yielded one, or has lapsed, no poll   *)
(* and no callback is let through any more, and no callback once it has been   *)
(* approved.                                                                  *)
SpentLetsNobodyThrough ==
  [][/\ \A q \in Polls : poll[q].pc = "admitted" /\ poll'[q].pc = "approved" =>
          /\ poll[q].code \notin lapsed
          /\ \A t \in tokens : t.code # poll[q].code
     /\ \A b \in Browsers : browser[b].pc = "consent" /\ browser'[b].pc = "callback" =>
          /\ browser[b].code \notin lapsed
          /\ \A t \in tokens : t.code # browser[b].code
          /\ \A p \in People : <<browser[b].code, p>> \notin approvals]_vars

===============================================================================
