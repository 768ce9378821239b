----------------------------- MODULE SessionTokens -----------------------------
(***************************************************************************)
(* The bridge's own bearers: how a wallet's signed message (SIWE) becomes  *)
(* one, how a request that carries one is verified against a row and a     *)
(* cache of one instance, how one is revoked, and the file the command     *)
(* line keeps its own in.                                                  *)
(*                                                                         *)
(* Code: packages/server/src/auth/caller-token.ts, siwe-exchange.ts,       *)
(* siwe-bearer.ts, revoke.ts, src/siwe-token.ts, the nonce sweep of        *)
(* src/index.ts, authOwnerSession of src/http.tsx; packages/client/src/    *)
(* logout.ts, owner-session.ts and the saving in login.ts.  Signatures,    *)
(* wallets and the clock are external; a message stands for its signer and *)
(* its nonce.  Time is counted in ticks up to MaxTime.                         *)
(***************************************************************************)
EXTENDS Integers, FiniteSets

CONSTANTS
  Messages,   \* SIWE messages somebody has signed for this bridge's domain
  Issued,     \* when a message says it was issued
  Expiry,     \* when it says it expires
  Tokens,     \* the random strings the bridge may draw
  Instances,  \* server instances, each with its own verifyCache
  Exchanges,  \* calls of /auth/siwe/exchange that may be open at once
  Requests,   \* requests with a bearer that may be open at once
  Clis,       \* command lines that share one owner-session file
  CacheTtl,   \* CACHE_MAX_ENTRY_TTL_MS
  CacheMax,   \* VERIFY_CACHE_MAX_ENTRIES
  MaxTtl,     \* MAX_TOKEN_TTL_MS
  TokenTtl,   \* DEFAULT_TTL_MS
  Skew,       \* ISSUED_AT_SKEW_MS
  SlowExchanges,  \* time may pass between verifying a message and the transaction
  MaxTime,    \* bound on the clock
  None

ConstantsOK ==
  /\ Issued \in [Messages -> Int] /\ Expiry \in [Messages -> Nat]
  /\ CacheTtl \in Nat \ {0} /\ CacheMax \in Nat /\ MaxTtl \in Nat /\ TokenTtl \in Nat
  /\ Skew \in Nat /\ MaxTime \in Nat /\ SlowExchanges \in BOOLEAN
  /\ None \notin Tokens \cup Messages \cup Instances \cup Nat \cup {"caller", "owner_session"}
  /\ Tokens \cap Messages = {}

VARIABLES
  now,     \* external: the clock
  callers, \* rows of `callers', by token
  nonces,  \* rows of `used_siwe_nonces'
  exch,    \* where a call of the exchange is
  cache,   \* verifyCache of caller-token.ts, per instance: token -> audience, expiry
  bearers, \* verifyCache of siwe-bearer.ts, per instance
  req,     \* where a request is, what it carries and what it read
  cli,     \* where a command line is
  file,    \* the owner-session file
  revoked  \* history: when a token was revoked

vars == <<now, callers, nonces, exch, cache, bearers, req, cli, file, revoked>>

Audiences == {"caller", "owner_session"}
NoRow == [aud |-> None, from |-> None, exp |-> 0, revoked |-> FALSE]
NoEntry == [aud |-> None, exp |-> 0]
NoExchange == [pc |-> "idle", msg |-> None, aud |-> None, ttl |-> 0]
NoRequest == [pc |-> "idle", at |-> None, cred |-> None, want |-> None, now |-> 0,
              row |-> NoRow]
NoCli == [pc |-> "idle", token |-> None, ok |-> FALSE]

Minted == {t \in Tokens : callers[t] # NoRow}
Cached(i) == {t \in Tokens : cache[i][t] # NoEntry}
Least(a, b) == IF a < b THEN a ELSE b

(* Rows and cache entries agree on the audience of a token, no entry is good  *)
(* for longer than the row, and a cached bearer expires as its message does.  *)
TypeOK ==
  /\ now \in 0..MaxTime /\ nonces \subseteq Messages /\ file \in Tokens \cup {None}
  /\ \A t \in Minted : /\ callers[t].aud \in Audiences /\ callers[t].exp \in Nat
                       /\ callers[t].from \in Messages \cup {None}
  /\ \A i \in Instances : /\ bearers[i] \subseteq Messages
                          /\ \A t \in Cached(i) : /\ t \in Minted
                                                  /\ cache[i][t].aud = callers[t].aud
                                                  /\ cache[i][t].exp <= callers[t].exp
  /\ \A e \in Exchanges :
       /\ exch[e].pc \in {"idle", "verified"}
       /\ exch[e].pc = "verified" => exch[e].ttl \in 1..MaxTtl
  /\ \A r \in Requests : req[r].pc \in {"idle", "asked", "checked", "recovering", "ok"}
  /\ \A c \in Clis : cli[c].pc \in {"idle", "saving", "revoking", "removing"}
  /\ \A t \in Tokens : (revoked[t] # None) <=> callers[t].revoked

Init ==
  /\ now = 0 /\ nonces = {} /\ file = None
  /\ callers = [t \in Tokens |-> NoRow]
  /\ exch = [e \in Exchanges |-> NoExchange]
  /\ cache = [i \in Instances |-> [t \in Tokens |-> NoEntry]]
  /\ bearers = [i \in Instances |-> {}]
  /\ req = [r \in Requests |-> NoRequest]
  /\ cli = [c \in Clis |-> NoCli]
  /\ revoked = [t \in Tokens |-> None]

(***************************************************************************)
(* Exchanging a signed message.                                            *)
(***************************************************************************)

\* verifySiweMessage
Acceptable(m) ==
  /\ Issued[m] < Expiry[m] /\ Expiry[m] - Issued[m] <= MaxTtl
  /\ Issued[m] <= now + Skew
  /\ now < Expiry[m]

Verify(e) ==
  /\ exch[e].pc = "idle"
  /\ \E m \in Messages, a \in Audiences :
       /\ Acceptable(m)
       /\ exch' = [exch EXCEPT ![e] = [pc |-> "verified", msg |-> m, aud |-> a,
                                       ttl |-> Least(MaxTtl, Expiry[m] - now)]]
  /\ UNCHANGED <<now, callers, nonces, cache, bearers, req, cli, file, revoked>>

\* issueSessionToken: the lifetime counts from the moment of the insert
Mint(t, aud, from, ttl) ==
  /\ callers[t] = NoRow
  /\ callers' = [callers EXCEPT ![t] = [aud |-> aud, from |-> from, exp |-> now + ttl,
                                        revoked |-> FALSE]]

\* The transaction: both rows or, when it fails or the nonce is there, neither.
Exchange(e) ==
  LET x == exch[e] IN
  /\ x.pc = "verified"
  /\ \/ /\ x.msg \notin nonces
        /\ nonces' = nonces \cup {x.msg}
        /\ \E t \in Tokens : Mint(t, x.aud, x.msg, x.ttl)
     \/ UNCHANGED <<callers, nonces>>
  /\ exch' = [exch EXCEPT ![e] = NoExchange]
  /\ UNCHANGED <<now, cache, bearers, req, cli, file, revoked>>

\* With a bug: the sweep removes the nonces of messages that are still good.
SweepAll ==
  /\ nonces # {}
  /\ nonces' = {}
  /\ UNCHANGED <<now, callers, exch, cache, bearers, req, cli, file, revoked>>

SweepNonces ==
  /\ \E m \in nonces : Expiry[m] <= now
  /\ nonces' = {m \in nonces : Expiry[m] > now}
  /\ UNCHANGED <<now, callers, exch, cache, bearers, req, cli, file, revoked>>

(***************************************************************************)
(* Verifying a bearer.                                                     *)
(***************************************************************************)

\* evictExpired: at its interval, and down to the limit (the oldest go first; the
\* order of the entries is left open).
Evicted(i, left) ==
  /\ left \subseteq Cached(i)
  /\ \/ left = Cached(i) /\ Cardinality(left) <= CacheMax
     \/ /\ left \subseteq {t \in Cached(i) : cache[i][t].exp > now}
        /\ Cardinality(left) <= CacheMax
        /\ \A t \in Cached(i) \ left :
             cache[i][t].exp > now => Cardinality(left) = CacheMax

Kept(i, left) == [t \in Tokens |-> IF t \in left THEN cache[i][t] ELSE NoEntry]

Entry(row, at) == [aud |-> row.aud, exp |-> Least(row.exp, at + CacheTtl)]

Hit(i, t, left, want) ==
  t \in left /\ cache[i][t].exp > now /\ callers[t].aud = want

\* verifySessionToken, up to its query.  A bearer of the other audience is refused
\* by its prefix.
Present(r) ==
  /\ req[r].pc = "idle"
  /\ \E i \in Instances, t \in Minted, want \in Audiences : \E left \in SUBSET Cached(i) :
       /\ Evicted(i, left)
       /\ cache' = [cache EXCEPT ![i] = Kept(i, left)]
       /\ \/ /\ Hit(i, t, left, want)
             /\ req' = [req EXCEPT ![r] = [pc |-> "ok", at |-> i, cred |-> t, want |-> want,
                                           now |-> now, row |-> NoRow]]
          \/ /\ ~(t \in left /\ cache[i][t].exp > now)
             /\ callers[t].aud = want
             /\ req' = [req EXCEPT ![r] = [pc |-> "asked", at |-> i, cred |-> t, want |-> want,
                                           now |-> now, row |-> NoRow]]
  /\ UNCHANGED <<now, callers, nonces, exch, bearers, cli, file, revoked>>

Good(row, at, want) == ~row.revoked /\ row.exp > at /\ row.aud = want

\* The query's answer, judged by the time at which the request came.
Lookup(r) ==
  LET x == req[r] IN
  /\ x.pc = "asked"
  /\ req' = [req EXCEPT ![r] = IF Good(callers[x.cred], x.now, x.want)
                               THEN [x EXCEPT !.pc = "checked", !.row = callers[x.cred]]
                               ELSE NoRequest]
  /\ UNCHANGED <<now, callers, nonces, exch, cache, bearers, cli, file, revoked>>

\* After the write of last_used_at, which may be slow and may fail.
Store(r) ==
  LET x == req[r] IN
  /\ x.pc = "checked"
  /\ cache' = [cache EXCEPT ![x.at][x.cred] = Entry(x.row, x.now)]
  /\ req' = [req EXCEPT ![r] = [x EXCEPT !.pc = "ok", !.row = NoRow]]
  /\ UNCHANGED <<now, callers, nonces, exch, bearers, cli, file, revoked>>

\* verifySiweBearerToken: a signed message as the bearer itself.
BearerHit(i, m) == m \in bearers[i] /\ Expiry[m] > now

PresentMessage(r) ==
  /\ req[r].pc = "idle"
  /\ \E i \in Instances, m \in Messages :
       LET pc == IF BearerHit(i, m) THEN "ok" ELSE "recovering" IN
       /\ BearerHit(i, m) \/ Acceptable(m)
       /\ req' = [req EXCEPT ![r] = [pc |-> pc, at |-> i, cred |-> m, want |-> "caller",
                                     now |-> now, row |-> NoRow]]
  /\ UNCHANGED <<now, callers, nonces, exch, cache, bearers, cli, file, revoked>>

Recover(r) ==
  LET x == req[r] IN
  /\ x.pc = "recovering"
  /\ bearers' = [bearers EXCEPT ![x.at] = @ \cup {x.cred}]
  /\ req' = [req EXCEPT ![r] = [x EXCEPT !.pc = "ok"]]
  /\ UNCHANGED <<now, callers, nonces, exch, cache, cli, file, revoked>>

\* maybeSweep of siwe-bearer.ts
SweepBearers(i) ==
  /\ \E m \in bearers[i] : Expiry[m] <= now
  /\ bearers' = [bearers EXCEPT ![i] = {m \in @ : Expiry[m] > now}]
  /\ UNCHANGED <<now, callers, nonces, exch, cache, req, cli, file, revoked>>

Serve(r) ==
  /\ req[r].pc = "ok"
  /\ req' = [req EXCEPT ![r] = NoRequest]
  /\ UNCHANGED <<now, callers, nonces, exch, cache, bearers, cli, file, revoked>>

(***************************************************************************)
(* Revoking, and the command line.                                         *)
(***************************************************************************)

MarkRevoked(t) ==
  /\ callers' = [callers EXCEPT ![t].revoked = TRUE]
  /\ revoked' = [revoked EXCEPT ![t] = IF callers[t].revoked THEN @ ELSE now]

\* /oauth/revoke and revokeCallerToken: the caches are left as they are
Revoke(t) ==
  /\ t \in Minted /\ ~callers[t].revoked
  /\ MarkRevoked(t)
  /\ UNCHANGED <<now, nonces, exch, cache, bearers, req, cli, file>>

\* the device flow hands the login an owner token
LogIn(c) ==
  /\ cli[c].pc = "idle"
  /\ \E t \in Tokens :
       /\ Mint(t, "owner_session", None, TokenTtl)
       /\ cli' = [cli EXCEPT ![c] = [pc |-> "saving", token |-> t, ok |-> FALSE]]
  /\ UNCHANGED <<now, nonces, exch, cache, bearers, req, file, revoked>>

Save(c) ==
  /\ cli[c].pc = "saving"
  /\ file' = cli[c].token
  /\ cli' = [cli EXCEPT ![c] = NoCli]
  /\ UNCHANGED <<now, callers, nonces, exch, cache, bearers, req, revoked>>

\* executeLogout: with --local-only the server is not asked
LogOut(c) ==
  /\ cli[c].pc = "idle" /\ file # None
  /\ \E pc \in {"revoking", "removing"} :
       cli' = [cli EXCEPT ![c] = [pc |-> pc, token |-> file, ok |-> FALSE]]
  /\ UNCHANGED <<now, callers, nonces, exch, cache, bearers, req, file, revoked>>

\* The call, its failure, and an answer that is lost.
RevokeOnServer(c) ==
  LET x == cli[c] IN
  /\ x.pc = "revoking"
  /\ \/ \E ok \in BOOLEAN : /\ MarkRevoked(x.token)
                            /\ cli' = [cli EXCEPT ![c] = [x EXCEPT !.pc = "removing", !.ok = ok]]
     \/ /\ UNCHANGED <<callers, revoked>>
        /\ cli' = [cli EXCEPT ![c] = [x EXCEPT !.pc = "removing"]]
  /\ UNCHANGED <<now, nonces, exch, cache, bearers, req, file>>

\* rmSync, unless --keep-local
Remove(c) ==
  /\ cli[c].pc = "removing"
  /\ file' \in {None, file}
  /\ cli' = [cli EXCEPT ![c] = NoCli]
  /\ UNCHANGED <<now, callers, nonces, exch, cache, bearers, req, revoked>>

Tick ==
  /\ now < MaxTime
  /\ SlowExchanges \/ \A e \in Exchanges : exch[e].pc = "idle"
  /\ now' = now + 1
  /\ UNCHANGED <<callers, nonces, exch, cache, bearers, req, cli, file, revoked>>

Next ==
  \/ \E e \in Exchanges : Verify(e) \/ Exchange(e)
  \/ \E r \in Requests : Present(r) \/ Lookup(r) \/ Store(r) \/ PresentMessage(r)
                           \/ Recover(r) \/ Serve(r)
  \/ \E i \in Instances : SweepBearers(i)
  \/ \E t \in Tokens : Revoke(t)
  \/ \E c \in Clis : LogIn(c) \/ Save(c) \/ LogOut(c) \/ RevokeOnServer(c) \/ Remove(c)
  \/ SweepNonces \/ Tick

Spec == Init /\ [][Next]_vars

(***************************************************************************)
(* Properties.                                                             *)
(***************************************************************************)

Accepted == {r \in Requests : req[r].pc = "ok" /\ req[r].cred \in Tokens}

(* A request that came a cache lifetime or more after the revocation of its  *)
(* bearer is not served, although revoking touches no cache and a request    *)
(* may store its entry long after it read the row (caller-token.ts:57-60,    *)
(* 291-293).                                                                 *)
RevokedSoon ==
  \A r \in Accepted :
    revoked[req[r].cred] # None => req[r].now < revoked[req[r].cred] + CacheTtl

(* What is served was good for its audience when it came: a bearer no later  *)
(* than its row's expiry, a signed message no later than its own             *)
(* (caller-token.ts:199,234,274, siwe-bearer.ts:112).                        *)
ServedInTime ==
  \A r \in Requests :
    req[r].pc = "ok" =>
      IF req[r].cred \in Tokens
      THEN req[r].now < callers[req[r].cred].exp /\ req[r].want = callers[req[r].cred].aud
      ELSE req[r].now < Expiry[req[r].cred]

(* A message is spent only together with the token it bought: an exchange    *)
(* that fails leaves it good (siwe-exchange.ts:104-109).                     *)
FailureBurnsNothing ==
  \A m \in nonces : \E t \in Minted : callers[t].from = m

(* One signed message buys one token (siwe-exchange.ts:104-109).             *)
OneTokenPerMessage ==
  \A t, u \in Minted : callers[t].from # None /\ callers[t].from = callers[u].from => t = u

(* A token bought with a message does not outlive it (siwe-exchange.ts:18).  *)
TokenEndsWithMessage ==
  \A t \in Minted : callers[t].from # None => callers[t].exp <= Expiry[callers[t].from]

(* A logout whose revocation was acknowledged removes no session but a       *)
(* revoked one (logout.ts:4-10).                                             *)
RemovedIsRevoked ==
  [][\A c \in Clis : cli[c].pc = "removing" /\ cli[c].ok /\ file # None /\ file' = None
       => callers[file].revoked]_vars
=============================================================================
