----------------------------- MODULE AgentConnection -----------------------------
(***************************************************************************)
(* How one agent gets and keeps its place in the bridge: the daemon's      *)
(* connect/reconnect loop (packages/client/src/client.ts), the handshake   *)
(* of packages/server/src/ws.ts around its asynchronous token lookup, the  *)
(* registration (registry.ts), and what the database row of the agent does *)
(* meanwhile: repricing with its cross-instance refresh                    *)
(* (x402/pricing-watch.ts) and deletion (admin-api.ts).                    *)
(*                                                                         *)
(* A query is read by the database at one moment and answered at another.  *)
(* Tasks are left to TaskBindings.  All daemons hold the agent's token.    *)
(***************************************************************************)
EXTENDS Naturals, FiniteSets

CONSTANTS
  Daemons,    \* client processes started with the agent's token
  Sockets,    \* connections; one is used again when both ends have let go of it
  None,       \* undefined
  Deleted,    \* the row is gone
  MaxWrites,  \* bound: price updates
  MaxUpsets,  \* bound: breaks, restarts, lookups that outlast the hello timeout
  MayDelete   \* bound: whether the owner deletes the client

ASSUME ConstantsOK ==
  /\ MaxWrites \in Nat /\ MaxUpsets \in Nat /\ MayDelete \in BOOLEAN
  /\ None \notin Sockets \cup Daemons \cup Nat
  /\ Deleted \notin Nat \cup {None}

VARIABLES
  row,         \* the agent's row: its price (a version), or Deleted
  deleting,    \* deleteClientForOwner: "no", "committed", "done"
  write,       \* setX402Pricing, per update: "no", "committed", "done"
  refresh,     \* pricing-watch refresh, per update: "no", "asked", "answered"
  answer,      \* what the SELECT of an answered refresh returned
  registered,  \* Registry.agents for this agent
  sock,        \* the two ends of each connection
  ws,          \* Client.ws
  probed,      \* Client.effectiveCardPromise has settled
  timer,       \* Client.reconnectTimer: "off", "backoff", "collision"
  stopped,     \* Client.stopped
  upsets

rowVars == <<row, deleting, write, refresh, answer>>
daemonVars == <<ws, probed, timer, stopped>>
vars == <<rowVars, registered, sock, daemonVars, upsets>>

Updates == 1..MaxWrites
Prices == 0..MaxWrites

Connections == [
  state : {"none", "open", "closing", "closed"},     \* the server's readyState, if it has a socket
  authed : BOOLEAN,                                  \* handleConnection's authed
  lookup : {"no", "asked", "answered", "done"},      \* authenticateAndRegister
  price : Prices \cup {Deleted, None},               \* what its lookup read, then x402Pricing
  code : {"none", "4001", "4005", "4009", "4014"},   \* the close code the server sent
  up : BOOLEAN,                                      \* the network path is alive
  hello : BOOLEAN,                                   \* the client has sent its hello
  end : {"none", "connecting", "open"}]              \* the client's readyState, while it holds it

NoConnection == [state |-> "none", authed |-> FALSE, lookup |-> "no", price |-> None,
                 code |-> "none", up |-> FALSE, hello |-> FALSE, end |-> "none"]

NewConnection == [NoConnection EXCEPT !.up = TRUE, !.end = "connecting"]

TypeOK ==
  /\ row \in Prices \cup {Deleted}
  /\ deleting \in {"no", "committed", "done"}
  /\ write \in [Updates -> {"no", "committed", "done"}]
  /\ refresh \in [Updates -> {"no", "asked", "answered"}]
  /\ answer \in [Updates -> Prices \cup {Deleted, None}]
  /\ registered \in Sockets \cup {None}
  /\ registered # None => sock[registered].price # Deleted
  /\ sock \in [Sockets -> Connections]
  /\ ws \in [Daemons -> Sockets \cup {None}]
  /\ probed \in [Daemons -> BOOLEAN]
  /\ timer \in [Daemons -> {"off", "backoff", "collision"}]
  /\ stopped \in [Daemons -> BOOLEAN]
  /\ upsets \in 0..MaxUpsets

Init ==
  /\ row = 0 /\ deleting = "no"
  /\ write = [w \in Updates |-> "no"]
  /\ refresh = [w \in Updates |-> "no"]
  /\ answer = [w \in Updates |-> None]
  /\ registered = None
  /\ sock = [s \in Sockets |-> NoConnection]
  /\ ws = [d \in Daemons |-> None]
  /\ probed = [d \in Daemons |-> FALSE]
  /\ timer = [d \in Daemons |-> "off"]
  /\ stopped = [d \in Daemons |-> FALSE]
  /\ upsets = 0

Upset == upsets < MaxUpsets /\ upsets' = upsets + 1

(* A connection both ends have let go of, with no lookup out, is forgotten, and *)
(* so is an attempt given up before the server has a socket for it.            *)
Settle(c) ==
  IF c.state \in {"none", "closed"} /\ c.end = "none" /\ c.lookup \notin {"asked", "answered"}
  THEN NoConnection ELSE c

Becomes(s, c) == sock' = [sock EXCEPT ![s] = Settle(c)]

-----------------------------------------------------------------------------
(* The daemon. *)

(* start() or the reconnect timer: the attempt begins, with no timer over it.  *)
(* Which unused identity the connection gets makes no difference.              *)
Connect(d) ==
  /\ ~stopped[d] /\ ws[d] = None
  /\ \E s \in Sockets : sock[s] = NoConnection
  /\ LET s == CHOOSE x \in Sockets : sock[x] = NoConnection
     IN /\ ws' = [ws EXCEPT ![d] = s]
        /\ sock' = [sock EXCEPT ![s] = NewConnection]
  /\ timer' = [timer EXCEPT ![d] = "off"]
  /\ UNCHANGED <<rowVars, registered, probed, stopped, upsets>>

(* The open event: TCP and the upgrade have succeeded, the heartbeat starts.   *)
Opens(d) ==
  /\ ws[d] # None /\ sock[ws[d]].end = "connecting"
  /\ sock[ws[d]].up /\ sock[ws[d]].state # "none"
  /\ sock' = [sock EXCEPT ![ws[d]].end = "open"]
  /\ UNCHANGED <<rowVars, registered, daemonVars, upsets>>

(* resolveEffectiveCard settles, by its deadline at the latest; once a process. *)
ProbeSettles(d) ==
  /\ ~probed[d]
  /\ probed' = [probed EXCEPT ![d] = TRUE]
  /\ UNCHANGED <<rowVars, registered, sock, ws, timer, stopped, upsets>>

SendHello(d) ==
  /\ ws[d] # None /\ sock[ws[d]].end = "open" /\ probed[d] /\ ~sock[ws[d]].hello
  /\ sock' = [sock EXCEPT ![ws[d]].hello = TRUE]
  /\ UNCHANGED <<rowVars, registered, daemonVars, upsets>>

(* The close event of the current socket. *)
LoseSocket(d, code) ==
  LET fatal == code \in {"4005", "4014"}
  IN /\ Becomes(ws[d], [sock[ws[d]] EXCEPT !.end = "none"])
     /\ ws' = [ws EXCEPT ![d] = None]
     /\ stopped' = [stopped EXCEPT ![d] = fatal]
     /\ timer' = [timer EXCEPT ![d] = IF fatal THEN "off"
                                      ELSE IF code = "4009" THEN "collision" ELSE "backoff"]
     /\ UNCHANGED <<rowVars, registered, probed>>

(* An attempt is refused, or the system gives up one whose path is dead, which *)
(* it need not: once the request is delivered nothing is left to time out.     *)
ConnectFails(d) ==
  /\ ws[d] # None /\ sock[ws[d]].end = "connecting"
  /\ IF sock[ws[d]].up THEN Upset ELSE UNCHANGED upsets
  /\ LoseSocket(d, "none")

ReceiveClose(d) ==
  /\ ws[d] # None /\ sock[ws[d]].end = "open" /\ sock[ws[d]].up
  /\ sock[ws[d]].state # "open"
  /\ LoseSocket(d, sock[ws[d]].code)
  /\ UNCHANGED upsets

(* With a bug: the heartbeat is not armed again once hello is out. *)
HeartbeatUntilHello(d) ==
  /\ ws[d] # None /\ sock[ws[d]].end = "open" /\ ~sock[ws[d]].up /\ ~sock[ws[d]].hello
  /\ LoseSocket(d, "none")
  /\ UNCHANGED upsets

(* A ping unanswered for a whole heartbeat interval: terminate. *)
HeartbeatFails(d) ==
  /\ ws[d] # None /\ sock[ws[d]].end = "open" /\ ~sock[ws[d]].up
  /\ LoseSocket(d, "none")
  /\ UNCHANGED upsets

(* The process is killed and started again; the system closes its socket. *)
Restart(d) ==
  /\ ws[d] # None /\ Upset
  /\ Becomes(ws[d], [sock[ws[d]] EXCEPT !.end = "none"])
  /\ ws' = [ws EXCEPT ![d] = None]
  /\ probed' = [probed EXCEPT ![d] = FALSE]
  /\ UNCHANGED <<rowVars, registered, timer, stopped>>

LinkDies(s) ==
  /\ sock[s].up /\ Upset
  /\ sock' = [sock EXCEPT ![s].up = FALSE]
  /\ UNCHANGED <<rowVars, registered, daemonVars>>

-----------------------------------------------------------------------------
(* The server's end of a socket. *)

(* The server upgrades an attempt; its hello timeout runs from here. *)
Accept(s) ==
  /\ sock[s].end = "connecting" /\ sock[s].state = "none" /\ sock[s].up
  /\ sock' = [sock EXCEPT ![s].state = "open"]
  /\ UNCHANGED <<rowVars, registered, daemonVars, upsets>>

(* ws.close(code): only the first one counts. *)
Closing(c, code) ==
  IF c.state = "open" THEN [c EXCEPT !.state = "closing", !.code = code] ELSE c

ReceiveHello(s) ==
  /\ sock[s].hello /\ sock[s].up /\ sock[s].state \in {"open", "closing"} /\ sock[s].lookup = "no"
  /\ sock' = [sock EXCEPT ![s].lookup = "asked"]
  /\ UNCHANGED <<rowVars, registered, daemonVars, upsets>>

(* The database reads the row for lookupByTokenHash. *)
LookupReads(s) ==
  /\ sock[s].lookup = "asked"
  /\ sock' = [sock EXCEPT ![s].lookup = "answered", ![s].price = row]
  /\ UNCHANGED <<rowVars, registered, daemonVars, upsets>>

Looked(s) == [sock[s] EXCEPT !.lookup = "done"]

RejectToken(s) ==
  /\ sock[s].lookup = "answered" /\ sock[s].price = Deleted
  /\ Becomes(s, Closing(Looked(s), "4005"))
  /\ UNCHANGED <<rowVars, registered, daemonVars, upsets>>

(* registerAgent displaces whoever is registered. *)
Displacing(s) ==
  sock' = [x \in Sockets |->
             IF x = s THEN Settle([Looked(s) EXCEPT !.authed = sock[s].state = "open"])
             ELSE IF x = registered THEN Closing([sock[x] EXCEPT !.price = None], "4009")
             ELSE sock[x]]

(* With a bug: a newcomer takes the table over, the old socket stays open. *)
RegisterBeside(s) ==
  /\ sock[s].lookup = "answered" /\ sock[s].price # Deleted
  /\ Becomes(s, [Looked(s) EXCEPT !.authed = sock[s].state = "open"])
  /\ registered' = IF sock[s].state = "closed" THEN None ELSE s
  /\ UNCHANGED <<rowVars, daemonVars, upsets>>

(* The answer arrives.  Whether the socket is still there is only looked at     *)
(* once the registration is done.                                             *)
Register(s) ==
  /\ sock[s].lookup = "answered" /\ sock[s].price # Deleted
  /\ Displacing(s)
  /\ registered' = IF sock[s].state = "closed" THEN None ELSE s
  /\ UNCHANGED <<rowVars, daemonVars, upsets>>

(* With a bug: the timeout has the code of a rejected token. *)
HelloTimeoutFatal(s) ==
  /\ sock[s].state = "open" /\ ~sock[s].authed /\ Upset
  /\ Becomes(s, Closing(sock[s], "4005"))
  /\ UNCHANGED <<rowVars, registered, daemonVars>>

(* Not authenticated in time: no hello came (the path is dead, or the probe is *)
(* still running), or the network or the lookup was slow, which is an upset.   *)
HelloTimeout(s) ==
  /\ sock[s].state = "open" /\ ~sock[s].authed
  /\ IF sock[s].up /\ \A d \in Daemons : ws[d] = s => probed[d]
     THEN Upset ELSE UNCHANGED upsets
  /\ Becomes(s, Closing(sock[s], "4001"))
  /\ UNCHANGED <<rowVars, registered, daemonVars>>

(* The close event: unregisterAgent, if the table still names this socket. *)
SocketCloses(s) ==
  /\ Becomes(s, [sock[s] EXCEPT !.state = "closed",
                              !.price = IF registered = s THEN None ELSE @])
  /\ registered' = IF registered = s THEN None ELSE registered
  /\ UNCHANGED <<rowVars, daemonVars, upsets>>

(* The peer closed, or the close the server began is answered or times out. *)
ServerSeesClose(s) ==
  /\ \/ sock[s].state = "closing"
     \/ sock[s].state = "open" /\ sock[s].end = "none" /\ sock[s].up
  /\ SocketCloses(s)

(* On a dead path the server, which has no keepalive, may notice or may not. *)
ServerSeesDeath(s) ==
  /\ sock[s].state = "open" /\ ~sock[s].up
  /\ SocketCloses(s)

-----------------------------------------------------------------------------
(* The row. *)

(* setX402Pricing commits an update, on this instance or on another. *)
WriteRow(w) ==
  /\ write[w] = "no" /\ row # Deleted /\ \A v \in Updates : v < w => write[v] # "no"
  /\ write' = [write EXCEPT ![w] = "committed"]
  /\ row' = w
  /\ UNCHANGED <<deleting, refresh, answer, registered, sock, daemonVars, upsets>>

updateX402Pricing(p) ==
  sock' = IF registered = None THEN sock ELSE [sock EXCEPT ![registered].price = p]

(* Served here, the commit is followed by a patch of the connection; then all  *)
(* instances are notified, and this one reacts if it holds the agent.         *)
Announce(w, here) ==
  /\ write[w] = "committed"
  /\ write' = [write EXCEPT ![w] = "done"]
  /\ IF here THEN updateX402Pricing(w) ELSE UNCHANGED sock
  /\ refresh' = [refresh EXCEPT ![w] = IF registered = None THEN "no" ELSE "asked"]
  /\ UNCHANGED <<row, deleting, answer, registered, daemonVars, upsets>>

RefreshReads(w) ==
  /\ refresh[w] = "asked"
  /\ refresh' = [refresh EXCEPT ![w] = "answered"]
  /\ answer' = [answer EXCEPT ![w] = row]
  /\ UNCHANGED <<row, deleting, write, registered, sock, daemonVars, upsets>>

RefreshApplies(w) ==
  /\ refresh[w] = "answered"
  /\ refresh' = [refresh EXCEPT ![w] = "no"]
  /\ answer' = [answer EXCEPT ![w] = None]
  /\ IF answer[w] = Deleted THEN UNCHANGED sock ELSE updateX402Pricing(answer[w])
  /\ UNCHANGED <<row, deleting, write, registered, daemonVars, upsets>>

(* deleteClientForOwner: the transaction, then disconnectClient on the         *)
(* instance that served the request.                                          *)
DeleteRow ==
  /\ MayDelete /\ deleting = "no"
  /\ deleting' = "committed"
  /\ row' = Deleted
  /\ UNCHANGED <<write, refresh, answer, registered, sock, daemonVars, upsets>>

DisconnectDeleted(here) ==
  /\ deleting = "committed"
  /\ deleting' = "done"
  /\ sock' = IF here /\ registered # None
             THEN [sock EXCEPT ![registered] = Closing(@, "4014")] ELSE sock
  /\ UNCHANGED <<row, write, refresh, answer, registered, daemonVars, upsets>>

-----------------------------------------------------------------------------
DaemonStep ==
  \E d \in Daemons : \/ Connect(d) \/ Opens(d) \/ ConnectFails(d) \/ ProbeSettles(d) \/ SendHello(d)
                     \/ ReceiveClose(d) \/ HeartbeatFails(d) \/ Restart(d)

SocketStep ==
  \E s \in Sockets :
    \/ LinkDies(s) \/ Accept(s) \/ ReceiveHello(s) \/ LookupReads(s) \/ RejectToken(s) \/ Register(s)
    \/ HelloTimeout(s) \/ ServerSeesClose(s) \/ ServerSeesDeath(s)

RowStep ==
  \/ \E w \in Updates : \/ WriteRow(w) \/ RefreshReads(w) \/ RefreshApplies(w)
                        \/ \E here \in BOOLEAN : Announce(w, here)
  \/ DeleteRow
  \/ \E here \in BOOLEAN : DisconnectDeleted(here)

Next == DaemonStep \/ SocketStep \/ RowStep

(* Timers fire, queries are answered, and a live path delivers.  Nothing       *)
(* obliges the server to notice a dead path, an attempt to fail on one, or     *)
(* anything to go wrong.                                                       *)
Fairness ==
  /\ \A d \in Daemons : /\ WF_vars(Connect(d)) /\ WF_vars(Opens(d)) /\ WF_vars(ProbeSettles(d))
                        /\ WF_vars(SendHello(d)) /\ WF_vars(ReceiveClose(d))
                        /\ WF_vars(HeartbeatFails(d))
  /\ \A s \in Sockets : /\ WF_vars(Accept(s)) /\ WF_vars(ReceiveHello(s)) /\ WF_vars(LookupReads(s))
                        /\ WF_vars(RejectToken(s)) /\ WF_vars(Register(s))
                        /\ WF_vars(HelloTimeout(s)) /\ WF_vars(ServerSeesClose(s))
  /\ WF_vars(\E here \in BOOLEAN : DisconnectDeleted(here))

Spec == Init /\ [][Next]_vars /\ Fairness

-----------------------------------------------------------------------------
(* Properties *)

(* Issue #364: the table never names a socket whose close event has run, even  *)
(* when its token lookup ended after that event.                              *)
NoZombie == registered # None => sock[registered].state \in {"open", "closing"}

(* A socket that may speak for the agent is the one the table names, or is     *)
(* already condemned: two daemons with one token never both serve.            *)
SoleSpeaker == \A s \in Sockets : sock[s].authed /\ sock[s].state = "open" => registered = s

(* client.ts: a daemon gives up for good only over 4005 or 4014; whatever the  *)
(* races of lookups and displacements, that means its row really is gone.      *)
StopsOnlyIfDeleted == \A d \in Daemons : stopped[d] => row = Deleted

(* An attempt whose path died before the open event: the heartbeat does not    *)
(* run yet and the WebSocket was made without a handshake timeout.             *)
Hung(d) == ws[d] # None /\ sock[ws[d]].end = "connecting" /\ ~sock[ws[d]].up

(* A daemon is not left holding a socket the server has let go of, unless it   *)
(* hangs in connecting.                                                        *)
Deaf(d) == ws[d] # None /\ sock[ws[d]].state = "closed"
NoDeafDaemon == \A d \in Daemons : Deaf(d) ~> ~Deaf(d) \/ Hung(d)

(* Once the network behaves, the agent comes back and stays reachable. *)
Online == /\ registered # None
          /\ sock[registered].state = "open" /\ sock[registered].up
          /\ sock[registered].end = "open"

BackOnline == <>[](Online \/ row = Deleted \/ \A d \in Daemons : Hung(d))

(* Neither side is left for good with an open connection the other has given   *)
(* up, whatever died under it once it was open: only an attempt that hangs in  *)
(* connecting, over which the code has no timer, keeps an agent away.          *)
ComesBack == NoDeafDaemon /\ BackOnline

=============================================================================
