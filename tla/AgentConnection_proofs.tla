-------------------------- MODULE AgentConnection_proofs --------------------------
(***************************************************************************)
(* One place in the table for one agent, for every number of daemons,      *)
(* sockets, price updates and upsets.  Nothing here needs fairness.  The   *)
(* invariant is about one socket at a time: what the table may say of it,  *)
(* what it may still do, and which close codes and answers it can hold.    *)
(* At the end the daemon itself, with the commands that start and stop it. *)
(***************************************************************************)
EXTENDS AgentConnection, Daemons, FiniteSetTheorems, TLAPS

USE DEF vars, rowVars, daemonVars

Fatal == {"4005", "4014"}

(* What holds of a socket and of the table about it. *)
Fits(s) ==
  /\ registered = s => /\ sock[s].state \in {"open", "closing"} /\ sock[s].lookup = "done"
                       /\ sock[s].price # Deleted
  /\ sock[s].state = "none" => sock[s].lookup = "no" /\ ~sock[s].authed
  /\ sock[s].authed /\ sock[s].state = "open" => registered = s
  /\ sock[s].code \in Fatal => row = Deleted
  /\ sock[s].lookup = "answered" /\ sock[s].price = Deleted => row = Deleted

(* The row is gone once a deletion has committed, and daemons stop for that only. *)
GoneIsGone ==
  /\ deleting # "no" => row = Deleted
  /\ \A d \in Daemons : stopped[d] => row = Deleted

IInv == TypeOK /\ GoneIsGone /\ \A s \in Sockets : Fits(s)

(* A connection is well formed whatever is written over its fields. *)
LEMMA Records ==
  ASSUME NEW c \in Connections
  PROVE  /\ \A b \in BOOLEAN : /\ [c EXCEPT !.hello = b] \in Connections
                               /\ [c EXCEPT !.up = b] \in Connections
                               /\ [c EXCEPT !.authed = b] \in Connections
         /\ \A l \in {"no", "asked", "answered", "done"} : [c EXCEPT !.lookup = l] \in Connections
         /\ \A p \in Prices \cup {Deleted, None} : [c EXCEPT !.price = p] \in Connections
         /\ \A e \in {"none", "connecting", "open"} : [c EXCEPT !.end = e] \in Connections
         /\ \A x \in {"open", "closing", "closed"} : [c EXCEPT !.state = x] \in Connections
         /\ Settle(c) \in Connections
         /\ \A k \in {"none", "4001", "4005", "4009", "4014"} : Closing(c, k) \in Connections
<1>1. /\ \A b \in BOOLEAN : /\ [c EXCEPT !.hello = b] \in Connections
                            /\ [c EXCEPT !.up = b] \in Connections
                            /\ [c EXCEPT !.authed = b] \in Connections
      /\ \A l \in {"no", "asked", "answered", "done"} : [c EXCEPT !.lookup = l] \in Connections
      /\ \A p \in Prices \cup {Deleted, None} : [c EXCEPT !.price = p] \in Connections
      /\ \A e \in {"none", "connecting", "open"} : [c EXCEPT !.end = e] \in Connections
      /\ \A x \in {"open", "closing", "closed"} : [c EXCEPT !.state = x] \in Connections
  BY DEF Connections
<1>2. Settle(c) \in Connections
  BY DEF Connections, Settle, NoConnection
<1>3. \A k \in {"none", "4001", "4005", "4009", "4014"} : Closing(c, k) \in Connections
  BY DEF Connections, Closing
<1> QED
  BY <1>1, <1>2, <1>3

(* A new socket is a connection, and so is one that nobody uses. *)
LEMMA NewOnes == NoConnection \in Connections /\ NewConnection \in Connections
BY DEF NoConnection, NewConnection, Connections

(* Forgetting a connection leaves what the invariant says of it. *)
LEMMA Settles ==
  ASSUME NEW c \in Connections
  PROVE  \/ Settle(c) = c
         \/ c.state \in {"none", "closed"} /\ Settle(c) = NoConnection
BY DEF Settle

(* A step that touches one socket and neither the row nor the table. *)
LEMMA OneSocket ==
  ASSUME IInv, NEW s \in Sockets, NEW c \in Connections,
         sock' = [sock EXCEPT ![s] = c] \/ sock' = [sock EXCEPT ![s] = Settle(c)],
         UNCHANGED <<row, registered>>,
         registered = s => /\ c.state \in {"open", "closing"} /\ c.lookup = "done"
                           /\ c.price # Deleted,
         c.state = "none" => c.lookup = "no" /\ ~c.authed,
         c.authed /\ c.state = "open" => registered = s,
         c.code \in Fatal => row = Deleted,
         c.lookup = "answered" /\ c.price = Deleted => row = Deleted
  PROVE  /\ sock' \in [Sockets -> Connections]
         /\ \A x \in Sockets : Fits(x)'
         /\ (registered # None => sock[registered].price # Deleted)'
<1>1. PICK e \in {c, Settle(c)} : sock' = [sock EXCEPT ![s] = e]
  OBVIOUS
<1>2. e \in Connections /\ (e = c \/ (c.state \in {"none", "closed"} /\ e = NoConnection))
  BY <1>1, Records, Settles
<1>3. sock' \in [Sockets -> Connections] /\ sock'[s] = e /\ \A x \in Sockets \ {s} : sock'[x] = sock[x]
  BY <1>1, <1>2 DEF IInv, TypeOK
<1>4. Fits(s)'
  <2>1. CASE e = c
    BY <1>3, <2>1 DEF Fits
  <2>2. CASE c.state \in {"none", "closed"} /\ e = NoConnection
    BY <1>3, <2>2, ConstantsOK DEF Fits, NoConnection, Fatal
  <2> QED
    BY <1>2, <2>1, <2>2
<1>5. \A x \in Sockets \ {s} : Fits(x)'
  BY <1>3 DEF IInv, Fits
<1>6. \A x \in Sockets : Fits(x)'
  BY <1>4, <1>5
<1>7. registered' \in Sockets \cup {None}
  BY DEF IInv, TypeOK
<1> QED
  BY <1>3, <1>6, <1>7 DEF Fits

(* Nothing is registered, asked or stopped at first. *)
THEOREM InitInvariant == Init => IInv
<1> SUFFICES ASSUME Init PROVE IInv
  OBVIOUS
<1>1. TypeOK
  BY ConstantsOK, NewOnes DEF Init, TypeOK, Prices
<1>2. \A s \in Sockets : Fits(s)
  BY ConstantsOK DEF Init, Fits, NoConnection, Fatal
<1> QED
  BY <1>1, <1>2 DEF Init, IInv, GoneIsGone

-----------------------------------------------------------------------------
(* The daemon. *)

(* A new connection takes an unused socket, which is not the registered one. *)
LEMMA ConnectKeeps ==
  ASSUME IInv, NEW d \in Daemons, Connect(d)
  PROVE  IInv'
<1>1. PICK s \in Sockets : /\ sock[s] = NoConnection
                           /\ ws' = [ws EXCEPT ![d] = s]
                           /\ sock' = [sock EXCEPT ![s] = NewConnection]
  BY DEF Connect
<1>2. registered # s
  BY <1>1 DEF IInv, Fits, NoConnection
<1>3. UNCHANGED <<rowVars, registered, probed, stopped, upsets>>
      /\ timer' = [timer EXCEPT ![d] = "off"]
  BY DEF Connect
<1>4. /\ sock' \in [Sockets -> Connections]
      /\ \A x \in Sockets : Fits(x)'
      /\ (registered # None => sock[registered].price # Deleted)'
  BY <1>1, <1>2, <1>3, NewOnes, OneSocket DEF NewConnection, NoConnection, Fatal
<1>5. TypeOK'
  BY <1>1, <1>3, <1>4 DEF IInv, TypeOK
<1> QED
  BY <1>3, <1>4, <1>5 DEF IInv, GoneIsGone

(* The card of a daemon, and what its own end of the socket does. *)
LEMMA HelloKeeps ==
  ASSUME IInv, NEW d \in Daemons, ProbeSettles(d) \/ SendHello(d) \/ Opens(d)
  PROVE  IInv'
<1>1. CASE ProbeSettles(d)
  <2>1. TypeOK'
    BY <1>1 DEF IInv, TypeOK, ProbeSettles
  <2>2. UNCHANGED <<rowVars, registered, sock, stopped>>
    BY <1>1 DEF ProbeSettles
  <2> QED
    BY <2>1, <2>2 DEF IInv, GoneIsGone, Fits
<1>2. CASE SendHello(d) \/ Opens(d)
  <2>1. PICK s \in Sockets : s = ws[d]
    BY <1>2 DEF SendHello, Opens, IInv, TypeOK
  <2>2. PICK c \in Connections :
          \/ c = [sock[s] EXCEPT !.hello = TRUE] /\ SendHello(d)
          \/ c = [sock[s] EXCEPT !.end = "open"] /\ Opens(d)
    BY <1>2, Records DEF IInv, TypeOK
  <2>3. sock' = [sock EXCEPT ![s] = c] /\ UNCHANGED <<rowVars, registered, daemonVars, upsets>>
    BY <2>1, <2>2 DEF SendHello, Opens
  <2>4. /\ c.state = sock[s].state /\ c.lookup = sock[s].lookup /\ c.price = sock[s].price
        /\ c.code = sock[s].code /\ c.authed = sock[s].authed
    BY <2>2 DEF Connections, IInv, TypeOK
  <2>5. Fits(s)
    BY DEF IInv
  <2>6. /\ sock' \in [Sockets -> Connections]
        /\ \A x \in Sockets : Fits(x)'
        /\ (registered # None => sock[registered].price # Deleted)'
    BY <2>3, <2>4, <2>5, OneSocket DEF Fits
  <2>7. TypeOK'
    BY <2>3, <2>6 DEF IInv, TypeOK
  <2> QED
    BY <2>3, <2>6, <2>7 DEF IInv, GoneIsGone
<1> QED
  BY <1>1, <1>2

(* The client's end closes: the server's half is as it was. *)
LEMMA EndCloses ==
  ASSUME IInv, NEW d \in Daemons, ws[d] # None, UNCHANGED <<rowVars, registered>>,
         Becomes(ws[d], [sock[ws[d]] EXCEPT !.end = "none"])
  PROVE  /\ sock' \in [Sockets -> Connections]
         /\ \A x \in Sockets : Fits(x)'
         /\ (registered # None => sock[registered].price # Deleted)'
<1>1. PICK s \in Sockets : s = ws[d]
  BY DEF IInv, TypeOK
<1> DEFINE c == [sock[s] EXCEPT !.end = "none"]
<1>2. sock[s] \in Connections /\ c \in Connections
  BY Records DEF IInv, TypeOK
<1>3. sock' = [sock EXCEPT ![s] = Settle(c)]
  BY <1>1 DEF Becomes
<1>4. /\ c.state = sock[s].state /\ c.lookup = sock[s].lookup /\ c.price = sock[s].price
      /\ c.code = sock[s].code /\ c.authed = sock[s].authed
  BY <1>2 DEF Connections
<1>5. Fits(s)
  BY DEF IInv
<1> HIDE DEF c
<1> QED
  BY <1>2, <1>3, <1>4, <1>5, OneSocket DEF Fits

(* A daemon loses its socket: with a fatal code only if the row is gone. *)
LEMMA LoseKeeps ==
  ASSUME IInv, NEW d \in Daemons, NEW code \in {"none", "4001", "4005", "4009", "4014"},
         ws[d] # None, LoseSocket(d, code), upsets' \in 0..MaxUpsets,
         code \in Fatal => row = Deleted
  PROVE  IInv'
<1>1. /\ Becomes(ws[d], [sock[ws[d]] EXCEPT !.end = "none"])
      /\ UNCHANGED <<rowVars, registered, probed>>
      /\ ws' = [ws EXCEPT ![d] = None]
      /\ stopped' = [stopped EXCEPT ![d] = code \in Fatal]
  BY DEF LoseSocket, Fatal
<1>2. /\ sock' \in [Sockets -> Connections]
      /\ \A x \in Sockets : Fits(x)'
      /\ (registered # None => sock[registered].price # Deleted)'
  BY <1>1, EndCloses
<1>3. timer' \in [Daemons -> {"off", "backoff", "collision"}]
  BY DEF LoseSocket, IInv, TypeOK
<1>4. stopped' \in [Daemons -> BOOLEAN] /\ \A x \in Daemons : stopped'[x] => row = Deleted
  BY <1>1 DEF IInv, TypeOK, GoneIsGone
<1>5. TypeOK'
  BY <1>1, <1>2, <1>3, <1>4 DEF IInv, TypeOK
<1> QED
  BY <1>1, <1>2, <1>4, <1>5 DEF IInv, GoneIsGone

(* The close event of the daemon, an attempt that fails, its heartbeat, its restart. *)
LEMMA DaemonEndKeeps ==
  ASSUME IInv, NEW d \in Daemons, ReceiveClose(d) \/ ConnectFails(d) \/ HeartbeatFails(d) \/ Restart(d)
  PROVE  IInv'
<1>0. ReceiveClose(d) \/ ConnectFails(d) \/ HeartbeatFails(d) => upsets' \in 0..MaxUpsets
  BY ConstantsOK DEF IInv, TypeOK, ReceiveClose, ConnectFails, HeartbeatFails, Upset
<1>1. CASE ReceiveClose(d)
  <2>1. PICK s \in Sockets : s = ws[d]
    BY <1>1 DEF ReceiveClose, IInv, TypeOK
  <2>2. sock[s].code \in {"none", "4001", "4005", "4009", "4014"}
    BY DEF IInv, TypeOK, Connections
  <2>3. sock[s].code \in Fatal => row = Deleted
    BY DEF IInv, Fits
  <2> QED
    BY <1>0, <1>1, <2>1, <2>2, <2>3, LoseKeeps DEF ReceiveClose
<1>2. CASE ConnectFails(d) \/ HeartbeatFails(d)
  <2>1. "none" \notin Fatal
    BY DEF Fatal
  <2>2. ws[d] # None /\ LoseSocket(d, "none")
    BY <1>2 DEF ConnectFails, HeartbeatFails
  <2> QED
    BY <1>0, <1>2, <2>1, <2>2, LoseKeeps
<1>3. CASE Restart(d)
  <2>1. /\ ws[d] # None /\ upsets < MaxUpsets /\ upsets' = upsets + 1
        /\ Becomes(ws[d], [sock[ws[d]] EXCEPT !.end = "none"])
        /\ ws' = [ws EXCEPT ![d] = None]
        /\ probed' = [probed EXCEPT ![d] = FALSE]
        /\ UNCHANGED <<rowVars, registered, timer, stopped>>
    BY <1>3 DEF Restart, Upset
  <2>2. /\ sock' \in [Sockets -> Connections]
        /\ \A x \in Sockets : Fits(x)'
        /\ (registered # None => sock[registered].price # Deleted)'
    BY <2>1, EndCloses
  <2>3. upsets' \in 0..MaxUpsets
    BY <2>1, ConstantsOK DEF IInv, TypeOK
  <2>4. TypeOK'
    BY <2>1, <2>2, <2>3 DEF IInv, TypeOK
  <2> QED
    BY <2>1, <2>2, <2>4 DEF IInv, GoneIsGone
<1> QED
  BY <1>1, <1>2, <1>3

-----------------------------------------------------------------------------
(* The server's end of a socket. *)

(* The path dies, an attempt is accepted, a hello received, a lookup reads the row. *)
LEMMA LookupKeeps ==
  ASSUME IInv, NEW s \in Sockets, LinkDies(s) \/ Accept(s) \/ ReceiveHello(s) \/ LookupReads(s)
  PROVE  IInv'
<1>1. PICK c \in Connections :
        /\ sock' = [sock EXCEPT ![s] = c]
        /\ c.code = sock[s].code /\ c.authed = sock[s].authed
        /\ \/ /\ c.state = sock[s].state
              /\ \/ c.lookup = sock[s].lookup /\ c.price = sock[s].price
                 \/ registered # s /\ c.state # "none" /\ c.lookup = "asked"
                 \/ registered # s /\ c.lookup = "answered" /\ c.price = row /\ c.state # "none"
           \/ /\ registered # s /\ c.state = "open" /\ ~c.authed
              /\ c.lookup = sock[s].lookup /\ c.price = sock[s].price
  <2>1. sock[s] \in Connections /\ row \in Prices \cup {Deleted}
    BY DEF IInv, TypeOK
  <2>2. registered = s => sock[s].lookup = "done"
    BY DEF IInv, Fits
  <2>3. CASE LinkDies(s)
    <3> DEFINE c == [sock[s] EXCEPT !.up = FALSE]
    <3>1. c \in Connections /\ sock' = [sock EXCEPT ![s] = c]
      BY <2>1, <2>3, Records DEF LinkDies
    <3>2. /\ c.state = sock[s].state /\ c.code = sock[s].code /\ c.authed = sock[s].authed
          /\ c.lookup = sock[s].lookup /\ c.price = sock[s].price
      BY <2>1 DEF Connections
    <3> QED
      BY <3>1, <3>2
  <2>6. CASE Accept(s)
    <3> DEFINE c == [sock[s] EXCEPT !.state = "open"]
    <3>1. c \in Connections /\ sock' = [sock EXCEPT ![s] = c]
      BY <2>1, <2>6, Records DEF Accept
    <3>2. /\ c.state = "open" /\ c.code = sock[s].code /\ c.authed = sock[s].authed
          /\ c.lookup = sock[s].lookup /\ c.price = sock[s].price
      BY <2>1 DEF Connections
    <3>3. registered # s /\ ~sock[s].authed
      BY <2>6 DEF Accept, IInv, Fits
    <3> QED
      BY <3>1, <3>2, <3>3
  <2>4. CASE ReceiveHello(s)
    <3> DEFINE c == [sock[s] EXCEPT !.lookup = "asked"]
    <3>1. c \in Connections /\ sock' = [sock EXCEPT ![s] = c]
      BY <2>1, <2>4, Records DEF ReceiveHello
    <3>2. /\ c.state = sock[s].state /\ c.code = sock[s].code /\ c.authed = sock[s].authed
          /\ c.lookup = "asked"
      BY <2>1 DEF Connections
    <3>3. registered # s /\ sock[s].state # "none"
      BY <2>2, <2>4 DEF ReceiveHello
    <3> QED
      BY <3>1, <3>2, <3>3
  <2>5. CASE LookupReads(s)
    <3> DEFINE b == [sock[s] EXCEPT !.lookup = "answered"]
               c == [b EXCEPT !.price = row]
    <3>1. b \in Connections /\ c \in Connections
      BY <2>1, Records
    <3>2. sock' = [sock EXCEPT ![s] = c]
      BY <2>1, <2>5 DEF LookupReads, IInv, TypeOK, Connections
    <3>3. /\ c.state = sock[s].state /\ c.code = sock[s].code /\ c.authed = sock[s].authed
          /\ c.lookup = "answered" /\ c.price = row
      BY <2>1 DEF Connections
    <3>4. registered # s /\ sock[s].state # "none"
      BY <2>2, <2>5 DEF LookupReads, IInv, Fits
    <3> QED
      BY <3>1, <3>2, <3>3, <3>4
  <2> QED
    BY <2>3, <2>4, <2>5, <2>6
<1>2. Fits(s)
  BY DEF IInv
<1>3. UNCHANGED <<rowVars, registered, daemonVars>>
  BY DEF LinkDies, Accept, ReceiveHello, LookupReads
<1>4. upsets' \in 0..MaxUpsets
  BY ConstantsOK DEF IInv, TypeOK, LinkDies, Accept, ReceiveHello, LookupReads, Upset
<1>5. /\ sock' \in [Sockets -> Connections]
      /\ \A x \in Sockets : Fits(x)'
      /\ (registered # None => sock[registered].price # Deleted)'
  BY <1>1, <1>2, <1>3, OneSocket DEF Fits
<1>6. TypeOK'
  BY <1>3, <1>4, <1>5 DEF IInv, TypeOK
<1> QED
  BY <1>3, <1>5, <1>6 DEF IInv, GoneIsGone

(* A token whose row is gone is rejected; a hello that does not come in time ends.  *)
LEMMA RejectKeeps ==
  ASSUME IInv, NEW s \in Sockets, RejectToken(s) \/ HelloTimeout(s)
  PROVE  IInv'
<1>0. sock[s] \in Connections /\ Fits(s)
  BY DEF IInv, TypeOK
<1>1. UNCHANGED <<rowVars, registered, daemonVars>>
  BY DEF RejectToken, HelloTimeout
<1>2. upsets' \in 0..MaxUpsets
  BY ConstantsOK DEF IInv, TypeOK, RejectToken, HelloTimeout, Upset
<1>3. /\ sock' \in [Sockets -> Connections]
      /\ \A x \in Sockets : Fits(x)'
      /\ (registered # None => sock[registered].price # Deleted)'
  <2>1. CASE RejectToken(s)
    <3>1. PICK b \in Connections : b = Looked(s)
      BY <1>0, Records DEF Looked
    <3>2. PICK c \in Connections : c = Closing(b, "4005")
      BY Records
    <3>3. sock' = [sock EXCEPT ![s] = Settle(c)]
      BY <2>1, <3>1, <3>2 DEF RejectToken, Becomes
    <3>4. /\ b.lookup = "done" /\ b.state = sock[s].state /\ b.authed = sock[s].authed
          /\ b.code = sock[s].code
      BY <1>0, <3>1 DEF Looked, Connections
    <3>5. /\ c.lookup = "done" /\ c.authed = b.authed
          /\ c.state # "open" /\ (c.state = "none" => b.state = "none")
          /\ (c.code = b.code \/ c.code = "4005")
      BY <3>2, <3>4 DEF Closing, Connections
    <3>6. row = Deleted /\ registered # s /\ sock[s].state # "none"
      BY <1>0, <2>1 DEF RejectToken, Fits
    <3> QED
      BY <1>1, <3>3, <3>4, <3>5, <3>6, OneSocket
  <2>2. CASE HelloTimeout(s)
    <3>1. PICK c \in Connections : c = Closing(sock[s], "4001")
      BY <1>0, Records
    <3>2. sock' = [sock EXCEPT ![s] = Settle(c)]
      BY <2>2, <3>1 DEF HelloTimeout, Becomes
    <3>3. /\ c.lookup = sock[s].lookup /\ c.price = sock[s].price
          /\ c.state = "closing" /\ c.code = "4001"
      BY <1>0, <2>2, <3>1 DEF HelloTimeout, Closing, Connections
    <3> QED
      BY <1>0, <1>1, <3>2, <3>3, OneSocket DEF Fits, Fatal
  <2> QED
    BY <2>1, <2>2
<1>4. TypeOK'
  BY <1>1, <1>2, <1>3 DEF IInv, TypeOK
<1> QED
  BY <1>1, <1>3, <1>4 DEF IInv, GoneIsGone

(* Registration displaces the registered socket and looks at its own only then. *)
LEMMA RegisterKeeps ==
  ASSUME IInv, NEW s \in Sockets, Register(s)
  PROVE  IInv'
<1>0. sock \in [Sockets -> Connections] /\ \A x \in Sockets : Fits(x)
  BY DEF IInv, TypeOK
<1>1. PICK b \in Connections :
        /\ b = [Looked(s) EXCEPT !.authed = (sock[s].state = "open")]
        /\ b.state = sock[s].state /\ b.lookup = "done" /\ b.price = sock[s].price
        /\ b.code = sock[s].code /\ b.authed = (sock[s].state = "open")
  <2>1. PICK a \in Connections : a = Looked(s)
    BY <1>0, Records DEF Looked
  <2>2. [a EXCEPT !.authed = (sock[s].state = "open")] \in Connections
    BY <2>1 DEF Connections
  <2>3. a.state = sock[s].state /\ a.lookup = "done" /\ a.price = sock[s].price
        /\ a.code = sock[s].code
    BY <1>0, <2>1 DEF Looked, Connections
  <2> QED
    BY <2>1, <2>2, <2>3 DEF Connections
<1>2. /\ sock[s].lookup = "answered" /\ sock[s].price # Deleted
      /\ registered' = IF sock[s].state = "closed" THEN None ELSE s
      /\ UNCHANGED <<rowVars, daemonVars, upsets>>
      /\ sock' = [x \in Sockets |->
                   IF x = s THEN Settle(b)
                   ELSE IF x = registered THEN Closing([sock[x] EXCEPT !.price = None], "4009")
                   ELSE sock[x]]
  BY <1>1 DEF Register, Displacing
<1>3. registered # s /\ sock[s].state # "none"
  BY <1>0, <1>2 DEF Fits
<1>4. \A x \in Sockets : LET c == Closing([sock[x] EXCEPT !.price = None], "4009") IN
        /\ c \in Connections /\ c.state # "open" /\ c.price = None /\ c.lookup = sock[x].lookup
        /\ (c.state = "none" => sock[x].state = "none") /\ c.code \in {sock[x].code, "4009"}
  <2> SUFFICES ASSUME NEW x \in Sockets
               PROVE  LET c == Closing([sock[x] EXCEPT !.price = None], "4009") IN
                        /\ c \in Connections /\ c.state # "open" /\ c.price = None
                        /\ c.lookup = sock[x].lookup /\ c.code \in {sock[x].code, "4009"}
                        /\ (c.state = "none" => sock[x].state = "none")
    OBVIOUS
  <2>1. PICK e \in Connections : e = [sock[x] EXCEPT !.price = None]
    BY <1>0, Records
  <2>2. /\ e.price = None /\ e.lookup = sock[x].lookup /\ e.code = sock[x].code
        /\ e.state = sock[x].state
    BY <1>0, <2>1 DEF Connections
  <2>3. Closing(e, "4009") \in Connections
    BY Records
  <2> QED
    BY <2>1, <2>2, <2>3 DEF Closing, Connections
<1>5. sock' \in [Sockets -> Connections]
  BY <1>0, <1>1, <1>2, <1>4, Records
<1>6. \A x \in Sockets \ {s} : Fits(x)'
  <2> SUFFICES ASSUME NEW x \in Sockets \ {s} PROVE Fits(x)'
    OBVIOUS
  <2>1. registered' # x /\ UNCHANGED row
    BY <1>2, ConstantsOK
  <2>2. CASE x = registered
    <3>1. PICK c \in Connections :
            /\ sock'[x] = c /\ c.state # "open" /\ c.price = None
            /\ c.code \in {sock[x].code, "4009"} /\ c.state # "none"
      BY <1>0, <1>2, <1>4, <2>2 DEF Fits
    <3> QED
      BY <1>0, <2>1, <3>1, ConstantsOK DEF Fits, Fatal
  <2>3. CASE x # registered
    BY <1>0, <1>2, <2>1, <2>3 DEF Fits
  <2> QED
    BY <2>2, <2>3
<1>7. Fits(s)'
  <2>1. sock'[s] = Settle(b)
    BY <1>2
  <2>2. CASE b.state = "closed"
    <3>1. registered' # s
      BY <1>1, <1>2, <2>2, ConstantsOK
    <3>2. CASE Settle(b) = b
      BY <1>0, <1>1, <1>2, <2>1, <2>2, <3>1, <3>2 DEF Fits
    <3>3. CASE Settle(b) = NoConnection
      BY <1>2, <2>1, <3>1, <3>3, ConstantsOK DEF Fits, NoConnection, Fatal
    <3> QED
      BY <3>2, <3>3, Settles
  <2>3. CASE b.state # "closed"
    <3>1. sock'[s] = b /\ registered' = s /\ b.state \in {"open", "closing"}
      BY <1>1, <1>2, <1>3, <2>1, <2>3, Settles DEF Connections
    <3> QED
      BY <1>0, <1>1, <1>2, <2>3, <3>1 DEF Fits
  <2> QED
    BY <2>2, <2>3
<1>8. (registered # None => sock[registered].price # Deleted)'
  BY <1>2, <1>7 DEF Fits
<1>9. TypeOK'
  BY <1>2, <1>5, <1>8 DEF IInv, TypeOK
<1> QED
  BY <1>2, <1>6, <1>7, <1>9 DEF IInv, GoneIsGone

(* The close event takes the socket out of the table, if it is there. *)
LEMMA CloseKeeps ==
  ASSUME IInv, NEW s \in Sockets, ServerSeesClose(s) \/ ServerSeesDeath(s)
  PROVE  IInv'
<1>0. sock \in [Sockets -> Connections] /\ \A x \in Sockets : Fits(x)
  BY DEF IInv, TypeOK
<1>1. PICK c \in Connections :
        /\ sock' = [sock EXCEPT ![s] = Settle(c)]
        /\ c.state = "closed" /\ c.code = sock[s].code /\ c.lookup = sock[s].lookup
        /\ c.price = sock[s].price \/ c.price = None
  <2> DEFINE p == IF registered = s THEN None ELSE sock[s].price
  <2>1. PICK b \in Connections : b = [sock[s] EXCEPT !.state = "closed"]
    BY <1>0, Records
  <2>2. p \in Prices \cup {Deleted, None}
    BY <1>0 DEF Connections
  <2>3. PICK c \in Connections : c = [b EXCEPT !.price = p]
    BY <2>2, Records
  <2>4. c = [sock[s] EXCEPT !.state = "closed", !.price = IF registered = s THEN None ELSE @]
    BY <1>0, <2>1, <2>3 DEF Connections
  <2>5. sock' = [sock EXCEPT ![s] = Settle(c)]
    BY <2>4 DEF ServerSeesClose, ServerSeesDeath, SocketCloses, Becomes
  <2>6. /\ c.state = "closed" /\ c.code = sock[s].code /\ c.lookup = sock[s].lookup
        /\ c.price = p
    BY <1>0, <2>1, <2>3 DEF Connections
  <2> QED
    BY <2>5, <2>6
<1>2. /\ registered' = IF registered = s THEN None ELSE registered
      /\ UNCHANGED <<rowVars, daemonVars, upsets>>
  BY DEF ServerSeesClose, ServerSeesDeath, SocketCloses
<1>3. sock' \in [Sockets -> Connections]
  BY <1>0, <1>1, Records
<1>4. Fits(s)'
  <2>1. registered' # s /\ sock'[s] = Settle(c)
    BY <1>0, <1>1, <1>2, ConstantsOK
  <2> QED
    BY <1>0, <1>1, <1>2, <2>1, Settles, ConstantsOK DEF Fits, NoConnection, Fatal
<1>5. \A x \in Sockets \ {s} : Fits(x)'
  BY <1>0, <1>1, <1>2, ConstantsOK DEF Fits
<1>6. registered' \in Sockets \cup {None}
  BY <1>2 DEF IInv, TypeOK
<1>7. (registered # None => sock[registered].price # Deleted)'
  BY <1>4, <1>5, <1>6 DEF Fits
<1>8. TypeOK'
  BY <1>2, <1>3, <1>6, <1>7 DEF IInv, TypeOK
<1> QED
  BY <1>2, <1>4, <1>5, <1>8 DEF IInv, GoneIsGone

-----------------------------------------------------------------------------
(* The row. *)

(* Patching the price of the registered connection. *)
LEMMA PriceKeeps ==
  ASSUME IInv, NEW p \in Prices \cup {None}, updateX402Pricing(p),
         UNCHANGED <<row, registered>>
  PROVE  /\ sock' \in [Sockets -> Connections]
         /\ \A x \in Sockets : Fits(x)'
         /\ (registered # None => sock[registered].price # Deleted)'
<1>0. sock \in [Sockets -> Connections] /\ \A x \in Sockets : Fits(x)
  BY DEF IInv, TypeOK
<1>1. CASE registered = None
  <2>1. sock' = sock
    BY <1>1 DEF updateX402Pricing
  <2> QED
    BY <1>0, <1>1, <2>1 DEF Fits
<1>2. CASE registered # None
  <2>1. PICK s \in Sockets : s = registered
    BY <1>2 DEF IInv, TypeOK
  <2>2. PICK c \in Connections : c = [sock[s] EXCEPT !.price = p]
    BY <1>0, Records
  <2>3. sock' = [sock EXCEPT ![s] = c]
    BY <1>2, <2>1, <2>2 DEF updateX402Pricing
  <2>4. /\ c.state = sock[s].state /\ c.code = sock[s].code /\ c.authed = sock[s].authed
        /\ c.lookup = sock[s].lookup /\ c.price = p
    BY <1>0, <2>2 DEF Connections
  <2>5. p # Deleted
    BY ConstantsOK DEF Prices
  <2>6. Fits(s)
    BY <1>0
  <2> QED
    BY <2>1, <2>3, <2>4, <2>5, <2>6, OneSocket DEF Fits
<1> QED
  BY <1>1, <1>2

(* An update and what is refreshed after it. *)
LEMMA UpdateKeeps ==
  ASSUME IInv, NEW w \in Updates,
         \/ WriteRow(w) \/ RefreshReads(w) \/ RefreshApplies(w)
         \/ \E here \in BOOLEAN : Announce(w, here)
  PROVE  IInv'
<1>0. w \in Prices /\ w # Deleted
  BY ConstantsOK DEF Updates, Prices
<1>1. CASE WriteRow(w)
  <2>1. row # Deleted /\ row' = w /\ UNCHANGED <<deleting, registered, sock, stopped>>
    BY <1>1 DEF WriteRow
  <2>2. TypeOK'
    BY <1>0, <1>1 DEF IInv, TypeOK, WriteRow
  <2>3. \A x \in Sockets : Fits(x)'
    BY <2>1 DEF IInv, Fits
  <2> QED
    BY <2>1, <2>2, <2>3 DEF IInv, GoneIsGone
<1>2. CASE RefreshReads(w)
  <2>1. UNCHANGED <<row, deleting, registered, sock, stopped>>
    BY <1>2 DEF RefreshReads
  <2>2. TypeOK'
    BY <1>2 DEF IInv, TypeOK, RefreshReads
  <2> QED
    BY <2>1, <2>2 DEF IInv, GoneIsGone, Fits
<1>3. CASE RefreshApplies(w)
  <2>1. UNCHANGED <<row, deleting, write, registered, daemonVars, upsets>>
        /\ refresh' = [refresh EXCEPT ![w] = "no"] /\ answer' = [answer EXCEPT ![w] = None]
    BY <1>3 DEF RefreshApplies
  <2>2. /\ sock' \in [Sockets -> Connections]
        /\ \A x \in Sockets : Fits(x)'
        /\ (registered # None => sock[registered].price # Deleted)'
    <3>1. CASE answer[w] = Deleted
      BY <1>3, <2>1, <3>1 DEF RefreshApplies, IInv, TypeOK, Fits
    <3>2. CASE answer[w] # Deleted
      <4>1. answer[w] \in Prices \cup {None} /\ updateX402Pricing(answer[w])
        BY <1>3, <3>2 DEF RefreshApplies, IInv, TypeOK
      <4> QED
        BY <2>1, <4>1, PriceKeeps
    <3> QED
      BY <3>1, <3>2
  <2>3. TypeOK'
    BY <2>1, <2>2 DEF IInv, TypeOK
  <2> QED
    BY <2>1, <2>2, <2>3 DEF IInv, GoneIsGone
<1>4. CASE \E here \in BOOLEAN : Announce(w, here)
  <2>1. PICK here \in BOOLEAN : Announce(w, here)
    BY <1>4
  <2>2. /\ UNCHANGED <<row, deleting, answer, registered, daemonVars, upsets>>
        /\ write' = [write EXCEPT ![w] = "done"]
        /\ refresh' \in [Updates -> {"no", "asked", "answered"}]
    BY <2>1 DEF Announce, IInv, TypeOK
  <2>3. /\ sock' \in [Sockets -> Connections]
        /\ \A x \in Sockets : Fits(x)'
        /\ (registered # None => sock[registered].price # Deleted)'
    <3>1. CASE ~here
      BY <2>1, <2>2, <3>1 DEF Announce, IInv, TypeOK, Fits
    <3>2. CASE here
      BY <1>0, <2>1, <2>2, <3>2, PriceKeeps DEF Announce
    <3> QED
      BY <3>1, <3>2
  <2>4. TypeOK'
    BY <2>2, <2>3 DEF IInv, TypeOK
  <2> QED
    BY <2>2, <2>3, <2>4 DEF IInv, GoneIsGone
<1> QED
  BY <1>1, <1>2, <1>3, <1>4

(* The deletion and the close that may follow it. *)
LEMMA DeleteKeeps ==
  ASSUME IInv, DeleteRow \/ \E here \in BOOLEAN : DisconnectDeleted(here)
  PROVE  IInv'
<1>1. CASE DeleteRow
  <2>1. row' = Deleted /\ UNCHANGED <<registered, sock, stopped>>
    BY <1>1 DEF DeleteRow
  <2>2. TypeOK'
    BY <1>1 DEF IInv, TypeOK, DeleteRow
  <2> QED
    BY <2>1, <2>2 DEF IInv, GoneIsGone, Fits
<1>2. CASE \E here \in BOOLEAN : DisconnectDeleted(here)
  <2>1. PICK here \in BOOLEAN : DisconnectDeleted(here)
    BY <1>2
  <2>2. /\ UNCHANGED <<row, write, refresh, answer, registered, daemonVars, upsets>>
        /\ deleting' = "done" /\ row = Deleted
    BY <2>1 DEF DisconnectDeleted, IInv, GoneIsGone
  <2>3. /\ sock' \in [Sockets -> Connections]
        /\ \A x \in Sockets : Fits(x)'
        /\ (registered # None => sock[registered].price # Deleted)'
    <3>1. CASE ~here \/ registered = None
      BY <2>1, <2>2, <3>1 DEF DisconnectDeleted, IInv, TypeOK, Fits
    <3>2. CASE here /\ registered # None
      <4>1. PICK s \in Sockets : s = registered
        BY <3>2 DEF IInv, TypeOK
      <4>2. sock[s] \in Connections /\ Fits(s)
        BY DEF IInv, TypeOK
      <4>3. PICK c \in Connections : c = Closing(sock[s], "4014")
        BY <4>2, Records
      <4>4. sock' = [sock EXCEPT ![s] = c]
        BY <2>1, <3>2, <4>1, <4>3 DEF DisconnectDeleted, IInv, TypeOK
      <4>5. /\ c.state # "open" /\ (c.state = "closed" => sock[s].state = "closed")
            /\ c.lookup = sock[s].lookup /\ c.price = sock[s].price
        BY <4>2, <4>3 DEF Closing, Connections
      <4>6. c.state = "closing" \/ c.state = sock[s].state
        BY <4>2, <4>3 DEF Closing, Connections
      <4>7. c.state \in {"open", "closing"} /\ registered = s
        BY <3>2, <4>1, <4>2, <4>6 DEF Fits
      <4> QED
        BY <2>2, <4>2, <4>3, <4>4, <4>5, <4>7, OneSocket DEF Fits
    <3> QED
      BY <3>1, <3>2
  <2>4. TypeOK'
    BY <2>2, <2>3 DEF IInv, TypeOK
  <2> QED
    BY <2>2, <2>3, <2>4 DEF IInv, GoneIsGone
<1> QED
  BY <1>1, <1>2

-----------------------------------------------------------------------------
(* IInv is inductive. *)
THEOREM StepInvariant == IInv /\ [Next]_vars => IInv'
<1> SUFFICES ASSUME IInv, [Next]_vars PROVE IInv'
  OBVIOUS
<1>1. CASE DaemonStep
  BY <1>1, ConnectKeeps, HelloKeeps, DaemonEndKeeps DEF DaemonStep
<1>2. CASE SocketStep
  BY <1>2, LookupKeeps, RejectKeeps, RegisterKeeps, CloseKeeps DEF SocketStep
<1>3. CASE RowStep
  BY <1>3, UpdateKeeps, DeleteKeeps DEF RowStep
<1>4. CASE UNCHANGED vars
  BY <1>4 DEF IInv, TypeOK, GoneIsGone, Fits
<1> QED
  BY <1>1, <1>2, <1>3, <1>4 DEF Next

(* Every reachable state satisfies the invariant. *)
THEOREM Safety == Spec => []IInv
<1>1. Init => IInv
  BY InitInvariant
<1>2. IInv /\ [Next]_vars => IInv'
  BY StepInvariant
<1> QED
  BY <1>1, <1>2, PTL DEF Spec

(* The variables keep their types. *)
THEOREM TypeCorrect == Spec => []TypeOK
<1>1. IInv => TypeOK
  BY DEF IInv
<1> QED
  BY <1>1, Safety, PTL

(* Issue #364: a lookup that ends after its socket leaves nobody in the table. *)
THEOREM TableNamesTheLiving == Spec => []NoZombie
<1>1. IInv => NoZombie
  BY DEF IInv, TypeOK, Fits, NoZombie
<1> QED
  BY <1>1, Safety, PTL

(* Whoever may speak for the agent is the one the table names. *)
THEOREM OneSpeaks == Spec => []SoleSpeaker
<1>1. IInv => SoleSpeaker
  BY DEF IInv, Fits, SoleSpeaker
<1> QED
  BY <1>1, Safety, PTL

(* A daemon that gave up for good is one whose row is gone. *)
THEOREM OnlyTheDeletedStop == Spec => []StopsOnlyIfDeleted
<1>1. IInv => StopsOnlyIfDeleted
  BY DEF IInv, GoneIsGone, StopsOnlyIfDeleted
<1> QED
  BY <1>1, Safety, PTL

-----------------------------------------------------------------------------
(***************************************************************************)
(* The daemon and its commands, for every number of starts and stops.  A   *)
(* process on record has the id of its record and no other, and none comes *)
(* back; and where commands come one after the other, whoever starts has   *)
(* made sure that no daemon runs, and a daemon that runs has the file.     *)
(***************************************************************************)
Processes == [kind : {"none", "launcher", "daemon"} \cup Strangers, of : Starters \cup {NoOne}]
PidRecords == [pid : Pids \cup {NoOne}, id : Processes, budget : BOOLEAN]
PidFiles == [there : BOOLEAN, by : Starters \cup {NoOne}, rec : PidRecords]
StarterStates == [pc : {"idle", "open", "look", "unlink", "write", "spawn", "record", "grace", "release",
                        "done", "refused", "failed", "killed"},
                  pid : Pids \cup {NoOne}, child : Pids \cup {NoOne}, budget : BOOLEAN, attempt : Nat]
DaemonStates == [st : {"none", "booting", "serving", "cleaning", "stuck", "gone"}, cleaned : BOOLEAN,
                 fatal : BOOLEAN, end : {"none", "ok", "fatal", "crashed", "unconfirmed", "killed"}]
StopStates == [pc : {"idle", "term", "poll", "confirm", "clear", "done"}, rec : PidRecords,
               outcome : {"none", "not-running", "cleanup-unconfirmed", "already-gone", "stopped", "killed"}]

DaemonTypes ==
  /\ live \in [Pids -> Processes] /\ file \in PidFiles
  /\ starter \in [Starters -> StarterStates] /\ daemon \in [Starters -> DaemonStates]
  /\ stopper \in [Stoppers -> StopStates]

Spawned(s) == starter[s].pc \notin {"idle", "open", "look", "unlink", "write", "spawn"}

(* An id is had by a launcher at work, by a daemon that is up, or by a stranger. *)
IdHolds(p) ==
  /\ live[p].kind = "launcher" =>
       live[p].of \in Starters /\ Daemon!Launching(live[p].of) /\ starter[live[p].of].pid = p
  /\ live[p].kind = "daemon" =>
       live[p].of \in Starters /\ Daemon!Up(live[p].of) /\ starter[live[p].of].child = p
  /\ live[p].kind \notin {"launcher", "daemon"} => live[p].of = NoOne

StarterHolds(s) ==
  /\ Daemon!Launching(s) =>
       starter[s].pid \in Pids /\ live[starter[s].pid] = Daemon!Proc("launcher", s)
  /\ Daemon!Up(s) =>
       /\ starter[s].child \in Pids /\ live[starter[s].child] = Daemon!Proc("daemon", s)
       /\ daemon[s].end = "none" /\ ~daemon[s].cleaned /\ Spawned(s)
  /\ starter[s].pc \in {"record", "grace"} => starter[s].child \in Pids
  /\ ~Spawned(s) => daemon[s] = Daemon!NoDaemon
  /\ daemon[s].fatal => daemon[s].end # "ok"

(* What the file and a stop can have on record. *)
OnRecord ==
  {Daemon!NoRecord} \cup
  {r \in PidRecords :
     /\ r.pid \in Pids /\ r.id.of \in Starters /\ r.id.kind \in {"launcher", "daemon"}
     /\ starter[r.id.of].pc # "idle" /\ r.budget = starter[r.id.of].budget
     /\ r.id.kind = "launcher" => r.pid = starter[r.id.of].pid
     /\ r.id.kind = "daemon" => Spawned(r.id.of) /\ r.pid = starter[r.id.of].child}

StopHolds(t) ==
  /\ stopper[t].rec \in OnRecord /\ (stopper[t].pc = "idle" => stopper[t].rec = Daemon!NoRecord)
  /\ stopper[t].pc \in {"term", "poll", "confirm"} => stopper[t].rec # Daemon!NoRecord
  /\ stopper[t].pc = "term" => live[stopper[t].rec.pid] \in {stopper[t].rec.id, Daemon!NoProc}
  /\ stopper[t].pc \in {"confirm", "clear", "done"} /\ stopper[t].rec # Daemon!NoRecord =>
       \A p \in Pids : live[p] # stopper[t].rec.id

Anyhow ==
  /\ DaemonTypes
  /\ \A p \in Pids : IdHolds(p)
  /\ \A s \in Starters : StarterHolds(s)
  /\ file.rec \in OnRecord /\ (~file.there => file = Daemon!NoFile)
  /\ \A t \in Stoppers : StopHolds(t)
  /\ Daemon!TermIsMeant

(* One command at a time: what it knows of the daemons. *)
FileOf(s) == [there |-> TRUE, by |-> NoOne, rec |-> Daemon!ChildRecord(s)]
NoneUp == \A v \in Starters : ~Daemon!Up(v)

LaunchKnows(s) ==
  /\ Daemon!Up(s) /\ (starter[s].pc = "grace" \/ ~Daemon!Launching(s)) => file = FileOf(s)
  /\ starter[s].pc \in {"unlink", "write", "spawn", "release"} => NoneUp
  /\ starter[s].pc \in {"record", "grace"} => \A v \in Starters : Daemon!Up(v) => v = s

StopKnows(t) ==
  LET x == stopper[t] IN
  /\ x.pc \in {"term", "poll", "confirm"} =>
       /\ x.rec.id.kind = "daemon"
       /\ file.rec = x.rec \/ (file.rec = Daemon!NoRecord /\ daemon[x.rec.id.of].cleaned)
  /\ x.pc \in {"confirm", "clear"} => NoneUp
  /\ x.pc \in {"clear", "done"} /\ x.rec.budget /\ x.rec.id.kind = "daemon"
     /\ x.outcome # "cleanup-unconfirmed" => daemon[x.rec.id.of].cleaned

InTurn ==
  /\ \A s, v \in Starters : Daemon!Launching(s) /\ Daemon!Launching(v) => s = v
  /\ \A t, u \in Stoppers : Daemon!Stopping(t) /\ Daemon!Stopping(u) => t = u
  /\ \A s \in Starters, t \in Stoppers : ~(Daemon!Launching(s) /\ Daemon!Stopping(t))
  /\ \A s \in Starters : LaunchKnows(s)
  /\ \A t \in Stoppers : StopKnows(t)

DaemonInv == Anyhow /\ (may = {} => InTurn)

(* What is fixed: the platform tells when a process began. *)
Told == Daemon!ConstantsOK /\ StartIds

LEMMA DaemonStarts ==
  ASSUME Told, Daemon!Init
  PROVE  DaemonInv
<1> USE DEF Daemon!Init, Daemon!NoProc, Daemon!Proc, Daemon!NoFile, Daemon!NoRecord, Daemon!Idle, Daemon!NoDaemon,
        Daemon!NoStop
<1>1. DaemonTypes
  BY DEF DaemonTypes, Processes, PidFiles, PidRecords, StarterStates, DaemonStates, StopStates
<1>2. \A s \in Starters : ~Daemon!Launching(s) /\ ~Daemon!Up(s) /\ starter[s].pc = "idle"
                          /\ daemon[s] = Daemon!NoDaemon
  BY DEF Daemon!Launching, Daemon!Up
<1>3. \A t \in Stoppers : ~Daemon!Stopping(t) /\ stopper[t] = Daemon!NoStop
  BY DEF Daemon!Stopping
<1>4. Anyhow
  BY <1>1, <1>2, <1>3 DEF Anyhow, IdHolds, StarterHolds, StopHolds, OnRecord, Spawned, Daemon!TermIsMeant
<1>5. InTurn
  BY <1>2, <1>3 DEF InTurn, LaunchKnows, StopKnows
<1> QED
  BY <1>4, <1>5 DEF DaemonInv

(* A launcher that goes on keeps what was recorded of it.                     *)
LEMMA RecordsStay ==
  ASSUME \A s \in Starters : starter[s].pc # "idle" =>
           /\ starter'[s].pc # "idle" /\ starter'[s].pid = starter[s].pid
           /\ starter'[s].budget = starter[s].budget,
         \A s \in Starters : Spawned(s) => Spawned(s)' /\ starter'[s].child = starter[s].child
  PROVE  OnRecord \subseteq OnRecord'
BY DEF OnRecord

(* A process on record has the id of its record and no other. *)
LEMMA RecordedIs ==
  ASSUME Anyhow, NEW r \in OnRecord, r # Daemon!NoRecord
  PROVE  /\ r.pid \in Pids /\ r.id.of \in Starters /\ r.id.kind \in {"launcher", "daemon"}
         /\ r.id # Daemon!NoProc /\ \A p \in Pids : live[p] = r.id => p = r.pid
<1>1. /\ r.pid \in Pids /\ r.id.of \in Starters /\ r.id.kind \in {"launcher", "daemon"}
      /\ r.id.kind = "launcher" => r.pid = starter[r.id.of].pid
      /\ r.id.kind = "daemon" => r.pid = starter[r.id.of].child
  BY DEF OnRecord
<1>2. \A p \in Pids : live[p] = r.id => p = r.pid
  BY <1>1 DEF Anyhow, IdHolds
<1> QED
  BY <1>1, <1>2 DEF Daemon!NoProc, Daemon!Proc

(* Such as no record has. *)
Fresh(x) == \A r \in OnRecord : r # Daemon!NoRecord => r.id # x

(* The id of a stop that judges is had by the same process, or by none any    *)
(* more; what a stop has waited for does not come back.                       *)
LEMMA StopsStay ==
  ASSUME Told, Anyhow, OnRecord \subseteq OnRecord',
         \A p \in Pids : live'[p] \in {live[p], Daemon!NoProc} \/ (p \in Daemon!Free /\ Fresh(live'[p]))
  PROVE  \A t \in Stoppers : stopper'[t] = stopper[t] => StopHolds(t)'
<1> SUFFICES ASSUME NEW t \in Stoppers, stopper'[t] = stopper[t] PROVE StopHolds(t)'
  OBVIOUS
<1>1. StopHolds(t)
  BY DEF Anyhow
<1>2. ASSUME stopper[t].pc = "term"
      PROVE  live'[stopper[t].rec.pid] \in {stopper[t].rec.id, Daemon!NoProc}
  <2>1. stopper[t].rec.pid \in Pids /\ live[stopper[t].rec.pid] \in {stopper[t].rec.id, Daemon!NoProc}
    BY <1>1, <1>2 DEF StopHolds, OnRecord
  <2>2. stopper[t].rec.pid \notin Daemon!Free
    BY <1>2 DEF Daemon!Free, Daemon!Watched
  <2> QED
    BY <2>1, <2>2
<1>3. ASSUME stopper[t].pc \in {"confirm", "clear", "done"}, stopper[t].rec # Daemon!NoRecord, NEW p \in Pids
      PROVE  live'[p] # stopper[t].rec.id
  <2>1. stopper[t].rec \in OnRecord /\ live[p] # stopper[t].rec.id
    BY <1>1, <1>3 DEF StopHolds
  <2>2. stopper[t].rec.id # Daemon!NoProc
    BY <1>3, <2>1, RecordedIs
  <2> QED
    BY <1>3, <2>1, <2>2 DEF Fresh
<1> QED
  BY <1>1, <1>2, <1>3 DEF StopHolds

LEMMA LauncherIs ==
  ASSUME DaemonTypes, NEW s \in Starters, NEW x \in StarterStates, starter' = [starter EXCEPT ![s] = x]
  PROVE  /\ starter' \in [Starters -> StarterStates] /\ starter'[s] = x
         /\ \A v \in Starters : v # s => starter'[v] = starter[v]
BY DEF DaemonTypes

(* The file that a step leaves, apart from what is recorded in it. *)
FileFits == file' \in PidFiles /\ file'.rec \in OnRecord' /\ (~file'.there => file' = Daemon!NoFile)

(* A launcher takes a step and stays. *)
LEMMA LauncherMoves ==
  ASSUME Told, Anyhow, NEW s \in Starters, NEW x \in StarterStates,
         starter' = [starter EXCEPT ![s] = x],
         Daemon!Launching(s), x.pc \in {"open", "look", "unlink", "write", "spawn", "grace", "release"},
         x.pid = starter[s].pid, x.child = starter[s].child, x.budget = starter[s].budget,
         Spawned(s) => x.pc \in {"grace", "release"}, x.pc = "grace" => Spawned(s) /\ x.child \in Pids,
         UNCHANGED <<live, daemon, stopper, signalled>>
  PROVE  /\ OnRecord \subseteq OnRecord' /\ (FileFits => Anyhow')
         /\ starter'[s] = x /\ Daemon!Launching(s)' /\ (\A v \in Starters : v # s => starter'[v] = starter[v])
         /\ \A v \in Starters : Daemon!Launching(v)' <=> Daemon!Launching(v)
<1>1. /\ starter' \in [Starters -> StarterStates] /\ starter'[s] = x
      /\ \A v \in Starters : v # s => starter'[v] = starter[v]
  BY LauncherIs DEF Anyhow
<1>2. OnRecord \subseteq OnRecord'
  <2>1. starter[s].pc # "idle" /\ (Spawned(s) => Spawned(s)')
    BY <1>1 DEF Daemon!Launching, Spawned
  <2> QED
    BY <1>1, <2>1, RecordsStay DEF Spawned
<1>3. \A v \in Starters : (Daemon!Launching(v)' <=> Daemon!Launching(v)) /\ (Daemon!Up(v)' <=> Daemon!Up(v))
                          /\ starter'[v].pid = starter[v].pid /\ starter'[v].child = starter[v].child
  BY <1>1 DEF Daemon!Launching, Daemon!Up
<1>4. \A p \in Pids : IdHolds(p)'
  BY <1>3 DEF Anyhow, IdHolds
<1>5. \A v \in Starters : StarterHolds(v)'
  <2> SUFFICES ASSUME NEW v \in Starters PROVE StarterHolds(v)'
    OBVIOUS
  <2>1. StarterHolds(v)
    BY DEF Anyhow
  <2>2. CASE v = s
    BY <1>1, <1>3, <2>1, <2>2 DEF StarterHolds, Spawned
  <2>3. CASE v # s
    BY <1>1, <1>3, <2>1, <2>3 DEF StarterHolds, Spawned
  <2> QED
    BY <2>2, <2>3
<1>6. \A t \in Stoppers : StopHolds(t)'
  BY <1>2, StopsStay
<1>7. FileFits => DaemonTypes'
  BY <1>1 DEF FileFits, DaemonTypes, Anyhow
<1>8. Daemon!TermIsMeant'
  BY DEF Anyhow, Daemon!TermIsMeant
<1> QED
  BY <1>1, <1>2, <1>3, <1>4, <1>5, <1>6, <1>7, <1>8 DEF Anyhow, FileFits

(* What a step leaves of the processes, where no id is handed out. *)
LivesFit ==
  /\ live' \in [Pids -> Processes] /\ starter' \in [Starters -> StarterStates]
  /\ daemon' \in [Starters -> DaemonStates]
  /\ (\A p \in Pids : IdHolds(p)') /\ (\A v \in Starters : StarterHolds(v)')
  /\ OnRecord \subseteq OnRecord' /\ \A p \in Pids : live'[p] \in {live[p], Daemon!NoProc}

LEMMA AnyhowStays ==
  ASSUME Told, Anyhow, LivesFit, FileFits, UNCHANGED <<stopper, signalled>>
  PROVE  Anyhow'
<1>1. \A t \in Stoppers : StopHolds(t)'
  BY StopsStay DEF LivesFit
<1>2. DaemonTypes'
  BY DEF Anyhow, LivesFit, FileFits, DaemonTypes
<1> QED
  BY <1>1, <1>2 DEF Anyhow, LivesFit, FileFits, Daemon!TermIsMeant

(* A stop takes a step. *)
LEMMA StopMoves ==
  ASSUME Told, Anyhow, LivesFit, FileFits, NEW t \in Stoppers, NEW x \in StopStates,
         stopper' = [stopper EXCEPT ![t] = x], Daemon!TermIsMeant',
         x.rec \in OnRecord, x.pc # "idle",
         x.pc \in {"term", "poll", "confirm"} => x.rec # Daemon!NoRecord,
         x.pc = "term" => live'[x.rec.pid] \in {x.rec.id, Daemon!NoProc},
         x.pc \in {"confirm", "clear", "done"} /\ x.rec # Daemon!NoRecord => \A p \in Pids : live'[p] # x.rec.id
  PROVE  Anyhow' /\ stopper'[t] = x /\ \A u \in Stoppers : u # t => stopper'[u] = stopper[u]
<1>1. /\ stopper' \in [Stoppers -> StopStates] /\ stopper'[t] = x
      /\ \A u \in Stoppers : u # t => stopper'[u] = stopper[u]
  BY DEF Anyhow, DaemonTypes
<1>2. DaemonTypes'
  BY <1>1 DEF Anyhow, LivesFit, FileFits, DaemonTypes
<1>3. \A u \in Stoppers : u # t => StopHolds(u)'
  BY <1>1, StopsStay DEF LivesFit
<1>4. StopHolds(t)'
  BY <1>1 DEF StopHolds, LivesFit
<1> QED
  BY <1>1, <1>2, <1>3, <1>4 DEF Anyhow, LivesFit, FileFits

(* A launcher ends. *)
LEMMA LauncherExits ==
  ASSUME Told, Anyhow, NEW s \in Starters, NEW pc \in {"done", "refused", "failed", "killed"},
         Daemon!Launching(s), Daemon!Exits(s, pc), UNCHANGED daemon
  PROVE  /\ LivesFit
         /\ starter' = [starter EXCEPT ![s].pc = pc]
         /\ \A v \in Starters : Daemon!Launching(v)' <=> Daemon!Launching(v) /\ v # s
<1>1. PICK x \in StarterStates : /\ x = [starter[s] EXCEPT !.pc = pc]
                                 /\ starter' = [starter EXCEPT ![s] = x]
  BY DEF Daemon!Exits, Daemon!Go, Anyhow, DaemonTypes, StarterStates
<1>2. x.pc = pc /\ x.pid = starter[s].pid /\ x.child = starter[s].child /\ x.budget = starter[s].budget
  BY <1>1 DEF Anyhow, DaemonTypes, StarterStates
<1>3. /\ starter' \in [Starters -> StarterStates] /\ starter'[s] = x
      /\ \A v \in Starters : v # s => starter'[v] = starter[v]
  BY <1>1, LauncherIs DEF Anyhow
<1>4. OnRecord \subseteq OnRecord'
  <2>1. starter[s].pc # "idle" /\ Spawned(s)'
    BY <1>2, <1>3 DEF Daemon!Launching, Spawned
  <2> QED
    BY <1>2, <1>3, <2>1, RecordsStay DEF Spawned
<1>5. \A v \in Starters : (Daemon!Launching(v)' <=> Daemon!Launching(v) /\ v # s) /\ (Daemon!Up(v)' <=> Daemon!Up(v))
                          /\ starter'[v].pid = starter[v].pid /\ starter'[v].child = starter[v].child
  BY <1>2, <1>3 DEF Daemon!Launching, Daemon!Up
<1>6. /\ starter[s].pid \in Pids /\ live[starter[s].pid] = Daemon!Proc("launcher", s)
      /\ live' = [live EXCEPT ![starter[s].pid] = Daemon!NoProc]
      /\ Daemon!NoProc \in Processes /\ Daemon!NoProc.kind = "none" /\ Daemon!NoProc.of = NoOne
  BY DEF Anyhow, StarterHolds, Daemon!Exits, Daemon!NoProc, Daemon!Proc, Processes
<1>7. /\ live' \in [Pids -> Processes] /\ live'[starter[s].pid] = Daemon!NoProc
      /\ \A p \in Pids : p # starter[s].pid => live'[p] = live[p]
  BY <1>6 DEF Anyhow, DaemonTypes
<1>8. \A p \in Pids : IdHolds(p)'
  <2> SUFFICES ASSUME NEW p \in Pids PROVE IdHolds(p)'
    OBVIOUS
  <2>1. CASE p = starter[s].pid
    BY <1>6, <1>7, <2>1 DEF IdHolds
  <2>2. CASE p # starter[s].pid
    <3>1. IdHolds(p) /\ live'[p] = live[p]
      BY <1>7, <2>2 DEF Anyhow
    <3>2. live[p].kind = "launcher" => live[p].of # s
      BY <2>2, <3>1 DEF IdHolds
    <3> QED
      BY <1>5, <3>1, <3>2 DEF IdHolds
  <2> QED
    BY <2>1, <2>2
<1>9. \A v \in Starters : StarterHolds(v)'
  <2> SUFFICES ASSUME NEW v \in Starters PROVE StarterHolds(v)'
    OBVIOUS
  <2>1. StarterHolds(v)
    BY DEF Anyhow
  <2>2. Daemon!Launching(v)' => live'[starter[v].pid] = live[starter[v].pid]
    BY <1>5, <1>6, <1>7, <2>1 DEF StarterHolds, Daemon!Proc
  <2>3. Daemon!Up(v) => live'[starter[v].child] = live[starter[v].child]
    BY <1>6, <1>7, <2>1 DEF StarterHolds, Daemon!Proc
  <2>4. CASE v = s
    BY <1>2, <1>3, <1>5, <2>1, <2>2, <2>3, <2>4 DEF StarterHolds, Spawned, Daemon!Launching
  <2>5. CASE v # s
    BY <1>3, <1>5, <2>1, <2>2, <2>3, <2>5 DEF StarterHolds, Spawned
  <2> QED
    BY <2>4, <2>5
<1>10. \A p \in Pids : live'[p] \in {live[p], Daemon!NoProc}
  BY <1>7
<1>11. starter' = [starter EXCEPT ![s].pc = pc]
  BY DEF Daemon!Exits, Daemon!Go
<1>12. daemon' \in [Starters -> DaemonStates]
  BY DEF Anyhow, DaemonTypes
<1> QED
  BY <1>3, <1>4, <1>5, <1>7, <1>8, <1>9, <1>10, <1>11, <1>12 DEF LivesFit

(* A daemon that is up ends. *)
LEMMA DaemonEnds ==
  ASSUME Told, Anyhow, NEW s \in Starters, Daemon!Up(s),
         NEW how \in {"ok", "fatal", "crashed", "unconfirmed", "killed"}, Daemon!Ends(s, how),
         how = "ok" => ~daemon[s].fatal, UNCHANGED starter
  PROVE  /\ LivesFit /\ live'[starter[s].child] = Daemon!NoProc
         /\ daemon'[s].cleaned = (how \in {"ok", "fatal"}) /\ daemon'[s].end = how
         /\ \A v \in Starters : v # s => daemon'[v] = daemon[v]
         /\ \A v \in Starters : Daemon!Up(v)' <=> Daemon!Up(v) /\ v # s
<1>1. /\ daemon' \in [Starters -> DaemonStates] /\ daemon'[s].st = "gone"
      /\ daemon'[s].cleaned = (how \in {"ok", "fatal"}) /\ daemon'[s].end = how
      /\ daemon'[s].fatal = daemon[s].fatal
      /\ \A v \in Starters : v # s => daemon'[v] = daemon[v]
  <2> DEFINE y == [daemon[s] EXCEPT !.st = "gone", !.end = how, !.cleaned = (how \in {"ok", "fatal"})]
  <2>1. daemon' = [daemon EXCEPT ![s] = y] /\ daemon \in [Starters -> DaemonStates]
    BY DEF Daemon!Ends, Anyhow, DaemonTypes
  <2>2. /\ y \in DaemonStates /\ y.st = "gone" /\ y.end = how /\ y.fatal = daemon[s].fatal
        /\ y.cleaned = (how \in {"ok", "fatal"})
    <3>1. /\ daemon[s] \in DaemonStates /\ (how \in {"ok", "fatal"}) \in BOOLEAN
          /\ how \in {"none", "ok", "fatal", "crashed", "unconfirmed", "killed"}
      BY DEF Anyhow, DaemonTypes
    <3>2. \A c \in BOOLEAN : [daemon[s] EXCEPT !.st = "gone", !.end = how, !.cleaned = c]
            \in {d \in DaemonStates : d.st = "gone" /\ d.end = how /\ d.fatal = daemon[s].fatal /\ d.cleaned = c}
      BY <3>1 DEF DaemonStates
    <3> QED
      BY <3>1, <3>2
  <2> HIDE DEF y
  <2> QED
    BY <2>1, <2>2
<1>2. \A v \in Starters : Daemon!Up(v)' <=> Daemon!Up(v) /\ v # s
  BY <1>1 DEF Daemon!Up
<1>3. /\ starter[s].child \in Pids /\ live[starter[s].child] = Daemon!Proc("daemon", s) /\ Spawned(s)
      /\ live' = [live EXCEPT ![starter[s].child] = Daemon!NoProc]
      /\ Daemon!NoProc \in Processes /\ Daemon!NoProc.kind = "none" /\ Daemon!NoProc.of = NoOne
  BY DEF Anyhow, StarterHolds, Daemon!Ends, Daemon!NoProc, Daemon!Proc, Processes
<1>4. /\ live' \in [Pids -> Processes] /\ live'[starter[s].child] = Daemon!NoProc
      /\ \A p \in Pids : p # starter[s].child => live'[p] = live[p]
  BY <1>3 DEF Anyhow, DaemonTypes
<1>5. \A p \in Pids : IdHolds(p)'
  <2> SUFFICES ASSUME NEW p \in Pids PROVE IdHolds(p)'
    OBVIOUS
  <2>1. CASE p = starter[s].child
    BY <1>3, <1>4, <2>1 DEF IdHolds
  <2>2. CASE p # starter[s].child
    <3>1. IdHolds(p) /\ live'[p] = live[p]
      BY <1>4, <2>2 DEF Anyhow
    <3>2. live[p].kind = "daemon" => live[p].of # s
      BY <2>2, <3>1 DEF IdHolds
    <3> QED
      BY <1>2, <3>1, <3>2 DEF IdHolds, Daemon!Launching
  <2> QED
    BY <2>1, <2>2
<1>6. \A v \in Starters : StarterHolds(v)'
  <2> SUFFICES ASSUME NEW v \in Starters PROVE StarterHolds(v)'
    OBVIOUS
  <2>1. StarterHolds(v)
    BY DEF Anyhow
  <2>2. Daemon!Launching(v) => live'[starter[v].pid] = live[starter[v].pid]
    BY <1>3, <1>4, <2>1 DEF StarterHolds, Daemon!Proc
  <2>3. Daemon!Up(v)' => live'[starter[v].child] = live[starter[v].child]
    BY <1>2, <1>3, <1>4, <2>1 DEF StarterHolds, Daemon!Proc
  <2>4. CASE v = s
    BY <1>1, <1>2, <1>3, <2>1, <2>2, <2>4 DEF StarterHolds, Spawned, Daemon!Launching
  <2>5. CASE v # s
    BY <1>1, <1>2, <2>1, <2>2, <2>3, <2>5 DEF StarterHolds, Spawned, Daemon!Launching
  <2> QED
    BY <2>4, <2>5
<1>7. OnRecord' = OnRecord
  BY DEF OnRecord, Spawned
<1> QED
  BY <1>1, <1>2, <1>4, <1>5, <1>6, <1>7 DEF LivesFit, Anyhow, DaemonTypes

(* A daemon that stays up or stays down. *)
LEMMA DaemonGoesOn ==
  ASSUME Told, Anyhow, NEW s \in Starters, NEW x \in DaemonStates, daemon' = [daemon EXCEPT ![s] = x],
         Daemon!Up(s), x.st \in {"serving", "cleaning", "stuck"}, x.end = daemon[s].end,
         x.cleaned = daemon[s].cleaned, UNCHANGED <<live, starter>>
  PROVE  /\ LivesFit
         /\ \A v \in Starters : /\ Daemon!Up(v)' <=> Daemon!Up(v)
                                /\ daemon'[v].cleaned = daemon[v].cleaned /\ daemon'[v].end = daemon[v].end
<1>1. /\ daemon' \in [Starters -> DaemonStates] /\ daemon'[s] = x
      /\ \A v \in Starters : v # s => daemon'[v] = daemon[v]
  BY DEF Anyhow, DaemonTypes
<1>2. \A v \in Starters : (Daemon!Up(v)' <=> Daemon!Up(v)) /\ (Daemon!Launching(v)' <=> Daemon!Launching(v))
  BY <1>1 DEF Daemon!Up, Daemon!Launching
<1>3. \A p \in Pids : IdHolds(p)'
  BY <1>2 DEF Anyhow, IdHolds
<1>4. \A v \in Starters : StarterHolds(v)'
  BY <1>1, <1>2 DEF Anyhow, StarterHolds, Spawned
<1>5. OnRecord' = OnRecord
  BY DEF OnRecord, Spawned
<1> QED
  BY <1>1, <1>2, <1>3, <1>4, <1>5 DEF LivesFit, Anyhow, DaemonTypes

(* A free id is nobody's that matters. *)
LEMMA FreeIs ==
  ASSUME Anyhow, NEW p \in Daemon!Free
  PROVE  /\ p \in Pids /\ live[p] = Daemon!NoProc
         /\ \A s \in Starters : Daemon!Launching(s) => starter[s].pid # p
         /\ \A s \in Starters : Daemon!Up(s) => starter[s].child # p
<1>1. p \in Pids /\ live[p] = Daemon!NoProc
  BY DEF Daemon!Free
<1>2. \A s \in Starters : StarterHolds(s)
  BY DEF Anyhow
<1>3. \A s \in Starters : Daemon!Proc("launcher", s) # Daemon!NoProc /\ Daemon!Proc("daemon", s) # Daemon!NoProc
  BY DEF Daemon!NoProc, Daemon!Proc
<1> QED
  BY <1>1, <1>2, <1>3 DEF StarterHolds

LEMMA StrangerComes ==
  ASSUME Told, Anyhow, NEW p \in Pids, NEW k \in Strangers, Daemon!Reuse(p, k)
  PROVE  Anyhow'
<1>1. p \in Daemon!Free /\ live' = [live EXCEPT ![p] = Daemon!Proc(k, NoOne)]
      /\ UNCHANGED <<file, starter, daemon, stopper, signalled>>
  BY DEF Daemon!Reuse
<1>2. /\ k \notin {"launcher", "daemon"} /\ Daemon!Proc(k, NoOne) \in Processes
      /\ Daemon!Proc(k, NoOne).kind = k /\ Daemon!Proc(k, NoOne).of = NoOne
  BY DEF Told, Daemon!ConstantsOK, Daemon!Proc, Processes
<1>3. /\ live' \in [Pids -> Processes] /\ live'[p] = Daemon!Proc(k, NoOne)
      /\ \A q \in Pids : q # p => live'[q] = live[q]
  BY <1>1, <1>2 DEF Anyhow, DaemonTypes
<1>4. \A q \in Pids : IdHolds(q)'
  BY <1>1, <1>2, <1>3 DEF Anyhow, IdHolds, Daemon!Launching, Daemon!Up
<1>5. \A v \in Starters : StarterHolds(v)'
  <2> SUFFICES ASSUME NEW v \in Starters PROVE StarterHolds(v)'
    OBVIOUS
  <2>1. StarterHolds(v) /\ (Daemon!Launching(v) => starter[v].pid # p) /\ (Daemon!Up(v) => starter[v].child # p)
    BY <1>1, FreeIs DEF Anyhow
  <2> QED
    BY <1>1, <1>3, <2>1 DEF StarterHolds, Spawned, Daemon!Launching, Daemon!Up
<1>6. OnRecord \subseteq OnRecord'
  BY <1>1 DEF OnRecord, Spawned
<1>7. Fresh(live'[p])
  BY <1>2, <1>3, RecordedIs DEF Fresh
<1>8. \A t \in Stoppers : StopHolds(t)'
  BY <1>1, <1>3, <1>6, <1>7, StopsStay
<1> QED
  BY <1>1, <1>3, <1>4, <1>5, <1>6, <1>8 DEF Anyhow, DaemonTypes, Daemon!TermIsMeant

(* A stranger's id is free again: it left, or was killed. *)
LEMMA StrangerGoes ==
  ASSUME Anyhow, NEW p \in Pids, live[p].kind \notin {"launcher", "daemon"},
         live' = [live EXCEPT ![p] = Daemon!NoProc], UNCHANGED <<starter, daemon>>
  PROVE  LivesFit
<1>1. UNCHANGED <<starter, daemon>>
  OBVIOUS
<1>2. /\ live[p].kind \notin {"launcher", "daemon"} /\ Daemon!NoProc \in Processes
      /\ Daemon!NoProc.kind = "none" /\ Daemon!NoProc.of = NoOne
  BY DEF Daemon!Proc, Daemon!NoProc, Processes
<1>3. /\ live' \in [Pids -> Processes] /\ live'[p] = Daemon!NoProc
      /\ \A q \in Pids : q # p => live'[q] = live[q]
  BY <1>1, <1>2 DEF Anyhow, DaemonTypes
<1>4. \A q \in Pids : IdHolds(q)'
  BY <1>1, <1>2, <1>3 DEF Anyhow, IdHolds, Daemon!Launching, Daemon!Up
<1>5. \A v \in Starters : StarterHolds(v)'
  <2> SUFFICES ASSUME NEW v \in Starters PROVE StarterHolds(v)'
    OBVIOUS
  <2>1. StarterHolds(v)
    BY DEF Anyhow
  <2>2. (Daemon!Launching(v) => starter[v].pid # p) /\ (Daemon!Up(v) => starter[v].child # p)
    BY <1>2, <2>1 DEF StarterHolds, Daemon!Proc
  <2> QED
    BY <1>1, <1>3, <2>1, <2>2 DEF StarterHolds, Spawned, Daemon!Launching, Daemon!Up
<1>6. OnRecord \subseteq OnRecord'
  BY <1>1 DEF OnRecord, Spawned
<1> QED
  BY <1>1, <1>3, <1>4, <1>5, <1>6 DEF LivesFit, Anyhow, DaemonTypes

LEMMA FileStays ==
  ASSUME Anyhow, UNCHANGED file, OnRecord \subseteq OnRecord'
  PROVE  FileFits
BY DEF Anyhow, DaemonTypes, FileFits

LEMMA FileGoes ==
  ASSUME Daemon!Removed
  PROVE  FileFits
BY DEF Daemon!Removed, FileFits, Daemon!NoFile, Daemon!NoRecord, Daemon!NoProc, Daemon!Proc, PidFiles, PidRecords,
       Processes, OnRecord

LEMMA StrangerLeaves ==
  ASSUME Told, Anyhow, NEW p \in Pids, Daemon!Leave(p)
  PROVE  Anyhow'
<1>1. live[p].kind \in Strangers /\ live' = [live EXCEPT ![p] = Daemon!NoProc]
      /\ UNCHANGED <<file, starter, daemon, stopper, signalled>>
  BY DEF Daemon!Leave
<1>2. LivesFit
  BY <1>1, StrangerGoes DEF Told, Daemon!ConstantsOK
<1>3. FileFits
  BY <1>1, <1>2, FileStays DEF LivesFit
<1> QED
  BY <1>1, <1>2, <1>3, AnyhowStays

(* A launcher goes on to its next step. *)
LEMMA LauncherGoes ==
  ASSUME Told, Anyhow, NEW s \in Starters,
         NEW pc \in {"open", "look", "unlink", "write", "spawn", "grace", "release"}, Daemon!Go(s, pc),
         Daemon!Launching(s), Spawned(s) => pc \in {"grace", "release"},
         pc = "grace" => Spawned(s) /\ starter[s].child \in Pids, UNCHANGED <<live, daemon, stopper, signalled>>
  PROVE  /\ OnRecord \subseteq OnRecord' /\ (FileFits => Anyhow')
         /\ starter'[s] = [starter[s] EXCEPT !.pc = pc] /\ starter'[s].pc = pc
         /\ starter'[s].pid = starter[s].pid /\ starter'[s].child = starter[s].child
         /\ starter'[s].budget = starter[s].budget
         /\ (\A v \in Starters : v # s => starter'[v] = starter[v])
<1>1. PICK x \in StarterStates : /\ x = [starter[s] EXCEPT !.pc = pc]
                                 /\ starter' = [starter EXCEPT ![s] = x]
  BY DEF Daemon!Go, Anyhow, DaemonTypes, StarterStates
<1>2. x.pc = pc /\ x.pid = starter[s].pid /\ x.child = starter[s].child /\ x.budget = starter[s].budget
  BY <1>1 DEF Anyhow, DaemonTypes, StarterStates
<1>3. OnRecord \subseteq OnRecord' /\ (FileFits => Anyhow') /\ starter'[s] = x
      /\ \A v \in Starters : v # s => starter'[v] = starter[v]
  BY <1>1, <1>2, LauncherMoves
<1> QED
  BY <1>1, <1>2, <1>3

LEMMA StartHolds ==
  ASSUME Told, Anyhow, NEW s \in Starters, NEW p \in Pids, NEW b \in Modes, Daemon!Start(s, p, b)
  PROVE  /\ Anyhow' /\ starter[s].pc = "idle" /\ starter'[s].pc = "open"
         /\ \A v \in Starters : v # s => starter'[v] = starter[v]
<1>1. PICK x \in StarterStates : /\ x.pc = "open" /\ x.pid = p /\ x.budget = b /\ x.child = starter[s].child
                                 /\ starter' = [starter EXCEPT ![s] = x]
  <2> DEFINE y == [starter[s] EXCEPT !.pc = "open", !.pid = p, !.budget = b]
  <2>1. starter' = [starter EXCEPT ![s] = y]
    BY DEF Daemon!Start
  <2>2. y \in StarterStates /\ y.pc = "open" /\ y.pid = p /\ y.budget = b /\ y.child = starter[s].child
    BY DEF Anyhow, DaemonTypes, StarterStates, Told, Daemon!ConstantsOK
  <2> HIDE DEF y
  <2> QED
    BY <2>1, <2>2
<1>2. /\ starter' \in [Starters -> StarterStates] /\ starter'[s] = x
      /\ \A v \in Starters : v # s => starter'[v] = starter[v]
  BY <1>1, LauncherIs DEF Anyhow
<1>3. /\ starter[s].pc = "idle" /\ p \in Daemon!Free /\ live' = [live EXCEPT ![p] = Daemon!Proc("launcher", s)]
      /\ UNCHANGED <<file, daemon, stopper, signalled>>
  BY DEF Daemon!Start
<1>4. /\ Daemon!Proc("launcher", s) \in Processes
      /\ Daemon!Proc("launcher", s).kind = "launcher" /\ Daemon!Proc("launcher", s).of = s
  BY DEF Daemon!Proc, Processes
<1>5. /\ live' \in [Pids -> Processes] /\ live'[p] = Daemon!Proc("launcher", s)
      /\ \A q \in Pids : q # p => live'[q] = live[q]
  BY <1>3, <1>4 DEF Anyhow, DaemonTypes
<1>6. OnRecord \subseteq OnRecord'
  <2>1. ~Spawned(s)
    BY <1>3 DEF Spawned
  <2> QED
    BY <1>1, <1>2, <1>3, <2>1, RecordsStay DEF Spawned
<1>7. \A v \in Starters : /\ (Daemon!Launching(v)' <=> Daemon!Launching(v) \/ v = s)
                          /\ (Daemon!Up(v)' <=> Daemon!Up(v)) /\ starter'[v].child = starter[v].child
                          /\ (v # s => starter'[v] = starter[v])
  BY <1>1, <1>2, <1>3 DEF Daemon!Launching, Daemon!Up
<1>8. ~Daemon!Launching(s)
  BY <1>3 DEF Daemon!Launching
<1>9. \A q \in Pids : IdHolds(q)'
  <2> SUFFICES ASSUME NEW q \in Pids PROVE IdHolds(q)'
    OBVIOUS
  <2>1. CASE q = p
    BY <1>1, <1>2, <1>4, <1>5, <1>7, <2>1 DEF IdHolds
  <2>2. CASE q # p
    <3>1. IdHolds(q) /\ live'[q] = live[q]
      BY <1>5, <2>2 DEF Anyhow
    <3>2. live[q].kind = "launcher" => live[q].of # s
      BY <1>8, <3>1 DEF IdHolds
    <3> QED
      BY <1>7, <3>1, <3>2 DEF IdHolds
  <2> QED
    BY <2>1, <2>2
<1>10. \A v \in Starters : StarterHolds(v)'
  <2> SUFFICES ASSUME NEW v \in Starters PROVE StarterHolds(v)'
    OBVIOUS
  <2>1. StarterHolds(v) /\ (Daemon!Launching(v) => starter[v].pid # p) /\ (Daemon!Up(v) => starter[v].child # p)
    BY <1>3, FreeIs DEF Anyhow
  <2>2. CASE v = s
    <3>1. ~Spawned(s) /\ ~Spawned(s)' /\ daemon[s] = Daemon!NoDaemon /\ ~Daemon!Up(s)
      BY <1>1, <1>2, <1>3, <2>1, <2>2 DEF Spawned, StarterHolds, Daemon!Up, Daemon!NoDaemon
    <3> QED
      BY <1>1, <1>2, <1>3, <1>5, <1>7, <2>1, <2>2, <3>1 DEF StarterHolds
  <2>3. CASE v # s
    BY <1>3, <1>5, <1>7, <2>1, <2>3 DEF StarterHolds, Spawned
  <2> QED
    BY <2>2, <2>3
<1>11. \A t \in Stoppers : StopHolds(t)'
  <2>1. Fresh(live'[p])
    BY <1>3, <1>4, <1>5 DEF Fresh, OnRecord
  <2> QED
    BY <1>3, <1>5, <1>6, <2>1, StopsStay
<1>12. FileFits
  BY <1>3, <1>6, FileStays
<1>13. DaemonTypes'
  BY <1>2, <1>3, <1>5, <1>12 DEF Anyhow, DaemonTypes, FileFits
<1> QED
  BY <1>1, <1>2, <1>3, <1>9, <1>10, <1>11, <1>12, <1>13 DEF Anyhow, FileFits, Daemon!TermIsMeant

LEMMA SpawnHolds ==
  ASSUME Told, Anyhow, NEW s \in Starters, NEW q \in Pids, Daemon!Spawn(s, q)
  PROVE  /\ Anyhow' /\ starter'[s].pc = "record" /\ ~daemon'[s].cleaned
         /\ \A v \in Starters : v # s => starter'[v] = starter[v] /\ daemon'[v] = daemon[v]
<1>1. PICK x \in StarterStates : /\ x.pc = "record" /\ x.pid = starter[s].pid /\ x.budget = starter[s].budget
                                 /\ x.child = q /\ starter' = [starter EXCEPT ![s] = x]
  <2> DEFINE y == [starter[s] EXCEPT !.pc = "record", !.child = q]
  <2>1. starter' = [starter EXCEPT ![s] = y]
    BY DEF Daemon!Spawn
  <2>2. y \in StarterStates /\ y.pc = "record" /\ y.pid = starter[s].pid /\ y.budget = starter[s].budget /\ y.child = q
    BY DEF Anyhow, DaemonTypes, StarterStates
  <2> HIDE DEF y
  <2> QED
    BY <2>1, <2>2
<1>2. /\ starter' \in [Starters -> StarterStates] /\ starter'[s] = x
      /\ \A v \in Starters : v # s => starter'[v] = starter[v]
  BY <1>1, LauncherIs DEF Anyhow
<1>3. /\ starter[s].pc = "spawn" /\ q \in Daemon!Free /\ live' = [live EXCEPT ![q] = Daemon!Proc("daemon", s)]
      /\ UNCHANGED <<file, stopper, signalled>>
  BY DEF Daemon!Spawn
<1>4. Daemon!Launching(s) /\ ~Spawned(s) /\ daemon[s] = Daemon!NoDaemon /\ ~Daemon!Up(s)
  BY <1>3 DEF Daemon!Launching, Spawned, Anyhow, StarterHolds, Daemon!Up, Daemon!NoDaemon
<1>5. /\ daemon' \in [Starters -> DaemonStates] /\ daemon'[s].st = "booting"
      /\ daemon'[s].end = "none" /\ ~daemon'[s].cleaned /\ ~daemon'[s].fatal
      /\ \A v \in Starters : v # s => daemon'[v] = daemon[v]
  <2> DEFINE y == [daemon[s] EXCEPT !.st = "booting"]
  <2>1. daemon' = [daemon EXCEPT ![s] = y] /\ daemon \in [Starters -> DaemonStates]
    BY DEF Daemon!Spawn, Anyhow, DaemonTypes
  <2>2. y \in DaemonStates /\ y.st = "booting" /\ y.end = "none" /\ y.fatal = FALSE /\ y.cleaned = FALSE
    <3>1. /\ daemon[s] \in DaemonStates /\ daemon[s].end = "none" /\ daemon[s].fatal = FALSE
          /\ daemon[s].cleaned = FALSE
      <4>1. daemon[s] = [st |-> "none", cleaned |-> FALSE, fatal |-> FALSE, end |-> "none"]
        BY <1>4 DEF Daemon!NoDaemon
      <4>2. daemon[s] \in DaemonStates
        BY DEF Anyhow, DaemonTypes
      <4> QED
        BY ONLY <4>1, <4>2
    <3>2. \A d \in DaemonStates : [d EXCEPT !.st = "booting"]
            \in {e \in DaemonStates : e.st = "booting" /\ e.end = d.end /\ e.fatal = d.fatal /\ e.cleaned = d.cleaned}
      BY DEF DaemonStates
    <3> QED
      BY <3>1, <3>2
  <2> HIDE DEF y
  <2> QED
    BY <2>1, <2>2
<1>6. /\ Daemon!Proc("daemon", s) \in Processes
      /\ Daemon!Proc("daemon", s).kind = "daemon" /\ Daemon!Proc("daemon", s).of = s
  BY DEF Daemon!Proc, Processes
<1>7. /\ live' \in [Pids -> Processes] /\ live'[q] = Daemon!Proc("daemon", s)
      /\ \A p \in Pids : p # q => live'[p] = live[p]
  BY <1>3, <1>6 DEF Anyhow, DaemonTypes
<1>8. OnRecord \subseteq OnRecord'
  BY <1>1, <1>2, <1>3, <1>4, RecordsStay DEF Spawned
<1>9. \A v \in Starters : /\ (Daemon!Launching(v)' <=> Daemon!Launching(v)) /\ (Daemon!Up(v)' <=> Daemon!Up(v) \/ v = s)
                          /\ starter'[v].pid = starter[v].pid /\ (v # s => starter'[v] = starter[v])
  BY <1>1, <1>2, <1>4, <1>5 DEF Daemon!Launching, Daemon!Up
<1>10. \A p \in Pids : IdHolds(p)'
  <2> SUFFICES ASSUME NEW p \in Pids PROVE IdHolds(p)'
    OBVIOUS
  <2>1. CASE p = q
    BY <1>1, <1>2, <1>6, <1>7, <1>9, <2>1 DEF IdHolds
  <2>2. CASE p # q
    <3>1. IdHolds(p) /\ live'[p] = live[p]
      BY <1>7, <2>2 DEF Anyhow
    <3>2. live[p].kind = "daemon" => live[p].of # s
      BY <1>4, <3>1 DEF IdHolds
    <3> QED
      BY <1>9, <3>1, <3>2 DEF IdHolds
  <2> QED
    BY <2>1, <2>2
<1>11. \A v \in Starters : StarterHolds(v)'
  <2> SUFFICES ASSUME NEW v \in Starters PROVE StarterHolds(v)'
    OBVIOUS
  <2>1. StarterHolds(v) /\ (Daemon!Launching(v) => starter[v].pid # q) /\ (Daemon!Up(v) => starter[v].child # q)
    BY <1>3, FreeIs DEF Anyhow
  <2>2. CASE v = s
    <3>1. Spawned(s)'
      BY <1>1, <1>2 DEF Spawned
    <3> QED
      BY <1>1, <1>2, <1>4, <1>5, <1>7, <1>9, <2>1, <2>2, <3>1 DEF StarterHolds
  <2>3. CASE v # s
    BY <1>3, <1>5, <1>7, <1>9, <2>1, <2>3 DEF StarterHolds, Spawned
  <2> QED
    BY <2>2, <2>3
<1>12. \A t \in Stoppers : StopHolds(t)'
  <2>1. Fresh(live'[q])
    BY <1>4, <1>6, <1>7 DEF Fresh, OnRecord
  <2> QED
    BY <1>3, <1>7, <1>8, <2>1, StopsStay
<1>13. FileFits
  BY <1>3, <1>8, FileStays
<1>14. DaemonTypes'
  BY <1>2, <1>3, <1>5, <1>7, <1>13 DEF Anyhow, DaemonTypes, FileFits
<1> QED
  BY <1>1, <1>2, <1>3, <1>5, <1>10, <1>11, <1>12, <1>13, <1>14 DEF Anyhow, FileFits, Daemon!TermIsMeant

LEMMA LauncherHolds ==
  ASSUME Told, Anyhow, NEW s \in Starters,
         \/ Daemon!Open(s) \/ Daemon!Look(s) \/ Daemon!Unlink(s) \/ Daemon!GiveUp(s) \/ Daemon!Write(s)
         \/ Daemon!SpawnFails(s) \/ Daemon!WriteRecord(s) \/ Daemon!Survives(s) \/ Daemon!DiesYoung(s)
         \/ Daemon!Release(s) \/ Daemon!Kill(s)
  PROVE  /\ Anyhow' /\ UNCHANGED daemon
         /\ starter'[s].child = starter[s].child /\ starter'[s].budget = starter[s].budget
         /\ \A v \in Starters : v # s => starter'[v] = starter[v]
<1> DEFINE Same == /\ starter'[s].child = starter[s].child /\ starter'[s].budget = starter[s].budget
                   /\ \A v \in Starters : v # s => starter'[v] = starter[v]
<1>0. StarterHolds(s) /\ s # NoOne /\ starter \in [Starters -> StarterStates]
  BY DEF Anyhow, Told, Daemon!ConstantsOK, DaemonTypes
<1>1. \A pc \in {"done", "refused", "failed", "killed"} : starter' = [starter EXCEPT ![s].pc = pc] => Same
  BY <1>0 DEF StarterStates
<1> HIDE DEF Same
<1>2. ASSUME NEW pc \in {"done", "refused", "failed", "killed"}, Daemon!Exits(s, pc), Daemon!Launching(s),
             UNCHANGED file \/ Daemon!Removed, UNCHANGED <<daemon, stopper, signalled>>
      PROVE  Anyhow' /\ Same
  <2>1. LivesFit /\ starter' = [starter EXCEPT ![s].pc = pc]
    BY <1>2, LauncherExits
  <2>2. FileFits
    BY <1>2, <2>1, FileStays, FileGoes DEF LivesFit
  <2> QED
    BY <1>1, <1>2, <2>1, <2>2, AnyhowStays
<1>3. CASE Daemon!Open(s)
  <2>1. Daemon!Launching(s) /\ ~Spawned(s) /\ UNCHANGED <<live, daemon, stopper, signalled>>
    BY <1>3 DEF Daemon!Open, Daemon!Launching, Spawned
  <2>2. CASE Daemon!Exclusive
    <3>1. Daemon!Go(s, "write") /\ file' = [there |-> TRUE, by |-> s, rec |-> Daemon!NoRecord]
      BY <1>3, <2>2 DEF Daemon!Open
    <3>2. (FileFits => Anyhow') /\ Same
      BY <2>1, <3>1, LauncherGoes DEF Same
    <3>3. FileFits
      BY <3>1 DEF FileFits, PidFiles, PidRecords, Processes, OnRecord, Daemon!NoRecord, Daemon!NoProc, Daemon!Proc
    <3> QED
      BY <2>1, <3>2, <3>3 DEF Same
  <2>3. CASE ~Daemon!Exclusive
    <3>1. Daemon!Go(s, "look") /\ UNCHANGED file
      BY <1>3, <2>3 DEF Daemon!Open
    <3>2. (FileFits => Anyhow') /\ OnRecord \subseteq OnRecord' /\ Same
      BY <2>1, <3>1, LauncherGoes DEF Same
    <3> QED
      BY <2>1, <3>1, <3>2, FileStays DEF Same
  <2> QED
    BY <2>2, <2>3
<1>4. CASE Daemon!Look(s)
  <2>1. Daemon!Launching(s) /\ ~Spawned(s) /\ UNCHANGED <<file, daemon, stopper, signalled>>
    BY <1>4 DEF Daemon!Look, Daemon!Launching, Spawned
  <2>2. CASE Daemon!inspectDaemon = "running"
    <3>1. Daemon!Exits(s, "refused")
      BY <1>4, <2>2 DEF Daemon!Look
    <3> QED
      BY <1>2, <2>1, <3>1 DEF Same
  <2>3. CASE Daemon!inspectDaemon # "running"
    <3>1. Daemon!Go(s, "unlink") /\ UNCHANGED live
      BY <1>4, <2>3 DEF Daemon!Look
    <3>2. (FileFits => Anyhow') /\ OnRecord \subseteq OnRecord' /\ Same
      BY <2>1, <3>1, LauncherGoes DEF Same
    <3> QED
      BY <2>1, <3>2, FileStays DEF Same
  <2> QED
    BY <2>2, <2>3
<1>5. CASE Daemon!Unlink(s)
  <2>1. Daemon!Launching(s) /\ ~Spawned(s) /\ Daemon!Removed /\ UNCHANGED <<live, daemon, stopper, signalled>>
    BY <1>5 DEF Daemon!Unlink, Daemon!Launching, Spawned
  <2>2. PICK x \in StarterStates : /\ x.pc = "open" /\ x.pid = starter[s].pid /\ x.child = starter[s].child
                                   /\ x.budget = starter[s].budget /\ starter' = [starter EXCEPT ![s] = x]
    <3> DEFINE y == [starter[s] EXCEPT !.pc = "open", !.attempt = @ + 1]
    <3>1. starter' = [starter EXCEPT ![s] = y]
      BY <1>5, <1>0 DEF Daemon!Unlink
    <3>2. /\ y \in StarterStates /\ y.pc = "open" /\ y.pid = starter[s].pid /\ y.child = starter[s].child
          /\ y.budget = starter[s].budget
      <4>1. starter[s] \in StarterStates
        BY <1>0
      <4>2. \A d \in StarterStates, n \in Nat :
              [d EXCEPT !.pc = "open", !.attempt = n] \in
                {e \in StarterStates : e.pc = "open" /\ e.pid = d.pid /\ e.child = d.child /\ e.budget = d.budget}
        BY DEF StarterStates
      <4>3. starter[s].attempt + 1 \in Nat
        BY <4>1 DEF StarterStates
      <4> QED
        BY ONLY <4>1, <4>2, <4>3 DEF y
    <3> HIDE DEF y
    <3> QED
      BY <3>1, <3>2
  <2>3. (FileFits => Anyhow') /\ starter'[s] = x /\ \A v \in Starters : v # s => starter'[v] = starter[v]
    BY <2>1, <2>2, LauncherMoves
  <2> QED
    BY <2>1, <2>2, <2>3, FileGoes
<1>6. CASE Daemon!GiveUp(s)
  <2>1. Daemon!Launching(s) /\ Daemon!Exits(s, "refused") /\ UNCHANGED <<file, daemon, stopper, signalled>>
    BY <1>6 DEF Daemon!GiveUp, Daemon!Launching
  <2> QED
    BY <1>2, <2>1 DEF Same
<1>7. CASE Daemon!Write(s)
  <2>1. /\ Daemon!Launching(s) /\ ~Spawned(s) /\ Daemon!Go(s, "spawn")
        /\ UNCHANGED <<live, daemon, stopper, signalled>>
    BY <1>7 DEF Daemon!Write, Daemon!Launching, Spawned
  <2>2. /\ (FileFits => Anyhow') /\ OnRecord \subseteq OnRecord' /\ Same
        /\ starter'[s].pc = "spawn" /\ starter'[s].pid = starter[s].pid /\ starter'[s].budget = starter[s].budget
    BY <2>1, LauncherGoes DEF Same
  <2>3. CASE Daemon!SameFile(s)
    <3> DEFINE r == Daemon!Record(starter[s].pid, starter[s].budget)
    <3>1. file' = [file EXCEPT !.rec = r] /\ file \in PidFiles /\ file.there
      BY <1>0, <1>7, <2>3 DEF Daemon!Write, Daemon!SameFile, Anyhow, DaemonTypes, Daemon!NoFile
    <3>2. /\ r \in PidRecords /\ r.pid \in Pids /\ r.pid = starter[s].pid
          /\ r.id = Daemon!Proc("launcher", s) /\ r.budget = starter[s].budget
      BY <1>0, <2>1 DEF Daemon!Record, StarterHolds, PidRecords, Daemon!Proc, Processes, StarterStates
    <3> HIDE DEF r
    <3>3. r \in OnRecord'
      BY <2>2, <3>2 DEF OnRecord, Daemon!Proc
    <3>4. FileFits
      BY <3>1, <3>2, <3>3 DEF FileFits, PidFiles
    <3> QED
      BY <2>1, <2>2, <3>4 DEF Same
  <2>4. CASE ~Daemon!SameFile(s)
    <3>1. UNCHANGED file
      BY <1>7, <2>4 DEF Daemon!Write
    <3> QED
      BY <2>1, <2>2, <3>1, FileStays DEF Same
  <2> QED
    BY <2>3, <2>4
<1>8. CASE Daemon!SpawnFails(s)
  <2>1. Daemon!Launching(s) /\ Daemon!Go(s, "release") /\ UNCHANGED <<live, file, daemon, stopper, signalled>>
    BY <1>8 DEF Daemon!SpawnFails, Daemon!Launching
  <2>2. (FileFits => Anyhow') /\ OnRecord \subseteq OnRecord' /\ Same
    BY <2>1, LauncherGoes DEF Same
  <2> QED
    BY <2>1, <2>2, FileStays DEF Same
<1>9. CASE Daemon!WriteRecord(s)
  <2>1. /\ Daemon!Launching(s) /\ Spawned(s) /\ starter[s].child \in Pids /\ Daemon!Go(s, "grace")
        /\ file' = [there |-> TRUE, by |-> NoOne, rec |-> Daemon!ChildRecord(s)]
        /\ UNCHANGED <<live, daemon, stopper, signalled>>
    BY <1>0, <1>9 DEF Daemon!WriteRecord, Daemon!Launching, Spawned, StarterHolds
  <2>2. /\ (FileFits => Anyhow') /\ Same /\ starter'[s].pc = "grace"
        /\ starter'[s].child = starter[s].child /\ starter'[s].budget = starter[s].budget
    BY <2>1, LauncherGoes DEF Same
  <2>3. /\ Daemon!ChildRecord(s) \in PidRecords /\ Daemon!ChildRecord(s).pid = starter[s].child
        /\ Daemon!ChildRecord(s).id = Daemon!Proc("daemon", s) /\ Daemon!ChildRecord(s).budget = starter[s].budget
    BY <1>0, <2>1 DEF Daemon!ChildRecord, PidRecords, Daemon!Proc, Processes, StarterStates
  <2>4. Daemon!ChildRecord(s) \in OnRecord'
    BY <2>1, <2>2, <2>3 DEF OnRecord, Daemon!Proc, Spawned
  <2>5. FileFits
    BY <2>1, <2>3, <2>4 DEF FileFits, PidFiles
  <2> QED
    BY <2>1, <2>2, <2>5 DEF Same
<1>10. CASE Daemon!Survives(s)
  <2>1. Daemon!Launching(s) /\ Daemon!Exits(s, "done") /\ UNCHANGED <<file, daemon, stopper, signalled>>
    BY <1>10 DEF Daemon!Survives, Daemon!Launching
  <2> QED
    BY <1>2, <2>1 DEF Same
<1>11. CASE Daemon!DiesYoung(s)
  <2>1. Daemon!Launching(s) /\ Daemon!Go(s, "release") /\ UNCHANGED <<live, file, daemon, stopper, signalled>>
    BY <1>11 DEF Daemon!DiesYoung, Daemon!Launching
  <2>2. (FileFits => Anyhow') /\ OnRecord \subseteq OnRecord' /\ Same
    BY <2>1, LauncherGoes DEF Same
  <2> QED
    BY <2>1, <2>2, FileStays DEF Same
<1>12. CASE Daemon!Release(s)
  <2>1. Daemon!Launching(s) /\ Daemon!Exits(s, "failed") /\ Daemon!Removed /\ UNCHANGED <<daemon, stopper, signalled>>
    BY <1>12 DEF Daemon!Release, Daemon!Launching
  <2> QED
    BY <1>2, <2>1 DEF Same
<1>13. CASE Daemon!Kill(s)
  <2>1. Daemon!Launching(s) /\ Daemon!Exits(s, "killed") /\ UNCHANGED <<file, daemon, stopper, signalled>>
    BY <1>13 DEF Daemon!Kill
  <2> QED
    BY <1>2, <2>1 DEF Same
<1> QED
  BY <1>3, <1>4, <1>5, <1>6, <1>7, <1>8, <1>9, <1>10, <1>11, <1>12, <1>13

LEMMA DaemonHolds ==
  ASSUME Told, Anyhow, NEW s \in Starters,
         \/ Daemon!Boot(s) \/ Daemon!Hang(s) \/ Daemon!Hangup(s) \/ Daemon!FatalClose(s) \/ Daemon!Crash(s)
         \/ Daemon!CleanupEnds(s) \/ Daemon!CleanupFails(s)
  PROVE  /\ Anyhow' /\ UNCHANGED <<starter, stopper>>
         /\ (\A v \in Starters : Daemon!Up(v)' => Daemon!Up(v))
         /\ (\A v \in Starters : daemon[v].cleaned => daemon'[v].cleaned)
         /\ UNCHANGED file \/ (Daemon!CleanupEnds(s) /\ Daemon!Up(s) /\ daemon'[s].cleaned)
<1> DEFINE Goal == /\ Anyhow' /\ UNCHANGED <<starter, stopper>>
                   /\ (\A v \in Starters : Daemon!Up(v)' => Daemon!Up(v))
                   /\ (\A v \in Starters : daemon[v].cleaned => daemon'[v].cleaned)
<1>1. daemon[s] \in DaemonStates /\ daemon \in [Starters -> DaemonStates] /\ StarterHolds(s)
  BY DEF Anyhow, DaemonTypes
<1>2. ASSUME NEW st \in {"serving", "cleaning", "stuck"}, NEW f \in BOOLEAN,
             daemon' = [daemon EXCEPT ![s] = [@ EXCEPT !.st = st, !.fatal = f]], Daemon!Up(s),
             UNCHANGED <<live, file, starter, stopper, signalled>>
      PROVE  Goal
  <2>1. PICK x \in DaemonStates : /\ x.st = st /\ x.end = daemon[s].end /\ x.cleaned = daemon[s].cleaned
                                  /\ daemon' = [daemon EXCEPT ![s] = x]
    <3>1. \A d \in DaemonStates : [d EXCEPT !.st = st, !.fatal = f]
            \in {e \in DaemonStates : e.st = st /\ e.end = d.end /\ e.cleaned = d.cleaned}
      BY DEF DaemonStates
    <3> DEFINE y == [daemon[s] EXCEPT !.st = st, !.fatal = f]
    <3>2. daemon' = [daemon EXCEPT ![s] = y]
      BY <1>2
    <3>3. y \in {e \in DaemonStates : e.st = st /\ e.end = daemon[s].end /\ e.cleaned = daemon[s].cleaned}
      BY <1>1, <3>1
    <3> HIDE DEF y
    <3> QED
      BY <3>2, <3>3
  <2>2. LivesFit /\ \A v \in Starters : /\ Daemon!Up(v)' <=> Daemon!Up(v)
                                        /\ daemon'[v].cleaned = daemon[v].cleaned /\ daemon'[v].end = daemon[v].end
    BY <1>2, <2>1, DaemonGoesOn
  <2>3. FileFits
    BY <1>2, <2>2, FileStays DEF LivesFit
  <2> QED
    BY <1>2, <2>2, <2>3, AnyhowStays
<1>3. ASSUME NEW how \in {"ok", "fatal", "crashed", "unconfirmed"}, Daemon!Up(s), Daemon!Ends(s, how),
             how = "ok" => ~daemon[s].fatal, UNCHANGED file \/ Daemon!Removed, UNCHANGED <<starter, stopper, signalled>>
      PROVE  Goal
  <2>1. /\ LivesFit /\ (\A v \in Starters : v # s => daemon'[v] = daemon[v])
        /\ \A v \in Starters : Daemon!Up(v)' <=> Daemon!Up(v) /\ v # s
    BY <1>3, DaemonEnds
  <2>2. FileFits
    BY <1>3, <2>1, FileStays, FileGoes DEF LivesFit
  <2>3. ~daemon[s].cleaned
    BY <1>1, <1>3 DEF StarterHolds
  <2> QED
    BY <1>3, <2>1, <2>2, <2>3, AnyhowStays
<1>4. \A st, f : Daemon!Up(s) /\ f = daemon[s].fatal =>
        [daemon EXCEPT ![s].st = st] = [daemon EXCEPT ![s] = [@ EXCEPT !.st = st, !.fatal = f]]
  BY <1>1 DEF DaemonStates
<1>5. daemon[s].fatal \in BOOLEAN
  BY <1>1 DEF DaemonStates
<1>6. CASE Daemon!Boot(s)
  <2>1. /\ Daemon!Up(s) /\ daemon' = [daemon EXCEPT ![s].st = "serving"]
        /\ UNCHANGED <<live, file, starter, stopper, signalled>>
    BY <1>6 DEF Daemon!Boot, Daemon!Up
  <2>2. daemon' = [daemon EXCEPT ![s] = [@ EXCEPT !.st = "serving", !.fatal = daemon[s].fatal]]
    BY <1>4, <2>1
  <2> QED
    BY <1>2, <1>5, <2>1, <2>2
<1>7. CASE Daemon!Hang(s)
  <2>1. /\ Daemon!Up(s) /\ daemon' = [daemon EXCEPT ![s].st = "stuck"]
        /\ UNCHANGED <<live, file, starter, stopper, signalled>>
    BY <1>7 DEF Daemon!Hang, Daemon!Up
  <2>2. daemon' = [daemon EXCEPT ![s] = [@ EXCEPT !.st = "stuck", !.fatal = daemon[s].fatal]]
    BY <1>4, <2>1
  <2> QED
    BY <1>2, <1>5, <2>1, <2>2
<1>8. ASSUME NEW f \in BOOLEAN, Daemon!Triggered(s, f), Daemon!Up(s),
             UNCHANGED <<live, file, starter, stopper, signalled>>
      PROVE  Goal
  <2>1. daemon' = [daemon EXCEPT ![s] = [@ EXCEPT !.st = "cleaning", !.fatal = Daemon!StaysFatal(s, f)]]
    BY <1>8 DEF Daemon!Triggered
  <2>2. Daemon!StaysFatal(s, f) \in BOOLEAN
    BY DEF Daemon!StaysFatal
  <2> QED
    BY <1>2, <1>8, <2>1, <2>2
<1>9. CASE Daemon!Hangup(s)
  BY <1>8, <1>9 DEF Daemon!Hangup, Daemon!Up
<1>10. CASE Daemon!FatalClose(s)
  BY <1>8, <1>10 DEF Daemon!FatalClose, Daemon!Up
<1>11. CASE Daemon!Crash(s)
  BY <1>3, <1>11 DEF Daemon!Crash
<1>12. CASE Daemon!CleanupEnds(s)
  <2>1. PICK how \in {"ok", "fatal"} : Daemon!Ends(s, how) /\ (how = "ok" => ~daemon[s].fatal)
    BY <1>12 DEF Daemon!CleanupEnds
  <2>2. Daemon!Up(s) /\ Daemon!Removed /\ UNCHANGED <<starter, stopper, signalled>>
    BY <1>12 DEF Daemon!CleanupEnds, Daemon!Up
  <2>3. daemon'[s].cleaned
    BY <2>1, <2>2, DaemonEnds
  <2> QED
    BY <1>3, <1>12, <2>1, <2>2, <2>3
<1>13. CASE Daemon!CleanupFails(s)
  BY <1>3, <1>13 DEF Daemon!CleanupFails, Daemon!KeepsFile, Daemon!Up
<1>14. ASSUME Daemon!Boot(s) \/ Daemon!Hang(s) \/ Daemon!Hangup(s) \/ Daemon!FatalClose(s) \/ Daemon!Crash(s)
              \/ Daemon!CleanupFails(s)
       PROVE  UNCHANGED file
  BY <1>14 DEF Daemon!Boot, Daemon!Hang, Daemon!Hangup, Daemon!FatalClose, Daemon!Crash, Daemon!CleanupFails,
               Daemon!KeepsFile
<1>15. CASE ~Daemon!CleanupEnds(s)
  <2>1. Goal
    BY <1>6, <1>7, <1>9, <1>10, <1>11, <1>13, <1>15
  <2> QED
    BY <1>14, <1>15, <2>1
<1> QED
  BY <1>12, <1>15

LEMMA NothingMoves ==
  ASSUME Anyhow, UNCHANGED <<live, starter, daemon>>
  PROVE  LivesFit
<1>1. \A p \in Pids : IdHolds(p)'
  BY DEF Anyhow, IdHolds, Daemon!Launching, Daemon!Up
<1>2. \A v \in Starters : StarterHolds(v)'
  BY DEF Anyhow, StarterHolds, Daemon!Launching, Daemon!Up, Spawned
<1>3. OnRecord \subseteq OnRecord'
  BY DEF OnRecord, Spawned
<1> QED
  BY <1>1, <1>2, <1>3 DEF LivesFit, Anyhow, DaemonTypes

(* A stop tells its next step; what it has on record stays. *)
LEMMA StopSays ==
  ASSUME Told, Anyhow, LivesFit, FileFits, NEW t \in Stoppers, Daemon!TermIsMeant',
         NEW pc \in {"poll", "confirm", "clear", "done"},
         NEW o \in {"none", "not-running", "cleanup-unconfirmed", "already-gone", "stopped", "killed"},
         Daemon!Says(t, pc, o), pc \in {"poll", "confirm"} => stopper[t].pc \in {"term", "poll"},
         pc = "confirm" => live'[stopper[t].rec.pid] # stopper[t].rec.id,
         pc \in {"clear", "done"} => stopper[t].pc \in {"idle", "confirm", "clear"}
  PROVE  /\ Anyhow' /\ (\A u \in Stoppers : u # t => stopper'[u] = stopper[u])
         /\ stopper'[t].pc = pc /\ stopper'[t].rec = stopper[t].rec /\ stopper'[t].outcome = o
<1>1. stopper[t] \in StopStates /\ StopHolds(t)
  BY DEF Anyhow, DaemonTypes
<1>2. PICK x \in StopStates : /\ x.pc = pc /\ x.rec = stopper[t].rec /\ x.outcome = o
                              /\ stopper' = [stopper EXCEPT ![t] = x]
  <2> DEFINE y == [stopper[t] EXCEPT !.pc = pc, !.outcome = o]
  <2>1. stopper' = [stopper EXCEPT ![t] = y]
    BY DEF Daemon!Says
  <2>2. y \in StopStates /\ y.pc = pc /\ y.rec = stopper[t].rec /\ y.outcome = o
    BY <1>1 DEF StopStates
  <2> HIDE DEF y
  <2> QED
    BY <2>1, <2>2
<1>3. pc \in {"poll", "confirm"} => x.rec # Daemon!NoRecord
  BY <1>1, <1>2 DEF StopHolds
<1>4. ASSUME pc \in {"confirm", "clear", "done"}, x.rec # Daemon!NoRecord, NEW p \in Pids
      PROVE  live'[p] # x.rec.id
  <2>1. x.rec \in OnRecord
    BY <1>1, <1>2 DEF StopHolds
  <2>2. x.rec.id # Daemon!NoProc /\ (live[p] = x.rec.id => p = x.rec.pid) /\ live'[p] \in {live[p], Daemon!NoProc}
    BY <1>4, <2>1, RecordedIs DEF LivesFit
  <2>3. pc # "confirm" => live[p] # x.rec.id
    BY <1>1, <1>2, <1>4 DEF StopHolds
  <2> QED
    BY <1>2, <1>4, <2>2, <2>3
<1> QED
  BY <1>1, <1>2, <1>3, <1>4, StopMoves DEF StopHolds

(* Whom a stop that waits has before it: the SIGTERM's is the process judged. *)
LEMMA TargetIs ==
  ASSUME Anyhow, NEW t \in Stoppers, stopper[t].pc \in {"term", "poll"}, Daemon!Target(t) # Daemon!NoProc
  PROVE  /\ stopper[t].rec \in OnRecord /\ stopper[t].rec # Daemon!NoRecord /\ stopper[t].rec.pid \in Pids
         /\ Daemon!Target(t) \in Processes
         /\ stopper[t].pc = "term" =>
              Daemon!Target(t) = stopper[t].rec.id /\ Daemon!Target(t).kind \in {"launcher", "daemon"}
         /\ Daemon!Target(t).kind = "launcher" =>
              /\ Daemon!Target(t).of \in Starters /\ Daemon!Launching(Daemon!Target(t).of)
              /\ starter[Daemon!Target(t).of].pid = stopper[t].rec.pid
         /\ Daemon!Target(t).kind = "daemon" =>
              /\ Daemon!Target(t).of \in Starters /\ Daemon!Up(Daemon!Target(t).of)
              /\ starter[Daemon!Target(t).of].child = stopper[t].rec.pid
<1>1. StopHolds(t) /\ stopper[t].rec \in OnRecord /\ stopper[t].rec # Daemon!NoRecord
  BY DEF Anyhow, StopHolds
<1>2. stopper[t].rec.pid \in Pids /\ stopper[t].rec.id.kind \in {"launcher", "daemon"}
  BY <1>1, RecordedIs
<1>3. IdHolds(stopper[t].rec.pid) /\ live[stopper[t].rec.pid] \in Processes
  BY <1>2 DEF Anyhow, DaemonTypes
<1> QED
  BY <1>1, <1>2, <1>3 DEF IdHolds, StopHolds, Daemon!Target

LEMMA TermHolds ==
  ASSUME Told, Anyhow, NEW t \in Stoppers, Daemon!Term(t)
  PROVE  /\ Anyhow' /\ UNCHANGED file /\ (\A u \in Stoppers : u # t => stopper'[u] = stopper[u])
         /\ stopper'[t].pc \in {"poll", "confirm"} /\ stopper'[t].rec = stopper[t].rec
         /\ stopper'[t].pc = "confirm" => Daemon!Target(t) = Daemon!NoProc
         /\ UNCHANGED starter \/ stopper[t].rec.id.kind = "launcher"
         /\ (\A v \in Starters : Daemon!Up(v)' => Daemon!Up(v))
         /\ \A v \in Starters : daemon[v].cleaned => daemon'[v].cleaned
<1>1. stopper[t].pc = "term" /\ UNCHANGED file
  BY DEF Daemon!Term
<1>2. CASE Daemon!Target(t) = Daemon!NoProc
  <2>1. Daemon!Says(t, "confirm", "already-gone") /\ UNCHANGED <<live, starter, daemon, signalled>>
    BY <1>2 DEF Daemon!Term
  <2>2. LivesFit /\ FileFits /\ Daemon!TermIsMeant'
    BY <1>1, <2>1, NothingMoves, FileStays DEF LivesFit, Anyhow, Daemon!TermIsMeant
  <2>3. live'[stopper[t].rec.pid] # stopper[t].rec.id
    <3>1. stopper[t].rec \in OnRecord /\ stopper[t].rec # Daemon!NoRecord
      BY <1>1 DEF Anyhow, StopHolds
    <3> QED
      BY <1>2, <2>1, <3>1, RecordedIs DEF Daemon!Target
  <2> QED
    BY <1>1, <1>2, <2>1, <2>2, <2>3, StopSays DEF Daemon!Up
<1>3. CASE Daemon!Target(t) # Daemon!NoProc
  <2> DEFINE g == Daemon!Target(t)
             Matches == /\ LivesFit /\ (UNCHANGED starter \/ g.kind = "launcher")
                     /\ (\A v \in Starters : Daemon!Up(v)' => Daemon!Up(v))
                     /\ \A v \in Starters : daemon[v].cleaned => daemon'[v].cleaned
  <2>1. /\ Daemon!Says(t, "poll", "none") /\ Daemon!Terminates(g)
        /\ signalled' = signalled \cup {[sig |-> "term", to |-> g, meant |-> stopper[t].rec.id]}
    BY <1>3 DEF Daemon!Term, Daemon!Signals
  <2>2. /\ g = stopper[t].rec.id /\ g.of \in Starters /\ g.kind \in {"launcher", "daemon"}
        /\ g.kind = "launcher" => Daemon!Launching(g.of)
        /\ g.kind = "daemon" => Daemon!Up(g.of)
    BY <1>1, <1>3, TargetIs
  <2> HIDE DEF g
  <2>3. Matches
    <3>1. CASE g.kind = "launcher"
      <4>1. Daemon!Exits(g.of, "killed") /\ UNCHANGED daemon
        BY <2>1, <3>1 DEF Daemon!Terminates
      <4>2. LivesFit
        BY <2>2, <3>1, <4>1, LauncherExits
      <4> QED
        BY <3>1, <4>1, <4>2 DEF Daemon!Up
    <3>2. CASE g.kind = "daemon" /\ daemon[g.of].st = "booting"
      <4>1. Daemon!Ends(g.of, "crashed") /\ UNCHANGED starter
        BY <2>1, <3>2 DEF Daemon!Terminates
      <4>2. /\ LivesFit /\ (\A v \in Starters : v # g.of => daemon'[v] = daemon[v])
            /\ \A v \in Starters : Daemon!Up(v)' <=> Daemon!Up(v) /\ v # g.of
        BY <2>2, <3>2, <4>1, DaemonEnds
      <4>3. ~daemon[g.of].cleaned
        BY <2>2, <3>2 DEF Anyhow, StarterHolds
      <4> QED
        BY <4>1, <4>2, <4>3
    <3>3. CASE g.kind = "daemon" /\ daemon[g.of].st \notin {"booting", "stuck"}
      <4>1. Daemon!Triggered(g.of, FALSE) /\ UNCHANGED <<live, starter>>
        BY <2>1, <3>3 DEF Daemon!Terminates
      <4>2. Daemon!StaysFatal(g.of, FALSE) \in BOOLEAN /\ daemon[g.of] \in DaemonStates
        BY <2>2 DEF Daemon!StaysFatal, Anyhow, DaemonTypes
      <4>3. PICK x \in DaemonStates : /\ x.st = "cleaning" /\ x.end = daemon[g.of].end
                                      /\ x.cleaned = daemon[g.of].cleaned /\ daemon' = [daemon EXCEPT ![g.of] = x]
        <5>1. \A d \in DaemonStates, f \in BOOLEAN : [d EXCEPT !.st = "cleaning", !.fatal = f]
                \in {e \in DaemonStates : e.st = "cleaning" /\ e.end = d.end /\ e.cleaned = d.cleaned}
          BY DEF DaemonStates
        <5> DEFINE y == [daemon[g.of] EXCEPT !.st = "cleaning", !.fatal = Daemon!StaysFatal(g.of, FALSE)]
        <5>2. daemon' = [daemon EXCEPT ![g.of] = y]
          BY <4>1 DEF Daemon!Triggered
        <5>3. y \in {e \in DaemonStates : /\ e.st = "cleaning" /\ e.end = daemon[g.of].end
                                          /\ e.cleaned = daemon[g.of].cleaned}
          BY <4>2, <5>1
        <5> HIDE DEF y
        <5> QED
          BY <5>2, <5>3
      <4>4. LivesFit /\ \A v \in Starters : (Daemon!Up(v)' <=> Daemon!Up(v)) /\ daemon'[v].cleaned = daemon[v].cleaned
        BY <2>2, <3>3, <4>1, <4>3, DaemonGoesOn
      <4> QED
        BY <4>1, <4>4
    <3>4. CASE g.kind = "daemon" /\ daemon[g.of].st = "stuck"
      <4>1. UNCHANGED <<live, starter, daemon>>
        BY <2>1, <3>4 DEF Daemon!Terminates
      <4> QED
        BY <4>1, NothingMoves DEF Daemon!Up
    <3> QED
      BY <2>2, <3>1, <3>2, <3>3, <3>4
  <2>4. FileFits
    BY <1>1, <2>3, FileStays DEF LivesFit
  <2>5. Daemon!TermIsMeant'
    BY <2>1, <2>2 DEF Anyhow, Daemon!TermIsMeant
  <2> HIDE DEF Matches
  <2>6. LivesFit
    BY <2>3 DEF Matches
  <2>7. /\ Anyhow' /\ (\A u \in Stoppers : u # t => stopper'[u] = stopper[u])
        /\ stopper'[t].pc = "poll" /\ stopper'[t].rec = stopper[t].rec
    BY <1>1, <2>1, <2>4, <2>5, <2>6, StopSays
  <2> QED
    BY <1>1, <2>2, <2>3, <2>7 DEF Matches
<1> QED
  BY <1>2, <1>3

LEMMA EscalateHolds ==
  ASSUME Told, Anyhow, NEW t \in Stoppers, Daemon!Escalate(t)
  PROVE  /\ Anyhow' /\ UNCHANGED file /\ (\A u \in Stoppers : u # t => stopper'[u] = stopper[u])
         /\ stopper[t].pc = "poll" /\ stopper'[t].pc = "confirm" /\ stopper'[t].rec = stopper[t].rec
         /\ (UNCHANGED starter \/ \E v \in Starters : Daemon!Launching(v))
         /\ (\A v \in Starters : Daemon!Up(v)' => Daemon!Up(v) /\ Daemon!Target(t) # Daemon!Proc("daemon", v))
         /\ \A v \in Starters : daemon[v].cleaned => daemon'[v].cleaned
<1> DEFINE g == Daemon!Target(t)
           id == stopper[t].rec.pid
           Matches == /\ LivesFit /\ live'[id] = Daemon!NoProc
                   /\ (UNCHANGED starter \/ \E v \in Starters : Daemon!Launching(v))
                   /\ (\A v \in Starters : Daemon!Up(v)' => Daemon!Up(v) /\ g # Daemon!Proc("daemon", v))
                   /\ \A v \in Starters : daemon[v].cleaned => daemon'[v].cleaned
<1>1. /\ stopper[t].pc = "poll" /\ UNCHANGED file /\ g # Daemon!NoProc /\ g = live[id]
      /\ Daemon!Says(t, "confirm", "killed")
      /\ signalled' = signalled \cup {[sig |-> "kill", to |-> g, meant |-> stopper[t].rec.id]}
      /\ IF g.kind = "daemon" THEN Daemon!Ends(g.of, "killed") /\ UNCHANGED starter
         ELSE IF g.kind = "launcher" THEN Daemon!Exits(g.of, "killed") /\ UNCHANGED daemon
         ELSE live' = [live EXCEPT ![id] = Daemon!NoProc] /\ UNCHANGED <<starter, daemon>>
  BY DEF Daemon!Escalate, Daemon!MayEscalate, Daemon!Signals, Daemon!Target
<1>2. /\ stopper[t].rec \in OnRecord /\ stopper[t].rec # Daemon!NoRecord /\ id \in Pids
      /\ g.kind = "launcher" => g.of \in Starters /\ Daemon!Launching(g.of) /\ starter[g.of].pid = id
      /\ g.kind = "daemon" => g.of \in Starters /\ Daemon!Up(g.of) /\ starter[g.of].child = id
      /\ live \in [Pids -> Processes]
  BY <1>1, TargetIs DEF Anyhow, DaemonTypes
<1>3. \A v : Daemon!Proc("daemon", v).kind = "daemon" /\ Daemon!Proc("daemon", v).of = v
  BY DEF Daemon!Proc
<1> HIDE DEF g, id
<1>4. Matches
  <2>1. CASE g.kind = "launcher"
    <3>1. LivesFit
      BY <1>1, <1>2, <2>1, LauncherExits
    <3>2. live'[id] = Daemon!NoProc
      BY <1>1, <1>2, <2>1 DEF Daemon!Exits
    <3> QED
      BY <1>1, <1>2, <1>3, <2>1, <3>1, <3>2 DEF Daemon!Up
  <2>2. CASE g.kind = "daemon"
    <3>1. /\ LivesFit /\ (\A v \in Starters : v # g.of => daemon'[v] = daemon[v])
          /\ (\A v \in Starters : Daemon!Up(v)' <=> Daemon!Up(v) /\ v # g.of)
          /\ live'[id] = Daemon!NoProc
      BY <1>1, <1>2, <2>2, DaemonEnds
    <3>2. ~daemon[g.of].cleaned
      BY <1>2, <2>2 DEF Anyhow, StarterHolds
    <3> QED
      BY <1>1, <1>3, <2>2, <3>1, <3>2
  <2>3. CASE g.kind \notin {"launcher", "daemon"}
    <3>1. live' = [live EXCEPT ![id] = Daemon!NoProc] /\ UNCHANGED <<starter, daemon>>
      BY <1>1, <2>3
    <3>2. LivesFit
      BY <1>1, <1>2, <2>3, <3>1, StrangerGoes
    <3>3. live'[id] = Daemon!NoProc
      BY <1>2, <3>1
    <3> QED
      BY <1>3, <2>3, <3>1, <3>2, <3>3 DEF Daemon!Up
  <2> QED
    BY <2>1, <2>2, <2>3
<1>5. FileFits
  BY <1>1, <1>4, FileStays DEF LivesFit
<1>6. Daemon!TermIsMeant'
  BY <1>1 DEF Anyhow, Daemon!TermIsMeant
<1> HIDE DEF Matches
<1>7. LivesFit /\ live'[id] # stopper[t].rec.id
  BY <1>2, <1>4, RecordedIs DEF Matches
<1>8. /\ Anyhow' /\ (\A u \in Stoppers : u # t => stopper'[u] = stopper[u])
      /\ stopper'[t].pc = "confirm" /\ stopper'[t].rec = stopper[t].rec
  BY <1>1, <1>5, <1>6, <1>7, StopSays DEF id
<1> QED
  BY <1>1, <1>4, <1>8 DEF Matches, g

(* The steps of a stop that touch no process. *)
LEMMA StopGoesOn ==
  ASSUME Told, Anyhow, NEW t \in Stoppers,
         \/ Daemon!StopLooks(t) \/ Daemon!Gone(t) \/ Daemon!Confirm(t) \/ Daemon!Clear(t)
  PROVE  /\ Anyhow' /\ UNCHANGED <<starter, daemon>>
         /\ \A u \in Stoppers : u # t => stopper'[u] = stopper[u]
<1> DEFINE Takes == /\ Daemon!inspectDaemon = "running"
                    /\ stopper' = [stopper EXCEPT ![t] = [@ EXCEPT !.pc = "term", !.rec = file.rec]]
           Goal == Anyhow' /\ \A u \in Stoppers : u # t => stopper'[u] = stopper[u]
<1>0. UNCHANGED <<live, starter, daemon, signalled>>
  BY DEF Daemon!StopLooks, Daemon!Gone, Daemon!Confirm, Daemon!Clear
<1>1. LivesFit /\ Daemon!TermIsMeant' /\ stopper[t] \in StopStates /\ StopHolds(t)
  BY <1>0, NothingMoves DEF Anyhow, Daemon!TermIsMeant, DaemonTypes
<1>2. UNCHANGED file \/ Daemon!Removed
  BY DEF Daemon!StopLooks, Daemon!Gone, Daemon!Confirm, Daemon!Clear
<1>3. FileFits
  BY <1>1, <1>2, FileStays, FileGoes DEF LivesFit
<1>4. ASSUME NEW pc \in {"clear", "done"},
             NEW o \in {"none", "not-running", "cleanup-unconfirmed", "already-gone", "stopped", "killed"},
             Daemon!Says(t, pc, o), stopper[t].pc \in {"idle", "confirm", "clear"}
      PROVE  Goal
  BY <1>1, <1>3, <1>4, StopSays
<1>5. CASE Daemon!StopLooks(t)
  <2>1. CASE Takes
    <3>1. /\ file.rec # Daemon!NoRecord /\ file.rec \in OnRecord /\ live[file.rec.pid] = file.rec.id
          /\ file.rec \in PidRecords
      BY <2>1 DEF Daemon!inspectDaemon, Daemon!processIsOurs, Told, Anyhow, DaemonTypes, PidFiles
    <3>2. PICK x \in StopStates : x.pc = "term" /\ x.rec = file.rec /\ stopper' = [stopper EXCEPT ![t] = x]
      <4> DEFINE y == [stopper[t] EXCEPT !.pc = "term", !.rec = file.rec]
      <4>1. stopper' = [stopper EXCEPT ![t] = y]
        BY <2>1
      <4>2. y \in StopStates /\ y.pc = "term" /\ y.rec = file.rec
        BY <1>1, <3>1 DEF StopStates
      <4> HIDE DEF y
      <4> QED
        BY <4>1, <4>2
    <3>3. live'[x.rec.pid] \in {x.rec.id, Daemon!NoProc}
      BY <1>0, <3>1, <3>2
    <3> QED
      BY <1>0, <1>1, <1>3, <3>1, <3>2, <3>3, StopMoves
  <2>2. CASE ~Takes
    <3>1. /\ \/ Daemon!Says(t, "done", "not-running") \/ Daemon!Says(t, "done", "cleanup-unconfirmed")
             \/ Daemon!Says(t, "clear", "already-gone")
          /\ stopper[t].pc = "idle"
      BY <1>5, <2>2 DEF Daemon!StopLooks
    <3> QED
      BY <1>0, <1>4, <3>1
  <2> QED
    BY <2>1, <2>2
<1>6. CASE Daemon!Gone(t)
  <2>1. stopper[t].pc = "poll" /\ Daemon!Target(t) = Daemon!NoProc /\ Daemon!Says(t, "confirm", "stopped")
    BY <1>6 DEF Daemon!Gone
  <2>2. stopper[t].rec.id # Daemon!NoProc
    BY <1>1, <2>1, RecordedIs DEF StopHolds
  <2>3. live'[stopper[t].rec.pid] # stopper[t].rec.id
    BY <1>0, <2>1, <2>2 DEF Daemon!Target
  <2> QED
    BY <1>0, <1>1, <1>3, <2>1, <2>3, StopSays
<1>7. CASE Daemon!Confirm(t)
  <2>1. /\ Daemon!Says(t, "done", "cleanup-unconfirmed") \/ Daemon!Says(t, "clear", stopper[t].outcome)
        /\ stopper[t].pc = "confirm"
    BY <1>7 DEF Daemon!Confirm
  <2>2. stopper[t].outcome \in {"none", "not-running", "cleanup-unconfirmed", "already-gone", "stopped", "killed"}
    BY <1>1 DEF StopStates
  <2> QED
    BY <1>0, <1>4, <2>1, <2>2
<1>8. CASE Daemon!Clear(t)
  <2>1. Daemon!Says(t, "done", stopper[t].outcome) /\ stopper[t].pc = "clear"
    BY <1>8 DEF Daemon!Clear
  <2>2. stopper[t].outcome \in {"none", "not-running", "cleanup-unconfirmed", "already-gone", "stopped", "killed"}
    BY <1>1 DEF StopStates
  <2> QED
    BY <1>0, <1>4, <2>1, <2>2
<1> QED
  BY <1>5, <1>6, <1>7, <1>8

(* Where commands come one after the other, a daemon that is up and whose     *)
(* launcher is done with it is the one that the commands find.                *)
LEMMA UpIsRunning ==
  ASSUME Told, Anyhow, NEW v \in Starters, Daemon!Up(v), file = FileOf(v)
  PROVE  /\ Daemon!inspectDaemon = "running" /\ file.rec.id = Daemon!Proc("daemon", v)
         /\ file.rec # Daemon!NoRecord /\ live[file.rec.pid] = file.rec.id /\ file.rec.id # Daemon!NoProc
<1>1. /\ file.rec = Daemon!ChildRecord(v) /\ file.rec.pid = starter[v].child
      /\ file.rec.id = Daemon!Proc("daemon", v)
  BY DEF FileOf, Daemon!ChildRecord
<1>2. starter[v].child \in Pids /\ live[starter[v].child] = Daemon!Proc("daemon", v)
  BY DEF Anyhow, StarterHolds
<1>3. Daemon!Proc("daemon", v) # Daemon!NoProc
  BY DEF Daemon!Proc, Daemon!NoProc
<1>4. file.rec # Daemon!NoRecord
  BY <1>1, <1>3 DEF Daemon!NoRecord
<1> QED
  BY <1>1, <1>2, <1>3, <1>4 DEF Daemon!inspectDaemon, Daemon!processIsOurs, Told

LEMMA OneIsUp ==
  ASSUME Told, Anyhow, InTurn, NEW v \in Starters, NEW w \in Starters, Daemon!Up(v), Daemon!Up(w)
  PROVE  v = w
<1>1. CASE \E s \in Starters : starter[s].pc \in {"record", "grace"}
  BY <1>1 DEF InTurn, LaunchKnows
<1>2. CASE ~\E s \in Starters : starter[s].pc \in {"record", "grace"}
  <2>1. \A s \in Starters : Daemon!Up(s) => ~Daemon!Launching(s)
    <3> SUFFICES ASSUME NEW s \in Starters, Daemon!Up(s), Daemon!Launching(s) PROVE FALSE
      OBVIOUS
    <3>1. Spawned(s)
      BY DEF Anyhow, StarterHolds
    <3>2. starter[s].pc = "release"
      BY <1>2, <3>1 DEF Spawned, Daemon!Launching
    <3> QED
      BY <3>2 DEF InTurn, LaunchKnows, NoneUp
  <2>2. file = FileOf(v) /\ file = FileOf(w)
    BY <2>1 DEF InTurn, LaunchKnows
  <2>3. Daemon!Proc("daemon", v) = Daemon!Proc("daemon", w)
    BY <2>2, UpIsRunning
  <2> QED
    BY <2>3 DEF Daemon!Proc
<1> QED
  BY <1>1, <1>2

(* A launcher's step, as far as it disturbs what the commands know. *)
LEMMA LauncherTurn ==
  ASSUME Told, Anyhow, InTurn, NEW s \in Starters, Daemon!Launching(s) \/ (Daemon!NoneLaunches /\ Daemon!NoneStops),
         \A v \in Starters : v # s => starter'[v] = starter[v], UNCHANGED stopper,
         \A v \in Starters : daemon[v].cleaned => daemon'[v].cleaned,
         LaunchKnows(s)',
         UNCHANGED file \/ (\A v \in Starters : v # s => ~Daemon!Up(v)),
         \A v \in Starters : v # s => daemon'[v] = daemon[v]
  PROVE  InTurn'
<1>1. \A v \in Starters : v # s => ~Daemon!Launching(v)
  BY DEF InTurn, Daemon!NoneLaunches
<1>2. \A t \in Stoppers : ~Daemon!Stopping(t)
  BY DEF InTurn, Daemon!NoneStops
<1>3. \A v \in Starters : v # s => ~Daemon!Launching(v)' /\ (Daemon!Up(v)' <=> Daemon!Up(v)) /\ FileOf(v)' = FileOf(v)
  BY <1>1 DEF Daemon!Launching, Daemon!Up, FileOf, Daemon!ChildRecord
<1>4. ASSUME NEW v \in Starters, v # s
      PROVE  LaunchKnows(v)'
  <2>1. Daemon!Up(v)' => file' = FileOf(v)'
    BY <1>1, <1>3, <1>4 DEF InTurn, LaunchKnows
  <2>2. starter'[v].pc \notin {"unlink", "write", "spawn", "release", "record", "grace"}
    BY <1>3, <1>4 DEF Daemon!Launching
  <2> QED
    BY <2>1, <2>2 DEF LaunchKnows
<1>5. \A v \in Starters : LaunchKnows(v)'
  BY <1>4
<1>6. \A t \in Stoppers : ~Daemon!Stopping(t)'
  BY <1>2 DEF Daemon!Stopping
<1>7. \A t \in Stoppers : StopKnows(t)'
  <2> SUFFICES ASSUME NEW t \in Stoppers PROVE StopKnows(t)'
    OBVIOUS
  <2>1. stopper'[t] = stopper[t] /\ stopper[t].pc \notin {"term", "poll", "confirm", "clear"} /\ StopKnows(t)
    BY <1>2 DEF InTurn, Daemon!Stopping
  <2>2. stopper[t].rec.id.kind = "daemon" => stopper[t].rec.id.of \in Starters
    BY DEF Anyhow, StopHolds, OnRecord, Daemon!NoRecord, Daemon!NoProc, Daemon!Proc
  <2> QED
    BY <2>1, <2>2 DEF StopKnows
<1>8. \A v, w \in Starters : Daemon!Launching(v)' /\ Daemon!Launching(w)' => v = w
  BY <1>3
<1> QED
  BY <1>5, <1>6, <1>7, <1>8 DEF InTurn

LEMMA LauncherTakesTurn ==
  ASSUME Told, Anyhow, InTurn, NEW s \in Starters, may = {}, Anyhow',
         \/ Daemon!Open(s) \/ Daemon!Look(s) \/ Daemon!Unlink(s) \/ Daemon!GiveUp(s) \/ Daemon!Write(s)
         \/ Daemon!SpawnFails(s) \/ Daemon!WriteRecord(s) \/ Daemon!Survives(s) \/ Daemon!DiesYoung(s)
         \/ Daemon!Release(s)
  PROVE  InTurn'
<1>1. /\ UNCHANGED daemon /\ starter'[s].child = starter[s].child /\ starter'[s].budget = starter[s].budget
      /\ \A v \in Starters : v # s => starter'[v] = starter[v]
  BY LauncherHolds
<1>2. /\ StarterHolds(s) /\ LaunchKnows(s) /\ starter[s] \in StarterStates
      /\ starter \in [Starters -> StarterStates]
  BY DEF Anyhow, InTurn, DaemonTypes
<1>3. UNCHANGED stopper
  BY DEF Daemon!Open, Daemon!Look, Daemon!Unlink, Daemon!GiveUp, Daemon!Write, Daemon!SpawnFails, Daemon!WriteRecord,
         Daemon!Survives, Daemon!DiesYoung, Daemon!Release
<1>4. Daemon!Launching(s)
  BY DEF Daemon!Open, Daemon!Look, Daemon!Unlink, Daemon!GiveUp, Daemon!Write, Daemon!SpawnFails, Daemon!WriteRecord,
         Daemon!Survives, Daemon!DiesYoung, Daemon!Release, Daemon!Launching
<1>5. /\ \A v \in Starters : Daemon!Up(v)' <=> Daemon!Up(v)
      /\ FileOf(s)' = FileOf(s)
  BY <1>1 DEF Daemon!Up, FileOf, Daemon!ChildRecord
<1>6. \A pc \in {"look", "unlink", "write", "spawn", "grace", "release", "done", "refused", "failed"} : Daemon!Go(s, pc) => starter'[s].pc = pc
  BY <1>2 DEF Daemon!Go, StarterStates
<1>7. \A v \in Starters : v # s => (Daemon!Up(v) => file = FileOf(v))
  BY <1>4 DEF InTurn, LaunchKnows
<1>8. ~Spawned(s) => ~Daemon!Up(s)
  BY <1>2 DEF StarterHolds
<1>9. SUFFICES /\ LaunchKnows(s)'
               /\ UNCHANGED file \/ (\A v \in Starters : v # s => ~Daemon!Up(v))
  BY <1>1, <1>3, <1>4, LauncherTurn
<1>10. CASE Daemon!Open(s)
  <2>1. ~Daemon!Up(s)
    BY <1>8, <1>10 DEF Daemon!Open, Spawned
  <2>2. CASE Daemon!Exclusive
    <3>1. NoneUp
      BY <1>7, <2>1, <2>2 DEF NoneUp, FileOf, Daemon!Exclusive
    <3> QED
      BY <1>5, <1>6, <1>10, <2>2, <3>1 DEF Daemon!Open, LaunchKnows, NoneUp
  <2>3. CASE ~Daemon!Exclusive
    BY <1>5, <1>6, <1>10, <2>1, <2>3 DEF Daemon!Open, LaunchKnows
  <2> QED
    BY <2>2, <2>3
<1>11. CASE Daemon!Look(s)
  <2>1. ~Daemon!Up(s) /\ UNCHANGED file
    BY <1>8, <1>11 DEF Daemon!Look, Spawned
  <2>2. CASE Daemon!inspectDaemon = "running"
    BY <1>5, <1>6, <1>11, <2>1, <2>2 DEF Daemon!Look, Daemon!Exits, LaunchKnows
  <2>3. CASE Daemon!inspectDaemon # "running"
    <3>1. NoneUp
      BY <1>7, <2>1, <2>3, UpIsRunning DEF NoneUp
    <3> QED
      BY <1>5, <1>6, <1>11, <2>1, <2>3, <3>1 DEF Daemon!Look, LaunchKnows, NoneUp
  <2> QED
    BY <2>2, <2>3
<1>12. CASE Daemon!Unlink(s)
  <2>1. NoneUp
    BY <1>2, <1>12 DEF Daemon!Unlink, LaunchKnows
  <2>2. starter'[s].pc = "open"
    <3> DEFINE y == [starter[s] EXCEPT !.pc = "open", !.attempt = @ + 1]
    <3>1. starter' = [starter EXCEPT ![s] = y]
      BY <1>2, <1>12 DEF Daemon!Unlink
    <3>2. y.pc = "open"
      BY <1>2 DEF StarterStates
    <3> HIDE DEF y
    <3> QED
      BY <1>2, <3>1, <3>2
  <2> QED
    BY <1>5, <2>1, <2>2 DEF LaunchKnows, NoneUp
<1>13. CASE Daemon!GiveUp(s)
  <2>1. ~Daemon!Up(s) /\ UNCHANGED file /\ starter'[s].pc = "refused"
    BY <1>6, <1>8, <1>13 DEF Daemon!GiveUp, Spawned, Daemon!Exits
  <2> QED
    BY <1>5, <2>1 DEF LaunchKnows
<1>14. CASE Daemon!Write(s)
  <2>1. NoneUp /\ starter'[s].pc = "spawn"
    BY <1>2, <1>6, <1>14 DEF Daemon!Write, LaunchKnows
  <2> QED
    BY <1>5, <2>1 DEF LaunchKnows, NoneUp
<1>15. CASE Daemon!SpawnFails(s)
  <2>1. NoneUp /\ starter'[s].pc = "release"
    BY <1>2, <1>6, <1>15 DEF Daemon!SpawnFails, LaunchKnows
  <2> QED
    BY <1>5, <2>1 DEF LaunchKnows, NoneUp
<1>16. CASE Daemon!WriteRecord(s)
  <2>1. /\ starter'[s].pc = "grace" /\ file' = FileOf(s)
        /\ \A v \in Starters : Daemon!Up(v) => v = s
    BY <1>2, <1>6, <1>16 DEF Daemon!WriteRecord, LaunchKnows, FileOf
  <2> QED
    BY <1>5, <2>1 DEF LaunchKnows
<1>17. CASE Daemon!Survives(s)
  <2>1. starter'[s].pc = "done" /\ UNCHANGED file /\ file = FileOf(s)
    BY <1>2, <1>6, <1>17 DEF Daemon!Survives, LaunchKnows, Daemon!Exits
  <2> QED
    BY <1>5, <2>1 DEF LaunchKnows
<1>18. CASE Daemon!DiesYoung(s)
  <2>1. starter'[s].pc = "release" /\ UNCHANGED file /\ NoneUp
    BY <1>2, <1>6, <1>18 DEF Daemon!DiesYoung, LaunchKnows, NoneUp
  <2> QED
    BY <1>5, <2>1 DEF LaunchKnows, NoneUp
<1>19. CASE Daemon!Release(s)
  <2>1. starter'[s].pc = "failed" /\ NoneUp
    BY <1>2, <1>6, <1>19 DEF Daemon!Release, LaunchKnows, Daemon!Exits
  <2> QED
    BY <1>5, <2>1 DEF LaunchKnows, NoneUp
<1> QED
  BY <1>10, <1>11, <1>12, <1>13, <1>14, <1>15, <1>16, <1>17, <1>18, <1>19

LEMMA StartTakesTurn ==
  ASSUME Told, Anyhow, InTurn, NEW s \in Starters, NEW p \in Pids, NEW b \in Modes, may = {}, Daemon!Start(s, p, b)
  PROVE  InTurn'
<1>1. /\ starter[s].pc = "idle" /\ starter'[s].pc = "open"
      /\ \A v \in Starters : v # s => starter'[v] = starter[v]
  BY StartHolds
<1>2. Daemon!NoneLaunches /\ Daemon!NoneStops /\ UNCHANGED <<file, daemon, stopper>>
  BY DEF Daemon!Start
<1>3. ~Daemon!Up(s)'
  BY <1>1, <1>2 DEF Anyhow, StarterHolds, Spawned, Daemon!Up, Daemon!NoDaemon
<1>4. LaunchKnows(s)'
  BY <1>1, <1>3 DEF LaunchKnows
<1> QED
  BY <1>1, <1>2, <1>4, LauncherTurn

LEMMA SpawnTakesTurn ==
  ASSUME Told, Anyhow, InTurn, NEW s \in Starters, NEW q \in Pids, Daemon!Spawn(s, q)
  PROVE  InTurn'
<1>1. /\ starter'[s].pc = "record" /\ ~daemon'[s].cleaned
      /\ \A v \in Starters : v # s => starter'[v] = starter[v] /\ daemon'[v] = daemon[v]
  BY SpawnHolds
<1>2. starter[s].pc = "spawn" /\ UNCHANGED <<file, stopper>>
  BY DEF Daemon!Spawn
<1>3. Daemon!Launching(s) /\ NoneUp /\ ~daemon[s].cleaned
  BY <1>2 DEF Daemon!Launching, InTurn, LaunchKnows, Anyhow, StarterHolds, Spawned, Daemon!NoDaemon
<1>4. \A v \in Starters : Daemon!Up(v)' => v = s
  BY <1>1, <1>3 DEF NoneUp, Daemon!Up
<1>5. Daemon!Launching(s)'
  BY <1>1 DEF Daemon!Launching
<1>6. LaunchKnows(s)'
  BY <1>1, <1>4, <1>5 DEF LaunchKnows
<1> QED
  BY <1>1, <1>2, <1>3, <1>6, LauncherTurn

LEMMA DaemonTakesTurn ==
  ASSUME Told, Anyhow, InTurn, NEW s \in Starters,
         \/ Daemon!Boot(s) \/ Daemon!Hang(s) \/ Daemon!Hangup(s) \/ Daemon!FatalClose(s) \/ Daemon!Crash(s)
         \/ Daemon!CleanupEnds(s) \/ Daemon!CleanupFails(s)
  PROVE  InTurn'
<1>1. /\ UNCHANGED <<starter, stopper>>
      /\ \A v \in Starters : Daemon!Up(v)' => Daemon!Up(v)
      /\ \A v \in Starters : daemon[v].cleaned => daemon'[v].cleaned
      /\ UNCHANGED file \/ (Daemon!CleanupEnds(s) /\ Daemon!Up(s) /\ daemon'[s].cleaned)
  BY DaemonHolds
<1>2. \A v \in Starters : (Daemon!Launching(v)' <=> Daemon!Launching(v)) /\ FileOf(v)' = FileOf(v)
  BY <1>1 DEF Daemon!Launching, FileOf, Daemon!ChildRecord
<1>3. \A t \in Stoppers : Daemon!Stopping(t)' <=> Daemon!Stopping(t)
  BY <1>1 DEF Daemon!Stopping
<1>4. NoneUp => NoneUp'
  BY <1>1 DEF NoneUp
<1>5. CASE UNCHANGED file
  <2>1. \A v \in Starters : LaunchKnows(v)'
    BY <1>1, <1>2, <1>4, <1>5 DEF InTurn, LaunchKnows
  <2>2. \A t \in Stoppers : StopKnows(t)'
    <3> SUFFICES ASSUME NEW t \in Stoppers PROVE StopKnows(t)'
      OBVIOUS
    <3>1. stopper[t].rec.id.kind = "daemon" => stopper[t].rec.id.of \in Starters
      BY DEF Anyhow, StopHolds, OnRecord, Daemon!NoRecord, Daemon!NoProc, Daemon!Proc
    <3> QED
      BY <1>1, <1>4, <1>5, <3>1 DEF InTurn, StopKnows
  <2> QED
    BY <1>2, <1>3, <2>1, <2>2 DEF InTurn
<1>6. CASE Daemon!CleanupEnds(s) /\ Daemon!Up(s) /\ daemon'[s].cleaned
  <2>1. file' = Daemon!NoFile /\ Daemon!NoFile.rec = Daemon!NoRecord
    BY <1>6 DEF Daemon!CleanupEnds, Daemon!Removed, Daemon!NoFile
  <2>2. \A v \in Starters : ~Daemon!Up(v)'
    <3>1. \A v \in Starters : Daemon!Up(v) => v = s
      BY <1>6, OneIsUp
    <3>2. ~Daemon!Up(s)'
      <4>1. PICK how \in {"ok", "fatal"} : Daemon!Ends(s, how) /\ (how = "ok" => ~daemon[s].fatal)
        BY <1>6 DEF Daemon!CleanupEnds
      <4> QED
        BY <1>1, <1>6, <4>1, DaemonEnds
    <3> QED
      BY <1>1, <3>1, <3>2
  <2>3. \A v \in Starters : LaunchKnows(v)'
    BY <1>1, <1>4, <2>2 DEF InTurn, LaunchKnows
  <2>4. \A t \in Stoppers : StopKnows(t)'
    <3> SUFFICES ASSUME NEW t \in Stoppers PROVE StopKnows(t)'
      OBVIOUS
    <3>1. stopper[t].rec.id.kind = "daemon" => stopper[t].rec.id.of \in Starters
      BY DEF Anyhow, StopHolds, OnRecord, Daemon!NoRecord, Daemon!NoProc, Daemon!Proc
    <3>2. stopper'[t] = stopper[t] /\ StopKnows(t)
      BY <1>1 DEF InTurn
    <3>3. ASSUME stopper[t].pc \in {"term", "poll", "confirm"}
          PROVE  daemon'[stopper[t].rec.id.of].cleaned
      <4>1. CASE file.rec = stopper[t].rec
        <5>1. ~Daemon!Launching(s)
          BY <3>3 DEF InTurn, Daemon!Stopping
        <5>2. file = FileOf(s)
          BY <1>6, <5>1 DEF InTurn, LaunchKnows
        <5>3. stopper[t].rec.id.of = s
          <6>1. file.rec.id = Daemon!Proc("daemon", s)
            BY <1>6, <5>2, UpIsRunning
          <6>2. Daemon!Proc("daemon", s).of = s
            BY DEF Daemon!Proc
          <6> QED
            BY <4>1, <6>1, <6>2
        <5> QED
          BY <1>6, <5>3
      <4>2. CASE file.rec # stopper[t].rec
        BY <1>1, <3>1, <3>2, <3>3, <4>2 DEF StopKnows
      <4> QED
        BY <4>1, <4>2
    <3> QED
      BY <1>1, <1>4, <2>1, <3>1, <3>2, <3>3 DEF StopKnows
  <2> QED
    BY <1>2, <1>3, <2>3, <2>4 DEF InTurn
<1> QED
  BY <1>1, <1>5, <1>6

(* A stop's step, as far as it disturbs what the commands know. *)
LEMMA StopTurn ==
  ASSUME Told, Anyhow, InTurn, NEW t \in Stoppers, Daemon!Stopping(t) \/ (Daemon!NoneLaunches /\ Daemon!NoneStops),
         UNCHANGED starter, \A u \in Stoppers : u # t => stopper'[u] = stopper[u],
         \A v \in Starters : Daemon!Up(v)' => Daemon!Up(v),
         \A v \in Starters : daemon[v].cleaned => daemon'[v].cleaned,
         UNCHANGED file \/ NoneUp, StopKnows(t)'
  PROVE  InTurn'
<1>1. (\A v \in Starters : ~Daemon!Launching(v)) /\ \A u \in Stoppers : u # t => ~Daemon!Stopping(u)
  BY DEF InTurn, Daemon!NoneLaunches, Daemon!NoneStops
<1>2. \A v \in Starters : ~Daemon!Launching(v)' /\ FileOf(v)' = FileOf(v)
  BY <1>1 DEF Daemon!Launching, FileOf, Daemon!ChildRecord
<1>3. \A u \in Stoppers : u # t => ~Daemon!Stopping(u)'
  BY <1>1 DEF Daemon!Stopping
<1>4. \A v \in Starters : LaunchKnows(v)'
  <2> SUFFICES ASSUME NEW v \in Starters PROVE LaunchKnows(v)'
    OBVIOUS
  <2>1. Daemon!Up(v)' => file' = FileOf(v)'
    BY <1>1, <1>2 DEF InTurn, LaunchKnows, NoneUp
  <2>2. starter'[v].pc \notin {"unlink", "write", "spawn", "release", "record", "grace"}
    BY <1>2 DEF Daemon!Launching
  <2> QED
    BY <2>1, <2>2 DEF LaunchKnows
<1>5. \A u \in Stoppers : StopKnows(u)'
  <2> SUFFICES ASSUME NEW u \in Stoppers, u # t PROVE StopKnows(u)'
    OBVIOUS
  <2>1. stopper'[u] = stopper[u] /\ stopper[u].pc \notin {"term", "poll", "confirm", "clear"} /\ StopKnows(u)
    BY <1>1 DEF InTurn, Daemon!Stopping
  <2>2. stopper[u].rec.id.kind = "daemon" => stopper[u].rec.id.of \in Starters
    BY DEF Anyhow, StopHolds, OnRecord, Daemon!NoRecord, Daemon!NoProc, Daemon!Proc
  <2> QED
    BY <2>1, <2>2 DEF StopKnows
<1> QED
  BY <1>2, <1>3, <1>4, <1>5 DEF InTurn

(* What a stop finds while it holds the turn: a daemon that is up is the one  *)
(* that the file has on record.                                               *)
LEMMA StopFinds ==
  ASSUME Told, Anyhow, InTurn, NEW t \in Stoppers, Daemon!Stopping(t) \/ (Daemon!NoneLaunches /\ Daemon!NoneStops),
         NEW v \in Starters, Daemon!Up(v)
  PROVE  /\ file = FileOf(v) /\ Daemon!inspectDaemon = "running" /\ file.rec # Daemon!NoRecord
         /\ file.rec.id = Daemon!Proc("daemon", v) /\ live[file.rec.pid] = file.rec.id
         /\ file.rec.id # Daemon!NoProc
<1>1. file = FileOf(v)
  BY DEF InTurn, LaunchKnows, Daemon!NoneLaunches
<1> QED
  BY <1>1, UpIsRunning

LEMMA StopTakesTurn ==
  ASSUME Told, Anyhow, InTurn, NEW t \in Stoppers, may = {},
         \/ Daemon!StopLooks(t) \/ Daemon!Term(t) \/ Daemon!Gone(t) \/ Daemon!Escalate(t) \/ Daemon!Confirm(t)
         \/ Daemon!Clear(t)
  PROVE  InTurn'
<1>1. StopKnows(t) /\ StopHolds(t) /\ stopper[t] \in StopStates /\ stopper \in [Stoppers -> StopStates]
  BY DEF InTurn, Anyhow, DaemonTypes
<1>2. /\ \A pc \in {"poll", "confirm", "clear", "done"} :
           \A o : Daemon!Says(t, pc, o) =>
             stopper'[t].pc = pc /\ stopper'[t].rec = stopper[t].rec /\ stopper'[t].outcome = o
  BY <1>1 DEF Daemon!Says, StopStates
<1>3. stopper[t].rec.id.kind = "daemon" => stopper[t].rec.id.of \in Starters
  BY <1>1 DEF StopHolds, OnRecord, Daemon!NoRecord, Daemon!NoProc, Daemon!Proc
<1>4. CASE Daemon!StopLooks(t)
  <2>1. /\ stopper[t].pc = "idle" /\ Daemon!NoneLaunches /\ Daemon!NoneStops
        /\ UNCHANGED <<file, starter, daemon>> /\ \A u \in Stoppers : u # t => stopper'[u] = stopper[u]
    BY <1>4, StopGoesOn DEF Daemon!StopLooks
  <2>2. \A v \in Starters : Daemon!Up(v)' <=> Daemon!Up(v)
    BY <2>1 DEF Daemon!Up
  <2>3. stopper[t].rec = Daemon!NoRecord /\ Daemon!NoRecord.budget = FALSE
    BY <1>1, <2>1 DEF StopHolds, Daemon!NoRecord
  <2>4. CASE Daemon!inspectDaemon = "running"
    <3>1. stopper'[t].pc = "term" /\ stopper'[t].rec = file.rec
      <4>1. stopper' = [stopper EXCEPT ![t] = [@ EXCEPT !.pc = "term", !.rec = file.rec]]
        BY <1>4, <2>4 DEF Daemon!StopLooks
      <4> QED
        BY <1>1, <4>1 DEF StopStates
    <3>2. file.rec # Daemon!NoRecord /\ live[file.rec.pid] = file.rec.id /\ file.rec \in OnRecord
      BY <2>4 DEF Daemon!inspectDaemon, Daemon!processIsOurs, Told, Anyhow
    <3>3. file.rec.pid \in Pids /\ file.rec.id.kind \in {"launcher", "daemon"}
      BY <3>2 DEF OnRecord
    <3>4. file.rec.id.kind = "daemon"
      BY <2>1, <3>2, <3>3 DEF Anyhow, IdHolds, Daemon!NoneLaunches
    <3>5. StopKnows(t)'
      BY <2>1, <3>1, <3>4 DEF StopKnows
    <3> QED
      BY <2>1, <2>2, <3>5, StopTurn
  <2>5. CASE Daemon!inspectDaemon # "running"
    <3>1. NoneUp'
      BY <2>1, <2>2, <2>5, StopFinds DEF NoneUp
    <3>2. stopper'[t].pc \in {"clear", "done"} /\ stopper'[t].rec = Daemon!NoRecord
      BY <1>2, <1>4, <2>3, <2>5 DEF Daemon!StopLooks
    <3>3. StopKnows(t)'
      BY <2>3, <3>1, <3>2 DEF StopKnows
    <3> QED
      BY <2>1, <2>2, <3>3, StopTurn
  <2> QED
    BY <2>4, <2>5
<1>5. ASSUME stopper[t].pc \in {"term", "poll"}, Daemon!Target(t) = Daemon!NoProc
      PROVE  NoneUp
  <2> SUFFICES ASSUME NEW v \in Starters, Daemon!Up(v) PROVE FALSE
    BY DEF NoneUp
  <2>1. Daemon!Stopping(t)
    BY <1>5 DEF Daemon!Stopping
  <2>2. /\ file.rec # Daemon!NoRecord /\ live[file.rec.pid] = file.rec.id /\ file.rec.id # Daemon!NoProc
    BY <2>1, StopFinds
  <2>3. file.rec = stopper[t].rec
    BY <1>1, <1>5, <2>2 DEF StopKnows
  <2> QED
    BY <1>5, <2>2, <2>3 DEF Daemon!Target
<1>6. CASE Daemon!Term(t)
  <2>1. /\ UNCHANGED file /\ (\A u \in Stoppers : u # t => stopper'[u] = stopper[u])
        /\ stopper'[t].pc \in {"poll", "confirm"} /\ stopper'[t].rec = stopper[t].rec
        /\ stopper'[t].pc = "confirm" => Daemon!Target(t) = Daemon!NoProc
        /\ UNCHANGED starter \/ stopper[t].rec.id.kind = "launcher"
        /\ (\A v \in Starters : Daemon!Up(v)' => Daemon!Up(v))
        /\ \A v \in Starters : daemon[v].cleaned => daemon'[v].cleaned
    BY <1>6, TermHolds
  <2>2. stopper[t].pc = "term" /\ stopper[t].rec.id.kind = "daemon" /\ Daemon!Stopping(t)
    BY <1>1, <1>6 DEF Daemon!Term, StopKnows, Daemon!Stopping
  <2>3. stopper'[t].pc = "confirm" => NoneUp'
    BY <1>5, <2>1, <2>2 DEF NoneUp
  <2>4. StopKnows(t)'
    BY <1>1, <1>3, <2>1, <2>2, <2>3 DEF StopKnows
  <2> QED
    BY <2>1, <2>2, <2>4, StopTurn
<1>7. CASE Daemon!Gone(t)
  <2>1. /\ stopper[t].pc = "poll" /\ Daemon!Stopping(t) /\ NoneUp /\ UNCHANGED <<file, starter, daemon>>
        /\ stopper'[t].pc = "confirm" /\ stopper'[t].rec = stopper[t].rec
        /\ \A u \in Stoppers : u # t => stopper'[u] = stopper[u]
    BY <1>2, <1>5, <1>7, StopGoesOn DEF Daemon!Gone, Daemon!Stopping
  <2>2. \A v \in Starters : Daemon!Up(v)' <=> Daemon!Up(v)
    BY <2>1 DEF Daemon!Up
  <2>3. StopKnows(t)'
    BY <1>1, <2>1, <2>2 DEF StopKnows, NoneUp
  <2> QED
    BY <2>1, <2>2, <2>3, StopTurn
<1>8. CASE Daemon!Escalate(t)
  <2>1. /\ UNCHANGED file /\ (\A u \in Stoppers : u # t => stopper'[u] = stopper[u])
        /\ stopper[t].pc = "poll" /\ stopper'[t].pc = "confirm" /\ stopper'[t].rec = stopper[t].rec
        /\ (UNCHANGED starter \/ \E v \in Starters : Daemon!Launching(v))
        /\ (\A v \in Starters : Daemon!Up(v)' => Daemon!Up(v) /\ Daemon!Target(t) # Daemon!Proc("daemon", v))
        /\ \A v \in Starters : daemon[v].cleaned => daemon'[v].cleaned
    BY <1>8, EscalateHolds
  <2>2. stopper[t].rec.id.kind = "daemon" /\ Daemon!Stopping(t) /\ UNCHANGED starter
    BY <1>1, <2>1 DEF StopKnows, Daemon!Stopping, InTurn
  <2>3. NoneUp'
    <3> SUFFICES ASSUME NEW v \in Starters, Daemon!Up(v)' PROVE FALSE
      BY DEF NoneUp
    <3>1. /\ file.rec # Daemon!NoRecord /\ file.rec.id = Daemon!Proc("daemon", v)
          /\ live[file.rec.pid] = file.rec.id
      BY <2>1, <2>2, StopFinds
    <3>2. file.rec = stopper[t].rec
      BY <1>1, <2>1, <3>1 DEF StopKnows
    <3> QED
      BY <2>1, <3>1, <3>2 DEF Daemon!Target
  <2>4. StopKnows(t)'
    BY <1>1, <1>3, <2>1, <2>2, <2>3 DEF StopKnows
  <2> QED
    BY <2>1, <2>2, <2>4, StopTurn
<1>9. CASE Daemon!Confirm(t)
  <2>1. /\ stopper[t].pc = "confirm" /\ Daemon!Stopping(t) /\ NoneUp /\ UNCHANGED <<file, starter, daemon>>
        /\ \A u \in Stoppers : u # t => stopper'[u] = stopper[u]
    BY <1>1, <1>9, StopGoesOn DEF Daemon!Confirm, Daemon!Stopping, StopKnows
  <2>2. \A v \in Starters : Daemon!Up(v)' <=> Daemon!Up(v)
    BY <2>1 DEF Daemon!Up
  <2>3. StopKnows(t)'
    <3>1. CASE Daemon!CleanupUnconfirmed(t)
      <4>1. stopper'[t].pc = "done" /\ stopper'[t].outcome = "cleanup-unconfirmed"
        BY <1>2, <1>9, <3>1 DEF Daemon!Confirm
      <4> QED
        BY <4>1 DEF StopKnows
    <3>2. CASE ~Daemon!CleanupUnconfirmed(t)
      <4>1. stopper'[t].pc = "clear" /\ stopper'[t].rec = stopper[t].rec
        BY <1>2, <1>9, <3>2 DEF Daemon!Confirm
      <4>2. stopper[t].rec.budget => daemon[stopper[t].rec.id.of].cleaned
        BY <1>1, <2>1, <3>2 DEF Daemon!CleanupUnconfirmed, StopKnows
      <4> QED
        BY <2>1, <2>2, <4>1, <4>2 DEF StopKnows, NoneUp
    <3> QED
      BY <3>1, <3>2
  <2> QED
    BY <2>1, <2>2, <2>3, StopTurn
<1>10. CASE Daemon!Clear(t)
  <2>1. /\ stopper[t].pc = "clear" /\ Daemon!Stopping(t) /\ NoneUp /\ UNCHANGED <<starter, daemon>>
        /\ stopper'[t].pc = "done" /\ stopper'[t].rec = stopper[t].rec /\ stopper'[t].outcome = stopper[t].outcome
        /\ \A u \in Stoppers : u # t => stopper'[u] = stopper[u]
    BY <1>1, <1>2, <1>10, StopGoesOn DEF Daemon!Clear, Daemon!Stopping, StopKnows
  <2>2. \A v \in Starters : Daemon!Up(v)' <=> Daemon!Up(v)
    BY <2>1 DEF Daemon!Up
  <2>3. StopKnows(t)'
    BY <1>1, <2>1 DEF StopKnows
  <2> QED
    BY <2>1, <2>2, <2>3, StopTurn
<1> QED
  BY <1>4, <1>6, <1>7, <1>8, <1>9, <1>10

(* The invariant of the daemon and its commands: who has an id, what the file *)
(* and a stop have on record, and, while commands come one after the other,   *)
(* that a launcher past its look found no daemon up, that a daemon that is up *)
(* is the file's, and that a file a daemon removed means its cleanup ended.   *)
THEOREM DaemonInvariant ==
  Told /\ Daemon!Spec => [](Told /\ DaemonInv)
<1> DEFINE Inv == Told /\ DaemonInv
<1>1. Told /\ Daemon!Init => Inv
  BY DaemonStarts
<1>2. Inv /\ [Daemon!Next]_(Daemon!vars) => Inv'
  <2> SUFFICES ASSUME Told, DaemonInv, [Daemon!Next]_(Daemon!vars) PROVE Inv'
    OBVIOUS
  <2>0. Told' /\ Anyhow
    BY DEF Told, Daemon!ConstantsOK, DaemonInv
  <2>1. ASSUME NEW p \in Pids, (\E k \in Strangers : Daemon!Reuse(p, k)) \/ Daemon!Leave(p)
        PROVE  Anyhow' /\ (InTurn => InTurn')
    <3>1. Anyhow'
      BY <2>0, <2>1, StrangerComes, StrangerLeaves
    <3>2. UNCHANGED <<file, starter, daemon, stopper>>
      BY <2>1 DEF Daemon!Reuse, Daemon!Leave
    <3> QED
      BY <3>1, <3>2 DEF InTurn, LaunchKnows, StopKnows, NoneUp, FileOf, Daemon!ChildRecord, Daemon!Launching,
                        Daemon!Stopping, Daemon!Up
  <2>2. ASSUME NEW s \in Starters, NEW p \in Pids, NEW b \in Modes, Daemon!Start(s, p, b)
        PROVE  Anyhow' /\ (may = {} /\ InTurn => InTurn')
    BY <2>0, <2>2, StartHolds, StartTakesTurn
  <2>3. ASSUME NEW s \in Starters, Daemon!StarterStep(s) \/ Daemon!Kill(s)
        PROVE  Anyhow' /\ (may = {} /\ InTurn => InTurn')
    <3>1. CASE \E q \in Pids : Daemon!Spawn(s, q)
      BY <2>0, <3>1, SpawnHolds, SpawnTakesTurn
    <3>2. CASE Daemon!Kill(s)
      <4>1. may # {}
        BY <3>2 DEF Daemon!Kill
      <4> QED
        BY <2>0, <3>2, <4>1, LauncherHolds
    <3>3. CASE \/ Daemon!Open(s) \/ Daemon!Look(s) \/ Daemon!Unlink(s) \/ Daemon!GiveUp(s) \/ Daemon!Write(s)
               \/ Daemon!SpawnFails(s) \/ Daemon!WriteRecord(s) \/ Daemon!Survives(s) \/ Daemon!DiesYoung(s)
               \/ Daemon!Release(s)
      <4>1. Anyhow'
        BY <2>0, <3>3, LauncherHolds
      <4> QED
        BY <2>0, <3>3, <4>1, LauncherTakesTurn
    <3> QED
      BY <2>3, <3>1, <3>2, <3>3 DEF Daemon!StarterStep
  <2>4. ASSUME NEW s \in Starters,
               \/ Daemon!Boot(s) \/ Daemon!Hang(s) \/ Daemon!Hangup(s) \/ Daemon!FatalClose(s) \/ Daemon!Crash(s)
               \/ Daemon!CleanupStep(s)
        PROVE  Anyhow' /\ (InTurn => InTurn')
    <3>1. \/ Daemon!Boot(s) \/ Daemon!Hang(s) \/ Daemon!Hangup(s) \/ Daemon!FatalClose(s) \/ Daemon!Crash(s)
          \/ Daemon!CleanupEnds(s) \/ Daemon!CleanupFails(s)
      BY <2>4 DEF Daemon!CleanupStep
    <3> QED
      BY <2>0, <3>1, DaemonHolds, DaemonTakesTurn
  <2>5. ASSUME NEW t \in Stoppers, Daemon!StopLooks(t) \/ Daemon!StopperStep(t)
        PROVE  Anyhow' /\ (may = {} /\ InTurn => InTurn')
    <3>1. \/ Daemon!StopLooks(t) \/ Daemon!Term(t) \/ Daemon!Gone(t) \/ Daemon!Escalate(t) \/ Daemon!Confirm(t)
          \/ Daemon!Clear(t)
      BY <2>5 DEF Daemon!StopperStep
    <3>2. Anyhow'
      BY <2>0, <3>1, TermHolds, EscalateHolds, StopGoesOn
    <3> QED
      BY <2>0, <3>1, <3>2, StopTakesTurn
  <2>6. CASE Daemon!Next
    <3>1. may' = may /\ Daemon!Acts
      BY <2>6 DEF Daemon!Next
    <3>2. Anyhow' /\ (may = {} /\ InTurn => InTurn')
      BY <2>1, <2>2, <2>3, <2>4, <2>5, <3>1 DEF Daemon!Acts
    <3> QED
      BY <2>0, <3>1, <3>2 DEF DaemonInv
  <2>7. CASE UNCHANGED Daemon!vars
    <3>1. UNCHANGED <<live, file, starter, daemon, stopper, signalled, may>>
      BY <2>7 DEF Daemon!vars, Daemon!state
    <3>2. Anyhow'
      <4>1. LivesFit
        BY <2>0, <3>1, NothingMoves
      <4>2. FileFits
        BY <2>0, <3>1, <4>1, FileStays DEF LivesFit
      <4> QED
        BY <2>0, <3>1, <4>1, <4>2, AnyhowStays
    <3>3. InTurn => InTurn'
      BY <3>1 DEF InTurn, LaunchKnows, StopKnows, NoneUp, FileOf, Daemon!ChildRecord, Daemon!Launching,
                  Daemon!Stopping, Daemon!Up
    <3> QED
      BY <2>0, <3>1, <3>2, <3>3 DEF DaemonInv
  <2> QED
    BY <2>6, <2>7
<1> HIDE DEF Inv
<1>3. Told /\ Daemon!Spec => []Inv
  BY <1>1, <1>2, PTL DEF Daemon!Spec
<1> QED
  BY <1>3 DEF Inv

(* It was taken for a process that had its id before.                         *)
Mistaken(s) == \E x \in signalled : x.to = Daemon!Proc("daemon", s) /\ x.meant # x.to

(* A fatal end is for good, and a cleanup that has its time is not killed     *)
(* unless it is taken for another.                                            *)
LEMMA FatalIsFatal ==
  ASSUME Told, DaemonInv, DaemonInv', [Daemon!Next]_(Daemon!vars), NEW s \in Starters
  PROVE  /\ daemon[s].fatal => daemon'[s].fatal /\ daemon'[s].end # "ok"
         /\ daemon[s].st = "cleaning" /\ starter[s].budget /\ daemon'[s].end = "killed" => Mistaken(s)'
<1> DEFINE Goal == /\ daemon[s].fatal => daemon'[s].fatal
                   /\ daemon[s].st = "cleaning" /\ starter[s].budget /\ daemon'[s].end = "killed" => Mistaken(s)'
<1>1. /\ StarterHolds(s) /\ StarterHolds(s)' /\ daemon \in [Starters -> DaemonStates]
      /\ daemon[s].st = "cleaning" => daemon[s].end = "none"
  BY DEF DaemonInv, Anyhow, StarterHolds, DaemonTypes, Daemon!Up
<1>2. UNCHANGED daemon => Goal
  BY <1>1
<1>3. ASSUME NEW v \in Starters, NEW how \in {"ok", "fatal", "crashed", "unconfirmed", "killed"}, Daemon!Ends(v, how),
             how = "killed" /\ v = s => ~(daemon[s].st = "cleaning" /\ starter[s].budget) \/ Mistaken(s)'
      PROVE  Goal
  <2> DEFINE y == [daemon[v] EXCEPT !.st = "gone", !.end = how, !.cleaned = (how \in {"ok", "fatal"})]
  <2>1. daemon' = [daemon EXCEPT ![v] = y]
    BY <1>3 DEF Daemon!Ends
  <2>2. y.fatal = daemon[v].fatal /\ y.end = how
    BY <1>1 DEF DaemonStates
  <2> HIDE DEF y
  <2> QED
    BY <1>1, <1>3, <2>1, <2>2
<1>4. ASSUME NEW v \in Starters, NEW f \in BOOLEAN, Daemon!Triggered(v, f)
      PROVE  Goal
  <2> DEFINE y == [daemon[v] EXCEPT !.st = "cleaning", !.fatal = Daemon!StaysFatal(v, f)]
  <2>1. daemon' = [daemon EXCEPT ![v] = y]
    BY <1>4 DEF Daemon!Triggered
  <2>2. (daemon[v].fatal => y.fatal) /\ y.end = daemon[v].end
    BY <1>1 DEF DaemonStates, Daemon!StaysFatal
  <2> HIDE DEF y
  <2> QED
    BY <1>1, <2>1, <2>2
<1>5. ASSUME NEW v \in Starters, NEW st \in {"booting", "serving", "stuck"}, daemon' = [daemon EXCEPT ![v].st = st]
      PROVE  Goal
  <2> DEFINE y == [daemon[v] EXCEPT !.st = st]
  <2>1. daemon' = [daemon EXCEPT ![v] = y]
    BY <1>5
  <2>2. y.fatal = daemon[v].fatal /\ y.end = daemon[v].end
    BY <1>1 DEF DaemonStates
  <2> HIDE DEF y
  <2> QED
    BY <1>1, <2>1, <2>2
<1> HIDE DEF Goal
<1>6. ASSUME NEW p \in Pids, (\E k \in Strangers : Daemon!Reuse(p, k)) \/ Daemon!Leave(p)
      PROVE  Goal
  BY <1>2, <1>6 DEF Daemon!Reuse, Daemon!Leave
<1>7. ASSUME NEW v \in Starters, NEW p \in Pids, NEW b \in Modes, Daemon!Start(v, p, b)
      PROVE  Goal
  BY <1>2, <1>7 DEF Daemon!Start
<1>8. ASSUME NEW v \in Starters, NEW q \in Pids, Daemon!Spawn(v, q)
      PROVE  Goal
  BY <1>5, <1>8 DEF Daemon!Spawn
<1>9. ASSUME NEW v \in Starters, Daemon!StarterStep(v) \/ Daemon!Kill(v)
      PROVE  Goal
  <2>1. \/ \E q \in Pids : Daemon!Spawn(v, q)
        \/ UNCHANGED daemon
    BY <1>9 DEF Daemon!StarterStep, Daemon!Kill, Daemon!Open, Daemon!Look, Daemon!Unlink, Daemon!GiveUp, Daemon!Write,
                Daemon!SpawnFails, Daemon!WriteRecord, Daemon!Survives, Daemon!DiesYoung, Daemon!Release
  <2> QED
    BY <1>2, <1>8, <2>1
<1>10. ASSUME NEW v \in Starters, Daemon!Boot(v) \/ Daemon!Hang(v)
       PROVE  Goal
  BY <1>5, <1>10 DEF Daemon!Boot, Daemon!Hang
<1>11. ASSUME NEW v \in Starters, Daemon!Hangup(v) \/ Daemon!FatalClose(v)
       PROVE  Goal
  BY <1>4, <1>11 DEF Daemon!Hangup, Daemon!FatalClose
<1>12. ASSUME NEW v \in Starters, Daemon!Crash(v) \/ Daemon!CleanupStep(v)
       PROVE  Goal
  BY <1>3, <1>12 DEF Daemon!Crash, Daemon!CleanupStep, Daemon!CleanupEnds, Daemon!CleanupFails
<1>13. ASSUME NEW t \in Stoppers, Daemon!Term(t)
       PROVE  Goal
  <2>1. CASE Daemon!Target(t) = Daemon!NoProc
    BY <1>2, <1>13, <2>1 DEF Daemon!Term
  <2>2. CASE Daemon!Target(t) # Daemon!NoProc
    <3>1. Daemon!Terminates(Daemon!Target(t)) /\ stopper[t].pc = "term"
      BY <1>13, <2>2 DEF Daemon!Term
    <3>2. Daemon!Target(t).kind \in {"launcher", "daemon"} /\ Daemon!Target(t).of \in Starters
      BY <2>2, <3>1, TargetIs DEF DaemonInv
    <3>3. \/ UNCHANGED daemon \/ Daemon!Ends(Daemon!Target(t).of, "crashed")
          \/ Daemon!Triggered(Daemon!Target(t).of, FALSE)
      BY <3>1 DEF Daemon!Terminates
    <3> QED
      BY <1>2, <1>3, <1>4, <3>2, <3>3
  <2> QED
    BY <2>1, <2>2
<1>14. ASSUME NEW t \in Stoppers, Daemon!Escalate(t)
       PROVE  Goal
  <2> DEFINE g == Daemon!Target(t)
  <2>1. /\ stopper[t].pc = "poll" /\ ~Daemon!StillCleaning(t) /\ g # Daemon!NoProc
        /\ signalled' = signalled \cup {[sig |-> "kill", to |-> g, meant |-> stopper[t].rec.id]}
        /\ (UNCHANGED daemon \/ (g.kind = "daemon" /\ Daemon!Ends(g.of, "killed")))
    BY <1>14 DEF Daemon!Escalate, Daemon!MayEscalate, Daemon!Signals
  <2>2. /\ stopper[t].rec \in OnRecord /\ stopper[t].rec # Daemon!NoRecord /\ g \in Processes
        /\ g.kind = "daemon" => g.of \in Starters
    BY <2>1, TargetIs DEF DaemonInv
  <2>3. CASE g.kind = "daemon" /\ g # stopper[t].rec.id
    <3>1. PICK v \in Starters : v = g.of /\ g = Daemon!Proc("daemon", v)
      BY <2>2, <2>3 DEF Processes, Daemon!Proc
    <3>2. Mistaken(v)'
      <4> DEFINE y == [sig |-> "kill", to |-> g, meant |-> stopper[t].rec.id]
      <4>1. y \in signalled'
        BY <2>1
      <4>2. y.to = g /\ y.meant = stopper[t].rec.id
        OBVIOUS
      <4> HIDE DEF y, g
      <4> QED
        BY <2>3, <3>1, <4>1, <4>2 DEF Mistaken
    <3>3. UNCHANGED daemon \/ Daemon!Ends(v, "killed")
      BY <2>1, <3>1
    <3> HIDE DEF g
    <3> QED
      BY <1>2, <1>3, <3>2, <3>3
  <2>4. CASE g.kind = "daemon" /\ g = stopper[t].rec.id
    <3>1. stopper[t].rec.budget = starter[g.of].budget
      BY <2>2, <2>4 DEF OnRecord
    <3>2. starter[g.of].budget => Daemon!TermGrace(stopper[t].rec) > Daemon!CleanupTimeout(starter[g.of].budget)
      BY <3>1 DEF Daemon!TermGrace, Daemon!CleanupTimeout
    <3>3. ~(daemon[g.of].st = "cleaning" /\ starter[g.of].budget)
      BY <2>1, <2>4, <3>2 DEF Daemon!StillCleaning
    <3> HIDE DEF g
    <3> QED
      BY <1>2, <1>3, <2>1, <2>2, <2>4, <3>3
  <2> QED
    BY <1>2, <2>1, <2>3, <2>4
<1>15. ASSUME NEW t \in Stoppers, Daemon!StopLooks(t) \/ Daemon!StopperStep(t)
       PROVE  Goal
  <2>1. CASE \/ Daemon!StopLooks(t) \/ Daemon!Gone(t) \/ Daemon!Confirm(t) \/ Daemon!Clear(t)
    BY <1>2, <2>1 DEF Daemon!StopLooks, Daemon!Gone, Daemon!Confirm, Daemon!Clear
  <2> QED
    BY <1>13, <1>14, <1>15, <2>1 DEF Daemon!StopperStep
<1>16. Goal
  <2>1. CASE Daemon!Acts
    BY <1>6, <1>7, <1>9, <1>10, <1>11, <1>12, <1>15, <2>1 DEF Daemon!Acts
  <2>2. CASE UNCHANGED Daemon!vars
    BY <1>2, <2>2 DEF Daemon!vars, Daemon!state
  <2> QED
    BY <2>1, <2>2 DEF Daemon!Next
<1> QED
  BY <1>1, <1>16 DEF Goal, StarterHolds

(* OneDaemonTold holds of every number of starts, stops, ids and strangers,   *)
(* and of ids that are handed out again at any time but between a stop's      *)
(* judgement and its SIGTERM, where the platform tells when a process began.  *)
THEOREM OneDaemonIsTold ==
  Told /\ Daemon!Spec => OneDaemonTold
<1> DEFINE Inv == Told /\ DaemonInv
           Tells == may = {} => Daemon!OneDaemon /\ Daemon!Recorded /\ Daemon!StopConfirms
           FatalKept == \A s \in Starters : daemon[s].fatal => daemon'[s].fatal /\ daemon'[s].end # "ok"
           NotCut == \A s \in Starters :
                       daemon[s].st = "cleaning" /\ starter[s].budget /\ daemon'[s].end = "killed"
                       => \E x \in signalled' : x.to = Daemon!Proc("daemon", s) /\ x.meant # x.to
           Ended == Daemon!TermIsMeant /\ Daemon!StopEnds
<1>1. Inv => Tells
  <2> SUFFICES ASSUME Told, Anyhow, InTurn
               PROVE  Daemon!OneDaemon /\ Daemon!Recorded /\ Daemon!StopConfirms
    BY DEF DaemonInv
  <2>1. \A s \in Starters : Daemon!Serving(s) => Daemon!Up(s)
    BY DEF Daemon!Serving, Daemon!Up
  <2>2. Daemon!OneDaemon
    BY <2>1, OneIsUp DEF Daemon!OneDaemon
  <2>3. Daemon!Recorded
    BY <2>1, UpIsRunning DEF Daemon!Recorded, InTurn, LaunchKnows
  <2>4. Daemon!StopConfirms
    BY DEF Daemon!StopConfirms, InTurn, StopKnows
  <2> QED
    BY <2>2, <2>3, <2>4
<1>2. Inv => Ended
  BY DEF DaemonInv, Anyhow, StopHolds, Daemon!StopEnds
<1>3. Inv /\ Inv' /\ [Daemon!Next]_(Daemon!vars) => [FatalKept]_(Daemon!vars) /\ [NotCut]_(Daemon!vars)
  BY FatalIsFatal DEF Mistaken
<1>4. Told /\ Daemon!Spec => []Inv
  BY DaemonInvariant
<1> HIDE DEF Inv, Tells, FatalKept, NotCut, Ended
<1>5. Told /\ Daemon!Spec => []Tells /\ []Ended /\ [][FatalKept]_(Daemon!vars) /\ [][NotCut]_(Daemon!vars)
  BY <1>1, <1>2, <1>3, <1>4, PTL DEF Daemon!Spec
<1> QED
  BY <1>5 DEF OneDaemonTold, Tells, Ended, FatalKept, NotCut, Daemon!FatalStays, Daemon!CleanupIsNotCut
=============================================================================
