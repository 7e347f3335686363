----------------------------- MODULE TcpServerProofs -----------------------------
(***************************************************************************)
(* One connection at a time, for any number of goroutines in Accept, of    *)
(* connections and of requests: TcpServer implements OneConnection.        *)
(*                                                                         *)
(* Nothing in Accept itself keeps two calls apart: the check and the store *)
(* are under different holds of the mutex.  What does is the port.  A      *)
(* goroutine past ListenTCP holds it, a connected server holds it, and it  *)
(* has one holder; IInv says so, and that connections move from the        *)
(* kernel's queue to one acceptor and on to the server, never back.        *)
(*                                                                         *)
(* Then: every answer is to the request it follows, as long as the         *)
(* clients' headers tell the length of what follows (WellFramed).  The     *)
(* bytes on a connection have no marks between requests.  The invariant    *)
(* names where they begin: at[n] is how far ahead of the next byte that    *)
(* HandleNext reads the n-th request begins, negative if its header has    *)
(* been read.                                                              *)
(***************************************************************************)
EXTENDS TcpServer, TLAPS

PeerState == {"new", "open", "closed", "reset"}

\* The types that the argument needs.
Types ==
  /\ apc \in [Acceptors -> {"out", "listen", "accept", "store"}]
  /\ accepted \in [Acceptors -> Conns \cup {NoConn}]
  /\ peer \in [Conns -> PeerState]
  /\ backlog \subseteq Conns /\ stored \subseteq Conns
  /\ \E S : out \in [Conns -> Seq(S)]

\* The port belongs to whoever listens or is connected.
PortInv ==
  /\ \A a \in Acceptors : apc[a] \in {"accept", "store"} => port = a
  /\ closeErr = "nil" => port = "server" /\ conn \in stored

\* A connection is new, queued, accepted or stored, in this order.
FlowInv ==
  /\ backlog \cap stored = {}
  /\ \A a \in Acceptors :
       apc[a] = "store" => accepted[a] \in Conns /\ accepted[a] \notin backlog \cup stored
  /\ \A c \in Conns : peer[c] = "new" =>
       /\ c \notin backlog \cup stored
       /\ \A a \in Acceptors : apc[a] = "store" => accepted[a] # c

\* HandleNext runs only while the server is connected.
HandlerInv ==
  /\ hpc # "out" => closeErr = "nil"
  /\ hpc \in {"header", "body"} => reading = conn

IInv == Types /\ PortInv /\ FlowInv /\ HandlerInv

--------------------------------------------------------------------------------
(***************************************************************************)
(* What the steps do to the state that the invariant is about.             *)
(***************************************************************************)
Closes ==
  /\ closeErr' = "closed" /\ port' = "free" /\ backlog' = {}
  /\ hpc # "out" /\ hpc' = "out" /\ out' = out

Stays ==
  /\ closeErr' = closeErr /\ port' = port /\ backlog' = backlog
  /\ hpc' # "out" => hpc # "out" \/ closeErr = "nil"
  /\ hpc' \in {"header", "body"} => reading' = conn
  /\ \/ out' = out
     \/ hpc = "write" /\ out' = [out EXCEPT ![conn] = Append(@, reply)]

\* No connection becomes new again.
PeersAge == peer' \in [Conns -> PeerState] /\ \A c \in Conns : peer'[c] = "new" => peer[c] = "new"

\* listener.Close resets connections, new ones excepted.
LEMMA ListenerClosed ==
  ASSUME Types, CloseListener
  PROVE  PeersAge /\ port' = "free" /\ backlog' = {}
BY DEF Types, CloseListener, PeersAge, PeerState

\* A step of HandleNext closes the connection or leaves it in place.
LEMMA HandlerEffect ==
  ASSUME IInv, Handler
  PROVE  UNCHANGED <<apc, accepted, conn, stored>> /\ PeersAge /\ (Closes \/ Stays)
<1>. USE DEF accept
<1>0. Types /\ (hpc \in {"header", "body"} => reading = conn)
  BY DEF IInv, HandlerInv
<1>a. StayConnected => PeersAge
  BY <1>0 DEF StayConnected, PeersAge, Types
<1>b. CloseConn => PeersAge /\ closeErr' = "closed" /\ port' = "free" /\ backlog' = {}
  BY <1>0, ListenerClosed DEF CloseConn
<1>1. CASE HandleNext
  BY <1>1, <1>0 DEF HandleNext, Stays, PeersAge, Types, net
<1>2. CASE CallReadFull
  BY <1>2, <1>0 DEF CallReadFull, Stays, PeersAge, Types, net
<1>3. CASE ReadHeader
  <2>1. CASE hpc' = "out" /\ CloseConn
    BY <1>3, <2>1, <1>b DEF ReadHeader, Closes
  <2>2. CASE hpc' = "body" /\ StayConnected /\ reading' = conn
    BY <1>3, <2>2, <1>a DEF ReadHeader, Stays, StayConnected
  <2>. QED
    BY <1>3, <2>1, <2>2 DEF ReadHeader
<1>4. CASE HeaderFails
  <2>1. CASE CloseConn
    BY <1>4, <2>1, <1>b DEF HeaderFails, Closes
  <2>2. CASE StayConnected
    BY <1>4, <2>2, <1>a DEF HeaderFails, Stays, StayConnected
  <2>3. CASE peer' = [peer EXCEPT ![reading] = "closed"] /\ UNCHANGED <<closeErr, port, backlog>>
    <3>1. PeersAge
      BY <2>3, <1>0, Zenon DEF PeersAge, Types, PeerState
    <3>. QED
      BY <1>4, <2>3, <3>1 DEF HeaderFails, Stays
  <2>. QED
    BY <1>4, <2>1, <2>2, <2>3 DEF HeaderFails
<1>5. CASE ReadBody
  <2>1. CASE hpc' = "out" /\ CloseConn
    BY <1>5, <2>1, <1>b DEF ReadBody, Closes
  <2>2. CASE StayConnected
    BY <1>5, <2>2, <1>a, <1>0 DEF ReadBody, Stays, StayConnected
  <2>. QED
    BY <1>5, <2>1, <2>2 DEF ReadBody
<1>6. CASE BodyFails
  BY <1>6, <1>b DEF BodyFails, Closes
<1>7. CASE Write
  BY <1>7, <1>a DEF Write, Stays, StayConnected
<1>8. CASE WriteFails
  BY <1>8, <1>b DEF WriteFails, Closes
<1>. QED
  BY <1>1, <1>2, <1>3, <1>4, <1>5, <1>6, <1>7, <1>8 DEF Handler

\* Appending anything to a sequence makes it longer by one.
LEMMA AppendOne ==
  ASSUME NEW S, NEW s \in Seq(S), NEW e
  PROVE  /\ Append(s, e) \in Seq(S \cup {e}) /\ s \in Seq(S \cup {e})
         /\ Len(s) \in Nat /\ Len(Append(s, e)) = Len(s) + 1
<1>1. s \in Seq(S \cup {e}) /\ e \in S \cup {e}
  BY SMT
<1>. QED
  BY <1>1

\* The answers stay sequences.
LEMMA OutType ==
  ASSUME Types, NEW c, NEW e, out' = [out EXCEPT ![c] = Append(@, e)] \/ out' = out
  PROVE  /\ \E S : out' \in [Conns -> Seq(S)]
         /\ \A d \in Conns : /\ Len(out[d]) \in Nat
                             /\ d # c => out'[d] = out[d]
         /\ c \in Conns /\ out' # out => Len(out'[c]) = Len(out[c]) + 1
<1>1. PICK S : out \in [Conns -> Seq(S)]
  BY DEF Types
<1>2. CASE out' = out
  BY <1>1, <1>2
<1>3. CASE out' = [out EXCEPT ![c] = Append(@, e)]
  <2>1. \A d \in Conns : out[d] \in Seq(S \cup {e}) /\ Append(out[d], e) \in Seq(S \cup {e})
    BY <1>1, AppendOne
  <2>2. out' \in [Conns -> Seq(S \cup {e})]
    BY <1>1, <1>3, <2>1, Zenon
  <2>3. c \in Conns => Len(out'[c]) = Len(out[c]) + 1
    BY <1>1, <1>3, AppendOne
  <2>. QED
    BY <1>1, <1>3, <2>2, <2>3
<1>. QED
  BY <1>2, <1>3

--------------------------------------------------------------------------------
(***************************************************************************)
(* Invariance.                                                             *)
(***************************************************************************)
LEMMA InitIInv == Init => IInv
<1>. SUFFICES ASSUME Init PROVE IInv
  OBVIOUS
<1>1. Types
  <2>0. << >> \in Seq({})
    OBVIOUS
  <2>1. out = [c \in Conns |-> << >>]
    BY Zenon DEF Init
  <2>2. \E S : out \in [Conns -> Seq(S)]
    BY <2>0, <2>1, Zenon
  <2>. QED
    BY <2>2 DEF Init, Types, PeerState
<1>2. PortInv /\ FlowInv /\ HandlerInv
  BY DEF Init, PortInv, FlowInv, HandlerInv
<1>. QED
  BY <1>1, <1>2 DEF IInv

LEMMA DialInv ==
  ASSUME IInv, NEW c \in Conns, Dial(c) PROVE IInv'
<1>. USE DEF Dial, accept, handle
<1>1. Types'
  BY DEF IInv, Types, PeerState
<1>2. PortInv' /\ HandlerInv'
  BY DEF IInv, PortInv, HandlerInv
<1>3. FlowInv'
  BY DEF IInv, Types, FlowInv, PeerState
<1>. QED
  BY <1>1, <1>2, <1>3 DEF IInv

\* Sending and hanging up.
LEMMA ClientInv ==
  ASSUME IInv, NEW c \in Conns, Send(c) \/ HangUp(c) PROVE IInv'
<1>. USE DEF accept, handle
<1>1. PeersAge
  <2>1. CASE Send(c)
    BY <2>1 DEF Send, IInv, Types, PeersAge
  <2>2. CASE HangUp(c)
    BY <2>2 DEF HangUp, IInv, Types, PeersAge, PeerState
  <2>. QED
    BY <2>1, <2>2
<1>2. UNCHANGED <<closeErr, conn, port, backlog, apc, accepted, hpc, reading, out, stored>>
  BY DEF Send, HangUp
<1>3. Types' /\ PortInv' /\ HandlerInv'
  BY <1>1, <1>2 DEF IInv, Types, PortInv, HandlerInv, PeersAge
<1>4. FlowInv'
  BY <1>1, <1>2 DEF IInv, FlowInv, PeersAge
<1>. QED
  BY <1>3, <1>4 DEF IInv

\* Up to AcceptTCP a call of Accept touches nothing but the port.
LEMMA ListenInv ==
  ASSUME IInv, NEW a \in Acceptors, AcceptCheck(a) \/ ListenTCP(a) PROVE IInv'
<1>. USE DEF AcceptCheck, ListenTCP, handle, net
<1>1. Types'
  BY DEF IInv, Types
<1>2. PortInv'
  <2>1. CASE AcceptCheck(a)
    BY <2>1 DEF IInv, Types, PortInv
  <2>2. CASE ListenTCP(a)
    <3>1. CASE port = "free"
      <4>1. \A b \in Acceptors : b # "free" /\ b # "server"
        BY TcpAssumption
      <4>2. \A b \in Acceptors : apc[b] \notin {"accept", "store"}
        BY <3>1, <4>1 DEF IInv, PortInv
      <4>. QED
        BY <2>2, <3>1, <4>2 DEF IInv, Types, PortInv
    <3>2. CASE port # "free"
      BY <2>2, <3>2 DEF IInv, Types, PortInv
    <3>. QED
      BY <3>1, <3>2
  <2>. QED
    BY <2>1, <2>2
<1>3. FlowInv'
  BY DEF IInv, Types, FlowInv
<1>4. HandlerInv'
  BY DEF IInv, HandlerInv
<1>. QED
  BY <1>1, <1>2, <1>3, <1>4 DEF IInv

LEMMA AcceptTCPInv ==
  ASSUME IInv, NEW a \in Acceptors, NEW c \in Conns, AcceptTCP(a, c) PROVE IInv'
<1>. USE DEF AcceptTCP, handle, net
<1>1. Types' /\ PortInv'
  BY DEF IInv, Types, PortInv
<1>2. \A b \in Acceptors : apc'[b] = "store" => b = a
  <2>1. \A b \in Acceptors : apc[b] = "store" => b = a
    BY DEF IInv, PortInv
  <2>. QED
    BY <2>1 DEF IInv, Types
<1>3. accepted'[a] = c /\ c \in backlog /\ c \notin stored /\ peer[c] # "new"
  BY DEF IInv, Types, FlowInv
<1>4. FlowInv'
  BY <1>2, <1>3 DEF IInv, Types, FlowInv
<1>5. HandlerInv'
  BY DEF IInv, HandlerInv
<1>. QED
  BY <1>1, <1>4, <1>5 DEF IInv

LEMMA TimeoutInv ==
  ASSUME IInv, NEW a \in Acceptors, AcceptTimeout(a) PROVE IInv'
<1>. USE DEF AcceptTimeout, handle
<1>1. PeersAge /\ port' = "free" /\ backlog' = {} /\ port = a
  BY ListenerClosed DEF IInv, PortInv
<1>2. \A b \in Acceptors : apc'[b] \notin {"accept", "store"}
  BY <1>1 DEF IInv, Types, PortInv
<1>3. Types'
  BY <1>1 DEF IInv, Types, PeersAge
<1>4. closeErr # "nil"
  BY <1>1, TcpAssumption DEF IInv, PortInv
<1>5. PortInv' /\ HandlerInv'
  BY <1>2, <1>4 DEF PortInv, IInv, HandlerInv
<1>6. FlowInv'
  BY <1>1, <1>2 DEF IInv, FlowInv, PeersAge
<1>. QED
  BY <1>3, <1>5, <1>6 DEF IInv

\* Storing finds the server unconnected and HandleNext not running.
LEMMA StoreFacts ==
  ASSUME IInv, NEW a \in Acceptors, Store(a)
  PROVE  /\ closeErr # "nil" /\ hpc = "out"
         /\ accepted[a] \in Conns \ stored
         /\ \A b \in Acceptors : apc'[b] \notin {"accept", "store"}
<1>1. port = a /\ a # "server"
  BY TcpAssumption DEF IInv, PortInv, Store
<1>2. closeErr # "nil" /\ hpc = "out"
  BY <1>1 DEF IInv, PortInv, HandlerInv
<1>3. \A b \in Acceptors : apc'[b] \notin {"accept", "store"}
  BY <1>1 DEF IInv, PortInv, Types, Store
<1>. QED
  BY <1>2, <1>3 DEF IInv, FlowInv, Store

LEMMA StoreInv ==
  ASSUME IInv, NEW a \in Acceptors, Store(a) PROVE IInv'
<1>. USE StoreFacts DEF Store, handle, net
<1>1. Types'
  BY DEF IInv, Types
<1>2. PortInv'
  BY DEF PortInv
<1>3. FlowInv'
  BY DEF IInv, FlowInv
<1>4. HandlerInv'
  BY DEF HandlerInv
<1>. QED
  BY <1>1, <1>2, <1>3, <1>4 DEF IInv

LEMMA HandlerStepInv ==
  ASSUME IInv, Handler PROVE IInv'
<1>1. UNCHANGED <<apc, accepted, conn, stored>> /\ PeersAge /\ (Closes \/ Stays)
  BY HandlerEffect
<1>2. backlog' = backlog \/ backlog' = {}
  BY <1>1 DEF Closes, Stays
<1>3. Types'
  <2>1. \E S : out' \in [Conns -> Seq(S)]
    BY <1>1, OutType DEF IInv, Closes, Stays
  <2>. QED
    BY <1>1, <1>2, <2>1 DEF IInv, Types, PeersAge
<1>4. FlowInv'
  BY <1>1, <1>2 DEF IInv, FlowInv, PeersAge
<1>5. CASE Closes
  <2>1. closeErr = "nil" /\ port = "server"
    BY <1>5 DEF IInv, HandlerInv, PortInv, Closes
  <2>2. \A b \in Acceptors : apc[b] \notin {"accept", "store"}
    BY <2>1, TcpAssumption DEF IInv, PortInv
  <2>3. PortInv' /\ HandlerInv'
    BY <1>1, <1>5, <2>2 DEF PortInv, HandlerInv, Closes
  <2>. QED
    BY <1>3, <1>4, <2>3 DEF IInv
<1>6. CASE Stays
  <2>1. PortInv' /\ HandlerInv'
    BY <1>1, <1>6 DEF IInv, PortInv, HandlerInv, Stays
  <2>. QED
    BY <1>3, <1>4, <2>1 DEF IInv
<1>. QED
  BY <1>1, <1>5, <1>6

LEMMA NextIInv == IInv /\ [Next]_vars => IInv'
<1>. SUFFICES ASSUME IInv, [Next]_vars PROVE IInv'
  OBVIOUS
<1>1. ASSUME NEW c \in Conns, Client(c) PROVE IInv'
  BY <1>1, DialInv, ClientInv DEF Client
<1>2. ASSUME NEW a \in Acceptors, Accept(a) PROVE IInv'
  BY <1>2, ListenInv, AcceptTCPInv, TimeoutInv, StoreInv DEF Accept
<1>3. CASE Handler
  BY <1>3, HandlerStepInv
<1>4. CASE UNCHANGED vars
  BY <1>4 DEF vars, accept, handle, net, IInv, Types, PortInv, FlowInv, HandlerInv
<1>. QED
  BY <1>1, <1>2, <1>3, <1>4 DEF Next

\* The inductive invariant.
THEOREM TcpInvariance == Spec => []IInv
BY InitIInv, NextIInv, PTL DEF Spec

\* Whatever calls of Accept are under way, HandleNext reads from the
\* connection that is being served, also when ReadFull returns after waiting.
THEOREM ReadsSafe == Spec => []ReadsTheServed
<1>1. IInv => ReadsTheServed
  BY DEF IInv, HandlerInv, ReadsTheServed, serving
<1>. QED
  BY <1>1, TcpInvariance, PTL

--------------------------------------------------------------------------------
(***************************************************************************)
(* Refinement.                                                             *)
(***************************************************************************)
LEMMA RefineInit == Init => One!Init
<1>. SUFFICES ASSUME Init PROVE One!Init
  OBVIOUS
<1>1. serving = NoConn /\ stored \ {serving} = {}
  BY DEF Init, serving
<1>2. [c \in Conns |-> Len(out[c])] = [c \in Conns |-> 0]
  BY DEF Init
<1>. QED
  BY <1>1, <1>2 DEF One!Init

\* Storing a connection opens it.
LEMMA RefineStore ==
  ASSUME IInv, NEW a \in Acceptors, Store(a) PROVE One!Open
<1>1. /\ serving = NoConn /\ serving' = accepted[a]
      /\ accepted[a] \in Conns /\ accepted[a] \notin stored
  BY StoreFacts DEF serving, Store
<1>2. stored \ {serving} = stored /\ stored' \ {serving'} = stored
  BY <1>1, TcpAssumption DEF IInv, Types, Store
<1>3. out' = out
  BY DEF Store
<1>. QED
  BY <1>1, <1>2, <1>3 DEF One!Open

\* A step of HandleNext closes the connection being served, answers on it, or
\* is not seen.
LEMMA RefineHandler ==
  ASSUME IInv, Handler PROVE One!Next \/ UNCHANGED One!vars
<1>1. conn' = conn /\ stored' = stored /\ (Closes \/ Stays)
  BY HandlerEffect
<1>2. hpc # "out" => serving = conn /\ conn \in stored /\ conn \in Conns
  BY DEF IInv, HandlerInv, PortInv, Types, serving
<1>3. CASE Closes
  <2>1. serving' = NoConn /\ serving = conn /\ conn \in stored /\ conn \in Conns /\ out' = out
    BY <1>2, <1>3 DEF Closes, serving
  <2>2. stored' \ {serving'} = (stored \ {serving}) \cup {serving}
    BY <1>1, <2>1, TcpAssumption DEF IInv, Types
  <2>. QED
    BY <2>1, <2>2 DEF One!Next, One!Close
<1>4. CASE Stays /\ out' = out
  BY <1>1, <1>4 DEF Stays, serving, One!vars
<1>5. CASE Stays /\ hpc = "write" /\ out' = [out EXCEPT ![conn] = Append(@, reply)] /\ out' # out
  <2>1. serving = conn /\ serving' = conn /\ conn \in Conns /\ stored' \ {serving'} = stored \ {serving}
    BY <1>1, <1>2, <1>5 DEF Stays, serving
  <2>2. /\ \A d \in Conns : d # conn => out'[d] = out[d]
        /\ Len(out'[conn]) = Len(out[conn]) + 1
    BY <2>1, <1>5, OutType DEF IInv
  <2>3. [c \in Conns |-> Len(out[c])]' = [[c \in Conns |-> Len(out[c])] EXCEPT ![serving] = @ + 1]
    BY <2>1, <2>2
  <2>. QED
    BY <2>1, <2>3 DEF One!Next, One!Answer
<1>. QED
  BY <1>1, <1>3, <1>4, <1>5 DEF Stays

\* "By design Servers can only maintain one connection": however many
\* goroutines call Accept, connections are served one after the other.
THEOREM TcpRefinement == Spec => OneAtATime
<1>1. IInv /\ [Next]_vars => [One!Next]_One!vars
  <2>. SUFFICES ASSUME IInv, [Next]_vars PROVE One!Next \/ UNCHANGED One!vars
    OBVIOUS
  <2>1. ASSUME NEW a \in Acceptors, Store(a) PROVE One!Next
    BY <2>1, RefineStore DEF One!Next
  <2>2. ASSUME UNCHANGED <<closeErr, conn, stored, out>> PROVE UNCHANGED One!vars
    BY <2>2 DEF One!vars, serving
  <2>3. ASSUME NEW c \in Conns, Client(c) PROVE UNCHANGED <<closeErr, conn, stored, out>>
    BY <2>3 DEF Client, Dial, Send, HangUp
  <2>4. ASSUME NEW a \in Acceptors, Accept(a), ~Store(a) PROVE UNCHANGED <<closeErr, conn, stored, out>>
    BY <2>4 DEF Accept, AcceptCheck, ListenTCP, AcceptTimeout, AcceptTCP
  <2>5. CASE UNCHANGED vars
    BY <2>5, <2>2 DEF vars
  <2>. QED
    BY <2>1, <2>2, <2>3, <2>4, <2>5, RefineHandler DEF Next
<1>. QED
  BY <1>1, RefineInit, TcpInvariance, PTL DEF Spec, OneAtATime, One!Spec

--------------------------------------------------------------------------------

Requests == [mbap : MBAP, pdu : Seq(Byte)]

\* A request as it is on the wire.
Wire(g) == PutMBAP(g.mbap) \o g.pdu
WireLen(g) == 7 + Len(g.pdu)

\* The bytes s are the requests gs from number done + 1 on, without the first
\* skip bytes, and without those that were lost when the client died.
Stream(at, s, skip, done, gs) ==
  /\ at \in [done + 1 .. Len(gs) + 1 -> Int]
  /\ at[done + 1] = -skip
  /\ Len(s) <= at[Len(gs) + 1]
  /\ \A n, k \in done + 1 .. Len(gs) + 1 : n <= k => at[n] <= at[k]
  /\ \A n \in done + 1 .. Len(gs) :
       /\ at[n + 1] = at[n] + WireLen(gs[n])
       /\ \A j \in 1 .. WireLen(gs[n]) : at[n] + j \in 1 .. Len(s) => s[at[n] + j] = Wire(gs[n])[j]

\* The same with some offsets.  If whole, nothing has been lost.
GoodStream(s, skip, done, gs, whole) ==
  \E at : Stream(at, s, skip, done, gs) /\ (whole => Len(s) = at[Len(gs) + 1])

\* A header of fields that fit.
Header == {m \in MBAP : m.transaction < 65536 /\ m.protocol < 65536 /\ m.length < 65536}

\* Numbered requests; a body that HandleNext reads on for is of the length told.
GoodAsk(gs) ==
  /\ gs \in Seq(Requests)
  /\ \A n \in 1 .. Len(gs) :
       /\ gs[n].mbap \in Header /\ gs[n].mbap.transaction = n
       /\ gs[n].mbap.protocol = 0 /\ remaining(gs[n].mbap) <= BufLen =>
            remaining(gs[n].mbap) = Len(gs[n].pdu)

\* r is an answer to request g, the n-th.
Answers(r, g, n) ==
  /\ decodeMBAP(r).transaction = n /\ decodeMBAP(r).unit = g.mbap.unit
  /\ r[8] % 128 = g.pdu[1]

GoodOut(rs, gs) == \A n \in 1 .. Len(rs) : Answers(rs[n], gs[n], n)

\* The requests of c that HandleNext has read, and how much of the next one.
Done(c) == Len(out[c]) + IF hpc = "write" /\ c = conn THEN 1 ELSE 0
Skip(c) == IF hpc = "body" /\ c = conn THEN mbapSize ELSE 0

\* c has not been served yet, or is being served.
Current(c) == (c \notin stored \/ c = serving) /\ ~(hpc = "panic" /\ c = conn)

Alive(c) == peer[c] \in {"new", "open"}

ConnInv(c) ==
  /\ GoodAsk(asked[c]) /\ Len(asked[c]) <= Len(Frames[c])
  /\ GoodOut(out[c], asked[c]) /\ Done(c) <= Len(asked[c])
  /\ Current(c) => GoodStream(in[c], Skip(c), Done(c), asked[c], Alive(c))

\* Between its two reads, and before its write, HandleNext is busy with the
\* first request that has no answer yet.
BusyInv ==
  /\ hpc = "body" => /\ Len(out[conn]) + 1 <= Len(asked[conn])
                     /\ lastMBAP = asked[conn][Len(out[conn]) + 1].mbap
                     /\ lastMBAP.protocol = 0 /\ remaining(lastMBAP) <= BufLen
  /\ hpc = "write" => Answers(reply, asked[conn][Len(out[conn]) + 1], Len(out[conn]) + 1)

NetTypes == in \in [Conns -> Seq(Nat)] /\ DOMAIN asked = Conns

OrderInv == NetTypes /\ BusyInv /\ \A c \in Conns : ConnInv(c)

--------------------------------------------------------------------------------
(***************************************************************************)
(* Headers.                                                                *)
(***************************************************************************)

\* A sequence over a set is one over a larger set.
LEMMA SeqWider ==
  ASSUME NEW S, NEW T, NEW seq \in Seq(S), S \subseteq T
  PROVE  seq \in Seq(T)
  OBVIOUS

\* What the bytes of a uint16 are, and that they make it up.
LEMMA BigEndianBytes ==
  ASSUME NEW v \in Nat, v < 65536
  PROVE  /\ v \div 256 \in Nat /\ v \div 256 < 256 /\ v % 256 \in Nat /\ v % 256 < 256
         /\ 256 * (v \div 256) + (v % 256) = v
  OBVIOUS

\* Two bytes more.
LEMMA TwoMore ==
  ASSUME NEW s \in Seq(Nat), NEW a \in Nat, NEW b \in Nat
  PROVE  /\ s \o <<a, b>> \in Seq(Nat) /\ Len(s \o <<a, b>>) = Len(s) + 2
         /\ \A j \in 1 .. Len(s) : (s \o <<a, b>>)[j] = s[j]
         /\ (s \o <<a, b>>)[Len(s) + 1] = a /\ (s \o <<a, b>>)[Len(s) + 2] = b
  OBVIOUS

\* The seven bytes of a header.
LEMMA HeaderBytes ==
  ASSUME NEW m \in MBAP
  PROVE  /\ PutMBAP(m) \in Seq(Nat) /\ Len(PutMBAP(m)) = 7
         /\ PutMBAP(m)[1] = m.transaction \div 256 /\ PutMBAP(m)[2] = m.transaction % 256
         /\ PutMBAP(m)[3] = m.protocol \div 256 /\ PutMBAP(m)[4] = m.protocol % 256
         /\ PutMBAP(m)[5] = m.length \div 256 /\ PutMBAP(m)[6] = m.length % 256
         /\ PutMBAP(m)[7] = m.unit
<1> DEFINE t1 == m.transaction \div 256
           t2 == m.transaction % 256
           p1 == m.protocol \div 256
           p2 == m.protocol % 256
           l1 == m.length \div 256
           l2 == m.length % 256
           s2 == <<t1, t2>>
           s4 == s2 \o <<p1, p2>>
           s6 == s4 \o <<l1, l2>>
<1>1. /\ t1 \in Nat /\ t2 \in Nat /\ p1 \in Nat /\ p2 \in Nat /\ l1 \in Nat /\ l2 \in Nat
      /\ m.unit \in Nat
  BY DEF MBAP, Byte
<1>2. PutMBAP(m) = s6 \o <<m.unit>>
  BY DEF PutMBAP, BigEndian
<1> HIDE DEF t1, t2, p1, p2, l1, l2
<1>3. s2 \in Seq(Nat) /\ Len(s2) = 2 /\ s2[1] = t1 /\ s2[2] = t2
  BY <1>1
<1> HIDE DEF s2
<1>4. s4 \in Seq(Nat) /\ Len(s4) = 4 /\ s4[1] = t1 /\ s4[2] = t2 /\ s4[3] = p1 /\ s4[4] = p2
  <2>1. /\ s4 \in Seq(Nat) /\ Len(s4) = Len(s2) + 2
        /\ \A j \in 1 .. Len(s2) : s4[j] = s2[j]
        /\ s4[Len(s2) + 1] = p1 /\ s4[Len(s2) + 2] = p2
    <3>1. s2 \in Seq(Nat) /\ p1 \in Nat /\ p2 \in Nat
      BY <1>1, <1>3
    <3> QED
      BY <3>1, TwoMore
  <2>2. Len(s2) + 1 = 3 /\ Len(s2) + 2 = 4 /\ 1 \in 1 .. Len(s2) /\ 2 \in 1 .. Len(s2)
    BY <1>3
  <2> QED
    BY <1>3, <2>1, <2>2, Zenon
<1> HIDE DEF s4
<1>5. s6 \in Seq(Nat) /\ Len(s6) = 6 /\ s6[1] = t1 /\ s6[2] = t2 /\ s6[3] = p1 /\ s6[4] = p2
      /\ s6[5] = l1 /\ s6[6] = l2
  <2>1. /\ s6 \in Seq(Nat) /\ Len(s6) = Len(s4) + 2
        /\ \A j \in 1 .. Len(s4) : s6[j] = s4[j]
        /\ s6[Len(s4) + 1] = l1 /\ s6[Len(s4) + 2] = l2
    <3>1. s4 \in Seq(Nat) /\ l1 \in Nat /\ l2 \in Nat
      BY <1>1, <1>4
    <3> QED
      BY <3>1, TwoMore
  <2>2. Len(s4) + 1 = 5 /\ Len(s4) + 2 = 6 /\ 1 \in 1 .. Len(s4) /\ 2 \in 1 .. Len(s4) /\ 3 \in 1 .. Len(s4) /\ 4 \in 1 .. Len(s4)
    BY <1>4
  <2> QED
    BY <1>4, <2>1, <2>2, Zenon
<1> HIDE DEF s6
<1> DEFINE u == m.unit
           s7 == s6 \o <<u>>
<1>6. /\ s7 \in Seq(Nat) /\ Len(s7) = Len(s6) + 1 /\ \A j \in 1 .. Len(s6) : s7[j] = s6[j]
      /\ s7[Len(s6) + 1] = u
  <2>1. s6 \in Seq(Nat) /\ u \in Nat
    BY <1>1, <1>5
  <2> HIDE DEF u
  <2> QED
    BY <2>1 DEF s7
<1>7. /\ Len(s6) + 1 = 7 /\ 1 \in 1 .. Len(s6) /\ 2 \in 1 .. Len(s6) /\ 3 \in 1 .. Len(s6)
      /\ 4 \in 1 .. Len(s6) /\ 5 \in 1 .. Len(s6) /\ 6 \in 1 .. Len(s6)
  BY <1>5
<1> HIDE DEF s7
<1>8. s7 \in Seq(Nat) /\ Len(s7) = 7 /\ s7[1] = t1 /\ s7[2] = t2 /\ s7[3] = p1 /\ s7[4] = p2
      /\ s7[5] = l1 /\ s7[6] = l2 /\ s7[7] = u
  BY <1>5, <1>6, <1>7, Zenon
<1>9. PutMBAP(m) = s7
  BY <1>2 DEF s7, u
<1> QED
  BY <1>8, <1>9, SMT DEF u, t1, t2, p1, p2, l1, l2

\* decodeMBAP undoes PutMBAP, whatever follows the header.
LEMMA DecodesHeader ==
  ASSUME NEW m \in Header, NEW b, \A j \in 1 .. 7 : b[j] = PutMBAP(m)[j]
  PROVE  decodeMBAP(b) = m
<1>1. /\ m.transaction \in Nat /\ m.protocol \in Nat /\ m.length \in Nat
      /\ m.transaction < 65536 /\ m.protocol < 65536 /\ m.length < 65536
      /\ m = [transaction |-> m.transaction, protocol |-> m.protocol, length |-> m.length, unit |-> m.unit]
  BY DEF Header, MBAP
<1>2. /\ b[1] = m.transaction \div 256 /\ b[2] = m.transaction % 256
      /\ b[3] = m.protocol \div 256 /\ b[4] = m.protocol % 256
      /\ b[5] = m.length \div 256 /\ b[6] = m.length % 256 /\ b[7] = m.unit
  BY HeaderBytes DEF Header
<1>3. /\ Uint16At(b, 1) = m.transaction /\ Uint16At(b, 3) = m.protocol /\ Uint16At(b, 5) = m.length
  BY <1>1, <1>2, BigEndianBytes DEF Uint16At
<1> QED
  BY <1>1, <1>2, <1>3 DEF decodeMBAP

--------------------------------------------------------------------------------
(***************************************************************************)
(* Streams of requests.                                                    *)
(***************************************************************************)

\* One sequence after another.
LEMMA Joined ==
  ASSUME NEW s \in Seq(Nat), NEW t \in Seq(Nat)
  PROVE  /\ s \o t \in Seq(Nat) /\ Len(s \o t) = Len(s) + Len(t)
         /\ Len(s) \in Nat /\ Len(t) \in Nat
         /\ \A j \in 1 .. Len(s) : (s \o t)[j] = s[j]
         /\ \A j \in 1 .. Len(t) : (s \o t)[Len(s) + j] = t[j]
  OBVIOUS

LEMMA JoinedThree ==
  ASSUME NEW s \in Seq(Nat), NEW t \in Seq(Nat), NEW u \in Seq(Nat)
  PROVE  s \o t \o u = s \o (t \o u) /\ s \o (t \o u) \in Seq(Nat)
<1>1. s \o (t \o u) \in Seq(Nat)
  BY SMT
<1>2. s \o t \o u = s \o (t \o u)
  BY SMTT(30)
<1> QED
  BY <1>1, <1>2

\* Sequences of the same length with the same elements are the same.
LEMMA SameBytes ==
  ASSUME NEW s \in Seq(Nat), NEW t \in Seq(Nat), Len(s) = Len(t), \A j \in 1 .. Len(s) : s[j] = t[j]
  PROVE  s = t
  BY SMTT(30)

\* What is left when m bytes have been read, and what they were.
LEMMA AfterReading ==
  ASSUME NEW s \in Seq(Nat), NEW m \in Nat, m <= Len(s)
  PROVE  /\ SubSeq(s, m + 1, Len(s)) \in Seq(Nat) /\ Len(SubSeq(s, m + 1, Len(s))) = Len(s) - m
         /\ \A j \in 1 .. Len(s) - m : SubSeq(s, m + 1, Len(s))[j] = s[m + j]
         /\ SubSeq(s, 1, m) \in Seq(Nat) /\ Len(SubSeq(s, 1, m)) = m
         /\ \A j \in 1 .. m : SubSeq(s, 1, m)[j] = s[j]
  OBVIOUS

\* The bytes of a request.
LEMMA WireFacts ==
  ASSUME NEW g \in Requests
  PROVE  /\ Wire(g) \in Seq(Nat) /\ Len(Wire(g)) = WireLen(g)
         /\ Len(g.pdu) \in Nat /\ WireLen(g) = 7 + Len(g.pdu) /\ g.pdu \in Seq(Nat)
         /\ \A j \in 1 .. 7 : Wire(g)[j] = PutMBAP(g.mbap)[j]
         /\ \A j \in 1 .. Len(g.pdu) : Wire(g)[7 + j] = g.pdu[j]
<1>1. g.mbap \in MBAP /\ g.pdu \in Seq(Nat)
  <2>1. g.mbap \in MBAP /\ g.pdu \in Seq(Byte) /\ Byte \subseteq Nat
    BY DEF Requests, Byte
  <2> QED
    BY <2>1, SeqWider, Zenon
<1>2. PutMBAP(g.mbap) \in Seq(Nat) /\ Len(PutMBAP(g.mbap)) = 7
  BY <1>1, HeaderBytes
<1> DEFINE h == PutMBAP(g.mbap)
           p == g.pdu
<1> HIDE DEF h, p
<1>3. /\ h \o p \in Seq(Nat) /\ Len(h \o p) = Len(h) + Len(p) /\ Len(p) \in Nat /\ Len(h) = 7
      /\ \A j \in 1 .. Len(h) : (h \o p)[j] = h[j]
      /\ \A j \in 1 .. Len(p) : (h \o p)[Len(h) + j] = p[j]
  BY <1>1, <1>2, Joined, Zenon DEF h, p
<1> QED
  BY <1>1, <1>3, Zenon DEF h, p, Wire, WireLen

\* Numbers of requests, and the length of each.
LEMMA Lengths ==
  ASSUME NEW gs \in Seq(Requests)
  PROVE  Len(gs) \in Nat /\ \A n \in 1 .. Len(gs) : gs[n] \in Requests /\ WireLen(gs[n]) \in Nat
<1>1. Len(gs) \in Nat /\ \A n \in 1 .. Len(gs) : gs[n] \in Requests
  <2> HIDE DEF Requests
  <2> QED
    OBVIOUS
<1>2. \A g \in Requests : WireLen(g) \in Nat
  <2> TAKE g \in Requests
  <2>1. Len(g.pdu) \in Nat /\ WireLen(g) = 7 + Len(g.pdu)
    BY WireFacts, Zenon
  <2> QED
    BY <2>1
<1> QED
  BY <1>1, <1>2, Zenon

\* Bytes that have come belong to a request, and the first ones to the first.
LEMMA StreamHead ==
  ASSUME NEW gs \in Seq(Requests), NEW s \in Seq(Nat), NEW done \in Nat, NEW skip \in Nat, NEW at,
         done <= Len(gs), Stream(at, s, skip, done, gs)
  PROVE  /\ Len(s) >= 1 => done + 1 <= Len(gs)
         /\ done + 1 <= Len(gs) =>
              \A j \in 1 .. Len(s) : skip + j <= WireLen(gs[done + 1]) => s[j] = Wire(gs[done + 1])[skip + j]
<1>0. Len(gs) \in Nat /\ Len(s) \in Nat /\ \A n \in 1 .. Len(gs) : WireLen(gs[n]) \in Nat
  BY Lengths
<1>1. at[done + 1] = -skip /\ Len(s) <= at[Len(gs) + 1]
  BY DEF Stream
<1>2. \A n \in done + 1 .. Len(gs) : \A j \in 1 .. WireLen(gs[n]) :
         at[n] + j \in 1 .. Len(s) => s[at[n] + j] = Wire(gs[n])[j]
  BY DEF Stream
<1>3. Len(s) >= 1 => done + 1 <= Len(gs)
  BY <1>0, <1>1
<1>4. ASSUME done + 1 <= Len(gs), NEW j \in 1 .. Len(s), skip + j <= WireLen(gs[done + 1])
      PROVE  s[j] = Wire(gs[done + 1])[skip + j]
  <2>1. done + 1 \in done + 1 .. Len(gs) /\ done + 1 \in 1 .. Len(gs)
    BY <1>0, <1>4
  <2>2. skip + j \in 1 .. WireLen(gs[done + 1]) /\ at[done + 1] + (skip + j) = j
    BY <1>0, <1>1, <1>4, <2>1
  <2> QED
    BY <1>2, <1>4, <2>1, <2>2, Zenon
<1> QED
  BY <1>3, <1>4, Zenon

\* A client that dies takes the last bytes away.
LEMMA StreamCut ==
  ASSUME NEW gs \in Seq(Requests), NEW s \in Seq(Nat), NEW done \in Nat, NEW skip \in Nat, NEW at,
         done <= Len(gs), Stream(at, s, skip, done, gs), NEW k \in Nat, k <= Len(s)
  PROVE  Stream(at, SubSeq(s, 1, k), skip, done, gs)
<1> DEFINE t == SubSeq(s, 1, k)
<1>0. Len(gs) \in Nat /\ Len(s) \in Nat /\ \A n \in 1 .. Len(gs) : WireLen(gs[n]) \in Nat
  BY Lengths
<1>1. Len(t) = k /\ \A j \in 1 .. k : t[j] = s[j]
  BY AfterReading
<1> HIDE DEF t
<1>2. /\ at \in [done + 1 .. Len(gs) + 1 -> Int] /\ at[done + 1] = -skip /\ Len(s) <= at[Len(gs) + 1]
      /\ \A n, m \in done + 1 .. Len(gs) + 1 : n <= m => at[n] <= at[m]
      /\ \A n \in done + 1 .. Len(gs) : at[n + 1] = at[n] + WireLen(gs[n])
  BY DEF Stream
<1>3. \A n \in done + 1 .. Len(gs) : \A j \in 1 .. WireLen(gs[n]) :
         at[n] + j \in 1 .. Len(s) => s[at[n] + j] = Wire(gs[n])[j]
  BY DEF Stream
<1>4. Len(t) <= at[Len(gs) + 1]
  <2>0. Len(gs) + 1 \in done + 1 .. Len(gs) + 1
    BY <1>0
  <2>1. at[Len(gs) + 1] \in Int
    BY <1>2, <2>0, Zenon
  <2> QED
    BY <1>0, <1>1, <1>2, <2>1
<1>5. \A i : i \in 1 .. Len(t) => i \in 1 .. Len(s) /\ t[i] = s[i]
  BY <1>0, <1>1
<1>6. \A n \in done + 1 .. Len(gs) : \A j \in 1 .. WireLen(gs[n]) :
         at[n] + j \in 1 .. Len(t) => t[at[n] + j] = Wire(gs[n])[j]
  BY <1>3, <1>5, Zenon
<1> QED
  BY <1>2, <1>4, <1>6, Zenon DEF Stream, t

\* m bytes are read.
LEMMA StreamSkip ==
  ASSUME NEW gs \in Seq(Requests), NEW s \in Seq(Nat), NEW done \in Nat, NEW skip \in Nat, NEW at,
         done <= Len(gs), Stream(at, s, skip, done, gs), NEW m \in Nat, m <= Len(s)
  PROVE  \E bt : /\ Stream(bt, SubSeq(s, m + 1, Len(s)), skip + m, done, gs)
                 /\ Len(s) = at[Len(gs) + 1] => Len(SubSeq(s, m + 1, Len(s))) = bt[Len(gs) + 1]
<1> DEFINE t == SubSeq(s, m + 1, Len(s))
           D == done + 1 .. Len(gs) + 1
           bt == [n \in D |-> at[n] - m]
<1>0. Len(gs) \in Nat /\ Len(s) \in Nat /\ \A n \in 1 .. Len(gs) : WireLen(gs[n]) \in Nat
  BY Lengths
<1>1. Len(t) = Len(s) - m /\ \A j \in 1 .. Len(s) - m : t[j] = s[m + j]
  BY AfterReading
<1>2. /\ at \in [D -> Int] /\ at[done + 1] = -skip /\ Len(s) <= at[Len(gs) + 1]
      /\ \A n, k \in D : n <= k => at[n] <= at[k]
      /\ \A n \in done + 1 .. Len(gs) : at[n + 1] = at[n] + WireLen(gs[n])
  BY DEF Stream
<1>3. \A n \in done + 1 .. Len(gs) : \A j \in 1 .. WireLen(gs[n]) :
         at[n] + j \in 1 .. Len(s) => s[at[n] + j] = Wire(gs[n])[j]
  BY DEF Stream
<1>4. /\ done + 1 \in D /\ Len(gs) + 1 \in D
      /\ \A n \in done + 1 .. Len(gs) : n \in D /\ n + 1 \in D /\ n \in 1 .. Len(gs)
  BY <1>0
<1> HIDE DEF t, D
<1>5. bt \in [D -> Int] /\ \A n \in D : bt[n] = at[n] - m /\ at[n] \in Int
  BY <1>2
<1> HIDE DEF bt
<1>6. bt[done + 1] = -(skip + m) /\ Len(t) <= bt[Len(gs) + 1]
      /\ (Len(s) = at[Len(gs) + 1] => Len(t) = bt[Len(gs) + 1])
  <2>1. /\ bt[done + 1] = at[done + 1] - m /\ at[done + 1] = -skip
        /\ bt[Len(gs) + 1] = at[Len(gs) + 1] - m /\ at[Len(gs) + 1] \in Int /\ Len(s) <= at[Len(gs) + 1]
        /\ Len(t) = Len(s) - m /\ Len(s) \in Nat
    BY <1>0, <1>1, <1>2, <1>4, <1>5, Zenon
  <2> QED
    BY <2>1
<1>7. \A n, k \in D : n <= k => bt[n] <= bt[k]
  BY <1>2, <1>5
<1>8. ASSUME NEW n \in done + 1 .. Len(gs)
      PROVE  /\ bt[n + 1] = bt[n] + WireLen(gs[n])
             /\ \A j \in 1 .. WireLen(gs[n]) : bt[n] + j \in 1 .. Len(t) => t[bt[n] + j] = Wire(gs[n])[j]
  <2>1. /\ n \in D /\ n + 1 \in D /\ WireLen(gs[n]) \in Nat
    BY <1>0, <1>4, Zenon
  <2>2. bt[n + 1] = at[n + 1] - m /\ bt[n] = at[n] - m /\ at[n] \in Int /\ at[n + 1] = at[n] + WireLen(gs[n])
    BY <1>2, <1>5, <2>1, Zenon
  <2>3. ASSUME NEW j \in 1 .. WireLen(gs[n]), bt[n] + j \in 1 .. Len(t)
        PROVE  t[bt[n] + j] = Wire(gs[n])[j]
    <3>0. /\ Len(s) \in Nat /\ Len(t) = Len(s) - m /\ at[n] \in Int /\ bt[n] = at[n] - m
          /\ WireLen(gs[n]) \in Nat
      BY <1>0, <1>1, <2>1, <2>2
    <3>a. j \in Nat
      BY <2>1
    <3>b. bt[n] + j >= 1 /\ bt[n] + j <= Len(s) - m
      BY <3>0, <3>a, <2>3
    <3>1. bt[n] + j \in 1 .. Len(s) - m /\ m + (bt[n] + j) = at[n] + j /\ at[n] + j \in 1 .. Len(s)
      <4> DEFINE x == at[n]
                 y == bt[n]
                 L == Len(s)
      <4>1. x \in Int /\ y = x - m /\ L \in Nat /\ y + j >= 1 /\ y + j <= L - m
        BY <3>0, <3>b
      <4> HIDE DEF x, y, L
      <4>2. y + j \in 1 .. L - m /\ m + (y + j) = x + j /\ x + j \in 1 .. L
        BY <3>a, <4>1
      <4> QED
        BY <4>2 DEF x, y, L
    <3> QED
      BY <1>1, <1>3, <3>1, <2>3, Zenon
  <2> QED
    BY <2>1, <2>2, <2>3
<1>9. Stream(bt, t, skip + m, done, gs)
  BY <1>5, <1>6, <1>7, <1>8, Zenon DEF Stream, D
<1> QED
  BY <1>6, <1>9, Zenon DEF t

\* All of a request has been read.
LEMMA StreamNext ==
  ASSUME NEW gs \in Seq(Requests), NEW s \in Seq(Nat), NEW done \in Nat, NEW skip \in Nat, NEW at,
         done + 1 <= Len(gs), Stream(at, s, skip, done, gs), skip = WireLen(gs[done + 1])
  PROVE  \E bt : Stream(bt, s, 0, done + 1, gs) /\ bt[Len(gs) + 1] = at[Len(gs) + 1]
<1> DEFINE D == (done + 1) + 1 .. Len(gs) + 1
           bt == [n \in D |-> at[n]]
<1>0. Len(gs) \in Nat /\ Len(s) \in Nat /\ \A n \in 1 .. Len(gs) : WireLen(gs[n]) \in Nat
  BY Lengths
<1>2. /\ at \in [done + 1 .. Len(gs) + 1 -> Int] /\ at[done + 1] = -skip /\ Len(s) <= at[Len(gs) + 1]
      /\ \A n, k \in done + 1 .. Len(gs) + 1 : n <= k => at[n] <= at[k]
      /\ \A n \in done + 1 .. Len(gs) : at[n + 1] = at[n] + WireLen(gs[n])
  BY DEF Stream
<1>3. \A n \in done + 1 .. Len(gs) : \A j \in 1 .. WireLen(gs[n]) :
         at[n] + j \in 1 .. Len(s) => s[at[n] + j] = Wire(gs[n])[j]
  BY DEF Stream
<1>4. /\ (done + 1) + 1 \in D /\ Len(gs) + 1 \in D /\ D \subseteq done + 1 .. Len(gs) + 1
      /\ \A n \in (done + 1) + 1 .. Len(gs) : n \in D /\ n + 1 \in D /\ n \in done + 1 .. Len(gs)
      /\ done + 1 \in done + 1 .. Len(gs)
  BY <1>0
<1> HIDE DEF D
<1>5. bt \in [D -> Int] /\ \A n \in D : bt[n] = at[n]
  BY <1>2, <1>4, Zenon
<1> HIDE DEF bt
<1>6. bt[(done + 1) + 1] = -0
  <2>1. bt[(done + 1) + 1] = -skip + skip
    BY <1>2, <1>4, <1>5, Zenon
  <2> QED
    BY <2>1
<1>7. Len(s) <= bt[Len(gs) + 1] /\ bt[Len(gs) + 1] = at[Len(gs) + 1]
  BY <1>2, <1>4, <1>5, Zenon
<1>8. \A n, k \in D : n <= k => bt[n] <= bt[k]
  <2> TAKE n, k \in D
  <2> QED
    BY <1>2, <1>4, <1>5, Zenon
<1>9. \A n \in (done + 1) + 1 .. Len(gs) :
        /\ bt[n + 1] = bt[n] + WireLen(gs[n])
        /\ \A j \in 1 .. WireLen(gs[n]) : bt[n] + j \in 1 .. Len(s) => s[bt[n] + j] = Wire(gs[n])[j]
  BY <1>2, <1>3, <1>4, <1>5, Zenon
<1> QED
  BY <1>5, <1>6, <1>7, <1>8, <1>9, Zenon DEF Stream, D

\* A client sends one more request.
LEMMA StreamAppend ==
  ASSUME NEW gs \in Seq(Requests), NEW s \in Seq(Nat), NEW done \in Nat, NEW skip \in Nat, NEW at,
         done <= Len(gs), Stream(at, s, skip, done, gs), Len(s) = at[Len(gs) + 1], NEW g \in Requests
  PROVE  \E bt : /\ Stream(bt, s \o Wire(g), skip, done, Append(gs, g))
                 /\ Len(s \o Wire(g)) = bt[Len(Append(gs, g)) + 1]
<1> DEFINE t == s \o Wire(g)
           hs == Append(gs, g)
           D == done + 1 .. Len(gs) + 1
           E == done + 1 .. Len(hs) + 1
           bt == [n \in E |-> IF n \in D THEN at[n] ELSE Len(s) + WireLen(g)]
<1>0. Len(gs) \in Nat /\ Len(s) \in Nat /\ \A n \in 1 .. Len(gs) : WireLen(gs[n]) \in Nat
  BY Lengths
<1>a. Len(hs) = Len(gs) + 1 /\ hs[Len(gs) + 1] = g /\ \A n \in 1 .. Len(gs) : hs[n] = gs[n]
  <2> HIDE DEF Requests
  <2> QED
    OBVIOUS
<1>b. WireLen(g) \in Nat /\ Wire(g) \in Seq(Nat) /\ Len(Wire(g)) = WireLen(g)
  BY WireFacts, SMTT(30)
<1>1. /\ Len(t) = Len(s) + WireLen(g) /\ \A j \in 1 .. Len(s) : t[j] = s[j]
      /\ \A j \in 1 .. WireLen(g) : t[Len(s) + j] = Wire(g)[j]
  <2>1. /\ Len(s \o Wire(g)) = Len(s) + Len(Wire(g))
        /\ \A j \in 1 .. Len(s) : (s \o Wire(g))[j] = s[j]
        /\ \A j \in 1 .. Len(Wire(g)) : (s \o Wire(g))[Len(s) + j] = Wire(g)[j]
    BY <1>b, Joined, Zenon
  <2> QED
    BY <1>b, <2>1, Zenon
<1>2. /\ at \in [D -> Int] /\ at[done + 1] = -skip
      /\ \A n, k \in D : n <= k => at[n] <= at[k]
      /\ \A n \in done + 1 .. Len(gs) : at[n + 1] = at[n] + WireLen(gs[n])
  BY DEF Stream
<1>3. \A n \in done + 1 .. Len(gs) : \A j \in 1 .. WireLen(gs[n]) :
         at[n] + j \in 1 .. Len(s) => s[at[n] + j] = Wire(gs[n])[j]
  BY DEF Stream
<1> HIDE DEF hs, t
<1>4. /\ done + 1 \in D /\ Len(gs) + 1 \in D /\ Len(hs) + 1 \notin D /\ Len(hs) + 1 \in E /\ D \subseteq E
      /\ \A n \in E : n \in D \/ n = Len(hs) + 1
      /\ \A n \in D : n <= Len(gs) + 1 /\ n \in Int
      /\ \A n \in done + 1 .. Len(gs) : n \in D /\ n + 1 \in D /\ n \in 1 .. Len(gs)
      /\ \A n \in done + 1 .. Len(hs) : n \in done + 1 .. Len(gs) \/ n = Len(gs) + 1
  BY <1>0, <1>a
<1> HIDE DEF D, E
<1>5. /\ bt \in [E -> Int] /\ \A n \in D : bt[n] = at[n] /\ at[n] \in Int
      /\ bt[Len(hs) + 1] = Len(s) + WireLen(g)
  <2>1. Len(s) + WireLen(g) \in Int
    BY <1>0, <1>b
  <2>2. \A n \in D : at[n] \in Int
    BY <1>2, Zenon
  <2>3. D \subseteq E /\ Len(hs) + 1 \in E /\ Len(hs) + 1 \notin D
    BY <1>4
  <2> QED
    BY <2>1, <2>2, <2>3, Zenon
<1> HIDE DEF bt
<1>6. bt[done + 1] = -skip /\ Len(t) <= bt[Len(hs) + 1] /\ Len(t) = bt[Len(hs) + 1]
  BY <1>0, <1>b, <1>1, <1>2, <1>4, <1>5
<1>7. ASSUME NEW n \in E, NEW k \in E, n <= k PROVE bt[n] <= bt[k]
  <2>1. CASE k \in D
    <3>1. n \in D
      BY <1>0, <1>a, <1>4, <1>7, <2>1
    <3> QED
      BY <1>2, <1>5, <1>7, <2>1, <3>1, Zenon
  <2>2. CASE k = Len(hs) + 1 /\ n \in D
    <3>1. at[n] \in Int /\ at[n] <= Len(s) /\ bt[n] = at[n]
      <4>1. n \in D /\ Len(gs) + 1 \in D /\ n <= Len(gs) + 1
        BY <1>4, <2>2, Zenon
      <4>2. at[n] <= at[Len(gs) + 1]
        BY <1>2, <4>1, Zenon
      <4> QED
        BY <1>5, <4>1, <4>2, Zenon
    <3> QED
      BY <1>0, <1>b, <1>5, <2>2, <3>1
  <2>3. CASE k = Len(hs) + 1 /\ n = Len(hs) + 1
    BY <1>0, <1>b, <1>5, <2>3
  <2> QED
    BY <1>4, <2>1, <2>2, <2>3, Zenon
<1>8. ASSUME NEW n \in done + 1 .. Len(hs)
      PROVE  /\ bt[n + 1] = bt[n] + WireLen(hs[n])
             /\ \A j \in 1 .. WireLen(hs[n]) : bt[n] + j \in 1 .. Len(t) => t[bt[n] + j] = Wire(hs[n])[j]
  <2>1. CASE n \in done + 1 .. Len(gs)
    <3>1. /\ hs[n] = gs[n] /\ bt[n] = at[n] /\ bt[n + 1] = at[n + 1] /\ at[n + 1] = at[n] + WireLen(gs[n])
          /\ at[n] \in Int /\ at[n + 1] \in Int /\ at[n + 1] <= Len(s) /\ WireLen(gs[n]) \in Nat
      <4>1. n \in D /\ n + 1 \in D /\ n + 1 <= Len(gs) + 1 /\ n \in 1 .. Len(gs) /\ Len(gs) + 1 \in D
        BY <1>4, <2>1, Zenon
      <4> QED
        BY <1>0, <1>a, <1>2, <1>5, <4>1, <2>1, Zenon
    <3>2. ASSUME NEW j \in 1 .. WireLen(gs[n]), at[n] + j \in 1 .. Len(t) PROVE t[at[n] + j] = Wire(gs[n])[j]
      <4>a. j \in Nat /\ j <= WireLen(gs[n])
        BY <3>1
      <4>b. at[n] + j >= 1
        BY <3>1, <3>2, <4>a
      <4>1. at[n] + j \in 1 .. Len(s)
        <5> DEFINE x == at[n]
                   w == WireLen(gs[n])
                   L == Len(s)
        <5>1. x \in Int /\ w \in Nat /\ L \in Nat /\ j <= w /\ x + w <= L /\ x + j >= 1
          BY <1>0, <3>1, <4>a, <4>b
        <5> HIDE DEF x, w, L
        <5>2. x + j \in 1 .. L
          BY <4>a, <5>1
        <5> QED
          BY <5>2 DEF x, L
      <4> QED
        BY <1>1, <1>3, <2>1, <3>2, <4>1, Zenon
    <3> QED
      BY <3>1, <3>2, Zenon
  <2>2. CASE n = Len(gs) + 1
    <3>1. hs[n] = g /\ bt[n] = Len(s) /\ bt[n + 1] = Len(s) + WireLen(g)
      BY <1>a, <1>4, <1>5, <2>2, Zenon
    <3> QED
      BY <1>1, <3>1, Zenon
  <2> QED
    BY <1>4, <2>1, <2>2, Zenon
<1>9. Stream(bt, t, skip, done, hs)
  BY <1>5, <1>6, <1>7, <1>8, Zenon DEF Stream, E
<1> QED
  BY <1>6, <1>9, Zenon DEF t, hs

--------------------------------------------------------------------------------
(***************************************************************************)
(* What HandleNext answers.                                                *)
(***************************************************************************)

\* An answer: a sequence that starts with a function code.
StartsWith(p, fc) == Len(p) \in Nat /\ Len(p) >= 1 /\ p[1] = fc /\ \E T : p \in Seq(T)

\* A sequence after one or two elements.
LEMMA Prefixed ==
  ASSUME NEW T, NEW s \in Seq(T), NEW a, NEW b
  PROVE  StartsWith(<<a>> \o s, a) /\ StartsWith(<<a, b>> \o s, a)
<1> DEFINE U == T \cup {a, b}
<1>1. a \in U /\ b \in U /\ T \subseteq U
  OBVIOUS
<1> HIDE DEF U
<1>2. s \in Seq(U) /\ <<a>> \in Seq(U) /\ <<a, b>> \in Seq(U)
  <2>1. s \in Seq(U)
    BY <1>1, SeqWider, Zenon
  <2> QED
    BY <1>1, <2>1
<1>3. <<a>> \o s \in Seq(U) /\ <<a, b>> \o s \in Seq(U)
  BY <1>2
<1>4. /\ Len(<<a>> \o s) \in Nat /\ Len(<<a>> \o s) >= 1 /\ (<<a>> \o s)[1] = a
      /\ Len(<<a, b>> \o s) \in Nat /\ Len(<<a, b>> \o s) >= 1 /\ (<<a, b>> \o s)[1] = a
  BY <1>2
<1> QED
  BY <1>3, <1>4, Zenon DEF StartsWith

\* writeSimple2U16 starts with the function code.
LEMMA Simple2 ==
  ASSUME NEW fc, NEW v1, NEW v2
  PROVE  StartsWith(writeSimple2U16(fc, v1, v2), fc)
<1> DEFINE a == v1 \div 256
           b == v1 % 256
           c == v2 \div 256
           d == v2 % 256
<1>1. writeSimple2U16(fc, v1, v2) = <<fc>> \o <<a, b>> \o <<c, d>>
  BY DEF writeSimple2U16, BigEndian
<1> HIDE DEF a, b, c, d
<1>2. <<fc>> \o <<a, b>> \o <<c, d>> = <<fc>> \o <<a, b, c, d>>
  OBVIOUS
<1>3. <<a, b, c, d>> \in Seq({a, b, c, d})
  OBVIOUS
<1> QED
  BY <1>1, <1>2, <1>3, Prefixed, Zenon

\* A read's bytes are a sequence.
LEMMA ReadDataSeq ==
  ASSUME NEW o, NEW m, NEW stale, o.qty \in Nat
  PROVE  \E T : ReadData(o, m, stale) \in Seq(T)
<1> DEFINE rd == ReadData(o, m, stale)
<1>1. \E k \in Nat : \E T : rd \in [1 .. k -> T]
  <2>1. CASE o.table \in RegTables
    <3> DEFINE e(j) == BigEndian(Values(o, m)[(j - 1) \div 2])[2 - (j % 2)]
    <3>1. rd = [j \in 1 .. 2 * o.qty |-> e(j)]
      BY <2>1 DEF ReadData
    <3> HIDE DEF e, rd
    <3>2. rd \in [1 .. 2 * o.qty -> {e(j) : j \in 1 .. 2 * o.qty}]
      BY <3>1
    <3>3. 2 * o.qty \in Nat
      OBVIOUS
    <3> QED
      BY <3>2, <3>3, Zenon
  <2>2. CASE o.table \notin RegTables
    <3> DEFINE bit(j, k) == IF 8 * (j - 1) + k < o.qty THEN Values(o, m)[8 * (j - 1) + k] ELSE (stale[j] \div 2^k) % 2
               e(j) == bit(j, 0) + 2 * bit(j, 1) + 4 * bit(j, 2) + 8 * bit(j, 3)
                         + 16 * bit(j, 4) + 32 * bit(j, 5) + 64 * bit(j, 6) + 128 * bit(j, 7)
    <3>1. rd = [j \in 1 .. o.qty |-> e(j)]
      BY <2>2, Zenon DEF ReadData
    <3> HIDE DEF e, rd
    <3>2. rd \in [1 .. o.qty -> {e(j) : j \in 1 .. o.qty}]
      BY <3>1
    <3> QED
      BY <3>2, Zenon
  <2> QED
    BY <2>1, <2>2, Zenon
<1> HIDE DEF rd
<1>2. \E T : rd \in Seq(T)
  <2>1. PICK k \in Nat : \E T : rd \in [1 .. k -> T]
    BY <1>1, Zenon
  <2>2. PICK T : rd \in [1 .. k -> T]
    BY <2>1
  <2>3. rd \in Seq(T)
    BY <2>2
  <2> QED
    BY <2>3, Zenon
<1> QED
  BY <1>2 DEF rd

\* PutResponse answers with the function code of the request.
LEMMA AnswerStarts ==
  ASSUME NEW req, NEW m, NEW data, NEW capacity, NEW room, NEW stale, Asked(req) \in Nat,
         PutResponse(req, m, data, capacity, room, stale).out = "ok"
  PROVE  StartsWith(PutResponse(req, m, data, capacity, room, stale).pdu, req.fc)
<1> DEFINE o == OperationOf(req, data)
           p == PutResponse(req, m, data, capacity, room, stale)
           rd == ReadData(o, m, stale)
           q == quantityBytes(req) % 256
           w == writeSimpleU8(req.fc, q, rd, room)
<1>1. \/ p.pdu = writeSimple2U16(req.fc, req.maybeAddr, Echo(req))
      \/ w # <<>> /\ p.pdu = w
  BY Zenon DEF PutResponse, Answer
<1>2. o.qty = Asked(req)
  BY DEF OperationOf
<1> HIDE DEF o, p, q
<1>3. PICK T : rd \in Seq(T)
  BY <1>2, ReadDataSeq
<1> HIDE DEF rd
<1>4. w # <<>> => w = <<req.fc, q>> \o rd
  BY DEF writeSimpleU8
<1>5. StartsWith(<<req.fc, q>> \o rd, req.fc)
  BY <1>3, Prefixed, Zenon
<1>6. StartsWith(p.pdu, req.fc)
  BY <1>1, <1>4, <1>5, Simple2, Zenon
<1> QED
  BY <1>6 DEF p

\* What follows the header of a request, behind it, is an answer to it.
LEMMA ReplyAnswers ==
  ASSUME NEW g \in Requests, NEW m \in Header, NEW p, NEW fc \in Nat, StartsWith(p, fc),
         m.transaction = g.mbap.transaction, m.unit = g.mbap.unit, fc % 128 = g.pdu[1]
  PROVE  Answers(PutMBAP(m) \o p, g, g.mbap.transaction)
<1> DEFINE h == PutMBAP(m)
<1>1. h \in Seq(Nat) /\ Len(h) = 7
  BY HeaderBytes DEF Header
<1>2. PICK T : p \in Seq(T)
  BY DEF StartsWith
<1>3. Len(p) \in Nat /\ Len(p) >= 1 /\ p[1] = fc
  BY DEF StartsWith
<1> DEFINE U == Nat \cup T
<1>4. h \in Seq(U) /\ p \in Seq(U)
  <2>1. Nat \subseteq U /\ T \subseteq U
    OBVIOUS
  <2> HIDE DEF U, h
  <2> QED
    BY <1>1, <1>2, <2>1, SeqWider, Zenon
<1> HIDE DEF U, h
<1>5. (\A j \in 1 .. Len(h) : (h \o p)[j] = h[j]) /\ (h \o p)[Len(h) + 1] = p[1]
  BY <1>3, <1>4
<1>6. (\A j \in 1 .. 7 : (h \o p)[j] = h[j]) /\ (h \o p)[8] = fc
  <2>1. Len(h) + 1 = 8
    BY <1>1
  <2> QED
    BY <1>1, <1>3, <1>5, <2>1, Zenon
<1>7. decodeMBAP(h \o p) = m
  BY <1>6, DecodesHeader, Zenon DEF h
<1> QED
  BY <1>6, <1>7, Zenon DEF Answers, h

\* An exception is an answer.
LEMMA ExceptionAnswers ==
  ASSUME NEW g \in Requests, lastMBAP = g.mbap, lastMBAP \in Header, NEW exc, NEW fc \in Nat, fc < 128,
         fc = g.pdu[1], NEW m
  PROVE  Answers(handleException(exc, fc, m).reply, g, g.mbap.transaction)
<1>1. handleException(exc, fc, m).reply = PutMBAP(lastMBAP) \o <<fc + 128, exc>>
  BY DEF handleException, Reaction, ExceptionResponse
<1>2. StartsWith(<<fc + 128, exc>>, fc + 128)
  <2> DEFINE d == fc + 128
  <2> HIDE DEF d
  <2>1. <<d, exc>> \in Seq({d, exc})
    OBVIOUS
  <2>2. Len(<<d, exc>>) \in Nat /\ Len(<<d, exc>>) >= 1 /\ <<d, exc>>[1] = d
    OBVIOUS
  <2> QED
    BY <2>1, <2>2, Zenon DEF StartsWith, d
<1>3. fc + 128 \in Nat /\ (fc + 128) % 128 = g.pdu[1]
  BY SMT
<1> QED
  BY <1>1, <1>2, <1>3, ReplyAnswers, Zenon

\* What DecodeRequest accepts.
LEMMA DecodedFields ==
  ASSUME NEW b \in Seq(Nat), DecodeRequest(b).err = "nil"
  PROVE  /\ DecodeRequest(b).fc = b[1] /\ b[1] \in Nat /\ b[1] < 128
         /\ Asked(DecodeRequest(b)) \in Nat
<1>1. /\ ~(Len(b) < 2) /\ DecodeRequest(b).fc = b[1]
      /\ b[1] \in ReadFCs \cup WriteSingleFCs \cup WriteMultipleFCs \cup {FCReadExceptionStatus}
      /\ \/ DecodeRequest(b).maybeValueQuantity = 0
         \/ DecodeRequest(b).maybeValueQuantity = Uint16At(b, 4) /\ ~(Len(b) < 5)
  <2> DEFINE d == DecodeRequest(b)
             ok(val, bc, off) == Decoded("nil", b[1], Uint16At(b, 2), val, bc, off)
  <2>1. /\ ~(Len(b) < 2)
        /\ \/ b[1] \in ReadFCs \cup WriteSingleFCs /\ ~(Len(b) < 5) /\ d = ok(Uint16At(b, 4), 0, 0)
           \/ b[1] \in WriteMultipleFCs /\ ~(Len(b) < 7) /\ d = ok(Uint16At(b, 4), b[6], 6)
           \/ b[1] = FCReadExceptionStatus /\ d = Decoded("nil", b[1], 0, 0, 0, 0)
    <3>1. \A e \in {"short", "missing", "exception", "unhandled"} : Undecoded(e).err # "nil"
      BY DEF Undecoded, Decoded
    <3> QED
      BY <3>1, Zenon DEF DecodeRequest
  <2>2. Len(b) \in Nat
    OBVIOUS
  <2>3. ~(Len(b) < 7) => ~(Len(b) < 5)
    BY <2>2
  <2>4. \A v, bc, off : ok(v, bc, off).fc = b[1] /\ ok(v, bc, off).maybeValueQuantity = v
    BY Zenon DEF Decoded
  <2>5. Decoded("nil", b[1], 0, 0, 0, 0).fc = b[1] /\ Decoded("nil", b[1], 0, 0, 0, 0).maybeValueQuantity = 0
    BY Zenon DEF Decoded
  <2> HIDE DEF d, ok
  <2>6. /\ d.fc = b[1]
        /\ b[1] \in ReadFCs \cup WriteSingleFCs \cup WriteMultipleFCs \cup {FCReadExceptionStatus}
        /\ d.maybeValueQuantity = 0 \/ (d.maybeValueQuantity = Uint16At(b, 4) /\ ~(Len(b) < 5))
    <3>1. CASE b[1] \in ReadFCs \cup WriteSingleFCs /\ ~(Len(b) < 5) /\ d = ok(Uint16At(b, 4), 0, 0)
      BY <2>4, <3>1
    <3>2. CASE b[1] \in WriteMultipleFCs /\ ~(Len(b) < 7) /\ d = ok(Uint16At(b, 4), b[6], 6)
      BY <2>3, <2>4, <3>2
    <3>3. CASE b[1] = FCReadExceptionStatus /\ d = Decoded("nil", b[1], 0, 0, 0, 0)
      BY <2>5, <3>3
    <3> QED
      BY <2>1, <3>1, <3>2, <3>3, Zenon
  <2> QED
    BY <2>1, <2>6, Zenon DEF d
<1>2. b[1] \in Nat /\ b[1] < 128
  BY <1>1 DEF ReadFCs, WriteSingleFCs, WriteMultipleFCs, FCReadExceptionStatus, FCReadCoils, FCReadDiscreteInputs,
    FCReadHoldingRegisters, FCReadInputRegisters, FCWriteSingleCoil, FCWriteSingleRegister,
    FCWriteMultipleCoils, FCWriteMultipleRegisters
<1>3. Len(b) >= 5 => Uint16At(b, 4) \in Nat
  BY DEF Uint16At
<1>4. DecodeRequest(b).maybeValueQuantity \in Nat
  BY <1>1, <1>3
<1> QED
  BY <1>1, <1>2, <1>4 DEF Asked

\* The answer that HandleNext prepares is to the request it has read.
LEMMA HandleAnswers ==
  ASSUME NEW g \in Requests, lastMBAP = g.mbap, lastMBAP \in Header, NEW left,
         Handle(g.pdu, left).to = "write"
  PROVE  Answers(Handle(g.pdu, left).reply, g, g.mbap.transaction)
<1> DEFINE body   == g.pdu
           req    == DecodeRequest(body)
           data   == SubSeq(body, req.off + 1, Len(body))
           answer == PutResponse(req, bank, data, BufLen - req.off, TxRoom, StaleData(body, left))
           mbap   == [lastMBAP EXCEPT !.length = U16(Len(answer.pdu) + 1)]
           r      == Handle(body, left)
<1>0. body \in Seq(Nat) /\ Len(body) \in Nat
  BY WireFacts
<1>1. \/ /\ InferRequestPacketLength(body).err = "exception"
         /\ r = handleException(ExceptionIllegalFunction, body[1], bank)
      \/ req.err = "nil" /\ answer.out = "ok" /\ r.reply = PutMBAP(mbap) \o answer.pdu
      \/ req.err = "nil" /\ r = handleException(answer.exc, req.fc, answer.bank)
  <2> HIDE DEF req, data, answer, mbap, body
  <2>1. r = IF InferRequestPacketLength(body).err = "exception"
              THEN handleException(ExceptionIllegalFunction, body[1], bank)
            ELSE IF req.err # "nil" THEN Reaction("close", bank, <<>>)
            ELSE CASE answer.out = "ok"        -> Reaction("write", answer.bank, PutMBAP(mbap) \o answer.pdu)
                   [] answer.out = "exception" -> handleException(answer.exc, req.fc, answer.bank)
                   [] answer.out = "error"     -> Reaction("close", answer.bank, <<>>)
                   [] answer.out = "panic"     -> Reaction("panic", answer.bank, <<>>)
    BY Zenon DEF Handle, req, data, answer, mbap
  <2>2. answer.out \in {"ok", "exception", "error", "panic"}
    BY Zenon DEF answer, PutResponse, Answer
  <2>3. r.to = "write"
    BY DEF body
  <2> HIDE DEF r
  <2> QED
    BY <2>1, <2>2, <2>3 DEF Reaction
<1> HIDE DEF data, answer, body, r, req, mbap
<1>2. CASE /\ InferRequestPacketLength(body).err = "exception"
           /\ r = handleException(ExceptionIllegalFunction, body[1], bank)
  <2>1. body[1] \in UnimplementedAccess \cup {FCDiagnostic, FCReadDeviceIdentification}
    BY <1>0, <1>2 DEF InferRequestPacketLength, Inferred
  <2>2. body[1] \in Nat /\ body[1] < 128
    BY <2>1 DEF UnimplementedAccess, FCDiagnostic, FCReadDeviceIdentification, FCReadFileRecord, FCReadFIFOQueue
  <2> QED
    BY <1>2, <2>2, ExceptionAnswers, Zenon DEF body, r
<1>3. CASE req.err = "nil" /\ answer.out = "ok" /\ r.reply = PutMBAP(mbap) \o answer.pdu
  <2>1. req.fc = body[1] /\ body[1] \in Nat /\ body[1] < 128 /\ Asked(req) \in Nat
    BY <1>0, <1>3, DecodedFields, Zenon DEF req
  <2>2. StartsWith(answer.pdu, body[1])
    BY <1>3, <2>1, AnswerStarts, Zenon DEF answer
  <2>3. mbap \in Header /\ mbap.transaction = g.mbap.transaction /\ mbap.unit = g.mbap.unit
    <3>1. U16(Len(answer.pdu) + 1) \in Nat /\ U16(Len(answer.pdu) + 1) < 65536
      <4>1. Len(answer.pdu) \in Nat
        BY <2>2 DEF StartsWith
      <4>2. \A n \in Nat : U16(n + 1) \in Nat /\ U16(n + 1) < 65536
        BY DEF U16
      <4> QED
        BY <4>1, <4>2, SMT
    <3> DEFINE u == U16(Len(answer.pdu) + 1)
    <3> HIDE DEF u
    <3> QED
      BY <3>1 DEF Header, MBAP, u, mbap
  <2>4. body[1] % 128 = g.pdu[1]
    BY <2>1 DEF body
  <2> QED
    BY <1>3, <2>1, <2>2, <2>3, <2>4, ReplyAnswers, Zenon DEF r, body
<1>4. CASE req.err = "nil" /\ r = handleException(answer.exc, req.fc, answer.bank)
  <2>1. req.fc = body[1] /\ body[1] \in Nat /\ body[1] < 128
    BY <1>0, <1>4, DecodedFields, Zenon DEF req
  <2> QED
    BY <1>4, <2>1, ExceptionAnswers, Zenon DEF body, r
<1> QED
  BY <1>1, <1>2, <1>3, <1>4, Zenon

--------------------------------------------------------------------------------
(***************************************************************************)
(* Steps.                                                                  *)
(***************************************************************************)

\* A stream that needs no longer be whole.
LEMMA StreamWeaker ==
  ASSUME NEW s, NEW skip, NEW done, NEW gs, NEW w, NEW v, w \in BOOLEAN, v \in BOOLEAN, v => w,
         GoodStream(s, skip, done, gs, w)
  PROVE  GoodStream(s, skip, done, gs, v)
BY Zenon DEF GoodStream

\* The numbers of requests and answers.
LEMMA Counts ==
  ASSUME IInv, NEW c \in Conns
  PROVE  Len(out[c]) \in Nat /\ Done(c) \in Nat /\ Skip(c) \in Nat /\ Len(out[c]) <= Done(c)
<1>1. PICK S : out \in [Conns -> Seq(S)]
  BY DEF IInv, Types
<1>2. Len(out[c]) \in Nat
  BY <1>1
<1>3. Done(c) = Len(out[c]) + 0 \/ Done(c) = Len(out[c]) + 1
  BY Zenon DEF Done
<1>4. Skip(c) = 0 \/ Skip(c) = 7
  BY Zenon DEF Skip, mbapSize
<1> QED
  BY <1>2, <1>3, <1>4

\* A step leaves connection d alone.
Same(d) ==
  /\ in'[d] = in[d] /\ asked'[d] = asked[d] /\ out'[d] = out[d]
  /\ Done(d)' <= Len(asked[d])
  /\ Current(d)' => /\ Current(d) /\ Done(d)' = Done(d) /\ Skip(d)' = Skip(d)
                    /\ Alive(d)' => Alive(d)

LEMMA SameConn ==
  ASSUME NEW d \in Conns, ConnInv(d), Same(d)
  PROVE  ConnInv(d)'
<1>1. GoodAsk(asked'[d]) /\ Len(asked'[d]) <= Len(Frames[d]) /\ GoodOut(out'[d], asked'[d]) /\ Done(d)' <= Len(asked'[d])
  BY Zenon DEF ConnInv, Same
<1>2. Current(d)' => GoodStream(in'[d], Skip(d)', Done(d)', asked'[d], Alive(d)')
  <2> SUFFICES ASSUME Current(d)' PROVE GoodStream(in'[d], Skip(d)', Done(d)', asked'[d], Alive(d)')
    OBVIOUS
  <2>1. GoodStream(in'[d], Skip(d)', Done(d)', asked'[d], Alive(d))
    BY Zenon DEF ConnInv, Same
  <2>2. Alive(d)' => Alive(d)
    BY Zenon DEF Same
  <2>3. Alive(d) \in BOOLEAN /\ Alive(d)' \in BOOLEAN
    BY SMT DEF Alive
  <2> QED
    BY <2>1, <2>2, <2>3, StreamWeaker, Zenon
<1> QED
  BY <1>1, <1>2, Zenon DEF ConnInv

\* Nothing of the handler's changes, and nothing arrives or is lost.
LEMMA QuietOrder ==
  ASSUME IInv, OrderInv, UNCHANGED <<in, asked, out, lastMBAP, hpc, reply>>,
         hpc = "out" \/ conn' = conn,
         \A c \in Conns : Current(c)' => Current(c) /\ (Alive(c)' => Alive(c))
  PROVE  OrderInv'
<1>1. NetTypes'
  BY DEF OrderInv, NetTypes
<1>2. BusyInv'
  BY DEF OrderInv, BusyInv
<1>3. ASSUME NEW c \in Conns PROVE ConnInv(c)'
  <2>0. ConnInv(c)
    BY DEF OrderInv
  <2>1. Done(c)' = Done(c) /\ Skip(c)' = Skip(c)
    BY Zenon DEF Done, Skip
  <2>2. Done(c)' <= Len(asked[c])
    BY <2>0, <2>1, Zenon DEF ConnInv
  <2>3. Same(c)
    BY <2>1, <2>2, Zenon DEF Same
  <2> QED
    BY <2>0, <2>3, SameConn
<1> QED
  BY <1>1, <1>2, <1>3 DEF OrderInv

LEMMA DialOrder ==
  ASSUME IInv, OrderInv, NEW c \in Conns, Dial(c) PROVE OrderInv'
<1>1. UNCHANGED <<in, asked, out, lastMBAP, hpc, reply, conn, stored, closeErr>>
  BY DEF Dial, handle
<1>2. \A d \in Conns : Current(d)' => Current(d)
  BY <1>1, Zenon DEF Current, serving
<1>3. \A d \in Conns : Alive(d)' => Alive(d)
  BY DEF Dial, IInv, Types, Alive
<1> QED
  BY <1>1, <1>2, <1>3, QuietOrder

\* Accept, up to its critical section.
LEMMA AcceptOrder ==
  ASSUME IInv, OrderInv, NEW a \in Acceptors,
         AcceptCheck(a) \/ ListenTCP(a) \/ AcceptTimeout(a) \/ \E c \in Conns : AcceptTCP(a, c)
  PROVE  OrderInv'
<1>1. UNCHANGED <<in, asked, out, lastMBAP, hpc, reply, conn, stored, closeErr>>
  BY DEF AcceptCheck, ListenTCP, AcceptTimeout, AcceptTCP, handle, net
<1>2. \A d \in Conns : Current(d)' => Current(d)
  BY <1>1, Zenon DEF Current, serving
<1>3. \A d \in Conns : Alive(d)' => Alive(d)
  BY DEF AcceptCheck, ListenTCP, AcceptTimeout, AcceptTCP, net, CloseListener, IInv, Types, Alive
<1> QED
  BY <1>1, <1>2, <1>3, QuietOrder

\* A connection is stored, which has not been served before.
LEMMA StoreOrder ==
  ASSUME IInv, OrderInv, NEW a \in Acceptors, Store(a) PROVE OrderInv'
<1>1. UNCHANGED <<in, asked, out, lastMBAP, hpc, reply, peer>> /\ hpc = "out"
  BY StoreFacts DEF Store, handle, net
<1>2. ASSUME NEW d \in Conns, Current(d)' PROVE Current(d)
  <2>1. d \notin stored' \/ d = serving'
    BY <1>2 DEF Current
  <2>2. d \notin stored
    BY <2>1, StoreFacts DEF Store, serving
  <2> QED
    BY <1>1, <2>2 DEF Current
<1>3. \A d \in Conns : Alive(d)' => Alive(d)
  BY <1>1 DEF Alive
<1> QED
  BY <1>1, <1>2, <1>3, QuietOrder

\* HandleNext up to its first read.
LEMMA EnterOrder ==
  ASSUME IInv, OrderInv, HandleNext \/ CallReadFull PROVE OrderInv'
<1>1. UNCHANGED <<in, asked, out, lastMBAP, reply, conn, stored, closeErr, peer>>
      /\ hpc \notin {"body", "write", "panic"} /\ hpc' \notin {"body", "write", "panic"}
  BY DEF HandleNext, CallReadFull, net
<1>2. NetTypes' /\ BusyInv'
  BY <1>1 DEF OrderInv, NetTypes, BusyInv
<1>3. ASSUME NEW c \in Conns PROVE ConnInv(c)'
  <2>0. ConnInv(c)
    BY DEF OrderInv
  <2>1. Done(c)' = Done(c) /\ Skip(c)' = Skip(c) /\ (Current(c)' => Current(c)) /\ (Alive(c)' => Alive(c))
    BY <1>1, Zenon DEF Done, Skip, Current, Alive, serving
  <2>2. Done(c)' <= Len(asked[c])
    BY <2>0, <2>1, Zenon DEF ConnInv
  <2>3. Same(c)
    BY <1>1, <2>1, <2>2, Zenon DEF Same
  <2> QED
    BY <2>0, <2>3, SameConn
<1> QED
  BY <1>2, <1>3 DEF OrderInv

\* One more request.
LEMMA OneMore ==
  ASSUME NEW gs \in Seq(Requests), NEW g \in Requests
  PROVE  /\ Append(gs, g) \in Seq(Requests) /\ Len(gs) \in Nat /\ Len(Append(gs, g)) = Len(gs) + 1
         /\ Append(gs, g)[Len(gs) + 1] = g /\ \A n \in 1 .. Len(gs) : Append(gs, g)[n] = gs[n]
<1> HIDE DEF Requests
<1> QED
  OBVIOUS

\* The frames a client may send.
LEMMA FrameCount ==
  ASSUME WellFramed, NEW c \in Conns
  PROVE  Frames[c] \in Seq(SUBSET Requests) /\ Len(Frames[c]) \in Nat /\ Len(Frames[c]) < 65536
<1>1. Frames[c] \in Seq(SUBSET Requests) /\ Len(Frames[c]) < 65536
  BY SMT DEF WellFramed, Requests
<1> HIDE DEF Requests
<1> QED
  BY <1>1, SMT

\* A frame with its number.
LEMMA NumberedFrame ==
  ASSUME WellFramed, NEW c \in Conns, NEW n \in 1 .. Len(Frames[c]), NEW f \in Frames[c][n]
  PROVE  LET g == Numbered(f, n)
         IN /\ g \in Requests /\ g.mbap \in Header /\ g.mbap.transaction = n
            /\ g.mbap.protocol = 0 /\ remaining(g.mbap) <= BufLen => remaining(g.mbap) = Len(g.pdu)
<1> DEFINE g == Numbered(f, n)
<1>1. Frames[c] \in Seq(SUBSET Requests) /\ Len(Frames[c]) \in Nat /\ Len(Frames[c]) < 65536
  BY FrameCount, SMT
<1>2. f \in Requests /\ n \in Nat /\ n < 65536
  <2> HIDE DEF Requests
  <2>1. Frames[c][n] \in SUBSET Requests /\ Len(Frames[c]) \in Nat
    BY <1>1
  <2> QED
    BY <1>1, <2>1
<1>3. f.mbap.protocol < 65536 /\ f.mbap.length < 65536
  BY SMT DEF WellFramed
<1>a. f.mbap.protocol = 0 /\ remaining(f.mbap) <= BufLen => remaining(f.mbap) = Len(f.pdu)
  BY SMT DEF WellFramed
<1>4. /\ f.mbap \in MBAP /\ f.pdu \in Seq(Byte) /\ DOMAIN f = {"mbap", "pdu"}
      /\ DOMAIN f.mbap = {"transaction", "protocol", "length", "unit"}
  BY <1>2 DEF Requests, MBAP
<1>5. g.mbap = [f.mbap EXCEPT !.transaction = n] /\ g.pdu = f.pdu /\ g = [f EXCEPT !.mbap = g.mbap]
  BY <1>4 DEF Numbered
<1> HIDE DEF g
<1>6. /\ g.mbap \in MBAP /\ g.mbap.transaction = n /\ g.mbap.protocol = f.mbap.protocol
      /\ g.mbap.length = f.mbap.length
  BY <1>2, <1>4, <1>5 DEF MBAP
<1>7. g \in Requests
  BY <1>2, <1>5, <1>6 DEF Requests
<1>8. g.mbap \in Header
  BY <1>2, <1>3, <1>6, SMT DEF Header
<1>9. remaining(g.mbap) = remaining(f.mbap)
  BY <1>6, SMT DEF remaining
<1> QED
  BY <1>a, <1>5, <1>6, <1>7, <1>8, <1>9, Zenon DEF g

LEMMA SendOrder ==
  ASSUME WellFramed, IInv, OrderInv, NEW c \in Conns, Send(c) PROVE OrderInv'
<1> DEFINE gs == asked[c]
<1>1. /\ UNCHANGED <<lastMBAP, hpc, reply, conn, out, stored, closeErr, peer>> /\ Alive(c)
      /\ Len(gs) < Len(Frames[c])
  BY DEF Send, handle, Alive
<1>2. PICK f \in Frames[c][Len(gs) + 1] :
         /\ asked' = [asked EXCEPT ![c] = Append(gs, Numbered(f, Len(gs) + 1))]
         /\ in' = [in EXCEPT ![c] = in[c] \o PutMBAP(Numbered(f, Len(gs) + 1).mbap) \o Numbered(f, Len(gs) + 1).pdu]
  BY DEF Send
<1> DEFINE g == Numbered(f, Len(gs) + 1)
           hs == Append(gs, g)
<1>3. NetTypes /\ BusyInv /\ \A d \in Conns : ConnInv(d)
  BY DEF OrderInv
<1>4. GoodAsk(gs) /\ gs \in Seq(Requests) /\ Len(gs) \in Nat /\ in[c] \in Seq(Nat)
  <2>1. GoodAsk(gs) /\ gs \in Seq(Requests) /\ in[c] \in Seq(Nat)
    BY <1>3, Zenon DEF ConnInv, GoodAsk, NetTypes
  <2> QED
    BY <2>1, Lengths
<1>5. /\ g \in Requests /\ g.mbap \in Header /\ g.mbap.transaction = Len(gs) + 1
      /\ g.mbap.protocol = 0 /\ remaining(g.mbap) <= BufLen => remaining(g.mbap) = Len(g.pdu)
  <2>0. Len(Frames[c]) \in Nat
    BY FrameCount, SMT
  <2>1. Len(gs) + 1 \in 1 .. Len(Frames[c])
    BY <1>1, <1>4, <2>0
  <2> QED
    BY <2>1, NumberedFrame, Zenon
<1> HIDE DEF g
<1>6. /\ asked'[c] = hs /\ in'[c] = in[c] \o Wire(g) /\ in'[c] \in Seq(Nat)
      /\ \A d \in Conns : d # c => asked'[d] = asked[d] /\ in'[d] = in[d]
  <2>1. /\ asked'[c] = hs /\ in'[c] = in[c] \o PutMBAP(g.mbap) \o g.pdu
        /\ \A d \in Conns : d # c => asked'[d] = asked[d] /\ in'[d] = in[d]
    BY <1>2, <1>3, Zenon DEF NetTypes, g
  <2>2. PutMBAP(g.mbap) \in Seq(Nat) /\ g.pdu \in Seq(Nat)
    <3>1. g.mbap \in MBAP
      BY <1>5, SMT DEF Header
    <3>2. PutMBAP(g.mbap) \in Seq(Nat)
      BY <3>1, HeaderBytes
    <3>3. g.pdu \in Seq(Nat)
      BY <1>5, WireFacts, Zenon
    <3> QED
      BY <3>2, <3>3
  <2>3. /\ in[c] \o PutMBAP(g.mbap) \o g.pdu = in[c] \o (PutMBAP(g.mbap) \o g.pdu)
        /\ in[c] \o (PutMBAP(g.mbap) \o g.pdu) \in Seq(Nat)
    BY <1>4, <2>2, JoinedThree, Zenon
  <2> QED
    BY <2>1, <2>3, Zenon DEF Wire
<1>7. NetTypes'
  <2>1. in' \in [Conns -> Seq(Nat)]
    BY <1>2, <1>3, <1>6, Zenon DEF NetTypes
  <2>2. DOMAIN asked' = Conns
    BY <1>2, <1>3, Zenon DEF NetTypes
  <2> QED
    BY <2>1, <2>2 DEF NetTypes
<1>8. /\ hs \in Seq(Requests) /\ Len(hs) = Len(gs) + 1 /\ hs[Len(gs) + 1] = g
      /\ \A n \in 1 .. Len(gs) : hs[n] = gs[n]
  BY <1>4, <1>5, OneMore, Zenon
<1> HIDE DEF hs
<1>9. /\ Done(c) \in Nat /\ Done(c) <= Len(gs) /\ Len(out[c]) \in Nat /\ Len(out[c]) <= Len(gs) /\ Skip(c) \in Nat
      /\ Done(c)' = Done(c) /\ Skip(c)' = Skip(c)
  <2>1. Done(c) <= Len(gs)
    BY <1>3, Zenon DEF ConnInv
  <2>2. Done(c) \in Nat /\ Len(out[c]) \in Nat /\ Len(out[c]) <= Done(c) /\ Skip(c) \in Nat
    BY Counts
  <2>3. Done(c)' = Done(c) /\ Skip(c)' = Skip(c)
    BY <1>1, Zenon DEF Done, Skip
  <2>4. Len(gs) \in Nat
    BY <1>4
  <2>5. Len(out[c]) <= Len(gs)
    BY <2>1, <2>2, <2>4
  <2> QED
    BY <2>1, <2>2, <2>3, <2>5
<1>10. BusyInv'
  <2>1. CASE conn # c /\ conn \in Conns
    <3>1. asked'[conn] = asked[conn]
      BY <1>6, <2>1
    <3> QED
      BY <1>1, <1>3, <3>1 DEF BusyInv
  <2>2. CASE conn = c /\ hpc \in {"body", "write"}
    <3>1. Len(out[c]) + 1 <= Len(gs)
      BY <1>3, <1>9, <2>2 DEF BusyInv, Done
    <3>a. Len(out[c]) \in Nat /\ Len(gs) \in Nat /\ Len(hs) = Len(gs) + 1
      BY <1>4, <1>8, <1>9, Zenon
    <3>b. Len(out[c]) + 1 \in 1 .. Len(gs) /\ Len(out[c]) + 1 <= Len(hs)
      BY <3>1, <3>a
    <3>2. hs[Len(out[c]) + 1] = gs[Len(out[c]) + 1] /\ Len(out[c]) + 1 <= Len(hs)
      BY <1>8, <3>b, Zenon
    <3> QED
      BY <1>1, <1>3, <1>6, <2>2, <3>2, Zenon DEF BusyInv
  <2>3. CASE hpc \notin {"body", "write"}
    BY <1>1, <2>3 DEF BusyInv
  <2>4. hpc # "out" => conn \in Conns
    BY DEF IInv, HandlerInv, PortInv, Types
  <2> QED
    BY <2>1, <2>2, <2>3, <2>4
<1>11. ASSUME NEW d \in Conns, d # c PROVE ConnInv(d)'
  <2>1. Done(d)' = Done(d) /\ Skip(d)' = Skip(d) /\ (Current(d)' => Current(d)) /\ (Alive(d)' => Alive(d))
    BY <1>1, Zenon DEF Done, Skip, Current, Alive, serving
  <2>2. Done(d)' <= Len(asked[d])
    BY <1>3, <2>1, Zenon DEF ConnInv
  <2>3. Same(d)
    BY <1>1, <1>6, <1>11, <2>1, <2>2, Zenon DEF Same
  <2> QED
    BY <1>3, <2>3, SameConn
<1>12. ConnInv(c)'
  <2>1. GoodAsk(hs)
    <3>1. \A n \in 1 .. Len(hs) : n \in 1 .. Len(gs) \/ n = Len(gs) + 1
      BY <1>4, <1>8
    <3> QED
      BY <1>4, <1>5, <1>8, <3>1, Zenon DEF GoodAsk
  <2>2. GoodOut(out[c], hs)
    <3>0. Len(out[c]) \in Nat /\ Len(gs) \in Nat /\ Len(out[c]) <= Len(gs)
      BY <1>4, <1>9, Zenon
    <3>1. \A n \in 1 .. Len(out[c]) : n \in 1 .. Len(gs)
      BY <3>0
    <3> QED
      BY <1>3, <1>8, <3>1, Zenon DEF GoodOut, ConnInv
  <2>3. Len(hs) <= Len(Frames[c]) /\ Done(c) <= Len(hs)
    <3>1. Len(Frames[c]) \in Nat
      BY FrameCount, SMT
    <3>2. /\ Len(gs) \in Nat /\ Len(gs) < Len(Frames[c]) /\ Len(hs) = Len(gs) + 1
          /\ Done(c) \in Nat /\ Done(c) <= Len(gs)
      BY <1>1, <1>4, <1>8, <1>9, Zenon
    <3> QED
      BY <3>1, <3>2
  <2>4. ASSUME Current(c)' PROVE GoodStream(in[c] \o Wire(g), Skip(c), Done(c), hs, Alive(c)')
    <3>1. Current(c)
      BY <1>1, <2>4, Zenon DEF Current, serving
    <3>2. PICK at : Stream(at, in[c], Skip(c), Done(c), gs) /\ Len(in[c]) = at[Len(gs) + 1]
      BY <1>1, <1>3, <3>1, Zenon DEF ConnInv, GoodStream
    <3>3. \E bt : /\ Stream(bt, in[c] \o Wire(g), Skip(c), Done(c), hs)
                  /\ Len(in[c] \o Wire(g)) = bt[Len(hs) + 1]
      <4>1. /\ gs \in Seq(Requests) /\ in[c] \in Seq(Nat) /\ Done(c) \in Nat /\ Skip(c) \in Nat
            /\ Done(c) <= Len(gs) /\ g \in Requests
        BY <1>4, <1>5, <1>9, Zenon
      <4> HIDE DEF gs
      <4> QED
        BY <3>2, <4>1, StreamAppend, Zenon DEF hs
    <3> QED
      BY <3>3, Zenon DEF GoodStream
  <2> QED
    BY <1>1, <1>6, <1>9, <2>1, <2>2, <2>3, <2>4, Zenon DEF ConnInv
<1> QED
  BY <1>7, <1>10, <1>11, <1>12 DEF OrderInv

\* A client dies and takes bytes away.
LEMMA HangUpOrder ==
  ASSUME IInv, OrderInv, NEW c \in Conns, HangUp(c) PROVE OrderInv'
<1>1. UNCHANGED <<lastMBAP, hpc, reply, conn, out, stored, closeErr, asked>>
  BY DEF HangUp, handle
<1>2. NetTypes /\ BusyInv /\ \A d \in Conns : ConnInv(d)
  BY DEF OrderInv
<1>3. PICK k \in Cuts \cup {Len(in[c])} : k <= Len(in[c]) /\ in' = [in EXCEPT ![c] = SubSeq(in[c], 1, k)]
  BY DEF HangUp
<1>4. in[c] \in Seq(Nat) /\ k \in Nat
  BY <1>2, TcpAssumption DEF NetTypes
<1>5. SubSeq(in[c], 1, k) \in Seq(Nat)
  BY <1>3, <1>4, AfterReading
<1>6. /\ in'[c] = SubSeq(in[c], 1, k) /\ \A d \in Conns : d # c => in'[d] = in[d]
      /\ in' \in [Conns -> Seq(Nat)]
  BY <1>2, <1>3, <1>5, Zenon DEF NetTypes
<1>7. NetTypes' /\ BusyInv'
  BY <1>1, <1>2, <1>6 DEF NetTypes, BusyInv
<1>8. /\ ~Alive(c)' /\ \A d \in Conns : d # c => (Alive(d)' => Alive(d))
  BY DEF HangUp, IInv, Types, Alive
<1>9. \A d \in Conns : Done(d)' = Done(d) /\ Skip(d)' = Skip(d) /\ (Current(d)' => Current(d))
  BY <1>1, Zenon DEF Done, Skip, Current, serving
<1>10. ASSUME NEW d \in Conns, d # c PROVE ConnInv(d)'
  <2>1. Done(d)' <= Len(asked[d])
    BY <1>2, <1>9, Zenon DEF ConnInv
  <2>2. Same(d)
    BY <1>1, <1>6, <1>8, <1>9, <1>10, <2>1, Zenon DEF Same
  <2> QED
    BY <1>2, <2>2, SameConn
<1>11. ConnInv(c)'
  <2>1. ASSUME Current(c)' PROVE GoodStream(in'[c], Skip(c), Done(c), asked[c], Alive(c)')
    <3>1. Current(c)
      BY <1>9, <2>1
    <3>2. PICK at : Stream(at, in[c], Skip(c), Done(c), asked[c])
      BY <1>2, <3>1, Zenon DEF ConnInv, GoodStream
    <3>3. asked[c] \in Seq(Requests) /\ Done(c) <= Len(asked[c]) /\ Done(c) \in Nat /\ Skip(c) \in Nat
      BY <1>2, Counts, Zenon DEF ConnInv, GoodAsk
    <3>4. Stream(at, SubSeq(in[c], 1, k), Skip(c), Done(c), asked[c])
      BY <1>3, <1>4, <3>2, <3>3, StreamCut, Zenon
    <3> QED
      BY <1>6, <1>8, <3>4, Zenon DEF GoodStream
  <2> QED
    BY <1>1, <1>2, <1>9, <2>1, Zenon DEF ConnInv
<1> QED
  BY <1>7, <1>10, <1>11 DEF OrderInv

\* While HandleNext is inside, it is busy with the connection being served.
LEMMA Inside ==
  ASSUME IInv, hpc # "out"
  PROVE  /\ conn \in Conns /\ conn \in stored /\ closeErr = "nil" /\ serving = conn
         /\ hpc \in {"header", "body"} => reading = conn
  BY DEF IInv, HandlerInv, PortInv, Types, serving

\* HandleNext closes: the connection has had its turn.
LEMMA CloseOrder ==
  ASSUME IInv, OrderInv, hpc # "out", hpc' = "out", closeErr' = "closed",
         UNCHANGED <<conn, stored, asked, out>>, NetTypes',
         \A d \in Conns : (d # conn => in'[d] = in[d]) /\ (Alive(d)' => Alive(d))
  PROVE  OrderInv'
<1>1. BusyInv'
  BY DEF BusyInv
<1>2. conn \in Conns /\ conn \in stored /\ serving = conn /\ serving' = NoConn /\ NoConn \notin Conns
  BY Inside, TcpAssumption DEF serving
<1>3. ASSUME NEW d \in Conns, d # conn PROVE ConnInv(d)'
  <2>0. ConnInv(d)
    BY DEF OrderInv
  <2>1. Done(d)' = Done(d) /\ Skip(d)' = Skip(d)
    BY <1>3, Zenon DEF Done, Skip
  <2>2. Current(d)' => Current(d)
    BY <1>2, <1>3, Zenon DEF Current
  <2>3. Done(d)' <= Len(asked[d])
    BY <2>0, <2>1, Zenon DEF ConnInv
  <2>4. Same(d)
    BY <1>3, <2>1, <2>2, <2>3, Zenon DEF Same
  <2> QED
    BY <2>0, <2>4, SameConn
<1>4. ConnInv(conn)'
  <2>0. ConnInv(conn)
    BY <1>2 DEF OrderInv
  <2>1. ~Current(conn)'
    BY <1>2, Zenon DEF Current
  <2>2. Done(conn)' = Len(out[conn]) + 0
    BY Zenon DEF Done
  <2>3. Len(asked[conn]) \in Nat /\ Done(conn) <= Len(asked[conn])
    <3>1. asked[conn] \in Seq(Requests) /\ Done(conn) <= Len(asked[conn])
      BY <2>0, Zenon DEF ConnInv, GoodAsk
    <3> QED
      BY <3>1, Lengths
  <2>4. Done(conn)' <= Len(asked[conn])
    <3>1. Len(out[conn]) \in Nat /\ Done(conn) \in Nat /\ Len(out[conn]) <= Done(conn)
      BY <1>2, Counts
    <3> QED
      BY <2>2, <2>3, <3>1
  <2> QED
    BY <2>0, <2>1, <2>4, Zenon DEF ConnInv
<1> QED
  BY <1>1, <1>3, <1>4 DEF OrderInv

\* HandleNext goes on with the same connection.
LEMMA StayOrder ==
  ASSUME IInv, OrderInv, hpc # "out", UNCHANGED <<conn, stored, asked, closeErr>>,
         NetTypes', BusyInv', ConnInv(conn)',
         \A d \in Conns : d # conn => in'[d] = in[d] /\ out'[d] = out[d] /\ (Alive(d)' => Alive(d))
  PROVE  OrderInv'
<1>1. serving = conn /\ serving' = serving
  BY Inside DEF serving
<1>3. ASSUME NEW d \in Conns, d # conn PROVE ConnInv(d)'
  <2>0. ConnInv(d)
    BY DEF OrderInv
  <2>1. Done(d)' = Done(d) /\ Skip(d)' = Skip(d)
    BY <1>3, Zenon DEF Done, Skip
  <2>2. Current(d)' => Current(d)
    BY <1>1, <1>3, Zenon DEF Current
  <2>3. Done(d)' <= Len(asked[d])
    BY <2>0, <2>1, Zenon DEF ConnInv
  <2>4. Same(d)
    BY <1>3, <2>1, <2>2, <2>3, Zenon DEF Same
  <2> QED
    BY <2>0, <2>4, SameConn
<1>4. \A d \in Conns : ConnInv(d)'
  BY <1>3, Zenon
<1> QED
  BY <1>4 DEF OrderInv

\* Reading takes bytes of one connection.
LEMMA UnreadTypes ==
  ASSUME NetTypes, reading \in Conns, NEW n \in Nat, n <= Len(in[reading]), Unread(n), asked' = asked
  PROVE  /\ NetTypes' /\ \A d \in Conns : d # reading => in'[d] = in[d]
         /\ in'[reading] = SubSeq(in[reading], n + 1, Len(in[reading]))
<1>1. in[reading] \in Seq(Nat)
  BY DEF NetTypes
<1>2. SubSeq(in[reading], n + 1, Len(in[reading])) \in Seq(Nat)
  BY <1>1, AfterReading
<1>3. in' = [in EXCEPT ![reading] = SubSeq(in[reading], n + 1, Len(in[reading]))]
  BY DEF Unread
<1> QED
  BY <1>2, <1>3, Zenon DEF NetTypes

\* Closing the listener brings no client back.
LEMMA CloseAlive ==
  ASSUME IInv, CloseListener, NEW d \in Conns PROVE Alive(d)' => Alive(d)
  BY DEF IInv, Types, CloseListener, Alive

\* What is known of the connection being served.
LEMMA Served ==
  ASSUME IInv, OrderInv, hpc \notin {"out", "panic"}
  PROVE  /\ conn \in Conns /\ NetTypes /\ in[conn] \in Seq(Nat) /\ ConnInv(conn)
         /\ asked[conn] \in Seq(Requests) /\ Len(asked[conn]) \in Nat /\ Len(out[conn]) \in Nat
         /\ Done(conn) \in Nat /\ Skip(conn) \in Nat /\ Done(conn) <= Len(asked[conn])
         /\ GoodStream(in[conn], Skip(conn), Done(conn), asked[conn], Alive(conn))
<1>1. conn \in Conns /\ serving = conn
  BY Inside
<1>2. NetTypes /\ in[conn] \in Seq(Nat) /\ ConnInv(conn)
  BY <1>1 DEF OrderInv, NetTypes
<1>3. Current(conn)
  BY <1>1 DEF Current
<1>4. /\ asked[conn] \in Seq(Requests) /\ Done(conn) <= Len(asked[conn])
      /\ GoodStream(in[conn], Skip(conn), Done(conn), asked[conn], Alive(conn))
  BY <1>2, <1>3, Zenon DEF ConnInv, GoodAsk
<1>5. Len(out[conn]) \in Nat /\ Done(conn) \in Nat /\ Skip(conn) \in Nat
  BY <1>1, Counts
<1>6. Len(asked[conn]) \in Nat
  BY <1>4, Lengths
<1> QED
  BY <1>1, <1>2, <1>4, <1>5, <1>6

\* The first ReadFull returns the header of the next request.
LEMMA ReadHeaderOrder ==
  ASSUME IInv, OrderInv, ReadHeader PROVE OrderInv'
<1> DEFINE s  == in[conn]
           gs == asked[conn]
           n  == Len(out[conn])
           m  == decodeMBAP(s)
<1>0. hpc = "header" /\ reading = conn /\ Len(s) >= 7 /\ UNCHANGED <<conn, stored, asked, out, reply>> /\ Unread(7)
  BY Inside DEF ReadHeader, mbapSize
<1>1. /\ conn \in Conns /\ NetTypes /\ s \in Seq(Nat) /\ ConnInv(conn)
      /\ gs \in Seq(Requests) /\ Len(gs) \in Nat /\ n \in Nat /\ Done(conn) <= Len(gs)
      /\ GoodStream(s, Skip(conn), Done(conn), gs, Alive(conn))
  BY <1>0, Served
<1>s. s \in Seq(Nat) /\ Len(gs) \in Nat /\ n \in Nat /\ Len(s) >= 7
  BY <1>0, <1>1
<1>a. 0 \in Nat /\ 7 \in Nat /\ 7 <= Len(s) /\ Len(s) \in Nat /\ Len(s) >= 1
  BY <1>s
<1>2. Done(conn) = n /\ Skip(conn) = 0
  BY <1>0, <1>s DEF Done, Skip
<1>3. /\ NetTypes' /\ \A d \in Conns : d # conn => in'[d] = in[d]
      /\ in'[conn] = SubSeq(s, 7 + 1, Len(s))
  BY <1>0, <1>1, UnreadTypes
<1>4. CASE hpc' = "out" /\ CloseConn
  <2>1. closeErr' = "closed" /\ \A d \in Conns : Alive(d)' => Alive(d)
    BY <1>4, CloseAlive DEF CloseConn
  <2> QED
    BY <1>0, <1>3, <1>4, <2>1, CloseOrder
<1>5. CASE hpc' = "body" /\ StayConnected /\ lastMBAP' = m /\ m.protocol = 0 /\ remaining(m) <= BufLen
  <2> DEFINE g == gs[n + 1]
  <2>1. PICK at : Stream(at, s, 0, n, gs) /\ (Alive(conn) => Len(s) = at[Len(gs) + 1])
    BY <1>1, <1>2, Zenon DEF GoodStream
  <2>2. n <= Len(gs)
    BY <1>1, <1>2
  <2>3. /\ n + 1 <= Len(gs)
        /\ \A j \in 1 .. Len(s) : 0 + j <= WireLen(g) => s[j] = Wire(g)[0 + j]
    <3>1. /\ Len(s) >= 1 => n + 1 <= Len(gs)
          /\ n + 1 <= Len(gs) =>
              \A j \in 1 .. Len(s) : 0 + j <= WireLen(g) => s[j] = Wire(g)[0 + j]
      BY <1>a, <1>1, <2>1, <2>2, StreamHead, Zenon
    <3> QED
      BY <1>a, <3>1, Zenon
  <2>4. g \in Requests /\ g.mbap \in Header
    <3>0. n + 1 <= Len(gs)
      BY <2>3
    <3>1. n + 1 \in 1 .. Len(gs)
      BY <1>s, <3>0
    <3> QED
      BY <1>1, <3>1, Lengths, Zenon DEF ConnInv, GoodAsk
  <2> HIDE DEF g
  <2>5. m = g.mbap
    <3>1. /\ WireLen(g) = 7 + Len(g.pdu) /\ Len(g.pdu) \in Nat
          /\ \A j \in 1 .. 7 : Wire(g)[j] = PutMBAP(g.mbap)[j]
      BY <2>4, WireFacts, Zenon
    <3>2. ASSUME NEW j \in 1 .. 7 PROVE s[j] = PutMBAP(g.mbap)[j]
      <4>1. j \in 1 .. Len(s) /\ 0 + j <= WireLen(g) /\ 0 + j = j
        <5>1. Len(s) \in Nat /\ Len(s) >= 7 /\ WireLen(g) \in Nat /\ WireLen(g) >= 7
          <6>1. Len(s) \in Nat /\ Len(s) >= 7
            BY <1>s, <1>a
          <6>2. WireLen(g) = 7 + Len(g.pdu) /\ Len(g.pdu) \in Nat
            BY <3>1
          <6>3. WireLen(g) \in Nat /\ WireLen(g) >= 7
            BY <6>2
          <6> QED
            BY <6>1, <6>3
        <5>2. j \in Nat /\ j >= 1 /\ j <= 7
          BY <3>2
        <5> DEFINE L == Len(s)
                   w == WireLen(g)
        <5> HIDE DEF L, w
        <5>3. L \in Nat /\ L >= 7 /\ w \in Nat /\ w >= 7
          BY <5>1 DEF L, w
        <5>4. j \in 1 .. L /\ 0 + j <= w /\ 0 + j = j
          BY <5>2, <5>3
        <5> QED
          BY <5>4 DEF L, w
      <4> QED
        BY <2>3, <3>1, <4>1, Zenon
    <3> QED
      BY <2>4, <3>2, DecodesHeader, Zenon
  <2>6. UNCHANGED <<closeErr, peer>>
    BY <1>5 DEF StayConnected
  <2>7. BusyInv'
    BY <1>0, <1>5, <2>3, <2>5 DEF BusyInv, g
  <2>8. ConnInv(conn)'
    <3>a. conn' = conn /\ out' = out /\ peer' = peer /\ hpc' = "body"
      BY <1>0, <1>5, <2>6
    <3>1. Done(conn)' = n /\ Skip(conn)' = 0 + 7 /\ (Alive(conn)' <=> Alive(conn))
      BY <1>s, <3>a DEF Done, Skip, mbapSize, Alive
    <3>2. PICK bt : /\ Stream(bt, SubSeq(s, 7 + 1, Len(s)), 0 + 7, n, gs)
                    /\ Len(s) = at[Len(gs) + 1] => Len(SubSeq(s, 7 + 1, Len(s))) = bt[Len(gs) + 1]
      <4>1. /\ gs \in Seq(Requests) /\ s \in Seq(Nat) /\ n \in Nat /\ 0 \in Nat /\ 7 \in Nat /\ n <= Len(gs)
            /\ 7 <= Len(s) /\ Stream(at, s, 0, n, gs)
        BY <1>a, <1>1, <2>1, <2>2
      <4> HIDE DEF gs, s, n
      <4> QED
        BY <4>1, StreamSkip
    <3>3. GoodStream(in'[conn], Skip(conn)', Done(conn)', gs, Alive(conn)')
      BY <1>3, <2>1, <3>1, <3>2, Zenon DEF GoodStream
    <3> QED
      BY <1>0, <1>1, <1>2, <3>1, <3>3, Zenon DEF ConnInv
  <2>9. \A d \in Conns : d # conn => in'[d] = in[d] /\ out'[d] = out[d] /\ (Alive(d)' => Alive(d))
    BY <1>0, <1>3, <2>6 DEF Alive
  <2> QED
    BY <1>0, <1>3, <2>6, <2>7, <2>8, <2>9, StayOrder
<1>6. \/ hpc' = "out" /\ CloseConn
      \/ hpc' = "body" /\ StayConnected /\ lastMBAP' = m /\ m.protocol = 0 /\ ~(remaining(m) > BufLen)
  BY <1>0 DEF ReadHeader
<1>7. remaining(m) > BufLen \/ remaining(m) <= BufLen
  <2>1. s[5] \in Nat /\ s[6] \in Nat
    <3> HIDE DEF s
    <3> QED
      BY <1>s
  <2>a. 5 + 1 = 6
    OBVIOUS
  <2>b. m.length = Uint16At(s, 5)
    BY Zenon DEF decodeMBAP
  <2>2. m.length = 256 * s[5] + s[6]
    BY <2>a, <2>b, Zenon DEF Uint16At
  <2>3. m.length \in Nat
    BY <2>1, <2>2
  <2> HIDE DEF m
  <2> QED
    BY <2>3, SMT DEF remaining, U16, BufLen
<1> QED
  BY <1>4, <1>5, <1>6, <1>7, Zenon

\* It returns with an error: what had come is dropped.
LEMMA HeaderFailsOrder ==
  ASSUME IInv, OrderInv, HeaderFails PROVE OrderInv'
<1> DEFINE s  == in[conn]
<1>0. /\ hpc = "header" /\ hpc' = "out" /\ reading = conn /\ UNCHANGED <<conn, stored, asked, out, reply>>
      /\ Unread(Len(s))
  BY Inside DEF HeaderFails
<1>1. /\ conn \in Conns /\ NetTypes /\ s \in Seq(Nat) /\ Len(s) \in Nat /\ Len(s) <= Len(s) /\ ConnInv(conn)
      /\ asked[conn] \in Seq(Requests) /\ Done(conn) \in Nat /\ Skip(conn) \in Nat
      /\ Done(conn) <= Len(asked[conn])
      /\ GoodStream(s, Skip(conn), Done(conn), asked[conn], Alive(conn))
  <2>1. s \in Seq(Nat)
    BY <1>0, Served
  <2>2. Len(s) \in Nat /\ Len(s) <= Len(s)
    BY <2>1
  <2> QED
    BY <1>0, <2>1, <2>2, Served
<1>3. /\ NetTypes' /\ \A d \in Conns : d # conn => in'[d] = in[d]
      /\ in'[conn] = SubSeq(s, Len(s) + 1, Len(s))
  BY <1>0, <1>1, UnreadTypes, Zenon
<1>4. CASE CloseConn
  <2>1. closeErr' = "closed" /\ \A d \in Conns : Alive(d)' => Alive(d)
    BY <1>4, CloseAlive DEF CloseConn
  <2> QED
    BY <1>0, <1>3, <2>1, CloseOrder
<1>5. CASE closeErr' = closeErr /\ peer'[conn] = "closed" /\ \A d \in Conns : d # conn => peer'[d] = peer[d]
  <2>1. ~Alive(conn)' /\ \A d \in Conns : d # conn => (Alive(d)' => Alive(d))
    BY <1>0, <1>5 DEF Alive
  <2>2. BusyInv'
    BY <1>0 DEF BusyInv
  <2>3. ConnInv(conn)'
    <3>1. Done(conn)' = Done(conn) /\ Skip(conn)' = Skip(conn)
      BY <1>0 DEF Done, Skip
    <3>2. PICK at : Stream(at, s, Skip(conn), Done(conn), asked[conn])
      BY <1>1, Zenon DEF GoodStream
    <3>3. Stream(at, SubSeq(s, 1, 0), Skip(conn), Done(conn), asked[conn])
      <4>0. Len(s) \in Nat
        BY <1>1
      <4>1. 0 \in Nat /\ 0 <= Len(s)
        BY <4>0
      <4>2. /\ s \in Seq(Nat) /\ asked[conn] \in Seq(Requests) /\ Done(conn) \in Nat /\ Skip(conn) \in Nat
            /\ Done(conn) <= Len(asked[conn])
        BY <1>1
      <4> HIDE DEF s
      <4> QED
        BY <3>2, <4>1, <4>2, StreamCut
    <3>4. SubSeq(s, 1, 0) = SubSeq(s, Len(s) + 1, Len(s))
      <4>1. s \in Seq(Nat)
        BY <1>1
      <4> HIDE DEF s
      <4> QED
        BY <4>1
    <3>5. GoodStream(in'[conn], Skip(conn)', Done(conn)', asked[conn], Alive(conn)')
      BY <1>3, <2>1, <3>1, <3>3, <3>4, Zenon DEF GoodStream
    <3> QED
      BY <1>0, <1>1, <3>1, <3>5, Zenon DEF ConnInv
  <2> QED
    BY <1>0, <1>3, <1>5, <2>1, <2>2, <2>3, StayOrder
<1>6. \/ CloseConn
      \/ closeErr' = closeErr /\ peer'[conn] = "closed" /\ \A d \in Conns : d # conn => peer'[d] = peer[d]
  BY <1>0, <1>1 DEF HeaderFails, StayConnected, IInv, Types
<1> QED
  BY <1>4, <1>5, <1>6

\* The second ReadFull returns with an error, and HandleNext closes.
LEMMA BodyFailsOrder ==
  ASSUME IInv, OrderInv, BodyFails PROVE OrderInv'
<1>0. /\ hpc = "body" /\ hpc' = "out" /\ reading = conn /\ UNCHANGED <<conn, stored, asked, out>>
      /\ Unread(Len(in[conn])) /\ CloseConn
  BY Inside DEF BodyFails
<1>1. conn \in Conns /\ NetTypes /\ Len(in[conn]) \in Nat /\ Len(in[conn]) <= Len(in[conn])
  <2>1. in[conn] \in Seq(Nat)
    BY <1>0, Served
  <2>2. Len(in[conn]) \in Nat /\ Len(in[conn]) <= Len(in[conn])
    BY <2>1
  <2> QED
    BY <1>0, <2>2, Served
<1>2. NetTypes' /\ \A d \in Conns : d # conn => in'[d] = in[d]
  BY <1>0, <1>1, UnreadTypes, Zenon
<1>3. closeErr' = "closed" /\ \A d \in Conns : Alive(d)' => Alive(d)
  BY <1>0, CloseAlive DEF CloseConn
<1> QED
  BY <1>0, <1>2, <1>3, CloseOrder

LEMMA WriteFailsOrder ==
  ASSUME IInv, OrderInv, WriteFails PROVE OrderInv'
<1>0. hpc = "write" /\ hpc' = "out" /\ UNCHANGED <<conn, stored, in, asked, out>> /\ CloseConn
  BY DEF WriteFails
<1>1. NetTypes'
  BY <1>0 DEF OrderInv, NetTypes
<1>2. closeErr' = "closed" /\ \A d \in Conns : Alive(d)' => Alive(d)
  BY <1>0, CloseAlive DEF CloseConn
<1> QED
  BY <1>0, <1>1, <1>2, CloseOrder

\* The answer is written.
LEMMA WriteOrder ==
  ASSUME IInv, OrderInv, Write PROVE OrderInv'
<1>0. /\ hpc = "write" /\ hpc' = "out" /\ UNCHANGED <<conn, stored, in, asked, closeErr, peer>>
      /\ out' = [out EXCEPT ![conn] = Append(@, reply)]
  BY DEF Write, StayConnected
<1>1. /\ conn \in Conns /\ NetTypes /\ ConnInv(conn) /\ Done(conn) <= Len(asked[conn])
      /\ GoodStream(in[conn], Skip(conn), Done(conn), asked[conn], Alive(conn))
  BY <1>0, Served
<1>2. PICK S : out \in [Conns -> Seq(S)]
  BY DEF IInv, Types
<1> DEFINE rs == out[conn]
           n  == Len(rs)
           qs == Append(rs, reply)
<1>3. out'[conn] = qs /\ \A d \in Conns : d # conn => out'[d] = out[d]
  BY <1>0, <1>1, <1>2, Zenon
<1>4. n \in Nat /\ Len(qs) = n + 1 /\ qs[n + 1] = reply /\ \A k \in 1 .. n : qs[k] = rs[k]
  <2> DEFINE T == S \cup {reply}
  <2>1. reply \in T /\ S \subseteq T
    OBVIOUS
  <2> HIDE DEF T
  <2>2. rs \in Seq(S)
    BY <1>1, <1>2
  <2>3. rs \in Seq(T)
    BY <2>1, <2>2, SeqWider, Zenon
  <2> HIDE DEF rs
  <2> QED
    BY <2>1, <2>3
<1> HIDE DEF qs
<1>5. Done(conn)' = Done(conn) /\ Skip(conn)' = Skip(conn) /\ (Alive(conn)' <=> Alive(conn))
  <2>1. Skip(conn)' = Skip(conn) /\ (Alive(conn)' <=> Alive(conn))
    BY <1>0 DEF Skip, Alive
  <2>2. Done(conn)' = Len(qs) + 0 /\ Done(conn) = n + 1
    BY <1>0, <1>3, Zenon DEF Done
  <2>3. n \in Nat /\ Len(qs) = n + 1
    BY <1>4
  <2>4. Done(conn)' = Done(conn)
    BY <2>2, <2>3
  <2> QED
    BY <2>1, <2>4
<1>6. GoodOut(qs, asked[conn])
  <2>1. Answers(reply, asked[conn][n + 1], n + 1)
    BY <1>0 DEF OrderInv, BusyInv
  <2>2. \A k \in 1 .. Len(qs) : k \in 1 .. n \/ k = n + 1
    BY <1>4
  <2>3. \A k \in 1 .. n : Answers(rs[k], asked[conn][k], k)
    BY <1>1, Zenon DEF ConnInv, GoodOut
  <2> QED
    BY <1>4, <2>1, <2>2, <2>3, Zenon DEF GoodOut
<1>7. ConnInv(conn)'
  <2>1. GoodStream(in'[conn], Skip(conn)', Done(conn)', asked[conn], Alive(conn)')
    BY <1>0, <1>1, <1>5, Zenon DEF GoodStream
  <2> QED
    BY <1>0, <1>1, <1>3, <1>5, <1>6, <2>1, Zenon DEF ConnInv
<1>8. NetTypes' /\ BusyInv'
  BY <1>0, <1>1 DEF NetTypes, BusyInv
<1>9. \A d \in Conns : d # conn => in'[d] = in[d] /\ out'[d] = out[d] /\ (Alive(d)' => Alive(d))
  BY <1>0, <1>3 DEF Alive
<1> QED
  BY <1>0, <1>7, <1>8, <1>9, StayOrder

\* HandleNext answers, closes or panics.
LEMMA HandleGoes ==
  ASSUME NEW body, NEW left PROVE Handle(body, left).to \in {"write", "close", "panic"}
<1> DEFINE req    == DecodeRequest(body)
           data   == SubSeq(body, req.off + 1, Len(body))
           answer == PutResponse(req, bank, data, BufLen - req.off, TxRoom, StaleData(body, left))
           mbap   == [lastMBAP EXCEPT !.length = U16(Len(answer.pdu) + 1)]
           r      == Handle(body, left)
<1> HIDE DEF req, data, answer, mbap
<1>1. r = IF InferRequestPacketLength(body).err = "exception"
            THEN handleException(ExceptionIllegalFunction, body[1], bank)
          ELSE IF req.err # "nil" THEN Reaction("close", bank, <<>>)
          ELSE CASE answer.out = "ok"        -> Reaction("write", answer.bank, PutMBAP(mbap) \o answer.pdu)
                 [] answer.out = "exception" -> handleException(answer.exc, req.fc, answer.bank)
                 [] answer.out = "error"     -> Reaction("close", answer.bank, <<>>)
                 [] answer.out = "panic"     -> Reaction("panic", answer.bank, <<>>)
  BY Zenon DEF Handle, req, data, answer, mbap
<1>2. answer.out \in {"ok", "exception", "error", "panic"}
  BY Zenon DEF answer, PutResponse, Answer
<1> HIDE DEF r
<1>3. r.to \in {"write", "close", "panic"}
  BY <1>1, <1>2 DEF Reaction, handleException
<1> QED
  BY <1>3 DEF r

\* What the second ReadFull returns is the rest of the request.
IsNext(g) ==
  /\ g = asked[conn][Len(out[conn]) + 1] /\ Len(out[conn]) + 1 \in 1 .. Len(asked[conn])
  /\ g \in Requests /\ g.mbap \in Header /\ lastMBAP = g.mbap
  /\ SubSeq(in[conn], 1, remaining(lastMBAP)) = g.pdu

LEMMA BodyRead ==
  ASSUME IInv, OrderInv, ReadBody PROVE conn \in Conns /\ IsNext(asked[conn][Len(out[conn]) + 1])
<1> DEFINE s  == in[conn]
           gs == asked[conn]
           n  == Len(out[conn])
           g  == gs[n + 1]
           m  == Len(g.pdu)
<1>0. hpc = "body" /\ reading = conn /\ UNCHANGED <<conn, stored, asked, out>>
  BY Inside DEF ReadBody
<1>1. /\ conn \in Conns /\ NetTypes /\ s \in Seq(Nat) /\ Len(s) \in Nat /\ ConnInv(conn)
      /\ gs \in Seq(Requests) /\ Len(gs) \in Nat /\ n \in Nat /\ Done(conn) <= Len(gs)
      /\ GoodStream(s, Skip(conn), Done(conn), gs, Alive(conn))
  <2>1. s \in Seq(Nat)
    BY <1>0, Served
  <2>2. Len(s) \in Nat
    BY <2>1
  <2> QED
    BY <1>0, <2>2, Served
<1>s. s \in Seq(Nat) /\ Len(s) \in Nat /\ Len(gs) \in Nat /\ n \in Nat
  BY <1>1
<1>2. Done(conn) = n /\ Skip(conn) = 7
  BY <1>0, <1>s DEF Done, Skip, mbapSize
<1>3. n + 1 <= Len(gs) /\ lastMBAP = g.mbap /\ lastMBAP.protocol = 0 /\ remaining(lastMBAP) <= BufLen
  BY <1>0 DEF OrderInv, BusyInv
<1>4. /\ g \in Requests /\ g.mbap \in Header /\ g.mbap.transaction = n + 1 /\ remaining(lastMBAP) = m
  <2>0. n + 1 <= Len(gs)
    BY <1>3
  <2>1. n + 1 \in 1 .. Len(gs)
    BY <1>s, <2>0
  <2>2. g \in Requests
    BY <1>1, <2>1, Lengths, Zenon
  <2>3. GoodAsk(gs)
    BY <1>1, Zenon DEF ConnInv
  <2> QED
    BY <1>3, <2>1, <2>2, <2>3, Zenon DEF GoodAsk
<1>5. /\ m \in Nat /\ WireLen(g) = 7 + m /\ g.pdu \in Seq(Nat)
      /\ \A j \in 1 .. m : Wire(g)[7 + j] = g.pdu[j]
  BY <1>4, WireFacts, Zenon
<1>6. Len(s) >= m /\ m <= Len(s) /\ Unread(m)
  <2>1. Len(s) >= m /\ Unread(m)
    BY <1>0, <1>4, Zenon DEF ReadBody
  <2> QED
    BY <1>1, <1>5, <2>1
<1>8. PICK at : Stream(at, s, 7, n, gs) /\ (Alive(conn) => Len(s) = at[Len(gs) + 1])
  BY <1>1, <1>2, Zenon DEF GoodStream
<1>a. 7 \in Nat /\ n <= Len(gs)
  <2>1. n + 1 <= Len(gs)
    BY <1>3
  <2> QED
    BY <1>s, <2>1
<1> HIDE DEF s, gs, n, g, m
<1>9. SubSeq(s, 1, m) = g.pdu
  <2>1. \A j \in 1 .. Len(s) : 7 + j <= WireLen(g) => s[j] = Wire(g)[7 + j]
    <3>1. gs \in Seq(Requests) /\ s \in Seq(Nat) /\ n \in Nat /\ 7 \in Nat /\ n <= Len(gs) /\ Stream(at, s, 7, n, gs)
      BY <1>a, <1>1, <1>s, <1>8
    <3>2. n + 1 <= Len(gs) =>
            \A j \in 1 .. Len(s) : 7 + j <= WireLen(gs[n + 1]) => s[j] = Wire(gs[n + 1])[7 + j]
      BY <3>1, StreamHead
    <3> QED
      BY <1>3, <3>2, Zenon DEF g
  <2>2. /\ SubSeq(s, 1, m) \in Seq(Nat) /\ Len(SubSeq(s, 1, m)) = m
        /\ \A j \in 1 .. m : SubSeq(s, 1, m)[j] = s[j]
    BY <1>1, <1>5, <1>6, AfterReading
  <2>a. Len(s) \in Nat /\ m \in Nat /\ m <= Len(s) /\ WireLen(g) = 7 + m
    BY <1>s, <1>5, <1>6
  <2>3. \A j \in 1 .. m : j \in 1 .. Len(s) /\ 7 + j <= WireLen(g)
    BY <2>a
  <2>4. \A j \in 1 .. m : SubSeq(s, 1, m)[j] = g.pdu[j]
    BY <1>5, <2>1, <2>2, <2>3, Zenon
  <2> QED
    BY <1>5, <2>2, <2>4, SameBytes, Zenon DEF m
<1>10. n + 1 \in 1 .. Len(gs)
  BY <1>s, <1>3
<1> QED
  BY <1>1, <1>3, <1>4, <1>9, <1>10, Zenon DEF IsNext, g, gs, n, s, m

\* The second ReadFull returns the rest of the request, and it is handled.
LEMMA ReadBodyOrder ==
  ASSUME IInv, OrderInv, ReadBody PROVE OrderInv'
<1> DEFINE s  == in[conn]
           gs == asked[conn]
           n  == Len(out[conn])
           g  == gs[n + 1]
           m  == Len(g.pdu)
<1>0. hpc = "body" /\ reading = conn /\ UNCHANGED <<conn, stored, asked, out>>
  BY Inside DEF ReadBody
<1>1. /\ conn \in Conns /\ NetTypes /\ s \in Seq(Nat) /\ Len(s) \in Nat /\ ConnInv(conn)
      /\ gs \in Seq(Requests) /\ Len(gs) \in Nat /\ n \in Nat /\ Done(conn) <= Len(gs)
      /\ GoodStream(s, Skip(conn), Done(conn), gs, Alive(conn))
  <2>1. s \in Seq(Nat)
    BY <1>0, Served
  <2>2. Len(s) \in Nat
    BY <2>1
  <2> QED
    BY <1>0, <2>2, Served
<1>s. s \in Seq(Nat) /\ Len(s) \in Nat /\ Len(gs) \in Nat /\ n \in Nat
  BY <1>1
<1>2. Done(conn) = n /\ Skip(conn) = 7
  BY <1>0, <1>s DEF Done, Skip, mbapSize
<1>3. n + 1 <= Len(gs) /\ lastMBAP = g.mbap /\ lastMBAP.protocol = 0 /\ remaining(lastMBAP) <= BufLen
  BY <1>0 DEF OrderInv, BusyInv
<1>4. /\ g \in Requests /\ g.mbap \in Header /\ g.mbap.transaction = n + 1 /\ remaining(lastMBAP) = m
  <2>0. n + 1 <= Len(gs)
    BY <1>3
  <2>1. n + 1 \in 1 .. Len(gs)
    BY <1>s, <2>0
  <2>2. g \in Requests
    BY <1>1, <2>1, Lengths, Zenon
  <2>3. GoodAsk(gs)
    BY <1>1, Zenon DEF ConnInv
  <2> QED
    BY <1>3, <2>1, <2>2, <2>3, Zenon DEF GoodAsk
<1>5. /\ m \in Nat /\ WireLen(g) = 7 + m /\ g.pdu \in Seq(Nat)
      /\ \A j \in 1 .. m : Wire(g)[7 + j] = g.pdu[j]
  BY <1>4, WireFacts, Zenon
<1>6. Len(s) >= m /\ m <= Len(s) /\ Unread(m)
  <2>1. Len(s) >= m /\ Unread(m)
    BY <1>0, <1>4, Zenon DEF ReadBody
  <2> QED
    BY <1>1, <1>5, <2>1
<1>7. PICK left \in Stale :
         LET r == Handle(SubSeq(s, 1, m), left)
         IN /\ reply' = r.reply
            /\ IF r.to = "close" THEN hpc' = "out" /\ CloseConn ELSE hpc' = r.to /\ StayConnected
  BY <1>0, <1>4 DEF ReadBody
<1> DEFINE r == Handle(g.pdu, left)
<1>8. PICK at : Stream(at, s, 7, n, gs) /\ (Alive(conn) => Len(s) = at[Len(gs) + 1])
  BY <1>1, <1>2, Zenon DEF GoodStream
<1>a. 7 \in Nat /\ n <= Len(gs)
  <2>1. n + 1 <= Len(gs)
    BY <1>3
  <2> QED
    BY <1>s, <2>1
<1> HIDE DEF s, gs, n, g, m
<1>9. SubSeq(s, 1, m) = g.pdu
  <2>1. IsNext(g)
    BY BodyRead, Zenon DEF g, gs, n
  <2> QED
    BY <1>4, <2>1, Zenon DEF IsNext, s
<1>10. /\ NetTypes' /\ \A d \in Conns : d # conn => in'[d] = in[d]
       /\ in'[conn] = SubSeq(s, m + 1, Len(s))
  BY <1>0, <1>1, <1>5, <1>6, UnreadTypes, Zenon DEF s
<1> HIDE DEF r
<1>11. reply' = r.reply /\ (r.to = "close" => hpc' = "out" /\ CloseConn) /\ (r.to # "close" => hpc' = r.to /\ StayConnected)
  BY <1>7, <1>9, Zenon DEF r
<1>12. CASE r.to = "close"
  <2>1. closeErr' = "closed" /\ \A d \in Conns : Alive(d)' => Alive(d)
    BY <1>11, <1>12, CloseAlive DEF CloseConn
  <2> QED
    BY <1>0, <1>10, <1>11, <1>12, <2>1, CloseOrder
<1>13. CASE r.to \in {"write", "panic"}
  <2>1. hpc' = r.to /\ closeErr' = closeErr /\ peer' = peer
    BY <1>11, <1>13 DEF StayConnected
  <2>2. \A d \in Conns : d # conn => in'[d] = in[d] /\ out'[d] = out[d] /\ (Alive(d)' => Alive(d))
    BY <1>0, <1>10, <2>1 DEF Alive
  <2>3. BusyInv' /\ ConnInv(conn)'
    <3>1. CASE r.to = "panic"
      <4>0. hpc' = "panic" /\ conn' = conn /\ out' = out
        BY <1>0, <2>1, <3>1
      <4>1. BusyInv' /\ ~Current(conn)' /\ Done(conn)' = n
        BY <1>s, <4>0 DEF BusyInv, Current, Done, n
      <4> QED
        BY <1>0, <1>1, <1>a, <4>1, Zenon DEF ConnInv, gs
    <3>2. CASE r.to = "write"
      <4>1. Answers(r.reply, g, n + 1)
        BY <1>3, <1>4, <3>2, HandleAnswers, Zenon DEF r
      <4>2. BusyInv'
        BY <1>0, <1>11, <2>1, <3>2, <4>1 DEF BusyInv, g, n, gs
      <4>3. Done(conn)' = n + 1 /\ Skip(conn)' = 0 /\ (Alive(conn)' <=> Alive(conn))
        BY <1>0, <1>1, <2>1, <3>2 DEF Done, Skip, Alive, n
      <4>4. PICK bt : /\ Stream(bt, SubSeq(s, m + 1, Len(s)), 7 + m, n, gs)
                      /\ Len(s) = at[Len(gs) + 1] => Len(SubSeq(s, m + 1, Len(s))) = bt[Len(gs) + 1]
        <5>1. /\ gs \in Seq(Requests) /\ s \in Seq(Nat) /\ n \in Nat /\ 7 \in Nat /\ m \in Nat /\ n <= Len(gs)
              /\ m <= Len(s) /\ Stream(at, s, 7, n, gs)
          BY <1>a, <1>1, <1>5, <1>6, <1>8
        <5> QED
          BY <5>1, StreamSkip
      <4>5. PICK ct : /\ Stream(ct, SubSeq(s, m + 1, Len(s)), 0, n + 1, gs)
                      /\ ct[Len(gs) + 1] = bt[Len(gs) + 1]
        <5>1. SubSeq(s, m + 1, Len(s)) \in Seq(Nat)
          BY <1>1, <1>5, <1>6, AfterReading
        <5>2. 7 + m \in Nat /\ 7 + m = WireLen(gs[n + 1])
          BY <1>5 DEF g
        <5>3. gs \in Seq(Requests) /\ n \in Nat /\ n + 1 <= Len(gs)
          BY <1>1, <1>3
        <5> DEFINE t == SubSeq(s, m + 1, Len(s))
                   w == 7 + m
        <5>4. t \in Seq(Nat) /\ w \in Nat /\ w = WireLen(gs[n + 1]) /\ Stream(bt, t, w, n, gs)
          BY <4>4, <5>1, <5>2, Zenon
        <5> HIDE DEF t, w
        <5>5. \E ct : Stream(ct, t, 0, n + 1, gs) /\ ct[Len(gs) + 1] = bt[Len(gs) + 1]
          BY <5>3, <5>4, StreamNext
        <5> QED
          BY <5>5 DEF t
      <4>6. GoodStream(in'[conn], Skip(conn)', Done(conn)', gs, Alive(conn)')
        BY <1>8, <1>10, <4>3, <4>4, <4>5, Zenon DEF GoodStream
      <4>7. ConnInv(conn)'
        BY <1>0, <1>1, <1>3, <4>3, <4>6, Zenon DEF ConnInv, gs
      <4> QED
        BY <4>2, <4>7
    <3> QED
      BY <1>13, <3>1, <3>2
  <2> QED
    BY <1>0, <1>10, <2>1, <2>2, <2>3, StayOrder
<1> QED
  BY <1>12, <1>13, HandleGoes DEF r

--------------------------------------------------------------------------------
(***************************************************************************)
(* Invariance.                                                             *)
(***************************************************************************)
LEMMA InitOrder ==
  ASSUME WellFramed, Init PROVE OrderInv
<1>1. /\ in = [c \in Conns |-> <<>>] /\ out = [c \in Conns |-> <<>>] /\ asked = [c \in Conns |-> <<>>]
      /\ hpc = "out"
  BY DEF Init
<1>2. NetTypes
  <2>1. <<>> \in Seq(Nat)
    OBVIOUS
  <2> QED
    BY <1>1, <2>1, Zenon DEF NetTypes
<1>3. BusyInv
  BY <1>1 DEF BusyInv
<1>4. ASSUME NEW c \in Conns PROVE ConnInv(c)
  <2>1. in[c] = <<>> /\ out[c] = <<>> /\ asked[c] = <<>>
    BY <1>1, <1>4, Zenon
  <2>2. Len(<<>>) = 0
    OBVIOUS
  <2>3. GoodAsk(<<>>)
    <3>1. <<>> \in Seq(Requests)
      <4> HIDE DEF Requests
      <4> QED
        OBVIOUS
    <3>2. \A n \in 1 .. Len(<<>>) : FALSE
      OBVIOUS
    <3> QED
      BY <3>1, <3>2, Zenon DEF GoodAsk
  <2>4. GoodOut(<<>>, <<>>)
    <3>1. \A n \in 1 .. Len(<<>>) : FALSE
      OBVIOUS
    <3> QED
      BY <3>1, Zenon DEF GoodOut
  <2>5. Len(<<>>) <= Len(Frames[c])
    BY <2>2, FrameCount, SMT
  <2>6. Done(c) = 0 /\ Skip(c) = 0
    BY <1>1, <2>1, <2>2 DEF Done, Skip
  <2>7. GoodStream(<<>>, 0, 0, <<>>, Alive(c))
    <3> DEFINE D == 0 + 1 .. Len(<<>>) + 1
               at == [n \in D |-> 0]
               z == Len(<<>>)
    <3>0. z = 0
      BY <2>2
    <3> HIDE DEF z
    <3>a. 0 + 1 \in 0 + 1 .. z + 1 /\ z + 1 \in 0 + 1 .. z + 1 /\ z <= 0 /\ 0 \in Int /\ 0 <= 0
      BY <3>0
    <3>b. \A n \in 0 + 1 .. z : FALSE
      BY <3>0
    <3>c. 0 = -0
      <4>1. \A k \in Int : -k = 0 - k
        OBVIOUS
      <4>2. 0 - 0 = 0
        OBVIOUS
      <4> QED
        BY <4>1, <4>2, <3>a, Zenon
    <3>1. /\ 0 + 1 \in D /\ Len(<<>>) + 1 \in D /\ 0 = -0 /\ Len(<<>>) <= 0
          /\ (\A n \in 0 + 1 .. Len(<<>>) : FALSE) /\ 0 \in Int /\ 0 <= 0
      BY <3>a, <3>b, <3>c, Zenon DEF z
    <3> HIDE DEF D
    <3>2. at \in [D -> Int] /\ \A n \in D : at[n] = 0
      BY <3>1
    <3> HIDE DEF at
    <3>3. Stream(at, <<>>, 0, 0, <<>>)
      BY <3>1, <3>2, Zenon DEF Stream, D
    <3>4. Len(<<>>) = at[Len(<<>>) + 1]
      BY <2>2, <3>1, <3>2, Zenon
    <3> QED
      BY <3>3, <3>4, Zenon DEF GoodStream
  <2>8. Done(c) <= Len(asked[c])
    BY <2>1, <2>2, <2>6
  <2> QED
    BY <2>1, <2>3, <2>4, <2>5, <2>6, <2>7, <2>8, Zenon DEF ConnInv
<1> QED
  BY <1>2, <1>3, <1>4 DEF OrderInv

LEMMA HandlerOrder ==
  ASSUME IInv, OrderInv, Handler PROVE OrderInv'
<1>1. HandleNext \/ CallReadFull \/ ReadHeader \/ HeaderFails \/ ReadBody \/ BodyFails \/ Write \/ WriteFails
  BY DEF Handler
<1> QED
  BY <1>1, EnterOrder, ReadHeaderOrder, HeaderFailsOrder, ReadBodyOrder, BodyFailsOrder, WriteOrder,
     WriteFailsOrder

LEMMA NextOrder ==
  ASSUME WellFramed, IInv, OrderInv, [Next]_vars PROVE OrderInv'
<1>1. ASSUME NEW c \in Conns, Client(c) PROVE OrderInv'
  BY <1>1, DialOrder, SendOrder, HangUpOrder DEF Client
<1>2. ASSUME NEW a \in Acceptors, Accept(a) PROVE OrderInv'
  BY <1>2, AcceptOrder, StoreOrder DEF Accept
<1>3. CASE Handler
  BY <1>3, HandlerOrder
<1>4. CASE UNCHANGED vars
  <2>1. UNCHANGED <<in, asked, out, lastMBAP, hpc, reply, conn, stored, closeErr, peer>>
    BY <1>4 DEF vars, handle, net
  <2>2. \A c \in Conns : Current(c)' => Current(c) /\ (Alive(c)' => Alive(c))
    BY <2>1, Zenon DEF Current, Alive, serving
  <2> QED
    BY <2>1, <2>2, QuietOrder
<1> QED
  BY <1>1, <1>2, <1>3, <1>4 DEF Next

\* Whoever calls Accept in the meantime, and wherever a client dies, the n-th
\* answer on a connection is to the n-th request on it: HandleNext never loses
\* its place in the stream of bytes, as long as headers tell the length of
\* what follows them.
THEOREM TcpAnswersInOrder ==
  ASSUME WellFramed PROVE Spec => []AnswersInOrder
<1>1. IInv /\ OrderInv => AnswersInOrder
  <2> SUFFICES ASSUME IInv, OrderInv, NEW c \in Conns
               PROVE  /\ Len(out[c]) <= Len(asked[c])
                      /\ \A n \in 1 .. Len(out[c]) : Answers(out[c][n], asked[c][n], n)
    BY Zenon DEF AnswersInOrder, Answers
  <2>1. ConnInv(c)
    BY DEF OrderInv
  <2>2. Done(c) <= Len(asked[c]) /\ asked[c] \in Seq(Requests) /\ GoodOut(out[c], asked[c])
    BY <2>1, Zenon DEF ConnInv, GoodAsk
  <2>3. Len(asked[c]) \in Nat
    BY <2>2, Lengths
  <2>4. Len(out[c]) \in Nat /\ Done(c) \in Nat /\ Len(out[c]) <= Done(c)
    BY Counts
  <2>5. Len(out[c]) <= Len(asked[c])
    BY <2>2, <2>3, <2>4
  <2> QED
    BY <2>2, <2>5, Zenon DEF GoodOut
<1>2. Init => OrderInv
  BY InitOrder
<1>3. IInv /\ OrderInv /\ [Next]_vars => OrderInv'
  BY NextOrder
<1> QED
  BY <1>1, <1>2, <1>3, TcpInvariance, PTL DEF Spec
================================================================================
