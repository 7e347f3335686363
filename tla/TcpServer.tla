-------------------------------- MODULE TcpServer --------------------------------
(***************************************************************************)
(* The TCP server of modbustcp.  One goroutine calls HandleNext again and  *)
(* again, as the type's comment asks ("not all safe for concurrent use");  *)
(* others call Accept whenever the server is not connected.  Clients dial, *)
(* send requests, and go away at any point of one.                         *)
(*                                                                         *)
(* A connection carries bytes; ReadFull hides how the network cuts them    *)
(* up.  An action of HandleNext is what happens from one blocking call to  *)
(* the next.  The data model is accessed in one instant, which DataModel   *)
(* justifies.                                                              *)
(***************************************************************************)
EXTENDS Pdu

CONSTANTS
  Acceptors,    \* the goroutines that call Accept
  Conns,        \* the connections clients may make
  NoConn,       \* the nil *net.TCPConn
  Frames,       \* bound: Frames[c][n], what the client of c may send as its n-th request
  Initial,      \* what the data model holds at first
  HasTimeout,   \* TRUE iff ConnectTimeout > 0
  Stale,        \* the bytes that earlier requests may have left in rxbuf
  Cuts          \* how many unread bytes may have come through when a client dies

VARIABLES
  bank,       \* the data model
  closeErr, conn, lastMBAP,     \* serverState
  port,       \* who has the listening socket: an acceptor, "server", "free"
  backlog,    \* connections the kernel has set up and nobody has accepted
  apc,        \* an acceptor: "out" of Accept, "listen", "accept" or "store"
  accepted,   \* what its AcceptTCP returned
  hpc,        \* HandleNext: "out", "enter", "header", "body", "write", "panic"
  reading,    \* the connection its ReadFull is called with
  reply,      \* what it is about to write
  peer,       \* a client's end: "new", "open", "closed", "reset"
  in, out,    \* bytes sent to the server and not read; what it wrote, by Write
  asked,      \* history: the frames sent
  stored      \* history: the connections Accept has stored

net    == <<peer, in, asked>>
accept == <<apc, accepted>>
handle == <<hpc, reading, reply>>
vars   == <<bank, closeErr, conn, lastMBAP, port, backlog, accept, handle, net, out, stored>>

ASSUME TcpAssumption ==
  /\ NoConn \notin Conns
  /\ {"server", "free"} \cap Acceptors = {}
  /\ HasTimeout \in BOOLEAN /\ Cuts \subseteq Nat
  /\ Word \subseteq Uint16 /\ Stale \subseteq Byte
  /\ Initial \in [Cell -> Word] /\ \A c \in Cell : c[1] \in BitTables => Initial[c] \in {0, 1}

Init ==
  /\ bank = Initial
  /\ closeErr = "not yet connected" /\ conn = NoConn
  /\ lastMBAP = [transaction |-> 0, protocol |-> 0, length |-> 0, unit |-> 0]
  /\ port = "free" /\ backlog = {}
  /\ apc = [a \in Acceptors |-> "out"] /\ accepted = [a \in Acceptors |-> NoConn]
  /\ hpc = "out" /\ reading = NoConn /\ reply = <<>>
  /\ peer = [c \in Conns |-> "new"]
  /\ in = [c \in Conns |-> <<>>] /\ out = [c \in Conns |-> <<>>]
  /\ asked = [c \in Conns |-> <<>>] /\ stored = {}

--------------------------------------------------------------------------------
(***************************************************************************)
(* The MBAP header.                                                        *)
(***************************************************************************)
mbapSize == 7

PutMBAP(mbap) ==
  BigEndian(mbap.transaction) \o BigEndian(mbap.protocol) \o BigEndian(mbap.length) \o <<mbap.unit>>

\* Mutant: the transaction identifier is not taken over.
decodeMBAP_NoTransaction(b) ==
  [transaction |-> 0, protocol |-> Uint16At(b, 3), length |-> Uint16At(b, 5), unit |-> b[7]]

decodeMBAP(b) ==
  [transaction |-> Uint16At(b, 1), protocol |-> Uint16At(b, 3), length |-> Uint16At(b, 5),
   unit |-> b[7]]

--------------------------------------------------------------------------------
(***************************************************************************)
(* Clients, and the kernel's part.                                         *)
(***************************************************************************)
Dial(c) ==
  /\ peer[c] = "new" /\ port # "free"
  /\ peer' = [peer EXCEPT ![c] = "open"]
  /\ backlog' = backlog \cup {c}
  /\ UNCHANGED <<bank, closeErr, conn, lastMBAP, port, accept, handle, in, asked, out, stored>>

\* What a client sends: an MBAP header and a PDU.  The transaction
\* identifier is set when it is sent: it counts the client's requests.
Frame(protocol, length, unit, pdu) ==
  [mbap |-> [transaction |-> 0, protocol |-> protocol, length |-> length, unit |-> unit],
   pdu |-> pdu]

Numbered(f, n) == [f EXCEPT !.mbap.transaction = n]

Send(c) ==
  /\ peer[c] = "open" /\ Len(asked[c]) < Len(Frames[c])
  /\ \E f \in Frames[c][Len(asked[c]) + 1] : \E g \in {Numbered(f, Len(asked[c]) + 1)} :
       /\ asked' = [asked EXCEPT ![c] = Append(@, g)]
       /\ in' = [in EXCEPT ![c] = @ \o PutMBAP(g.mbap) \o g.pdu]
  /\ UNCHANGED <<bank, closeErr, conn, lastMBAP, port, backlog, accept, handle, peer, out, stored>>

\* A client closes its end or crashes, perhaps in the middle of a request.
HangUp(c) ==
  /\ peer[c] = "open"
  /\ \E how \in {"closed", "reset"} : peer' = [peer EXCEPT ![c] = how]
  /\ \E k \in Cuts \cup {Len(in[c])} :
       k <= Len(in[c]) /\ in' = [in EXCEPT ![c] = SubSeq(@, 1, k)]
  /\ UNCHANGED <<bank, closeErr, conn, lastMBAP, port, backlog, accept, handle, asked, out, stored>>

\* listener.Close: the port is free again, and whoever was not accepted is reset.
CloseListener ==
  /\ port' = "free" /\ backlog' = {}
  /\ peer' = [c \in Conns |-> IF c \in backlog THEN "reset" ELSE peer[c]]

--------------------------------------------------------------------------------
(***************************************************************************)
(* Accept.  The address is fixed, so ListenTCP fails while any listener is *)
(* open on it; that of a connected server is.                              *)
(***************************************************************************)
AcceptCheck(a) ==
  /\ apc[a] = "out" /\ closeErr # "nil"
  /\ apc' = [apc EXCEPT ![a] = "listen"]
  /\ UNCHANGED <<bank, closeErr, conn, lastMBAP, port, backlog, accepted, handle, net, out, stored>>

\* Mutant: the port can be shared.
ListenTCP_Shared(a) ==
  /\ apc[a] = "listen"
  /\ port' = a /\ apc' = [apc EXCEPT ![a] = "accept"]
  /\ UNCHANGED <<bank, closeErr, conn, lastMBAP, backlog, accepted, handle, net, out, stored>>

ListenTCP(a) ==
  /\ apc[a] = "listen"
  /\ IF port = "free" THEN port' = a /\ apc' = [apc EXCEPT ![a] = "accept"]
                      ELSE UNCHANGED port /\ apc' = [apc EXCEPT ![a] = "out"]
  /\ UNCHANGED <<bank, closeErr, conn, lastMBAP, backlog, accepted, handle, net, out, stored>>

AcceptTCP(a, c) ==
  /\ apc[a] = "accept" /\ c \in backlog
  /\ backlog' = backlog \ {c}
  /\ accepted' = [accepted EXCEPT ![a] = c]
  /\ apc' = [apc EXCEPT ![a] = "store"]
  /\ UNCHANGED <<bank, closeErr, conn, lastMBAP, port, handle, net, out, stored>>

\* Nobody dialled before the deadline.
AcceptTimeout(a) ==
  /\ HasTimeout /\ apc[a] = "accept"
  /\ CloseListener
  /\ apc' = [apc EXCEPT ![a] = "out"]
  /\ UNCHANGED <<bank, closeErr, conn, lastMBAP, accepted, handle, in, asked, out, stored>>

\* The critical section of Accept.
Store(a) ==
  /\ apc[a] = "store"
  /\ closeErr' = "nil" /\ conn' = accepted[a] /\ port' = "server"
  /\ stored' = stored \cup {accepted[a]}
  /\ apc' = [apc EXCEPT ![a] = "out"] /\ accepted' = [accepted EXCEPT ![a] = NoConn]
  /\ UNCHANGED <<bank, lastMBAP, backlog, handle, net, out>>

--------------------------------------------------------------------------------
(***************************************************************************)
(* HandleNext and handleException.                                         *)
(***************************************************************************)
BufLen == 256
TxRoom == BufLen - mbapSize

\* Mutant: the listener stays open.
CloseConn_KeepsListening == closeErr' = "closed" /\ UNCHANGED <<port, backlog, peer>>

\* CloseConn closes the listener, and not the connection.
CloseConn == closeErr' = "closed" /\ CloseListener

StayConnected == UNCHANGED <<closeErr, port, backlog, peer>>

\* The calls up to the first ReadFull.  With an error recorded HandleNext
\* returns at once and changes nothing.
HandleNext ==
  /\ hpc = "out" /\ closeErr = "nil"
  /\ hpc' = "enter"
  /\ UNCHANGED <<bank, closeErr, conn, lastMBAP, port, backlog, accept, reading, reply, net, out, stored>>

CallReadFull ==
  /\ hpc = "enter"
  /\ hpc' = "header" /\ reading' = conn
  /\ UNCHANGED <<bank, closeErr, conn, lastMBAP, port, backlog, accept, reply, net, out, stored>>

\* Bytes in the body of a request.  A Length of 0 wraps around.
remaining(mbap) == U16(mbap.length - 1)

Unread(n) == in' = [in EXCEPT ![reading] = SubSeq(@, n + 1, Len(@))]

MBAP == [transaction : Nat, protocol : Nat, length : Nat, unit : Byte]

\* The first ReadFull returns with a header.
ReadHeader ==
  /\ hpc = "header" /\ Len(in[reading]) >= mbapSize
  /\ Unread(mbapSize)
  /\ \E mbap \in {decodeMBAP(in[reading])} :
       /\ lastMBAP' = IF mbap.protocol = 0 THEN mbap ELSE lastMBAP
       /\ IF mbap.protocol # 0 \/ remaining(mbap) > BufLen
            THEN hpc' = "out" /\ CloseConn /\ UNCHANGED reading
            ELSE hpc' = "body" /\ StayConnected /\ reading' = conn
  /\ UNCHANGED <<bank, conn, accept, reply, asked, out, stored>>

\* Mutant: only an error other than io.EOF closes.
HeaderFails_NotOnEOF ==
  /\ hpc = "header" /\ Len(in[reading]) < mbapSize /\ peer[reading] \in {"closed", "reset"}
  /\ hpc' = "out" /\ Unread(Len(in[reading])) /\ StayConnected
  /\ UNCHANGED <<bank, conn, lastMBAP, accept, reading, reply, asked, out, stored>>

\* It returns with an error.  Only io.EOF closes: not io.ErrUnexpectedEOF,
\* for a header cut short, and not a reset, after which reads return io.EOF.
HeaderFails ==
  /\ hpc = "header" /\ Len(in[reading]) < mbapSize
  /\ hpc' = "out" /\ Unread(Len(in[reading]))
  /\ \/ peer[reading] = "closed" /\ in[reading] = <<>> /\ CloseConn
     \/ peer[reading] = "closed" /\ in[reading] # <<>> /\ StayConnected
     \/ /\ peer[reading] = "reset" /\ peer' = [peer EXCEPT ![reading] = "closed"]
        /\ UNCHANGED <<closeErr, port, backlog>>
  /\ UNCHANGED <<bank, conn, lastMBAP, accept, reading, reply, asked, out, stored>>

Reaction(to, m, adu) == [to |-> to, bank |-> m, reply |-> adu]

\* Mutant: the exception is not sent.
handleException_Silent(exc, fc, m) == Reaction("out", m, <<>>)

\* The answer starts with the header of the request, its Length included.
handleException(exc, fc, m) == Reaction("write", m, PutMBAP(lastMBAP) \o ExceptionResponse(exc, fc))

\* What follows readData's first bytes in rxbuf: the rest of the request,
\* then the end of its header, then what earlier requests left.
StaleData(body, left) ==
  LET rxbuf == body \o SubSeq(PutMBAP(lastMBAP), Len(body) + 1, mbapSize)
  IN [j \in 1 .. BufLen - 2 |-> IF j + 2 <= Len(rxbuf) THEN rxbuf[j + 2] ELSE left]

\* What HandleNext does with the body of a request.  A length that is not
\* the inferred one is only logged.  The header that HandleNext keeps for the
\* answer is the one in lastMBAP, which only HandleNext sets.
Handle(body, left) ==
  LET req    == DecodeRequest(body)
      data   == SubSeq(body, req.off + 1, Len(body))
      answer == PutResponse(req, bank, data, BufLen - req.off, TxRoom, StaleData(body, left))
      mbap   == [lastMBAP EXCEPT !.length = U16(Len(answer.pdu) + 1)]
  IN IF InferRequestPacketLength(body).err = "exception"
       THEN handleException(ExceptionIllegalFunction, body[1], bank)
     ELSE IF req.err # "nil" THEN Reaction("close", bank, <<>>)
     ELSE CASE answer.out = "ok"        -> Reaction("write", answer.bank, PutMBAP(mbap) \o answer.pdu)
            [] answer.out = "exception" -> handleException(answer.exc, req.fc, answer.bank)
            [] answer.out = "error"     -> Reaction("close", answer.bank, <<>>)
            [] answer.out = "panic"     -> Reaction("panic", answer.bank, <<>>)

\* The second ReadFull returns with the body.
ReadBody ==
  /\ hpc = "body" /\ Len(in[reading]) >= remaining(lastMBAP)
  /\ Unread(remaining(lastMBAP))
  /\ \E left \in Stale : \E r \in {Handle(SubSeq(in[reading], 1, remaining(lastMBAP)), left)} :
       /\ bank' = r.bank /\ reply' = r.reply
       /\ IF r.to = "close" THEN hpc' = "out" /\ CloseConn ELSE hpc' = r.to /\ StayConnected
  /\ UNCHANGED <<conn, lastMBAP, accept, reading, asked, out, stored>>

BodyFails ==
  /\ hpc = "body" /\ Len(in[reading]) < remaining(lastMBAP)
  /\ peer[reading] \in {"closed", "reset"}
  /\ hpc' = "out" /\ Unread(Len(in[reading])) /\ CloseConn
  /\ UNCHANGED <<bank, conn, lastMBAP, accept, reading, reply, asked, out, stored>>

Write ==
  /\ hpc = "write"
  /\ hpc' = "out" /\ reply' = <<>> /\ StayConnected
  /\ out' = [out EXCEPT ![conn] = Append(@, reply)]
  /\ UNCHANGED <<bank, conn, lastMBAP, accept, reading, in, asked, stored>>

\* A client that has gone may make Write fail.
WriteFails ==
  /\ hpc = "write" /\ peer[conn] # "open"
  /\ hpc' = "out" /\ reply' = <<>> /\ CloseConn
  /\ UNCHANGED <<bank, conn, lastMBAP, accept, reading, in, asked, out, stored>>

--------------------------------------------------------------------------------
Client(c) == Dial(c) \/ Send(c) \/ HangUp(c)

Accept(a) ==
  \/ AcceptCheck(a) \/ ListenTCP(a) \/ AcceptTimeout(a) \/ Store(a)
  \/ \E c \in Conns : AcceptTCP(a, c)

Handler ==
  \/ HandleNext \/ CallReadFull \/ ReadHeader \/ HeaderFails
  \/ ReadBody \/ BodyFails \/ Write \/ WriteFails

Next == (\E c \in Conns : Client(c)) \/ (\E a \in Acceptors : Accept(a)) \/ Handler

Spec == Init /\ [][Next]_vars

\* The goroutines go on calling HandleNext and Accept, as helloserver does.
\* The two states say when the fair actions are not enabled.
HandlerWaits ==
  \/ hpc = "panic"
  \/ hpc = "out" /\ closeErr # "nil"
  \/ /\ hpc \in {"header", "body"} /\ peer[reading] = "open"
     /\ Len(in[reading]) < IF hpc = "header" THEN mbapSize ELSE remaining(lastMBAP)

AcceptorWaits(a) ==
  \/ apc[a] = "out" /\ closeErr = "nil"
  \/ apc[a] = "accept" /\ backlog = {} /\ ~HasTimeout

FairSpec ==
  /\ Spec
  /\ []<>HandlerWaits \/ []<><<Handler>>_vars
  /\ \A a \in Acceptors : []<>AcceptorWaits(a) \/ []<><<Accept(a)>>_vars

--------------------------------------------------------------------------------
\* What the clients send has the form of a frame, and if the server reads on
\* after its header, a body of the Length that the header says.  (The server
\* cannot do without: what follows is where it looks for the next header.)
WellFramed ==
  \A c \in Conns :
    /\ Frames[c] \in Seq(SUBSET [mbap : MBAP, pdu : Seq(Byte)]) /\ Len(Frames[c]) < 65536
    /\ \A n \in 1 .. Len(Frames[c]) : \A f \in Frames[c][n] :
         /\ f.mbap.protocol < 65536 /\ f.mbap.length < 65536
         /\ f.mbap.protocol = 0 /\ remaining(f.mbap) <= BufLen => remaining(f.mbap) = Len(f.pdu)

\* Each request of each client is one of P.
AllSend(P(_)) ==
  \A c \in Conns : \A n \in 1 .. Len(Frames[c]) : \A f \in Frames[c][n] : P(f.pdu)

\* A request whose values for registers are among the values that registers have.
WritesWords(pdu) ==
  Len(pdu) >= 5 =>
    /\ pdu[1] = FCWriteSingleRegister => Uint16At(pdu, 4) \in Word
    /\ pdu[1] = FCWriteMultipleRegisters =>
         \A k \in 0 .. Len(pdu) : 2 * k + 8 <= Len(pdu) => Uint16At(pdu, 2 * k + 7) \in Word

\* A request that the slices and loops of PutResponse are up to: if it writes
\* one value, this is at most 254; if it reads, so are the bytes it asks for;
\* if it writes several registers, it has bytes for all; it does not write
\* several coils.
Manageable(pdu) ==
  LET qty == Uint16At(pdu, 4)
  IN Len(pdu) >= 5 =>
       /\ pdu[1] \in {FCReadCoils, FCReadDiscreteInputs} \cup WriteSingleFCs => qty <= 254
       /\ pdu[1] \in {FCReadHoldingRegisters, FCReadInputRegisters} => qty <= 127
       /\ pdu[1] = FCWriteMultipleRegisters /\ Len(pdu) >= 7 => 2 * qty <= pdu[6]
       /\ pdu[1] # FCWriteMultipleCoils

\* A request that, if it writes a single coil, says ON or OFF.
OnOrOff(pdu) == Len(pdu) >= 5 /\ pdu[1] = FCWriteSingleCoil => Uint16At(pdu, 4) \in {0, 65280}

\* Type correctness of the server and of its clients.
TypeOK ==
  /\ bank \in [Cell -> Word]
  /\ closeErr \in {"not yet connected", "nil", "closed"}
  /\ conn \in Conns \cup {NoConn} /\ reading \in Conns \cup {NoConn}
  /\ lastMBAP \in MBAP
  /\ port \in Acceptors \cup {"server", "free"} /\ backlog \subseteq Conns
  /\ apc \in [Acceptors -> {"out", "listen", "accept", "store"}]
  /\ accepted \in [Acceptors -> Conns \cup {NoConn}]
  /\ hpc \in {"out", "enter", "header", "body", "write", "panic"}
  /\ reply \in Seq(Byte)
  /\ peer \in [Conns -> {"new", "open", "closed", "reset"}]
  /\ in \in [Conns -> Seq(Byte)] /\ out \in [Conns -> Seq(Seq(Byte))]
  /\ asked \in [Conns -> Seq([mbap : MBAP, pdu : Seq(Byte)])]
  /\ stored \subseteq Conns

\* The connection being served.
serving == IF closeErr = "nil" THEN conn ELSE NoConn

One == INSTANCE OneConnection WITH
  past <- stored \ {serving}, written <- [c \in Conns |-> Len(out[c])]

\* "By design Servers can only maintain one connection" (server.go:83), with
\* any number of goroutines in Accept, which checks and stores under different
\* holds of the mutex: no connection replaces one that is being served, none
\* is served twice, and nothing is written to one before or after its turn.
OneAtATime == One!Spec

\* HandleNext reads sv.state.conn without the mutex and then blocks.  When
\* ReadFull returns, the connection it was called with is still the one being
\* served: no call of Accept has slipped in.
ReadsTheServed == hpc \in {"header", "body"} => reading = serving

\* The n-th answer on a connection is to the n-th request on it: it carries
\* its transaction identifier, its unit and its function code.  No request
\* that HandleNext reads is skipped or answered twice.
AnswersInOrder ==
  \A c \in Conns :
    /\ Len(out[c]) <= Len(asked[c])
    /\ \A n \in 1 .. Len(out[c]) :
         LET mbap == decodeMBAP(out[c][n])
         IN /\ mbap.transaction = n /\ mbap.unit = asked[c][n].mbap.unit
            /\ out[c][n][8] % 128 = asked[c][n].pdu[1]

\* The request that is being answered.
Pending == asked[conn][Len(out[conn]) + 1].pdu

\* Element k of the values in a response or in a request.
ValueIn(t, data, k) ==
  IF t \in RegTables THEN Uint16At(data, 2 * k + 1) ELSE (data[1 + k \div 8] \div 2^(k % 8)) % 2

\* The data model holds, from addr on, the values in data.
Holds(t, addr, qty, data) == \A k \in 0 .. qty - 1 : bank[<<t, addr + k>>] = ValueIn(t, data, k)

\* The answer to a single write says what was written, and the data model has it.
Confirms(pdu, fc, addr, value) ==
  /\ ReceiveSingleWriteResponse(pdu) = [err |-> "nil", addr |-> addr, value |-> value]
  /\ bank[<<TableOf(fc), addr>>] = IF fc = FCWriteSingleRegister THEN value ELSE value \div 65280

\* When HandleNext is about to answer a request other than by an exception,
\* the client that decodes the answer learns the truth: what it asked for is
\* what the data model holds, what it wrote is there, and the header's Length
\* is that of the answer.
AnswerTellsTruth ==
  LET pdu  == SubSeq(reply, mbapSize + 1, Len(reply))
      fc   == Pending[1]
      addr == Uint16At(Pending, 2)
      qty  == Uint16At(Pending, 4)
  IN hpc = "write" /\ pdu[1] < 128 =>
       /\ decodeMBAP(reply).length = Len(pdu) + 1
       /\ fc \in ReadFCs =>
            LET got == ReceiveDataResponse(pdu)
            IN got.err = "nil" /\ Holds(TableOf(fc), addr, qty, got.data)
       /\ fc \in WriteSingleFCs => Confirms(pdu, fc, addr, qty)
       /\ fc \in WriteMultipleFCs => Holds(TableOf(fc), addr, qty, SubSeq(Pending, 7, Len(Pending)))

\* "PutResponse writes the response to the receiver Request into dst.
\* Returns a Exception" (tx.go:123): it does not panic on the requests that
\* the clients send.
NoPanic == hpc # "panic"

\* "Length. Number of following bytes in PDU" (peamodbus.go:19), that is after
\* the Length field: so a client knows how much to read.
LengthIsTold ==
  \A c \in Conns : \A n \in 1 .. Len(out[c]) : decodeMBAP(out[c][n]).length = Len(out[c][n]) - 6

\* A request on the connection being served is answered in the end, or the
\* server is done with the connection.
Answered ==
  \A c \in Conns :
    serving = c /\ Len(out[c]) < Len(asked[c]) ~> serving # c \/ Len(out[c]) = Len(asked[c])

\* A client that has gone, in whatever state it left the stream, does not
\* keep the server: HandleNext finds out and closes.
GoneIsNoticed == \A c \in Conns : serving = c /\ peer[c] # "open" ~> serving # c

\* A server that is not connected listens again: its own old listener and
\* racing calls of Accept do not keep the port from it for ever.
ListensAgain == closeErr # "nil" ~> port \in Acceptors
================================================================================
