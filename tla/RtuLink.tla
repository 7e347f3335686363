--------------------------------- MODULE RtuLink ---------------------------------
(***************************************************************************)
(* A modbusrtu Client and a modbusrtu Server at the two ends of a serial   *)
(* line.  The application at one end makes calls one after the other       *)
(* (muTx allows no more); at the other it calls HandleNext again and       *)
(* again.  Both ends receive with the TryRx of RtuRx, from ports of which  *)
(* the code asks no more than io.Reader does: the client's may wait for a  *)
(* byte or return without one, and both may return part of what has come.  *)
(***************************************************************************)
EXTENDS Pdu

CONSTANTS
  address,      \* the server's
  Calls,        \* the calls the application may make: see Call below
  CRC(_),       \* generateCRC
  HasDeadline,  \* TRUE iff RxTimeout > 0
  PortFails,    \* TRUE iff the client's port.Read may return an error
  Blocking,     \* TRUE iff the client's port.Read waits until it has a byte to return,
                \* as io.Pipe does; else it returns 0 bytes after a time of its own
  WholeRequests,\* TRUE iff the server's port.Read returns all it is asked for of a
                \* request, as io.Pipe does; else as much as has come, as a UART does
  MaxCalls,     \* bound: calls made
  MaxLost       \* bound: packets lost or not written, changes of the port

VARIABLES
  bank,                               \* the server's data model
  toServer, toClient,                 \* the two directions of the line
  cbuf, cstart, cpc, cneed, cerr, cret,   \* the client's connState
  sbuf, sstart, spc, sneed, serr, sret,   \* the server's connState
  st,        \* the client: "idle", "loop" (in transaction) or "rx" (in TryRx)
  call,      \* its call
  errcount,  \* of transaction
  lastErr,   \* the err of transaction's loop
  result,    \* what its last call returned
  serving,   \* the server: "loop" or "rx" (in TryRx), "panic"
  served,    \* history: the PDUs the server has answered with
  calls, lost

crx  == <<cbuf, cstart, cpc, cneed, cerr, cret>>
srx  == <<sbuf, sstart, spc, sneed, serr, sret>>
line == <<toServer, toClient>>
vars == <<bank, line, crx, srx, st, call, errcount, lastErr, result, serving, served, calls, lost>>

C == INSTANCE RtuRx WITH IsResponse <- TRUE, ErrWithData <- FALSE, line <- toClient, buf <- cbuf,
       dataStart <- cstart, pc <- cpc, need <- cneed, closeErr <- cerr, ret <- cret
S == INSTANCE RtuRx WITH IsResponse <- FALSE, ErrWithData <- FALSE, line <- toServer, buf <- sbuf,
       dataStart <- sstart, pc <- spc, need <- sneed, closeErr <- serr, ret <- sret

\* A call reads qty registers, or writes regs, from addr on, at device dev.
Call(fc, dev, addr, regs) == [fc |-> fc, dev |-> dev, addr |-> addr, regs |-> regs]

NoCall   == Call(0, 0, 0, <<>>)
NoResult == [call |-> NoCall, err |-> "none", regs |-> <<>>]

\* What the three methods of a Client take.
RegisterFCs == {FCReadHoldingRegisters, FCReadInputRegisters, FCWriteMultipleRegisters}

ASSUME LinkAssumption ==
  /\ address \in 1 .. 247
  /\ Word \subseteq Uint16
  /\ Calls \subseteq [fc : RegisterFCs, dev : Byte, addr : Uint16, regs : Seq(Word)]
  /\ MaxCalls \in Nat /\ MaxLost \in Nat /\ {HasDeadline, PortFails} \subseteq BOOLEAN
  /\ {Blocking, WholeRequests} \subseteq BOOLEAN

Init ==
  /\ bank = [c \in Cell |-> 0]
  /\ C!RxInit /\ S!RxInit
  /\ st = "idle" /\ call = NoCall /\ errcount = 0 /\ lastErr = "nil" /\ result = NoResult
  /\ serving = "loop" /\ served = {}
  /\ calls = 0 /\ lost = 0

--------------------------------------------------------------------------------
(***************************************************************************)
(* The client.                                                             *)
(***************************************************************************)
RequestOf(c) ==
  IF c.fc = FCWriteMultipleRegisters THEN RequestWriteMultipleRegisters(c.addr, c.regs)
  ELSE RequestRead(c.fc, c.addr, U16(Len(c.regs)))

\* Mutant: the CRC has its high byte first.
Packet_HighByteFirst(dev, pdu) ==
  LET body == <<dev>> \o pdu IN body \o BigEndian(CRC(body))

\* Address, PDU and CRC, low byte first.
Packet(dev, pdu) ==
  LET body == <<dev>> \o pdu IN body \o <<CRC(body) % 256, CRC(body) \div 256>>

\* The line carries a packet, or loses it.
Carry(queue, packet) ==
  \/ queue' = queue \o packet /\ UNCHANGED lost
  \/ lost < MaxLost /\ lost' = lost + 1 /\ UNCHANGED queue

Return(err, regs) ==
  /\ st' = "idle" /\ call' = NoCall /\ errcount' = 0 /\ lastErr' = "nil"
  /\ result' = [call |-> call, err |-> err, regs |-> regs]

\* ReadHoldingRegisters, ReadInputRegisters or WriteHoldingRegisters, up to
\* the loop of transaction: build the request and write it to the port,
\* which may fail.
StartCall(c) ==
  /\ st = "idle" /\ calls < MaxCalls
  /\ calls' = calls + 1
  /\ IF RequestOf(c) = <<>>
       THEN /\ result' = [call |-> c, err |-> "oob", regs |-> <<>>]
            /\ UNCHANGED <<toServer, lost, st, call>>
       ELSE \/ /\ Carry(toServer, Packet(c.dev, RequestOf(c)))
               /\ st' = "loop" /\ call' = c
               /\ UNCHANGED result
            \/ /\ lost < MaxLost /\ lost' = lost + 1
               /\ result' = [call |-> c, err |-> "io", regs |-> <<>>]
               /\ UNCHANGED <<toServer, st, call>>
  /\ UNCHANGED <<bank, toClient, crx, srx, errcount, lastErr, serving, served>>

\* One turn of transaction's loop: call TryRx ...
ClientTryRx ==
  /\ st = "loop" /\ errcount < 5
  /\ C!TryRx
  /\ st' = "rx"
  /\ UNCHANGED <<bank, toServer, srx, call, errcount, lastErr, result, serving, served, calls, lost>>

\* ... the port returns some of what has arrived, or an error, or, unless it
\* is one that waits, nothing if nothing has arrived ...
ClientRead ==
  /\ \E k \in 0 .. cneed, failed \in {FALSE, PortFails} :
       /\ k = 0 => failed \/ (toClient = <<>> /\ ~Blocking)
       /\ C!ReadReturns(k, failed)
  /\ UNCHANGED <<bank, toServer, srx, st, call, errcount, lastErr, result, serving, served, calls, lost>>

\* Mutant: any answer of the device called will do.
Matches_AnyFunction == Len(cret.pdu) > 1 /\ call.dev \in {0, cret.addr}

\* ... and TryRx has returned: a packet from the device called, with the
\* function code called, ends the loop, even if its CRC is wrong.
Matches == Len(cret.pdu) > 1 /\ call.dev \in {0, cret.addr} /\ call.fc = cret.pdu[1]

\* Mutant: registers with their low byte first.
Registers_LowByteFirst(data) ==
  [j \in 1 .. Len(data) \div 2 |-> data[2 * j - 1] + 256 * data[2 * j]]

Registers(data) == [j \in 1 .. Len(data) \div 2 |-> Uint16At(data, 2 * j - 1)]

\* What readRegisters and WriteHoldingRegisters make of the packet.
Conclude(pdu) ==
  LET r == ReceiveDataResponse(pdu) IN
  IF call.fc = FCWriteMultipleRegisters THEN Return("nil", <<>>)
  ELSE IF r.err # "nil" THEN Return(r.err, <<>>)
  ELSE IF Len(r.data) # 2 * Len(call.regs) THEN Return("count", <<>>)
  ELSE Return("nil", Registers(r.data))

Examine ==
  /\ st = "rx" /\ cpc = "ready"
  /\ IF Matches
       THEN IF cret.err # "nil" THEN Return(cret.err, <<>>) ELSE Conclude(cret.pdu)
       ELSE /\ st' = "loop" /\ lastErr' = cret.err
            /\ errcount' = errcount + (IF cret.err = "missing" THEN 0 ELSE 1)
            /\ UNCHANGED <<call, result>>
  /\ UNCHANGED <<bank, line, crx, srx, serving, served, calls, lost>>

\* Mutant: the deadline is never looked at.
GiveUp_ErrorsOnly ==
  /\ st = "loop" /\ errcount >= 5
  /\ Return(IF lastErr # "nil" THEN lastErr ELSE "timeout", <<>>)
  /\ UNCHANGED <<bank, line, crx, srx, serving, served, calls, lost>>

\* The loop ends without a packet: the deadline has passed, or five errors.
\* It is looked at between two calls of TryRx only, never inside port.Read.
GiveUp ==
  /\ st = "loop" /\ (HasDeadline \/ errcount >= 5)
  /\ Return(IF lastErr # "nil" THEN lastErr ELSE "timeout", <<>>)
  /\ UNCHANGED <<bank, line, crx, srx, serving, served, calls, lost>>

\* Between two calls (it takes muTx) the application reopens the port.  What
\* the old one had yet to hand over is lost; what is in rxbuf stays there.
SetTransport ==
  /\ st = "idle"
  /\ \/ toClient = <<>> /\ UNCHANGED lost
     \/ toClient # <<>> /\ lost < MaxLost /\ lost' = lost + 1
  /\ toClient' = <<>> /\ cerr' = FALSE
  /\ UNCHANGED <<bank, toServer, cbuf, cstart, cpc, cneed, cret, srx, st, call, errcount, lastErr,
                 result, serving, served, calls>>

--------------------------------------------------------------------------------
(***************************************************************************)
(* The server: HandleNext.                                                 *)
(***************************************************************************)
ServerTryRx ==
  /\ serving = "loop"
  /\ S!TryRx
  /\ serving' = "rx"
  /\ UNCHANGED <<bank, toClient, crx, st, call, errcount, lastErr, result, served, calls, lost>>

\* That the port returns nothing stands for the time it waits for a request.
ServerRead ==
  /\ \E k \in 0 .. sneed :
       /\ k = 0 => toServer = <<>>
       /\ WholeRequests => k \in {sneed, Len(toServer)}
       /\ S!ReadReturns(k, FALSE)
  /\ UNCHANGED <<bank, toClient, crx, st, call, errcount, lastErr, result, serving, served, calls, lost>>

\* TryRx has returned without a packet for this server: HandleNext tries
\* again, or returns an error and is called again.
NotForUs ==
  /\ serving = "rx" /\ spc = "ready"
  /\ sret.err # "nil" \/ sret.addr # address
  /\ serving' = "loop"
  /\ UNCHANGED <<bank, line, crx, srx, st, call, errcount, lastErr, result, served, calls, lost>>

\* How the packet of a reply is laid out.  An exception is two bytes as they
\* are, with neither address nor CRC.
Reply(answer, req) ==
  IF answer.out = "exception" THEN ExceptionResponse(answer.exc, req.fc) ELSE Packet(address, answer.pdu)

\* txbuf.  The CRC after a PDU of more than TxLen - 3 bytes is out of range.
TxLen == 259
Panics(answer) == answer.out = "panic" \/ Len(answer.pdu) > TxLen - 3

\* A packet for this server: decode, access the data model, reply.  rxbuf
\* holds the packet at its front.  A Write that fails is a packet lost.
Handle ==
  LET req  == DecodeRequest(sret.pdu)
      answer == PutResponse(req, bank, SubSeq(sret.pdu, req.off + 1, Len(sret.pdu)),
                            S!BufLen - 1 - req.off, TxLen - 1, <<>>)
  IN /\ serving = "rx" /\ spc = "ready"
     /\ sret.err = "nil" /\ sret.addr = address
     /\ IF req.err # "nil"
          THEN serving' = "loop" /\ UNCHANGED <<bank, toClient, served, lost>>
          ELSE /\ bank' = answer.bank
               /\ serving' = IF Panics(answer) THEN "panic" ELSE "loop"
               /\ served' = served \cup {answer.pdu}
               /\ IF answer.out \in {"ok", "exception"} /\ ~Panics(answer)
                    THEN Carry(toClient, Reply(answer, req)) ELSE UNCHANGED <<toClient, lost>>
     /\ UNCHANGED <<toServer, crx, srx, st, call, errcount, lastErr, result, calls>>

--------------------------------------------------------------------------------
Client == ClientTryRx \/ ClientRead \/ Examine
Server == ServerTryRx \/ ServerRead \/ NotForUs \/ Handle

Next == (\E c \in Calls : StartCall(c)) \/ Client \/ GiveUp \/ SetTransport \/ Server

Spec == Init /\ [][Next]_vars

\* The client is in a port.Read that waits for a byte.
Waits == Blocking /\ cpc \in {"head", "body"} /\ toClient = <<>>

\* The fairness of the two ends: transaction's loop goes on until it ends,
\* unless the port keeps it waiting, and HandleNext is called again and again,
\* unless one of them panics.  This is WF_vars(Client) and WF_vars(Server),
\* with ENABLED spelled out, but for the error a port that waits may return:
\* nothing makes it return one.
ClientRuns == []<>(st = "idle" \/ cpc = "panic" \/ errcount >= 5 \/ Waits) \/ []<><<Client>>_vars
ServerRuns == []<>(serving = "panic" \/ spc = "panic") \/ []<><<Server>>_vars

\* Time passes, so the loop meets its deadline in the end, if it comes round
\* to look at it.
FairSpec == Spec /\ ClientRuns /\ ServerRuns /\ SF_vars(GiveUp)
--------------------------------------------------------------------------------
\* The state of the two ends has its type.
TypeOK ==
  /\ bank \in [Cell -> Word]
  /\ toServer \in Seq(Byte) /\ toClient \in Seq(Byte) /\ cbuf \in Seq(Byte) /\ sbuf \in Seq(Byte)
  /\ {cpc, spc} \subseteq {"ready", "head", "body", "panic"}
  /\ st \in {"idle", "loop", "rx"} /\ serving \in {"loop", "rx", "panic"}
  /\ call \in Calls \cup {NoCall} /\ errcount \in 0 .. 5

InBank(c) == [k \in 1 .. Len(c.regs) |-> bank[<<TableOf(c.fc), c.addr + k - 1>>]]

\* With no deadline, and so no answer that comes too late, a call that
\* returns without error told the truth: what a read returned is what the
\* server's registers hold, what a write was given is in them.
ResultIsTrue ==
  st = "idle" /\ result.err = "nil" =>
    InBank(result.call) = IF result.call.fc = FCWriteMultipleRegisters
                            THEN result.call.regs ELSE result.regs

\* Whatever is lost or late, and whatever a timeout leaves in the receive
\* buffers, a read that returns without error returns the registers of an
\* answer of this server, whole: it never pieces an answer together from
\* the bytes of two, nor from those of an exception.
AnswerIsGenuine ==
  result.err = "nil" /\ result.call.fc # FCWriteMultipleRegisters =>
    \E pdu \in served : /\ pdu # <<>> /\ pdu[1] = result.call.fc
                        /\ Registers(SubSeq(pdu, 3, Len(pdu))) = result.regs

\* Neither end panics, on what the other end sends, if its requests reach the
\* server whole or are reads: rx_fragmented is about a write in pieces.
NoPanic == cpc # "panic" /\ spc # "panic" /\ serving # "panic"

\* Every call returns.  README.md:32 has the server answer every request it
\* gets, "nominal or exception", and for a call that is not answered
\* client.go:30 has "RxTimeout defines the maximum time to wait".  On a port
\* that does not wait for ever it does.
CallsReturn == st # "idle" ~> st = "idle"
================================================================================
