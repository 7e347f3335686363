------------------------------ MODULE RtuLinkProofs ------------------------------
(***************************************************************************)
(* Proofs about RtuLink, for every set of calls, every bank and every      *)
(* checksum, whatever the line loses and however it cuts up the answers    *)
(* and the requests of reads: neither end panics, and without a deadline a *)
(* call that returns without an error has told the truth.  A write that    *)
(* reaches the server in other pieces than TryRx asks for makes it panic;  *)
(* so every theorem assumes Digestible, that there is none.                *)
(***************************************************************************)
EXTENDS RtuLinkAnswers

--------------------------------------------------------------------------------
(***************************************************************************)
(* The inductive invariant.  There is one call at a time, and it goes      *)
(* through phases: its request is on the way to the server, or has been    *)
(* received, its answer is on the way or has been received, or there will  *)
(* never be one.  Each end has received a first part of the packet on the  *)
(* way to it, and the line holds the rest.                                 *)
(***************************************************************************)

\* What the registers of a call hold, and the answer that says so.
Held(c) == HeldBy(bank, c)
AnswerTo(c) == AnswerFrom(bank, c)

Idle == st = "idle" /\ cpc = "ready" /\ cbuf = <<>> /\ toClient = <<>> /\ ServerHas(<<>>)

Asking ==
  /\ ServerHas(Packet(call.dev, RequestOf(call))) \/ ServerGot(RequestOf(call), call.dev)
  /\ ClientHas(<<>>)

Answering ==
  /\ ClientHas(Packet(address, AnswerTo(call))) \/ ClientGot(AnswerTo(call))
  /\ ServerHas(<<>>)
  /\ call.dev = address /\ Held(call) \in Seq(Uint16)
  /\ call.fc = FCWriteMultipleRegisters => Held(call) = call.regs

Unanswered == ServerHas(<<>>) /\ \E a \in NoAnswers : ClientHas(a)

Waiting ==
  /\ call \in Calls /\ RequestOf(call) # <<>>
  /\ Asking \/ Unanswered \/ Answering

LinkInv ==
  /\ bank \in [Cell -> Word] /\ errcount = 0
  /\ (Idle /\ ResultIsTrue) \/ Waiting

--------------------------------------------------------------------------------
(***************************************************************************)
(* The server answers.                                                     *)
(***************************************************************************)

\* A packet or an exception arrives at a client that waits.
LEMMA Arrives ==
  ASSUME NEW a \in Seq(Byte), ClientHas(<<>>), toClient' = toClient \o a, UNCHANGED <<crx, st>>
  PROVE  ClientHas(a)'
  <1>1. PICK k \in 0 .. Len(<<>>) : ClientAt(<<>>, k)
    BY DEF ClientHas
  <1>2. k = 0
    OBVIOUS
  <1>3. cbuf = <<>> /\ toClient = <<>>
    BY <1>1, <1>2 DEF ClientAt
  <1>4. /\ SubSeq(a, 1, 0) = <<>> /\ SubSeq(a, 0 + 1, Len(a)) = a /\ <<>> \o a = a
        /\ 0 \in 0 .. Len(a) /\ (Len(a) > 2 => 0 < Len(a))
    BY AllOrNone
  <1>5. cbuf' = SubSeq(a, 1, 0) /\ toClient' = SubSeq(a, 0 + 1, Len(a))
    BY <1>3, <1>4, Zenon DEF crx
  <1>6. /\ cpc' # "ready" => cstart' = 0
        /\ \/ st' = "loop" /\ cpc' = "ready"
           \/ st' = "rx" /\ cpc' = "ready" /\ cret'.err = "missing" /\ cret'.pdu = <<>>
           \/ st' = "rx" /\ cpc' = "head" /\ 0 < 2 /\ cneed' = 2 - 0
    BY <1>1, <1>2 DEF ClientAt, crx
  <1>7. ClientAt(a, 0)'
    BY <1>4, <1>5, <1>6, Zenon DEF ClientAt
  <1> QED
    BY <1>4, <1>7, Zenon DEF ClientHas

\* What may come back of a call that the server handles, w its bank then.
Answers(x, w, c) ==
  \/ x \in NoAnswers
  \/ /\ x = Packet(address, AnswerFrom(w, c)) /\ HeldBy(w, c) \in Seq(Uint16)
     /\ c.fc = FCWriteMultipleRegisters => HeldBy(w, c) = c.regs

\* The handling of a request: the answer, an exception, or nothing is sent.
LEMMA Replying ==
  ASSUME CrcIsUint16, bank \in [Cell -> Word], toClient \in Seq(Byte), NEW c \in Calls, RequestOf(c) # <<>>,
         ServerHolds(RequestOf(c), c.dev), Handle
  PROVE  /\ c.dev = address /\ serving' = "loop"
         /\ UNCHANGED <<toServer, crx, srx, st, call, errcount, result, calls>>
         /\ \E w \in [Cell -> Word] : \E x \in Seq(Byte) :
              bank' = w /\ Answers(x, w, c) /\ toClient' = toClient \o x
  <1> DEFINE r == RequestOf(c)
             req == DecodeRequest(r)
             answer == PutResponse(req, bank, SubSeq(r, req.off + 1, Len(r)),
                                   S!BufLen - 1 - req.off, TxLen - 1, <<>>)
  <1>1. sret.pdu = r /\ sret.addr = c.dev /\ sret.err = "nil"
    BY DEF ServerHolds, S!Result
  <1>2. c.dev = address /\ UNCHANGED <<toServer, crx, srx, st, call, errcount, result, calls>>
    BY <1>1, Zenon DEF Handle
  <1>3. req.err = "nil" /\ req.fc = c.fc /\ Responds(answer, c)
    BY Responding, Zenon
  <1>4. /\ bank' = answer.bank
        /\ serving' = IF Panics(answer) THEN "panic" ELSE "loop"
        /\ answer.out \in {"ok", "exception"} /\ ~Panics(answer) =>
             Carry(toClient, Reply(answer, req))
    BY <1>1, <1>3, Zenon DEF Handle
  <1> HIDE DEF r, req, answer
  <1>5. PICK w \in [Cell -> Word] :
          \/ \E exc \in 2 .. 3 : answer = Answer("exception", w, exc, <<>>)
          \/ /\ HeldBy(w, c) \in Seq(Uint16)
             /\ (c.fc = FCWriteMultipleRegisters => HeldBy(w, c) = c.regs)
             /\ answer = Answer("ok", w, ExceptionNone, AnswerFrom(w, c))
    BY <1>3, Zenon DEF Responds
  <1>6. answer.bank = w /\ answer.out \in {"ok", "exception"}
    <2>1. CASE \E exc \in 2 .. 3 : answer = Answer("exception", w, exc, <<>>)
      <3>1. PICK exc \in 2 .. 3 : answer = Answer("exception", w, exc, <<>>)
        BY <2>1, Zenon
      <3> QED
        BY <3>1 DEF Answer
    <2>2. CASE answer = Answer("ok", w, ExceptionNone, AnswerFrom(w, c))
      BY <2>2 DEF Answer
    <2> QED
      BY <1>5, <2>1, <2>2, Zenon
  <1>7. ~Panics(answer)
    <2>1. CASE \E exc \in 2 .. 3 : answer = Answer("exception", w, exc, <<>>)
      BY <2>1 DEF Answer, Panics, TxLen
    <2>2. CASE HeldBy(w, c) \in Seq(Uint16) /\ answer = Answer("ok", w, ExceptionNone, AnswerFrom(w, c))
      <3> DEFINE n == Len(AnswerFrom(w, c))
      <3>1. n \in Nat /\ n <= 252
        BY <2>2, AnswerShape DEF IsAnswer
      <3>2. answer.pdu = AnswerFrom(w, c) /\ answer.out # "panic"
        BY <2>2 DEF Answer
      <3>3. ~(n > TxLen - 3)
        <4> HIDE DEF n
        <4> QED
          BY <3>1 DEF TxLen
      <3> QED
        BY <3>2, <3>3, Zenon DEF Panics
    <2> QED
      BY <1>5, <2>1, <2>2
  <1>8. bank' = w /\ serving' = "loop" /\ Carry(toClient, Reply(answer, req))
    BY <1>4, <1>6, <1>7, Zenon
  <1>9. CASE UNCHANGED toClient
    <2>1. toClient' = toClient \o <<>> /\ <<>> \in NoAnswers /\ <<>> \in Seq(Byte)
      BY <1>9, AllOrNone DEF NoAnswers
    <2> QED
      BY <1>2, <1>8, <2>1, Zenon DEF Answers
  <1>10. CASE toClient' = toClient \o Reply(answer, req)
    <2> SUFFICES Reply(answer, req) \in Seq(Byte) /\ Answers(Reply(answer, req), w, c)
      BY <1>2, <1>8, <1>10, Zenon
    <2>1. CASE \E exc \in 2 .. 3 : answer = Answer("exception", w, exc, <<>>)
      <3>1. PICK exc \in 2 .. 3 : answer = Answer("exception", w, exc, <<>>)
        BY <2>1
      <3>2. answer.out = "exception" /\ answer.exc = exc
        BY <3>1 DEF Answer
      <3>3. Reply(answer, req) = <<c.fc + 128, exc>>
        BY <1>3, <3>2, Zenon DEF Reply, ExceptionResponse
      <3>4. exc \in 1 .. 3 /\ c.fc \in RegisterFCs
        BY CallFacts
      <3>5. Reply(answer, req) \in NoAnswers
        BY <3>3, <3>4 DEF NoAnswers
      <3> QED
        BY <3>5, NoAnswerBytes, Zenon DEF Answers
    <2>2. CASE /\ HeldBy(w, c) \in Seq(Uint16)
               /\ (c.fc = FCWriteMultipleRegisters => HeldBy(w, c) = c.regs)
               /\ answer = Answer("ok", w, ExceptionNone, AnswerFrom(w, c))
      <3> DEFINE pdu == AnswerFrom(w, c)
      <3>1. answer.out = "ok" /\ answer.pdu = pdu
        BY <2>2 DEF Answer
      <3>2. Reply(answer, req) = Packet(address, pdu)
        BY <3>1, Zenon DEF Reply
      <3>3. pdu \in Seq(Byte)
        BY <2>2, AnswerShape DEF IsAnswer
      <3>4. address \in Byte
        BY LinkAssumption DEF Byte
      <3>5. Packet(address, pdu) \in Seq(Byte)
        <4> HIDE DEF pdu
        <4> QED
          BY <3>3, <3>4, PacketBytes DEF IsPacket
      <3> QED
        BY <2>2, <3>2, <3>5, Zenon DEF Answers
    <2> QED
      BY <1>5, <2>1, <2>2
  <1> QED
    BY <1>8, <1>9, <1>10, Zenon DEF Carry

\* ... to a client that waits for nothing but this.
LEMMA Handling ==
  ASSUME CrcIsUint16, bank \in [Cell -> Word], call \in Calls, RequestOf(call) # <<>>,
         ServerGot(RequestOf(call), call.dev), ClientHas(<<>>), Handle
  PROVE  /\ bank' \in [Cell -> Word] /\ ServerHas(<<>>)' /\ UNCHANGED <<call, errcount, result>>
         /\ \/ \E a \in NoAnswers : ClientHas(a)'
            \/ /\ ClientHas(Packet(address, AnswerTo(call)))' /\ call.dev = address
               /\ (Held(call) \in Seq(Uint16))'
               /\ call.fc = FCWriteMultipleRegisters => (Held(call) = call.regs)'
  <1>1. toClient = <<>> /\ toClient \in Seq(Byte)
    BY DEF ClientHas, ClientAt
  <1>c. PICK c : c = call
    OBVIOUS
  <1>2. c \in Calls /\ RequestOf(c) # <<>> /\ ServerHolds(RequestOf(c), c.dev) /\ toServer = <<>>
    BY <1>c, Zenon DEF ServerGot
  <1>3. /\ c.dev = address /\ serving' = "loop"
        /\ UNCHANGED <<toServer, crx, srx, st, call, errcount, result, calls>>
        /\ \E w \in [Cell -> Word] : \E x \in Seq(Byte) :
             bank' = w /\ Answers(x, w, c) /\ toClient' = toClient \o x
    BY <1>1, <1>2, Replying, Zenon
  <1>4. PICK w \in [Cell -> Word] : \E x \in Seq(Byte) :
          bank' = w /\ Answers(x, w, c) /\ toClient' = toClient \o x
    BY <1>3, Zenon
  <1>5. PICK x \in Seq(Byte) : bank' = w /\ Answers(x, w, c) /\ toClient' = toClient \o x
    BY <1>4, Zenon
  <1>6. ServerHas(<<>>)'
    <2>1. sbuf' = <<>> /\ toServer' = <<>> /\ spc' = "ready"
      BY <1>2, <1>3 DEF ServerHolds, srx
    <2>2. ServerAt(<<>>, 0)'
      BY <1>3, <2>1 DEF ServerAt, ServerStops
    <2> QED
      BY <2>2 DEF ServerHas
  <1>7. ClientHas(x)'
    BY <1>3, <1>5, Arrives, Zenon
  <1>8. CASE x \in NoAnswers
    BY <1>3, <1>4, <1>5, <1>6, <1>7, <1>8, Zenon
  <1>9. CASE /\ x = Packet(address, AnswerFrom(w, c)) /\ HeldBy(w, c) \in Seq(Uint16)
             /\ c.fc = FCWriteMultipleRegisters => HeldBy(w, c) = c.regs
    <2>1. x = Packet(address, AnswerTo(call))'
      BY <1>3, <1>5, <1>9, <1>c, Zenon DEF AnswerTo
    <2>2. (Held(call) \in Seq(Uint16))' /\ (call.fc = FCWriteMultipleRegisters => (Held(call) = call.regs)')
      BY <1>3, <1>5, <1>9, <1>c, Zenon DEF Held
    <2>3. ClientHas(Packet(address, AnswerTo(call)))'
      BY <1>7, <2>1, Zenon DEF ClientHas, ClientAt, Missing, Unknown
    <2> QED
      BY <1>3, <1>4, <1>5, <1>6, <1>c, <2>2, <2>3, Zenon
  <1> QED
    BY <1>5, <1>8, <1>9, Zenon DEF Answers

--------------------------------------------------------------------------------
(***************************************************************************)
(* The client returns.                                                     *)
(***************************************************************************)

\* One end does not notice what the other does.
LEMMA ServerKept ==
  ASSUME NEW p, ServerHas(p), UNCHANGED <<toServer, srx, serving>>
  PROVE  ServerHas(p)'
BY Zenon DEF ServerHas, ServerAt, ServerStops, srx

LEMMA ClientKept ==
  ASSUME NEW a, ClientHas(a), UNCHANGED <<toClient, crx, st>>
  PROVE  ClientHas(a)'
BY DEF ClientHas, ClientAt, crx

\* What a call returns once its answer is there.
LEMMA Concluding ==
  ASSUME NEW pdu, pdu = AnswerTo(call), call \in Calls, RequestOf(call) # <<>>,
         ClientGot(pdu), ServerHas(<<>>), call.dev = address, Held(call) \in Seq(Uint16),
         call.fc = FCWriteMultipleRegisters => Held(call) = call.regs, Examine
  PROVE  Idle' /\ ResultIsTrue' /\ errcount' = 0
  <1> DEFINE n == Len(pdu)
             held == Held(call)
  <1>1. cret.err = "nil" /\ cret.pdu = pdu /\ cret.addr = address
    BY DEF ClientGot, C!Result
  <1>2. IsAnswer(pdu, bank, call)
    BY AnswerShape, Zenon DEF AnswerTo, Held
  <1>3. /\ n \in Nat /\ n >= 4 /\ pdu[1] = call.fc
        /\ call.fc # FCWriteMultipleRegisters =>
             /\ pdu[2] = n - 2 /\ Len(held) = Quantity(call) /\ SubSeq(pdu, 3, n) = Bytes(held)
    BY <1>2, Zenon DEF IsAnswer, Held
  <1>n. n = Len(pdu)
    OBVIOUS
  <1>h. held = Held(call)
    OBVIOUS
  <1>c. call.fc \in RegisterFCs
    BY CallFacts
  <1> HIDE DEF n, held
  <1>4. n > 1 /\ ~(n < 2)
    BY <1>3
  <1>5. Matches
    BY <1>1, <1>3, <1>4, <1>n, Zenon DEF Matches
  <1>6. Conclude(pdu) /\ UNCHANGED <<bank, line, crx, srx, serving>>
    BY <1>1, <1>5, Zenon DEF Examine
  <1>7. Idle' /\ errcount' = 0
    <2>1. st' = "idle" /\ errcount' = 0
      BY <1>6, Zenon DEF Conclude, Return
    <2>2. ServerHas(<<>>)'
      BY <1>6, ServerKept DEF line
    <2>3. cpc' = "ready" /\ cbuf' = <<>> /\ toClient' = <<>>
      BY <1>6 DEF line, crx, ClientGot
    <2> QED
      BY <2>1, <2>2, <2>3 DEF Idle
  <1>8. ResultIsTrue'
    <2>1. Held(call) = InBank(call) \/ Quantity(call) # Len(call.regs)
      BY Zenon DEF Held, HeldBy, RegistersAt, InBank
    <2>2. ASSUME NEW c, NEW err, NEW regs, result' = [call |-> c, err |-> err, regs |-> regs],
                 \/ err # "nil"
                 \/ InBank(c)' = IF c.fc = FCWriteMultipleRegisters THEN c.regs ELSE regs
          PROVE  ResultIsTrue'
      <3>1. result'.call = c /\ result'.err = err /\ result'.regs = regs
        BY <2>2
      <3> QED
        BY <2>2, <3>1 DEF ResultIsTrue, InBank
    <2>c. PICK c : c = call
      BY Zenon
    <2>3. InBank(c)' = InBank(c)
      BY <1>6 DEF InBank
    <2>4. CASE call.fc = FCWriteMultipleRegisters
      <3>1. result' = [call |-> c, err |-> "nil", regs |-> <<>>]
        BY <1>6, <2>4, <2>c, Zenon DEF Conclude, Return
      <3>2. Quantity(call) = Len(call.regs)
        BY <2>4, WriteRequest, Zenon DEF IsWrite
      <3>3. InBank(c) = c.regs
        BY <2>1, <2>4, <2>c, <3>2, Zenon
      <3> QED
        BY <2>2, <2>3, <2>4, <2>c, <3>1, <3>3, Zenon
    <2>5. CASE call.fc # FCWriteMultipleRegisters
      <3> DEFINE data == Bytes(held)
                 q == Quantity(call)
      <3>1. pdu[1] \in ReadFCs
        BY <1>3, <1>c, <2>5, RegisterTable, Zenon
      <3>2. ~(n < 2 + pdu[2])
        BY <1>3, <2>5
      <3>3. ReceiveDataResponse(pdu) = [err |-> "nil", data |-> data]
        BY <1>3, <1>4, <1>n, <2>5, <3>1, <3>2, Zenon DEF ReceiveDataResponse
      <3>4. Len(data) = 2 * Len(held) /\ Registers(data) = held
        BY <1>h, RegistersBack, Zenon
      <3> HIDE DEF data
      <3>5. ReceiveDataResponse(pdu).err = "nil" /\ ReceiveDataResponse(pdu).data = data
        BY <3>3
      <3>6. IF Len(data) # 2 * Len(call.regs) THEN Return("count", <<>>) ELSE Return("nil", held)
        BY <1>6, <2>5, <3>4, <3>5, Zenon DEF Conclude
      <3>7. CASE Len(data) # 2 * Len(call.regs)
        <4>1. result' = [call |-> c, err |-> "count", regs |-> <<>>]
          BY <2>c, <3>6, <3>7, Zenon DEF Return
        <4> QED
          BY <2>2, <4>1
      <3>8. CASE Len(data) = 2 * Len(call.regs)
        <4>r. PICK regs : regs = held
          BY Zenon
        <4>1. result' = [call |-> c, err |-> "nil", regs |-> regs]
          BY <2>c, <3>6, <3>8, <4>r, Zenon DEF Return
        <4>2. Quantity(call) = Len(call.regs)
          <5> DEFINE l == Len(call.regs)
          <5>1. l \in Nat /\ q \in Nat /\ 2 * q = 2 * l
            <6>1. Len(held) = q
              BY <1>3, <2>5, Zenon
            <6>2. l \in Nat /\ q \in Nat
              BY <2>5, CallFacts, ReadRequest, Zenon DEF IsRead
            <6> QED
              BY <3>4, <3>8, <6>1, <6>2, Zenon
          <5> HIDE DEF l, q
          <5>2. q = l
            BY <5>1
          <5> QED
            BY <5>2 DEF l, q
        <4>3. InBank(c) = regs
          BY <1>h, <2>1, <2>c, <4>2, <4>r, Zenon
        <4> QED
          BY <2>2, <2>3, <2>5, <2>c, <4>1, <4>3, Zenon
      <3> QED
        BY <3>7, <3>8
    <2> QED
      BY <2>4, <2>5
  <1> QED
    BY <1>7, <1>8

--------------------------------------------------------------------------------
(***************************************************************************)
(* The steps of the two ends.                                              *)
(***************************************************************************)
others == <<bank, call, result>>

LEMMA ClientStep ==
  ASSUME Patient, NEW a, ClientFramed(a), NEW pdu, Len(a) > 2 => IsPacket(a, address, pdu),
         ClientHas(a), Client
  PROVE  /\ ClientHas(a)' \/ (Len(a) > 2 /\ ClientGot(pdu)')
         /\ UNCHANGED <<others, toServer, srx, serving>> /\ errcount' \in {errcount, errcount + 0}
  <1>1. CASE ClientTryRx
    <2>1. ClientHas(a)'
      BY <1>1, ClientTry
    <2> QED
      BY <1>1, <2>1, Zenon DEF ClientTryRx, others
  <1>2. CASE ClientRead
    <2>1. ClientHas(a)' \/ (Len(a) > 2 /\ ClientGot(pdu)')
      BY <1>2, ClientReads
    <2> QED
      BY <1>2, <2>1, Zenon DEF ClientRead, others
  <1>3. CASE Examine
    <2>1. ClientHas(a)' /\ errcount' = errcount + 0 /\ UNCHANGED <<call, result>>
      BY <1>3, ClientGoesOn
    <2> QED
      BY <1>3, <2>1, Zenon DEF Examine, others, line
  <1> QED
    BY <1>1, <1>2, <1>3 DEF Client

\* A server that nothing is sent to.
LEMMA QuietServer ==
  ASSUME ServerHas(<<>>), Server
  PROVE  ServerHas(<<>>)' /\ UNCHANGED <<others, toClient, crx, st, errcount>>
  <1>1. CASE ServerTryRx
    <2>1. PICK k \in Nat : ServerAt(<<>>, k)
      BY DEF ServerHas
    <2>2. ServerAt(<<>>, k)'
      BY <1>1, <2>1, ServerTry DEF ServerAt
    <2> QED
      BY <1>1, <2>2, Zenon DEF ServerTryRx, others, ServerHas
  <1>2. CASE ServerRead
    <2>1. ServerHas(<<>>)'
      BY <1>2, NothingToRead
    <2> QED
      BY <1>2, <2>1, Zenon DEF ServerRead, others
  <1>3. CASE NotForUs
    <2>1. ServerHas(<<>>)'
      BY <1>3, Dropped
    <2> QED
      BY <1>3, <2>1, Zenon DEF NotForUs, others, line
  <1>4. ~Handle
    BY NothingToHandle
  <1> QED
    BY <1>1, <1>2, <1>3, <1>4 DEF Server

\* A server that a request is sent to, until it handles it.
LEMMA BusyServer ==
  ASSUME NEW dev, NEW pdu, NEW p, IsPacket(p, dev, pdu), ServerFramed(p), Edible(p),
         ServerHas(p) \/ ServerGot(pdu, dev), Server, ~(ServerGot(pdu, dev) /\ Handle)
  PROVE  /\ ServerHas(p)' \/ ServerGot(pdu, dev)' \/ ServerHas(<<>>)'
         /\ UNCHANGED <<others, toClient, crx, st, errcount>>
  <1>1. CASE ServerGot(pdu, dev)
    <2>1. NotForUs
      <3>1. spc = "ready" /\ serving = "rx"
        BY <1>1 DEF ServerGot, ServerHolds
      <3>2. ~ServerTryRx /\ ~ServerRead
        BY <3>1 DEF ServerTryRx, ServerRead, S!ReadReturns, S!ReadHead, S!ReadBody
      <3> QED
        BY <1>1, <3>2 DEF Server
    <2>2. ServerHas(<<>>)'
      BY <1>1, <2>1, DroppedRequest
    <2> QED
      BY <2>1, <2>2, Zenon DEF NotForUs, others, line
  <1>2. CASE ServerHas(p)
    <2>1. PICK k \in Nat : ServerAt(p, k)
      BY <1>2 DEF ServerHas
    <2>2. CASE ServerTryRx
      <3>1. ServerAt(p, k)'
        BY <2>1, <2>2, ServerTry DEF ServerAt
      <3> QED
        BY <2>2, <3>1, Zenon DEF ServerTryRx, others, ServerHas
    <2>3. CASE ServerRead
      <3>1. p \in Seq(Byte) /\ k \in Nat /\ k <= Len(p) /\ <<>> \in Seq(Byte)
        BY <2>1 DEF ServerFramed, ServerAt, ServerStops
      <3>2. ServerStops(p, k) /\ toServer = Rest(p, k, <<>>)
        BY <2>1, <3>1, RestAlone, Zenon DEF ServerAt
      <3>3. \/ ServerHolds(pdu, dev)' /\ toServer' = <<>>
            \/ \E i \in Nat : ServerStops(p, i)' /\ toServer' = Rest(p, i, <<>>)
        BY <2>3, <3>1, <3>2, ServerReads, Zenon
      <3>4. ASSUME \E i \in Nat : ServerStops(p, i)' /\ toServer' = Rest(p, i, <<>>)
            PROVE  ServerHas(p)'
        <4>1. PICK i \in Nat : ServerStops(p, i)' /\ toServer' = Rest(p, i, <<>>)
          BY <3>4, Zenon
        <4>2. i \in Nat /\ i <= Len(p)
          BY <4>1 DEF ServerFramed, ServerStops
        <4>3. ServerAt(p, i)'
          BY <3>1, <4>1, <4>2, RestAlone, Zenon DEF ServerAt
        <4> QED
          BY <4>3, Zenon DEF ServerHas
      <3>5. ServerHas(p)' \/ ServerGot(pdu, dev)'
        BY <3>3, <3>4, Zenon DEF ServerGot
      <3> QED
        BY <2>3, <3>5, Zenon DEF ServerRead, others
    <2>4. CASE NotForUs
      <3>1. ServerHas(p)'
        BY <1>2, <2>4, Dropped
      <3> QED
        BY <2>4, <3>1, Zenon DEF NotForUs, others, line
    <2>5. ~Handle
      BY <1>2, NothingToHandle
    <2> QED
      BY <2>2, <2>3, <2>4, <2>5 DEF Server
  <1> QED
    BY <1>1, <1>2

--------------------------------------------------------------------------------
(***************************************************************************)
(* The invariant, phase by phase.                                          *)
(***************************************************************************)
BankInv == bank \in [Cell -> Word] /\ errcount = 0

LEMMA InitLinkInv == Init => LinkInv
  <1> SUFFICES ASSUME Init PROVE LinkInv
    OBVIOUS
  <1>1. /\ bank = [c \in Cell |-> 0] /\ errcount = 0 /\ st = "idle" /\ result = NoResult /\ serving = "loop"
        /\ toServer = <<>> /\ toClient = <<>> /\ cbuf = <<>> /\ sbuf = <<>> /\ cpc = "ready" /\ spc = "ready"
    BY DEF Init, C!RxInit, S!RxInit
  <1>2. bank \in [Cell -> Word]
    <2>1. 0 \in Word
      BY WordAssumption
    <2> QED
      BY <1>1, <2>1, Zenon
  <1>3. ServerAt(<<>>, 0)
    BY <1>1 DEF ServerAt, ServerStops
  <1>4. Idle
    BY <1>1, <1>3 DEF Idle, ServerHas
  <1>5. ResultIsTrue
    BY <1>1 DEF ResultIsTrue, NoResult
  <1> QED
    BY <1>1, <1>2, <1>4, <1>5, Zenon DEF LinkInv

\* Nothing but a call leaves the idle phase.
LEMMA IdleStep ==
  ASSUME BankInv, Idle, ResultIsTrue, Next, \A c \in Calls : ~StartCall(c)
  PROVE  LinkInv'
  <1>1. ~Client /\ ~GiveUp
    BY DEF Idle, Client, ClientTryRx, ClientRead, Examine, GiveUp, C!ReadReturns, C!ReadHead, C!ReadBody
  <1>2. CASE SetTransport
    <2>1. UNCHANGED <<bank, errcount, st, cbuf, cpc, result, toServer, srx, serving>> /\ toClient' = <<>>
      BY <1>2, Zenon DEF SetTransport
    <2>2. ServerHas(<<>>)'
      BY <2>1, ServerKept DEF Idle
    <2>3. Idle' /\ ResultIsTrue'
      BY <2>1, <2>2 DEF Idle, ResultIsTrue, InBank
    <2> QED
      BY <2>1, <2>3 DEF LinkInv, BankInv
  <1>3. CASE Server
    <2>1. ServerHas(<<>>)' /\ UNCHANGED <<others, toClient, crx, st, errcount>>
      BY <1>3, QuietServer DEF Idle
    <2>2. Idle' /\ ResultIsTrue'
      BY <2>1 DEF Idle, ResultIsTrue, InBank, others, crx
    <2> QED
      BY <2>1, <2>2 DEF LinkInv, BankInv, others
  <1> QED
    BY <1>1, <1>2, <1>3 DEF Next

\* A call starts, or is refused, or fails.
LEMMA StartStep ==
  ASSUME CrcIsUint16, BankInv, Idle, NEW c \in Calls, StartCall(c)
  PROVE  LinkInv'
  <1> DEFINE p == Packet(c.dev, RequestOf(c))
  <1>1. /\ BankInv' /\ UNCHANGED <<bank, toClient, crx, srx, serving>>
    BY DEF StartCall, BankInv
  <1>2. CASE /\ UNCHANGED <<toServer, st>>
             /\ \E err \in {"oob", "io"} : result' = [call |-> c, err |-> err, regs |-> <<>>]
    <2>1. ServerHas(<<>>)'
      BY <1>1, <1>2, ServerKept DEF Idle
    <2>2. Idle'
      BY <1>1, <1>2, <2>1 DEF Idle, crx
    <2>3. ResultIsTrue'
      <3>1. PICK err \in {"oob", "io"} : result' = [call |-> c, err |-> err, regs |-> <<>>]
        BY <1>2, Zenon
      <3>2. result'.err = err /\ err # "nil"
        BY <3>1
      <3> QED
        BY <3>2, Zenon DEF ResultIsTrue
    <2> QED
      BY <1>1, <2>2, <2>3, Zenon DEF LinkInv, BankInv
  <1>3. CASE RequestOf(c) # <<>> /\ Carry(toServer, p) /\ st' = "loop" /\ call' = c
    <2>1. ClientHas(<<>>)'
      <3>1. cbuf' = <<>> /\ toClient' = <<>> /\ cpc' = "ready"
        BY <1>1 DEF Idle, crx
      <3>2. ClientAt(<<>>, 0)'
        BY <1>3, <3>1 DEF ClientAt
      <3> QED
        BY <3>2 DEF ClientHas
    <2>2. CASE UNCHANGED toServer
      <3>1. ServerHas(<<>>)'
        BY <1>1, <2>2, ServerKept DEF Idle
      <3>2. <<>> \in NoAnswers
        BY DEF NoAnswers
      <3>3. Unanswered'
        BY <2>1, <3>1, <3>2 DEF Unanswered
      <3> QED
        BY <1>1, <1>3, <3>3, Zenon DEF LinkInv, BankInv, Waiting
    <2>3. CASE toServer' = toServer \o p
      <3>1. p \in Seq(Byte)
        BY <1>3, ServerFraming DEF ServerFramed
      <3> HIDE DEF p
      <3>2. PICK k \in Nat : ServerAt(<<>>, k)
        BY DEF Idle, ServerHas
      <3>3. k = 0 /\ sbuf = <<>> /\ toServer = <<>>
        BY <3>2 DEF ServerAt, ServerStops
      <3>4. SubSeq(p, 1, 0) = <<>> /\ SubSeq(p, 0 + 1, Len(p)) = p /\ <<>> \o p = p
        BY <3>1, AllOrNone
      <3>5. sbuf' = SubSeq(p, 1, 0) /\ toServer' = SubSeq(p, 0 + 1, Len(p))
        BY <1>1, <2>3, <3>3, <3>4, Zenon DEF srx
      <3>6. ServerAt(p, 0)'
        BY <1>1, <3>2, <3>3, <3>5 DEF ServerAt, ServerStops, srx
      <3>7. ServerHas(p)'
        BY <3>6 DEF ServerHas
      <3>8. ServerHas(Packet(call.dev, RequestOf(call)))'
        BY <1>3, <3>7, Zenon DEF p, ServerHas, ServerAt, ServerStops
      <3>9. Asking'
        BY <2>1, <3>8 DEF Asking
      <3> QED
        BY <1>1, <1>3, <3>9, Zenon DEF LinkInv, BankInv, Waiting
    <2> QED
      BY <1>3, <2>2, <2>3, Zenon DEF Carry
  <1> QED
    BY <1>2, <1>3, Zenon DEF StartCall

\* While a call waits no other starts, the port stays, and it does not give up.
LEMMA NotIdle ==
  ASSUME Patient, BankInv, Waiting, Next
  PROVE  Client \/ Server
  <1>1. st # "idle"
    BY DEF Waiting, Asking, Unanswered, Answering, ClientHas, ClientAt, ClientGot
  <1>2. ~GiveUp
    BY DEF GiveUp, Patient, BankInv
  <1>3. ~SetTransport /\ \A c \in Calls : ~StartCall(c)
    BY <1>1 DEF SetTransport, StartCall
  <1> QED
    BY <1>2, <1>3 DEF Next

LEMMA Counted0 ==
  ASSUME errcount = 0, errcount' \in {errcount, errcount + 0}
  PROVE  errcount' = 0
  OBVIOUS

LEMMA AskingStep ==
  ASSUME CrcIsUint16, Patient, Digestible, BankInv, call \in Calls, RequestOf(call) # <<>>, Asking,
         Client \/ Server
  PROVE  LinkInv'
  <1>c. PICK c \in Calls : c = call
    OBVIOUS
  <1> DEFINE r == RequestOf(c)
             p == Packet(c.dev, r)
  <1>1. c.dev \in Byte /\ r \in Seq(Byte) /\ ServerFramed(p) /\ r # <<>>
    BY <1>c, ServerFraming
  <1>2. IsPacket(p, c.dev, r)
    BY <1>1, PacketBytes, Zenon
  <1>e. Edible(p)
    BY <1>1, RequestEdible, Zenon
  <1> HIDE DEF p, r
  <1>3. (ServerHas(p) \/ ServerGot(r, c.dev)) /\ ClientHas(<<>>)
    BY <1>c, Zenon DEF Asking, p, r
  <1>4. <<>> \in NoAnswers /\ ClientFramed(<<>>) /\ ~(Len(<<>>) > 2)
    BY NoAnswerFramed DEF NoAnswers
  <1>5. ASSUME UNCHANGED call PROVE call' \in Calls /\ (RequestOf(call) # <<>>)' /\ call' = c
    BY <1>5, <1>c
  <1>6. ASSUME BankInv', UNCHANGED call, ServerHas(p)' \/ ServerGot(r, c.dev)', ClientHas(<<>>)'
        PROVE  LinkInv'
    <2>1. Asking'
      BY <1>6, <1>c DEF Asking, ServerHas, ServerAt, ServerStops, ServerGot, ServerHolds, p, r
    <2> QED
      BY <1>5, <1>6, <2>1, Zenon DEF LinkInv, BankInv, Waiting
  <1>7. ASSUME BankInv', UNCHANGED call, ServerHas(<<>>)', NEW a \in NoAnswers, ClientHas(a)'
        PROVE  LinkInv'
    <2>1. Unanswered'
      BY <1>7, Zenon DEF Unanswered
    <2> QED
      BY <1>5, <1>7, <2>1, Zenon DEF LinkInv, BankInv, Waiting
  <1>8. CASE Client
    <2>1. /\ ClientHas(<<>>)' /\ UNCHANGED <<others, toServer, srx, serving>>
          /\ errcount' \in {errcount, errcount + 0}
      BY <1>3, <1>4, <1>8, ClientStep
    <2>2. BankInv' /\ UNCHANGED call
      BY <2>1, Counted0 DEF BankInv, others
    <2>3. ServerHas(p)' \/ ServerGot(r, c.dev)'
      <3>1. CASE ServerHas(p)
        BY <2>1, <3>1, ServerKept
      <3>2. CASE ServerGot(r, c.dev)
        BY <2>1, <3>2 DEF ServerGot, ServerHolds, srx
      <3> QED
        BY <1>3, <3>1, <3>2
    <2> QED
      BY <1>6, <2>1, <2>2, <2>3
  <1>9. CASE Server /\ ~(ServerGot(r, c.dev) /\ Handle)
    <2>1. /\ ServerHas(p)' \/ ServerGot(r, c.dev)' \/ ServerHas(<<>>)'
          /\ UNCHANGED <<others, toClient, crx, st, errcount>>
      BY <1>1, <1>2, <1>3, <1>9, <1>e, BusyServer
    <2>2. BankInv' /\ UNCHANGED call
      BY <2>1 DEF BankInv, others
    <2>3. ClientHas(<<>>)'
      BY <1>3, <2>1, ClientKept
    <2> QED
      BY <1>4, <1>6, <1>7, <2>1, <2>2, <2>3
  <1>10. CASE ServerGot(r, c.dev) /\ Handle
    <2>1. ServerGot(RequestOf(call), call.dev)
      BY <1>10, <1>c, Zenon DEF r
    <2>2. /\ bank' \in [Cell -> Word] /\ ServerHas(<<>>)' /\ UNCHANGED <<call, errcount, result>>
          /\ \/ \E a \in NoAnswers : ClientHas(a)'
             \/ /\ ClientHas(Packet(address, AnswerTo(call)))' /\ call.dev = address
                /\ (Held(call) \in Seq(Uint16))'
                /\ call.fc = FCWriteMultipleRegisters => (Held(call) = call.regs)'
      BY <1>3, <1>10, <2>1, Handling, Zenon DEF BankInv
    <2>3. BankInv'
      BY <2>2 DEF BankInv
    <2>4. CASE \E a \in NoAnswers : ClientHas(a)'
      BY <1>7, <2>2, <2>3, <2>4
    <2>5. CASE /\ ClientHas(Packet(address, AnswerTo(call)))' /\ call.dev = address
               /\ (Held(call) \in Seq(Uint16))'
               /\ call.fc = FCWriteMultipleRegisters => (Held(call) = call.regs)'
      <3>1. Answering'
        BY <2>2, <2>5, Zenon DEF Answering
      <3> QED
        BY <1>5, <2>2, <2>3, <3>1, Zenon DEF LinkInv, BankInv, Waiting
    <2> QED
      BY <2>2, <2>4, <2>5
  <1> QED
    BY <1>8, <1>9, <1>10

LEMMA UnansweredStep ==
  ASSUME Patient, BankInv, call \in Calls, RequestOf(call) # <<>>, Unanswered, Client \/ Server
  PROVE  LinkInv'
  <1>1. PICK a \in NoAnswers : ClientHas(a)
    BY DEF Unanswered
  <1>2. ClientFramed(a) /\ ~(Len(a) > 2)
    BY NoAnswerFramed, NoAnswerBytes
  <1>3. ClientHas(a)' /\ ServerHas(<<>>)' /\ BankInv' /\ UNCHANGED call
    <2>1. CASE Client
      <3>1. /\ ClientHas(a)' /\ UNCHANGED <<others, toServer, srx, serving>>
            /\ errcount' \in {errcount, errcount + 0}
        BY <1>1, <1>2, <2>1, ClientStep
      <3>2. ServerHas(<<>>)'
        BY <3>1, ServerKept DEF Unanswered
      <3> QED
        BY <3>1, <3>2, Counted0 DEF BankInv, others
    <2>2. CASE Server
      <3>1. ServerHas(<<>>)' /\ UNCHANGED <<others, toClient, crx, st, errcount>>
        BY <2>2, QuietServer DEF Unanswered
      <3>2. ClientHas(a)'
        BY <1>1, <3>1, ClientKept
      <3> QED
        BY <3>1, <3>2 DEF BankInv, others
    <2> QED
      BY <2>1, <2>2
  <1>4. Unanswered'
    BY <1>3, Zenon DEF Unanswered
  <1> QED
    BY <1>3, <1>4 DEF LinkInv, BankInv, Waiting

LEMMA AnsweringStep ==
  ASSUME CrcIsUint16, Patient, BankInv, call \in Calls, RequestOf(call) # <<>>, Answering, Client \/ Server
  PROVE  LinkInv'
  <1>c. PICK pdu : pdu = AnswerTo(call)
    OBVIOUS
  <1> DEFINE p == Packet(address, pdu)
  <1>1. IsAnswer(pdu, bank, call)
    BY <1>c, AnswerShape, Zenon DEF Answering, AnswerTo, Held
  <1>2. IsPacket(p, address, pdu)
    <2>1. address \in Byte
      BY LinkAssumption DEF Byte
    <2>2. pdu \in Seq(Byte)
      BY <1>1, Zenon DEF IsAnswer
    <2> QED
      BY <2>1, <2>2, PacketBytes, Zenon
  <1>3. ClientHas(p) \/ ClientGot(pdu)
    BY <1>c, Zenon DEF Answering
  <1> HIDE DEF p
  <1>4. ClientFramed(p) /\ Len(p) > 2
    <2>1. call.fc \in RegisterFCs
      BY CallFacts
    <2> QED
      BY <1>1, <1>2, <2>1, AnswerFramed
  <1>5. ASSUME BankInv', UNCHANGED others, ClientHas(p)' \/ ClientGot(pdu)', ServerHas(<<>>)'
        PROVE  LinkInv'
    <2>1. UNCHANGED <<bank, call>>
      BY <1>5 DEF others
    <2>2. pdu = AnswerTo(call)' /\ Held(call)' = Held(call)
      BY <1>c, <2>1 DEF AnswerTo, Held
    <2>3. ClientHas(Packet(address, AnswerTo(call)))' \/ ClientGot(AnswerTo(call))'
      <3>1. CASE ClientHas(p)'
        BY <2>2, <3>1, Zenon DEF p, ClientHas, ClientAt, Missing, Unknown
      <3>2. CASE ClientGot(pdu)'
        BY <2>2, <3>2, Zenon DEF ClientGot
      <3> QED
        BY <1>5, <3>1, <3>2
    <2>4. /\ call'.dev = address /\ Held(call)' \in Seq(Uint16)
          /\ call'.fc = FCWriteMultipleRegisters => Held(call)' = call'.regs
      BY <2>1, <2>2, Zenon DEF Answering
    <2>5. Answering'
      BY <1>5, <2>3, <2>4, Zenon DEF Answering
    <2>6. call' \in Calls /\ (RequestOf(call) # <<>>)'
      BY <2>1
    <2> QED
      BY <1>5, <2>5, <2>6, Zenon DEF LinkInv, BankInv, Waiting
  <1>6. CASE Client /\ ClientHas(p)
    <2>1. /\ ClientHas(p)' \/ ClientGot(pdu)'
          /\ UNCHANGED <<others, toServer, srx, serving>> /\ errcount' \in {errcount, errcount + 0}
      BY <1>2, <1>4, <1>6, ClientStep
    <2>2. ServerHas(<<>>)'
      BY <2>1, ServerKept DEF Answering
    <2>3. BankInv' /\ UNCHANGED others
      BY <2>1, Counted0 DEF BankInv, others
    <2> QED
      BY <1>5, <2>1, <2>2, <2>3
  <1>7. CASE Client /\ ClientGot(pdu)
    <2>1. Examine
      BY <1>7 DEF Client, ClientGot, ClientTryRx, ClientRead, C!ReadReturns, C!ReadHead, C!ReadBody
    <2>2. Idle' /\ ResultIsTrue' /\ errcount' = 0
      BY <1>7, <1>c, <2>1, Concluding DEF Answering
    <2>3. UNCHANGED bank
      BY <2>1 DEF Examine
    <2> QED
      BY <2>2, <2>3 DEF LinkInv, BankInv
  <1>8. CASE Server
    <2>1. ServerHas(<<>>)' /\ UNCHANGED <<others, toClient, crx, st, errcount>>
      BY <1>8, QuietServer DEF Answering
    <2>2. ClientHas(p)' \/ ClientGot(pdu)'
      <3>1. CASE ClientHas(p)
        BY <2>1, <3>1, ClientKept
      <3>2. CASE ClientGot(pdu)
        BY <2>1, <3>2 DEF ClientGot, crx
      <3> QED
        BY <1>3, <3>1, <3>2
    <2>3. BankInv' /\ UNCHANGED others
      BY <2>1 DEF BankInv, others
    <2> QED
      BY <1>5, <2>1, <2>2, <2>3
  <1> QED
    BY <1>3, <1>6, <1>7, <1>8

LEMMA LinkStutters ==
  ASSUME LinkInv, UNCHANGED vars
  PROVE  LinkInv'
  <1>1. UNCHANGED <<bank, toServer, toClient, cbuf, cstart, cpc, cneed, cret>>
        /\ UNCHANGED <<sbuf, sstart, spc, sneed, sret, st, call, errcount, result, serving>>
    BY DEF vars, line, crx, srx
  <1>2. Idle' = Idle /\ ResultIsTrue' = ResultIsTrue
    BY <1>1 DEF Idle, ResultIsTrue, InBank, ServerHas, ServerAt, ServerStops
  <1>3. Asking' = Asking
    BY <1>1 DEF Asking, ServerHas, ServerAt, ServerStops, ServerGot, ServerHolds, ClientHas, ClientAt
  <1>4. Unanswered' = Unanswered
    BY <1>1 DEF Unanswered, ServerHas, ServerAt, ServerStops, ClientHas, ClientAt
  <1>5. Answering' = Answering
    BY <1>1 DEF Answering, ServerHas, ServerAt, ServerStops, ClientHas, ClientAt, ClientGot, AnswerTo, Held
  <1> QED
    BY <1>1, <1>2, <1>3, <1>4, <1>5 DEF LinkInv, Waiting

LEMMA NextLinkInv ==
  ASSUME CrcIsUint16, Patient, Digestible, LinkInv, [Next]_vars
  PROVE  LinkInv'
  <1>0. BankInv
    BY DEF LinkInv, BankInv
  <1>1. CASE UNCHANGED vars
    BY <1>1, LinkStutters
  <1>2. CASE Next /\ Idle /\ ResultIsTrue
    BY <1>0, <1>2, StartStep, IdleStep
  <1>3. CASE Next /\ Waiting
    <2>1. Client \/ Server
      BY <1>0, <1>3, NotIdle
    <2>2. call \in Calls /\ RequestOf(call) # <<>>
      BY <1>3 DEF Waiting
    <2> QED
      BY <1>0, <1>3, <2>1, <2>2, AskingStep, UnansweredStep, AnsweringStep DEF Waiting
  <1> QED
    BY <1>1, <1>2, <1>3 DEF LinkInv

--------------------------------------------------------------------------------
(***************************************************************************)
(* Whatever is lost or late: a call may give up while its request is on    *)
(* the way, so the server may have any number of requests before it, and   *)
(* an answer may find the client in another call.  The invariant forgets   *)
(* which answer belongs to which call, and keeps that the server's line    *)
(* holds whole requests and the client's buffer no whole packet.           *)
(***************************************************************************)
Sendable == {c \in Calls : RequestOf(c) # <<>>}
PacketOf(c) == Packet(c.dev, RequestOf(c))

\* Requests in a row: the least set that has the empty sequence, and every
\* packet of a request before each of its members.
Closed(Q) == <<>> \in Q /\ \A c \in Sendable, l \in Q : PacketOf(c) \o l \in Q
Queued(l) == \A Q \in SUBSET Seq(Byte) : Closed(Q) => l \in Q

\* The server has received the request of c, or a part of it, and l is behind.
ServerBusy(l, c) ==
  \/ ServerHolds(RequestOf(c), c.dev) /\ toServer = l
  \/ \E k \in Nat : ServerStops(PacketOf(c), k) /\ toServer = Rest(PacketOf(c), k, l)

ServerSafe ==
  \/ ServerHas(<<>>)
  \/ \E c \in Sendable : \E l \in Seq(Byte) : Queued(l) /\ ServerBusy(l, c)

LEMMA SendableFacts ==
  ASSUME CrcIsUint16, NEW c \in Sendable
  PROVE  /\ c \in Calls /\ RequestOf(c) # <<>> /\ PacketOf(c) \in Seq(Byte) /\ PacketOf(c) # <<>>
         /\ ServerFramed(PacketOf(c)) /\ IsPacket(PacketOf(c), c.dev, RequestOf(c))
  <1>1. c \in Calls /\ RequestOf(c) # <<>>
    BY DEF Sendable
  <1>2. ServerFramed(PacketOf(c)) /\ RequestOf(c) \in Seq(Byte) /\ c.dev \in Byte
    BY <1>1, ServerFraming, Zenon DEF PacketOf
  <1>3. PacketOf(c) \in Seq(Byte) /\ PacketOf(c) # <<>>
    BY <1>2 DEF ServerFramed
  <1>4. IsPacket(PacketOf(c), c.dev, RequestOf(c))
    BY <1>2, PacketBytes, Zenon DEF PacketOf
  <1> QED
    BY <1>1, <1>2, <1>3, <1>4

\* A request before a queue is a queue, and so is none.
LEMMA QueueFront ==
  /\ Queued(<<>>)
  /\ \A c \in Sendable : \A l : Queued(l) => Queued(PacketOf(c) \o l)
  BY Zenon DEF Queued, Closed

\* So is a request behind one.
LEMMA QueueBack ==
  ASSUME CrcIsUint16, NEW c \in Sendable, NEW l \in Seq(Byte), Queued(l)
  PROVE  l \o PacketOf(c) \in Seq(Byte) /\ Queued(l \o PacketOf(c))
  <1> DEFINE p == PacketOf(c)
  <1>1. p \in Seq(Byte)
    BY SendableFacts
  <1>2. ASSUME NEW Q \in SUBSET Seq(Byte), Closed(Q)
        PROVE  l \o p \in Q
    <2> DEFINE R == {m \in Seq(Byte) : m \o p \in Q}
    <2>1. <<>> \in R
      <3>1. p \o <<>> \in Q
        BY <1>2, Zenon DEF Closed
      <3>2. p \o <<>> = p /\ <<>> \o p = p /\ <<>> \in Seq(Byte)
        BY <1>1, AllOrNone
      <3> QED
        BY <3>1, <3>2, Zenon
    <2>2. ASSUME NEW d \in Sendable, NEW m \in R PROVE PacketOf(d) \o m \in R
      <3>1. PacketOf(d) \in Seq(Byte) /\ m \in Seq(Byte) /\ m \o p \in Q
        BY SendableFacts
      <3>2. PacketOf(d) \o (m \o p) \in Q
        BY <1>2, <3>1, Zenon DEF Closed
      <3>3. (PacketOf(d) \o m) \o p = PacketOf(d) \o (m \o p)
        BY <1>1, <3>1, Associative, ZenonT(40)
      <3>4. PacketOf(d) \o m \in Seq(Byte)
        BY <3>1, Concat, Zenon
      <3> QED
        BY <3>2, <3>3, <3>4, Zenon
    <2>3. R \in SUBSET Seq(Byte) /\ Closed(R)
      BY <2>1, <2>2, Zenon DEF Closed
    <2>4. l \in R
      BY <2>3, Zenon DEF Queued
    <2> QED
      BY <2>4, Zenon
  <1>3. l \o p \in Seq(Byte)
    BY <1>1, Concat, Zenon
  <1> QED
    BY <1>2, <1>3, Zenon DEF Queued

\* A queue that is not empty has a first request.
LEMMA QueueFirst ==
  ASSUME CrcIsUint16, NEW l, Queued(l), l # <<>>
  PROVE  \E c \in Sendable : \E m \in Seq(Byte) : Queued(m) /\ l = PacketOf(c) \o m
  <1> DEFINE First(x) == \E c \in Sendable : \E m \in Seq(Byte) : Queued(m) /\ x = PacketOf(c) \o m
             Q == {x \in Seq(Byte) : x = <<>> \/ First(x)}
  <1>1. <<>> \in Q
    <2>1. <<>> \in Seq(Byte)
      OBVIOUS
    <2> QED
      BY <2>1, Zenon
  <1>2. ASSUME NEW c \in Sendable, NEW x \in Q PROVE PacketOf(c) \o x \in Q
    <2>1. x \in Seq(Byte) /\ PacketOf(c) \in Seq(Byte)
      BY SendableFacts
    <2>2. Queued(x)
      BY QueueFront, Zenon
    <2>3. PacketOf(c) \o x \in Seq(Byte)
      BY <2>1, Concat, Zenon
    <2> QED
      BY <2>1, <2>2, <2>3, Zenon
  <1>3. Q \in SUBSET Seq(Byte) /\ Closed(Q)
    BY <1>1, <1>2, Zenon DEF Closed
  <1>4. l \in Q
    BY <1>3, Zenon DEF Queued
  <1> QED
    BY <1>4, Zenon

--------------------------------------------------------------------------------
\* A server that is done with a request finds the next one, or none.
LEMMA NextRequest ==
  ASSUME CrcIsUint16, NEW l \in Seq(Byte), Queued(l),
         sbuf' = <<>> /\ spc' = "ready" /\ serving' = "loop" /\ toServer' = l
  PROVE  ServerSafe'
  <1>1. CASE l = <<>>
    <2>1. ServerAt(<<>>, 0)'
      BY <1>1 DEF ServerAt, ServerStops
    <2> QED
      BY <2>1 DEF ServerSafe, ServerHas
  <1>2. CASE l # <<>>
    <2>1. PICK c \in Sendable : \E m \in Seq(Byte) : Queued(m) /\ l = PacketOf(c) \o m
      BY <1>2, QueueFirst, Zenon
    <2>2. PICK m \in Seq(Byte) : Queued(m) /\ l = PacketOf(c) \o m
      BY <2>1, Zenon
    <2> DEFINE p == PacketOf(c)
    <2>3. p \in Seq(Byte)
      BY SendableFacts
    <2>4. SubSeq(p, 1, 0) = <<>> /\ Rest(p, 0, m) = l
      BY <2>2, <2>3, AllOrNone, Zenon DEF Rest
    <2> HIDE DEF p
    <2>5. ServerStops(p, 0)' /\ toServer' = Rest(p, 0, m)
      BY <2>4 DEF ServerStops
    <2>6. ServerBusy(m, c)'
      BY <2>5 DEF ServerBusy, p
    <2> QED
      BY <2>2, <2>6, Zenon DEF ServerSafe
  <1> QED
    BY <1>1, <1>2

\* A request comes in behind the others.
LEMMA OneMoreRequest ==
  ASSUME CrcIsUint16, ServerSafe, NEW d \in Sendable, UNCHANGED <<srx, serving>>,
         toServer' = toServer \o PacketOf(d)
  PROVE  ServerSafe'
  <1>1. PacketOf(d) \in Seq(Byte)
    BY SendableFacts
  <1>2. CASE ServerHas(<<>>)
    <2>1. PICK k \in Nat : ServerAt(<<>>, k)
      BY <1>2 DEF ServerHas
    <2>2. k = 0 /\ sbuf = <<>> /\ toServer = <<>>
      BY <2>1 DEF ServerAt, ServerStops
    <2> DEFINE p == PacketOf(d)
    <2>3. SubSeq(p, 1, 0) = <<>> /\ Rest(p, 0, <<>>) = p /\ <<>> \o p = p
      BY <1>1, AllOrNone, Zenon DEF Rest
    <2>4. toServer' = Rest(p, 0, <<>>)
      BY <2>2, <2>3, Zenon
    <2> HIDE DEF p
    <2>5. ServerStops(p, 0)'
      BY <2>1, <2>2, <2>3 DEF ServerAt, ServerStops, srx
    <2>6. ServerBusy(<<>>, d)'
      BY <2>4, <2>5 DEF ServerBusy, p
    <2>7. <<>> \in Seq(Byte) /\ Queued(<<>>)
      BY QueueFront
    <2> QED
      BY <2>6, <2>7, Zenon DEF ServerSafe
  <1>3. ASSUME NEW c \in Sendable, NEW l \in Seq(Byte), Queued(l), ServerBusy(l, c)
        PROVE  ServerSafe'
    <2>m. PICK m : m = l \o PacketOf(d)
      OBVIOUS
    <2>1. m \in Seq(Byte) /\ Queued(m)
      BY <1>3, <2>m, QueueBack, Zenon
    <2>2. CASE ServerHolds(RequestOf(c), c.dev) /\ toServer = l
      <3>1. ServerHolds(RequestOf(c), c.dev)' /\ toServer' = m
        BY <2>2, <2>m DEF ServerHolds, srx
      <3>2. ServerBusy(m, c)'
        BY <3>1, Zenon DEF ServerBusy
      <3> QED
        BY <2>1, <3>2, Zenon DEF ServerSafe
    <2>3. CASE \E k \in Nat : ServerStops(PacketOf(c), k) /\ toServer = Rest(PacketOf(c), k, l)
      <3>1. PICK k \in Nat : ServerStops(PacketOf(c), k) /\ toServer = Rest(PacketOf(c), k, l)
        BY <2>3, Zenon
      <3>p. PICK p : p = PacketOf(c)
        OBVIOUS
      <3>2. p \in Seq(Byte) /\ Len(p) \in Nat /\ k \in Nat /\ k <= Len(p)
        <4>1. p \in Seq(Byte) /\ Len(p) \in Nat /\ k \in Nat
          BY <3>p, SendableFacts
        <4>2. k # 0 => k < Len(p)
          BY <3>1, <3>p, Zenon DEF ServerStops
        <4> QED
          BY <4>1, <4>2
      <3>3. ServerStops(p, k)'
        BY <3>1, <3>p DEF ServerStops, srx
      <3>4. SubSeq(p, k + 1, Len(p)) \in Seq(Byte)
        BY <3>2, Part
      <3>5. toServer' = Rest(p, k, m)
        BY <1>1, <2>m, <3>1, <3>4, <3>p, Associative, Zenon DEF Rest
      <3>6. ServerBusy(m, c)'
        BY <3>3, <3>5, <3>p, Zenon DEF ServerBusy
      <3> QED
        BY <2>1, <3>6, Zenon DEF ServerSafe
    <2> QED
      BY <1>3, <2>2, <2>3, Zenon DEF ServerBusy
  <1> QED
    BY <1>2, <1>3, Zenon DEF ServerSafe

\* What is on the line and in the buffer are bytes, and nothing has panicked.
LEMMA ServerTyped ==
  ASSUME CrcIsUint16, ServerSafe
  PROVE  /\ sbuf \in Seq(Byte) /\ toServer \in Seq(Byte)
         /\ spc \in {"ready", "head", "body"} /\ serving \in {"loop", "rx"}
  <1>1. CASE ServerHas(<<>>)
    BY <1>1 DEF ServerHas, ServerAt, ServerStops
  <1>2. ASSUME NEW c \in Sendable, NEW l \in Seq(Byte), ServerBusy(l, c)
        PROVE  /\ sbuf \in Seq(Byte) /\ toServer \in Seq(Byte)
               /\ spc \in {"ready", "head", "body"} /\ serving \in {"loop", "rx"}
    <2>1. CASE ServerHolds(RequestOf(c), c.dev) /\ toServer = l
      BY <2>1 DEF ServerHolds
    <2>2. ASSUME NEW k \in Nat, ServerStops(PacketOf(c), k), toServer = Rest(PacketOf(c), k, l)
          PROVE  /\ sbuf \in Seq(Byte) /\ toServer \in Seq(Byte)
                 /\ spc \in {"ready", "head", "body"} /\ serving \in {"loop", "rx"}
      <3>p. PICK p : p = PacketOf(c)
        OBVIOUS
      <3>1. p \in Seq(Byte) /\ Len(p) \in Nat /\ k \in Nat
        BY <3>p, SendableFacts
      <3>2. (k # 0 => k < Len(p)) /\ sbuf = SubSeq(p, 1, k)
        BY <2>2, <3>p, Zenon DEF ServerStops
      <3>3. k <= Len(p) /\ k + 0 <= Len(p)
        BY <3>1, <3>2
      <3>4. toServer \in Seq(Byte)
        BY <2>2, <3>1, <3>3, <3>p, FrontPieces
      <3>5. sbuf \in Seq(Byte)
        BY <3>1, <3>2, <3>3
      <3>6. spc \in {"ready", "head", "body"} /\ serving \in {"loop", "rx"}
        BY <2>2 DEF ServerStops
      <3> QED
        BY <3>4, <3>5, <3>6
    <2> QED
      BY <1>2, <2>1, <2>2, Zenon DEF ServerBusy
  <1> QED
    BY <1>1, <1>2, Zenon DEF ServerSafe

\* The steps of the server.
LEMMA ServerStep ==
  ASSUME CrcIsUint16, Digestible, bank \in [Cell -> Word], toClient \in Seq(Byte), ServerSafe, Server
  PROVE  /\ ServerSafe' /\ bank' \in [Cell -> Word] /\ toClient' \in Seq(Byte)
         /\ UNCHANGED <<crx, st, call, errcount>>
  <1>1. CASE ServerHas(<<>>)
    <2>1. ServerHas(<<>>)' /\ UNCHANGED <<others, toClient, crx, st, errcount>>
      BY <1>1, QuietServer
    <2> QED
      BY <2>1 DEF ServerSafe, others
  <1>2. ASSUME NEW c \in Sendable, NEW l \in Seq(Byte), Queued(l), ServerBusy(l, c)
        PROVE  /\ ServerSafe' /\ bank' \in [Cell -> Word] /\ toClient' \in Seq(Byte)
               /\ UNCHANGED <<crx, st, call, errcount>>
    <2>p. PICK p : p = PacketOf(c)
      OBVIOUS
    <2>r. PICK r : r = RequestOf(c)
      OBVIOUS
    <2>f. c \in Calls /\ r # <<>> /\ ServerFramed(p) /\ IsPacket(p, c.dev, r) /\ p \in Seq(Byte)
      BY <2>p, <2>r, SendableFacts, Zenon
    <2>e. Edible(p)
      BY <2>f, <2>p, <2>r, RequestEdible, Zenon DEF PacketOf
    <2>1. CASE ServerHolds(r, c.dev) /\ toServer = l
      <3>1. spc = "ready" /\ serving = "rx" /\ sbuf = <<>>
        BY <2>1 DEF ServerHolds
      <3>2. ~ServerTryRx /\ ~ServerRead
        BY <3>1 DEF ServerTryRx, ServerRead, S!ReadReturns, S!ReadHead, S!ReadBody
      <3>3. CASE NotForUs
        <4>1. /\ sbuf' = <<>> /\ spc' = "ready" /\ serving' = "loop" /\ toServer' = l
              /\ UNCHANGED <<bank, toClient, crx, st, call, errcount>>
          BY <2>1, <3>1, <3>3 DEF NotForUs, line, srx
        <4>2. ServerSafe'
          BY <1>2, <4>1, NextRequest
        <4> QED
          BY <4>1, <4>2
      <3>4. CASE Handle
        <4>1. /\ serving' = "loop" /\ UNCHANGED <<toServer, crx, srx, st, call, errcount, result, calls>>
              /\ \E w \in [Cell -> Word] : \E x \in Seq(Byte) :
                   bank' = w /\ Answers(x, w, c) /\ toClient' = toClient \o x
          BY <2>1, <2>f, <2>r, <3>4, Replying, Zenon
        <4>2. bank' \in [Cell -> Word]
          BY <4>1, Zenon
        <4>3. toClient' \in Seq(Byte)
          BY <4>1, Concat, Zenon
        <4>4. sbuf' = <<>> /\ spc' = "ready" /\ serving' = "loop" /\ toServer' = l
          BY <2>1, <3>1, <4>1 DEF srx
        <4>5. ServerSafe'
          BY <1>2, <4>4, NextRequest
        <4> QED
          BY <4>1, <4>2, <4>3, <4>5
      <3> QED
        BY <3>2, <3>3, <3>4 DEF Server
    <2>2. ASSUME NEW k \in Nat, ServerStops(p, k), toServer = Rest(p, k, l)
          PROVE  /\ ServerSafe' /\ bank' \in [Cell -> Word] /\ toClient' \in Seq(Byte)
                 /\ UNCHANGED <<crx, st, call, errcount>>
      <3>1. ~Handle
        BY <2>2 DEF ServerStops, Handle
      <3>2. UNCHANGED <<bank, toClient, crx, st, call, errcount>>
        BY <3>1 DEF Server, ServerTryRx, ServerRead, NotForUs, line
      <3>3. CASE ServerTryRx
        <4>1. ServerStops(p, k)' /\ toServer' = toServer
          BY <2>2, <2>f, <3>3, ServerTry
        <4>2. ServerBusy(l, c)'
          BY <2>2, <2>p, <4>1, Zenon DEF ServerBusy
        <4> QED
          BY <1>2, <3>2, <4>2, Zenon DEF ServerSafe
      <3>4. CASE ServerRead
        <4>1. \/ ServerHolds(r, c.dev)' /\ toServer' = l
              \/ \E i \in Nat : ServerStops(p, i)' /\ toServer' = Rest(p, i, l)
          BY <2>2, <2>e, <2>f, <3>4, ServerReads, Zenon
        <4>2. ServerBusy(l, c)'
          BY <2>p, <2>r, <4>1, Zenon DEF ServerBusy
        <4> QED
          BY <1>2, <3>2, <4>2, Zenon DEF ServerSafe
      <3>5. CASE NotForUs
        <4>1. ServerStops(p, k)' /\ toServer' = toServer
          BY <2>2, <3>5 DEF ServerStops, NotForUs, line, srx
        <4>2. ServerBusy(l, c)'
          BY <2>2, <2>p, <4>1, Zenon DEF ServerBusy
        <4> QED
          BY <1>2, <3>2, <4>2, Zenon DEF ServerSafe
      <3> QED
        BY <3>1, <3>3, <3>4, <3>5 DEF Server
    <2> QED
      BY <1>2, <2>1, <2>2, <2>p, <2>r, Zenon DEF ServerBusy
  <1> QED
    BY <1>1, <1>2, Zenon DEF ServerSafe

--------------------------------------------------------------------------------
\* Where the client is: in port.Read for the first two bytes, or for the rest
\* of a packet, or not in it.
ClientSafe ==
  /\ cbuf \in Seq(Byte) /\ Incomplete(cbuf) /\ (cbuf # <<>> => cstart = 0)
  /\ \/ cpc = "ready"
     \/ cpc = "head" /\ cstart = 0 /\ Len(cbuf) < 2 /\ cneed = 2 - Len(cbuf)
     \/ /\ cpc = "body" /\ cstart = 0 /\ Len(cbuf) >= 2 /\ cneed = C!Missing(cbuf)
        /\ C!Infer(cbuf).err \in {"nil", "missing"}

\* The call of port.Read for bytes that fit into the buffer.
LEMMA Asks ==
  ASSUME NEW b \in Seq(Byte), NEW upTo \in Int, upTo >= 1, Len(b) + upTo <= 261, NEW where,
         C!CallRead(where, upTo, 0, b)
  PROVE  cpc' = where /\ cneed' = upTo
  <1> DEFINE n == Len(b)
  <1>1. n \in Nat /\ n + upTo <= 261
    OBVIOUS
  <1>2. IF upTo > 512 - (0 + n) THEN C!Return("overflow", <<>>, 0)
        ELSE cpc' = (IF upTo <= 0 THEN "panic" ELSE where) /\ cneed' = upTo /\ UNCHANGED cret
    BY DEF C!CallRead, C!BufLen
  <1> HIDE DEF n
  <1>3. ~(upTo > 512 - (0 + n)) /\ ~(upTo <= 0)
    BY <1>1
  <1> QED
    BY <1>2, <1>3

\* Two bytes or more, at the front of the buffer.
LEMMA InfersAndAsks ==
  ASSUME NEW b \in Seq(Byte), Len(b) >= 2, Incomplete(b), C!InferThenRead(0, b),
         cbuf' = b, cstart' = 0
  PROVE  ClientSafe'
  <1>1. IsInferred(C!Infer(b), Len(b)) /\ C!Missing(b) \in Int /\ Len(b) \in Nat /\ ~(Len(b) < 2)
    BY Inference
  <1>2. CASE C!Infer(b).err = "badfc"
    <2>1. cpc' = "ready"
      BY <1>2 DEF C!InferThenRead, C!Return
    <2>2. Incomplete(cbuf')
      BY Zenon
    <2> QED
      BY <2>1, <2>2 DEF ClientSafe, Incomplete, C!Infer, C!Missing
  <1>3. CASE C!Infer(b).err # "badfc"
    <2>1. /\ C!Infer(b).err \in {"nil", "missing"} /\ C!Missing(b) >= 1 /\ Len(b) + C!Missing(b) <= 261
      BY <1>1, <1>3 DEF Incomplete
    <2>2. C!CallRead("body", C!Missing(b), 0, b)
      BY <1>3 DEF C!InferThenRead
    <2>3. cpc' = "body" /\ cneed' = C!Missing(b)
      BY <1>1, <2>1, <2>2, Asks
    <2> QED
      BY <2>1, <2>3, Zenon DEF ClientSafe, Incomplete, C!Infer, C!Missing
  <1> QED
    BY <1>2, <1>3

\* TryRx is called.
LEMMA ClientCalls ==
  ASSUME ClientSafe, C!TryRx
  PROVE  ClientSafe' /\ toClient' = toClient
  <1>1. <<>> \in Seq(Byte) /\ Incomplete(<<>>)
    BY DEF Incomplete
  <1>2. PICK b : b = cbuf'
    OBVIOUS
  <1>3. b \in Seq(Byte) /\ Incomplete(b) /\ cstart' = 0
    <2>1. CASE C!MustReset
      BY <1>1, <1>2, <2>1 DEF C!TryRx, C!AfterReset, ClientSafe
    <2>2. CASE ~C!MustReset
      <3>1. cbuf # <<>>
        BY <2>2 DEF C!MustReset, ClientSafe
      <3> QED
        BY <1>2, <2>2, <3>1 DEF C!TryRx, ClientSafe
    <2> QED
      BY <2>1, <2>2
  <1>4. /\ toClient' = toClient
        /\ IF Len(b) < 2 THEN C!CallRead("head", 2 - Len(b), 0, b) ELSE C!InferThenRead(0, b)
    BY <1>2, <1>3, Zenon DEF C!TryRx
  <1>5. CASE Len(b) < 2
    <2>1. 2 - Len(b) \in Int /\ 2 - Len(b) >= 1 /\ Len(b) + (2 - Len(b)) <= 261
      BY <1>3, <1>5
    <2>2. cpc' = "head" /\ cneed' = 2 - Len(b)
      BY <1>3, <1>4, <1>5, <2>1, Asks
    <2> QED
      BY <1>2, <1>3, <1>4, <1>5, <2>2, Zenon DEF ClientSafe, Incomplete, C!Infer, C!Missing
  <1>6. CASE ~(Len(b) < 2)
    <2>1. Len(b) >= 2
      BY <1>3, <1>6
    <2> QED
      BY <1>2, <1>3, <1>4, <1>6, <2>1, InfersAndAsks, Zenon
  <1> QED
    BY <1>5, <1>6

\* The port returns.
LEMMA ClientGets ==
  ASSUME ClientSafe, toClient \in Seq(Byte), NEW k, NEW failed, C!ReadReturns(k, failed)
  PROVE  ClientSafe' /\ toClient' \in Seq(Byte)
  <1>b. PICK b : b = cbuf
    OBVIOUS
  <1>t. PICK t : t = toClient
    OBVIOUS
  <1>1. /\ k \in 0 .. cneed /\ k <= Len(t) /\ (failed => k = 0)
        /\ C!ReadHead(k, failed) \/ C!ReadBody(k, failed)
    BY <1>t DEF C!ReadReturns, C!PortRead
  <1>2. b \in Seq(Byte) /\ Incomplete(b) /\ t \in Seq(Byte)
    BY <1>b, <1>t, Zenon DEF ClientSafe
  <1> DEFINE x == SubSeq(t, 1, k)
             all == b \o x
             rest == SubSeq(t, k + 1, Len(t))
  <1>3. CASE C!ReadHead(k, failed)
    <2>1. cpc = "head" /\ cstart = 0 /\ Len(b) < 2 /\ cneed = 2 - Len(b)
      BY <1>3, <1>b DEF ClientSafe, C!ReadHead
    <2>2. k \in Nat /\ k <= 2 - Len(b) /\ Len(b) \in Nat
      BY <1>1, <1>2, <2>1
    <2>3. x \in Seq(Byte) /\ Len(x) = k /\ rest \in Seq(Byte)
      BY <1>1, <1>2, <2>2
    <2>4. /\ cbuf' = all /\ toClient' = rest /\ cstart' = 0
          /\ IF Len(all) < 2 THEN C!Return(IF failed THEN "io" ELSE "missing", <<>>, 0)
             ELSE C!InferThenRead(0, all)
      BY <1>3, <1>b, <1>t, <2>1, Zenon DEF C!ReadHead
    <2> HIDE DEF x, rest
    <2>5. all \in Seq(Byte) /\ Len(all) = Len(b) + k /\ Len(all) \in Nat
      <3>1. all \in Seq(Byte) /\ Len(all) = Len(b) + Len(x)
        BY <1>2, <2>3, Concat, Zenon
      <3> HIDE DEF all
      <3> QED
        BY <2>3, <3>1
    <2>6. Len(all) <= 2
      BY <2>2, <2>5
    <2> HIDE DEF all
    <2>7. Incomplete(all)
      BY <2>5, <2>6, TwoIncomplete
    <2>8. CASE Len(all) < 2
      <3>1. cpc' = "ready"
        BY <2>4, <2>8 DEF C!Return
      <3> QED
        BY <2>3, <2>4, <2>5, <2>7, <3>1, Zenon DEF ClientSafe, Incomplete, C!Infer, C!Missing
    <2>9. CASE ~(Len(all) < 2)
      <3>1. Len(all) >= 2
        BY <2>5, <2>9
      <3>2. ClientSafe'
        BY <2>4, <2>5, <2>7, <2>9, <3>1, InfersAndAsks, Zenon
      <3> QED
        BY <2>3, <2>4, <3>2
    <2> QED
      BY <2>8, <2>9
  <1>4. CASE C!ReadBody(k, failed)
    <2> DEFINE n == C!Infer(b).n + 3
    <2>1. /\ cstart = 0 /\ Len(b) >= 2 /\ cneed = C!Missing(b)
          /\ C!Infer(b).err \in {"nil", "missing"}
      BY <1>4, <1>b DEF ClientSafe, C!ReadBody
    <2>2. /\ IsInferred(C!Infer(b), Len(b)) /\ C!Missing(b) \in Int /\ C!Missing(b) = n - Len(b)
          /\ Len(b) \in Nat /\ n \in Nat
      <3>1. /\ IsInferred(C!Infer(b), Len(b)) /\ C!Missing(b) \in Int
            /\ C!Missing(b) = C!Infer(b).n + 3 - Len(b)
        BY <1>2, <2>1, Inference
      <3>2. Len(b) \in Nat
        BY <1>2
      <3>3. C!Infer(b).n \in Nat
        BY <3>1 DEF IsInferred
      <3> QED
        BY <3>1, <3>2, <3>3
    <2>3. k \in Nat /\ k <= C!Missing(b) /\ C!Missing(b) >= 1
      <3>1. C!Missing(b) >= 1
        BY <2>1, <2>2, <1>2 DEF Incomplete
      <3> QED
        BY <1>1, <2>1, <2>2, <3>1
    <2>4. x \in Seq(Byte) /\ Len(x) = k /\ rest \in Seq(Byte)
      BY <1>1, <1>2, <2>3
    <2>5. /\ toClient' = rest /\ cpc' = "ready"
          /\ IF ~failed /\ C!Infer(b).err = "nil" /\ k >= cneed
               THEN cbuf' = SubSeq(all, n + 1, Len(all)) ELSE cbuf' = all /\ cstart' = cstart
      BY <1>4, <1>b, <1>t DEF C!ReadBody, C!Deliver, C!Return, C!Consume
    <2> HIDE DEF x, rest
    <2>6. all \in Seq(Byte) /\ Len(all) = Len(b) + k /\ Len(all) \in Nat
      <3>1. all \in Seq(Byte) /\ Len(all) = Len(b) + Len(x)
        BY <1>2, <2>4, Concat, Zenon
      <3> HIDE DEF all
      <3> QED
        BY <2>4, <3>1
    <2>7. CASE ~failed /\ C!Infer(b).err = "nil" /\ k >= cneed
      <3> HIDE DEF all, n
      <3>1. Len(all) = n
        BY <2>1, <2>2, <2>3, <2>6, <2>7
      <3>2. SubSeq(all, n + 1, Len(all)) = <<>>
        BY <2>2, <2>6, <3>1, AllOrNone, Zenon
      <3>3. cbuf' = <<>>
        BY <2>5, <2>7, <3>2, Zenon
      <3> QED
        BY <2>4, <2>5, <3>3 DEF ClientSafe, Incomplete
    <2>8. CASE ~(~failed /\ C!Infer(b).err = "nil" /\ k >= cneed)
      <3>1. cbuf' = all /\ cstart' = 0
        BY <2>1, <2>5, <2>8, Zenon
      <3>2. C!Infer(b).err = "nil" => k < C!Missing(b)
        <4>1. CASE failed
          BY <1>1, <2>2, <2>3, <4>1
        <4>2. CASE ~failed
          BY <2>1, <2>2, <2>3, <2>8, <4>2
        <4> QED
          BY <4>1, <4>2
      <3>3. Incomplete(all)
        BY <1>2, <2>1, <2>3, <2>4, <3>2, StaysIncomplete
      <3> HIDE DEF all
      <3> QED
        BY <2>4, <2>5, <2>6, <3>1, <3>3, Zenon DEF ClientSafe, Incomplete, C!Infer, C!Missing
    <2> QED
      BY <2>7, <2>8
  <1> QED
    BY <1>1, <1>3, <1>4

--------------------------------------------------------------------------------
\* The invariant of the two ends.
SafeInv ==
  /\ bank \in [Cell -> Word] /\ toClient \in Seq(Byte)
  /\ ServerSafe /\ ClientSafe
  /\ st \in {"idle", "loop", "rx"} /\ call \in Calls \cup {NoCall}
  /\ errcount \in 0 .. 5 /\ (st = "rx" => errcount < 5)

LEMMA InitSafe == Init => SafeInv
  <1> SUFFICES ASSUME Init PROVE SafeInv
    OBVIOUS
  <1>1. /\ toServer = <<>> /\ sbuf = <<>> /\ spc = "ready" /\ serving = "loop"
        /\ toClient = <<>> /\ cbuf = <<>> /\ cpc = "ready"
    BY DEF Init, S!RxInit, C!RxInit
  <1>2. ServerSafe
    <2>1. ServerAt(<<>>, 0)
      BY <1>1 DEF ServerAt, ServerStops
    <2> QED
      BY <2>1 DEF ServerSafe, ServerHas
  <1>3. ClientSafe
    BY <1>1 DEF ClientSafe, Incomplete
  <1>4. bank \in [Cell -> Word]
    BY WordAssumption DEF Init
  <1> QED
    BY <1>1, <1>2, <1>3, <1>4 DEF SafeInv, Init

LEMMA ServerUntouched ==
  ASSUME ServerSafe, UNCHANGED <<toServer, srx, serving>>
  PROVE  ServerSafe'
  <1>1. UNCHANGED <<toServer, sbuf, sstart, spc, sneed, sret, serving>>
    BY DEF srx
  <1>2. ServerHas(<<>>) => ServerHas(<<>>)'
    BY ServerKept
  <1>3. ASSUME NEW c, NEW l, ServerBusy(l, c) PROVE ServerBusy(l, c)'
    <2>1. ServerHolds(RequestOf(c), c.dev) => ServerHolds(RequestOf(c), c.dev)'
      BY <1>1, Zenon DEF ServerHolds
    <2>2. \A k : ServerStops(PacketOf(c), k) => ServerStops(PacketOf(c), k)'
      BY <1>1, Zenon DEF ServerStops
    <2> QED
      BY <1>1, <1>3, <2>1, <2>2, Zenon DEF ServerBusy
  <1> QED
    BY <1>2, <1>3, Zenon DEF ServerSafe

LEMMA ClientUntouched ==
  ASSUME ClientSafe, UNCHANGED <<cbuf, cstart, cpc, cneed>>
  PROVE  ClientSafe'
BY DEF ClientSafe, Incomplete, C!Infer, C!Missing

LEMMA NextSafe ==
  ASSUME CrcIsUint16, Digestible, SafeInv, [Next]_vars
  PROVE  SafeInv'
  <1>0. /\ bank \in [Cell -> Word] /\ toClient \in Seq(Byte) /\ ServerSafe /\ ClientSafe
        /\ st \in {"idle", "loop", "rx"} /\ call \in Calls \cup {NoCall}
        /\ errcount \in 0 .. 5 /\ (st = "rx" => errcount < 5)
    BY DEF SafeInv
  <1>1. ASSUME NEW c \in Calls, StartCall(c) PROVE SafeInv'
    <2>1. /\ UNCHANGED <<bank, toClient, crx, srx, errcount, serving>>
          /\ \/ UNCHANGED <<toServer, st, call>>
             \/ /\ RequestOf(c) # <<>> /\ st' = "loop" /\ call' = c
                /\ toServer' = toServer \/ toServer' = toServer \o PacketOf(c)
      BY <1>1 DEF StartCall, Carry, PacketOf
    <2>2. ClientSafe'
      BY <1>0, <2>1, ClientUntouched DEF crx
    <2>3. ServerSafe'
      <3>1. CASE toServer' = toServer
        BY <1>0, <2>1, <3>1, ServerUntouched
      <3>2. CASE RequestOf(c) # <<>> /\ toServer' = toServer \o PacketOf(c)
        BY <1>0, <2>1, <3>2, OneMoreRequest DEF Sendable
      <3> QED
        BY <2>1, <3>1, <3>2
    <2> QED
      BY <1>0, <2>1, <2>2, <2>3 DEF SafeInv
  <1>2. CASE ClientTryRx
    <2>1. ClientSafe' /\ toClient' = toClient
      BY <1>0, <1>2, ClientCalls DEF ClientTryRx
    <2>2. /\ errcount < 5 /\ st' = "rx"
          /\ UNCHANGED <<bank, toServer, srx, call, errcount, serving>>
      BY <1>2 DEF ClientTryRx
    <2>3. ServerSafe'
      BY <1>0, <2>2, ServerUntouched
    <2> QED
      BY <1>0, <2>1, <2>2, <2>3 DEF SafeInv
  <1>3. CASE ClientRead
    <2>1. PICK k \in 0 .. cneed, failed \in {FALSE, PortFails} : C!ReadReturns(k, failed)
      BY <1>3, Zenon DEF ClientRead
    <2>2. ClientSafe' /\ toClient' \in Seq(Byte)
      BY <1>0, <2>1, ClientGets
    <2>3. UNCHANGED <<bank, toServer, srx, st, call, errcount, serving>>
      BY <1>3 DEF ClientRead
    <2>4. ServerSafe'
      BY <1>0, <2>3, ServerUntouched
    <2> QED
      BY <1>0, <2>2, <2>3, <2>4 DEF SafeInv
  <1>4. CASE Examine \/ GiveUp
    <2>1. UNCHANGED <<bank, line, crx, srx, serving>>
      BY <1>4 DEF Examine, GiveUp
    <2>2. ServerSafe' /\ ClientSafe' /\ toClient' = toClient
      BY <1>0, <2>1, ServerUntouched, ClientUntouched DEF line, crx
    <2>3. ASSUME NEW err, NEW regs, Return(err, regs)
          PROVE  st' = "idle" /\ call' = NoCall /\ errcount' = 0
      BY <2>3 DEF Return
    <2>4. \/ st' = "idle" /\ call' = NoCall /\ errcount' = 0
          \/ /\ st = "rx" /\ st' = "loop" /\ call' = call
             /\ errcount' = errcount + (IF cret.err = "missing" THEN 0 ELSE 1)
      <3>1. CASE GiveUp
        BY <2>3, <3>1, Zenon DEF GiveUp
      <3>2. CASE Examine
        BY <2>3, <3>2, Zenon DEF Examine, Conclude
      <3> QED
        BY <1>4, <3>1, <3>2
    <2>5. st' \in {"idle", "loop"} /\ call' \in Calls \cup {NoCall} /\ errcount' \in 0 .. 5
      BY <1>0, <2>4
    <2> QED
      BY <1>0, <2>1, <2>2, <2>5 DEF SafeInv
  <1>5. CASE SetTransport
    <2>1. /\ toClient' = <<>>
          /\ UNCHANGED <<bank, toServer, cbuf, cstart, cpc, cneed, srx, st, call, errcount, serving>>
      BY <1>5 DEF SetTransport
    <2>2. ServerSafe' /\ ClientSafe'
      BY <1>0, <2>1, ServerUntouched, ClientUntouched
    <2> QED
      BY <1>0, <2>1, <2>2 DEF SafeInv
  <1>6. CASE Server
    <2>1. /\ ServerSafe' /\ bank' \in [Cell -> Word] /\ toClient' \in Seq(Byte)
          /\ UNCHANGED <<crx, st, call, errcount>>
      BY <1>0, <1>6, ServerStep
    <2>2. ClientSafe'
      BY <1>0, <2>1, ClientUntouched DEF crx
    <2> QED
      BY <1>0, <2>1, <2>2 DEF SafeInv
  <1>7. CASE UNCHANGED vars
    <2>1. /\ UNCHANGED <<bank, toServer, toClient, cbuf, cstart, cpc, cneed>>
          /\ UNCHANGED <<srx, st, call, errcount, serving>>
      BY <1>7 DEF vars, line, crx
    <2>2. ServerSafe' /\ ClientSafe'
      BY <1>0, <2>1, ServerUntouched, ClientUntouched
    <2> QED
      BY <1>0, <2>1, <2>2 DEF SafeInv
  <1> QED
    BY <1>1, <1>2, <1>3, <1>4, <1>5, <1>6, <1>7 DEF Next, Client

LEMMA SafeImplies ==
  ASSUME CrcIsUint16, SafeInv
  PROVE  TypeOK /\ NoPanic
  <1>1. /\ sbuf \in Seq(Byte) /\ toServer \in Seq(Byte)
        /\ spc \in {"ready", "head", "body"} /\ serving \in {"loop", "rx"}
    BY ServerTyped DEF SafeInv
  <1>2. cbuf \in Seq(Byte) /\ cpc \in {"ready", "head", "body"}
    BY DEF SafeInv, ClientSafe
  <1> QED
    BY <1>1, <1>2 DEF SafeInv, TypeOK, NoPanic

--------------------------------------------------------------------------------
(***************************************************************************)
(* The theorems.                                                           *)
(***************************************************************************)

\* A call that returns without an error has told the truth: what
\* readRegisters copies into regs is what the server's registers hold, and
\* what WriteHoldingRegisters was given is in them.  Assumed: the client has
\* no deadline and its port does not fail, and no write arrives in pieces.
THEOREM CallsTellTruth ==
  ASSUME CrcIsUint16, Patient, Digestible
  PROVE  Spec => []ResultIsTrue
  <1>1. Init => LinkInv
    BY InitLinkInv
  <1>2. LinkInv /\ [Next]_vars => LinkInv'
    BY NextLinkInv
  <1>3. LinkInv => ResultIsTrue
    <2>1. Waiting => st # "idle"
      BY DEF Waiting, Asking, Unanswered, Answering, ClientHas, ClientAt, ClientGot
    <2> QED
      BY <2>1 DEF LinkInv, ResultIsTrue
  <1> QED
    BY <1>1, <1>2, <1>3, PTL DEF Spec

\* Both ends keep their type, whatever is lost or late and whichever calls
\* give up: the lines carry bytes, the registers hold uint16s, and
\* transaction counts at most five errors.  Assumed: no write arrives in
\* pieces.
THEOREM LinkTypeCorrect ==
  ASSUME CrcIsUint16, Digestible
  PROVE  Spec => []TypeOK
  <1>1. SafeInv /\ [Next]_vars => SafeInv'
    BY NextSafe
  <1>2. SafeInv => TypeOK
    BY SafeImplies
  <1> QED
    BY InitSafe, <1>1, <1>2, PTL DEF Spec

\* Neither TryRx nor HandleNext nor PutResponse panics on what the other end
\* sends, whatever is lost or late and however reads and answers are cut up,
\* if port.Read returns what it is asked for of every write: then there is no
\* slice out of range and no read of zero bytes.  Nothing in the code ensures
\* that of a serial port, and without it TryRx asks for zero bytes and panics
\* (rx_fragmented).
THEOREM LinkNeverPanics ==
  ASSUME CrcIsUint16, Digestible
  PROVE  Spec => []NoPanic
  <1>1. SafeInv /\ [Next]_vars => SafeInv'
    BY NextSafe
  <1>2. SafeInv => NoPanic
    BY SafeImplies
  <1> QED
    BY InitSafe, <1>1, <1>2, PTL DEF Spec
================================================================================
