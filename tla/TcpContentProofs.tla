---------------------------- MODULE TcpContentProofs ----------------------------
(***************************************************************************)
(* What the TCP server answers, for any number of goroutines in Accept, of *)
(* connections and of requests: state and messages keep their types,       *)
(* HandleNext panics on no request that it is up to, and an answer tells   *)
(* the client the truth about the data model.                              *)
(*                                                                         *)
(* PduProofs has what PutResponse makes of a request.  OrderInv has that   *)
(* the body which HandleNext reads is the next request that was sent.      *)
(***************************************************************************)
EXTENDS TcpServerProofs, PduProofs

\* The PDUs that the clients may send, and those that they have sent, are in S.
FramesIn(S) == \A c \in Conns : \A n \in 1 .. Len(Frames[c]) : \A f \in Frames[c][n] : f.pdu \in S
AskedIn(S)  == \A c \in Conns : \A n \in 1 .. Len(asked[c]) : asked[c][n].pdu \in S

\* The answer in reply to request p is by an exception, or tells the truth on b.
ReplyTrue(adu, p, b) ==
  LET pdu == SubSeq(adu, mbapSize + 1, Len(adu))
  IN pdu[1] < 128 =>
       Len(p) >= 5 /\ decodeMBAP(adu).length = Len(pdu) + 1 /\ Truthful(p, pdu, b)

TruthInv == hpc = "write" => ReplyTrue(reply, Pending, bank)

--------------------------------------------------------------------------------
(***************************************************************************)
(* Headers and buffers are bytes.                                          *)
(***************************************************************************)
LEMMA OfElements ==
  ASSUME NEW T, NEW S, NEW s \in Seq(T), \A j \in 1 .. Len(s) : s[j] \in S
  PROVE  s \in Seq(S)
  <1> DEFINE n == Len(s)
  <1>1. n \in Nat /\ s \in [1 .. n -> T] /\ \A j \in 1 .. n : s[j] \in S
    OBVIOUS
  <1> HIDE DEF n
  <1>2. s \in [1 .. n -> S]
    BY <1>1
  <1> QED
    BY <1>1, <1>2

LEMMA HeaderInBytes ==
  ASSUME NEW m \in Header
  PROVE  PutMBAP(m) \in Seq(Byte) /\ Len(PutMBAP(m)) = 7
  <1> DEFINE h == PutMBAP(m)
  <1>1. m \in MBAP /\ m.transaction < 65536 /\ m.protocol < 65536 /\ m.length < 65536
    BY SMT DEF Header
  <1>2. m.transaction \in Nat /\ m.protocol \in Nat /\ m.length \in Nat /\ m.unit \in Byte
    BY <1>1, SMT DEF MBAP
  <1>3. /\ h \in Seq(Nat) /\ Len(h) = 7
        /\ h[1] = m.transaction \div 256 /\ h[2] = m.transaction % 256
        /\ h[3] = m.protocol \div 256 /\ h[4] = m.protocol % 256
        /\ h[5] = m.length \div 256 /\ h[6] = m.length % 256 /\ h[7] = m.unit
    BY <1>1, HeaderBytes
  <1> HIDE DEF h
  <1>4. ASSUME NEW v \in Nat, v < 65536 PROVE v \div 256 \in Byte /\ v % 256 \in Byte
    <2>1. v \div 256 \in Nat /\ v \div 256 <= 255 /\ v % 256 \in Nat /\ v % 256 <= 255
      BY <1>4, SMT
    <2> QED
      BY <2>1, ByteRange
  <1>5. /\ h[1] \in Byte /\ h[2] \in Byte /\ h[3] \in Byte /\ h[4] \in Byte /\ h[5] \in Byte
        /\ h[6] \in Byte /\ h[7] \in Byte
    <2>1. m.transaction \div 256 \in Byte /\ m.transaction % 256 \in Byte
      BY <1>1, <1>2, <1>4
    <2>2. m.protocol \div 256 \in Byte /\ m.protocol % 256 \in Byte
      BY <1>1, <1>2, <1>4
    <2>3. m.length \div 256 \in Byte /\ m.length % 256 \in Byte
      BY <1>1, <1>2, <1>4
    <2> QED
      BY <1>2, <1>3, <2>1, <2>2, <2>3
  <1>6. \A j \in 1 .. Len(h) : h[j] \in Byte
    BY <1>3, <1>5
  <1>7. h \in Seq(Byte)
    BY <1>3, <1>6, OfElements
  <1> QED
    BY <1>3, <1>7 DEF h

\* What the two reads leave in rxbuf behind the values of an answer.
LEMMA StaleBytes ==
  ASSUME lastMBAP \in Header, NEW body \in Seq(Byte), NEW left \in Byte
  PROVE  Leftover(StaleData(body, left))
  <1> DEFINE h == PutMBAP(lastMBAP)
             rest == SubSeq(h, Len(body) + 1, mbapSize)
             rxbuf == body \o rest
             top == BufLen - 2
             d == StaleData(body, left)
  <1>1. h \in Seq(Byte) /\ Len(h) = mbapSize
    BY HeaderInBytes DEF mbapSize
  <1> HIDE DEF h
  <1>2. rest \in Seq(Byte)
    BY <1>1
  <1> HIDE DEF rest
  <1>3. rxbuf \in Seq(Byte)
    BY <1>2
  <1>4. d = [j \in 1 .. top |-> IF j + 2 <= Len(rxbuf) THEN rxbuf[j + 2] ELSE left]
    BY Zenon DEF StaleData, rest, h
  <1>5. top = 254
    BY DEF BufLen
  <1> HIDE DEF rxbuf, top, d
  <1>6. ASSUME NEW j \in Nat, j >= 1, j <= 254 PROVE d[j] \in Byte
    <2>1. j \in 1 .. top /\ j + 2 \in Nat /\ j + 2 >= 1
      BY <1>5, <1>6
    <2>2. j + 2 <= Len(rxbuf) => rxbuf[j + 2] \in Byte
      BY <1>3, <2>1
    <2> QED
      BY <1>4, <2>1, <2>2, Zenon
  <1> QED
    BY <1>6 DEF Leftover, d

--------------------------------------------------------------------------------
(***************************************************************************)
(* What HandleNext does with a request.                                    *)
(***************************************************************************)
Response(body, left) ==
  LET req == DecodeRequest(body)
  IN PutResponse(req, bank, SubSeq(body, req.off + 1, Len(body)), BufLen - req.off, TxRoom,
                 StaleData(body, left))

HeaderOf(pdu) == [lastMBAP EXCEPT !.length = U16(Len(pdu) + 1)]

\* The ways in which it deals with a request, with the answer a of PutResponse.
Handled(body, req, a, r) ==
  \/ /\ InferRequestPacketLength(body).err = "exception"
     /\ r = handleException(ExceptionIllegalFunction, body[1], bank)
  \/ r = Reaction("close", bank, <<>>)
  \/ /\ req.err = "nil" /\ a.out = "ok"
     /\ r = Reaction("write", a.bank, PutMBAP(HeaderOf(a.pdu)) \o a.pdu)
  \/ req.err = "nil" /\ a.out = "exception" /\ r = handleException(a.exc, req.fc, a.bank)
  \/ req.err = "nil" /\ a.out = "error" /\ r = Reaction("close", a.bank, <<>>)
  \/ req.err = "nil" /\ a.out = "panic" /\ r = Reaction("panic", a.bank, <<>>)

LEMMA HandleCases ==
  ASSUME NEW body, NEW left
  PROVE  Handled(body, DecodeRequest(body), Response(body, left), Handle(body, left))
  <1> DEFINE req    == DecodeRequest(body)
             data   == SubSeq(body, req.off + 1, Len(body))
             answer == PutResponse(req, bank, data, BufLen - req.off, TxRoom, StaleData(body, left))
             mbap   == [lastMBAP EXCEPT !.length = U16(Len(answer.pdu) + 1)]
             r      == Handle(body, left)
  <1>1. r = IF InferRequestPacketLength(body).err = "exception"
              THEN handleException(ExceptionIllegalFunction, body[1], bank)
            ELSE IF req.err # "nil" THEN Reaction("close", bank, <<>>)
            ELSE CASE answer.out = "ok"        -> Reaction("write", answer.bank, PutMBAP(mbap) \o answer.pdu)
                   [] answer.out = "exception" -> handleException(answer.exc, req.fc, answer.bank)
                   [] answer.out = "error"     -> Reaction("close", answer.bank, <<>>)
                   [] answer.out = "panic"     -> Reaction("panic", answer.bank, <<>>)
    BY Zenon DEF Handle
  <1>2. answer.out \in {"ok", "exception", "error", "panic"}
    BY Endings
  <1>3. answer = Response(body, left) /\ mbap = HeaderOf(answer.pdu)
    BY Zenon DEF Response, HeaderOf
  <1> HIDE DEF req, data, answer, mbap, r
  <1>4. \/ /\ InferRequestPacketLength(body).err = "exception"
           /\ r = handleException(ExceptionIllegalFunction, body[1], bank)
        \/ r = Reaction("close", bank, <<>>)
        \/ /\ req.err = "nil" /\ answer.out = "ok"
           /\ r = Reaction("write", answer.bank, PutMBAP(mbap) \o answer.pdu)
        \/ req.err = "nil" /\ answer.out = "exception" /\ r = handleException(answer.exc, req.fc, answer.bank)
        \/ req.err = "nil" /\ answer.out = "error" /\ r = Reaction("close", answer.bank, <<>>)
        \/ req.err = "nil" /\ answer.out = "panic" /\ r = Reaction("panic", answer.bank, <<>>)
    <2>1. CASE answer.out = "ok"
      BY <1>1, <2>1
    <2>2. CASE answer.out = "exception"
      BY <1>1, <2>2
    <2>3. CASE answer.out = "error"
      BY <1>1, <2>3
    <2>4. CASE answer.out = "panic"
      BY <1>1, <2>4
    <2> QED
      BY <1>2, <2>1, <2>2, <2>3, <2>4
  <1> QED
    BY <1>3, <1>4, Zenon DEF Handled, req, r

\* The numbers in the call of PutResponse.
IsAccepted(body, req) ==
  /\ IsShort(body, req) \/ IsLong(body, req) \/ IsStatus(body, req)
  /\ req.fc = body[1] /\ body[1] \in Nat /\ body[1] < 128
  /\ BufLen - req.off \in Nat /\ BufLen - req.off <= 256 /\ BufLen - req.off = 256 - req.off
  /\ TxRoom \in Nat /\ TxRoom <= 257

LEMMA CallOfPutResponse ==
  ASSUME NEW body \in Seq(Byte), DecodeRequest(body).err = "nil"
  PROVE  IsAccepted(body, DecodeRequest(body))
  <1> DEFINE req == DecodeRequest(body)
  <1>1. IsShort(body, req) \/ IsLong(body, req) \/ IsStatus(body, req)
    BY Decodes, Zenon
  <1> HIDE DEF req
  <1>2. /\ req.fc = body[1] /\ (req.off = 0 \/ req.off = 6)
        /\ body[1] \in KnownFCs \cup {FCReadExceptionStatus}
    BY <1>1 DEF IsShort, IsLong, IsStatus, Decoded, KnownFCs
  <1>3. body[1] \in Nat /\ body[1] < 128
    BY <1>2, Codes DEF KnownFCs
  <1>4. BufLen = 256 /\ TxRoom = 249
    BY DEF BufLen, TxRoom, mbapSize
  <1>5. /\ BufLen - req.off \in Nat /\ BufLen - req.off <= 256 /\ BufLen - req.off = 256 - req.off
        /\ TxRoom \in Nat /\ TxRoom <= 257
    BY <1>2, <1>4
  <1> QED
    BY <1>1, <1>2, <1>3, <1>5 DEF IsAccepted, req

\* An answer other than an exception tells the truth.
LEMMA OkIsTruthful ==
  ASSUME NEW body \in Seq(Byte), NEW left \in Byte, DecodeRequest(body).err = "nil",
         lastMBAP \in Header, bank \in BankOf(Uint16), Response(body, left).out = "ok"
  PROVE  Truthful(body, Response(body, left).pdu, Response(body, left).bank)
  <1> DEFINE req == DecodeRequest(body)
             data == SubSeq(body, req.off + 1, Len(body))
             capacity == BufLen - req.off
             stale == StaleData(body, left)
             a == PutResponse(req, bank, data, capacity, TxRoom, stale)
  <1>1. /\ IsShort(body, req) \/ IsLong(body, req) \/ IsStatus(body, req)
        /\ capacity \in Nat /\ capacity <= 256 /\ TxRoom \in Nat /\ TxRoom <= 257
    BY CallOfPutResponse, SMT DEF IsAccepted
  <1>2. Leftover(stale)
    BY StaleBytes, Zenon
  <1>3. Response(body, left) = a /\ a.out = "ok" /\ data = SubSeq(body, req.off + 1, Len(body))
    BY Zenon DEF Response
  <1>4. req.fc \in KnownFCs
    BY <1>3, Endings
  <1> HIDE DEF req, capacity, stale
  <1>5. CASE IsShort(body, req) /\ body[1] \in ReadFCs
    <2> HIDE DEF data
    <2>1. Uint16 \subseteq Uint16
      BY Zenon
    <2>2. Truthful(body, a.pdu, a.bank)
      BY <1>1, <1>2, <1>3, <1>5, <2>1, ReadAnswered, Zenon
    <2> QED
      BY <1>3, <2>2, Zenon
  <1>6. CASE IsShort(body, req) /\ body[1] \in WriteSingleFCs
    <2> HIDE DEF data
    <2>1. Truthful(body, a.pdu, a.bank)
      BY <1>1, <1>3, <1>6, SingleAnswered, Zenon
    <2> QED
      BY <1>3, <2>1, Zenon
  <1>7. CASE IsLong(body, req)
    <2>1. Truthful(body, a.pdu, a.bank)
      <3> HIDE DEF data
      <3> QED
        BY <1>3, <1>7, ManyAnswered, Zenon
    <2> QED
      BY <1>3, <2>1, Zenon
  <1>8. ASSUME IsStatus(body, req) PROVE FALSE
    <2>1. req.fc = FCReadExceptionStatus
      BY <1>8 DEF IsStatus, Decoded
    <2> QED
      BY <1>4, <2>1, Codes, Zenon DEF KnownFCs
  <1>9. IsShort(body, req) => body[1] \in ReadFCs \/ body[1] \in WriteSingleFCs
    BY DEF IsShort
  <1> QED
    BY <1>1, <1>5, <1>6, <1>7, <1>8, <1>9, Zenon

LEMMA OkIsWhole ==
  ASSUME NEW body \in Seq(Byte), NEW left, DecodeRequest(body).err = "nil", Response(body, left).out = "ok"
  PROVE  Len(body) >= 5
  <1> DEFINE req == DecodeRequest(body)
  <1>1. IsShort(body, req) \/ IsLong(body, req) \/ IsStatus(body, req)
    BY CallOfPutResponse, SMT DEF IsAccepted
  <1>2. req.fc \in KnownFCs
    BY Endings DEF Response
  <1>3. ~IsStatus(body, req)
    BY <1>2, Codes DEF IsStatus, Decoded, KnownFCs
  <1> QED
    BY <1>1, <1>3 DEF IsShort, IsLong

\* Whatever it answers, the bank stays one.
LEMMA HandleBank ==
  ASSUME NEW body \in Seq(Byte), NEW left, NEW W, {0, 1} \subseteq W, StoresIn(body, W),
         bank \in BankOf(W)
  PROVE  Handle(body, left).bank \in BankOf(W)
  <1> DEFINE req == DecodeRequest(body)
             data == SubSeq(body, req.off + 1, Len(body))
             capacity == BufLen - req.off
             stale == StaleData(body, left)
             a == PutResponse(req, bank, data, capacity, TxRoom, stale)
             r == Handle(body, left)
  <1>1. r.bank = bank \/ (req.err = "nil" /\ r.bank = Response(body, left).bank)
    <2>1. \A to, m, adu : Reaction(to, m, adu).bank = m
      BY DEF Reaction
    <2>2. \A exc, fc, m : handleException(exc, fc, m).bank = m
      BY DEF Reaction, handleException
    <2>3. Handled(body, req, Response(body, left), r)
      BY HandleCases, Zenon
    <2> HIDE DEF req, r
    <2> QED
      BY <2>1, <2>2, <2>3, SMT DEF Handled
  <1>2. Response(body, left) = a
    BY Zenon DEF Response
  <1>3. ASSUME req.err = "nil" PROVE a.bank \in BankOf(W)
    <2>1. IsShort(body, req) \/ IsLong(body, req) \/ IsStatus(body, req)
      BY <1>3, CallOfPutResponse, SMT DEF IsAccepted
    <2>2. CASE IsShort(body, req) \/ IsLong(body, req)
      <3> HIDE DEF req, capacity, stale
      <3> QED
        BY <2>2, BankKept, Zenon
    <2>3. CASE IsStatus(body, req)
      <3>1. req.fc = FCReadExceptionStatus
        BY <2>3 DEF IsStatus, Decoded
      <3>2. req.fc \notin ReadFCs \cup WriteSingleFCs \cup WriteMultipleFCs
        BY <3>1, Codes, Zenon
      <3>3. a.bank = bank
        <4> HIDE DEF req, data, capacity, stale
        <4> QED
          BY <3>2, Zenon DEF PutResponse, Answer
      <3> QED
        BY <3>3, Zenon
    <2> QED
      BY <2>1, <2>2, <2>3, Zenon
  <1> QED
    BY <1>1, <1>2, <1>3, Zenon

\* It panics on no request that it is up to.
LEMMA HandleNoPanic ==
  ASSUME NEW body \in Seq(Byte), NEW left, Serves(body)
  PROVE  Handle(body, left).to # "panic"
  <1> DEFINE req == DecodeRequest(body)
             data == SubSeq(body, req.off + 1, Len(body))
             capacity == BufLen - req.off
             stale == StaleData(body, left)
             a == PutResponse(req, bank, data, capacity, TxRoom, stale)
             r == Handle(body, left)
  <1>1. r.to = "panic" => req.err = "nil" /\ Response(body, left).out = "panic"
    <2>1. \A to, m, adu : Reaction(to, m, adu).to = to
      BY DEF Reaction
    <2>2. \A exc, fc, m : handleException(exc, fc, m).to = "write"
      BY DEF Reaction, handleException
    <2>3. "write" # "panic" /\ "close" # "panic"
      OBVIOUS
    <2>4. Handled(body, req, Response(body, left), r)
      BY HandleCases, Zenon
    <2> HIDE DEF req, r
    <2> QED
      BY <2>1, <2>2, <2>3, <2>4, SMT DEF Handled
  <1>2. ASSUME req.err = "nil" PROVE Response(body, left).out # "panic"
    <2>1. /\ IsShort(body, req) \/ IsLong(body, req) \/ IsStatus(body, req)
          /\ FullBuffer(req, capacity)
      BY <1>2, CallOfPutResponse, SMT DEF IsAccepted, FullBuffer
    <2>2. Response(body, left) = a
      BY <2>1, Zenon DEF Response
    <2>3. data = SubSeq(body, req.off + 1, Len(body))
      OBVIOUS
    <2> HIDE DEF req, data, capacity, stale
    <2>4. a.out # "panic"
      BY <2>1, <2>3, NoPanics, Zenon
    <2> QED
      BY <2>2, <2>4, Zenon
  <1> QED
    BY <1>1, <1>2, Zenon

--------------------------------------------------------------------------------
(***************************************************************************)
(* The answer on the wire.                                                 *)
(***************************************************************************)
Framed(adu, m, pdu) ==
  adu \in Seq(Byte) /\ decodeMBAP(adu) = m /\ SubSeq(adu, mbapSize + 1, Len(adu)) = pdu

LEMMA BehindHeader ==
  ASSUME NEW h \in Seq(Byte), NEW pdu \in Seq(Byte), NEW n \in Nat, n = Len(h)
  PROVE  SubSeq(h \o pdu, n + 1, Len(h \o pdu)) = pdu
OBVIOUS

LEMMA PutsFrame ==
  ASSUME NEW m \in Header, NEW pdu \in Seq(Byte)
  PROVE  Framed(PutMBAP(m) \o pdu, m, pdu)
  <1> DEFINE h == PutMBAP(m)
             n == mbapSize
  <1>1. h \in Seq(Byte) /\ n = Len(h) /\ n \in Nat
    BY HeaderInBytes DEF mbapSize
  <1>2. Len(h) = 7
    BY HeaderInBytes
  <1> HIDE DEF h, n
  <1>3. h \o pdu \in Seq(Byte) /\ \A j \in 1 .. Len(h) : (h \o pdu)[j] = h[j]
    BY <1>1
  <1>4. \A j \in 1 .. 7 : (h \o pdu)[j] = h[j]
    BY <1>2, <1>3, Zenon
  <1>5. decodeMBAP(h \o pdu) = m
    BY <1>4, DecodesHeader, Zenon DEF h
  <1>6. SubSeq(h \o pdu, n + 1, Len(h \o pdu)) = pdu
    BY <1>1, BehindHeader, Zenon
  <1> QED
    BY <1>3, <1>5, <1>6, Zenon DEF Framed, h, n

\* What HandleNext writes in answer to p is made of bytes and true.
GoodReply(r, p) == r.reply \in Seq(Byte) /\ (r.to = "write" => ReplyTrue(r.reply, p, r.bank))

LEMMA ExceptionReply ==
  ASSUME lastMBAP \in Header, NEW exc \in Byte, NEW fc \in Nat, fc < 128, NEW m, NEW p
  PROVE  GoodReply(handleException(exc, fc, m), p)
  <1> DEFINE r   == handleException(exc, fc, m)
             d   == fc + 128
             pdu == <<d, exc>>
  <1>1. r.reply = PutMBAP(lastMBAP) \o pdu
    BY DEF handleException, Reaction, ExceptionResponse
  <1>2. d \in Byte /\ ~(d < 128)
    BY ByteRange
  <1> HIDE DEF d, r
  <1>3. pdu \in Seq(Byte) /\ pdu[1] = d
    BY <1>2
  <1> HIDE DEF pdu
  <1>4. Framed(r.reply, lastMBAP, pdu)
    BY <1>1, <1>3, PutsFrame, Zenon
  <1>5. ReplyTrue(r.reply, p, r.bank)
    BY <1>2, <1>3, <1>4, Zenon DEF ReplyTrue, Framed
  <1> QED
    BY <1>4, <1>5, Zenon DEF GoodReply, Framed, r

LEMMA Reacts ==
  ASSUME NEW to, NEW b, NEW adu, NEW r, r = Reaction(to, b, adu)
  PROVE  r.to = to /\ r.bank = b /\ r.reply = adu
BY DEF Reaction

LEMMA HandleReply ==
  ASSUME NEW body \in Seq(Byte), NEW left \in Byte, lastMBAP \in Header, bank \in BankOf(Uint16)
  PROVE  GoodReply(Handle(body, left), body)
  <1> DEFINE req == DecodeRequest(body)
             a   == Response(body, left)
             r   == Handle(body, left)
  <1>1. Handled(body, req, a, r)
    BY HandleCases, Zenon
  <1>2. CASE /\ InferRequestPacketLength(body).err = "exception"
             /\ r = handleException(ExceptionIllegalFunction, body[1], bank)
    <2>1. body[1] \in UnimplementedAccess \cup {FCDiagnostic, FCReadDeviceIdentification}
      BY <1>2 DEF InferRequestPacketLength, Inferred
    <2>2. body[1] \in Nat /\ body[1] < 128
      BY <2>1 DEF UnimplementedAccess, FCDiagnostic, FCReadDeviceIdentification, FCReadFileRecord, FCReadFIFOQueue
    <2>3. ExceptionIllegalFunction \in Byte
      BY ByteRange DEF ExceptionIllegalFunction
    <2> QED
      BY <1>2, <2>2, <2>3, ExceptionReply, Zenon
  <1>3. ASSUME req.err = "nil" PROVE req.fc = body[1] /\ body[1] \in Nat /\ body[1] < 128
    BY <1>3, CallOfPutResponse, SMT DEF IsAccepted
  <1>4. CASE req.err = "nil" /\ a.out = "ok" /\ r = Reaction("write", a.bank, PutMBAP(HeaderOf(a.pdu)) \o a.pdu)
    <2> DEFINE pdu == a.pdu
               m   == HeaderOf(pdu)
    <2>1. Truthful(body, pdu, a.bank)
      BY <1>4, OkIsTruthful, Zenon
    <2>w. Len(body) >= 5
      BY <1>4, OkIsWhole, Zenon
    <2>2. pdu \in Seq(Byte) /\ Sized(Len(pdu))
      BY <2>1, Zenon DEF Truthful
    <2> HIDE DEF a, r
    <2>3. r.reply = PutMBAP(m) \o pdu /\ r.bank = a.bank
      <3> DEFINE adu == PutMBAP(m) \o pdu
                 b   == a.bank
      <3>1. r = Reaction("write", b, adu)
        BY <1>4, Zenon
      <3> HIDE DEF adu, b
      <3>2. r.reply = adu /\ r.bank = b
        BY <3>1 DEF Reaction
      <3> QED
        BY <3>2, Zenon DEF adu, b
    <2> HIDE DEF pdu
    <2>4. m \in Header /\ m.length = Len(pdu) + 1
      <3> DEFINE u == U16(Len(pdu) + 1)
      <3>1. u = Len(pdu) + 1 /\ u \in Nat /\ u < 65536
        BY <2>2, SMT DEF Sized, U16
      <3>2. m = [lastMBAP EXCEPT !.length = u]
        BY DEF HeaderOf
      <3> HIDE DEF u, m
      <3> QED
        BY <3>1, <3>2 DEF Header, MBAP
    <2> HIDE DEF m
    <2>5. Framed(r.reply, m, pdu)
      BY <2>2, <2>3, <2>4, PutsFrame, Zenon
    <2>6. ReplyTrue(r.reply, body, r.bank)
      BY <2>w, <2>1, <2>3, <2>4, <2>5, Zenon DEF ReplyTrue, Framed
    <2> QED
      BY <2>5, <2>6, Zenon DEF GoodReply, Framed, r
  <1>5. CASE req.err = "nil" /\ a.out = "exception" /\ r = handleException(a.exc, req.fc, a.bank)
    <2> DEFINE data == SubSeq(body, req.off + 1, Len(body))
               capacity == BufLen - req.off
               stale == StaleData(body, left)
    <2>1. a = PutResponse(req, bank, data, capacity, TxRoom, stale)
      BY Zenon DEF Response
    <2>2. IsShort(body, req) \/ IsLong(body, req) \/ IsStatus(body, req)
      BY <1>5, CallOfPutResponse, SMT DEF IsAccepted
    <2>3. data = SubSeq(body, req.off + 1, Len(body))
      OBVIOUS
    <2>4. a.exc \in Byte
      <3> HIDE DEF data, capacity, stale, req, a
      <3> QED
        BY <1>5, <2>1, <2>2, <2>3, Excepts, Zenon
    <2> QED
      BY <1>3, <1>5, <2>4, ExceptionReply, Zenon
  <1>6. ASSUME NEW to, NEW b, to # "write", r = Reaction(to, b, <<>>) PROVE GoodReply(r, body)
    <2> HIDE DEF r
    <2>1. r.reply = <<>> /\ r.to = to
      BY <1>6, Reacts, SMT
    <2>a. <<>> \in Seq(Byte)
      OBVIOUS
    <2>b. r.reply \in Seq(Byte) /\ r.to # "write"
      BY <1>6, <2>1, <2>a, Zenon
    <2>2. GoodReply(r, body)
      BY <2>b, Zenon DEF GoodReply
    <2> QED
      BY <2>2 DEF r
  <1>7. "close" # "write" /\ "panic" # "write"
    OBVIOUS
  <1> QED
    BY <1>1, <1>2, <1>4, <1>5, <1>6, <1>7, Zenon DEF Handled

--------------------------------------------------------------------------------
(***************************************************************************)
(* What clients send, and how a request is handled.                        *)
(***************************************************************************)
Sends == \E c \in Conns : Send(c)

LEMMA Kinds ==
  ASSUME [Next]_vars PROVE Sends \/ ReadBody \/ UNCHANGED <<asked, bank>>
  <1>1. ASSUME NEW c \in Conns, Client(c) PROVE Sends \/ UNCHANGED <<asked, bank>>
    <2>1. CASE Dial(c)
      BY <2>1 DEF Dial
    <2>2. CASE HangUp(c)
      BY <2>2 DEF HangUp
    <2> QED
      BY <1>1, <2>1, <2>2, Zenon DEF Client, Sends
  <1>2. ASSUME NEW a \in Acceptors, Accept(a) PROVE UNCHANGED <<asked, bank>>
    <2> USE DEF net
    <2>1. CASE AcceptCheck(a)
      BY <2>1 DEF AcceptCheck
    <2>2. CASE ListenTCP(a)
      BY <2>2 DEF ListenTCP
    <2>3. CASE AcceptTimeout(a)
      BY <2>3 DEF AcceptTimeout
    <2>4. CASE Store(a)
      BY <2>4 DEF Store
    <2>5. ASSUME NEW c \in Conns, AcceptTCP(a, c) PROVE UNCHANGED <<asked, bank>>
      BY <2>5 DEF AcceptTCP
    <2> QED
      BY <1>2, <2>1, <2>2, <2>3, <2>4, <2>5, Zenon DEF Accept
  <1>3. CASE Handler
    <2> USE DEF net
    <2>1. CASE HandleNext
      BY <2>1 DEF HandleNext
    <2>2. CASE CallReadFull
      BY <2>2 DEF CallReadFull
    <2>3. CASE ReadHeader
      BY <2>3 DEF ReadHeader
    <2>4. CASE HeaderFails
      BY <2>4 DEF HeaderFails
    <2>5. CASE BodyFails
      BY <2>5 DEF BodyFails
    <2>6. CASE Write
      BY <2>6 DEF Write
    <2>7. CASE WriteFails
      BY <2>7 DEF WriteFails
    <2> QED
      BY <1>3, <2>1, <2>2, <2>3, <2>4, <2>5, <2>6, <2>7, Zenon DEF Handler
  <1>4. CASE UNCHANGED vars
    BY <1>4 DEF vars, net
  <1> QED
    BY <1>1, <1>2, <1>3, <1>4, Zenon DEF Next

\* Client c sends g, which has the PDU of one of its frames.
Sent(c, g) ==
  /\ asked[c] \in Seq(Requests) /\ g \in Requests /\ g.mbap \in Header
  /\ asked' = [asked EXCEPT ![c] = Append(asked[c], g)]
  /\ in' = [in EXCEPT ![c] = in[c] \o PutMBAP(g.mbap) \o g.pdu]
  /\ \E n \in 1 .. Len(Frames[c]) : \E f \in Frames[c][n] : g.pdu = f.pdu

LEMMA SendSends ==
  ASSUME WellFramed, OrderInv, NEW c \in Conns, Send(c) PROVE \E g : Sent(c, g)
  <1> DEFINE gs == asked[c]
             n  == Len(gs) + 1
  <1>1. Len(gs) < Len(Frames[c])
    BY DEF Send
  <1>2. PICK f \in Frames[c][n] :
           /\ asked' = [asked EXCEPT ![c] = Append(gs, Numbered(f, n))]
           /\ in' = [in EXCEPT ![c] = in[c] \o PutMBAP(Numbered(f, n).mbap) \o Numbered(f, n).pdu]
    BY DEF Send
  <1>3. gs \in Seq(Requests)
    BY Zenon DEF OrderInv, ConnInv, GoodAsk
  <1>4. Len(gs) \in Nat
    BY <1>3, Lengths
  <1>5. Frames[c] \in Seq(SUBSET Requests) /\ Len(Frames[c]) \in Nat
    BY FrameCount, SMT
  <1>6. n \in 1 .. Len(Frames[c])
    BY <1>1, <1>4, <1>5
  <1> HIDE DEF n, gs
  <1>7. Numbered(f, n) \in Requests /\ Numbered(f, n).mbap \in Header
    BY <1>2, <1>6, NumberedFrame, Zenon
  <1>8. f \in Requests
    <2> HIDE DEF Requests
    <2>1. Frames[c][n] \in SUBSET Requests
      BY <1>5, <1>6
    <2> QED
      BY <1>2, <2>1
  <1>9. Numbered(f, n).pdu = f.pdu
    BY <1>8 DEF Numbered, Requests, MBAP
  <1> DEFINE g == Numbered(f, n)
  <1>10. Sent(c, g)
    BY <1>2, <1>3, <1>6, <1>7, <1>9, Zenon DEF Sent, gs
  <1> QED
    BY <1>10, Zenon

\* Requests are among those that the clients may send.
LEMMA AskedKept ==
  ASSUME NEW S, WellFramed, FramesIn(S), OrderInv, AskedIn(S), [Next]_vars PROVE AskedIn(S)'
  <1>1. CASE asked' = asked
    BY <1>1, Zenon DEF AskedIn
  <1>2. ASSUME NEW c \in Conns, Send(c) PROVE AskedIn(S)'
    <2>1. PICK g : Sent(c, g)
      BY <1>2, SendSends
    <2>2. g.pdu \in S
      BY <2>1, Zenon DEF Sent, FramesIn
    <2>3. DOMAIN asked = Conns
      BY DEF OrderInv, NetTypes
    <2>4. asked'[c] = Append(asked[c], g) /\ \A d \in Conns : d # c => asked'[d] = asked[d]
      BY <2>1, <2>3, Zenon DEF Sent
    <2>5. ASSUME NEW n \in 1 .. Len(asked'[c]) PROVE asked'[c][n].pdu \in S
      <3>1. /\ Len(asked[c]) \in Nat /\ Len(asked'[c]) = Len(asked[c]) + 1
            /\ asked'[c][Len(asked[c]) + 1] = g /\ \A k \in 1 .. Len(asked[c]) : asked'[c][k] = asked[c][k]
        <4>1. asked[c] \in Seq(Requests) /\ g \in Requests
          BY <2>1, Zenon DEF Sent
        <4>2. /\ Len(asked[c]) \in Nat /\ Len(Append(asked[c], g)) = Len(asked[c]) + 1
              /\ Append(asked[c], g)[Len(asked[c]) + 1] = g
              /\ \A k \in 1 .. Len(asked[c]) : Append(asked[c], g)[k] = asked[c][k]
          BY <4>1, OneMore, Zenon
        <4> QED
          BY <2>4, <4>2, Zenon
      <3>2. n \in 1 .. Len(asked[c]) \/ n = Len(asked[c]) + 1
        BY <3>1
      <3> QED
        BY <2>2, <3>1, <3>2, Zenon DEF AskedIn
    <2> QED
      BY <2>4, <2>5, Zenon DEF AskedIn
  <1>3. ReadBody => asked' = asked
    BY DEF ReadBody
  <1> QED
    BY <1>1, <1>2, <1>3, Kinds, Zenon DEF Sends

\* HandleNext has read the request that is to be answered next.
Handles(left) ==
  /\ left \in Byte /\ Pending \in Seq(Byte) /\ lastMBAP \in Header
  /\ conn \in Conns /\ Len(out[conn]) + 1 \in 1 .. Len(asked[conn])
  /\ bank' = Handle(Pending, left).bank /\ reply' = Handle(Pending, left).reply
  /\ hpc' = Handle(Pending, left).to \/ hpc' = "out"
  /\ UNCHANGED <<conn, asked, out, lastMBAP>>

LEMMA ReadBodyHandles ==
  ASSUME IInv, OrderInv, ReadBody PROVE \E left \in Stale : Handles(left)
  <1> DEFINE g == asked[conn][Len(out[conn]) + 1]
  <1>1. conn \in Conns /\ IsNext(g)
    BY BodyRead, Zenon
  <1>2. reading = conn
    BY Inside DEF ReadBody
  <1>3. SubSeq(in[reading], 1, remaining(lastMBAP)) = Pending
    BY <1>1, <1>2, Zenon DEF IsNext, Pending
  <1>4. PICK left \in Stale :
          /\ bank' = Handle(Pending, left).bank /\ reply' = Handle(Pending, left).reply
          /\ hpc' = Handle(Pending, left).to \/ hpc' = "out"
    <2>1. PICK left \in Stale : \E r \in {Handle(SubSeq(in[reading], 1, remaining(lastMBAP)), left)} :
            /\ bank' = r.bank /\ reply' = r.reply
            /\ IF r.to = "close" THEN hpc' = "out" /\ CloseConn ELSE hpc' = r.to /\ StayConnected
      BY Zenon DEF ReadBody
    <2> QED
      BY <1>3, <2>1, Zenon
  <1>5. Pending \in Seq(Byte)
    BY <1>1 DEF IsNext, Pending, Requests
  <1>6. left \in Byte
    BY <1>4, TcpAssumption, Zenon
  <1>7. UNCHANGED <<conn, asked, out, lastMBAP>>
    BY DEF ReadBody
  <1>8. Handles(left)
    BY <1>1, <1>4, <1>5, <1>6, <1>7, Zenon DEF Handles, IsNext
  <1> QED
    BY <1>4, <1>8, Zenon

--------------------------------------------------------------------------------
(***************************************************************************)
(* The data model.                                                         *)
(***************************************************************************)
Storing(W) == {p \in Seq(Byte) : StoresIn(p, W)}

\* The values that registers have stay in W if those that are sent are.
LEMMA BankStays ==
  ASSUME NEW W, {0, 1} \subseteq W, IInv, OrderInv, AskedIn(Storing(W)), bank \in BankOf(W), [Next]_vars
  PROVE  (bank \in BankOf(W))'
  <1>1. CASE bank' = bank
    BY <1>1, Zenon
  <1>2. CASE ReadBody
    <2>1. PICK left \in Stale : Handles(left)
      BY <1>2, ReadBodyHandles, Zenon
    <2>2. Pending \in Storing(W)
      BY <2>1, Zenon DEF Handles, AskedIn, Pending
    <2>3. Pending \in Seq(Byte) /\ StoresIn(Pending, W) /\ bank' = Handle(Pending, left).bank
      BY <2>1, <2>2, Zenon DEF Handles, Storing
    <2>4. Handle(Pending, left).bank \in BankOf(W)
      BY <2>3, HandleBank, Zenon
    <2> QED
      BY <2>3, <2>4, Zenon
  <1>3. Sends => bank' = bank
    BY Zenon DEF Sends, Send
  <1> QED
    BY <1>1, <1>2, <1>3, Kinds, Zenon

\* Whatever is asked is made of bytes, and so writes numbers of 16 bits.
LEMMA AskedBytes ==
  ASSUME OrderInv PROVE AskedIn(Storing(Uint16))
  <1> SUFFICES ASSUME NEW c \in Conns, NEW n \in 1 .. Len(asked[c])
               PROVE  asked[c][n].pdu \in Storing(Uint16)
    BY Zenon DEF AskedIn
  <1>1. asked[c] \in Seq(Requests)
    BY Zenon DEF OrderInv, ConnInv, GoodAsk
  <1>2. asked[c][n] \in Requests
    BY <1>1, Lengths, Zenon
  <1>3. asked[c][n].pdu \in Seq(Byte)
    BY <1>2 DEF Requests
  <1> QED
    BY <1>3, StoresNumbers, Zenon DEF Storing

LEMMA InitBank ==
  ASSUME Init, NEW W, Word \subseteq W PROVE bank \in BankOf(W)
  <1>1. bank = Initial
    BY DEF Init
  <1>2. Initial \in [Cell -> W] /\ \A c \in Cell : c[1] \in BitTables => Initial[c] \in {0, 1}
    BY TcpAssumption, Zenon
  <1> QED
    BY <1>1, <1>2, Zenon DEF BankOf

LEMMA NumbersStay ==
  ASSUME IInv, OrderInv, bank \in BankOf(Uint16), [Next]_vars PROVE (bank \in BankOf(Uint16))'
  <1>1. {0, 1} \subseteq Uint16
    BY Wraps, SMT
  <1>2. AskedIn(Storing(Uint16))
    BY AskedBytes
  <1> QED
    BY <1>1, <1>2, BankStays, Zenon

--------------------------------------------------------------------------------
(***************************************************************************)
(* The answer tells the truth.                                             *)
(***************************************************************************)

\* Until it is written, neither it nor the bank nor the connection changes.
LEMMA StillWriting ==
  ASSUME IInv, [Next]_vars, hpc' = "write", ~ReadBody
  PROVE  hpc = "write" /\ UNCHANGED <<bank, reply, conn, out>>
  <1> USE DEF handle, net, accept
  <1>1. ASSUME NEW c \in Conns, Client(c) PROVE UNCHANGED <<hpc, bank, reply, conn, out>>
    <2>1. CASE Dial(c)
      BY <2>1 DEF Dial
    <2>2. CASE Send(c)
      BY <2>2 DEF Send
    <2>3. CASE HangUp(c)
      BY <2>3 DEF HangUp
    <2> QED
      BY <1>1, <2>1, <2>2, <2>3, Zenon DEF Client
  <1>2. ASSUME NEW a \in Acceptors, Accept(a) PROVE UNCHANGED <<hpc, bank, reply, conn, out>>
    <2>1. CASE AcceptCheck(a)
      BY <2>1 DEF AcceptCheck
    <2>2. CASE ListenTCP(a)
      BY <2>2 DEF ListenTCP
    <2>3. CASE AcceptTimeout(a)
      BY <2>3 DEF AcceptTimeout
    <2>4. CASE Store(a)
      <3>1. hpc = "out" /\ hpc' = hpc
        BY <2>4, StoreFacts DEF Store
      <3> QED
        BY <3>1
    <2>5. ASSUME NEW c \in Conns, AcceptTCP(a, c) PROVE UNCHANGED <<hpc, bank, reply, conn, out>>
      BY <2>5 DEF AcceptTCP
    <2> QED
      BY <1>2, <2>1, <2>2, <2>3, <2>4, <2>5, Zenon DEF Accept
  <1>3. ~Handler
    <2>1. ~HandleNext /\ ~CallReadFull
      BY DEF HandleNext, CallReadFull
    <2>2. ~ReadHeader
      BY DEF ReadHeader
    <2>3. ~HeaderFails /\ ~BodyFails /\ ~Write /\ ~WriteFails
      BY DEF HeaderFails, BodyFails, Write, WriteFails
    <2> QED
      BY <2>1, <2>2, <2>3, Zenon DEF Handler
  <1>4. CASE UNCHANGED vars
    BY <1>4 DEF vars
  <1> QED
    BY <1>1, <1>2, <1>3, <1>4 DEF Next

\* The request that is being answered stays the one.
LEMMA PendingStays ==
  ASSUME WellFramed, IInv, OrderInv, [Next]_vars, hpc = "write", UNCHANGED <<conn, out>>
  PROVE  Pending' = Pending
  <1> DEFINE n == Len(out[conn]) + 1
  <1>1. conn \in Conns /\ Len(out[conn]) \in Nat /\ Len(asked[conn]) \in Nat /\ Done(conn) <= Len(asked[conn])
    BY Served
  <1>2. n \in 1 .. Len(asked[conn])
    BY <1>1 DEF Done
  <1>3. CASE asked' = asked
    BY <1>3, Zenon DEF Pending
  <1>4. ASSUME NEW c \in Conns, Send(c) PROVE Pending' = Pending
    <2>1. PICK g : Sent(c, g)
      BY <1>4, SendSends
    <2>2. DOMAIN asked = Conns
      BY DEF OrderInv, NetTypes
    <2>3. asked'[c] = Append(asked[c], g) /\ \A d \in Conns : d # c => asked'[d] = asked[d]
      BY <2>1, <2>2, Zenon DEF Sent
    <2>4. asked[c] \in Seq(Requests) /\ g \in Requests
      BY <2>1, Zenon DEF Sent
    <2>5. \A k \in 1 .. Len(asked[c]) : Append(asked[c], g)[k] = asked[c][k]
      BY <2>4, OneMore, Zenon
    <2>6. asked'[conn][n] = asked[conn][n]
      <3>1. CASE c = conn
        BY <1>2, <2>3, <2>5, <3>1, Zenon
      <3>2. CASE c # conn
        BY <1>1, <2>3, <3>2, Zenon
      <3> QED
        BY <3>1, <3>2, Zenon
    <2> QED
      BY <2>6, Zenon DEF Pending
  <1>5. ReadBody => asked' = asked
    BY DEF ReadBody
  <1> QED
    BY <1>3, <1>4, <1>5, Kinds, Zenon DEF Sends

LEMMA TruthStays ==
  ASSUME WellFramed, IInv, OrderInv, bank \in BankOf(Uint16), TruthInv, [Next]_vars PROVE TruthInv'
  <1> SUFFICES ASSUME hpc' = "write" PROVE ReplyTrue(reply, Pending, bank)'
    BY DEF TruthInv
  <1>1. CASE ReadBody
    <2>1. PICK left \in Stale : Handles(left)
      BY <1>1, ReadBodyHandles, Zenon
    <2>2. GoodReply(Handle(Pending, left), Pending)
      BY <2>1, HandleReply, Zenon DEF Handles
    <2>3. Handle(Pending, left).to = "write"
      BY <2>1 DEF Handles
    <2>4. Pending' = Pending
      BY <2>1, Zenon DEF Handles, Pending
    <2>5. ReplyTrue(reply', Pending, bank')
      BY <2>1, <2>2, <2>3, Zenon DEF Handles, GoodReply
    <2> QED
      BY <2>4, <2>5, Zenon
  <1>2. CASE ~ReadBody
    <2>1. hpc = "write" /\ UNCHANGED <<bank, reply, conn, out>>
      BY <1>2, StillWriting, Zenon
    <2>2. Pending' = Pending
      BY <2>1, PendingStays, Zenon
    <2>3. ReplyTrue(reply, Pending, bank)
      BY <2>1 DEF TruthInv
    <2> QED
      BY <2>1, <2>2, <2>3, Zenon
  <1> QED
    BY <1>1, <1>2, Zenon

\* What is true of a bank is what the client holds it to have.
LEMMA TrueHolds ==
  ASSUME NEW t, t \in RegTables \/ t \in BitTables, NEW addr, NEW qty, NEW data,
         SameValues(bank, t, addr, qty, data)
  PROVE  Holds(t, addr, qty, data)
  <1> SUFFICES ASSUME NEW k \in 0 .. qty - 1 PROVE bank[<<t, addr + k>>] = ValueIn(t, data, k)
    BY Zenon DEF Holds
  <1>1. /\ t \in RegTables => Uint16At(data, 2 * k + 1) = bank[<<t, addr + k>>]
        /\ t \in BitTables => (data[1 + k \div 8] \div 2^(k % 8)) % 2 = bank[<<t, addr + k>>]
    BY Zenon DEF SameValues
  <1> QED
    BY <1>1, Zenon DEF ValueIn

LEMMA TruthIsTold ==
  ASSUME TruthInv, hpc = "write" => OnOrOff(Pending) PROVE AnswerTellsTruth
  <1> DEFINE pdu  == SubSeq(reply, mbapSize + 1, Len(reply))
             p    == Pending
             fc   == p[1]
             addr == Uint16At(p, 2)
             qty  == Uint16At(p, 4)
  <1> SUFFICES ASSUME hpc = "write", pdu[1] < 128
               PROVE  /\ decodeMBAP(reply).length = Len(pdu) + 1
                      /\ fc \in ReadFCs =>
                           LET got == ReceiveDataResponse(pdu)
                           IN got.err = "nil" /\ Holds(TableOf(fc), addr, qty, got.data)
                      /\ fc \in WriteSingleFCs => Confirms(pdu, fc, addr, qty)
                      /\ fc \in WriteMultipleFCs => Holds(TableOf(fc), addr, qty, SubSeq(p, 7, Len(p)))
    BY Zenon DEF AnswerTellsTruth
  <1>1. Len(p) >= 5 /\ decodeMBAP(reply).length = Len(pdu) + 1 /\ Truthful(p, pdu, bank)
    BY Zenon DEF TruthInv, ReplyTrue
  <1>2. \A c \in KnownFCs : TableOf(c) \in RegTables \/ TableOf(c) \in BitTables
    BY Tables DEF KnownFCs, ReadFCs, WriteSingleFCs, WriteMultipleFCs
  <1> HIDE DEF pdu, p
  <1>3. ASSUME fc \in ReadFCs
        PROVE  /\ ReceiveDataResponse(pdu).err = "nil"
               /\ Holds(TableOf(fc), addr, qty, ReceiveDataResponse(pdu).data)
    <2>1. /\ ReceiveDataResponse(pdu).err = "nil"
          /\ SameValues(bank, TableOf(fc), addr, qty, ReceiveDataResponse(pdu).data)
      BY <1>1, <1>3, Zenon DEF Truthful
    <2>2. TableOf(fc) \in RegTables \/ TableOf(fc) \in BitTables
      BY <1>2, <1>3, Zenon DEF KnownFCs
    <2> QED
      BY <2>1, <2>2, TrueHolds, Zenon
  <1>4. ASSUME fc \in WriteSingleFCs PROVE Confirms(pdu, fc, addr, qty)
    <2>1. Acknowledges(p, pdu, bank)
      BY <1>1, <1>4, Zenon DEF Truthful
    <2>2. fc = FCWriteSingleCoil => qty \in {0, 65280}
      BY <1>1, SMT DEF OnOrOff, p
    <2> QED
      BY <2>1, <2>2, SMT DEF Acknowledges, Confirms
  <1>5. ASSUME fc \in WriteMultipleFCs PROVE Holds(TableOf(fc), addr, qty, SubSeq(p, 7, Len(p)))
    <2>1. SameValues(bank, TableOf(fc), addr, qty, SubSeq(p, 7, Len(p)))
      BY <1>1, <1>5, Zenon DEF Truthful
    <2>2. TableOf(fc) \in RegTables \/ TableOf(fc) \in BitTables
      BY <1>2, <1>5, Zenon DEF KnownFCs
    <2> QED
      BY <2>1, <2>2, TrueHolds, Zenon
  <1> QED
    BY <1>1, <1>3, <1>4, <1>5, Zenon DEF pdu, p

\* The frames are made of bytes.
LEMMA SentInBytes ==
  ASSUME WellFramed, NEW c \in Conns, NEW n \in 1 .. Len(Frames[c]), NEW f \in Frames[c][n]
  PROVE  f.pdu \in Seq(Byte)
  <1>1. Frames[c] \in Seq(SUBSET Requests)
    BY FrameCount, SMT
  <1>2. f \in Requests
    <2> HIDE DEF Requests
    <2>1. Frames[c][n] \in SUBSET Requests
      BY <1>1
    <2> QED
      BY <2>1
  <1> QED
    BY <1>2 DEF Requests

LEMMA InitAsked == ASSUME Init, NEW S PROVE AskedIn(S)
  <1> SUFFICES ASSUME NEW c \in Conns PROVE \A n \in 1 .. Len(asked[c]) : asked[c][n].pdu \in S
    BY Zenon DEF AskedIn
  <1>1. asked[c] = <<>>
    BY Zenon DEF Init
  <1>2. 1 .. Len(<<>>) = {}
    OBVIOUS
  <1> QED
    BY <1>1, <1>2, Zenon

--------------------------------------------------------------------------------
(***************************************************************************)
(* Panics.                                                                 *)
(***************************************************************************)
LEMMA PanicsHandling ==
  ASSUME [Next]_vars, hpc' = "panic", ~ReadBody PROVE hpc = "panic"
  <1> USE DEF handle, net, accept
  <1>1. ASSUME NEW c \in Conns, Client(c) PROVE hpc' = hpc
    BY <1>1 DEF Client, Dial, Send, HangUp
  <1>2. ASSUME NEW a \in Acceptors, Accept(a) PROVE hpc' = hpc
    <2>1. CASE AcceptCheck(a) \/ ListenTCP(a) \/ AcceptTimeout(a) \/ Store(a)
      BY <2>1 DEF AcceptCheck, ListenTCP, AcceptTimeout, Store
    <2>2. ASSUME NEW c \in Conns, AcceptTCP(a, c) PROVE hpc' = hpc
      BY <2>2 DEF AcceptTCP
    <2> QED
      BY <1>2, <2>1, <2>2, Zenon DEF Accept
  <1>3. ~Handler
    <2>1. ~HandleNext /\ ~CallReadFull
      BY DEF HandleNext, CallReadFull
    <2>2. ~ReadHeader
      BY DEF ReadHeader
    <2>3. ~HeaderFails /\ ~BodyFails /\ ~Write /\ ~WriteFails
      BY DEF HeaderFails, BodyFails, Write, WriteFails
    <2> QED
      BY <2>1, <2>2, <2>3, Zenon DEF Handler
  <1>4. CASE UNCHANGED vars
    BY <1>4 DEF vars
  <1> QED
    BY <1>1, <1>2, <1>3, <1>4 DEF Next

Servable == {p \in Seq(Byte) : Serves(p)}

LEMMA PanicStays ==
  ASSUME IInv, OrderInv, AskedIn(Servable), NoPanic, [Next]_vars PROVE NoPanic'
  <1> SUFFICES ASSUME hpc' = "panic" PROVE FALSE
    BY DEF NoPanic
  <1>1. ReadBody
    BY PanicsHandling DEF NoPanic
  <1>2. PICK left \in Stale : Handles(left)
    BY <1>1, ReadBodyHandles, Zenon
  <1>3. Pending \in Servable
    BY <1>2, Zenon DEF Handles, AskedIn, Pending
  <1>4. Pending \in Seq(Byte) /\ Serves(Pending)
    BY <1>3, Zenon DEF Servable
  <1>5. Handle(Pending, left).to # "panic"
    BY <1>4, HandleNoPanic, Zenon
  <1> QED
    BY <1>2, <1>5 DEF Handles

--------------------------------------------------------------------------------
(***************************************************************************)
(* Types.                                                                  *)
(***************************************************************************)
Control ==
  /\ closeErr \in {"not yet connected", "nil", "closed"}
  /\ conn \in Conns \cup {NoConn} /\ reading \in Conns \cup {NoConn}
  /\ port \in Acceptors \cup {"server", "free"}
  /\ hpc \in {"out", "enter", "header", "body", "write", "panic"}

Contents ==
  /\ lastMBAP \in MBAP /\ reply \in Seq(Byte)
  /\ in \in [Conns -> Seq(Byte)] /\ out \in [Conns -> Seq(Seq(Byte))]
  /\ asked \in [Conns -> Seq(Requests)]

LEMMA ControlStays ==
  ASSUME IInv, Control, [Next]_vars PROVE Control'
  <1> USE DEF handle, net, accept, Control
  <1>1. ASSUME NEW c \in Conns, Client(c) PROVE Control'
    <2>1. CASE Dial(c)
      BY <2>1 DEF Dial
    <2>2. CASE Send(c)
      BY <2>2 DEF Send
    <2>3. CASE HangUp(c)
      BY <2>3 DEF HangUp
    <2> QED
      BY <1>1, <2>1, <2>2, <2>3, Zenon DEF Client
  <1>2. ASSUME NEW a \in Acceptors, Accept(a) PROVE Control'
    <2>1. CASE AcceptCheck(a)
      BY <2>1 DEF AcceptCheck
    <2>2. CASE ListenTCP(a)
      BY <2>2 DEF ListenTCP
    <2>3. CASE AcceptTimeout(a)
      BY <2>3 DEF AcceptTimeout, CloseListener
    <2>4. CASE Store(a)
      <3>1. accepted[a] \in Conns
        BY <2>4, StoreFacts
      <3> QED
        BY <2>4, <3>1 DEF Store
    <2>5. ASSUME NEW c \in Conns, AcceptTCP(a, c) PROVE Control'
      BY <2>5 DEF AcceptTCP
    <2> QED
      BY <1>2, <2>1, <2>2, <2>3, <2>4, <2>5, Zenon DEF Accept
  <1>3. CASE Handler
    <2>a. StayConnected => UNCHANGED <<closeErr, port>>
      BY DEF StayConnected
    <2>b. CloseConn => closeErr' = "closed" /\ port' = "free"
      BY DEF CloseConn, CloseListener
    <2>1. CASE HandleNext \/ CallReadFull
      BY <2>1 DEF HandleNext, CallReadFull
    <2>2. CASE ReadHeader
      BY <2>2, <2>a, <2>b DEF ReadHeader
    <2>3. CASE HeaderFails
      BY <2>3, <2>a, <2>b DEF HeaderFails
    <2>4. CASE ReadBody
      <3>1. PICK left : \/ hpc' = "out" /\ CloseConn
                        \/ hpc' = Handle(SubSeq(in[reading], 1, remaining(lastMBAP)), left).to /\ StayConnected
        BY <2>4, Zenon DEF ReadBody
      <3>2. Handle(SubSeq(in[reading], 1, remaining(lastMBAP)), left).to \in {"write", "close", "panic"}
        BY HandleGoes, Zenon
      <3>3. hpc' # "close"
        BY <2>4 DEF ReadBody
      <3>4. UNCHANGED <<conn, reading>>
        BY <2>4 DEF ReadBody
      <3> QED
        BY <2>a, <2>b, <3>1, <3>2, <3>3, <3>4
    <2>5. CASE BodyFails
      BY <2>5, <2>b DEF BodyFails
    <2>6. CASE Write
      BY <2>6, <2>a DEF Write
    <2>7. CASE WriteFails
      BY <2>7, <2>b DEF WriteFails
    <2> QED
      BY <1>3, <2>1, <2>2, <2>3, <2>4, <2>5, <2>6, <2>7, Zenon DEF Handler
  <1>4. CASE UNCHANGED vars
    BY <1>4 DEF vars
  <1> QED
    BY <1>1, <1>2, <1>3, <1>4 DEF Next

LEMMA LeavesBytes ==
  ASSUME NEW s \in Seq(Byte), NEW n \in Nat
  PROVE  SubSeq(s, n + 1, Len(s)) \in Seq(Byte) /\ (n <= Len(s) => SubSeq(s, 1, n) \in Seq(Byte))
OBVIOUS

LEMMA UnreadBytes ==
  ASSUME in \in [Conns -> Seq(Byte)], reading \in Conns, NEW n \in Nat, Unread(n)
  PROVE  in' \in [Conns -> Seq(Byte)]
  <1>1. in[reading] \in Seq(Byte)
    OBVIOUS
  <1>2. SubSeq(in[reading], n + 1, Len(in[reading])) \in Seq(Byte)
    BY <1>1, LeavesBytes
  <1>3. in' = [in EXCEPT ![reading] = SubSeq(in[reading], n + 1, Len(in[reading]))]
    BY DEF Unread
  <1> QED
    BY <1>2, <1>3, Zenon

LEMMA HeaderDecoded ==
  ASSUME NEW s \in Seq(Byte), Len(s) >= 7 PROVE decodeMBAP(s) \in MBAP
  <1>1. Uint16At(s, 1) \in Nat /\ Uint16At(s, 3) \in Nat /\ Uint16At(s, 5) \in Nat
    <2>1. 1 + 1 <= Len(s) /\ 3 + 1 <= Len(s) /\ 5 + 1 <= Len(s)
      OBVIOUS
    <2>2. Uint16At(s, 1) \in Uint16 /\ Uint16At(s, 3) \in Uint16 /\ Uint16At(s, 5) \in Uint16
      BY <2>1, NumberAt
    <2> QED
      BY <2>2, Wraps, SMT
  <1>2. s[7] \in Byte
    OBVIOUS
  <1> QED
    BY <1>1, <1>2 DEF decodeMBAP, MBAP

LEMMA ClientContents ==
  ASSUME WellFramed, OrderInv, Contents, NEW c \in Conns, Client(c) PROVE Contents'
  <1> USE DEF handle
  <1>1. CASE Dial(c)
    BY <1>1 DEF Dial, Contents
  <1>2. CASE Send(c)
    <2>1. PICK g : Sent(c, g)
      BY <1>2, SendSends
    <2>2. asked[c] \in Seq(Requests) /\ g \in Requests /\ g.mbap \in Header
      BY <2>1, Zenon DEF Sent
    <2>3. g.pdu \in Seq(Byte) /\ PutMBAP(g.mbap) \in Seq(Byte) /\ in[c] \in Seq(Byte)
      <3>1. g.pdu \in Seq(Byte)
        BY <2>2 DEF Requests
      <3>2. PutMBAP(g.mbap) \in Seq(Byte)
        BY <2>2, HeaderInBytes, Zenon
      <3> QED
        BY <3>1, <3>2, Zenon DEF Contents
    <2> DEFINE s == in[c] \o PutMBAP(g.mbap) \o g.pdu
    <2>4. s \in Seq(Byte)
      BY <2>3
    <2>5. Append(asked[c], g) \in Seq(Requests)
      BY <2>2, OneMore, Zenon
    <2> HIDE DEF s
    <2>6. in' \in [Conns -> Seq(Byte)]
      BY <2>1, <2>4, Zenon DEF Sent, Contents, s
    <2>7. asked' \in [Conns -> Seq(Requests)]
      BY <2>1, <2>5, Zenon DEF Sent, Contents
    <2>8. UNCHANGED <<lastMBAP, reply, out>>
      BY <1>2 DEF Send
    <2> QED
      BY <2>6, <2>7, <2>8, Zenon DEF Contents
  <1>3. CASE HangUp(c)
    <2>1. PICK k \in Cuts \cup {Len(in[c])} : k <= Len(in[c]) /\ in' = [in EXCEPT ![c] = SubSeq(in[c], 1, k)]
      BY <1>3 DEF HangUp
    <2>2. in[c] \in Seq(Byte)
      BY DEF Contents
    <2>3. k \in Nat
      BY <2>1, <2>2, TcpAssumption
    <2>4. SubSeq(in[c], 1, k) \in Seq(Byte)
      BY <2>1, <2>2, <2>3, LeavesBytes
    <2>5. in' \in [Conns -> Seq(Byte)]
      BY <2>1, <2>4, Zenon DEF Contents
    <2>6. UNCHANGED <<lastMBAP, reply, out, asked>>
      BY <1>3 DEF HangUp
    <2> QED
      BY <2>5, <2>6, Zenon DEF Contents
  <1> QED
    BY <1>1, <1>2, <1>3, Zenon DEF Client

LEMMA HandlerContents ==
  ASSUME IInv, OrderInv, bank \in BankOf(Uint16), Contents, Handler PROVE Contents'
  <1> USE DEF net
  <1>1. CASE HandleNext
    BY <1>1 DEF HandleNext, Contents
  <1>2. CASE CallReadFull
    BY <1>2 DEF CallReadFull, Contents
  <1>3. ASSUME hpc \in {"header", "body"} PROVE reading \in Conns /\ in[reading] \in Seq(Byte)
    <2>1. reading \in Conns
      BY <1>3, Inside
    <2> QED
      BY <2>1, Zenon DEF Contents
  <1>4. \A m \in MBAP : remaining(m) \in Nat
    BY SMT DEF MBAP, remaining, U16
  <1>5. CASE ReadHeader
    <2>1. hpc = "header" /\ Len(in[reading]) >= 7 /\ Unread(mbapSize) /\ UNCHANGED <<reply, asked, out>>
      BY <1>5 DEF ReadHeader, mbapSize
    <2>2. reading \in Conns /\ in[reading] \in Seq(Byte)
      BY <1>3, <2>1
    <2>3. decodeMBAP(in[reading]) \in MBAP
      BY <2>1, <2>2, HeaderDecoded
    <2>4. lastMBAP' \in MBAP
      BY <1>5, <2>3, Zenon DEF ReadHeader, Contents
    <2>5. in' \in [Conns -> Seq(Byte)]
      <3>1. mbapSize \in Nat
        BY DEF mbapSize
      <3> QED
        BY <2>1, <2>2, <3>1, UnreadBytes, Zenon DEF Contents
    <2> QED
      BY <2>1, <2>4, <2>5, Zenon DEF Contents
  <1>6. CASE HeaderFails \/ BodyFails
    <2>1. hpc \in {"header", "body"} /\ Unread(Len(in[reading])) /\ UNCHANGED <<lastMBAP, reply, asked, out>>
      BY <1>6 DEF HeaderFails, BodyFails
    <2>2. reading \in Conns /\ in[reading] \in Seq(Byte)
      BY <1>3, <2>1
    <2>3. Len(in[reading]) \in Nat
      BY <2>2
    <2>4. in' \in [Conns -> Seq(Byte)]
      BY <2>1, <2>2, <2>3, UnreadBytes, Zenon DEF Contents
    <2> QED
      BY <2>1, <2>4, Zenon DEF Contents
  <1>7. CASE ReadBody
    <2>1. hpc = "body" /\ Unread(remaining(lastMBAP)) /\ UNCHANGED <<lastMBAP, asked, out>>
      BY <1>7 DEF ReadBody
    <2>2. reading \in Conns /\ in[reading] \in Seq(Byte)
      BY <1>3, <2>1
    <2>3. in' \in [Conns -> Seq(Byte)]
      <3>1. remaining(lastMBAP) \in Nat
        BY <1>4, Zenon DEF Contents
      <3> QED
        BY <2>1, <2>2, <3>1, UnreadBytes, Zenon DEF Contents
    <2>4. PICK left \in Stale : Handles(left)
      BY <1>7, ReadBodyHandles, Zenon
    <2>5. GoodReply(Handle(Pending, left), Pending)
      BY <2>4, HandleReply, Zenon DEF Handles
    <2>6. reply' \in Seq(Byte)
      BY <2>4, <2>5, Zenon DEF Handles, GoodReply
    <2> QED
      BY <2>1, <2>3, <2>6, Zenon DEF Contents
  <1>8. CASE Write
    <2>1. /\ conn \in Conns /\ reply' = <<>> /\ UNCHANGED <<lastMBAP, in, asked>>
          /\ out' = [out EXCEPT ![conn] = Append(out[conn], reply)]
      BY <1>8, Inside DEF Write
    <2>2. out[conn] \in Seq(Seq(Byte)) /\ reply \in Seq(Byte)
      BY <2>1, Zenon DEF Contents
    <2>3. Append(out[conn], reply) \in Seq(Seq(Byte)) /\ <<>> \in Seq(Byte)
      BY <2>2
    <2> QED
      BY <2>1, <2>3, Zenon DEF Contents
  <1>9. CASE WriteFails
    <2>1. reply' = <<>> /\ UNCHANGED <<lastMBAP, in, asked, out>>
      BY <1>9 DEF WriteFails
    <2>2. <<>> \in Seq(Byte)
      OBVIOUS
    <2> QED
      BY <2>1, <2>2, Zenon DEF Contents
  <1> QED
    BY <1>1, <1>2, <1>5, <1>6, <1>7, <1>8, <1>9, Zenon DEF Handler

LEMMA ContentsStay ==
  ASSUME WellFramed, IInv, OrderInv, bank \in BankOf(Uint16), Contents, [Next]_vars PROVE Contents'
  <1>1. ASSUME NEW a \in Acceptors, Accept(a) PROVE Contents'
    <2> USE DEF handle, net
    <2>1. UNCHANGED <<lastMBAP, reply, in, out, asked>>
      <3>1. CASE AcceptCheck(a) \/ ListenTCP(a) \/ AcceptTimeout(a) \/ Store(a)
        BY <3>1 DEF AcceptCheck, ListenTCP, AcceptTimeout, Store
      <3>2. ASSUME NEW c \in Conns, AcceptTCP(a, c) PROVE UNCHANGED <<lastMBAP, reply, in, out, asked>>
        BY <3>2 DEF AcceptTCP
      <3> QED
        BY <1>1, <3>1, <3>2, Zenon DEF Accept
    <2> QED
      BY <2>1, Zenon DEF Contents
  <1>2. CASE UNCHANGED vars
    BY <1>2 DEF vars, handle, net, Contents
  <1> QED
    BY <1>1, <1>2, ClientContents, HandlerContents DEF Next

LEMMA InitTypes == ASSUME Init PROVE Control /\ Contents
  <1>1. Control
    BY Zenon DEF Init, Control
  <1>2. lastMBAP \in MBAP
    <2>1. 0 \in Byte
      BY ByteRange
    <2> QED
      BY <2>1 DEF Init, MBAP
  <1>3. <<>> \in Seq(Byte) /\ <<>> \in Seq(Seq(Byte)) /\ <<>> \in Seq(Requests)
    <2> HIDE DEF Requests
    <2> QED
      OBVIOUS
  <1>4. in \in [Conns -> Seq(Byte)] /\ out \in [Conns -> Seq(Seq(Byte))] /\ asked \in [Conns -> Seq(Requests)]
    BY <1>3, Zenon DEF Init
  <1> QED
    BY <1>1, <1>2, <1>3, <1>4, Zenon DEF Init, Contents

--------------------------------------------------------------------------------
(***************************************************************************)
(* Theorems.                                                               *)
(***************************************************************************)
LEMMA TcpOrdered == ASSUME WellFramed PROVE Spec => []OrderInv
  <1>1. Init => OrderInv
    BY InitOrder
  <1>2. IInv /\ OrderInv /\ [Next]_vars => OrderInv'
    BY NextOrder
  <1> QED
    BY <1>1, <1>2, TcpInvariance, PTL DEF Spec

\* The data model holds numbers of 16 bits, and bits in its tables of bits.
LEMMA TcpNumbers == ASSUME WellFramed PROVE Spec => [](bank \in BankOf(Uint16))
  <1>1. Init => bank \in BankOf(Uint16)
    BY TcpAssumption, InitBank
  <1>2. IInv /\ OrderInv /\ bank \in BankOf(Uint16) /\ [Next]_vars => (bank \in BankOf(Uint16))'
    BY NumbersStay
  <1> QED
    BY <1>1, <1>2, TcpInvariance, TcpOrdered, PTL DEF Spec

\* As long as clients write values that registers may have, every part of the
\* server's state keeps its type: what HandleNext reads, holds, writes and
\* stores stay bytes and values of the data model, and Accept never stores
\* anything but a connection.
THEOREM TcpTypeCorrect ==
  ASSUME WellFramed, AllSend(WritesWords) PROVE Spec => []TypeOK
  <1> DEFINE Inv == AskedIn(Storing(Word)) /\ bank \in BankOf(Word) /\ Control /\ Contents
  <1>1. FramesIn(Storing(Word))
    <2> SUFFICES ASSUME NEW c \in Conns, NEW n \in 1 .. Len(Frames[c]), NEW f \in Frames[c][n]
                 PROVE  f.pdu \in Storing(Word)
      BY Zenon DEF FramesIn
    <2>1. f.pdu \in Seq(Byte)
      BY SentInBytes, Zenon
    <2>2. WritesWords(f.pdu)
      BY Zenon DEF AllSend
    <2>3. StoresIn(f.pdu, Word)
      BY <2>2, Zenon DEF WritesWords, StoresIn
    <2> QED
      BY <2>1, <2>3, Zenon DEF Storing
  <1>2. Init => Inv
    BY InitAsked, InitBank, InitTypes
  <1>3. IInv /\ OrderInv /\ bank \in BankOf(Uint16) /\ Inv /\ [Next]_vars => Inv'
    <2> SUFFICES ASSUME IInv, OrderInv, bank \in BankOf(Uint16), Inv, [Next]_vars PROVE Inv'
      OBVIOUS
    <2>1. AskedIn(Storing(Word))'
      BY <1>1, AskedKept, Zenon
    <2>2. (bank \in BankOf(Word))'
      BY WordAssumption, BankStays, Zenon
    <2>3. Control' /\ Contents'
      BY ControlStays, ContentsStay, ZenonT(40)
    <2> QED
      BY <2>1, <2>2, <2>3
  <1>4. IInv /\ Inv => TypeOK
    <2> SUFFICES ASSUME IInv, Inv PROVE TypeOK
      OBVIOUS
    <2>1. bank \in [Cell -> Word]
      BY Zenon DEF BankOf
    <2> QED
      BY <2>1, Zenon DEF TypeOK, IInv, Types, PeerState, Control, Contents, Requests
  <1> QED
    BY <1>2, <1>3, <1>4, TcpInvariance, TcpOrdered, TcpNumbers, PTL DEF Spec

\* On requests that the slices and loops of PutResponse are up to, HandleNext
\* does not panic, however the calls of Accept and the clients' hanging up
\* fall between its reads: it never hands PutResponse bytes that are not those
\* of one such request.
THEOREM TcpNeverPanics ==
  ASSUME WellFramed, AllSend(Manageable) PROVE Spec => []NoPanic
  <1>1. FramesIn(Servable)
    <2> SUFFICES ASSUME NEW c \in Conns, NEW n \in 1 .. Len(Frames[c]), NEW f \in Frames[c][n]
                 PROVE  f.pdu \in Servable
      BY Zenon DEF FramesIn
    <2>1. f.pdu \in Seq(Byte)
      BY SentInBytes, Zenon
    <2>2. Manageable(f.pdu)
      BY Zenon DEF AllSend
    <2>3. Serves(f.pdu)
      BY <2>2, SMT DEF Manageable, Serves
    <2> QED
      BY <2>1, <2>3, Zenon DEF Servable
  <1>2. Init => AskedIn(Servable) /\ NoPanic
    <2>1. Init => NoPanic
      BY DEF Init, NoPanic
    <2> QED
      BY <2>1, InitAsked
  <1>3. IInv /\ OrderInv /\ AskedIn(Servable) /\ NoPanic /\ [Next]_vars => AskedIn(Servable)' /\ NoPanic'
    BY <1>1, AskedKept, PanicStays
  <1> QED
    BY <1>2, <1>3, TcpInvariance, TcpOrdered, PTL DEF Spec

\* An answer other than an exception tells its client the truth, for any data
\* model and requests: the values it reads are those that the data model holds,
\* what it wrote is there, and Length is the answer's.  A single coil must be
\* written ON or OFF, since any other value is echoed and stored as OFF.
THEOREM TcpAnswersTrue ==
  ASSUME WellFramed, AllSend(OnOrOff) PROVE Spec => []AnswerTellsTruth
  <1> DEFINE S == {p \in Seq(Byte) : OnOrOff(p)}
             Inv == AskedIn(S) /\ TruthInv
  <1>1. FramesIn(S)
    <2> SUFFICES ASSUME NEW c \in Conns, NEW n \in 1 .. Len(Frames[c]), NEW f \in Frames[c][n]
                 PROVE  f.pdu \in S
      BY Zenon DEF FramesIn
    <2>1. f.pdu \in Seq(Byte)
      BY SentInBytes, Zenon
    <2>2. OnOrOff(f.pdu)
      BY Zenon DEF AllSend
    <2> QED
      BY <2>1, <2>2, Zenon
  <1>2. \A p \in S : OnOrOff(p)
    BY Zenon
  <1> HIDE DEF S
  <1>3. Init => Inv
    <2>1. Init => TruthInv
      BY DEF Init, TruthInv
    <2> QED
      BY <2>1, InitAsked
  <1>4. IInv /\ OrderInv /\ bank \in BankOf(Uint16) /\ Inv /\ [Next]_vars => Inv'
    BY <1>1, AskedKept, TruthStays
  <1>5. IInv /\ OrderInv /\ Inv => AnswerTellsTruth
    <2> SUFFICES ASSUME IInv, OrderInv, Inv PROVE AnswerTellsTruth
      OBVIOUS
    <2>1. ASSUME hpc = "write" PROVE OnOrOff(Pending)
      <3>1. /\ conn \in Conns /\ Len(out[conn]) \in Nat /\ Len(asked[conn]) \in Nat
            /\ Done(conn) <= Len(asked[conn])
        BY <2>1, Served
      <3>2. Len(out[conn]) + 1 \in 1 .. Len(asked[conn])
        BY <2>1, <3>1 DEF Done
      <3>3. Pending \in S
        BY <3>1, <3>2, Zenon DEF AskedIn, Pending
      <3> QED
        BY <1>2, <3>3, Zenon
    <2> QED
      BY <2>1, TruthIsTold
  <1> QED
    BY <1>3, <1>4, <1>5, TcpInvariance, TcpOrdered, TcpNumbers, PTL DEF Spec
================================================================================
