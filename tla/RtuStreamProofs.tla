----------------------------- MODULE RtuStreamProofs -----------------------------
(***************************************************************************)
(* The receive path of RTU.  A client's, on any line whatever: whichever   *)
(* bytes arrive, and however the port cuts them up, TryRx asks for at      *)
(* least one byte, at most for what fits, and never for one of the next    *)
(* packet.                                                                 *)
(*                                                                         *)
(* Then framing: TryRx returns the packets that were sent, in order, each  *)
(* once and whole.  For a client, however the port cuts up the answers;    *)
(* for a server, if requests come in whole.  The bytes that were sent and  *)
(* not yet returned, buffered or still on the line, are the packets that   *)
(* were not yet returned, end to end.  Where each of them starts is a      *)
(* witness of the invariant: no variable of the code knows it.             *)
(***************************************************************************)
EXTENDS RtuStream, SequenceTheorems, TLAPS

\* What a client assumes: answers are parsed as answers, and port.Read
\* returns no bytes together with an error.
ClientPort == IsResponse /\ ~ErrWithData

\* Bytes that TryRx can go on from: too few to infer a length, refused, or
\* a proper prefix of a packet of at most 261 bytes.
Incomplete(b) ==
  \/ Len(b) < 2
  \/ Infer(b).err = "badfc"
  \/ /\ Infer(b).err \in {"nil", "missing"}
     /\ Missing(b) >= 1 /\ Len(b) + Missing(b) <= 261

\* Between two calls, and inside one, dataStart is 0 while bytes are
\* buffered: a packet is consumed as a whole.
StartInv ==
  /\ buf # <<>> => dataStart = 0
  /\ pc \in {"head", "body"} => dataStart = 0

\* What port.Read was asked for.
NeedInv ==
  /\ pc = "head" => Len(buf) < 2 /\ need = 2 - Len(buf)
  /\ pc = "body" => /\ Len(buf) >= 2 /\ need = Missing(buf)
                    /\ Infer(buf).err \in {"nil", "missing"}

IInv ==
  /\ TypeOK /\ StartInv /\ NeedInv
  /\ Incomplete(buf)
  /\ pc # "panic" /\ ret.err # "overflow"
  /\ NothingBehind

--------------------------------------------------------------------------------
\* A byte is a number below 256.
LEMMA ByteFacts ==
  ASSUME NEW x \in Byte
  PROVE  x \in Nat /\ x <= 255
BY DEF Byte

\* The bytes after the first, a tail is the rest of a sequence of them.
LEMMA TailFacts ==
  ASSUME NEW b \in Seq(Byte), Len(b) >= 2
  PROVE  /\ Tail(b) \in Seq(Byte) /\ Len(Tail(b)) = Len(b) - 1 /\ Len(Tail(b)) >= 1
         /\ Tail(b)[1] = b[2]
         /\ Len(b) >= 3 => Tail(b)[2] = b[3]
<1>1. b # <<>> /\ Len(b) \in Nat
  BY EmptySeq, LenProperties
<1>2. /\ Tail(b) \in Seq(Byte) /\ Len(Tail(b)) = Len(b) - 1
      /\ \A i \in 1 .. Len(Tail(b)) : Tail(b)[i] = b[i + 1]
  BY <1>1, HeadTailProperties
<1> QED
  BY <1>1, <1>2

\* The shape of an inferred response length.
LEMMA ResponseLength ==
  ASSUME NEW b \in Seq(Byte), Len(b) >= 1
  PROVE  /\ InferResponsePacketLength(b).n \in Nat
         /\ InferResponsePacketLength(b).err \in {"nil", "missing", "badfc"}
         /\ InferResponsePacketLength(b).err = "missing" =>
              Len(b) <= 1 /\ InferResponsePacketLength(b).n = 1
         /\ InferResponsePacketLength(b).err = "nil" =>
              InferResponsePacketLength(b).n >= 2 /\ InferResponsePacketLength(b).n <= 258
<1> DEFINE r == InferResponsePacketLength(b)
           P(x) == /\ x.n \in Nat /\ x.err \in {"nil", "missing", "badfc"}
                   /\ x.err = "missing" => Len(b) <= 1 /\ x.n = 1
                   /\ x.err = "nil" => x.n >= 2 /\ x.n <= 258
<1>1. Len(b) \in Nat /\ b[1] \in Nat /\ (Len(b) >= 2 => b[2] \in Nat /\ b[2] <= 255)
  <2>1. Len(b) \in Nat
    BY LenProperties
  <2>2. b[1] \in Byte /\ (Len(b) >= 2 => b[2] \in Byte)
    BY <2>1, ElementOfSeq
  <2> QED
    BY <2>1, <2>2, ByteFacts
<1>2. P(Inferred(2, "nil")) /\ P(Inferred(5, "nil")) /\ P(Inferred(0, "badfc"))
  BY DEF Inferred
<1>3. P(Counted(b, 2)) /\ P(Counted(b, 3))
  <2>1. CASE Len(b) < 2
    <3>1. 2 - Len(b) = 1 /\ Len(b) <= 1
      <4> DEFINE n == Len(b)
      <4>1. n \in Nat /\ n >= 1 /\ n < 2
        BY <1>1, <2>1
      <4> HIDE DEF n
      <4>2. 2 - n = 1 /\ n <= 1
        BY <4>1
      <4> QED
        BY <4>2 DEF n
    <3>2. Counted(b, 2) = [n |-> 1, err |-> "missing"] /\ Counted(b, 3) = [n |-> 1, err |-> "missing"]
      BY <2>1, <3>1 DEF Counted, Inferred
    <3> QED
      BY <3>1, <3>2
  <2>2. CASE ~(Len(b) < 2)
    <3>1. Counted(b, 2) = [n |-> 2 + b[2], err |-> "nil"] /\ Counted(b, 3) = [n |-> 3 + b[2], err |-> "nil"]
      BY <2>2 DEF Counted, Inferred
    <3>2. b[2] \in Nat /\ b[2] <= 255
      BY <1>1, <2>2
    <3> QED
      BY <3>1, <3>2, SMTT(30)
  <2> QED
    BY <2>1, <2>2
<1>4. r \in {Inferred(2, "nil"), Inferred(5, "nil"), Inferred(0, "badfc"), Counted(b, 2), Counted(b, 3)}
  BY <1>1 DEF InferResponsePacketLength
<1>5. P(r)
  <2> HIDE DEF P, r
  <2> QED
    BY <1>2, <1>3, <1>4
<1> QED
  BY <1>5

\* More bytes do not change a length inferred from two.
LEMMA ResponseLengthStable ==
  ASSUME NEW b \in Seq(Byte), NEW c \in Seq(Byte), Len(b) >= 1, Len(b) <= Len(c),
         b[1] = c[1], Len(b) >= 2 => b[2] = c[2],
         InferResponsePacketLength(b).err # "missing"
  PROVE  InferResponsePacketLength(c) = InferResponsePacketLength(b)
BY DEF InferResponsePacketLength, Counted, Inferred, Byte

InferFactsFor(b) ==
  /\ Infer(b).n \in Nat /\ Missing(b) \in Int
  /\ Infer(b).err \in {"nil", "missing", "badfc"}
  /\ Infer(b).err = "missing" => Len(b) <= 2 /\ Infer(b).n = 1
  /\ Infer(b).err = "nil" => Infer(b).n >= 2 /\ Infer(b).n <= 258

\* All that the inference of a buffered packet depends on.
LEMMA InferFacts ==
  ASSUME ClientPort, NEW b \in Seq(Byte), Len(b) >= 2
  PROVE  InferFactsFor(b)
<1>1. Tail(b) \in Seq(Byte) /\ Len(Tail(b)) = Len(b) - 1 /\ Len(Tail(b)) >= 1
  BY TailFacts
<1>2. Infer(b) = InferResponsePacketLength(Tail(b))
  BY DEF ClientPort, Infer
<1>3. /\ Infer(b).n \in Nat /\ Infer(b).err \in {"nil", "missing", "badfc"}
      /\ Infer(b).err = "missing" => Len(Tail(b)) <= 1 /\ Infer(b).n = 1
      /\ Infer(b).err = "nil" => Infer(b).n >= 2 /\ Infer(b).n <= 258
  <2> DEFINE f == InferResponsePacketLength(Tail(b))
  <2>1. /\ f.n \in Nat /\ f.err \in {"nil", "missing", "badfc"}
        /\ f.err = "missing" => Len(Tail(b)) <= 1 /\ f.n = 1
        /\ f.err = "nil" => f.n >= 2 /\ f.n <= 258
    BY <1>1, ResponseLength, Zenon
  <2> QED
    BY <1>2, <2>1, Zenon
<1>4. Len(b) \in Nat
  BY LenProperties
<1> QED
  BY <1>1, <1>3, <1>4 DEF Missing, InferFactsFor

\* What is buffered once the first two bytes are there is incomplete.
LEMMA HeadIncomplete ==
  ASSUME ClientPort, NEW b \in Seq(Byte), Len(b) >= 2, Len(b) <= 2
  PROVE  Incomplete(b)
BY InferFacts DEF Incomplete, Missing, InferFactsFor

\* A packet stays incomplete when fewer bytes than are missing come in.
LEMMA StaysIncomplete ==
  ASSUME ClientPort, NEW b \in Seq(Byte), NEW x \in Seq(Byte), Len(b) >= 2,
         Infer(b).err \in {"nil", "missing"}, Incomplete(b),
         Len(x) < Missing(b) \/ (Infer(b).err = "missing" /\ Len(x) <= Missing(b))
  PROVE  Incomplete(b \o x)
<1> DEFINE c == b \o x
<1>1. c \in Seq(Byte) /\ Len(c) = Len(b) + Len(x) /\ Len(c) >= 2
      /\ Len(b) \in Nat /\ Len(x) \in Nat /\ c[1] = b[1] /\ c[2] = b[2]
      /\ (Len(b) >= 3 => c[3] = b[3])
  BY ConcatProperties, LenProperties
<1> HIDE DEF c
<1>2. InferFactsFor(b) /\ InferFactsFor(c)
  BY <1>1, InferFacts
<1>3. CASE Infer(b).err = "missing"
  <2>1. Len(c) <= 4
    BY <1>1, <1>2, <1>3 DEF Missing, InferFactsFor
  <2>2. Incomplete(c)
    <3> DEFINE n == Infer(c).n
               l == Len(c)
    <3>1. CASE Infer(c).err \in {"nil", "missing"}
      <4>1. n \in Nat /\ l \in Nat /\ l <= 4 /\ (n >= 2 \/ (n = 1 /\ l <= 2)) /\ n <= 258
        <5>1. n \in Nat /\ (n >= 2 \/ (n = 1 /\ l <= 2)) /\ n <= 258
          BY <1>2, <3>1 DEF InferFactsFor
        <5>2. l \in Nat /\ l <= 4
          BY <1>1, <2>1
        <5> QED
          BY <5>1, <5>2
      <4>2. Missing(c) = n + 3 - l
        BY DEF Missing
      <4> HIDE DEF n, l
      <4>3. Missing(c) >= 1 /\ l + Missing(c) <= 261
        BY <4>1, <4>2
      <4> QED
        BY <3>1, <4>3 DEF Incomplete, l
    <3> QED
      BY <1>2, <3>1 DEF Incomplete, InferFactsFor
  <2> QED
    BY <2>2 DEF c
<1>4. CASE Infer(b).err = "nil"
  <2>1. Tail(b) \in Seq(Byte) /\ Len(Tail(b)) = Len(b) - 1 /\ Len(Tail(b)) >= 1
        /\ Tail(b)[1] = b[2] /\ (Len(b) >= 3 => Tail(b)[2] = b[3])
    BY TailFacts
  <2>2. Tail(c) \in Seq(Byte) /\ Len(Tail(c)) = Len(c) - 1
        /\ Tail(c)[1] = c[2] /\ (Len(b) >= 3 => Tail(c)[2] = c[3])
    <3>1. Len(b) >= 3 => Len(c) >= 3
      BY <1>1
    <3> QED
      BY <1>1, <3>1, TailFacts, SMTT(30)
  <2>3. Infer(b) = InferResponsePacketLength(Tail(b)) /\ Infer(c) = InferResponsePacketLength(Tail(c))
    BY DEF ClientPort, Infer
  <2>4. Infer(c) = Infer(b)
    <3>1. InferResponsePacketLength(Tail(b)).err # "missing" /\ Len(Tail(b)) <= Len(Tail(c))
          /\ Tail(b)[1] = Tail(c)[1] /\ (Len(Tail(b)) >= 2 => Tail(b)[2] = Tail(c)[2])
      BY <1>1, <1>4, <2>1, <2>2, <2>3
    <3> QED
      BY <2>1, <2>2, <2>3, <3>1, ResponseLengthStable, Zenon
  <2>5. Missing(c) = Missing(b) - Len(x)
    BY <1>1, <1>2, <2>4, SMTT(30) DEF Missing, InferFactsFor
  <2>6. Missing(c) >= 1 /\ Len(c) + Missing(c) <= 261
    BY <1>1, <1>2, <1>4, <2>5, SMTT(30) DEF Incomplete, InferFactsFor
  <2>7. Incomplete(c)
    BY <1>4, <2>4, <2>6 DEF Incomplete
  <2> QED
    BY <2>7 DEF c
<1> QED
  BY <1>3, <1>4

--------------------------------------------------------------------------------
\* What CallRead leaves behind when the bytes b, at the front of rxbuf, are
\* incomplete and upTo bytes are asked for.
LEMMA CallReadStep ==
  ASSUME NEW b \in Seq(Byte), NEW upTo \in Int, NEW where \in {"head", "body"},
         upTo >= 1, Len(b) + upTo <= 261,
         CallRead(where, upTo, 0, b)
  PROVE  pc' = where /\ need' = upTo /\ ret' = ret
<1>1. Len(b) \in Nat
  BY LenProperties
<1>2. ~(upTo > BufLen - (0 + Len(b))) /\ ~(upTo <= 0)
  BY <1>1 DEF BufLen
<1> QED
  BY <1>2 DEF CallRead

\* InferThenRead, on incomplete bytes at the front of rxbuf.
LEMMA InferThenReadStep ==
  ASSUME ClientPort, TypeOK, NEW b \in Seq(Byte), Len(b) >= 2, Incomplete(b),
         InferThenRead(0, b)
  PROVE  /\ \/ pc' = "ready" /\ need' = 0 /\ ret' = Result("badfc", <<>>, 0)
            \/ /\ pc' = "body" /\ need' = Missing(b) /\ ret' = ret
               /\ Infer(b).err \in {"nil", "missing"}
         /\ closeErr' \in BOOLEAN /\ need' \in Int
<1>1. InferFactsFor(b)
  BY InferFacts
<1>2. CASE Infer(b).err = "badfc"
  BY <1>2 DEF InferThenRead, Return, TypeOK
<1>3. CASE Infer(b).err # "badfc"
  <2>1. Infer(b).err \in {"nil", "missing"} /\ Missing(b) \in Int
        /\ Missing(b) >= 1 /\ Len(b) + Missing(b) <= 261
    BY <1>1, <1>3 DEF Incomplete, InferFactsFor
  <2>2. CallRead("body", Missing(b), 0, b) /\ closeErr' = closeErr
    BY <1>3 DEF InferThenRead
  <2> QED
    BY <2>1, <2>2, CallReadStep DEF TypeOK
<1> QED
  BY <1>2, <1>3

\* Results with no PDU are well typed.
LEMMA ErrorResult ==
  ASSUME NEW e \in RxError
  PROVE  /\ Result(e, <<>>, 0) \in [err : RxError, pdu : Seq(Byte), addr : Byte]
         /\ Result(e, <<>>, 0).err = e /\ Result(e, <<>>, 0).pdu = <<>>
<1>1. 0 \in Byte /\ <<>> \in Seq(Byte)
  BY EmptySeq DEF Byte
<1> QED
  BY <1>1 DEF Result

\* resetRxBuf, as TryRx uses it, leaves incomplete bytes at the front.
LEMMA ResetStep ==
  ASSUME IInv, TryRx
  PROVE  /\ dataStart' = 0 /\ buf' \in Seq(Byte) /\ Incomplete(buf')
         /\ buf' = buf \/ buf' = <<>>
<1>1. Incomplete(<<>>) /\ <<>> \in Seq(Byte)
  BY EmptySeq DEF Incomplete
<1>2. CASE MustReset
  BY <1>1, <1>2 DEF TryRx, AfterReset, IInv, TypeOK
<1>3. CASE ~MustReset
  <2>1. buf # <<>>
    BY <1>3, EmptySeq DEF MustReset
  <2> QED
    BY <1>3, <2>1 DEF TryRx, IInv, TypeOK, StartInv
<1> QED
  BY <1>2, <1>3

\* Calling TryRx preserves the invariant.
LEMMA PollInv == ASSUME ClientPort, IInv, Poll PROVE IInv'
<1>1. /\ dataStart' = 0 /\ buf' \in Seq(Byte) /\ Incomplete(buf')
      /\ buf' = buf \/ buf' = <<>>
  BY ResetStep DEF Poll
<1>2. /\ pc = "ready" /\ line' = line
      /\ IF Len(buf') < 2
           THEN CallRead("head", 2 - Len(buf'), 0, buf') /\ closeErr' = closeErr
           ELSE InferThenRead(0, buf')
  BY <1>1 DEF Poll, TryRx
<1>3. TypeOK /\ ret.err # "overflow" /\ NothingBehind
  BY DEF IInv
<1>4. (Incomplete(buf))'
  BY <1>1 DEF Incomplete, Infer, Missing
<1>5. CASE Len(buf') < 2
  <2>1. Len(buf') \in Nat /\ 2 - Len(buf') \in Int /\ 2 - Len(buf') >= 1
    BY <1>1, <1>5, LenProperties
  <2>2. pc' = "head" /\ need' = 2 - Len(buf') /\ ret' = ret /\ closeErr' = closeErr
    BY <1>1, <1>2, <1>5, <2>1, CallReadStep
  <2>3. TypeOK'
    BY <1>1, <1>2, <1>3, <2>1, <2>2 DEF TypeOK
  <2> QED
    BY <1>1, <1>3, <1>4, <1>5, <2>2, <2>3 DEF IInv, StartInv, NeedInv, NothingBehind
<1>6. CASE ~(Len(buf') < 2)
  <2>1. Len(buf') >= 2
    BY <1>1, <1>6, LenProperties
  <2>2. /\ \/ pc' = "ready" /\ need' = 0 /\ ret' = Result("badfc", <<>>, 0)
           \/ /\ pc' = "body" /\ need' = Missing(buf') /\ ret' = ret
              /\ Infer(buf').err \in {"nil", "missing"}
        /\ closeErr' \in BOOLEAN /\ need' \in Int
    BY <1>1, <1>2, <1>3, <1>6, <2>1, InferThenReadStep
  <2>3. CASE pc' = "ready" /\ need' = 0 /\ ret' = Result("badfc", <<>>, 0)
    <3>1. /\ ret' \in [err : RxError, pdu : Seq(Byte), addr : Byte]
          /\ ret'.err = "badfc" /\ ret'.pdu = <<>>
      BY <2>3, ErrorResult DEF RxError
    <3>2. TypeOK'
      BY <1>1, <1>2, <1>3, <2>2, <2>3, <3>1 DEF TypeOK
    <3> QED
      BY <1>1, <1>4, <2>3, <3>1, <3>2 DEF IInv, StartInv, NeedInv, NothingBehind
  <2>4. CASE /\ pc' = "body" /\ need' = Missing(buf') /\ ret' = ret
             /\ Infer(buf').err \in {"nil", "missing"}
    <3>1. TypeOK'
      BY <1>1, <1>2, <1>3, <2>2, <2>4 DEF TypeOK
    <3>2. NeedInv'
      BY <2>1, <2>4 DEF NeedInv, Infer, Missing
    <3> QED
      BY <1>1, <1>3, <1>4, <2>4, <3>1, <3>2 DEF IInv, StartInv, NothingBehind
  <2> QED
    BY <2>2, <2>3, <2>4
<1> QED
  BY <1>5, <1>6

\* What port.Read hands over, and what it leaves on the line.
LEMMA TakeBytes ==
  ASSUME line \in Seq(Byte), buf \in Seq(Byte), NEW k \in Nat, k <= Len(line)
  PROVE  /\ SubSeq(line, 1, k) \in Seq(Byte) /\ Len(SubSeq(line, 1, k)) = k
         /\ SubSeq(line, k + 1, Len(line)) \in Seq(Byte)
         /\ buf \o SubSeq(line, 1, k) \in Seq(Byte)
         /\ Len(buf \o SubSeq(line, 1, k)) = Len(buf) + k
<1>1. line \in Seq(Byte) /\ buf \in Seq(Byte) /\ Len(line) \in Nat
  BY LenProperties
<1>2. \A i \in 1 .. Len(line) : line[i] \in Byte
  BY <1>1, ElementOfSeq
<1>3. SubSeq(line, 1, k) \in Seq(Byte) /\ Len(SubSeq(line, 1, k)) = IF 1 <= k THEN k - 1 + 1 ELSE 0
  BY <1>1, <1>2, SubSeqProperties
<1>4. SubSeq(line, k + 1, Len(line)) \in Seq(Byte)
  BY <1>1, <1>2, SubSeqProperties
<1>5. Len(SubSeq(line, 1, k)) = k
  BY <1>3
<1> QED
  BY <1>1, <1>3, <1>4, <1>5, ConcatProperties

LEMMA TakeFacts ==
  ASSUME TypeOK, NEW k \in Nat, k <= Len(line)
  PROVE  /\ SubSeq(line, 1, k) \in Seq(Byte) /\ Len(SubSeq(line, 1, k)) = k
         /\ SubSeq(line, k + 1, Len(line)) \in Seq(Byte)
         /\ buf \o SubSeq(line, 1, k) \in Seq(Byte)
         /\ Len(buf \o SubSeq(line, 1, k)) = Len(buf) + k
BY TakeBytes DEF TypeOK

\* The return of TryRx's first read preserves the invariant.
LEMMA ReadHeadInv ==
  ASSUME ClientPort, IInv, NEW k \in 0 .. need, NEW failed \in BOOLEAN,
         k <= Len(line), ReadHead(k, failed)
  PROVE  IInv'
<1> DEFINE all == buf \o SubSeq(line, 1, k)
<1>1. TypeOK /\ pc = "head" /\ Len(buf) < 2 /\ need = 2 - Len(buf) /\ dataStart = 0
      /\ dataStart' = dataStart /\ ret.err # "overflow"
  BY DEF IInv, NeedInv, StartInv, ReadHead
<1>2. k \in Nat /\ Len(buf) \in Nat /\ k <= need
  BY <1>1, LenProperties DEF TypeOK
<1>3. /\ all \in Seq(Byte) /\ Len(all) = Len(buf) + k
      /\ SubSeq(line, k + 1, Len(line)) \in Seq(Byte)
  BY <1>1, <1>2, TakeFacts
<1>4. /\ buf' = all /\ line' = SubSeq(line, k + 1, Len(line))
      /\ IF Len(all) < 2
           THEN Return(IF failed THEN "io" ELSE "missing", <<>>, 0) /\ closeErr' = closeErr
           ELSE InferThenRead(0, all)
  BY <1>1 DEF ReadHead
<1>5. Len(all) <= 2 /\ Len(all) \in Nat
  BY <1>1, <1>2, <1>3
<1> HIDE DEF all
<1>6. CASE Len(all) < 2
  <2>1. pc' = "ready" /\ need' = 0 /\ ret' = Result(IF failed THEN "io" ELSE "missing", <<>>, 0)
        /\ closeErr' = closeErr
    BY <1>4, <1>6 DEF Return
  <2>2. /\ ret' \in [err : RxError, pdu : Seq(Byte), addr : Byte]
        /\ ret'.err # "overflow" /\ ret'.pdu = <<>>
    BY <2>1, ErrorResult DEF RxError
  <2>3. TypeOK'
    BY <1>1, <1>3, <1>4, <2>1, <2>2 DEF TypeOK
  <2>4. Incomplete(buf)'
    BY <1>4, <1>6 DEF Incomplete
  <2> QED
    BY <1>1, <2>1, <2>2, <2>3, <2>4 DEF IInv, StartInv, NeedInv, NothingBehind
<1>7. CASE ~(Len(all) < 2)
  <2>1. Len(all) >= 2 /\ Incomplete(all)
    BY <1>3, <1>5, <1>7, HeadIncomplete
  <2>2. /\ \/ pc' = "ready" /\ need' = 0 /\ ret' = Result("badfc", <<>>, 0)
           \/ /\ pc' = "body" /\ need' = Missing(all) /\ ret' = ret
              /\ Infer(all).err \in {"nil", "missing"}
        /\ closeErr' \in BOOLEAN /\ need' \in Int
    BY <1>1, <1>3, <1>4, <1>7, <2>1, InferThenReadStep
  <2>3. /\ ret' \in [err : RxError, pdu : Seq(Byte), addr : Byte] /\ ret'.err # "overflow"
        /\ pc' = "ready" => ret'.pdu = <<>>
    BY <1>1, <2>2, ErrorResult, SMTT(30) DEF TypeOK, RxError
  <2>4. TypeOK'
    BY <1>1, <1>3, <1>4, <2>2, <2>3 DEF TypeOK
  <2>5. Incomplete(buf)'
    BY <1>4, <2>1 DEF Incomplete, Infer, Missing
  <2>6. NeedInv'
    BY <1>4, <2>1, <2>2 DEF NeedInv, Infer, Missing
  <2> QED
    BY <1>1, <2>2, <2>3, <2>4, <2>5, <2>6 DEF IInv, StartInv, NothingBehind
<1> QED
  BY <1>6, <1>7

\* Delivering a packet of at least three bytes.
LEMMA DeliverStep ==
  ASSUME NEW packet \in Seq(Byte), Len(packet) >= 3, Deliver(packet)
  PROVE  /\ pc' = "ready" /\ need' = 0
         /\ ret' \in [err : RxError, pdu : Seq(Byte), addr : Byte]
         /\ ret'.err \in {"nil", "crc"}
<1>1. Len(packet) \in Nat /\ packet[1] \in Byte /\ \A i \in 1 .. Len(packet) : packet[i] \in Byte
  BY LenProperties, ElementOfSeq
<1>2. SubSeq(packet, 2, Len(packet) - 2) \in Seq(Byte)
  BY <1>1, SubSeqProperties
<1>3. PICK e \in {"nil", "crc"} : pc' = "ready" /\ need' = 0
        /\ ret' = Result(e, SubSeq(packet, 2, Len(packet) - 2), packet[1])
  BY DEF Deliver, Return
<1> QED
  BY <1>1, <1>2, <1>3 DEF Result, RxError

\* The return of TryRx's second read preserves the invariant.
LEMMA ReadBodyInv ==
  ASSUME ClientPort, IInv, NEW k \in 0 .. need, NEW failed \in BOOLEAN,
         k <= Len(line), failed => k = 0, ReadBody(k, failed)
  PROVE  IInv'
<1> DEFINE x   == SubSeq(line, 1, k)
           all == buf \o x
           end == Infer(buf).n + 3
<1>1. TypeOK /\ pc = "body" /\ Len(buf) >= 2 /\ need = Missing(buf) /\ dataStart = 0
      /\ Infer(buf).err \in {"nil", "missing"} /\ Incomplete(buf)
  BY DEF IInv, NeedInv, StartInv, ReadBody
<1>2. buf \in Seq(Byte) /\ Len(buf) \in Nat /\ InferFactsFor(buf)
  BY <1>1, LenProperties, InferFacts DEF TypeOK
<1>3. k \in Nat /\ k <= need /\ need \in Int /\ need >= 1 /\ Len(buf) + need = end
  <2>1. Infer(buf).n \in Nat
    BY <1>2 DEF InferFactsFor
  <2>2. Missing(buf) >= 1
    BY <1>1, <1>2 DEF Incomplete
  <2>3. Missing(buf) = Infer(buf).n + 3 - Len(buf)
    BY DEF Missing
  <2> QED
    BY <1>1, <1>2, <2>1, <2>2, <2>3
<1>4. /\ x \in Seq(Byte) /\ Len(x) = k /\ all \in Seq(Byte) /\ Len(all) = Len(buf) + k
      /\ SubSeq(line, k + 1, Len(line)) \in Seq(Byte)
  BY <1>1, <1>3, TakeFacts
<1>5. /\ line' = SubSeq(line, k + 1, Len(line)) /\ closeErr' = closeErr
      /\ IF ~failed /\ Infer(buf).err = "nil" /\ k >= need
           THEN Deliver(SubSeq(all, 1, end)) /\ Consume(all, end)
           ELSE /\ Return(IF failed THEN "io"
                          ELSE IF Infer(buf).err # "nil" THEN Infer(buf).err ELSE "missing", <<>>, 0)
                /\ buf' = all /\ dataStart' = dataStart
  BY DEF ReadBody
<1>6. CASE ~failed /\ Infer(buf).err = "nil" /\ k >= need
  <2>1. end \in Nat /\ end >= 5 /\ Len(all) = end
    <3>1. Infer(buf).n \in Nat /\ Infer(buf).n >= 2
      BY <1>2, <1>6 DEF InferFactsFor
    <3> QED
      BY <1>2, <1>3, <1>4, <1>6, <3>1, SMTT(30)
  <2>2. SubSeq(all, 1, end) = all /\ SubSeq(all, end + 1, Len(all)) = <<>>
    <3>1. SubSeq(all, 1, Len(all)) = all
      BY <1>4, SubSeqFull
    <3>2. SubSeq(all, end + 1, Len(all)) = <<>>
      BY <1>4, <2>1, SubSeqEmpty
    <3> QED
      BY <2>1, <3>1, <3>2, Zenon
  <2>3. /\ Deliver(SubSeq(all, 1, end)) /\ buf' = SubSeq(all, end + 1, Len(all))
        /\ dataStart' = dataStart + end
    BY <1>5, <1>6, Zenon DEF Consume
  <2>4. SubSeq(all, 1, end) \in Seq(Byte) /\ Len(SubSeq(all, 1, end)) >= 3
    BY <1>4, <2>1, <2>2, SMTT(30)
  <2>5. buf' = <<>> /\ dataStart' = end
    BY <1>1, <2>1, <2>2, <2>3
  <2> HIDE DEF all, x, end
  <2>6. /\ pc' = "ready" /\ need' = 0
        /\ ret' \in [err : RxError, pdu : Seq(Byte), addr : Byte]
        /\ ret'.err \in {"nil", "crc"}
    BY <2>3, <2>4, DeliverStep, Zenon
  <2>7. <<>> \in Seq(Byte) /\ Len(<<>>) < 2
    BY EmptySeq
  <2>8. TypeOK'
    BY <1>1, <1>4, <1>5, <2>1, <2>5, <2>6, <2>7 DEF TypeOK
  <2>9. Incomplete(buf)'
    BY <2>5, <2>7 DEF Incomplete
  <2> QED
    BY <2>5, <2>6, <2>8, <2>9 DEF IInv, StartInv, NeedInv, NothingBehind
<1>7. CASE ~(~failed /\ Infer(buf).err = "nil" /\ k >= need)
  <2>1. PICK e \in RxError : /\ pc' = "ready" /\ need' = 0 /\ ret' = Result(e, <<>>, 0)
                             /\ e # "overflow"
    BY <1>1, <1>5, <1>7 DEF Return, RxError
  <2>2. buf' = all /\ dataStart' = 0
    BY <1>1, <1>5, <1>7
  <2>3. k < need \/ Infer(buf).err = "missing"
    BY <1>1, <1>3, <1>7
  <2>4. Incomplete(all)
    BY <1>1, <1>2, <1>3, <1>4, <2>3, StaysIncomplete, Zenon
  <2> HIDE DEF all, x, end
  <2>5. /\ ret' \in [err : RxError, pdu : Seq(Byte), addr : Byte]
        /\ ret'.err # "overflow" /\ ret'.pdu = <<>>
    BY <2>1, ErrorResult
  <2>6. TypeOK'
    BY <1>1, <1>4, <1>5, <2>1, <2>2, <2>5, SMTT(30) DEF TypeOK
  <2>7. Incomplete(buf)'
    BY <2>2, <2>4 DEF Incomplete, Infer, Missing
  <2> QED
    BY <2>1, <2>2, <2>5, <2>6, <2>7 DEF IInv, StartInv, NeedInv, NothingBehind
<1> QED
  BY <1>6, <1>7

\* A packet coming in preserves the invariant.
LEMMA ArriveInv == ASSUME IInv, NEW packet \in Packets, Arrive(packet) PROVE IInv'
<1>1. line' \in Seq(Byte)
  BY PacketsAssumption, ConcatProperties DEF Arrive, IInv, TypeOK
<1>2. buf' = buf /\ dataStart' = dataStart /\ pc' = pc /\ need' = need /\ closeErr' = closeErr /\ ret' = ret
  BY DEF Arrive
<1> QED
  BY <1>1, <1>2 DEF IInv, TypeOK, StartInv, NeedInv, NothingBehind, Incomplete, Infer, Missing

\* The invariant holds initially.
LEMMA InitInv == Init => IInv
<1> SUFFICES ASSUME Init PROVE IInv
  OBVIOUS
<1>1. <<>> \in Seq(Byte) /\ Len(<<>>) < 2
  BY EmptySeq
<1>2. ret \in [err : RxError, pdu : Seq(Byte), addr : Byte] /\ ret.err = "none" /\ ret.pdu = <<>>
  BY ErrorResult DEF Init, RxInit, RxError
<1>3. TypeOK
  <2>1. closeErr \in BOOLEAN
    BY Zenon DEF Init, RxInit
  <2>2. line \in Seq(Byte) /\ buf \in Seq(Byte) /\ dataStart \in Nat /\ need \in Int /\ pc = "ready"
    BY <1>1 DEF Init, RxInit
  <2> QED
    BY <1>2, <2>1, <2>2 DEF TypeOK
<1> QED
  BY <1>1, <1>2, <1>3 DEF Init, RxInit, IInv, StartInv, NeedInv, NothingBehind, Incomplete

\* The inductive invariant, preserved by every step of a client's receive path.
LEMMA NextInv == ASSUME ClientPort, IInv, [Next]_vars PROVE IInv'
<1>1. CASE \E packet \in Packets : Arrive(packet)
  BY <1>1, ArriveInv
<1>2. CASE Poll
  BY <1>2, PollInv
<1>3. CASE ReceiveAny
  <2>1. PICK k \in 0 .. need, failed \in BOOLEAN : Receive(k, failed)
    BY <1>3 DEF ReceiveAny
  <2>2. k <= Len(line) /\ (failed => k = 0) /\ (ReadHead(k, failed) \/ ReadBody(k, failed))
    BY <2>1 DEF Receive, ReadReturns, PortRead, ClientPort
  <2> QED
    BY <2>2, ReadHeadInv, ReadBodyInv
<1>4. CASE UNCHANGED vars
  BY <1>4 DEF vars, IInv, TypeOK, StartInv, NeedInv, NothingBehind, Incomplete, Infer, Missing
<1> QED
  BY <1>1, <1>2, <1>3, <1>4 DEF Next

\* The invariant says what the properties ask for.
LEMMA InvImplies ==
  ASSUME ClientPort, IInv
  PROVE  TypeOK /\ IncompleteIsReported /\ NothingBehind /\ BufferSuffices
<1>1. TypeOK /\ IncompleteIsReported /\ NothingBehind /\ ret.err # "overflow" /\ NeedInv
      /\ StartInv /\ Incomplete(buf)
  BY DEF IInv, IncompleteIsReported
<1>2. buf \in Seq(Byte) /\ Len(buf) \in Nat
  BY <1>1, LenProperties DEF TypeOK
<1>3. ASSUME pc = "head" PROVE dataEnd + need <= BufLen
  BY <1>1, <1>2, <1>3 DEF StartInv, NeedInv, dataEnd, BufLen
<1>4. ASSUME pc = "body" PROVE dataEnd + need <= BufLen
  <2>1. InferFactsFor(buf) /\ Infer(buf).err # "badfc" /\ Len(buf) >= 2 /\ need = Missing(buf) /\ dataStart = 0
    BY <1>1, <1>2, <1>4, InferFacts DEF NeedInv, StartInv
  <2>2. Len(buf) + need <= 261 /\ need \in Int
    BY <1>1, <1>2, <2>1 DEF Incomplete, InferFactsFor
  <2> QED
    BY <1>2, <2>1, <2>2 DEF dataEnd, BufLen
<1> QED
  BY <1>1, <1>3, <1>4 DEF BufferSuffices

\* Type correctness of a client's receive path, on any line.
THEOREM ClientTypeCorrect == ASSUME ClientPort PROVE Spec => []TypeOK
<1>1. IInv => TypeOK
  BY InvImplies
<1>2. IInv /\ [Next]_vars => IInv'
  BY NextInv
<1> QED
  BY <1>1, <1>2, InitInv, PTL DEF Spec

\* TryRx(true) never panics in read, whatever the bytes on the line and
\* however port.Read cuts them up (rtustate.go:127-133).
THEOREM ClientNeverPanics == ASSUME ClientPort PROVE Spec => []IncompleteIsReported
<1>1. IInv => IncompleteIsReported
  BY InvImplies
<1>2. IInv /\ [Next]_vars => IInv'
  BY NextInv
<1> QED
  BY <1>1, <1>2, InitInv, PTL DEF Spec

\* TryRx(true) leaves nothing buffered behind a packet it returns: it never
\* reads a byte of the packet after it.
THEOREM ClientReadsNoFurther == ASSUME ClientPort PROVE Spec => []NothingBehind
<1>1. IInv => NothingBehind
  BY InvImplies
<1>2. IInv /\ [Next]_vars => IInv'
  BY NextInv
<1> QED
  BY <1>1, <1>2, InitInv, PTL DEF Spec

\* The 512 bytes of rxbuf suffice for every packet: no read is ever refused
\* with "read overflow" (rtustate.go:128-129).
THEOREM ClientBufferSuffices == ASSUME ClientPort PROVE Spec => []BufferSuffices
<1>1. IInv => BufferSuffices
  BY InvImplies
<1>2. IInv /\ [Next]_vars => IInv'
  BY NextInv
<1> QED
  BY <1>1, <1>2, InitInv, PTL DEF Spec

--------------------------------------------------------------------------------
(***************************************************************************)
(* After a bad function code.  This holds of servers, too, whose framing   *)
(* the invariant above does not cover.                                     *)
(***************************************************************************)
\* Bytes in the buffer that are refused each time, and that no reset drops.
Stuck ==
  /\ pc = "ready" /\ Len(buf) >= 2 /\ Infer(buf).err = "badfc"
  /\ Len(buf) < 256 \/ ~(dataEnd > 256)

DesyncInv ==
  /\ line \in Seq(Byte) /\ buf \in Seq(Byte)
  /\ pc = "head" => Len(buf) < 2 /\ need = 2 - Len(buf)
  /\ pc = "body" => Len(buf) >= 2
  /\ closeErr \in BOOLEAN /\ (closeErr => Stuck)

\* An inferred length is a number.
LEMMA InferredNumber ==
  ASSUME NEW b \in Seq(Byte), Len(b) >= 2 PROVE Infer(b).n \in Nat
<1>1. Tail(b) \in Seq(Byte) /\ Len(Tail(b)) >= 1
  BY TailFacts
<1>2. InferRequestPacketLength(Tail(b)).n \in Nat
  <2>1. Len(Tail(b)) >= 6 => Tail(b)[6] \in Nat
    BY <1>1, ByteFacts, ElementOfSeq
  <2>. QED
    BY <1>1, <2>1 DEF InferRequestPacketLength, Inferred
<1>. QED
  BY <1>1, <1>2, ResponseLength DEF Infer

\* Polling again changes nothing.
LEMMA StuckPoll ==
  ASSUME DesyncInv, closeErr, TryRx
  PROVE  buf' = buf /\ closeErr' /\ Stuck'
<1>1. Stuck /\ Len(buf) \in Nat
  BY LenProperties DEF DesyncInv
<1>2. buf' = buf /\ (MustReset => Len(buf) < 256)
  BY <1>1 DEF TryRx, MustReset, AfterReset, Stuck
<1>3. pc' = "ready" /\ closeErr' = TRUE
  <2>1. ~(Len(buf') < 2) /\ Infer(buf').err = "badfc"
    BY <1>1, <1>2 DEF Stuck, Infer
  <2>2. InferThenRead(dataStart', buf')
    BY <2>1, Zenon DEF TryRx
  <2>. QED
    BY <2>1, <2>2, Zenon DEF InferThenRead, Return
<1>4. ~MustReset => dataStart' = dataStart
  BY DEF TryRx
<1>. QED
  BY <1>1, <1>2, <1>3, <1>4 DEF Stuck, Infer, dataEnd, MustReset

LEMMA DesyncPoll == ASSUME DesyncInv, Poll PROVE DesyncInv'
<1>0. TryRx /\ buf \in Seq(Byte)
  BY DEF Poll, DesyncInv
<1>1. line' = line /\ buf' \in Seq(Byte) /\ Len(buf') \in Nat
  BY <1>0, LenProperties DEF TryRx, AfterReset
<1>2. CASE closeErr
  BY <1>0, <1>1, <1>2, StuckPoll DEF DesyncInv, Stuck
<1>3. CASE ~closeErr /\ Len(buf') < 2
  <2>1. closeErr' = closeErr /\ CallRead("head", 2 - Len(buf'), dataStart', buf')
    BY <1>0, <1>3 DEF TryRx
  <2>2. pc' # "body" /\ (pc' = "head" => need' = 2 - Len(buf'))
    BY <2>1 DEF CallRead, Return
  <2>. QED
    BY <1>1, <1>3, <2>1, <2>2 DEF DesyncInv
<1>4. CASE ~closeErr /\ Len(buf') >= 2
  <2>1. InferThenRead(dataStart', buf')
    <3>1. ~(Len(buf') < 2)
      BY <1>1, <1>4
    <3>. QED
      BY <1>0, <3>1, Zenon DEF TryRx
  <2>2. pc' # "head" /\ closeErr' \in BOOLEAN
    <3>1. closeErr = FALSE
      BY <1>4 DEF DesyncInv
    <3>. QED
      BY <2>1, <3>1 DEF InferThenRead, CallRead, Return
  <2>3. closeErr' => pc' = "ready" /\ Infer(buf').err = "badfc"
    BY <2>1, <1>4 DEF InferThenRead, Return
  <2>4. Len(buf') < 256 \/ ~(dataEnd' > 256)
    <3>1. CASE MustReset
      BY <1>0, <1>1, <1>4, <3>1 DEF TryRx, AfterReset
    <3>2. CASE ~MustReset
      BY <1>0, <3>2 DEF TryRx, MustReset, dataEnd
    <3>. QED
      BY <3>1, <3>2
  <2>5. closeErr' => Stuck'
    BY <1>4, <2>3, <2>4 DEF Stuck, Infer
  <2>. QED
    BY <1>1, <1>4, <2>2, <2>5 DEF DesyncInv
<1>. QED
  BY <1>1, <1>2, <1>3, <1>4

LEMMA DesyncReceive ==
  ASSUME DesyncInv, NEW k \in 0 .. need, NEW failed \in BOOLEAN, ReadReturns(k, failed)
  PROVE  DesyncInv'
<1>0. k <= Len(line) /\ line \in Seq(Byte) /\ buf \in Seq(Byte) /\ Len(buf) \in Nat /\ k \in Nat
  BY LenProperties DEF ReadReturns, PortRead, DesyncInv
<1>1. pc # "ready" /\ closeErr = FALSE
  BY DEF ReadReturns, ReadHead, ReadBody, DesyncInv, Stuck
<1> DEFINE all == buf \o SubSeq(line, 1, k)
<1>2. all \in Seq(Byte) /\ Len(all) = Len(buf) + k /\ SubSeq(line, k + 1, Len(line)) \in Seq(Byte)
  BY <1>0, TakeBytes
<1>3. CASE ReadHead(k, failed)
  <2>1. /\ buf' = all /\ line' = SubSeq(line, k + 1, Len(line))
        /\ Len(all) <= 2
    BY <1>0, <1>2, <1>3 DEF ReadHead, DesyncInv
  <2>2. CASE Len(buf') < 2
    BY <1>1, <1>2, <1>3, <2>1, <2>2 DEF ReadHead, Return, DesyncInv
  <2>3. CASE ~(Len(buf') < 2)
    <3>1. InferThenRead(dataStart, buf') /\ Len(buf') >= 2
      BY <1>0, <1>2, <1>3, <2>1, <2>3 DEF ReadHead
    <3>2. pc' # "head" /\ closeErr' \in BOOLEAN
      BY <3>1, <1>1 DEF InferThenRead, CallRead, Return
    <3>3. closeErr' => pc' = "ready" /\ Infer(buf').err = "badfc"
      BY <3>1, <1>1 DEF InferThenRead, Return
    <3>4. closeErr' => Stuck'
      BY <2>1, <3>1, <3>3 DEF Stuck, Infer
    <3>. QED
      BY <1>2, <2>1, <3>1, <3>2, <3>4 DEF DesyncInv
  <2>. QED
    BY <2>2, <2>3
<1>4. CASE ReadBody(k, failed)
  <2>1. pc' = "ready" /\ line' = SubSeq(line, k + 1, Len(line)) /\ closeErr' = closeErr
    BY <1>4 DEF ReadBody, Deliver, Return
  <2>2. Infer(buf).n + 3 \in Nat
    BY <1>0, <1>4, InferredNumber DEF ReadBody, DesyncInv
  <2>3. SubSeq(all, Infer(buf).n + 3 + 1, Len(all)) \in Seq(Byte)
    <3>1. \A i \in 1 .. Len(all) : all[i] \in Byte
      BY <1>2, ElementOfSeq
    <3>. HIDE DEF all
    <3>. QED
      BY <1>2, <2>2, <3>1, LenProperties, SubSeqProperties
  <2>4. buf' = all \/ buf' = SubSeq(all, Infer(buf).n + 3 + 1, Len(all))
    BY <1>4 DEF ReadBody, Consume
  <2>. QED
    BY <1>1, <1>2, <2>1, <2>3, <2>4 DEF DesyncInv
<1>. QED
  BY <1>3, <1>4 DEF ReadReturns

LEMMA DesyncNext == DesyncInv /\ [Next]_vars => DesyncInv'
<1>. SUFFICES ASSUME DesyncInv, [Next]_vars PROVE DesyncInv'
  OBVIOUS
<1>1. ASSUME NEW packet \in Packets, Arrive(packet) PROVE DesyncInv'
  <2>1. line' \in Seq(Byte)
    BY <1>1, PacketsAssumption, ConcatProperties DEF Arrive, DesyncInv
  <2>. QED
    BY <1>1, <2>1 DEF Arrive, DesyncInv, Stuck, Infer, dataEnd
<1>2. CASE Poll
  BY <1>2, DesyncPoll
<1>3. CASE ReceiveAny
  BY <1>3, DesyncReceive DEF ReceiveAny, Receive
<1>4. CASE UNCHANGED vars
  BY <1>4 DEF vars, DesyncInv, Stuck, Infer, dataEnd
<1>. QED
  BY <1>1, <1>2, <1>3, <1>4 DEF Next

\* After a bad function code no packet is delivered any more, to a client or
\* to a server, whatever arrives: the two bytes stay where they are.
THEOREM NoWayBack == Spec => DesyncIsFinal
<1>1. Init => DesyncInv
  BY EmptySeq DEF Init, RxInit, DesyncInv
<1>2. DesyncInv /\ [Next]_vars => [closeErr => UNCHANGED <<buf, rcvd, closeErr>>]_vars
  <2>. SUFFICES ASSUME DesyncInv, closeErr, [Next]_vars
                PROVE  UNCHANGED <<buf, rcvd, closeErr>> \/ UNCHANGED vars
    OBVIOUS
  <2>1. ASSUME NEW packet \in Packets, Arrive(packet) PROVE UNCHANGED <<buf, rcvd, closeErr>>
    BY <2>1 DEF Arrive
  <2>2. CASE Poll
    BY <2>2, StuckPoll DEF Poll, DesyncInv
  <2>3. ~ReceiveAny
    BY DEF ReceiveAny, Receive, ReadReturns, ReadHead, ReadBody, DesyncInv, Stuck
  <2>. QED
    BY <2>1, <2>2, <2>3 DEF Next
<1>. QED
  BY <1>1, <1>2, DesyncNext, PTL DEF Spec, DesyncIsFinal

--------------------------------------------------------------------------------

\* Bytes sent that no packet returned by TryRx has used up.
Pending == buf \o line

\* at says where in the bytes s each of the packets after the first done of
\* them starts; the last entry is the end of s.
Boundaries(at, s, done, packets) ==
  /\ at \in [done + 1 .. Len(packets) + 1 -> 0 .. Len(s)]
  /\ at[done + 1] = 0 /\ at[Len(packets) + 1] = Len(s)
  /\ \A i, k \in done + 1 .. Len(packets) + 1 : i <= k => at[i] <= at[k]
  /\ \A i \in done + 1 .. Len(packets) :
       /\ at[i + 1] = at[i] + Len(packets[i])
       /\ \A j \in 1 .. Len(packets[i]) : s[at[i] + j] = packets[i][j]

Framed ==
  \E at \in [Len(rcvd) + 1 .. Len(sent) + 1 -> 0 .. Len(Pending)] :
    Boundaries(at, Pending, Len(rcvd), sent)

\* What was sent and what was returned so far.
Delivered ==
  /\ sent \in Seq(Packets)
  /\ rcvd \in Seq(Byte \X Seq(Byte) \X RxError)
  /\ InSync

FrameInv == Delivered /\ Framed

--------------------------------------------------------------------------------
\* The bytes after the first m.
LEMMA SuffixFacts ==
  ASSUME NEW s \in Seq(Byte), NEW m \in Nat, m <= Len(s)
  PROVE  /\ SubSeq(s, m + 1, Len(s)) \in Seq(Byte)
         /\ Len(SubSeq(s, m + 1, Len(s))) = Len(s) - m
         /\ \A i \in 1 .. Len(s) - m : SubSeq(s, m + 1, Len(s))[i] = s[m + i]
<1> DEFINE a == m + 1
           z == Len(s)
<1>1. z \in Nat /\ a \in Int /\ z \in Int /\ a = m + 1 /\ \A i \in 1 .. z : s[i] \in Byte
  BY LenProperties, ElementOfSeq
<1> HIDE DEF a, z
<1>2. \A i \in a .. z : s[i] \in Byte
  BY <1>1
<1>3. /\ SubSeq(s, a, z) \in Seq(Byte)
      /\ Len(SubSeq(s, a, z)) = IF a <= z THEN z - a + 1 ELSE 0
      /\ \A i \in 1 .. z - a + 1 : SubSeq(s, a, z)[i] = s[a + i - 1]
  BY <1>1, <1>2, SubSeqProperties
<1>4. m <= z
  BY DEF z
<1>5. (IF a <= z THEN z - a + 1 ELSE 0) = z - m
  BY <1>1, <1>4
<1>6. ASSUME NEW i \in 1 .. z - m PROVE SubSeq(s, a, z)[i] = s[m + i]
  <2>1. i \in 1 .. z - a + 1 /\ a + i - 1 = m + i
    BY <1>1
  <2> QED
    BY <1>3, <2>1, Zenon
<1> QED
  BY <1>3, <1>5, <1>6, SMTT(30) DEF a, z

\* What comes behind the bytes x.
LEMMA BytesBehind ==
  ASSUME NEW x \in Seq(Byte), NEW y \in Seq(Byte), NEW i \in 1 .. Len(y)
  PROVE  (x \o y)[Len(x) + i] = y[i]
<1>1. Len(x) \in Nat /\ Len(y) \in Nat
  BY LenProperties
<1>2. Len(x) + i \in 1 .. Len(x) + Len(y) /\ ~(Len(x) + i <= Len(x)) /\ (Len(x) + i) - Len(x) = i
  BY <1>1
<1> QED
  BY <1>2, ConcatProperties

\* One more packet is sent.
LEMMA BoundariesAppend ==
  ASSUME NEW s \in Seq(Byte), NEW p \in Seq(Byte), NEW packets \in Seq(Packets),
         NEW done \in Nat, done <= Len(packets), p \in Packets,
         NEW at, Boundaries(at, s, done, packets)
  PROVE  \E b \in [done + 1 .. Len(Append(packets, p)) + 1 -> 0 .. Len(s \o p)] :
           Boundaries(b, s \o p, done, Append(packets, p))
<1> DEFINE n == Len(packets)
           t == s \o p
           q == Append(packets, p)
           b == [i \in done + 1 .. n + 2 |-> IF i <= n + 1 THEN at[i] ELSE Len(t)]
<1>1. n \in Nat /\ Len(s) \in Nat /\ Len(p) \in Nat /\ Len(t) = Len(s) + Len(p) /\ Len(q) = n + 1
  BY ConcatProperties, AppendProperties, LenProperties
<1>t. \A i \in 1 .. Len(s) + Len(p) : t[i] = IF i <= Len(s) THEN s[i] ELSE p[i - Len(s)]
  BY ConcatProperties
<1>q. (\A i \in 1 .. n : q[i] = packets[i]) /\ q[n + 1] = p
  BY AppendProperties
<1>2. \A i \in done + 1 .. n : packets[i] \in Seq(Byte) /\ Len(packets[i]) \in Nat
  <2>1. \A i \in 1 .. n : packets[i] \in Packets
    BY ElementOfSeq
  <2> QED
    BY <2>1, PacketsAssumption, LenProperties
<1>3. /\ at \in [done + 1 .. n + 1 -> 0 .. Len(s)]
      /\ at[done + 1] = 0 /\ at[n + 1] = Len(s)
      /\ \A i, k \in done + 1 .. n + 1 : i <= k => at[i] <= at[k]
      /\ \A i \in done + 1 .. n :
           /\ at[i + 1] = at[i] + Len(packets[i])
           /\ \A j \in 1 .. Len(packets[i]) : s[at[i] + j] = packets[i][j]
  BY DEF Boundaries
<1> HIDE DEF n, t, q
<1>4. b \in [done + 1 .. n + 2 -> 0 .. Len(t)] /\ b[done + 1] = 0 /\ b[n + 2] = Len(t)
  BY <1>1, <1>3 DEF n
<1>5. ASSUME NEW i \in done + 1 .. n + 2, NEW k \in done + 1 .. n + 2, i <= k PROVE b[i] <= b[k]
  <2>1. CASE k <= n + 1
    BY <1>1, <1>3, <1>5, <2>1
  <2>2. CASE k = n + 2
    BY <1>1, <1>4, <2>2
  <2> QED
    BY <1>1, <2>1, <2>2
<1>6. ASSUME NEW i \in done + 1 .. n + 1
      PROVE  /\ b[i + 1] = b[i] + Len(q[i])
             /\ \A j \in 1 .. Len(q[i]) : t[b[i] + j] = q[i][j]
  <2>1. CASE i <= n
    <3>1. q[i] = packets[i] /\ b[i] = at[i] /\ b[i + 1] = at[i + 1]
      BY <1>1, <1>q, <1>3, <2>1
    <3>2. /\ at[i] \in 0 .. Len(s) /\ at[i + 1] \in 0 .. Len(s) /\ at[i + 1] = at[i] + Len(packets[i])
          /\ \A j \in 1 .. Len(packets[i]) : s[at[i] + j] = packets[i][j]
      <4>1. i \in done + 1 .. n /\ i \in done + 1 .. n + 1 /\ i + 1 \in done + 1 .. n + 1
        BY <1>1, <2>1
      <4> QED
        BY <1>3, <4>1, Zenon
    <3>3. ASSUME NEW j \in 1 .. Len(packets[i]) PROVE t[at[i] + j] = packets[i][j]
      <4>1. at[i] + j \in 1 .. Len(s) /\ at[i] + j \in 1 .. Len(t)
        <5>1. Len(packets[i]) \in Nat
          BY <1>1, <1>2, <2>1
        <5> DEFINE x == at[i]
                   l == Len(packets[i])
                   z == Len(s)
                   w == Len(t)
        <5>2. x \in Nat /\ l \in Nat /\ x + l <= z /\ j \in 1 .. l /\ z \in Nat /\ z <= w /\ w \in Nat
          BY <1>1, <3>2, <5>1
        <5> HIDE DEF x, l, z, w
        <5>3. x + j \in 1 .. z /\ x + j \in 1 .. w
          BY <5>2
        <5> QED
          BY <5>3 DEF x, z, w
      <4>2. t[at[i] + j] = s[at[i] + j]
        BY <1>1, <1>t, <4>1
      <4> QED
        BY <3>2, <4>2, Zenon
    <3> QED
      BY <3>1, <3>2, <3>3, Zenon
  <2>2. CASE i = n + 1
    <3>1. q[i] = p /\ b[i] = Len(s) /\ b[i + 1] = Len(t)
      BY <1>1, <1>q, <1>3, <2>2
    <3>2. ASSUME NEW j \in 1 .. Len(p) PROVE t[Len(s) + j] = p[j]
      BY BytesBehind, Zenon DEF t
    <3> QED
      BY <1>1, <3>1, <3>2, Zenon
  <2> HIDE DEF b
  <2>3. i <= n \/ i = n + 1
    BY <1>1
  <2> QED
    BY <2>1, <2>2, <2>3, Zenon
<1>7. Boundaries(b, t, done, q)
  <2> HIDE DEF b
  <2>1. Len(q) + 1 = n + 2 /\ Len(q) = n + 1
    BY <1>1
  <2> QED
    BY <1>4, <1>5, <1>6, <2>1 DEF Boundaries
<1> QED
  BY <1>7, Zenon DEF n, t, q, Boundaries

\* The first of the packets is taken off the front.
LEMMA BoundariesDrop ==
  ASSUME NEW s \in Seq(Byte), NEW packets \in Seq(Packets),
         NEW done \in Nat, done < Len(packets),
         NEW at, Boundaries(at, s, done, packets),
         NEW m \in Nat, m = Len(packets[done + 1])
  PROVE  \E b \in [done + 2 .. Len(packets) + 1 -> 0 .. Len(SubSeq(s, m + 1, Len(s)))] :
           Boundaries(b, SubSeq(s, m + 1, Len(s)), done + 1, packets)
<1> DEFINE n == Len(packets)
           t == SubSeq(s, m + 1, Len(s))
           b == [i \in done + 2 .. n + 1 |-> at[i] - m]
<1>1. n \in Nat /\ Len(s) \in Nat
  BY LenProperties
<1>2. \A i \in done + 1 .. n : Len(packets[i]) \in Nat
  <2>1. \A i \in 1 .. n : packets[i] \in Packets
    BY ElementOfSeq
  <2> QED
    BY <2>1, PacketsAssumption, LenProperties
<1>3. /\ at \in [done + 1 .. n + 1 -> 0 .. Len(s)]
      /\ at[done + 1] = 0 /\ at[n + 1] = Len(s)
      /\ \A i, k \in done + 1 .. n + 1 : i <= k => at[i] <= at[k]
      /\ \A i \in done + 1 .. n :
           /\ at[i + 1] = at[i] + Len(packets[i])
           /\ \A j \in 1 .. Len(packets[i]) : s[at[i] + j] = packets[i][j]
  BY DEF Boundaries
<1> HIDE DEF n
<1>4. at[done + 2] = m /\ m <= Len(s) /\ \A i \in done + 2 .. n + 1 : at[i] >= m /\ at[i] \in Nat
  <2>1. at[(done + 1) + 1] = at[done + 1] + Len(packets[done + 1])
    BY <1>1, <1>3 DEF n
  <2>2. at[done + 2] = m
    BY <1>1, <1>3, <2>1
  <2> QED
    BY <1>1, <1>3, <2>2 DEF n
<1>5. Len(t) = Len(s) - m /\ \A i \in 1 .. Len(s) - m : t[i] = s[m + i]
  BY <1>4, SuffixFacts, Zenon
<1> HIDE DEF t
<1>6. /\ b \in [done + 2 .. n + 1 -> 0 .. Len(t)] /\ b[done + 2] = 0 /\ b[n + 1] = Len(t)
      /\ \A i, k \in done + 2 .. n + 1 : i <= k => b[i] <= b[k]
  <2>1. ASSUME NEW i \in done + 2 .. n + 1
        PROVE  b[i] = at[i] - m /\ at[i] \in Nat /\ at[i] >= m /\ at[i] <= Len(s)
    <3>1. i \in done + 1 .. n + 1
      OBVIOUS
    <3>2. at[i] \in 0 .. Len(s)
      BY <1>3, <3>1, Zenon
    <3> QED
      BY <1>1, <1>4, <3>2
  <2>2. \A i \in done + 2 .. n + 1 : b[i] \in 0 .. Len(t)
    BY <1>1, <1>5, <2>1
  <2>3. b \in [done + 2 .. n + 1 -> 0 .. Len(t)]
    BY <2>2
  <2>4. done + 2 \in done + 2 .. n + 1 /\ n + 1 \in done + 2 .. n + 1
    BY <1>1 DEF n
  <2>5. b[done + 2] = 0 /\ b[n + 1] = Len(t)
    <3>1. b[done + 2] = at[done + 2] - m /\ b[n + 1] = at[n + 1] - m
      BY <2>1, <2>4, Zenon
    <3> QED
      BY <1>1, <1>3, <1>4, <1>5, <3>1
  <2>6. ASSUME NEW i \in done + 2 .. n + 1, NEW k \in done + 2 .. n + 1, i <= k PROVE b[i] <= b[k]
    <3>1. at[i] <= at[k]
      <4>1. i \in done + 1 .. n + 1 /\ k \in done + 1 .. n + 1
        OBVIOUS
      <4> QED
        BY <1>3, <2>6, <4>1, Zenon
    <3> QED
      BY <2>1, <3>1
  <2> QED
    BY <2>3, <2>5, <2>6
<1>7. ASSUME NEW i \in done + 2 .. n
      PROVE  /\ b[i + 1] = b[i] + Len(packets[i])
             /\ \A j \in 1 .. Len(packets[i]) : t[b[i] + j] = packets[i][j]
  <2>1. /\ at[i] \in Nat /\ at[i] >= m /\ at[i + 1] = at[i] + Len(packets[i]) /\ at[i + 1] <= Len(s)
        /\ b[i] = at[i] - m /\ b[i + 1] = at[i + 1] - m /\ Len(packets[i]) \in Nat
    <3>1. i \in done + 1 .. n /\ i + 1 \in done + 2 .. n + 1 /\ i \in done + 2 .. n + 1 /\ i + 1 \in done + 1 .. n + 1
      BY <1>1
    <3>2. b[i] = at[i] - m /\ b[i + 1] = at[i + 1] - m
      BY <3>1
    <3> HIDE DEF b
    <3>3. at[i] \in Nat /\ at[i] >= m /\ at[i + 1] = at[i] + Len(packets[i]) /\ at[i + 1] <= Len(s)
      <4>1. at[i + 1] = at[i] + Len(packets[i]) /\ at[i + 1] \in 0 .. Len(s)
        BY <1>3, <3>1, Zenon
      <4>2. at[i] >= m /\ at[i] \in Nat
        BY <1>4, <3>1, Zenon
      <4> QED
        BY <1>1, <4>1, <4>2
    <3> QED
      BY <1>2, <3>1, <3>2, <3>3
  <2> HIDE DEF b
  <2>2. ASSUME NEW j \in 1 .. Len(packets[i]) PROVE t[b[i] + j] = packets[i][j]
    <3>1. b[i] + j \in 1 .. Len(s) - m /\ m + (b[i] + j) = at[i] + j
      <4> DEFINE x == at[i]
                 l == Len(packets[i])
                 z == Len(s)
      <4>1. x \in Nat /\ l \in Nat /\ z \in Nat /\ x >= m /\ x + l <= z /\ b[i] = x - m /\ j \in 1 .. l
        BY <1>1, <2>1
      <4> HIDE DEF x, l, z
      <4>2. (x - m) + j \in 1 .. z - m /\ m + ((x - m) + j) = x + j
        BY <4>1
      <4> QED
        BY <4>1, <4>2 DEF x, z
    <3>2. t[b[i] + j] = s[at[i] + j]
      BY <1>5, <3>1, Zenon
    <3>3. i \in done + 1 .. n
      BY <1>1
    <3> QED
      BY <1>3, <3>2, <3>3
  <2>3. b[i + 1] = b[i] + Len(packets[i])
    BY <1>1, <2>1
  <2> QED
    BY <2>2, <2>3
<1>8. Boundaries(b, t, done + 1, packets)
  <2> HIDE DEF b
  <2>1. (done + 1) + 1 = done + 2
    OBVIOUS
  <2> QED
    BY <1>6, <1>7, <2>1 DEF Boundaries, n
<1> QED
  BY <1>6, <1>8, Zenon DEF n, t

--------------------------------------------------------------------------------
(***************************************************************************)
(* What the steps do to the pending bytes.                                 *)
(***************************************************************************)
\* A packet that was sent is a packet.
LEMMA SentFacts ==
  ASSUME Delivered, NEW i \in 1 .. Len(sent)
  PROVE  sent[i] \in Packets /\ sent[i] \in Seq(Byte) /\ Len(sent[i]) \in Nat
<1>1. sent[i] \in Packets
  BY ElementOfSeq DEF Delivered
<1> QED
  BY <1>1, PacketsAssumption, LenProperties

LEMMA LenFacts ==
  ASSUME Delivered
  PROVE  Len(sent) \in Nat /\ Len(rcvd) \in Nat /\ Len(rcvd) <= Len(sent)
BY LenProperties DEF Delivered, InSync

LEMMA BytesAssociative ==
  ASSUME NEW x \in Seq(Byte), NEW y \in Seq(Byte), NEW z \in Seq(Byte)
  PROVE  (x \o y) \o z = x \o (y \o z)
BY ConcatAssociative

\* A read moves bytes from the line to the buffer.
LEMMA MoveBytes ==
  ASSUME line \in Seq(Byte), buf \in Seq(Byte), NEW k \in Nat, k <= Len(line)
  PROVE  (buf \o SubSeq(line, 1, k)) \o SubSeq(line, k + 1, Len(line)) = Pending
<1>1. SubSeq(line, 1, k) \in Seq(Byte) /\ SubSeq(line, k + 1, Len(line)) \in Seq(Byte)
  BY TakeBytes
<1>2. SubSeq(line, 1, k) \o SubSeq(line, k + 1, Len(line)) = line
  <2>1. Len(line) \in Nat /\ 1 \in 1 .. Len(line) + 1 /\ k \in 1 - 1 .. Len(line) /\ Len(line) \in k .. Len(line)
    BY LenProperties
  <2>2. SubSeq(line, 1, k) \o SubSeq(line, k + 1, Len(line)) = SubSeq(line, 1, Len(line))
    BY <2>1, ConcatAdjacentSubSeq, Zenon
  <2> QED
    BY <2>2, SubSeqFull, Zenon
<1>3. (buf \o SubSeq(line, 1, k)) \o SubSeq(line, k + 1, Len(line))
        = buf \o (SubSeq(line, 1, k) \o SubSeq(line, k + 1, Len(line)))
  BY <1>1, BytesAssociative, Zenon
<1> QED
  BY <1>2, <1>3, Zenon DEF Pending

\* A step that sends, returns and drops nothing.
LEMMA QuietFrame ==
  ASSUME FrameInv, Pending' = Pending, sent' = sent, rcvd' = rcvd
  PROVE  FrameInv'
BY DEF FrameInv, Delivered, Framed, InSync

\* Sending a packet puts it behind all that is pending.
LEMMA ArriveFrame ==
  ASSUME TypeOK, FrameInv, NEW packet \in Packets, Arrive(packet)
  PROVE  FrameInv'
<1>1. buf \in Seq(Byte) /\ line \in Seq(Byte) /\ packet \in Seq(Byte) /\ Pending \in Seq(Byte)
  BY PacketsAssumption, ConcatProperties DEF TypeOK, Pending
<1>2. sent' = Append(sent, packet) /\ rcvd' = rcvd /\ Pending' = Pending \o packet
  <2>1. (buf \o line) \o packet = buf \o (line \o packet)
    <3>1. buf \in Seq(Byte) /\ line \in Seq(Byte) /\ packet \in Seq(Byte)
      BY <1>1
    <3> QED
      BY <3>1, BytesAssociative, Zenon
  <2>2. buf' = buf /\ line' = line \o packet
    BY DEF Arrive
  <2>3. Pending' = Pending \o packet
    BY <2>1, <2>2, Zenon DEF Pending
  <2> QED
    BY <2>3 DEF Arrive
<1>3. Delivered /\ Len(sent) \in Nat /\ Len(rcvd) \in Nat /\ Len(rcvd) <= Len(sent) /\ sent \in Seq(Packets)
  BY LenFacts DEF FrameInv, Delivered
<1>4. Delivered'
  <2>1. sent' \in Seq(Packets) /\ Len(sent') = Len(sent) + 1 /\ \A i \in 1 .. Len(sent) : sent'[i] = sent[i]
    BY <1>2, <1>3, AppendProperties
  <2>2. InSync'
    <3>1. ASSUME NEW i \in 1 .. Len(rcvd) PROVE rcvd[i] = AsSent(sent'[i])
      <4>1. i \in 1 .. Len(sent)
        BY <1>3
      <4>2. rcvd[i] = AsSent(sent[i]) /\ sent'[i] = sent[i]
        BY <1>3, <2>1, <4>1 DEF Delivered, InSync
      <4> QED
        BY <4>2, Zenon
    <3>2. Len(rcvd) <= Len(sent')
      BY <1>3, <2>1
    <3> QED
      BY <1>2, <3>1, <3>2, Zenon DEF InSync, AsSent
  <2> QED
    BY <1>2, <1>3, <2>1, <2>2 DEF Delivered
<1>5. PICK at : Boundaries(at, Pending, Len(rcvd), sent)
  BY DEF FrameInv, Framed
<1>6. \E b \in [Len(rcvd) + 1 .. Len(sent') + 1 -> 0 .. Len(Pending')] :
        Boundaries(b, Pending', Len(rcvd), sent')
  BY <1>1, <1>2, <1>3, <1>5, BoundariesAppend
<1> QED
  BY <1>2, <1>4, <1>6 DEF FrameInv, Framed

\* The packet that TryRx is to return next.
NextPacket == sent[Len(rcvd) + 1]

\* If anything is pending, all of the next packet is, in front.
LEMMA FirstPacket ==
  ASSUME TypeOK, FrameInv, Len(Pending) > 0
  PROVE  /\ Len(rcvd) < Len(sent)
         /\ NextPacket \in Packets /\ NextPacket \in Seq(Byte)
         /\ Len(NextPacket) \in Nat /\ Len(NextPacket) <= Len(Pending)
         /\ \A j \in 1 .. Len(NextPacket) : Pending[j] = NextPacket[j]
<1>1. Delivered /\ Len(sent) \in Nat /\ Len(rcvd) \in Nat /\ Len(rcvd) <= Len(sent)
  BY LenFacts DEF FrameInv
<1>2. Len(Pending) \in Nat
  BY ConcatProperties, LenProperties DEF TypeOK, Pending
<1>3. PICK at : Boundaries(at, Pending, Len(rcvd), sent)
  BY DEF FrameInv, Framed
<1>4. Len(rcvd) < Len(sent)
  BY <1>1, <1>2, <1>3 DEF Boundaries
<1> DEFINE i == Len(rcvd) + 1
<1>5. i \in 1 .. Len(sent) /\ i \in Len(rcvd) + 1 .. Len(sent) /\ i + 1 \in Len(rcvd) + 1 .. Len(sent) + 1
  BY <1>1, <1>4
<1> HIDE DEF i
<1>6. sent[i] \in Packets /\ sent[i] \in Seq(Byte) /\ Len(sent[i]) \in Nat
  BY <1>1, <1>5, SentFacts
<1>7. /\ at[i] = 0 /\ at[i + 1] = at[i] + Len(sent[i]) /\ at[i + 1] \in 0 .. Len(Pending)
      /\ \A j \in 1 .. Len(sent[i]) : Pending[at[i] + j] = sent[i][j]
  <2>1. at[i] = 0
    BY <1>3 DEF Boundaries, i
  <2> QED
    BY <1>3, <1>5, <2>1, Zenon DEF Boundaries
<1>8. Len(sent[i]) <= Len(Pending) /\ \A j \in 1 .. Len(sent[i]) : Pending[j] = sent[i][j]
  BY <1>2, <1>6, <1>7
<1> QED
  BY <1>4, <1>6, <1>8 DEF i, NextPacket

\* A whole packet is delivered as it was sent.
LEMMA DeliverWhole ==
  ASSUME WholePackets, NEW p \in Packets, Deliver(p)
  PROVE  /\ pc' = "ready" /\ ret'.pdu # <<>>
         /\ <<ret'.addr, ret'.pdu, ret'.err>> = AsSent(p)
         /\ AsSent(p) \in Byte \X Seq(Byte) \X RxError
<1>1. p \in Seq(Byte) /\ Len(p) \in Nat /\ Len(p) >= 4 /\ \A i \in 1 .. Len(p) : p[i] \in Byte
  BY PacketsAssumption, LenProperties, ElementOfSeq DEF WholePackets
<1>2. CRC(SubSeq(p, 1, Len(p) - 2)) = p[Len(p) - 1] + 256 * p[Len(p)]
  BY DEF WholePackets
<1>3. pc' = "ready" /\ ret' = Result("nil", SubSeq(p, 2, Len(p) - 2), p[1])
  BY <1>2, Zenon DEF Deliver, Return
<1>4. SubSeq(p, 2, Len(p) - 2) \in Seq(Byte) /\ Len(SubSeq(p, 2, Len(p) - 2)) >= 1 /\ p[1] \in Byte
  <2> DEFINE z == Len(p) - 2
  <2>1. z \in Int /\ z >= 2 /\ \A i \in 2 .. z : p[i] \in Byte
    BY <1>1
  <2> HIDE DEF z
  <2>2. SubSeq(p, 2, z) \in Seq(Byte) /\ Len(SubSeq(p, 2, z)) = IF 2 <= z THEN z - 2 + 1 ELSE 0
    BY <2>1, SubSeqProperties
  <2>3. Len(SubSeq(p, 2, z)) >= 1
    BY <2>1, <2>2
  <2> QED
    BY <1>1, <2>2, <2>3 DEF z
<1> DEFINE u == SubSeq(p, 2, Len(p) - 2)
<1> HIDE DEF u
<1>5. u # <<>> /\ u \in Seq(Byte)
  <2>1. Len(u) >= 1 /\ u \in Seq(Byte)
    BY <1>4 DEF u
  <2> QED
    BY <2>1, EmptySeq
<1>6. ret' = [err |-> "nil", pdu |-> u, addr |-> p[1]] /\ AsSent(p) = <<p[1], u, "nil">>
  BY <1>3, Zenon DEF u, Result, AsSent
<1> QED
  BY <1>3, <1>4, <1>5, <1>6 DEF RxError

LEMMA AppendReceived ==
  ASSUME NEW T, NEW e \in T, rcvd \in Seq(T), rcvd' = Append(rcvd, e)
  PROVE  /\ rcvd' \in Seq(T) /\ Len(rcvd') = Len(rcvd) + 1
         /\ \A i \in 1 .. Len(rcvd) : rcvd'[i] = rcvd[i]
         /\ rcvd'[Len(rcvd) + 1] = e
BY AppendProperties

\* Returning the next packet, whose last byte came in with this read.
LEMMA DeliverFrame ==
  ASSUME TypeOK, FrameInv, WholePackets, NEW k \in Nat, k <= Len(line),
         Len(buf) + k = Len(NextPacket), Len(buf) + k > 0,
         Deliver(buf \o SubSeq(line, 1, k)),
         line' = SubSeq(line, k + 1, Len(line)), buf' = <<>>, sent' = sent,
         rcvd' = IF pc' = "ready" /\ ret'.pdu # <<>>
                   THEN Append(rcvd, <<ret'.addr, ret'.pdu, ret'.err>>) ELSE rcvd
  PROVE  FrameInv'
<1> DEFINE all == buf \o SubSeq(line, 1, k)
           rest == SubSeq(line, k + 1, Len(line))
           p == NextPacket
<1>1. /\ all \in Seq(Byte) /\ Len(all) = Len(buf) + k /\ rest \in Seq(Byte)
      /\ buf \in Seq(Byte) /\ line \in Seq(Byte)
  BY TakeBytes DEF TypeOK
<1>2. Pending = all \o rest
  BY <1>1, MoveBytes, Zenon
<1> HIDE DEF all, rest
<1>3. Len(Pending) = Len(all) + Len(rest) /\ Len(all) \in Nat /\ Len(rest) \in Nat /\ Len(all) > 0
      /\ Pending \in Seq(Byte)
  BY <1>1, <1>2, ConcatProperties, LenProperties, Zenon
<1>4. \A j \in 1 .. Len(all) : Pending[j] = all[j]
  BY <1>1, <1>2, <1>3, ConcatProperties
<1>5. /\ Len(rcvd) < Len(sent) /\ p \in Packets /\ p \in Seq(Byte)
      /\ \A j \in 1 .. Len(p) : Pending[j] = p[j]
  BY <1>3, FirstPacket
<1>6. Len(all) = Len(p)
  BY <1>1
<1>7. all = p
  <2>1. \A j \in 1 .. Len(all) : all[j] = p[j]
    BY <1>4, <1>5, <1>6
  <2> QED
    BY <1>1, <1>5, <1>6, <2>1, SeqEqual
<1>8. Deliver(p)
  BY <1>7, Zenon DEF all
<1>9. rcvd' = Append(rcvd, AsSent(p)) /\ AsSent(p) \in Byte \X Seq(Byte) \X RxError
  BY <1>5, <1>8, DeliverWhole
<1>10. Delivered /\ Len(sent) \in Nat /\ Len(rcvd) \in Nat
  BY LenFacts DEF FrameInv
<1>11. /\ rcvd' \in Seq(Byte \X Seq(Byte) \X RxError) /\ Len(rcvd') = Len(rcvd) + 1
       /\ \A i \in 1 .. Len(rcvd) : rcvd'[i] = rcvd[i]
       /\ rcvd'[Len(rcvd) + 1] = AsSent(p)
  <2> DEFINE T == Byte \X Seq(Byte) \X RxError
             e == AsSent(p)
  <2>1. rcvd \in Seq(T) /\ e \in T /\ rcvd' = Append(rcvd, e)
    BY <1>9, <1>10 DEF Delivered
  <2> HIDE DEF T, e
  <2>2. /\ rcvd' \in Seq(T) /\ Len(rcvd') = Len(rcvd) + 1
        /\ \A i \in 1 .. Len(rcvd) : rcvd'[i] = rcvd[i]
        /\ rcvd'[Len(rcvd) + 1] = e
    BY <2>1, AppendReceived, Zenon
  <2> QED
    BY <2>2 DEF T, e
<1>12. Delivered'
  <2>1. ASSUME NEW i \in 1 .. Len(rcvd) + 1 PROVE rcvd'[i] = AsSent(sent[i])
    <3>1. CASE i <= Len(rcvd)
      BY <1>10, <1>11, <3>1 DEF Delivered, InSync
    <3>2. CASE i = Len(rcvd) + 1
      BY <1>11, <3>2, Zenon DEF NextPacket
    <3> QED
      BY <1>10, <3>1, <3>2
  <2>2. InSync'
    <3>1. Len(rcvd') <= Len(sent') /\ \A i \in 1 .. Len(rcvd') : rcvd'[i] = AsSent(sent'[i])
      <4>1. Len(rcvd') <= Len(sent')
        BY <1>5, <1>10, <1>11
      <4> QED
        BY <1>11, <2>1, <4>1, Zenon
    <3> QED
      BY <3>1, Zenon DEF InSync, AsSent
  <2> QED
    BY <1>10, <1>11, <2>2 DEF Delivered
<1>13. PICK at : Boundaries(at, Pending, Len(rcvd), sent)
  BY DEF FrameInv, Framed
<1>14. Pending' = SubSeq(Pending, Len(p) + 1, Len(Pending))
  <2>1. Pending' = rest
    BY <1>1, ConcatEmptySeq DEF Pending, rest
  <2>2. /\ SubSeq(Pending, Len(all) + 1, Len(Pending)) \in Seq(Byte)
        /\ Len(SubSeq(Pending, Len(all) + 1, Len(Pending))) = Len(rest)
        /\ \A i \in 1 .. Len(rest) : SubSeq(Pending, Len(all) + 1, Len(Pending))[i] = Pending[Len(all) + i]
    <3>1. Len(all) \in Nat /\ Len(all) <= Len(Pending) /\ Len(Pending) - Len(all) = Len(rest) /\ Pending \in Seq(Byte)
      BY <1>3
    <3> QED
      BY <3>1, SuffixFacts, Zenon
  <2>3. \A i \in 1 .. Len(rest) : Pending[Len(all) + i] = rest[i]
    BY <1>1, <1>2, BytesBehind, Zenon
  <2>4. \A i \in 1 .. Len(rest) : rest[i] = SubSeq(Pending, Len(all) + 1, Len(Pending))[i]
    BY <2>2, <2>3, Zenon
  <2>5. rest = SubSeq(Pending, Len(all) + 1, Len(Pending))
    BY <1>1, <2>2, <2>4, SeqEqual, Zenon
  <2> QED
    BY <1>6, <2>1, <2>5, Zenon
<1>15. \E b \in [Len(rcvd) + 2 .. Len(sent) + 1 -> 0 .. Len(Pending')] :
         Boundaries(b, Pending', Len(rcvd) + 1, sent)
  <2>1. Len(p) \in Nat /\ Len(p) = Len(sent[Len(rcvd) + 1]) /\ sent \in Seq(Packets)
    BY <1>3, <1>6, <1>10 DEF NextPacket, Delivered
  <2> QED
    BY <1>3, <1>5, <1>10, <1>13, <1>14, <2>1, BoundariesDrop, Zenon
<1>16. Framed'
  <2>1. (Len(rcvd) + 1) + 1 = Len(rcvd) + 2
    BY <1>10
  <2> QED
    BY <1>11, <1>15, <2>1, Zenon DEF Framed
<1> QED
  BY <1>12, <1>16 DEF FrameInv

\* No packet but a delivered one is returned.
LEMMA HeadReturnsNothing ==
  ASSUME NEW k, NEW failed, ReadHead(k, failed)
  PROVE  pc' = "ready" => ret'.pdu = <<>>
<1>1. \/ \E e, a : ret' = Result(e, <<>>, a)
      \/ pc' \in {"panic", "body"}
  BY DEF ReadHead, InferThenRead, CallRead, Return
<1> QED
  BY <1>1 DEF Result

\* What both reads do to the pending bytes unless a packet is delivered.
LEMMA ReadFrame ==
  ASSUME TypeOK, FrameInv, NEW k \in Nat, k <= Len(line),
         buf' = buf \o SubSeq(line, 1, k), line' = SubSeq(line, k + 1, Len(line)),
         sent' = sent, rcvd' = rcvd
  PROVE  FrameInv'
<1>1. Pending' = Pending
  BY MoveBytes, Zenon DEF TypeOK, Pending
<1> QED
  BY <1>1, QuietFrame

\* If b are the first of the pending bytes, r the others, then b starts with
\* the next packet, or the next packet with b.
LEMMA FirstBytes ==
  ASSUME TypeOK, FrameInv, WholePackets, NEW b \in Seq(Byte), NEW r \in Seq(Byte),
         Pending = b \o r, Len(b) >= 1
  PROVE  /\ NextPacket \in Packets /\ NextPacket \in Seq(Byte) /\ Len(NextPacket) \in Nat
         /\ Len(NextPacket) >= 4 /\ Len(NextPacket) = Infer(NextPacket).n + 3
         /\ Infer(NextPacket).err = "nil" /\ Len(NextPacket) <= Len(b) + Len(r)
         /\ \A j \in 1 .. Len(b) : j <= Len(NextPacket) => b[j] = NextPacket[j]
<1>1. /\ Len(Pending) = Len(b) + Len(r) /\ Len(b) \in Nat /\ Len(r) \in Nat
      /\ \A j \in 1 .. Len(b) : Pending[j] = b[j]
  BY ConcatProperties, LenProperties
<1>2. /\ NextPacket \in Packets /\ NextPacket \in Seq(Byte) /\ Len(NextPacket) \in Nat
      /\ Len(NextPacket) <= Len(Pending)
      /\ \A j \in 1 .. Len(NextPacket) : Pending[j] = NextPacket[j]
  BY <1>1, FirstPacket
<1>3. /\ Len(NextPacket) >= 4 /\ Len(NextPacket) = Infer(NextPacket).n + 3
      /\ Infer(NextPacket).err = "nil"
  BY <1>2 DEF WholePackets
<1>4. ASSUME NEW j \in 1 .. Len(b), j <= Len(NextPacket) PROVE b[j] = NextPacket[j]
  BY <1>1, <1>2, <1>4
<1> QED
  BY <1>1, <1>2, <1>3, <1>4

LEMMA BufferedBytes ==
  ASSUME TypeOK, FrameInv, WholePackets, Len(buf) >= 1
  PROVE  /\ NextPacket \in Packets /\ NextPacket \in Seq(Byte) /\ Len(NextPacket) \in Nat
         /\ Len(NextPacket) >= 4 /\ Len(NextPacket) = Infer(NextPacket).n + 3
         /\ Infer(NextPacket).err = "nil" /\ Len(NextPacket) <= Len(buf) + Len(line)
         /\ \A j \in 1 .. Len(buf) : j <= Len(NextPacket) => buf[j] = NextPacket[j]
BY FirstBytes, Zenon DEF Pending, TypeOK

--------------------------------------------------------------------------------
(***************************************************************************)
(* A client.                                                               *)
(***************************************************************************)
\* Modbus allows packets of 256 bytes.  One of 258 or more, of which 257
\* bytes are buffered when TryRx is called, is dropped by resetRxBuf.
ShortPackets == \A p \in Packets : Len(p) <= 257

\* A response whose length could be inferred from its beginning.
LEMMA ResponsePrefix ==
  ASSUME NEW b \in Seq(Byte), NEW c \in Seq(Byte), Len(b) >= 1, Len(c) >= 2,
         b[1] = c[1], Len(b) >= 2 => b[2] = c[2],
         InferResponsePacketLength(b).err # "missing"
  PROVE  InferResponsePacketLength(c) = InferResponsePacketLength(b)
BY SMTT(30) DEF InferResponsePacketLength, Counted, Inferred, Byte

\* What TryRx infers of the next packet is right as soon as it is inferred.
LEMMA ClientInference ==
  ASSUME ClientPort, TypeOK, FrameInv, WholePackets, Len(buf) >= 2, Infer(buf).err # "missing"
  PROVE  Infer(buf) = Infer(NextPacket)
<1> DEFINE p == NextPacket
<1>1. /\ p \in Seq(Byte) /\ Len(p) \in Nat /\ Len(p) >= 4
      /\ \A j \in 1 .. Len(buf) : j <= Len(p) => buf[j] = p[j]
  BY BufferedBytes, LenProperties DEF TypeOK
<1>2. buf \in Seq(Byte) /\ Len(buf) \in Nat /\ buf[2] = p[2] /\ (Len(buf) >= 3 => buf[3] = p[3])
  <2>1. buf \in Seq(Byte) /\ Len(buf) \in Nat
    BY LenProperties DEF TypeOK
  <2>2. 2 \in 1 .. Len(buf) /\ (Len(buf) >= 3 => 3 \in 1 .. Len(buf)) /\ 2 <= Len(p) /\ 3 <= Len(p)
    BY <1>1, <2>1
  <2> QED
    BY <1>1, <2>1, <2>2, Zenon
<1> HIDE DEF p
<1>3. Tail(buf) \in Seq(Byte) /\ Len(Tail(buf)) >= 1 /\ Tail(buf)[1] = buf[2]
      /\ (Len(Tail(buf)) >= 2 => Tail(buf)[2] = buf[3] /\ Len(buf) >= 3)
  BY <1>2, TailFacts
<1>4. Tail(p) \in Seq(Byte) /\ Len(Tail(p)) >= 2 /\ Tail(p)[1] = p[2] /\ Tail(p)[2] = p[3]
  BY <1>1, TailFacts
<1>5. Infer(buf) = InferResponsePacketLength(Tail(buf)) /\ Infer(p) = InferResponsePacketLength(Tail(p))
  BY DEF Infer, ClientPort
<1>6. Tail(buf)[1] = Tail(p)[1] /\ (Len(Tail(buf)) >= 2 => Tail(buf)[2] = Tail(p)[2])
  BY <1>2, <1>3, <1>4
<1>7. InferResponsePacketLength(Tail(p)) = InferResponsePacketLength(Tail(buf))
  BY <1>3, <1>4, <1>5, <1>6, ResponsePrefix, Zenon
<1> QED
  BY <1>5, <1>7 DEF p

\* resetRxBuf drops nothing of a short packet.
LEMMA ClientPollFrame ==
  ASSUME ClientPort, WholePackets, ShortPackets, IInv, FrameInv, Poll
  PROVE  FrameInv'
<1>1. TypeOK /\ buf \in Seq(Byte) /\ Len(buf) \in Nat /\ Incomplete(buf) /\ StartInv
  BY LenProperties DEF IInv, TypeOK
<1>2. Len(buf) <= 256
  <2>1. CASE Len(buf) >= 2 /\ Infer(buf).err # "missing"
    <3>1. Infer(buf) = Infer(NextPacket)
      BY <1>1, <2>1, ClientInference
    <3>2. NextPacket \in Packets /\ Len(NextPacket) = Infer(NextPacket).n + 3 /\ Infer(NextPacket).err = "nil"
          /\ Len(NextPacket) \in Nat
      BY <1>1, <2>1, BufferedBytes
    <3>3. Infer(buf).n + 3 <= 257 /\ Infer(buf).err = "nil" /\ Infer(buf).n \in Nat
      BY <1>1, <2>1, <3>1, <3>2, InferFacts DEF ShortPackets, InferFactsFor
    <3>4. Missing(buf) >= 1
      BY <1>1, <2>1, <3>3 DEF Incomplete
    <3> QED
      BY <1>1, <3>3, <3>4 DEF Missing
  <2>2. CASE Len(buf) >= 2 /\ Infer(buf).err = "missing"
    BY <1>1, <2>2, InferFacts DEF InferFactsFor
  <2> QED
    BY <1>1, <2>1, <2>2
<1>3. buf' = buf
  <2>1. CASE Len(buf) < 1
    BY <1>1, <2>1 DEF Poll, TryRx, AfterReset
  <2>2. CASE ~(Len(buf) < 1)
    <3>1. buf # <<>> /\ dataStart = 0
      BY <1>1, <2>2, EmptySeq DEF StartInv
    <3>2. ~MustReset
      BY <1>1, <1>2, <2>2, <3>1 DEF MustReset, dataEnd
    <3> QED
      BY <3>2 DEF Poll, TryRx
  <2> QED
    BY <2>1, <2>2
<1>4. Pending' = Pending /\ sent' = sent /\ rcvd' = rcvd
  BY <1>3, Zenon DEF Poll, TryRx, Pending
<1> QED
  BY <1>4, QuietFrame

\* The second read of TryRx returns the next packet, or nothing.
LEMMA ClientBodyFrame ==
  ASSUME ClientPort, WholePackets, IInv, FrameInv, NEW k \in 0 .. need, NEW failed \in BOOLEAN,
         k <= Len(line), ReadBody(k, failed), sent' = sent,
         rcvd' = IF pc' = "ready" /\ ret'.pdu # <<>>
                   THEN Append(rcvd, <<ret'.addr, ret'.pdu, ret'.err>>) ELSE rcvd
  PROVE  FrameInv'
<1> DEFINE all == buf \o SubSeq(line, 1, k)
           end == Infer(buf).n + 3
<1>1. TypeOK /\ Len(buf) >= 2 /\ need = Missing(buf) /\ need \in Int /\ k \in Nat
      /\ Len(buf) \in Nat /\ InferFactsFor(buf)
  BY InferFacts, LenProperties DEF IInv, NeedInv, ReadBody, TypeOK
<1>2. all \in Seq(Byte) /\ Len(all) = Len(buf) + k
  BY <1>1, TakeFacts
<1>3. /\ line' = SubSeq(line, k + 1, Len(line))
      /\ IF ~failed /\ Infer(buf).err = "nil" /\ k >= need
           THEN Deliver(SubSeq(all, 1, end)) /\ Consume(all, end)
           ELSE /\ Return(IF failed THEN "io"
                          ELSE IF Infer(buf).err # "nil" THEN Infer(buf).err ELSE "missing", <<>>, 0)
                /\ buf' = all /\ dataStart' = dataStart
  BY DEF ReadBody
<1>4. CASE ~failed /\ Infer(buf).err = "nil" /\ k >= need
  <2>1. Infer(buf) = Infer(NextPacket) /\ Len(NextPacket) = Infer(NextPacket).n + 3
    BY <1>1, <1>4, ClientInference, BufferedBytes
  <2>2. Len(buf) + k = end /\ end = Len(NextPacket) /\ end > 0 /\ end \in Nat
    <3>1. need = Infer(buf).n + 3 - Len(buf) /\ Infer(buf).n \in Nat /\ k = need
      BY <1>1, <1>4 DEF Missing, InferFactsFor
    <3>2. Len(buf) + k = end /\ end > 0 /\ end \in Nat
      BY <1>1, <3>1
    <3> QED
      BY <2>1, <3>2
  <2>3. SubSeq(all, 1, end) = all /\ SubSeq(all, end + 1, Len(all)) = <<>>
    <3>1. SubSeq(all, 1, Len(all)) = all
      BY <1>2, SubSeqFull
    <3>2. Len(all) = end
      BY <1>2, <2>2
    <3>3. SubSeq(all, end + 1, Len(all)) = <<>>
      BY <2>2, <3>2, SubSeqEmpty
    <3> QED
      BY <3>1, <3>2, <3>3, Zenon
  <2>4. Deliver(all) /\ buf' = <<>>
    BY <1>3, <1>4, <2>3, Zenon DEF Consume
  <2> QED
    BY <1>1, <1>3, <2>2, <2>4, DeliverFrame
<1>5. CASE ~(~failed /\ Infer(buf).err = "nil" /\ k >= need)
  <2>1. buf' = all /\ ret'.pdu = <<>>
    BY <1>3, <1>5 DEF Return, Result
  <2> QED
    BY <1>1, <1>3, <2>1, ReadFrame, Zenon
<1> QED
  BY <1>4, <1>5

LEMMA FrameInit == Init => FrameInv
<1> SUFFICES ASSUME Init PROVE FrameInv
  OBVIOUS
<1>1. sent = <<>> /\ rcvd = <<>> /\ buf = <<>> /\ line = <<>>
  BY DEF Init, RxInit
<1>2. Len(<<>>) = 0 /\ <<>> \in Seq(Packets) /\ <<>> \in Seq(Byte \X Seq(Byte) \X RxError)
      /\ <<>> \in Seq(Byte)
  BY EmptySeq
<1>3. Pending = <<>>
  BY <1>1, <1>2, ConcatEmptySeq DEF Pending
<1>4. Delivered
  BY <1>1, <1>2 DEF Delivered, InSync
<1>5. Boundaries([i \in {1} |-> 0], <<>>, 0, <<>>)
  BY <1>2 DEF Boundaries
<1>6. Framed
  <2>1. [i \in {1} |-> 0] \in [0 + 1 .. Len(<<>>) + 1 -> 0 .. Len(<<>>)]
    BY <1>2
  <2>2. \E at \in [Len(rcvd) + 1 .. Len(sent) + 1 -> 0 .. Len(<<>>)] : Boundaries(at, <<>>, Len(rcvd), sent)
    BY <1>1, <1>2, <1>5, <2>1, Zenon
  <2> QED
    BY <1>3, <2>2, Zenon DEF Framed
<1> QED
  BY <1>4, <1>6 DEF FrameInv

LEMMA ClientNextFrame ==
  ASSUME ClientPort, WholePackets, ShortPackets, IInv, FrameInv, [Next]_vars
  PROVE  FrameInv'
<1>0. TypeOK
  BY DEF IInv
<1>1. CASE \E packet \in Packets : Arrive(packet)
  BY <1>0, <1>1, ArriveFrame
<1>2. CASE Poll
  BY <1>2, ClientPollFrame
<1>3. CASE ReceiveAny
  <2>1. PICK k \in 0 .. need, failed \in BOOLEAN : Receive(k, failed)
    BY <1>3 DEF ReceiveAny
  <2>2. /\ k <= Len(line) /\ (ReadHead(k, failed) \/ ReadBody(k, failed)) /\ sent' = sent
        /\ rcvd' = IF pc' = "ready" /\ ret'.pdu # <<>>
                     THEN Append(rcvd, <<ret'.addr, ret'.pdu, ret'.err>>) ELSE rcvd
    BY <2>1 DEF Receive, ReadReturns, PortRead
  <2>3. CASE ReadHead(k, failed)
    <3>1. k \in Nat /\ rcvd' = rcvd /\ buf' = buf \o SubSeq(line, 1, k) /\ line' = SubSeq(line, k + 1, Len(line))
      <4>1. pc' = "ready" => ret'.pdu = <<>>
        BY <2>3, HeadReturnsNothing
      <4>2. rcvd' = rcvd
        BY <2>2, <4>1
      <4>3. k \in Nat
        BY <1>0 DEF TypeOK
      <4> QED
        BY <2>3, <4>2, <4>3 DEF ReadHead
    <3> QED
      BY <1>0, <2>2, <3>1, ReadFrame, Zenon
  <2>4. CASE ReadBody(k, failed)
    BY <2>2, <2>4, ClientBodyFrame
  <2> QED
    BY <2>2, <2>3, <2>4
<1>4. CASE UNCHANGED vars
  BY <1>4, QuietFrame DEF vars, Pending
<1> QED
  BY <1>1, <1>2, <1>3, <1>4 DEF Next

\* A client gets the answers as they were sent, in order, each once and
\* whole, however port.Read cuts them up (TryRx, rtustate.go:53-116).
THEOREM ClientInSync ==
  ASSUME ClientPort, WholePackets, ShortPackets
  PROVE  Spec => []InSync
<1>1. IInv /\ [Next]_vars => IInv'
  BY NextInv
<1>2. IInv /\ FrameInv /\ [Next]_vars => FrameInv'
  BY ClientNextFrame
<1>3. FrameInv => InSync
  BY DEF FrameInv, Delivered
<1> QED
  BY <1>1, <1>2, <1>3, InitInv, FrameInit, PTL DEF Spec

--------------------------------------------------------------------------------
(***************************************************************************)
(* A server, if requests come in whole: a read returns fewer bytes than it *)
(* was asked for only if there are no more.                                *)
(***************************************************************************)
ServerPort == ~IsResponse /\ ~ErrWithData /\ Cuts = {}

\* What is left in the buffer between two calls of TryRx: nothing, or where
\* a call stopped: the two bytes of the first read, when the second failed,
\* and the six bytes more that do not make a request of several values whole.
Part(b) ==
  \/ b = <<>>
  \/ Len(b) >= 2 /\ Len(b) <= 2
  \/ Len(b) >= 8 /\ Len(b) <= 8 /\ b[2] \in WriteMultipleFCs

ServerInv ==
  /\ TypeOK /\ StartInv
  /\ Part(buf)
  /\ pc = "head" => buf = <<>> /\ need = 2
  /\ pc = "body" => Len(buf) >= 2 /\ need = Missing(buf)
  /\ pc # "panic"
  /\ NothingBehind

ShortFCs == {FCReadExceptionStatus, FCGetComEventCounter, FCGetComEventLog, FCReportServerID}

\* No function code is in two of the groups.
LEMMA DisjointCodes ==
  /\ (ReadFCs \cup WriteSingleFCs) \cap ShortFCs = {}
  /\ (ReadFCs \cup WriteSingleFCs) \cap WriteMultipleFCs = {}
  /\ ShortFCs \cap WriteMultipleFCs = {}
BY DEF ReadFCs, WriteSingleFCs, ShortFCs, WriteMultipleFCs, FCReadCoils,
       FCReadDiscreteInputs, FCReadHoldingRegisters, FCReadInputRegisters, FCWriteSingleCoil,
       FCWriteSingleRegister, FCWriteMultipleCoils, FCWriteMultipleRegisters,
       FCReadExceptionStatus, FCGetComEventCounter, FCGetComEventLog, FCReportServerID

\* A tail holds the elements from the second on.
LEMMA TailElements ==
  ASSUME NEW b \in Seq(Byte), Len(b) >= 2
  PROVE  /\ Tail(b) \in Seq(Byte) /\ Len(Tail(b)) = Len(b) - 1
         /\ Tail(b)[1] = b[2] /\ (Len(b) >= 7 => Tail(b)[6] = b[7])
<1>1. b # <<>> /\ Len(b) \in Nat
  BY EmptySeq, LenProperties
<1>2. /\ Tail(b) \in Seq(Byte) /\ Len(Tail(b)) = Len(b) - 1
      /\ \A i \in 1 .. Len(Tail(b)) : Tail(b)[i] = b[i + 1]
  BY <1>1, HeadTailProperties
<1> QED
  BY <1>1, <1>2

\* The length of a request, function code by function code.
LEMMA RequestLength ==
  ASSUME NEW b \in Seq(Byte), Len(b) >= 1
  PROVE  LET r == InferRequestPacketLength(b) IN
         \/ b[1] \in ReadFCs \cup WriteSingleFCs /\ r = Inferred(5, "nil")
         \/ b[1] \in ShortFCs /\ r = Inferred(1, "nil")
         \/ b[1] \in WriteMultipleFCs /\ Len(b) < 6 /\ r = Inferred(6 - Len(b), "missing")
         \/ b[1] \in WriteMultipleFCs /\ Len(b) >= 6 /\ r = Inferred(b[6] + 6, "nil")
         \/ b[1] \notin ReadFCs \cup WriteSingleFCs \cup ShortFCs \cup WriteMultipleFCs /\ r.err # "nil"
<1> DEFINE Five    == ReadFCs \cup WriteSingleFCs
           Refused == UnimplementedAccess \cup {FCDiagnostic, FCReadDeviceIdentification}
<1>1. /\ Five \cap ShortFCs = {} /\ Five \cap WriteMultipleFCs = {} /\ Five \cap Refused = {}
      /\ ShortFCs \cap WriteMultipleFCs = {} /\ ShortFCs \cap Refused = {}
      /\ WriteMultipleFCs \cap Refused = {}
  BY DEF ReadFCs, WriteSingleFCs, ShortFCs, WriteMultipleFCs, UnimplementedAccess, FCReadCoils,
         FCReadDiscreteInputs, FCReadHoldingRegisters, FCReadInputRegisters, FCWriteSingleCoil,
         FCWriteSingleRegister, FCWriteMultipleCoils, FCWriteMultipleRegisters, FCReadFileRecord,
         FCReadFIFOQueue, FCReadExceptionStatus, FCDiagnostic, FCGetComEventCounter, FCGetComEventLog,
         FCReportServerID, FCReadDeviceIdentification
<1>2. Len(b) \in Nat
  BY LenProperties
<1>3. InferRequestPacketLength(b) =
        CASE b[1] \in Five             -> Inferred(5, "nil")
          [] b[1] \in ShortFCs         -> Inferred(1, "nil")
          [] b[1] \in WriteMultipleFCs ->
               IF Len(b) < 6 THEN Inferred(6 - Len(b), "missing") ELSE Inferred(b[6] + 6, "nil")
          [] b[1] \in Refused          -> Inferred(0, "exception")
          [] OTHER                     -> Inferred(0, "badfc")
  BY <1>2 DEF InferRequestPacketLength, ShortFCs
<1> HIDE DEF Five, Refused
<1>4. CASE b[1] \in Five
  BY <1>1, <1>3, <1>4 DEF Five
<1>5. CASE b[1] \in ShortFCs
  BY <1>1, <1>3, <1>5
<1>6. CASE b[1] \in WriteMultipleFCs
  BY <1>1, <1>2, <1>3, <1>6
<1>7. CASE b[1] \notin Five \cup ShortFCs \cup WriteMultipleFCs
  BY <1>3, <1>7 DEF Five, Inferred
<1> QED
  BY <1>4, <1>5, <1>6, <1>7

\* What a server that has buffered b of a whole request p asks for: the rest
\* of the request, or six bytes of a longer one.
LEMMA RequestPiece ==
  ASSUME ServerPort, NEW b \in Seq(Byte), Part(b), Len(b) >= 2,
         NEW p \in Seq(Byte), Len(p) >= 4, Infer(p).err = "nil", Len(p) = Infer(p).n + 3,
         \A j \in 1 .. Len(b) : j <= Len(p) => b[j] = p[j]
  PROVE  /\ Missing(b) \in Int /\ Missing(b) >= 1 /\ Len(b) + Missing(b) <= Len(p)
         /\ Len(b) + Missing(b) <= 264
         /\ \/ /\ Infer(b).err = "nil" /\ Len(b) + Missing(b) = Len(p)
               /\ Infer(b).n + 3 = Len(p)
            \/ /\ Infer(b).err = "missing" /\ Len(b) <= 2 /\ Missing(b) = 6
               /\ b[2] \in WriteMultipleFCs
<1> DEFINE n == Len(b)
           m == Len(p)
<1>1. m \in Nat /\ m >= 4 /\ m = Infer(p).n + 3
  BY LenProperties
<1>2. n \in Nat /\ n >= 2
  BY LenProperties
<1>n. m \in Nat /\ n \in Nat /\ n >= 2
  BY <1>1, <1>2
<1>3. (n <= 2) \/ (n >= 8 /\ n <= 8 /\ b[2] \in WriteMultipleFCs)
  BY EmptySeq DEF Part
<1>4. b[2] = p[2] /\ (n >= 8 /\ m >= 7 => b[7] = p[7])
  <2>1. 2 \in 1 .. n /\ 2 <= m /\ (n >= 8 => 7 \in 1 .. n)
    BY <1>1, <1>2
  <2> QED
    BY <1>1, <2>1, Zenon
<1> DEFINE tb == Tail(b)
           c == Tail(p)
<1>5. tb \in Seq(Byte) /\ Len(tb) = n - 1 /\ tb[1] = b[2] /\ (n >= 8 => tb[6] = b[7])
  BY <1>2, TailElements
<1>6. c \in Seq(Byte) /\ Len(c) = m - 1 /\ c[1] = p[2] /\ (m >= 7 => c[6] = p[7] /\ p[7] \in Byte)
  <2>1. m >= 7 => p[7] \in Byte
    BY <1>1, ElementOfSeq
  <2> QED
    BY <1>1, <2>1, TailElements
<1>7. Infer(b) = InferRequestPacketLength(tb) /\ Infer(p) = InferRequestPacketLength(c)
  BY DEF Infer, ServerPort
<1> HIDE DEF tb, c
<1>8. \/ c[1] \in ReadFCs \cup WriteSingleFCs /\ Infer(p) = Inferred(5, "nil") /\ Infer(b) = Inferred(5, "nil")
      \/ c[1] \in ShortFCs /\ Infer(p) = Inferred(1, "nil") /\ Infer(b) = Inferred(1, "nil")
      \/ c[1] \in WriteMultipleFCs /\ Infer(p) = Inferred(c[6] + 6, "nil") /\ m >= 7
  <2>1. Len(tb) >= 1 /\ Len(c) >= 1 /\ Len(tb) \in Nat /\ Len(c) \in Nat
    BY <1>1, <1>2, <1>5, <1>6
  <2>2. Infer(p).err = "nil" /\ tb[1] = c[1]
    BY <1>1, <1>4, <1>5, <1>6
  <2>3. Inferred(6 - Len(c), "missing").err # "nil"
    BY DEF Inferred
  <2>4. \/ c[1] \in ReadFCs \cup WriteSingleFCs /\ Infer(p) = Inferred(5, "nil")
        \/ c[1] \in ShortFCs /\ Infer(p) = Inferred(1, "nil")
        \/ c[1] \in WriteMultipleFCs /\ Infer(p) = Inferred(c[6] + 6, "nil") /\ Len(c) >= 6
    BY <1>6, <1>7, <2>1, <2>2, <2>3, RequestLength, Zenon
  <2>5. /\ c[1] \in ReadFCs \cup WriteSingleFCs => Infer(b) = Inferred(5, "nil")
        /\ c[1] \in ShortFCs => Infer(b) = Inferred(1, "nil")
    BY <1>5, <1>7, <2>1, <2>2, RequestLength, DisjointCodes
  <2>6. Len(c) >= 6 => m >= 7
    BY <1>1, <1>6
  <2> QED
    BY <2>4, <2>5, <2>6, Zenon
<1>9. CASE c[1] \in ReadFCs \cup WriteSingleFCs /\ Infer(p) = Inferred(5, "nil") /\ Infer(b) = Inferred(5, "nil")
  <2>1. Infer(b).err = "nil" /\ Infer(b).n = 5 /\ m = 8 /\ Missing(b) = 8 - n
    BY <1>1, <1>2, <1>9 DEF Missing, Inferred
  <2>2. c[1] \notin WriteMultipleFCs
    BY <1>9, DisjointCodes, Zenon
  <2>3. n <= 2
    BY <1>3, <1>4, <1>6, <2>2
  <2>4. Missing(b) \in Int /\ Missing(b) >= 1 /\ n + Missing(b) <= m
        /\ n + Missing(b) <= 264
        /\ n + Missing(b) = m /\ Infer(b).n + 3 = m
    <3> HIDE DEF n, m
    <3> QED
      BY <1>n, <2>1, <2>3
  <2> QED
    BY <2>1, <2>4, Zenon
<1>10. CASE c[1] \in ShortFCs /\ Infer(p) = Inferred(1, "nil") /\ Infer(b) = Inferred(1, "nil")
  <2>1. Infer(b).err = "nil" /\ Infer(b).n = 1 /\ m = 4 /\ Missing(b) = 4 - n
    BY <1>1, <1>2, <1>10 DEF Missing, Inferred
  <2>2. c[1] \notin WriteMultipleFCs
    BY <1>10, DisjointCodes, Zenon
  <2>3. n <= 2
    BY <1>3, <1>4, <1>6, <2>2
  <2>4. Missing(b) \in Int /\ Missing(b) >= 1 /\ n + Missing(b) <= m
        /\ n + Missing(b) <= 264
        /\ n + Missing(b) = m /\ Infer(b).n + 3 = m
    <3> HIDE DEF n, m
    <3> QED
      BY <1>n, <2>1, <2>3
  <2> QED
    BY <2>1, <2>4, Zenon
<1>11. CASE c[1] \in WriteMultipleFCs /\ Infer(p) = Inferred(c[6] + 6, "nil") /\ m >= 7
  <2>1. c[6] \in Nat /\ c[6] <= 255 /\ m = c[6] + 9
    <3>1. c[6] \in Byte
      BY <1>6, <1>11
    <3>2. Infer(p).n = c[6] + 6
      BY <1>11 DEF Inferred
    <3>3. c[6] \in Nat /\ c[6] <= 255
      BY <3>1, ByteFacts
    <3> QED
      BY <1>1, <3>2, <3>3
  <2>2. CASE n <= 2
    <3>1. Len(tb) \in Nat /\ Len(tb) < 6 /\ Len(tb) >= 1 /\ 6 - Len(tb) = 5 /\ tb[1] \in WriteMultipleFCs
      BY <1>2, <1>4, <1>5, <1>6, <1>11, <2>2
    <3>2. Infer(b) = Inferred(6 - Len(tb), "missing")
      BY <1>5, <1>7, <3>1, RequestLength, DisjointCodes
    <3>3. Infer(b).err = "missing" /\ Infer(b).n = 5
      BY <3>1, <3>2 DEF Inferred
    <3>4. Missing(b) = 5 + 3 - n
      BY <3>3 DEF Missing
    <3>5. Missing(b) \in Int /\ Missing(b) >= 1 /\ n + Missing(b) <= m
          /\ n + Missing(b) <= 264
          /\ Missing(b) = 6
      BY <1>1, <1>2, <2>1, <2>2, <3>4
    <3> QED
      BY <1>4, <1>6, <1>11, <2>2, <3>3, <3>5, Zenon
  <2>3. CASE n >= 8 /\ n <= 8
    <3>1. Len(tb) \in Nat /\ ~(Len(tb) < 6) /\ Len(tb) >= 1 /\ tb[6] = c[6] /\ tb[1] \in WriteMultipleFCs
      BY <1>2, <1>4, <1>5, <1>6, <1>11, <2>3
    <3>2. Infer(b) = Inferred(c[6] + 6, "nil")
      BY <1>5, <1>7, <3>1, RequestLength, DisjointCodes
    <3>3. Infer(b).err = "nil" /\ Infer(b).n = c[6] + 6
      BY <3>2 DEF Inferred
    <3>4. Missing(b) = c[6] + 6 + 3 - n
      BY <3>3 DEF Missing
    <3>5. Missing(b) \in Int /\ Missing(b) >= 1 /\ n + Missing(b) <= m
          /\ n + Missing(b) <= 264
          /\ n + Missing(b) = m /\ Infer(b).n + 3 = m
      <4> DEFINE x == c[6]
                 r == Missing(b)
                 i == Infer(b).n
      <4>1. x \in Nat /\ x <= 255 /\ m = x + 9 /\ i = x + 6 /\ r = x + 6 + 3 - n
            /\ n \in Nat /\ n >= 8 /\ n <= 8
        BY <1>n, <2>1, <2>3, <3>3, <3>4
      <4> HIDE DEF x, r, i, n, m
      <4>2. r \in Int /\ r >= 1 /\ n + r <= m /\ n + r <= 264 /\ n + r = m /\ i + 3 = m
        BY <4>1
      <4> QED
        BY <4>2 DEF r, i
    <3> QED
      BY <3>3, <3>5, Zenon
  <2> QED
    BY <1>3, <2>2, <2>3
<1> QED
  BY <1>8, <1>9, <1>10, <1>11

\* The same for the bytes that are buffered, or will be after a read.
LEMMA ServerPiece ==
  ASSUME ServerPort, TypeOK, FrameInv, WholePackets, NEW b \in Seq(Byte), NEW r \in Seq(Byte),
         Pending = b \o r, Part(b), Len(b) >= 2
  PROVE  /\ Missing(b) \in Int /\ Missing(b) >= 1 /\ Missing(b) <= Len(r)
         /\ Len(b) + Missing(b) <= 264
         /\ \/ /\ Infer(b).err = "nil" /\ Len(b) + Missing(b) = Len(NextPacket)
               /\ Infer(b).n + 3 = Len(NextPacket)
            \/ /\ Infer(b).err = "missing" /\ Len(b) <= 2 /\ Missing(b) = 6
               /\ b[2] \in WriteMultipleFCs
<1> DEFINE p == NextPacket
<1>1. Len(b) \in Nat /\ Len(r) \in Nat /\ Len(b) >= 1
  BY LenProperties
<1>2. /\ p \in Seq(Byte) /\ Len(p) \in Nat
      /\ Len(p) >= 4 /\ Len(p) = Infer(p).n + 3
      /\ Infer(p).err = "nil" /\ Len(p) <= Len(b) + Len(r)
      /\ \A j \in 1 .. Len(b) : j <= Len(p) => b[j] = p[j]
  BY <1>1, FirstBytes, Zenon
<1> HIDE DEF p
<1>3. /\ Missing(b) \in Int /\ Missing(b) >= 1 /\ Len(b) + Missing(b) <= Len(p)
      /\ Len(b) + Missing(b) <= 264
      /\ \/ /\ Infer(b).err = "nil" /\ Len(b) + Missing(b) = Len(p)
            /\ Infer(b).n + 3 = Len(p)
         \/ /\ Infer(b).err = "missing" /\ Len(b) <= 2 /\ Missing(b) = 6
            /\ b[2] \in WriteMultipleFCs
  BY <1>2, RequestPiece, Zenon
<1>4. Missing(b) <= Len(r)
  <2>1. Len(p) \in Nat /\ Len(p) <= Len(b) + Len(r)
    BY <1>2
  <2>2. Missing(b) \in Int /\ Len(b) + Missing(b) <= Len(p)
    BY <1>3
  <2> QED
    BY <1>1, <2>1, <2>2
<1> QED
  BY <1>3, <1>4, Zenon DEF p

\* The second read is called with the piece in hand.
LEMMA ServerCallRead ==
  ASSUME NEW b \in Seq(Byte), Missing(b) \in Int, Missing(b) >= 1, Len(b) + Missing(b) <= 264,
         Infer(b).err # "badfc", InferThenRead(0, b)
  PROVE  pc' = "body" /\ need' = Missing(b) /\ ret' = ret /\ closeErr' = closeErr
<1>1. Len(b) \in Nat
  BY LenProperties
<1>2. ~(Missing(b) > BufLen - (0 + Len(b))) /\ ~(Missing(b) <= 0)
  BY <1>1 DEF BufLen
<1> QED
  BY <1>2, Zenon DEF InferThenRead, CallRead

LEMMA ServerPoll ==
  ASSUME ServerPort, WholePackets, ServerInv, FrameInv, Poll
  PROVE  ServerInv' /\ FrameInv'
<1>1. TypeOK /\ buf \in Seq(Byte) /\ Len(buf) \in Nat /\ line \in Seq(Byte) /\ StartInv /\ Part(buf)
      /\ NothingBehind
  BY LenProperties DEF ServerInv, TypeOK
<1>2. buf' = buf /\ dataStart' = 0
  <2>1. CASE buf = <<>>
    <3>1. Len(buf) = 0
      BY <2>1, EmptySeq
    <3> QED
      BY <2>1, <3>1 DEF Poll, TryRx, MustReset, AfterReset
  <2>2. CASE buf # <<>>
    <3>1. dataStart = 0 /\ Len(buf) <= 8 /\ Len(buf) >= 2
      BY <1>1, <2>2 DEF StartInv, Part
    <3>2. ~MustReset
      BY <1>1, <3>1 DEF MustReset, dataEnd
    <3> QED
      BY <3>1, <3>2 DEF Poll, TryRx
  <2> QED
    BY <2>1, <2>2
<1>3. pc = "ready" /\ line' = line /\ sent' = sent /\ rcvd' = rcvd
  BY DEF Poll, TryRx
<1>4. FrameInv'
  BY <1>2, <1>3, QuietFrame DEF Pending
<1>5. IF Len(buf) < 2 THEN CallRead("head", 2 - Len(buf), 0, buf) /\ closeErr' = closeErr
      ELSE InferThenRead(0, buf)
  BY <1>2, Zenon DEF Poll, TryRx
<1>6. /\ pc' \in {"head", "body"} /\ ret' = ret /\ closeErr' = closeErr /\ need' \in Int
      /\ pc' = "head" => buf = <<>> /\ need' = 2
      /\ pc' = "body" => Len(buf) >= 2 /\ need' = Missing(buf)
  <2>1. CASE Len(buf) < 2
    <3>1. buf = <<>> /\ Len(buf) = 0
      BY <1>1, <2>1, EmptySeq DEF Part
    <3>2. ~(2 - Len(buf) > BufLen - (0 + Len(buf))) /\ ~(2 - Len(buf) <= 0) /\ 2 - Len(buf) = 2
      BY <3>1 DEF BufLen
    <3> QED
      BY <1>5, <2>1, <3>1, <3>2 DEF CallRead
  <2>2. CASE ~(Len(buf) < 2)
    <3>1. Len(buf) >= 2
      BY <1>1, <2>2
    <3>2. /\ Missing(buf) \in Int /\ Missing(buf) >= 1 /\ Len(buf) + Missing(buf) <= 264
          /\ Infer(buf).err \in {"nil", "missing"}
      BY <1>1, <3>1, ServerPiece, Zenon DEF Pending
    <3>3. pc' = "body" /\ need' = Missing(buf) /\ ret' = ret /\ closeErr' = closeErr
      BY <1>1, <1>5, <2>2, <3>2, ServerCallRead
    <3> QED
      BY <3>1, <3>2, <3>3
  <2> QED
    BY <2>1, <2>2
<1>7. TypeOK'
  BY <1>1, <1>2, <1>3, <1>6 DEF TypeOK
<1>8. Part(buf') /\ StartInv' /\ NothingBehind'
  BY <1>1, <1>2, <1>6 DEF StartInv, NothingBehind
<1>9. (pc' = "body" => Len(buf') >= 2 /\ need' = Missing(buf')) /\ (pc' = "head" => buf' = <<>> /\ need' = 2)
  BY <1>2, <1>6
<1> QED
  BY <1>4, <1>6, <1>7, <1>8, <1>9 DEF ServerInv, Part, Missing, Infer

\* Reading nothing.
LEMMA ReadNothing ==
  ASSUME TypeOK
  PROVE  buf \o SubSeq(line, 1, 0) = buf
<1>1. SubSeq(line, 1, 0) = <<>>
  BY SubSeqEmpty
<1> QED
  BY <1>1, ConcatEmptySeq DEF TypeOK

\* The first read returns two bytes, or none.
LEMMA ServerHead ==
  ASSUME ServerPort, WholePackets, ServerInv, FrameInv,
         NEW k \in 0 .. need, NEW failed \in BOOLEAN, k <= Len(line),
         failed => k = 0, failed \/ k = need \/ k = Len(line),
         ReadHead(k, failed), sent' = sent, rcvd' = rcvd
  PROVE  ServerInv' /\ FrameInv'
<1> DEFINE all == buf \o SubSeq(line, 1, k)
           rest == SubSeq(line, k + 1, Len(line))
<1>1. TypeOK /\ line \in Seq(Byte) /\ Len(line) \in Nat /\ pc = "head" /\ buf = <<>> /\ need = 2
      /\ dataStart = 0 /\ k \in Nat /\ k <= 2 /\ Len(buf) = 0
  BY LenProperties, EmptySeq DEF ServerInv, StartInv, TypeOK, ReadHead
<1>2. all \in Seq(Byte) /\ Len(all) = k /\ rest \in Seq(Byte)
  BY <1>1, TakeFacts
<1>3. Pending = all \o rest
  BY <1>1, MoveBytes, Zenon DEF TypeOK
<1>4. /\ buf' = all /\ line' = rest /\ dataStart' = 0
      /\ IF Len(all) < 2
           THEN Return(IF failed THEN "io" ELSE "missing", <<>>, 0) /\ closeErr' = closeErr
           ELSE InferThenRead(0, all)
  BY <1>1 DEF ReadHead
<1>5. FrameInv'
  BY <1>1, <1>4, ReadFrame
<1>6. k = 0 \/ k = 2
  <2>1. CASE Len(line) > 0
    <3>1. Pending = line
      BY <1>1, ConcatEmptySeq DEF Pending
    <3>2. Len(NextPacket) >= 4 /\ Len(NextPacket) <= Len(line) /\ Len(NextPacket) \in Nat
      BY <1>1, <2>1, <3>1, FirstPacket DEF WholePackets
    <3> QED
      BY <1>1, <3>2
  <2> QED
    BY <1>1, <2>1
<1> HIDE DEF all, rest
<1>7. CASE k = 0
  <2>1. pc' = "ready" /\ need' = 0 /\ ret' = Result(IF failed THEN "io" ELSE "missing", <<>>, 0)
        /\ closeErr' = closeErr
    BY <1>2, <1>4, <1>7 DEF Return
  <2>2. ret' \in [err : RxError, pdu : Seq(Byte), addr : Byte] /\ ret'.pdu = <<>>
    BY <2>1, ErrorResult DEF RxError
  <2>3. all = <<>>
    BY <1>2, <1>7, EmptySeq
  <2>4. TypeOK'
    BY <1>1, <1>2, <1>4, <2>1, <2>2 DEF TypeOK
  <2> QED
    BY <1>4, <1>5, <2>1, <2>2, <2>3, <2>4 DEF ServerInv, StartInv, Part, NothingBehind
<1>8. CASE k = 2
  <2>1. Len(all) >= 2 /\ Len(all) <= 2 /\ Part(all)
    BY <1>2, <1>8 DEF Part
  <2>2. /\ Missing(all) \in Int /\ Missing(all) >= 1 /\ Len(all) + Missing(all) <= 264
        /\ Infer(all).err \in {"nil", "missing"}
    <3>1. TypeOK /\ all \in Seq(Byte) /\ rest \in Seq(Byte) /\ Len(all) >= 2 /\ Part(all)
      BY <1>1, <1>2, <2>1
    <3> QED
      BY <1>3, <3>1, ServerPiece, Zenon
  <2>3. pc' = "body" /\ need' = Missing(all) /\ ret' = ret /\ closeErr' = closeErr
    <3>1. InferThenRead(0, all)
      BY <1>2, <1>4, <1>8
    <3> QED
      BY <1>2, <2>2, <3>1, ServerCallRead
  <2>4. TypeOK'
    BY <1>1, <1>2, <1>4, <2>2, <2>3 DEF TypeOK
  <2>5. Part(buf') /\ Len(buf') >= 2 /\ need' = Missing(buf')
    BY <1>4, <2>1, <2>3, Zenon
  <2> QED
    BY <1>4, <1>5, <2>3, <2>4, <2>5 DEF ServerInv, StartInv, NothingBehind, Part, Missing, Infer
<1> QED
  BY <1>6, <1>7, <1>8

\* The second read fails, returns the rest of the request, or the six bytes.
LEMMA ServerBody ==
  ASSUME ServerPort, WholePackets, ServerInv, FrameInv,
         NEW k \in 0 .. need, NEW failed \in BOOLEAN, k <= Len(line),
         failed => k = 0, failed \/ k = need \/ k = Len(line),
         ReadBody(k, failed), sent' = sent,
         rcvd' = IF pc' = "ready" /\ ret'.pdu # <<>>
                   THEN Append(rcvd, <<ret'.addr, ret'.pdu, ret'.err>>) ELSE rcvd
  PROVE  ServerInv' /\ FrameInv'
<1> DEFINE all == buf \o SubSeq(line, 1, k)
           end == Infer(buf).n + 3
<1>1. TypeOK /\ buf \in Seq(Byte) /\ line \in Seq(Byte) /\ Len(line) \in Nat /\ Len(buf) \in Nat
      /\ Len(buf) >= 2 /\ need = Missing(buf) /\ Part(buf) /\ dataStart = 0
  BY LenProperties DEF ServerInv, StartInv, TypeOK, ReadBody
<1>2. /\ need \in Int /\ need >= 1 /\ need <= Len(line)
      /\ \/ /\ Infer(buf).err = "nil" /\ Len(buf) + need = Len(NextPacket) /\ end = Len(NextPacket)
         \/ /\ Infer(buf).err = "missing" /\ Len(buf) <= 2 /\ need = 6 /\ buf[2] \in WriteMultipleFCs
  <2>1. /\ Missing(buf) \in Int /\ Missing(buf) >= 1 /\ Missing(buf) <= Len(line)
        /\ \/ /\ Infer(buf).err = "nil" /\ Len(buf) + Missing(buf) = Len(NextPacket)
              /\ Infer(buf).n + 3 = Len(NextPacket)
           \/ /\ Infer(buf).err = "missing" /\ Len(buf) <= 2 /\ Missing(buf) = 6
              /\ buf[2] \in WriteMultipleFCs
    BY <1>1, ServerPiece, Zenon DEF Pending
  <2> QED
    BY <1>1, <2>1, Zenon
<1>3. k \in Nat /\ ((failed /\ k = 0) \/ (~failed /\ k = need))
  BY <1>1, <1>2
<1>4. all \in Seq(Byte) /\ Len(all) = Len(buf) + k /\ SubSeq(line, k + 1, Len(line)) \in Seq(Byte)
  BY <1>1, <1>3, TakeFacts
<1>5. /\ line' = SubSeq(line, k + 1, Len(line)) /\ closeErr' = closeErr
      /\ IF ~failed /\ Infer(buf).err = "nil" /\ k >= need
           THEN Deliver(SubSeq(all, 1, end)) /\ Consume(all, end)
           ELSE /\ Return(IF failed THEN "io"
                          ELSE IF Infer(buf).err # "nil" THEN Infer(buf).err ELSE "missing", <<>>, 0)
                /\ buf' = all /\ dataStart' = dataStart
  BY DEF ReadBody
<1>6. CASE ~failed /\ Infer(buf).err = "nil"
  <2>1. Len(all) = end /\ end = Len(NextPacket) /\ end \in Nat /\ end > 2 /\ k >= need
        /\ Len(buf) + k = Len(NextPacket)
    BY <1>1, <1>2, <1>3, <1>4, <1>6
  <2>2. SubSeq(all, 1, end) = all /\ SubSeq(all, end + 1, Len(all)) = <<>>
    <3>1. SubSeq(all, 1, Len(all)) = all
      BY <1>4, SubSeqFull
    <3>2. SubSeq(all, end + 1, Len(all)) = <<>>
      BY <2>1, SubSeqEmpty
    <3> QED
      BY <2>1, <3>1, <3>2, Zenon
  <2>3. Deliver(all) /\ buf' = <<>> /\ dataStart' = dataStart + end
    BY <1>5, <1>6, <2>1, <2>2, Zenon DEF Consume
  <2>4. FrameInv'
    <3>1. TypeOK /\ k \in Nat /\ Len(buf) + k = Len(NextPacket) /\ Len(buf) + k > 0
          /\ Deliver(all) /\ line' = SubSeq(line, k + 1, Len(line)) /\ buf' = <<>>
      BY <1>1, <1>3, <1>5, <2>1, <2>3
    <3> QED
      BY <3>1, DeliverFrame, Zenon
  <2> HIDE DEF all, end
  <2>5. pc' = "ready" /\ need' = 0 /\ ret' \in [err : RxError, pdu : Seq(Byte), addr : Byte]
    BY <1>4, <2>1, <2>3, DeliverStep
  <2>6. buf' \in Seq(Byte) /\ dataStart' \in Nat
    BY <1>1, <2>1, <2>3, EmptySeq
  <2>7. TypeOK'
    <3>1. closeErr' \in BOOLEAN
      BY <1>1, <1>5, Zenon DEF TypeOK
    <3>2. line' \in Seq(Byte)
      BY <1>4, <1>5, Zenon
    <3> QED
      BY <1>1, <1>5, <2>5, <2>6, <3>1, <3>2, SMTT(30) DEF TypeOK
  <2> QED
    BY <2>3, <2>4, <2>5, <2>7 DEF ServerInv, StartInv, Part, NothingBehind
<1>7. CASE ~(~failed /\ Infer(buf).err = "nil")
  <2>1. PICK e \in RxError : pc' = "ready" /\ need' = 0 /\ ret' = Result(e, <<>>, 0)
    BY <1>2, <1>5, <1>7 DEF Return, RxError
  <2>2. buf' = all /\ dataStart' = 0
    BY <1>1, <1>5, <1>7, Zenon
  <2>3. ret' \in [err : RxError, pdu : Seq(Byte), addr : Byte] /\ ret'.pdu = <<>>
    BY <2>1, ErrorResult
  <2>4. FrameInv'
    BY <1>1, <1>3, <1>5, <2>2, <2>3, ReadFrame, Zenon
  <2>5. Part(all)
    <3>1. CASE failed
      <4>1. k = 0
        BY <3>1
      <4>2. all = buf
        BY <1>1, <4>1, ReadNothing
      <4> QED
        BY <1>1, <4>2, Zenon
    <3>2. CASE ~failed
      <4>1. Len(all) >= 8 /\ Len(all) <= 8 /\ buf[2] \in WriteMultipleFCs
        BY <1>1, <1>2, <1>3, <1>4, <1>7, <3>2
      <4>2. all[2] = buf[2]
        <5>1. SubSeq(line, 1, k) \in Seq(Byte) /\ 2 \in 1 .. Len(buf) + Len(SubSeq(line, 1, k)) /\ 2 <= Len(buf)
          BY <1>1, <1>3, TakeFacts, SMTT(30)
        <5> QED
          BY <1>1, <5>1, ConcatProperties, SMTT(30)
      <4> QED
        BY <4>1, <4>2 DEF Part
    <3> QED
      BY <3>1, <3>2
  <2> HIDE DEF all
  <2>6. TypeOK'
    <3>1. closeErr' \in BOOLEAN
      BY <1>1, <1>5, Zenon DEF TypeOK
    <3>2. line' \in Seq(Byte) /\ buf' \in Seq(Byte) /\ dataStart' \in Nat /\ need' \in Int /\ pc' = "ready"
      BY <1>4, <1>5, <2>1, <2>2
    <3> QED
      BY <2>3, <3>1, <3>2 DEF TypeOK
  <2> QED
    BY <2>1, <2>2, <2>3, <2>4, <2>5, <2>6 DEF ServerInv, StartInv, Part, NothingBehind
<1> QED
  BY <1>6, <1>7

LEMMA ServerNext ==
  ASSUME ServerPort, WholePackets, ServerInv, FrameInv, [Next]_vars
  PROVE  ServerInv' /\ FrameInv'
<1>0. TypeOK
  BY DEF ServerInv
<1>1. CASE \E packet \in Packets : Arrive(packet)
  <2>1. PICK packet \in Packets : Arrive(packet)
    BY <1>1
  <2>2. FrameInv'
    BY <1>0, <2>1, ArriveFrame
  <2>3. line' \in Seq(Byte)
    BY <2>1, PacketsAssumption, ConcatProperties DEF Arrive, ServerInv, TypeOK
  <2>4. buf' = buf /\ dataStart' = dataStart /\ pc' = pc /\ need' = need /\ closeErr' = closeErr /\ ret' = ret
    BY <2>1 DEF Arrive
  <2> QED
    BY <2>2, <2>3, <2>4 DEF ServerInv, TypeOK, StartInv, NothingBehind, Part, Missing, Infer
<1>2. CASE Poll
  BY <1>2, ServerPoll
<1>3. CASE ReceiveAny
  <2>1. PICK k \in 0 .. need, failed \in BOOLEAN : Receive(k, failed)
    BY <1>3 DEF ReceiveAny
  <2>2. /\ k <= Len(line) /\ (ReadHead(k, failed) \/ ReadBody(k, failed)) /\ sent' = sent
        /\ (failed => k = 0) /\ (failed \/ k = need \/ k = Len(line))
        /\ rcvd' = IF pc' = "ready" /\ ret'.pdu # <<>>
                     THEN Append(rcvd, <<ret'.addr, ret'.pdu, ret'.err>>) ELSE rcvd
    BY <2>1 DEF Receive, ReadReturns, PortRead, ServerPort
  <2>3. CASE ReadHead(k, failed)
    <3>1. pc' = "ready" => ret'.pdu = <<>>
      BY <2>3, HeadReturnsNothing
    <3>2. rcvd' = rcvd
      BY <2>2, <3>1
    <3> QED
      BY <2>2, <2>3, <3>2, ServerHead
  <2>4. CASE ReadBody(k, failed)
    BY <2>2, <2>4, ServerBody
  <2> QED
    BY <2>2, <2>3, <2>4
<1>4. CASE UNCHANGED vars
  <2>1. FrameInv'
    BY <1>4, QuietFrame DEF vars, Pending
  <2> QED
    BY <1>4, <2>1 DEF vars, ServerInv, TypeOK, StartInv, NothingBehind, Part, Missing, Infer
<1> QED
  BY <1>1, <1>2, <1>3, <1>4 DEF Next

LEMMA ServerInit == Init => ServerInv /\ FrameInv
<1>1. Init => TypeOK /\ StartInv /\ NothingBehind
  BY InitInv DEF IInv
<1> QED
  BY <1>1, FrameInit DEF Init, RxInit, ServerInv, Part

\* A server that gets its requests whole never panics in read, never loses a
\* request or the boundary between two, and leaves nothing in the part of
\* rxbuf that it writes its answer over.
THEOREM ServerInSync ==
  ASSUME ServerPort, WholePackets
  PROVE  Spec => [](InSync /\ IncompleteIsReported /\ NothingBehind)
<1>1. ServerInv /\ FrameInv /\ [Next]_vars => (ServerInv /\ FrameInv)'
  BY ServerNext
<1>2. ServerInv /\ FrameInv => InSync /\ IncompleteIsReported /\ NothingBehind
  BY DEF ServerInv, FrameInv, Delivered, IncompleteIsReported
<1> QED
  BY <1>1, <1>2, ServerInit, PTL DEF Spec
================================================================================
