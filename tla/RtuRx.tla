---------------------------------- MODULE RtuRx ----------------------------------
(***************************************************************************)
(* The receive path of modbusrtu: connState.TryRx, read and resetRxBuf.    *)
(*                                                                         *)
(* TryRx calls the port at most twice: once to get the two bytes it needs  *)
(* to infer the length of the packet, once for the rest of it.  The port   *)
(* returns whatever has arrived, up to what was asked for, so a packet may *)
(* take any number of calls.  An action is what happens from one return of *)
(* port.Read to the next call of it, or to the return of TryRx.            *)
(*                                                                         *)
(* Of rxbuf only the bytes between dataStart and dataEnd are kept, in buf. *)
(***************************************************************************)
EXTENDS PacketLength

CONSTANTS
  IsResponse,     \* TRUE for a client's connState, FALSE for a server's
  CRC(_),         \* generateCRC
  ErrWithData     \* TRUE iff port.Read may return bytes together with an error

VARIABLES
  line,       \* bytes that port.Read has yet to return
  buf,        \* rxbuf[dataStart:dataEnd]
  dataStart,
  pc,         \* "ready": not in TryRx; "head", "body": in port.Read; "panic"
  need,       \* how many bytes port.Read has been asked for
  closeErr,   \* TRUE iff a desync was recorded
  ret         \* what TryRx returned last

rxvars == <<line, buf, dataStart, pc, need, closeErr, ret>>

\* Mutant: a buffer for one PDU.
BufLen_PduOnly == 253

BufLen  == 512
dataEnd == dataStart + Len(buf)

\* pdu is empty where the code returns nil.
Result(err, pdu, addr) == [err |-> err, pdu |-> pdu, addr |-> addr]

RxInit ==
  /\ line = <<>> /\ buf = <<>> /\ dataStart = 0
  /\ pc = "ready" /\ need = 0 /\ closeErr = FALSE
  /\ ret = Result("none", <<>>, 0)

Return(err, pdu, addr) ==
  pc' = "ready" /\ need' = 0 /\ ret' = Result(err, pdu, addr)

\* The call of port.Read in read(upTo), or its failure before the call: an
\* upTo beyond the buffer is an error, a zero one panics, and so does the
\* slice expression of a negative one.
CallRead(where, upTo, start, b) ==
  IF upTo > BufLen - (start + Len(b)) THEN Return("overflow", <<>>, 0)
  ELSE pc' = (IF upTo <= 0 THEN "panic" ELSE where) /\ need' = upTo /\ UNCHANGED ret

\* Length inference sees everything buffered but the address byte.
Infer(b) == IF IsResponse THEN InferResponsePacketLength(Tail(b)) ELSE InferRequestPacketLength(Tail(b))

\* Mutant: one byte too many.
Missing_OneMore(b) == Infer(b).n + 4 - Len(b)

\* How much more TryRx reads.  pdulen is taken for the length of the whole
\* PDU, also when it is the number of bytes missing to infer it.
Missing(b) == Infer(b).n + 3 - Len(b)

\* Mutant: a length that cannot be inferred yet is reported before reading on.
InferThenRead_ReportsFirst(start, b) ==
  IF Infer(b).err # "nil" THEN Return(Infer(b).err, <<>>, 0) /\ UNCHANGED closeErr
  ELSE CallRead("body", Missing(b), start, b) /\ UNCHANGED closeErr

\* Mutant: a bad function code is noted, and reading goes on.
InferThenRead_GoesOn(start, b) ==
  CallRead("body", IF Infer(b).err = "badfc" THEN 1 ELSE Missing(b), start, b)
    /\ closeErr' = (closeErr \/ Infer(b).err = "badfc")

\* With two bytes or more: infer, then ask for the rest of the packet.
InferThenRead(start, b) ==
  IF Infer(b).err = "badfc"
    THEN Return("badfc", <<>>, 0) /\ closeErr' = TRUE
    ELSE CallRead("body", Missing(b), start, b) /\ UNCHANGED closeErr

\* resetRxBuf, which TryRx calls when nothing is buffered or past byte 256:
\* the buffered bytes move to the front, or are dropped if 256 or more.
MustReset == dataEnd > 256 \/ Len(buf) = 0
AfterReset == IF Len(buf) < 256 THEN buf ELSE <<>>

\* TryRx is called.
TryRx ==
  /\ pc = "ready"
  /\ buf' = IF MustReset THEN AfterReset ELSE buf
  /\ dataStart' = IF MustReset THEN 0 ELSE dataStart
  /\ IF Len(buf') < 2
       THEN CallRead("head", 2 - Len(buf'), dataStart', buf') /\ UNCHANGED closeErr
       ELSE InferThenRead(dataStart', buf')
  /\ UNCHANGED line

\* The first read returns k bytes; failed, and with an error.  The error is
\* dropped if the two bytes are there.
ReadHead(k, failed) ==
  /\ pc = "head"
  /\ buf' = buf \o SubSeq(line, 1, k)
  /\ line' = SubSeq(line, k + 1, Len(line))
  /\ IF Len(buf') < 2
       THEN Return(IF failed THEN "io" ELSE "missing", <<>>, 0) /\ UNCHANGED closeErr
       ELSE InferThenRead(dataStart, buf')
  /\ UNCHANGED dataStart

\* Mutant: the CRC is handed over with the PDU.
Deliver_KeepsCRC(packet) ==
  LET n   == Len(packet)
      crc == packet[n - 1] + 256 * packet[n]
  IN Return(IF CRC(SubSeq(packet, 1, n - 2)) = crc THEN "nil" ELSE "crc",
            SubSeq(packet, 2, n), packet[1])

\* Mutant: the CRC is returned in the place of the address.
Deliver_ReturnsCRC(packet) ==
  LET n   == Len(packet)
      crc == packet[n - 1] + 256 * packet[n]
  IN Return(IF CRC(SubSeq(packet, 1, n - 2)) = crc THEN "nil" ELSE "crc",
            SubSeq(packet, 2, n - 2), crc)

\* Mutant: the CRC is not compared.
Deliver_Unchecked(packet) ==
  Return("nil", SubSeq(packet, 2, Len(packet) - 2), packet[1])

\* A complete packet: check the CRC and hand over the PDU, also if it fails.
Deliver(packet) ==
  LET n   == Len(packet)
      crc == packet[n - 1] + 256 * packet[n]
  IN Return(IF CRC(SubSeq(packet, 1, n - 2)) = crc THEN "nil" ELSE "crc",
            SubSeq(packet, 2, n - 2), packet[1])

\* Mutant: the packet stays in the buffer.
Consume_Forgotten(all, end) == buf' = all /\ UNCHANGED dataStart

\* The packet, the first end of the bytes buffered, is consumed.
Consume(all, end) == buf' = SubSeq(all, end + 1, Len(all)) /\ dataStart' = dataStart + end

\* The second read returns k bytes.  An error of the port wins over one of
\* the inference, and that over bytes still missing.
ReadBody(k, failed) ==
  /\ pc = "body"
  /\ LET inferred == Infer(buf)
         all      == buf \o SubSeq(line, 1, k)
         end      == inferred.n + 3
     IN /\ line' = SubSeq(line, k + 1, Len(line))
        /\ IF ~failed /\ inferred.err = "nil" /\ k >= need
             THEN Deliver(SubSeq(all, 1, end)) /\ Consume(all, end)
             ELSE /\ Return(IF failed THEN "io"
                            ELSE IF inferred.err # "nil" THEN inferred.err ELSE "missing", <<>>, 0)
                  /\ buf' = all /\ UNCHANGED dataStart
  /\ UNCHANGED closeErr

\* What port.Read may do: return up to as many bytes as it was asked for,
\* none when its own timeout expires first, or an error.
PortRead(k, failed) ==
  /\ k \in 0 .. need /\ k <= Len(line)
  /\ failed /\ ~ErrWithData => k = 0

ReadReturns(k, failed) ==
  PortRead(k, failed) /\ (ReadHead(k, failed) \/ ReadBody(k, failed))
================================================================================
