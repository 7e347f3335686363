-------------------------------- MODULE RtuStream --------------------------------
(***************************************************************************)
(* One end of a serial line: packets arrive, TryRx is polled, and the port *)
(* cuts the bytes up in any way.  Does framing survive?                    *)
(***************************************************************************)
EXTENDS RtuRx

CONSTANTS
  Packets,    \* the packets the other end may send, CRC included
  MaxSent,    \* bound: how many packets it sends
  Cuts        \* how many bytes a read may return when it could return more

VARIABLES
  sent,       \* the packets sent so far
  rcvd        \* the packets TryRx returned, as <<address, PDU, error>>

vars == <<line, buf, dataStart, pc, need, closeErr, ret, sent, rcvd>>

ASSUME PacketsAssumption == Packets \subseteq Seq(Byte) /\ MaxSent \in Nat /\ Cuts \subseteq Nat

ASSUME OptionsAssumption == {IsResponse, ErrWithData} \subseteq BOOLEAN

\* A line without noise: what is sent are packets with the length that the
\* inference finds in them, and with their CRC.
WholePackets == \A p \in Packets :
  /\ Len(p) >= 4
  /\ Infer(p).err = "nil" /\ Len(p) = Infer(p).n + 3
  /\ CRC(SubSeq(p, 1, Len(p) - 2)) = p[Len(p) - 1] + 256 * p[Len(p)]

Init == RxInit /\ sent = <<>> /\ rcvd = <<>>

\* The other end writes a packet.
Arrive(packet) ==
  /\ Len(sent) < MaxSent
  /\ sent' = Append(sent, packet)
  /\ line' = line \o packet
  /\ UNCHANGED <<buf, dataStart, pc, need, closeErr, ret, rcvd>>

Poll == TryRx /\ UNCHANGED <<sent, rcvd>>

\* port.Read returns, and with it TryRx, unless this was its first read.
Receive(k, failed) ==
  /\ ReadReturns(k, failed)
  /\ failed \/ k = need \/ k = Len(line) \/ k \in Cuts
  /\ rcvd' = IF pc' = "ready" /\ ret'.pdu # <<>>
               THEN Append(rcvd, <<ret'.addr, ret'.pdu, ret'.err>>) ELSE rcvd
  /\ UNCHANGED sent

ReceiveAny == \E k \in 0 .. need, failed \in BOOLEAN : Receive(k, failed)

Next == (\E packet \in Packets : Arrive(packet)) \/ Poll \/ ReceiveAny

Spec == Init /\ [][Next]_vars

\* The caller keeps polling, and a port that is asked again and again hands
\* over bytes that have arrived.
Progress == \E k \in 1 .. need : Receive(k, FALSE)
FairSpec == Spec /\ WF_vars(Poll) /\ WF_vars(ReceiveAny) /\ SF_vars(Progress)
--------------------------------------------------------------------------------
RxError == {"none", "nil", "missing", "io", "overflow", "badfc", "exception", "crc"}

\* Type correctness of the receive state.
TypeOK ==
  /\ line \in Seq(Byte) /\ buf \in Seq(Byte)
  /\ dataStart \in Nat
  /\ pc \in {"ready", "head", "body", "panic"}
  /\ need \in Int
  /\ closeErr \in BOOLEAN
  /\ ret \in [err : RxError, pdu : Seq(Byte), addr : Byte]

\* "If the packet is not complete, it returns ErrMissingPacketData"
\* (rtustate.go:52): TryRx never panics in read, however the port cuts up
\* the packets.
IncompleteIsReported == pc # "panic"

\* What a packet is delivered as when nothing went wrong.
AsSent(packet) == <<packet[1], SubSeq(packet, 2, Len(packet) - 2), "nil">>

\* TryRx returns the packets that were sent, in order, each once and whole,
\* with no CRC error: it never loses the boundary between two packets.
InSync ==
  /\ Len(rcvd) <= Len(sent)
  /\ \A i \in 1 .. Len(rcvd) : rcvd[i] = AsSent(sent[i])

\* A server writes its answer over rxbuf, beyond the packet it got and even
\* over the first two bytes of the buffer (tx.go:140, server.go:96).  That is
\* safe because TryRx leaves nothing buffered behind a packet it returns.
NothingBehind == pc = "ready" /\ ret.pdu # <<>> => buf = <<>>

\* A read never asks the port for a byte that does not fit in rxbuf, so no
\* "read overflow" (rtustate.go:128) is ever returned.
BufferSuffices ==
  /\ pc \in {"head", "body"} => dataEnd + need <= BufLen
  /\ ret.err # "overflow"

\* Every packet sent is received in the end, however slowly it comes in.
AllDelivered == \A n \in 1 .. MaxSent : Len(sent) = n ~> Len(rcvd) >= n

\* On a bus with other devices, and where bytes get lost, boundaries are lost
\* too.  Still, what TryRx returns without an error was sent as one packet,
\* no packet is returned twice, and they come in the order they were sent.
DeliveredInOrder ==
  LET good == SelectSeq(rcvd, LAMBDA r : r[3] = "nil")
      n    == Len(good)
  IN \E at \in [1 .. n -> 1 .. Len(sent)] :
       /\ \A i, j \in 1 .. n : i < j => at[i] < at[j]
       /\ \A i \in 1 .. n : good[i] = AsSent(sent[at[i]])

\* A bad function code is taken for a loss of boundaries, "Close connection,
\* probably desynced" (rtustate.go:95), and nothing takes its bytes out of the
\* buffer: from then on TryRx returns that error for ever, and no packet.
DesyncIsFinal == [][closeErr => UNCHANGED <<buf, rcvd, closeErr>>]_vars
================================================================================
