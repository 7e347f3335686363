-------------------------------- MODULE MCRtuBus --------------------------------
(***************************************************************************)
(* RtuStream on a bus, with the real checksum: a server sees the requests  *)
(* to all devices and the answers of the others, and bytes get lost.       *)
(***************************************************************************)
EXTENDS RtuStream, Crc

\* Requests to two devices, one longer than the other.
BusRequests == {WithCRC(body) : body \in {
  <<7, FCReadHoldingRegisters, 0, 1, 0, 2>>,
  <<9, FCWriteMultipleRegisters, 0, 1, 0, 1, 2, 0, 9>>}}

\* Answers of the other device: shorter than the request they are taken for,
\* as long as it, and an exception, whose function code is no request's.
BusAnswers == {WithCRC(body) : body \in {
  <<9, FCReadHoldingRegisters, 2, 0, 3>>,
  <<9, FCWriteMultipleRegisters, 0, 1, 0, 1>>,
  <<9, FCReadHoldingRegisters + 128, 2>>}}

\* A request without its fourth byte.
Garbled == {SubSeq(p, 1, 3) \o SubSeq(p, 5, Len(p)) : p \in BusRequests}

BusTraffic == BusRequests \cup BusAnswers \cup Garbled
================================================================================
