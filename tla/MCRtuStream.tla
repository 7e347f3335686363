------------------------------- MODULE MCRtuStream -------------------------------
(***************************************************************************)
(* Small instances of RtuStream.  Framing does not depend on which         *)
(* checksum it is (the proofs leave CRC open), so a cheap one stands in    *)
(* for generateCRC.                                                        *)
(***************************************************************************)
EXTENDS RtuStream

MCCRC(b) == (257 * Len(b) + 31 * b[Len(b)] + 7 * b[1]) % 65536

WithCRC(body) == body \o <<MCCRC(body) % 256, MCCRC(body) \div 256>>

\* What a server of this package, and others, answer: values of one and of
\* two registers, acknowledgements of writes, an exception, and an answer of
\* 125 registers with the longest packet a client can meet.
MCResponses == {WithCRC(body) : body \in {
  <<7, FCReadHoldingRegisters, 2, 0, 9>>,
  <<7, FCReadInputRegisters, 4, 3, 3, 3, 3>>,
  <<7, FCWriteMultipleRegisters, 0, 1, 0, 2>>,
  <<7, FCReadHoldingRegisters + 128, 2>>,
  <<7, FCReadHoldingRegisters, 250>> \o [i \in 1 .. 250 |-> 4]}}

\* Requests for registers, and writes of one and of several registers.
MCRequests == {WithCRC(body) : body \in {
  <<7, FCReadHoldingRegisters, 0, 1, 0, 2>>,
  <<7, FCWriteSingleRegister, 0, 1, 0, 9>>,
  <<7, FCWriteMultipleRegisters, 0, 1, 0, 1, 2, 0, 9>>,
  <<7, FCWriteMultipleCoils, 0, 0, 0, 3, 1, 5>>}}

\* Both sets are of the kind that the proofs of InSync assume.
ASSUME WholePacketsAssumption == WholePackets
================================================================================
