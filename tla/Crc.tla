----------------------------------- MODULE Crc -----------------------------------
(***************************************************************************)
(* The checksum of RTU packets (generateCRC in modbusrtu/rtustate.go).     *)
(* The uint16 crc is kept as its sixteen bits, so that xor is # .          *)
(***************************************************************************)
EXTENDS Definitions, Sequences

Bit(n, k)   == (n \div 2^k) % 2 = 1
BitVector   == [0 .. 15 -> BOOLEAN]
startCRC    == [k \in 0 .. 15 |-> TRUE]
xorCRC      == [k \in 0 .. 15 |-> Bit(40961, k)]

\* One turn of the inner loop: shift right, and xor if the bit that fell out
\* was set.
ShiftBit(crc) == [k \in 0 .. 15 |-> (k < 15 /\ crc[k + 1]) # (crc[0] /\ xorCRC[k])]

XorByte(crc, byte) == [k \in 0 .. 15 |-> crc[k] # Bit(byte, k)]

\* The two loops.  They are functions, not operators, because TLC evaluates
\* the argument of a function once.
CrcOf(b) ==
  LET turn[n \in 0 .. 8, crc \in BitVector] == IF n = 0 THEN crc ELSE turn[n - 1, ShiftBit(crc)]
      add[crc \in BitVector, byte \in Byte] == turn[8, XorByte(crc, byte)]
      after[i \in 0 .. Len(b)] == IF i = 0 THEN startCRC ELSE add[after[i - 1], b[i]]
  IN after[Len(b)]

\* The number whose bits 0 to 7 are those of crc from bit k on.
ByteAt(crc, k) ==
  LET sum[n \in 0 .. 8] == IF n = 0 THEN 0 ELSE sum[n - 1] + (IF crc[k + n - 1] THEN 2^(n - 1) ELSE 0)
  IN sum[8]

generateCRC(b) ==
  LET value[crc \in BitVector] == ByteAt(crc, 0) + 256 * ByteAt(crc, 8) IN value[CrcOf(b)]

\* A packet as it goes on the line: address, PDU, then the CRC, low byte first.
WithCRC(body) == LET crc == generateCRC(body) IN body \o <<crc % 256, crc \div 256>>
================================================================================
