-------------------------------- MODULE MCRtuLink --------------------------------
(***************************************************************************)
(* Small instances of RtuLink, with the real checksum.                     *)
(***************************************************************************)
EXTENDS RtuLink, Crc

MCWord == {0, 1, 258, 770}
MCHighByte(new, old) == new
MCOps == {}

Fetch(fc, dev, addr, n) == Call(fc, dev, addr, [k \in 1 .. n |-> 0])

\* Reads and writes of none, one and two of the four registers.
GoodCalls ==
  {Fetch(FCReadHoldingRegisters, 7, 0, 0),
   Fetch(FCReadHoldingRegisters, 7, 0, 2), Fetch(FCReadInputRegisters, 7, 1, 1),
   Call(FCWriteMultipleRegisters, 7, 1, <<258>>), Call(FCWriteMultipleRegisters, 7, 0, <<770, 1>>)}

\* A read beyond the last register: the server answers with an exception.
RefusedCall == Fetch(FCReadHoldingRegisters, 7, 4, 1)

\* Two calls that one could take the other's answer for, but for the function
\* code; the second is refused, so no answer to it is right.
LateCalls == {Fetch(FCReadInputRegisters, 7, 0, 1), RefusedCall}

RefusedCalls == {RefusedCall}
================================================================================
