------------------------------ MODULE PacketLength ------------------------------
(***************************************************************************)
(* How long is the packet that starts with these bytes?  The length        *)
(* inference of tx.go, on which RTU framing rests: RTU has no length field *)
(* of its own.  A packet is a sequence of bytes, its first byte at 1.      *)
(***************************************************************************)
EXTENDS Definitions, Sequences

Inferred(n, err) == [n |-> n, err |-> err]

ReadFCs          == {FCReadCoils, FCReadDiscreteInputs, FCReadHoldingRegisters, FCReadInputRegisters}
WriteSingleFCs   == {FCWriteSingleCoil, FCWriteSingleRegister}
WriteMultipleFCs == {FCWriteMultipleCoils, FCWriteMultipleRegisters}

\* A request is 5 bytes, or 1 byte, or counted by its sixth byte.
InferRequestPacketLength(b) ==
  IF Len(b) < 1 THEN Inferred(1, "missing")
  ELSE CASE b[1] \in ReadFCs \cup WriteSingleFCs -> Inferred(5, "nil")
         [] b[1] \in {FCReadExceptionStatus, FCGetComEventCounter, FCGetComEventLog,
                      FCReportServerID}          -> Inferred(1, "nil")
         [] b[1] \in WriteMultipleFCs            ->
              IF Len(b) < 6 THEN Inferred(6 - Len(b), "missing") ELSE Inferred(b[6] + 6, "nil")
         [] b[1] \in UnimplementedAccess \cup {FCDiagnostic, FCReadDeviceIdentification} ->
              Inferred(0, "exception")
         [] OTHER                                -> Inferred(0, "badfc")

\* In a response the second byte counts, after a fixed part of head bytes.
Counted(b, head) == IF Len(b) < 2 THEN Inferred(2 - Len(b), "missing") ELSE Inferred(head + b[2], "nil")

InferResponsePacketLength(b) ==
  IF Len(b) < 1 THEN Inferred(1, "missing")
  ELSE IF b[1] >= 128 THEN Inferred(2, "nil")
  ELSE IF b[1] \in ReadFCs \cup {FCGetComEventLog} THEN Counted(b, 2)
  ELSE IF b[1] \in WriteSingleFCs \cup WriteMultipleFCs \cup {FCGetComEventCounter}
    THEN Inferred(5, "nil")
  ELSE IF b[1] = FCReadExceptionStatus THEN Inferred(2, "nil")
  ELSE IF b[1] = FCDiagnostic THEN Counted(b, 3)
  ELSE Inferred(0, "badfc")
================================================================================
