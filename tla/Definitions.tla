------------------------------ MODULE Definitions ------------------------------
(***************************************************************************)
(* Function codes and exceptions of package peamodbus (definitions.go),    *)
(* and the machine integers the package computes with.                     *)
(***************************************************************************)
EXTENDS Integers

\* Data access function codes.
FCReadCoils              == 1
FCReadDiscreteInputs     == 2
FCReadHoldingRegisters   == 3
FCReadInputRegisters     == 4
FCWriteSingleCoil        == 5
FCWriteSingleRegister    == 6
FCWriteMultipleCoils     == 15
FCWriteMultipleRegisters == 16

\* Data access function codes that exist but that no server implements:
\* file records, mask write, read/write multiple, FIFO queue.
FCReadFileRecord         == 20
FCReadFIFOQueue          == 24
UnimplementedAccess      == FCReadFileRecord .. FCReadFIFOQueue

\* Diagnostic function codes.
FCReadExceptionStatus      == 7
FCDiagnostic               == 8
FCGetComEventCounter       == 11
FCGetComEventLog           == 12
FCReportServerID           == 17
FCReadDeviceIdentification == 43

\* Exceptions; ExceptionNone is the zero value "no exception".
ExceptionNone              == 0
ExceptionIllegalFunction   == 1
ExceptionIllegalDataAddr   == 2
ExceptionIllegalDataValue  == 3
ExceptionMemoryParityError == 8

\* uint16 arithmetic wraps around; a byte is a uint8.
U16(n) == n % 65536
Byte   == 0 .. 255
Uint16 == {n \in Nat : n < 65536}
================================================================================
