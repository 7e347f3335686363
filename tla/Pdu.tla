---------------------------------- MODULE Pdu ----------------------------------
(***************************************************************************)
(* Requests and responses as bytes (tx.go): building a request, decoding   *)
(* it, and answering it from a register bank.  The bank's part, a walk     *)
(* over consecutive elements, is DataBank's; that it may be taken as one   *)
(* instant is what the refinement of AtomicModel shows.                    *)
(***************************************************************************)
EXTENDS DataBank, PacketLength

BigEndian(v)  == <<v \div 256, v % 256>>
Uint16At(b, i) == 256 * b[i] + b[i + 1]

--------------------------------------------------------------------------------
(***************************************************************************)
(* Requests.  The builders, as a client calls them; they answer the empty  *)
(* sequence where the code returns an error.  room is the length of dst.   *)
(***************************************************************************)
writeSimple2U16(fc, v1, v2) == <<fc>> \o BigEndian(v1) \o BigEndian(v2)

writeSimpleU8(fc, v1, responseData, room) ==
  IF Len(responseData) > room - 2 THEN <<>> ELSE <<fc, v1>> \o responseData

RequestRead(fc, addr, qty) ==
  IF qty > 125 \/ qty = 0 THEN <<>> ELSE writeSimple2U16(fc, addr, qty)

RequestReadBits(fc, addr, qty) ==
  IF qty > 2000 \/ qty = 0 THEN <<>> ELSE writeSimple2U16(fc, addr, qty)

RequestWriteSingleCoil(addr, value) ==
  writeSimple2U16(FCWriteSingleCoil, addr, IF value THEN 65280 ELSE 0)

RequestWriteSingleRegister(addr, value) == writeSimple2U16(FCWriteSingleRegister, addr, value)

\* data holds the coils, eight to a byte; its length must fit their number.
RequestWriteMultipleCoils(addr, qty, data) ==
  IF \/ Len(data) \notin 1 .. 250 \/ qty \notin 1 .. 2000
     \/ Len(data) # (qty + 7) \div 8
    THEN <<>>
    ELSE writeSimple2U16(FCWriteMultipleCoils, addr, qty) \o <<Len(data)>> \o data

RequestWriteMultipleRegisters(addr, registers) ==
  IF Len(registers) \notin 1 .. 123 THEN <<>>
  ELSE writeSimple2U16(FCWriteMultipleRegisters, addr, Len(registers))
         \o <<2 * Len(registers)>>
         \o [j \in 1 .. 2 * Len(registers) |-> BigEndian(registers[(j + 1) \div 2])[2 - (j % 2)]]

\* DecodeRequest.  off is where the values of the request start.
Decoded(err, fc, addr, val, bc, off) ==
  [err |-> err, fc |-> fc, maybeAddr |-> addr, maybeValueQuantity |-> val,
   maybeByteCount |-> bc, off |-> off]

Undecoded(err) == Decoded(err, 0, 0, 0, 0, 0)

DecodeRequest(pdu) ==
  LET fc == pdu[1] IN
  IF Len(pdu) < 2 THEN Undecoded("short")
  ELSE IF fc \in ReadFCs \cup WriteSingleFCs THEN
    IF Len(pdu) < 5 THEN Undecoded("missing")
    ELSE Decoded("nil", fc, Uint16At(pdu, 2), Uint16At(pdu, 4), 0, 0)
  ELSE IF fc \in WriteMultipleFCs THEN
    IF Len(pdu) < 7 \/ Len(pdu) < 6 + pdu[6] THEN Undecoded("missing")
    ELSE Decoded("nil", fc, Uint16At(pdu, 2), Uint16At(pdu, 4), pdu[6], 6)
  ELSE IF fc \in UnimplementedAccess THEN Undecoded("exception")
  ELSE IF fc = FCReadExceptionStatus THEN Decoded("nil", fc, 0, 0, 0, 0)
  ELSE Undecoded("unhandled")

--------------------------------------------------------------------------------
(***************************************************************************)
(* Request.PutResponse.                                                    *)
(***************************************************************************)
TableOf(fc) ==
  CASE fc = FCReadInputRegisters -> "inputRegisters"
    [] fc = FCReadDiscreteInputs -> "discreteInputs"
    [] fc \in {FCReadCoils, FCWriteSingleCoil, FCWriteMultipleCoils} -> "coils"
    [] OTHER -> "holdingRegisters"

\* Mutant: two bytes for a coil, too.
quantityBytes_Doubled(req) == U16(2 * req.maybeValueQuantity)

\* How many bytes of values: wraps for a read of more than 32767 registers,
\* and is the value itself for a write of one element.
quantityBytes(req) ==
  IF req.fc \in {FCReadHoldingRegisters, FCReadInputRegisters}
    THEN IF req.maybeByteCount # 0 THEN req.maybeByteCount ELSE U16(2 * req.maybeValueQuantity)
    ELSE req.maybeValueQuantity

\* readData is data[2 : 2+quantityBytes], with the end computed in uint16;
\* the slice expression is evaluated for every function code.
SliceEnd(req) == U16(2 + quantityBytes(req))
SlicePanics(req, capacity) == SliceEnd(req) < 2 \/ SliceEnd(req) > capacity

\* Mutant: registers with their low byte first.
ElementIn_LowByteFirst(fc, data, k) ==
  IF TableOf(fc) = "coils" THEN (data[(k \div 8) + 1] \div 2^(k % 8)) % 2
  ELSE data[2 * k + 1] + 256 * data[2 * k + 2]

\* The elements a write finds in the bytes of its request.
ElementIn(fc, data, k) ==
  IF TableOf(fc) = "coils" THEN (data[(k \div 8) + 1] \div 2^(k % 8)) % 2 ELSE Uint16At(data, 2 * k + 1)

Supplied(fc, data) == IF TableOf(fc) = "coils" THEN 8 * Len(data) ELSE Len(data) \div 2

\* What writeToModel is given to write.
WrittenData(req, data) ==
  IF req.fc \in WriteSingleFCs THEN BigEndian(req.maybeValueQuantity)
  ELSE SubSeq(data, 1, req.maybeByteCount)

Asked(req) == IF req.fc \in WriteSingleFCs THEN 1 ELSE req.maybeValueQuantity

\* The operation on the bank.  Elements that a write asks for and does not
\* supply stand as 0; they are never stored.
OperationOf(req, data) ==
  LET isRead == req.fc \in ReadFCs
      given  == WrittenData(req, data)
  IN [kind |-> IF isRead THEN "read" ELSE "write", check |-> TRUE, table |-> TableOf(req.fc),
      start |-> req.maybeAddr, qty |-> Asked(req), odd |-> 0, locks |-> 1,
      data |-> IF isRead THEN <<>>
               ELSE [k \in 1 .. Asked(req) |->
                       IF k <= Supplied(req.fc, given) THEN ElementIn(req.fc, given, k - 1) ELSE 0]]

\* writeToModel runs out of bytes before the bank refuses an element: it panics.
RunsOut(req, data) ==
  LET o == OperationOf(req, data)
      n == Supplied(req.fc, WrittenData(req, data))
  IN o.kind = "write" /\ n < o.qty /\ Check(o) = ExceptionNone /\ 0 .. n - 1 \subseteq Reached(o)

\* Mutant: the bit of a coil that is off is not cleared.
ReadData_KeepsOnes(o, m, stale) ==
  LET vals == Values(o, m)
      bit(j, k) == IF 8 * (j - 1) + k < o.qty /\ vals[8 * (j - 1) + k] = 1 THEN 1
                   ELSE (stale[j] \div 2^k) % 2
  IN IF o.table \in RegTables
       THEN [j \in 1 .. 2 * o.qty |-> BigEndian(vals[(j - 1) \div 2])[2 - (j % 2)]]
       ELSE [j \in 1 .. o.qty |-> bit(j, 0) + 2 * bit(j, 1) + 4 * bit(j, 2) + 8 * bit(j, 3)]

\* The bytes of readData once the values are in: registers fill it; a coil
\* is one bit, and the bits and bytes that no coil fills stay as they were.
ReadData(o, m, stale) ==
  LET vals == Values(o, m)
      bit(j, k) == IF 8 * (j - 1) + k < o.qty THEN vals[8 * (j - 1) + k] ELSE (stale[j] \div 2^k) % 2
  IN IF o.table \in RegTables
       THEN [j \in 1 .. 2 * o.qty |-> BigEndian(vals[(j - 1) \div 2])[2 - (j % 2)]]
       ELSE [j \in 1 .. o.qty |-> bit(j, 0) + 2 * bit(j, 1) + 4 * bit(j, 2) + 8 * bit(j, 3)
                + 16 * bit(j, 4) + 32 * bit(j, 5) + 64 * bit(j, 6) + 128 * bit(j, 7)]

\* The value a write is acknowledged with: a coil is ON only if it was 0xff00.
Echo(req) ==
  IF req.fc = FCWriteSingleCoil THEN IF req.maybeValueQuantity = 65280 THEN 65280 ELSE 0
  ELSE quantityBytes(req)

\* Exception.PutResponse.
ExceptionResponse(exc, fc) == <<fc + 128, exc>>

Answer(out, m, exc, pdu) == [out |-> out, bank |-> m, exc |-> exc, pdu |-> pdu]

\* data is what follows off in the request, capacity the room there is in
\* its buffer from there on, room the length of dst, stale what readData
\* held before.
PutResponse(req, m, data, capacity, room, stale) ==
  LET o == OperationOf(req, data)
      n == Supplied(req.fc, WrittenData(req, data))
      after == Effect(o, Reached(o), m)
  IN IF SlicePanics(req, capacity) THEN Answer("panic", m, ExceptionNone, <<>>)
     ELSE IF req.fc \notin ReadFCs \cup WriteSingleFCs \cup WriteMultipleFCs
       THEN Answer("exception", m, ExceptionIllegalFunction, <<>>)
     ELSE IF RunsOut(req, data) THEN Answer("panic", Effect(o, 0 .. n - 1, m), ExceptionNone, <<>>)
     ELSE IF Outcome(o) # ExceptionNone THEN Answer("exception", after, Outcome(o), <<>>)
     ELSE IF req.fc = FCWriteMultipleCoils THEN Answer("panic", after, ExceptionNone, <<>>)
     ELSE IF o.kind = "write"
       THEN Answer("ok", after, ExceptionNone,
                   writeSimple2U16(req.fc, req.maybeAddr, Echo(req)))
     ELSE LET pdu == writeSimpleU8(req.fc, quantityBytes(req) % 256, ReadData(o, m, stale), room)
          IN Answer(IF pdu = <<>> THEN "error" ELSE "ok", after, ExceptionNone, pdu)

\* ReceiveDataResponse: the values in a response to a read.
ReceiveDataResponse(pdu) ==
  IF Len(pdu) < 2 THEN [err |-> "short", data |-> <<>>]
  ELSE IF pdu[1] \notin ReadFCs THEN [err |-> "badfc", data |-> <<>>]
  ELSE IF Len(pdu) < 2 + pdu[2] THEN [err |-> "short", data |-> <<>>]
  ELSE [err |-> "nil", data |-> SubSeq(pdu, 3, Len(pdu))]

\* ReceiveSingleWriteResponse: what a write of one element was acknowledged with.
ReceiveSingleWriteResponse(pdu) ==
  IF Len(pdu) < 5 THEN [err |-> "short", addr |-> 0, value |-> 0]
  ELSE IF pdu[1] \notin WriteSingleFCs THEN [err |-> "badfc", addr |-> 0, value |-> 0]
  ELSE [err |-> "nil", addr |-> Uint16At(pdu, 2), value |-> Uint16At(pdu, 4)]
================================================================================
