-------------------------------- MODULE PduProofs --------------------------------
(***************************************************************************)
(* What PutResponse makes of a request, for every request, every bank and  *)
(* every buffer: what it stores, what it answers, and when it panics.      *)
(***************************************************************************)
EXTENDS Pdu, TLAPS

--------------------------------------------------------------------------------
(***************************************************************************)
(* Numbers and bytes.                                                      *)
(***************************************************************************)
LEMMA ByteRange ==
  /\ \A x \in Byte : x \in Nat /\ x <= 255
  /\ \A x \in Nat : x <= 255 => x \in Byte
BY DEF Byte

\* uint16 arithmetic.
LEMMA Wraps ==
  /\ \A n \in Nat : U16(n) \in Nat /\ U16(n) < 65536 /\ U16(n) \in Uint16
  /\ \A n \in Nat : n < 65536 => n \in Uint16 /\ U16(n) = n
  /\ \A n \in Uint16 : n \in Nat /\ n < 65536
BY SMT DEF U16, Uint16

\* The two bytes of a uint16 make it up.
LEMMA TwoBytes ==
  ASSUME NEW v \in Uint16
  PROVE  /\ BigEndian(v)[1] \in Byte /\ BigEndian(v)[2] \in Byte
         /\ 256 * BigEndian(v)[1] + BigEndian(v)[2] = v
  <1>1. v \in Nat /\ v < 65536
    BY SMT DEF Uint16
  <1> HIDE DEF Uint16
  <1>2. v % 256 \in Nat /\ v % 256 <= 255 /\ v \div 256 \in Nat /\ v \div 256 <= 255
        /\ 256 * (v \div 256) + (v % 256) = v
    BY <1>1, SMT
  <1>3. BigEndian(v)[1] = v \div 256 /\ BigEndian(v)[2] = v % 256
    BY SMT DEF BigEndian
  <1> QED
    BY <1>2, <1>3, ByteRange, SMT

\* Any two bytes make up a uint16.
LEMMA NumberAt ==
  ASSUME NEW b \in Seq(Byte), NEW i \in Nat, i >= 1, i + 1 <= Len(b)
  PROVE  Uint16At(b, i) \in Uint16
  <1>1. b[i] \in Byte /\ b[i + 1] \in Byte
    OBVIOUS
  <1>2. 256 * b[i] + b[i + 1] \in Nat /\ 256 * b[i] + b[i + 1] < 65536
    BY <1>1, ByteRange, SMT
  <1> QED
    BY <1>2, Wraps, SMT DEF Uint16At

\* The first bytes of a sequence.
LEMMA Front ==
  ASSUME NEW s \in Seq(Byte), NEW n \in Nat, n <= Len(s)
  PROVE  /\ SubSeq(s, 1, n) \in Seq(Byte) /\ Len(SubSeq(s, 1, n)) = n
         /\ \A j \in 1 .. n : SubSeq(s, 1, n)[j] = s[j]
  OBVIOUS

\* A function code and two numbers.
LEMMA TwoNumbers ==
  ASSUME NEW fc \in Byte, NEW v1 \in Uint16, NEW v2 \in Uint16,
         NEW s, s = writeSimple2U16(fc, v1, v2)
  PROVE  /\ s \in Seq(Byte) /\ Len(s) = 5 /\ s[1] = fc
         /\ Uint16At(s, 2) = v1 /\ Uint16At(s, 4) = v2
  <1> DEFINE a == BigEndian(v1)[1]
             b == BigEndian(v1)[2]
             c == BigEndian(v2)[1]
             d == BigEndian(v2)[2]
  <1>1. /\ a \in Byte /\ b \in Byte /\ 256 * a + b = v1
        /\ c \in Byte /\ d \in Byte /\ 256 * c + d = v2
    <2>1. a \in Byte /\ b \in Byte /\ 256 * a + b = v1
      BY TwoBytes, Zenon
    <2>2. c \in Byte /\ d \in Byte /\ 256 * c + d = v2
      BY TwoBytes, Zenon
    <2> QED
      BY <2>1, <2>2, Zenon
  <1>2. BigEndian(v1) = <<a, b>> /\ BigEndian(v2) = <<c, d>>
    BY SMT DEF BigEndian
  <1> HIDE DEF a, b, c, d
  <1>3. s = <<fc>> \o <<a, b>> \o <<c, d>>
    BY <1>2 DEF writeSimple2U16
  <1> DEFINE u == <<fc>> \o <<a, b>>
  <1>4. u \in Seq(Byte) /\ Len(u) = 3 /\ u[1] = fc /\ u[2] = a /\ u[3] = b
    BY <1>1
  <1> HIDE DEF u
  <1>5. s \in Seq(Byte) /\ Len(s) = 5
    BY <1>1, <1>3, <1>4 DEF u
  <1>6. s[1] = fc /\ s[2] = a /\ s[3] = b /\ s[4] = c /\ s[5] = d
    BY <1>1, <1>3, <1>4 DEF u
  <1> QED
    BY <1>1, <1>5, <1>6 DEF Uint16At

\* A bit of a byte.
LEMMA BitOf ==
  ASSUME NEW x \in Nat, NEW k \in Nat
  PROVE  (x \div 2^(k % 8)) % 2 \in {0, 1}
  <1>1. \/ k % 8 = 0 \/ k % 8 = 1 \/ k % 8 = 2 \/ k % 8 = 3 \/ k % 8 = 4 \/ k % 8 = 5 \/ k % 8 = 6
        \/ k % 8 = 7
    BY SMT
  <1>2. /\ (x \div 2^0) % 2 \in {0, 1} /\ (x \div 2^1) % 2 \in {0, 1} /\ (x \div 2^2) % 2 \in {0, 1}
        /\ (x \div 2^3) % 2 \in {0, 1} /\ (x \div 2^4) % 2 \in {0, 1} /\ (x \div 2^5) % 2 \in {0, 1}
        /\ (x \div 2^6) % 2 \in {0, 1} /\ (x \div 2^7) % 2 \in {0, 1}
    BY SMT
  <1> QED
    BY <1>1, <1>2, Zenon

\* Eight bits as a byte.
Octet(a, b, c, d, e, f, g, h) == a + 2 * b + 4 * c + 8 * d + 16 * e + 32 * f + 64 * g + 128 * h

LEMMA BitsOfByte ==
  ASSUME NEW a \in {0, 1}, NEW b \in {0, 1}, NEW c \in {0, 1}, NEW d \in {0, 1},
         NEW e \in {0, 1}, NEW f \in {0, 1}, NEW g \in {0, 1}, NEW h \in {0, 1},
         NEW x, x = Octet(a, b, c, d, e, f, g, h)
  PROVE  /\ x \in Byte
         /\ (x \div 2^0) % 2 = a /\ (x \div 2^1) % 2 = b /\ (x \div 2^2) % 2 = c /\ (x \div 2^3) % 2 = d
         /\ (x \div 2^4) % 2 = e /\ (x \div 2^5) % 2 = f /\ (x \div 2^6) % 2 = g /\ (x \div 2^7) % 2 = h
  <1>1. x = a + 2 * b + 4 * c + 8 * d + 16 * e + 32 * f + 64 * g + 128 * h
    BY DEF Octet
  <1>2. x \in Nat /\ x <= 255
    BY <1>1, SMT
  <1>3. (x \div 2^0) % 2 = a /\ (x \div 2^1) % 2 = b /\ (x \div 2^2) % 2 = c /\ (x \div 2^3) % 2 = d
    BY <1>1, SMT
  <1>4. (x \div 2^4) % 2 = e /\ (x \div 2^5) % 2 = f /\ (x \div 2^6) % 2 = g /\ (x \div 2^7) % 2 = h
    BY <1>1, SMT
  <1> QED
    BY <1>2, <1>3, <1>4, ByteRange, SMT

--------------------------------------------------------------------------------
(***************************************************************************)
(* Requests.                                                               *)
(***************************************************************************)

\* What DecodeRequest makes of the three kinds of requests it accepts.
IsShort(p, req) ==
  /\ p[1] \in ReadFCs \cup WriteSingleFCs /\ Len(p) >= 5
  /\ Uint16At(p, 2) \in Uint16 /\ Uint16At(p, 4) \in Uint16
  /\ req = Decoded("nil", p[1], Uint16At(p, 2), Uint16At(p, 4), 0, 0)

IsLong(p, req) ==
  /\ p[1] \in WriteMultipleFCs /\ Len(p) >= 7 /\ Len(p) >= 6 + p[6] /\ p[6] \in Byte
  /\ Uint16At(p, 2) \in Uint16 /\ Uint16At(p, 4) \in Uint16
  /\ req = Decoded("nil", p[1], Uint16At(p, 2), Uint16At(p, 4), p[6], 6)

IsStatus(p, req) == p[1] = FCReadExceptionStatus /\ req = Decoded("nil", p[1], 0, 0, 0, 0)

LEMMA Decodes ==
  ASSUME NEW p \in Seq(Byte), NEW req, req = DecodeRequest(p), req.err = "nil"
  PROVE  IsShort(p, req) \/ IsLong(p, req) \/ IsStatus(p, req)
  <1> DEFINE n == Len(p)
  <1>1. n \in Nat
    OBVIOUS
  <1>2. \A e \in {"short", "missing", "exception", "unhandled"} : Undecoded(e).err # "nil"
    BY DEF Undecoded, Decoded
  <1>3. \/ /\ p[1] \in ReadFCs \cup WriteSingleFCs /\ ~(n < 5)
           /\ req = Decoded("nil", p[1], Uint16At(p, 2), Uint16At(p, 4), 0, 0)
        \/ /\ p[1] \in WriteMultipleFCs /\ ~(n < 7) /\ ~(n < 6 + p[6])
           /\ req = Decoded("nil", p[1], Uint16At(p, 2), Uint16At(p, 4), p[6], 6)
        \/ IsStatus(p, req)
    BY <1>2, Zenon DEF DecodeRequest, IsStatus
  <1>4. n >= 5 => Uint16At(p, 2) \in Uint16 /\ Uint16At(p, 4) \in Uint16
    BY <1>1, NumberAt
  <1>5. n >= 7 => p[6] \in Byte
    OBVIOUS
  <1>n. n = Len(p)
    OBVIOUS
  <1> HIDE DEF n
  <1>6. ~(n < 5) => n >= 5
    BY <1>1
  <1>7. ~(n < 7) => n >= 7 /\ n >= 5
    BY <1>1
  <1>8. n >= 7 /\ ~(n < 6 + p[6]) => n >= 6 + p[6]
    BY <1>1, <1>5, ByteRange
  <1> QED
    BY <1>3, <1>4, <1>5, <1>6, <1>7, <1>8, <1>n, Zenon DEF IsShort, IsLong

\* Which function codes are which.
LEMMA Codes ==
  /\ ReadFCs \cap WriteSingleFCs = {} /\ ReadFCs \cap WriteMultipleFCs = {}
  /\ WriteSingleFCs \cap WriteMultipleFCs = {}
  /\ FCReadExceptionStatus \notin ReadFCs \cup WriteSingleFCs \cup WriteMultipleFCs
  /\ \A fc \in ReadFCs \cup WriteSingleFCs \cup WriteMultipleFCs : fc \in Nat /\ fc <= 16
  /\ FCReadExceptionStatus = 7
BY DEF ReadFCs, WriteSingleFCs, WriteMultipleFCs, FCReadExceptionStatus,
       FCReadHoldingRegisters, FCReadInputRegisters, FCReadCoils, FCReadDiscreteInputs,
       FCWriteSingleCoil, FCWriteSingleRegister, FCWriteMultipleRegisters, FCWriteMultipleCoils

LEMMA Tables ==
  /\ \A fc : TableOf(fc) \in Table
  /\ TableOf(FCReadCoils) \in BitTables /\ TableOf(FCReadDiscreteInputs) \in BitTables
  /\ TableOf(FCReadHoldingRegisters) \in RegTables /\ TableOf(FCReadInputRegisters) \in RegTables
  /\ TableOf(FCWriteSingleCoil) = "coils" /\ TableOf(FCWriteMultipleCoils) = "coils"
  /\ TableOf(FCWriteSingleRegister) = "holdingRegisters"
  /\ TableOf(FCWriteMultipleRegisters) = "holdingRegisters"
  /\ BitTables \cap RegTables = {} /\ "coils" \in BitTables /\ "holdingRegisters" \in RegTables
BY DEF TableOf, Table, BitTables, RegTables,
       FCReadHoldingRegisters, FCReadInputRegisters, FCReadCoils, FCReadDiscreteInputs,
       FCWriteSingleCoil, FCWriteSingleRegister, FCWriteMultipleRegisters, FCWriteMultipleCoils

--------------------------------------------------------------------------------
(***************************************************************************)
(* The walk over the bank.                                                 *)
(***************************************************************************)

\* A walk that wraps around meets the last address there is, which no bank has.
LEMMA WholeRange ==
  ASSUME NEW addr \in Uint16, NEW q \in Nat, NEW size \in Nat, size < 65536,
         \A k \in 0 .. q - 1 : U16(addr + k) \in 0 .. size - 1
  PROVE  \A k \in 0 .. q - 1 : addr + k \in 0 .. size - 1 /\ U16(addr + k) = addr + k
  <1>1. addr \in Nat /\ addr < 65536
    BY Wraps, SMT
  <1>2. ASSUME NEW k \in 0 .. q - 1 PROVE addr + k < 65536
    <2>1. SUFFICES ASSUME addr + k >= 65536 PROVE FALSE
      BY <1>1, SMT
    <2> DEFINE j == 65535 - addr
    <2>2. j \in 0 .. q - 1 /\ addr + j = 65535
      BY <1>1, <2>1, SMT
    <2> HIDE DEF j
    <2>3. U16(addr + j) \in 0 .. size - 1
      BY <2>2, SMT
    <2>4. U16(addr + j) = 65535
      BY <2>2, SMT DEF U16
    <2> QED
      BY <1>1, <2>3, <2>4, SMT
  <1>3. ASSUME NEW k \in 0 .. q - 1
        PROVE  addr + k \in 0 .. size - 1 /\ U16(addr + k) = addr + k
    <2>1. addr + k \in Nat /\ addr + k < 65536
      BY <1>1, <1>2, SMT
    <2>2. U16(addr + k) = addr + k
      BY <2>1, Wraps, SMT
    <2> QED
      BY <2>2, SMT
  <1> QED
    BY <1>3, SMT

IsOperation(o, kind, t, addr, q) ==
  /\ o.kind = kind /\ o.check = TRUE /\ o.table = t /\ o.start = addr /\ o.qty = q /\ o.odd = 0

\* Such an operation is not refused.
Granted(o, t, addr, q) ==
  /\ Outcome(o) = ExceptionNone /\ Reached(o) = 0 .. q - 1
  /\ \A k \in 0 .. q - 1 : addr + k \in 0 .. Size(t) - 1 /\ CellOf(o, k) = <<t, addr + k>>

\* A request for elements is refused, or walks over its whole range.
LEMMA Walk ==
  ASSUME NEW o, NEW kind \in {"read", "write"}, NEW t, NEW addr \in Uint16,
         NEW q \in Nat, IsOperation(o, kind, t, addr, q)
  PROVE  /\ Reached(o) \subseteq 0 .. q - 1
         /\ Outcome(o) \in 2 .. 3 \/ Granted(o, t, addr, q)
  <1>0. /\ o.kind = kind /\ o.check = TRUE /\ o.table = t /\ o.start = addr /\ o.qty = q
        /\ Total(o) = q
    BY DEF IsOperation, Total
  <1>1. Reached(o) \subseteq 0 .. q - 1
    BY <1>0 DEF Reached
  <1>2. Check(o) = ExceptionNone \/ Check(o) = 2 \/ Check(o) = 3
    BY <1>0 DEF Check, CheckRead, CheckWrite, ExceptionNone, ExceptionIllegalDataAddr,
                ExceptionIllegalDataValue
  <1>3. CASE Check(o) # ExceptionNone
    <2>1. Outcome(o) = 2 \/ Outcome(o) = 3
      BY <1>2, <1>3, Zenon DEF Outcome
    <2> QED
      BY <1>1, <2>1
  <1>4. CASE Check(o) = ExceptionNone /\ ~\A k \in 0 .. q - 1 : k \in Reached(o)
    <2>1. Outcome(o) = 2
      BY <1>0, <1>4, Zenon DEF Outcome, ExceptionIllegalDataAddr
    <2> QED
      BY <1>1, <2>1
  <1>5. CASE Check(o) = ExceptionNone /\ \A k \in 0 .. q - 1 : k \in Reached(o)
    <2>1. Outcome(o) = ExceptionNone /\ Reached(o) = 0 .. q - 1
      BY <1>0, <1>1, <1>5, Zenon DEF Outcome
    <2>2. Size(t) \in Nat /\ Size(t) < 65536
      BY SizeAssumption DEF Size
    <2>3. ASSUME NEW k \in 0 .. q - 1 PROVE U16(addr + k) \in 0 .. Size(t) - 1
      <3>1. k \in 0 .. k
        OBVIOUS
      <3>2. InRange(o, k)
        BY <1>5, <3>1, Zenon DEF Reached
      <3> QED
        BY <1>0, <3>2, Zenon DEF InRange, Addr
    <2>4. \A k \in 0 .. q - 1 : addr + k \in 0 .. Size(t) - 1 /\ U16(addr + k) = addr + k
      <3> DEFINE size == Size(t)
      <3> HIDE DEF size
      <3>1. \A k \in 0 .. q - 1 : addr + k \in 0 .. size - 1 /\ U16(addr + k) = addr + k
        BY <2>2, <2>3, WholeRange DEF size
      <3> QED
        BY <3>1 DEF size
    <2>5. \A k \in 0 .. q - 1 : CellOf(o, k) = <<t, addr + k>>
      BY <1>0, <2>4, Zenon DEF CellOf, Addr
    <2> QED
      BY <1>1, <2>1, <2>4, <2>5, Zenon DEF Granted
  <1> QED
    BY <1>3, <1>4, <1>5, Zenon

\* Such a range is in the bank.
LEMMA InTheBank ==
  ASSUME NEW t \in Table, NEW x \in 0 .. Size(t) - 1
  PROVE  <<t, x>> \in Cell
  <1>1. <<t, x>> \in {t} \X (0 .. Size(t) - 1)
    OBVIOUS
  <1> QED
    BY <1>1, Zenon DEF Cell

\* A read leaves the bank alone.
LEMMA ReadEffect ==
  ASSUME NEW W, NEW o, o.kind = "read", NEW ks, NEW m \in [Cell -> W]
  PROVE  Effect(o, ks, m) = m
  <1>1. Effect(o, ks, m) = [c \in Cell |-> m[c]]
    BY DEF Effect
  <1> QED
    BY <1>1, Zenon

\* The banks of words W: coils and inputs are 0 or 1.
BankOf(W) == {m \in [Cell -> W] : \A c \in Cell : c[1] \in BitTables => m[c] \in {0, 1}}

\* What a write may be given.
Storable(o, W, q) ==
  \A k \in 0 .. q - 1 : o.data[k + 1] \in W /\ (o.table \in BitTables => o.data[k + 1] \in {0, 1})

\* The bank after a write has the elements ks of it.
Has(b, o, ks, t, addr) ==
  \A k \in ks : <<t, addr + k>> \in Cell => b[<<t, addr + k>>] = o.data[k + 1]

LEMMA WriteEffect ==
  ASSUME NEW W, NEW o, NEW t, NEW addr \in Uint16, NEW q \in Nat, IsOperation(o, "write", t, addr, q),
         Storable(o, W, q), NEW ks, ks \subseteq 0 .. q - 1, NEW m \in BankOf(W)
  PROVE  Effect(o, ks, m) \in BankOf(W) /\ Has(Effect(o, ks, m), o, ks, t, addr)
  <1> DEFINE w(c) == IF c[1] = t /\ c[2] - addr \in ks THEN Stored(o, c[2] - addr, m[c]) ELSE m[c]
  <1>1. addr \in Nat /\ o.table = t /\ o.qty = q
    BY Wraps, SMT DEF IsOperation
  <1>2. \A k \in ks : \A x : Stored(o, k, x) = o.data[k + 1]
    <2> SUFFICES ASSUME NEW k \in ks, NEW x PROVE Stored(o, k, x) = o.data[k + 1]
      BY Zenon
    <2>1. k # q
      <3>1. k \in 0 .. q - 1
        BY Zenon
      <3> QED
        BY <3>1, SMT
    <2> QED
      BY <1>1, <2>1, Zenon DEF Stored
  <1>3. Effect(o, ks, m) = [c \in Cell |-> w(c)]
    BY Zenon DEF Effect, IsOperation
  <1>m. m \in [Cell -> W] /\ \A c \in Cell : c[1] \in BitTables => m[c] \in {0, 1}
    BY Zenon DEF BankOf
  <1>4. ASSUME NEW c \in Cell PROVE w(c) \in W /\ (c[1] \in BitTables => w(c) \in {0, 1})
    <2>1. CASE c[1] = t /\ c[2] - addr \in ks
      <3> DEFINE k == c[2] - addr
      <3>1. w(c) = o.data[k + 1] /\ k \in 0 .. q - 1
        BY <1>2, <2>1, Zenon
      <3> HIDE DEF w, k
      <3>2. o.data[k + 1] \in W /\ (o.table \in BitTables => o.data[k + 1] \in {0, 1})
        BY <3>1, Zenon DEF Storable
      <3> QED
        BY <1>1, <2>1, <3>1, <3>2, Zenon
    <2>2. CASE ~(c[1] = t /\ c[2] - addr \in ks)
      BY <1>m, <2>2, Zenon
    <2> QED
      BY <2>1, <2>2, Zenon
  <1>5. ASSUME NEW k \in ks, <<t, addr + k>> \in Cell
        PROVE  w(<<t, addr + k>>) = o.data[k + 1]
    <2>1. (addr + k) - addr = k
      <3>1. k \in 0 .. q - 1
        BY Zenon
      <3> QED
        BY <1>1, <3>1, SMT
    <2>2. <<t, addr + k>>[1] = t /\ <<t, addr + k>>[2] = addr + k
      BY Zenon
    <2> QED
      BY <1>2, <2>1, <2>2, Zenon
  <1> HIDE DEF w
  <1>6. Effect(o, ks, m) \in BankOf(W)
    BY <1>3, <1>4, Zenon DEF BankOf
  <1> QED
    BY <1>3, <1>5, <1>6, Zenon DEF Has

--------------------------------------------------------------------------------
(***************************************************************************)
(* What a request asks of the bank.                                        *)
(***************************************************************************)
LEMMA ReadOperation ==
  ASSUME NEW p \in Seq(Byte), NEW req, IsShort(p, req), p[1] \in ReadFCs, NEW data
  PROVE  /\ IsOperation(OperationOf(req, data), "read", TableOf(p[1]), Uint16At(p, 2), Uint16At(p, 4))
         /\ req.fc = p[1] /\ req.maybeAddr = Uint16At(p, 2)
         /\ req.maybeValueQuantity = Uint16At(p, 4) /\ req.maybeByteCount = 0 /\ req.off = 0
  <1>1. /\ req.fc = p[1] /\ req.maybeAddr = Uint16At(p, 2) /\ req.maybeValueQuantity = Uint16At(p, 4)
        /\ req.maybeByteCount = 0 /\ req.off = 0
    BY DEF IsShort, Decoded
  <1>2. p[1] \notin WriteSingleFCs
    BY Codes, Zenon
  <1> QED
    BY <1>1, <1>2 DEF OperationOf, IsOperation, Asked

\* A write of one element: a register gets the number in the request; a coil
\* gets the lowest bit of its high byte.
LEMMA SingleOperation ==
  ASSUME NEW p \in Seq(Byte), NEW req, IsShort(p, req), p[1] \in WriteSingleFCs, NEW data
  PROVE  LET o == OperationOf(req, data)
         IN /\ IsOperation(o, "write", TableOf(p[1]), Uint16At(p, 2), 1)
            /\ req.fc = p[1] /\ req.maybeAddr = Uint16At(p, 2)
            /\ req.maybeValueQuantity = Uint16At(p, 4) /\ req.off = 0
            /\ Supplied(req.fc, WrittenData(req, data)) >= 1
            /\ p[1] = FCWriteSingleRegister => o.data[1] = Uint16At(p, 4)
            /\ p[1] = FCWriteSingleCoil =>
                 o.data[1] \in {0, 1} /\ (Uint16At(p, 4) <= 255 => o.data[1] = 0)
  <1> DEFINE o == OperationOf(req, data)
             fc == p[1]
             v == Uint16At(p, 4)
             given == WrittenData(req, data)
             n == Supplied(req.fc, given)
  <1>1. /\ req.fc = fc /\ req.maybeAddr = Uint16At(p, 2) /\ req.maybeValueQuantity = v
        /\ req.off = 0 /\ v \in Uint16
    BY DEF IsShort, Decoded
  <1>2. fc \notin ReadFCs /\ (fc = FCWriteSingleCoil \/ fc = FCWriteSingleRegister)
    BY Codes, Zenon DEF WriteSingleFCs
  <1>3. IsOperation(o, "write", TableOf(fc), Uint16At(p, 2), 1)
    BY <1>1, <1>2 DEF OperationOf, IsOperation, Asked
  <1>4. o.data = [k \in 1 .. 1 |-> IF k <= n THEN ElementIn(fc, given, k - 1) ELSE 0]
    BY <1>1, <1>2 DEF OperationOf, Asked
  <1>5. given = BigEndian(v)
    BY <1>1, Zenon DEF WrittenData
  <1> DEFINE a == BigEndian(v)[1]
             b == BigEndian(v)[2]
  <1>6. a \in Byte /\ b \in Byte /\ 256 * a + b = v /\ given = <<a, b>>
    <2>1. a \in Byte /\ b \in Byte /\ 256 * a + b = v
      BY <1>1, TwoBytes, Zenon
    <2>2. given = <<a, b>>
      <3> HIDE DEF v, given
      <3> QED
        BY <1>5, SMT DEF BigEndian
    <2> QED
      BY <2>1, <2>2, Zenon
  <1>n. n = Supplied(fc, given)
    BY <1>1
  <1> HIDE DEF a, b, v, given, n, o
  <1>7. Len(given) = 2 /\ given[1] = a /\ given[2] = b
    BY <1>6
  <1>8. n >= 1
    <2>1. Supplied(fc, given) = 8 * 2 \/ Supplied(fc, given) = 2 \div 2
      BY <1>7, Zenon DEF Supplied
    <2> QED
      BY <1>n, <2>1
  <1>9. o.data[1] = ElementIn(fc, given, 0)
    <2>1. 1 \in 1 .. 1 /\ 1 <= n /\ 1 - 1 = 0
      <3>1. 1 <= n
        <4>1. n = 8 * 2 \/ n = 2 \div 2
          BY <1>7, <1>n, Zenon DEF Supplied
        <4> QED
          BY <4>1
      <3> QED
        BY <3>1
    <2> QED
      BY <1>4, <2>1, Zenon
  <1>10. ASSUME fc = FCWriteSingleRegister PROVE o.data[1] = v
    <2>1. TableOf(fc) # "coils"
      BY <1>10, Tables
    <2>2. 2 * 0 + 1 = 1 /\ (2 * 0 + 1) + 1 = 2
      OBVIOUS
    <2>3. o.data[1] = 256 * given[1] + given[2]
      BY <1>9, <2>1, <2>2, Zenon DEF ElementIn, Uint16At
    <2> QED
      BY <1>6, <1>7, <2>3, Zenon
  <1>11. ASSUME fc = FCWriteSingleCoil PROVE o.data[1] \in {0, 1} /\ (v <= 255 => o.data[1] = 0)
    <2>1. TableOf(fc) = "coils"
      BY <1>11, Tables
    <2>2. (0 \div 8) + 1 = 1 /\ 0 % 8 = 0
      OBVIOUS
    <2>3. o.data[1] = (a \div 2^0) % 2
      BY <1>7, <1>9, <2>1, <2>2, Zenon DEF ElementIn
    <2>4. (a \div 2^0) % 2 \in {0, 1} /\ (v <= 255 => (a \div 2^0) % 2 = 0)
      <3>1. a \in Nat /\ b \in Nat /\ 256 * a + b = v
        BY <1>6, ByteRange, Zenon
      <3>2. v <= 255 => a = 0
        BY <3>1
      <3>3. (a \div 2^0) % 2 \in {0, 1} /\ (a = 0 => (a \div 2^0) % 2 = 0)
        BY <3>1, SMT
      <3> QED
        BY <3>2, <3>3
    <2> QED
      BY <2>3, <2>4, Zenon
  <1> QED
    BY <1>1, <1>3, <1>8, <1>10, <1>11, Zenon DEF o, v, given, n

\* A write of several elements: element k is in the request, from its seventh
\* byte on, if its byte count allows; what it does not supply stands as 0.
WritesMany(p, req, o, n) ==
  LET v == Uint16At(p, 4)
  IN /\ IsOperation(o, "write", TableOf(p[1]), Uint16At(p, 2), v)
     /\ req.fc = p[1] /\ req.maybeAddr = Uint16At(p, 2)
     /\ req.maybeValueQuantity = v /\ req.off = 6
     /\ p[1] = FCWriteMultipleRegisters =>
          /\ n = p[6] \div 2
          /\ \A k \in 0 .. v - 1 :
               /\ k < n => 2 * k + 8 <= Len(p) /\ o.data[k + 1] = Uint16At(p, 2 * k + 7)
               /\ k >= n => o.data[k + 1] = 0
     /\ p[1] = FCWriteMultipleCoils => \A k \in 0 .. v - 1 : o.data[k + 1] \in {0, 1}

LEMMA MultipleOperation ==
  ASSUME NEW p \in Seq(Byte), NEW req, IsLong(p, req),
         NEW data, data = SubSeq(p, req.off + 1, Len(p))
  PROVE  WritesMany(p, req, OperationOf(req, data), Supplied(req.fc, WrittenData(req, data)))
  <1> DEFINE o == OperationOf(req, data)
             fc == p[1]
             v == Uint16At(p, 4)
             bc == p[6]
             l == Len(p)
             given == WrittenData(req, data)
             n == Supplied(req.fc, given)
  <1>1. /\ req.fc = fc /\ req.maybeAddr = Uint16At(p, 2) /\ req.maybeValueQuantity = v
        /\ req.maybeByteCount = bc /\ req.off = 6 /\ v \in Uint16 /\ bc \in Byte
        /\ l >= 7 /\ l >= 6 + bc /\ fc \in WriteMultipleFCs
    BY DEF IsLong, Decoded
  <1>2. fc \notin ReadFCs /\ fc \notin WriteSingleFCs
    BY <1>1, Codes, Zenon
  <1>3. IsOperation(o, "write", TableOf(fc), Uint16At(p, 2), v)
    BY <1>1, <1>2 DEF OperationOf, IsOperation, Asked
  <1>4. o.data = [k \in 1 .. v |-> IF k <= n THEN ElementIn(fc, given, k - 1) ELSE 0]
    BY <1>1, <1>2 DEF OperationOf, Asked
  <1>5. given = SubSeq(data, 1, bc)
    BY <1>1, <1>2, Zenon DEF WrittenData
  <1>d. data = SubSeq(p, 6 + 1, l)
    BY <1>1
  <1>n. n = Supplied(fc, given)
    BY <1>1
  <1>b. bc \in Nat /\ bc <= 255 /\ v \in Nat /\ l \in Nat
    BY <1>1, ByteRange, Wraps, SMTT(30)
  <1>l. l = Len(p)
    OBVIOUS
  <1> HIDE DEF bc, v, given, n, o, l
  <1>6. given \in Seq(Byte) /\ Len(given) = bc /\ \A j \in 1 .. bc : given[j] = p[6 + j]
    <2>1. data \in Seq(Byte) /\ Len(data) = l - 6 /\ \A j \in 1 .. l - 6 : data[j] = p[6 + j]
      BY <1>1, <1>b, <1>d, <1>l
    <2>2. bc <= l - 6
      BY <1>1, <1>b
    <2>3. given \in Seq(Byte) /\ Len(given) = bc /\ \A j \in 1 .. bc : given[j] = data[j]
      BY <1>5, <1>b, <2>1, <2>2, Front, Zenon
    <2>4. \A j \in 1 .. bc : j \in 1 .. l - 6
      BY <1>b, <2>2
    <2> QED
      BY <2>1, <2>3, <2>4, Zenon
  <1>7. ASSUME fc = FCWriteMultipleRegisters
        PROVE  /\ n = bc \div 2
               /\ \A k \in 0 .. v - 1 :
                    /\ k < n => 2 * k + 8 <= l /\ o.data[k + 1] = Uint16At(p, 2 * k + 7)
                    /\ k >= n => o.data[k + 1] = 0
    <2>1. TableOf(fc) # "coils"
      BY <1>7, Tables
    <2>2. n = bc \div 2
      BY <1>n, <1>6, <2>1, Zenon DEF Supplied
    <2>3. ASSUME NEW k \in 0 .. v - 1, k < n
          PROVE  2 * k + 8 <= l /\ o.data[k + 1] = Uint16At(p, 2 * k + 7)
      <3>1. /\ k + 1 \in 1 .. v /\ k + 1 <= n /\ (k + 1) - 1 = k /\ 2 * k + 8 <= l
            /\ 2 * k + 1 \in 1 .. bc /\ (2 * k + 1) + 1 \in 1 .. bc
            /\ 6 + (2 * k + 1) = 2 * k + 7 /\ 6 + ((2 * k + 1) + 1) = (2 * k + 7) + 1
        BY <1>1, <1>b, <2>2, <2>3, SMT
      <3>2. o.data[k + 1] = ElementIn(fc, given, k)
        BY <1>4, <3>1, Zenon
      <3>3. ElementIn(fc, given, k) = 256 * given[2 * k + 1] + given[(2 * k + 1) + 1]
        BY <2>1, Zenon DEF ElementIn, Uint16At
      <3>4. given[2 * k + 1] = p[2 * k + 7] /\ given[(2 * k + 1) + 1] = p[(2 * k + 7) + 1]
        <4>1. /\ given[2 * k + 1] = p[6 + (2 * k + 1)]
              /\ given[(2 * k + 1) + 1] = p[6 + ((2 * k + 1) + 1)]
          BY <1>6, <3>1
        <4> QED
          BY <3>1, <4>1
      <3> QED
        BY <3>1, <3>2, <3>3, <3>4, Zenon DEF Uint16At
    <2>4. ASSUME NEW k \in 0 .. v - 1, k >= n PROVE o.data[k + 1] = 0
      <3>1. k + 1 \in 1 .. v /\ ~(k + 1 <= n)
        BY <1>b, <2>2, <2>4, SMT
      <3> QED
        BY <1>4, <3>1, Zenon
    <2> QED
      BY <2>2, <2>3, <2>4, Zenon
  <1>8. ASSUME fc = FCWriteMultipleCoils, NEW k \in 0 .. v - 1 PROVE o.data[k + 1] \in {0, 1}
    <2>1. TableOf(fc) = "coils"
      BY <1>8, Tables
    <2>2. n = 8 * bc
      BY <1>n, <1>6, <2>1, Zenon DEF Supplied
    <2>3. k + 1 \in 1 .. v /\ (k + 1) - 1 = k /\ k \in Nat
      BY <1>b
    <2>4. CASE k + 1 <= n
      <3>1. (k \div 8) + 1 \in 1 .. bc
        BY <1>b, <2>2, <2>4, SMT
      <3>2. o.data[k + 1] = (given[(k \div 8) + 1] \div 2^(k % 8)) % 2
        BY <1>4, <2>1, <2>3, <2>4, Zenon DEF ElementIn
      <3>3. given[(k \div 8) + 1] \in Byte
        BY <1>6, <3>1
      <3>4. given[(k \div 8) + 1] \in Nat
        BY <3>3, ByteRange, Zenon
      <3> QED
        BY <2>3, <3>2, <3>4, BitOf, Zenon
    <2>5. CASE ~(k + 1 <= n)
      <3>1. o.data[k + 1] = 0
        BY <1>4, <2>3, <2>5, Zenon
      <3> QED
        BY <3>1
    <2> QED
      BY <2>4, <2>5, Zenon
  <1> QED
    BY <1>1, <1>3, <1>7, <1>8, <1>l, Zenon DEF WritesMany, o, v, given, n, bc

--------------------------------------------------------------------------------
(***************************************************************************)
(* PutResponse.                                                            *)
(***************************************************************************)

\* The bytes of an answer to a read.
DataResponse(req, data, m, room, stale) ==
  writeSimpleU8(req.fc, quantityBytes(req) % 256, ReadData(OperationOf(req, data), m, stale), room)

KnownFCs == ReadFCs \cup WriteSingleFCs \cup WriteMultipleFCs

\* The ways in which PutResponse ends.
LEMMA Endings ==
  ASSUME NEW req, NEW m, NEW data, NEW capacity, NEW room, NEW stale
  PROVE  LET a == PutResponse(req, m, data, capacity, room, stale)
             o == OperationOf(req, data)
             n == Supplied(req.fc, WrittenData(req, data))
             w == DataResponse(req, data, m, room, stale)
         IN /\ a.out \in {"ok", "exception", "error", "panic"}
            /\ \/ a.bank = m
               \/ a.bank = Effect(o, Reached(o), m)
               \/ a.bank = Effect(o, 0 .. n - 1, m) /\ RunsOut(req, data)
            /\ a.out = "panic" =>
                 SlicePanics(req, capacity) \/ RunsOut(req, data) \/ req.fc = FCWriteMultipleCoils
            /\ a.out = "exception" =>
                 \/ a.exc = ExceptionIllegalFunction
                 \/ a.exc = Outcome(o) /\ Outcome(o) # ExceptionNone /\ req.fc \in KnownFCs
            /\ a.out = "ok" =>
                 /\ ~SlicePanics(req, capacity) /\ req.fc \in KnownFCs /\ ~RunsOut(req, data)
                 /\ Outcome(o) = ExceptionNone /\ req.fc # FCWriteMultipleCoils
                 /\ a.bank = Effect(o, Reached(o), m)
                 /\ o.kind = "write" => a.pdu = writeSimple2U16(req.fc, req.maybeAddr, Echo(req))
                 /\ o.kind # "write" => a.pdu = w /\ w # <<>>
  <1> DEFINE a == PutResponse(req, m, data, capacity, room, stale)
             o == OperationOf(req, data)
             n == Supplied(req.fc, WrittenData(req, data))
             w == DataResponse(req, data, m, room, stale)
             after == Effect(o, Reached(o), m)
             part == Effect(o, 0 .. n - 1, m)
             echo == writeSimple2U16(req.fc, req.maybeAddr, Echo(req))
             slice == SlicePanics(req, capacity)
             runs == RunsOut(req, data)
             result == Outcome(o)
  <1>1. a = IF slice THEN Answer("panic", m, ExceptionNone, <<>>)
            ELSE IF req.fc \notin ReadFCs \cup WriteSingleFCs \cup WriteMultipleFCs
              THEN Answer("exception", m, ExceptionIllegalFunction, <<>>)
            ELSE IF runs THEN Answer("panic", part, ExceptionNone, <<>>)
            ELSE IF result # ExceptionNone THEN Answer("exception", after, result, <<>>)
            ELSE IF req.fc = FCWriteMultipleCoils THEN Answer("panic", after, ExceptionNone, <<>>)
            ELSE IF o.kind = "write" THEN Answer("ok", after, ExceptionNone, echo)
            ELSE Answer(IF w = <<>> THEN "error" ELSE "ok", after, ExceptionNone, w)
    BY Zenon DEF PutResponse, DataResponse
  <1> HIDE DEF a, o, n, w, after, part, echo, slice, runs, result
  <1>2. \A x, b, e, q : LET r == Answer(x, b, e, q)
                        IN r.out = x /\ r.bank = b /\ r.exc = e /\ r.pdu = q
    BY DEF Answer
  <1> HIDE DEF Answer
  <1>3. \/ slice /\ a = Answer("panic", m, ExceptionNone, <<>>)
        \/ a = Answer("exception", m, ExceptionIllegalFunction, <<>>)
        \/ runs /\ a = Answer("panic", part, ExceptionNone, <<>>)
        \/ result # ExceptionNone /\ req.fc \in KnownFCs /\ a = Answer("exception", after, result, <<>>)
        \/ req.fc = FCWriteMultipleCoils /\ a = Answer("panic", after, ExceptionNone, <<>>)
        \/ w = <<>> /\ a = Answer("error", after, ExceptionNone, w)
        \/ /\ ~slice /\ req.fc \in KnownFCs /\ ~runs /\ result = ExceptionNone
           /\ req.fc # FCWriteMultipleCoils
           /\ \/ o.kind = "write" /\ a = Answer("ok", after, ExceptionNone, echo)
              \/ o.kind # "write" /\ w # <<>> /\ a = Answer("ok", after, ExceptionNone, w)
    BY <1>1, Zenon DEF KnownFCs
  <1>4. /\ a.out \in {"ok", "exception", "error", "panic"}
        /\ a.bank = m \/ a.bank = after \/ (a.bank = part /\ runs)
        /\ a.out = "panic" => slice \/ runs \/ req.fc = FCWriteMultipleCoils
        /\ a.out = "exception" =>
             \/ a.exc = ExceptionIllegalFunction
             \/ a.exc = result /\ result # ExceptionNone /\ req.fc \in KnownFCs
        /\ a.out = "ok" =>
             /\ ~slice /\ req.fc \in KnownFCs /\ ~runs /\ result = ExceptionNone
             /\ req.fc # FCWriteMultipleCoils /\ a.bank = after
             /\ o.kind = "write" => a.pdu = echo
             /\ o.kind # "write" => a.pdu = w /\ w # <<>>
    <2> HIDE DEF KnownFCs
    <2>1. CASE slice /\ a = Answer("panic", m, ExceptionNone, <<>>)
      BY <1>2, <2>1
    <2>2. CASE a = Answer("exception", m, ExceptionIllegalFunction, <<>>)
      BY <1>2, <2>2
    <2>3. CASE runs /\ a = Answer("panic", part, ExceptionNone, <<>>)
      BY <1>2, <2>3
    <2>4. CASE result # ExceptionNone /\ req.fc \in KnownFCs /\ a = Answer("exception", after, result, <<>>)
      BY <1>2, <2>4
    <2>5. CASE req.fc = FCWriteMultipleCoils /\ a = Answer("panic", after, ExceptionNone, <<>>)
      BY <1>2, <2>5
    <2>6. CASE w = <<>> /\ a = Answer("error", after, ExceptionNone, w)
      BY <1>2, <2>6
    <2>7. CASE /\ ~slice /\ req.fc \in KnownFCs /\ ~runs /\ result = ExceptionNone
               /\ req.fc # FCWriteMultipleCoils
               /\ \/ o.kind = "write" /\ a = Answer("ok", after, ExceptionNone, echo)
                  \/ o.kind # "write" /\ w # <<>> /\ a = Answer("ok", after, ExceptionNone, w)
      BY <1>2, <2>7
    <2> QED
      BY <1>3, <2>1, <2>2, <2>3, <2>4, <2>5, <2>6, <2>7, Zenon
  <1> QED
    BY <1>4, Zenon DEF a, o, n, w, after, part, echo, slice, runs, result

\* The words that a request has for registers are in W.
StoresIn(p, W) ==
  Len(p) >= 5 =>
    /\ p[1] = FCWriteSingleRegister => Uint16At(p, 4) \in W
    /\ p[1] = FCWriteMultipleRegisters =>
         \A k \in 0 .. Len(p) : 2 * k + 8 <= Len(p) => Uint16At(p, 2 * k + 7) \in W

\* A request asks for a walk of so many elements, with values that fit the table.
AsksFor(o, p, q, W) ==
  /\ q \in Nat /\ \E kind \in {"read", "write"} :
       IsOperation(o, kind, TableOf(p[1]), Uint16At(p, 2), q)
  /\ o.kind = "write" => Storable(o, W, q)

LEMMA Asking ==
  ASSUME NEW p \in Seq(Byte), NEW req, IsShort(p, req) \/ IsLong(p, req), NEW W, {0, 1} \subseteq W,
         StoresIn(p, W), NEW data, data = SubSeq(p, req.off + 1, Len(p))
  PROVE  Uint16At(p, 2) \in Uint16 /\ \E q \in Nat : AsksFor(OperationOf(req, data), p, q, W)
  <1> DEFINE o == OperationOf(req, data)
             v == Uint16At(p, 4)
             l == Len(p)
  <1>1. Uint16At(p, 2) \in Uint16 /\ v \in Nat /\ l \in Nat
    <2>1. Uint16At(p, 2) \in Uint16 /\ v \in Uint16
      BY DEF IsShort, IsLong
    <2> QED
      BY <2>1, Wraps, SMT
  <1>l. l = Len(p)
    OBVIOUS
  <1>2. CASE IsShort(p, req) /\ p[1] \in ReadFCs
    <2>1. IsOperation(o, "read", TableOf(p[1]), Uint16At(p, 2), v)
      BY <1>2, ReadOperation, Zenon
    <2>2. o.kind # "write"
      BY <2>1 DEF IsOperation
    <2> QED
      BY <1>1, <2>1, <2>2, Zenon DEF AsksFor
  <1>3. CASE IsShort(p, req) /\ p[1] \in WriteSingleFCs
    <2>1. /\ IsOperation(o, "write", TableOf(p[1]), Uint16At(p, 2), 1)
          /\ p[1] = FCWriteSingleRegister => o.data[1] = v
          /\ p[1] = FCWriteSingleCoil => o.data[1] \in {0, 1}
      BY <1>3, SingleOperation
    <2>2. o.table = TableOf(p[1]) /\ l >= 5
      BY <1>3, <2>1 DEF IsOperation, IsShort
    <2>3. o.data[1] \in W /\ (o.table \in BitTables => o.data[1] \in {0, 1})
      <3>1. CASE p[1] = FCWriteSingleRegister
        <4>1. o.table \notin BitTables
          BY <2>2, <3>1, Tables, Zenon
        <4> QED
          BY <1>l, <2>1, <2>2, <3>1, <4>1, Zenon DEF StoresIn
      <3>2. CASE p[1] = FCWriteSingleCoil
        BY <2>1, <3>2
      <3> QED
        BY <1>3, <3>1, <3>2 DEF WriteSingleFCs
    <2> HIDE DEF o
    <2>4. Storable(o, W, 1)
      <3>1. \A k \in 0 .. 1 - 1 : k + 1 = 1
        OBVIOUS
      <3> QED
        BY <2>3, <3>1, Zenon DEF Storable
    <2>5. 1 \in Nat
      OBVIOUS
    <2> QED
      BY <1>1, <2>1, <2>4, <2>5, Zenon DEF AsksFor, o
  <1>4. CASE IsLong(p, req)
    <2> DEFINE n == Supplied(req.fc, WrittenData(req, data))
    <2>1. /\ IsOperation(o, "write", TableOf(p[1]), Uint16At(p, 2), v)
          /\ p[1] = FCWriteMultipleRegisters =>
               /\ n = p[6] \div 2
               /\ \A k \in 0 .. v - 1 :
                    /\ k < n => 2 * k + 8 <= Len(p) /\ o.data[k + 1] = Uint16At(p, 2 * k + 7)
                    /\ k >= n => o.data[k + 1] = 0
          /\ p[1] = FCWriteMultipleCoils => \A k \in 0 .. v - 1 : o.data[k + 1] \in {0, 1}
      <3>1. WritesMany(p, req, o, n)
        BY <1>4, MultipleOperation, Zenon
      <3> QED
        BY <3>1, Zenon DEF WritesMany
    <2>2. o.table = TableOf(p[1]) /\ l >= 7 /\ p[1] \in WriteMultipleFCs /\ p[6] \in Nat
      BY <1>4, <2>1, ByteRange DEF IsOperation, IsLong
    <2> HIDE DEF o, v, n, l
    <2>3. ASSUME NEW k \in 0 .. v - 1
          PROVE  o.data[k + 1] \in W /\ (o.table \in BitTables => o.data[k + 1] \in {0, 1})
      <3>1. CASE p[1] = FCWriteMultipleRegisters
        <4>1. o.table \notin BitTables
          BY <2>2, <3>1, Tables, Zenon
        <4>2. k < n \/ k >= n
          <5>1. n = p[6] \div 2
            BY <2>1, <3>1
          <5>2. n \in Nat
            BY <2>2, <5>1
          <5> QED
            BY <1>1, <5>2
        <4>3. CASE k >= n
          BY <2>1, <3>1, <4>1, <4>3
        <4>4. CASE k < n
          <5>1. 2 * k + 8 <= l /\ o.data[k + 1] = Uint16At(p, 2 * k + 7)
            BY <1>l, <2>1, <3>1, <4>4, Zenon
          <5>2. k \in 0 .. l /\ l >= 5
            BY <1>1, <2>2, <5>1
          <5>3. Uint16At(p, 2 * k + 7) \in W
            BY <1>l, <3>1, <5>1, <5>2, Zenon DEF StoresIn
          <5> QED
            BY <4>1, <5>1, <5>3, Zenon
        <4> QED
          BY <4>2, <4>3, <4>4, Zenon
      <3>2. CASE p[1] = FCWriteMultipleCoils
        <4>1. o.data[k + 1] \in {0, 1}
          BY <2>1, <3>2
        <4> QED
          BY <4>1
      <3> QED
        BY <2>2, <3>1, <3>2 DEF WriteMultipleFCs
    <2>4. Storable(o, W, v)
      BY <2>3, Zenon DEF Storable
    <2> QED
      BY <1>1, <2>1, <2>4, Zenon DEF AsksFor, o
  <1> QED
    BY <1>2, <1>3, <1>4 DEF IsShort

\* Whatever a request does, and if it panics half-way, it leaves words in
\* registers and bits in coils.
LEMMA BankKept ==
  ASSUME NEW p \in Seq(Byte), NEW req, IsShort(p, req) \/ IsLong(p, req), NEW W, {0, 1} \subseteq W,
         StoresIn(p, W), NEW m \in BankOf(W), NEW capacity, NEW room, NEW stale
  PROVE  PutResponse(req, m, SubSeq(p, req.off + 1, Len(p)), capacity, room, stale).bank \in BankOf(W)
  <1> DEFINE data == SubSeq(p, req.off + 1, Len(p))
             o == OperationOf(req, data)
             a == PutResponse(req, m, data, capacity, room, stale)
             n == Supplied(req.fc, WrittenData(req, data))
             t == TableOf(p[1])
             addr == Uint16At(p, 2)
  <1>1. \/ a.bank = m
        \/ a.bank = Effect(o, Reached(o), m)
        \/ a.bank = Effect(o, 0 .. n - 1, m) /\ RunsOut(req, data)
    BY Endings, SMTT(30)
  <1>2. addr \in Uint16 /\ \E q \in Nat : AsksFor(o, p, q, W)
    <2>1. data = SubSeq(p, req.off + 1, Len(p))
      OBVIOUS
    <2> HIDE DEF data
    <2> QED
      BY <2>1, Asking
  <1>3. PICK q \in Nat : AsksFor(o, p, q, W)
    BY <1>2, Zenon
  <1>4. PICK kind \in {"read", "write"} : IsOperation(o, kind, t, addr, q)
    BY <1>3, Zenon DEF AsksFor
  <1>5. RunsOut(req, data) => 0 .. n - 1 \subseteq Reached(o)
    BY Zenon DEF RunsOut
  <1> HIDE DEF o, a, data, n, t, addr
  <1>6. Reached(o) \subseteq 0 .. q - 1
    BY <1>2, <1>4, Walk
  <1>m. m \in [Cell -> W]
    BY Zenon DEF BankOf
  <1>7. ASSUME NEW ks, ks \subseteq 0 .. q - 1 PROVE Effect(o, ks, m) \in BankOf(W)
    <2>1. CASE kind = "read"
      <3>1. o.kind = "read"
        BY <1>4, <2>1 DEF IsOperation
      <3> QED
        BY <1>m, <3>1, ReadEffect, Zenon
    <2>2. CASE kind = "write"
      <3>1. IsOperation(o, "write", t, addr, q) /\ Storable(o, W, q)
        <4>1. o.kind = "write"
          BY <1>4, <2>2 DEF IsOperation
        <4> QED
          BY <1>3, <1>4, <2>2, <4>1, Zenon DEF AsksFor
      <3> QED
        BY <1>2, <1>7, <3>1, WriteEffect, Zenon
    <2> QED
      BY <2>1, <2>2
  <1>8. a.bank \in BankOf(W)
    BY <1>1, <1>5, <1>6, <1>7, Zenon
  <1> QED
    BY <1>8 DEF a, data

--------------------------------------------------------------------------------
(***************************************************************************)
(* The values in an answer.                                                *)
(***************************************************************************)

\* Element k of the values in data is what b has at addr + k.
SameValues(b, t, addr, q, data) ==
  \A k \in 0 .. q - 1 :
    /\ t \in RegTables => Uint16At(data, 2 * k + 1) = b[<<t, addr + k>>]
    /\ t \in BitTables => (data[1 + k \div 8] \div 2^(k % 8)) % 2 = b[<<t, addr + k>>]

Carries(d, n, b, t, addr, q) == d \in Seq(Byte) /\ Len(d) = n /\ SameValues(b, t, addr, q, d)

\* The values of a read that is not refused.
AreRead(vals, m, t, addr, q, W) ==
  \A k \in 0 .. q - 1 :
    vals[k] = m[<<t, addr + k>>] /\ vals[k] \in W /\ (t \in BitTables => vals[k] \in {0, 1})

LEMMA ValuesRead ==
  ASSUME NEW W, NEW o, NEW t \in Table, NEW addr \in Uint16, NEW q \in Nat,
         IsOperation(o, "read", t, addr, q), Granted(o, t, addr, q), NEW m \in BankOf(W)
  PROVE  AreRead(Values(o, m), m, t, addr, q, W)
  <1>1. Values(o, m) = [k \in 0 .. q - 1 |-> m[CellOf(o, k)]]
    BY Zenon DEF Values, IsOperation, Granted
  <1>2. ASSUME NEW k \in 0 .. q - 1
        PROVE  /\ Values(o, m)[k] = m[<<t, addr + k>>] /\ Values(o, m)[k] \in W
               /\ t \in BitTables => Values(o, m)[k] \in {0, 1}
    <2>1. Values(o, m)[k] = m[<<t, addr + k>>] /\ addr + k \in 0 .. Size(t) - 1
      BY <1>1, Zenon DEF Granted
    <2>2. <<t, addr + k>> \in Cell
      BY <2>1, InTheBank, Zenon
    <2>3. m[<<t, addr + k>>] \in W
      BY <2>2, Zenon DEF BankOf
    <2>4. t \in BitTables => m[<<t, addr + k>>] \in {0, 1}
      <3>1. <<t, addr + k>>[1] = t
        OBVIOUS
      <3> QED
        BY <2>2, <3>1, Zenon DEF BankOf
    <2> QED
      BY <2>1, <2>3, <2>4, Zenon
  <1> QED
    BY <1>2, Zenon DEF AreRead

LEMMA ReadRegisters ==
  ASSUME NEW W, W \subseteq Uint16, NEW o, NEW t \in RegTables, NEW addr \in Uint16, NEW q \in Nat,
         IsOperation(o, "read", t, addr, q), Granted(o, t, addr, q), NEW m \in BankOf(W), NEW stale
  PROVE  Carries(ReadData(o, m, stale), 2 * q, m, t, addr, q)
  <1> DEFINE vals == Values(o, m)
             e(j) == BigEndian(vals[(j - 1) \div 2])[2 - (j % 2)]
             s == [j \in 1 .. 2 * q |-> e(j)]
  <1>1. \A k \in 0 .. q - 1 : vals[k] = m[<<t, addr + k>>] /\ vals[k] \in Uint16
    <2>1. t \in Table
      BY DEF Table
    <2>2. AreRead(vals, m, t, addr, q, W)
      BY <2>1, ValuesRead, Zenon
    <2> HIDE DEF vals
    <2> QED
      BY <2>2, Zenon DEF AreRead
  <1>2. ReadData(o, m, stale) = s
    BY Zenon DEF ReadData, IsOperation
  <1> HIDE DEF vals
  <1>3. ASSUME NEW j \in 1 .. 2 * q PROVE e(j) \in Byte
    <2>1. (j - 1) \div 2 \in 0 .. q - 1 /\ (2 - (j % 2) = 1 \/ 2 - (j % 2) = 2)
      <3> HIDE DEF e, s
      <3> QED
        BY SMT
    <2>2. vals[(j - 1) \div 2] \in Uint16
      BY <1>1, <2>1
    <2>3. BigEndian(vals[(j - 1) \div 2])[1] \in Byte /\ BigEndian(vals[(j - 1) \div 2])[2] \in Byte
      BY <2>2, TwoBytes, Zenon
    <2> QED
      BY <2>1, <2>3, Zenon
  <1>4. ASSUME NEW k \in 0 .. q - 1 PROVE Uint16At(s, 2 * k + 1) = m[<<t, addr + k>>]
    <2> DEFINE i == 2 * k + 1
    <2>1. /\ i \in 1 .. 2 * q /\ i + 1 \in 1 .. 2 * q
          /\ (i - 1) \div 2 = k /\ ((i + 1) - 1) \div 2 = k
          /\ 2 - (i % 2) = 1 /\ 2 - ((i + 1) % 2) = 2
      <3> HIDE DEF e, s
      <3> QED
        BY SMT
    <2> HIDE DEF i
    <2>2. s[i] = BigEndian(vals[k])[1] /\ s[i + 1] = BigEndian(vals[k])[2]
      BY <2>1, Zenon
    <2>3. 256 * BigEndian(vals[k])[1] + BigEndian(vals[k])[2] = vals[k]
      BY <1>1, TwoBytes, Zenon
    <2> HIDE DEF s
    <2>4. Uint16At(s, i) = m[<<t, addr + k>>]
      BY <1>1, <2>2, <2>3, Zenon DEF Uint16At
    <2> QED
      BY <2>4 DEF i
  <1>5. s \in [1 .. 2 * q -> Byte]
    <2> HIDE DEF e
    <2> QED
      BY <1>3, Zenon
  <1> HIDE DEF s
  <1>6. s \in Seq(Byte) /\ Len(s) = 2 * q
    <2>1. 2 * q \in Nat
      BY SMT
    <2> QED
      BY <1>5, <2>1
  <1>7. t \notin BitTables
    BY Tables, Zenon
  <1>8. SameValues(m, t, addr, q, s)
    BY <1>4, <1>7, Zenon DEF SameValues
  <1> QED
    BY <1>2, <1>6, <1>8, Zenon DEF Carries

\* A coil or input is one bit, and the bits that none fills are left over.
LEMMA ReadBits ==
  ASSUME NEW W, NEW o, NEW t \in BitTables, NEW addr \in Uint16, NEW q \in Nat, NEW stale,
         IsOperation(o, "read", t, addr, q), Granted(o, t, addr, q), NEW m \in BankOf(W),
         \A j \in 1 .. q : stale[j] \in Byte
  PROVE  Carries(ReadData(o, m, stale), q, m, t, addr, q)
  <1> DEFINE vals == Values(o, m)
             bit(j, k) == IF 8 * (j - 1) + k < q THEN vals[8 * (j - 1) + k] ELSE (stale[j] \div 2^k) % 2
             e(j) == Octet(bit(j, 0), bit(j, 1), bit(j, 2), bit(j, 3),
                           bit(j, 4), bit(j, 5), bit(j, 6), bit(j, 7))
             s == [j \in 1 .. q |-> e(j)]
  <1>1. \A k \in 0 .. q - 1 : vals[k] = m[<<t, addr + k>>] /\ vals[k] \in {0, 1}
    <2>1. t \in Table
      BY DEF Table
    <2>2. AreRead(vals, m, t, addr, q, W)
      BY <2>1, ValuesRead, Zenon
    <2> HIDE DEF vals
    <2> QED
      BY <2>2, Zenon DEF AreRead
  <1>2. ReadData(o, m, stale) = s
    <2>1. t \notin RegTables
      BY Tables, Zenon
    <2> QED
      BY <2>1 DEF ReadData, IsOperation, Octet
  <1> HIDE DEF vals
  <1>3. ASSUME NEW j \in 1 .. q, NEW k \in Nat, k < 8 PROVE bit(j, k) \in {0, 1}
    <2>1. CASE 8 * (j - 1) + k < q
      <3>1. 8 * (j - 1) + k \in 0 .. q - 1
        BY <2>1, SMT
      <3> QED
        BY <1>1, <2>1, <3>1, Zenon
    <2>2. CASE ~(8 * (j - 1) + k < q)
      <3>1. k % 8 = k
        BY <1>3, SMT
      <3>2. stale[j] \in Nat
        BY ByteRange
      <3>3. (stale[j] \div 2^(k % 8)) % 2 \in {0, 1}
        BY <3>2, BitOf, Zenon
      <3> QED
        BY <2>2, <3>1, <3>3, Zenon
    <2> QED
      BY <2>1, <2>2, Zenon
  <1>4. ASSUME NEW j \in 1 .. q
        PROVE  /\ e(j) \in Byte
               /\ (e(j) \div 2^0) % 2 = bit(j, 0) /\ (e(j) \div 2^1) % 2 = bit(j, 1)
               /\ (e(j) \div 2^2) % 2 = bit(j, 2) /\ (e(j) \div 2^3) % 2 = bit(j, 3)
               /\ (e(j) \div 2^4) % 2 = bit(j, 4) /\ (e(j) \div 2^5) % 2 = bit(j, 5)
               /\ (e(j) \div 2^6) % 2 = bit(j, 6) /\ (e(j) \div 2^7) % 2 = bit(j, 7)
    <2> HIDE DEF bit
    <2>1. /\ bit(j, 0) \in {0, 1} /\ bit(j, 1) \in {0, 1} /\ bit(j, 2) \in {0, 1} /\ bit(j, 3) \in {0, 1}
          /\ bit(j, 4) \in {0, 1} /\ bit(j, 5) \in {0, 1} /\ bit(j, 6) \in {0, 1} /\ bit(j, 7) \in {0, 1}
      <3>1. /\ 0 \in Nat /\ 0 < 8 /\ 1 \in Nat /\ 1 < 8 /\ 2 \in Nat /\ 2 < 8 /\ 3 \in Nat /\ 3 < 8
            /\ 4 \in Nat /\ 4 < 8 /\ 5 \in Nat /\ 5 < 8 /\ 6 \in Nat /\ 6 < 8 /\ 7 \in Nat /\ 7 < 8
        BY SMT
      <3> QED
        BY <1>3, <3>1, Zenon
    <2>2. PICK x : x = e(j)
      OBVIOUS
    <2> DEFINE b0 == bit(j, 0)
               b1 == bit(j, 1)
               b2 == bit(j, 2)
               b3 == bit(j, 3)
               b4 == bit(j, 4)
               b5 == bit(j, 5)
               b6 == bit(j, 6)
               b7 == bit(j, 7)
    <2>3. x = Octet(b0, b1, b2, b3, b4, b5, b6, b7)
      BY <2>2
    <2> HIDE DEF e
    <2>4. /\ b0 \in {0, 1} /\ b1 \in {0, 1} /\ b2 \in {0, 1} /\ b3 \in {0, 1}
          /\ b4 \in {0, 1} /\ b5 \in {0, 1} /\ b6 \in {0, 1} /\ b7 \in {0, 1}
      BY <2>1
    <2> HIDE DEF b0, b1, b2, b3, b4, b5, b6, b7
    <2>5. /\ x \in Byte
          /\ (x \div 2^0) % 2 = b0 /\ (x \div 2^1) % 2 = b1 /\ (x \div 2^2) % 2 = b2 /\ (x \div 2^3) % 2 = b3
          /\ (x \div 2^4) % 2 = b4 /\ (x \div 2^5) % 2 = b5 /\ (x \div 2^6) % 2 = b6 /\ (x \div 2^7) % 2 = b7
      BY <2>3, <2>4, BitsOfByte, SMTT(30)
    <2> QED
      BY <2>2, <2>5, Zenon DEF b0, b1, b2, b3, b4, b5, b6, b7
  <1>5. ASSUME NEW k \in 0 .. q - 1
        PROVE  (s[1 + k \div 8] \div 2^(k % 8)) % 2 = m[<<t, addr + k>>]
    <2> DEFINE j == 1 + k \div 8
               r == k % 8
    <2>1. /\ j \in 1 .. q /\ 8 * (j - 1) + r = k /\ k < q
          /\ r = 0 \/ r = 1 \/ r = 2 \/ r = 3 \/ r = 4 \/ r = 5 \/ r = 6 \/ r = 7
      <3> HIDE DEF s, e, bit
      <3> QED
        BY SMT
    <2> HIDE DEF j, r
    <2>2. bit(j, r) = vals[k]
      BY <2>1, Zenon
    <2>3. (e(j) \div 2^r) % 2 = bit(j, r)
      <3> HIDE DEF e, bit
      <3> QED
        BY <1>4, <2>1, Zenon
    <2>4. s[j] = e(j)
      <3> HIDE DEF e
      <3> QED
        BY <2>1, Zenon
    <2> HIDE DEF s, e, bit
    <2> QED
      BY <1>1, <2>2, <2>3, <2>4, Zenon DEF j, r
  <1>6. s \in [1 .. q -> Byte]
    <2> HIDE DEF e
    <2> QED
      BY <1>4, Zenon
  <1> HIDE DEF s
  <1>7. s \in Seq(Byte) /\ Len(s) = q
    BY <1>6
  <1>8. t \notin RegTables
    BY Tables, Zenon
  <1>9. SameValues(m, t, addr, q, s)
    BY <1>5, <1>8, Zenon DEF SameValues
  <1> QED
    BY <1>2, <1>7, <1>9, Zenon DEF Carries

\* The sizes of answers.
Sized(n) == n \in Nat /\ n >= 1 /\ n <= 257

\* What a client makes of the answer to a read.
Reads(s, fc, d) ==
  /\ s \in Seq(Byte) /\ Sized(Len(s)) /\ s[1] = fc
  /\ ReceiveDataResponse(s) = [err |-> "nil", data |-> d]

LEMMA DataReceived ==
  ASSUME NEW fc \in ReadFCs, NEW d \in Seq(Byte), NEW x \in Byte, x = Len(d),
         NEW s, s = <<fc, x>> \o d
  PROVE  Reads(s, fc, d)
  <1> DEFINE n == Len(s)
  <1>1. fc \in Byte
    BY Codes, ByteRange
  <1>2. x \in Nat
    BY ByteRange
  <1>3. s \in Seq(Byte) /\ n = x + 2 /\ s[1] = fc /\ s[2] = x
    BY <1>1, <1>2
  <1>4. SubSeq(s, 3, n) = d
    <2>1. SubSeq(s, 3, n) \in Seq(Byte) /\ Len(SubSeq(s, 3, n)) = x
      BY <1>1, <1>2, <1>3
    <2>2. \A j \in 1 .. x : SubSeq(s, 3, n)[j] = d[j]
      BY <1>1, <1>2, <1>3
    <2> DEFINE u == SubSeq(s, 3, n)
    <2> HIDE DEF u, n
    <2>3. u = d
      BY <1>2, <2>1, <2>2 DEF u
    <2> QED
      BY <2>3 DEF u
  <1>n. n = Len(s)
    OBVIOUS
  <1> HIDE DEF n
  <1>5. ~(n < 2) /\ ~(n < 2 + s[2])
    BY <1>2, <1>3
  <1>6. ReceiveDataResponse(s) = [err |-> "nil", data |-> d]
    BY <1>3, <1>4, <1>5, <1>n, Zenon DEF ReceiveDataResponse
  <1>7. Sized(n)
    BY <1>2, <1>3, ByteRange DEF Sized
  <1> QED
    BY <1>3, <1>6, <1>7, <1>n, Zenon DEF Reads

Acknowledges(p, pdu, b) ==
  LET fc   == p[1]
      addr == Uint16At(p, 2)
      qty  == Uint16At(p, 4)
  IN (fc = FCWriteSingleCoil => qty \in {0, 65280}) =>
       /\ ReceiveSingleWriteResponse(pdu) = [err |-> "nil", addr |-> addr, value |-> qty]
       /\ b[<<TableOf(fc), addr>>] = IF fc = FCWriteSingleRegister THEN qty ELSE qty \div 65280

\* What a client that decodes pdu, the answer to p, learns of bank b.
Truthful(p, pdu, b) ==
  LET fc   == p[1]
      addr == Uint16At(p, 2)
      qty  == Uint16At(p, 4)
  IN /\ pdu \in Seq(Byte) /\ Sized(Len(pdu)) /\ pdu[1] = fc
     /\ fc \in ReadFCs =>
          /\ ReceiveDataResponse(pdu).err = "nil"
          /\ SameValues(b, TableOf(fc), addr, qty, ReceiveDataResponse(pdu).data)
     /\ fc \in WriteSingleFCs => Acknowledges(p, pdu, b)
     /\ fc \in WriteMultipleFCs => SameValues(b, TableOf(fc), addr, qty, SubSeq(p, 7, Len(p)))

\* Of the sizes that quantityBytes and the slice end may have.
LEMMA SliceFits ==
  ASSUME NEW x \in Uint16, NEW capacity \in Nat, capacity <= 256,
         ~(U16(2 + x) < 2 \/ U16(2 + x) > capacity)
  PROVE  x + 2 <= capacity
  <1>1. x \in Nat /\ x < 65536
    BY Wraps, SMT
  <1> QED
    BY <1>1, SMT DEF U16

\* What readData may have held before.
Leftover(stale) == \A j \in Nat : j >= 1 /\ j <= 254 => stale[j] \in Byte

\* An answer to a read has the values of the bank, which stays as it is.
LEMMA ReadAnswered ==
  ASSUME NEW p \in Seq(Byte), NEW req, IsShort(p, req), p[1] \in ReadFCs,
         NEW W, W \subseteq Uint16, NEW m \in BankOf(W), NEW data,
         NEW capacity \in Nat, capacity <= 256, NEW room \in Nat, room <= 257,
         NEW stale, Leftover(stale),
         PutResponse(req, m, data, capacity, room, stale).out = "ok"
  PROVE  Truthful(p, PutResponse(req, m, data, capacity, room, stale).pdu,
                  PutResponse(req, m, data, capacity, room, stale).bank)
  <1> DEFINE a == PutResponse(req, m, data, capacity, room, stale)
             o == OperationOf(req, data)
             w == DataResponse(req, data, m, room, stale)
             fc == p[1]
             t == TableOf(fc)
             addr == Uint16At(p, 2)
             q == Uint16At(p, 4)
             d == ReadData(o, m, stale)
             x == quantityBytes(req)
             n == Len(d)
  <1>1. /\ IsOperation(o, "read", t, addr, q) /\ req.fc = fc /\ req.maybeValueQuantity = q
        /\ req.maybeByteCount = 0
    BY ReadOperation
  <1>2. addr \in Uint16 /\ q \in Uint16
    BY DEF IsShort
  <1>3. q \in Nat
    BY <1>2, Wraps, SMT
  <1>4. o.kind = "read"
    BY <1>1 DEF IsOperation
  <1>5. /\ ~SlicePanics(req, capacity) /\ Outcome(o) = ExceptionNone
        /\ a.bank = Effect(o, Reached(o), m)
        /\ o.kind # "write" => a.pdu = w /\ w # <<>>
    BY Endings
  <1>6. a.bank = m
    <2>1. m \in [Cell -> W]
      BY Zenon DEF BankOf
    <2>2. Effect(o, Reached(o), m) = m
      BY <1>4, <2>1, ReadEffect, Zenon
    <2> QED
      BY <1>5, <2>2, Zenon
  <1>7. a.pdu = <<fc, x % 256>> \o d /\ ~(n > room - 2)
    <2>1. w = IF Len(d) > room - 2 THEN <<>> ELSE <<fc, x % 256>> \o d
      BY <1>1, Zenon DEF DataResponse, writeSimpleU8
    <2> HIDE DEF w, d, x
    <2> QED
      BY <1>4, <1>5, <2>1, Zenon
  <1>8. Granted(o, t, addr, q)
    <2> HIDE DEF o, t, addr, q
    <2>1. Outcome(o) \notin 2 .. 3
      BY <1>5, SMTT(30) DEF ExceptionNone
    <2>2. "read" \in {"read", "write"}
      OBVIOUS
    <2>3. Outcome(o) \in 2 .. 3 \/ Granted(o, t, addr, q)
      BY <1>1, <1>2, <1>3, <2>2, Walk, Zenon
    <2> QED
      BY <2>1, <2>3, Zenon
  <1>9. t \in RegTables \/ t \in BitTables
    BY Tables, Zenon DEF Table
  <1>10. d \in Seq(Byte) /\ n = x % 256 /\ SameValues(m, t, addr, q, d) /\ n <= 255
    <2>1. CASE t \in RegTables
      <3>1. fc \in {FCReadHoldingRegisters, FCReadInputRegisters}
        BY <2>1, Tables DEF ReadFCs
      <3>2. x = U16(2 * q)
        BY <1>1, <3>1, Zenon DEF quantityBytes
      <3> HIDE DEF o, t, addr, q, x, d
      <3>c. Carries(d, 2 * q, m, t, addr, q)
        BY <1>1, <1>2, <1>3, <1>8, <2>1, ReadRegisters, Zenon DEF d
      <3>3. d \in Seq(Byte) /\ Len(d) = 2 * q /\ SameValues(m, t, addr, q, d)
        BY <3>c, Zenon DEF Carries
      <3>n. n = 2 * q
        BY <3>3
      <3> HIDE DEF n
      <3>4. 2 * q <= 255
        BY <1>3, <1>7, <3>n, SMT
      <3>5. U16(2 * q) = 2 * q
        BY <1>3, <3>4, SMT DEF U16
      <3>6. n = x % 256 /\ n <= 255
        BY <1>3, <3>2, <3>4, <3>5, <3>n, SMT
      <3> QED
        BY <3>3, <3>6, Zenon
    <2>2. CASE t \in BitTables
      <3>1. fc \notin {FCReadHoldingRegisters, FCReadInputRegisters}
        BY <2>2, Tables, Zenon
      <3>2. x = q
        BY <1>1, <3>1, Zenon DEF quantityBytes
      <3>3. q <= 254
        <4>1. ~(U16(2 + q) < 2 \/ U16(2 + q) > capacity)
          BY <1>5, <3>2, Zenon DEF SlicePanics, SliceEnd
        <4> HIDE DEF q
        <4>2. q + 2 <= capacity
          BY <1>2, <4>1, SliceFits
        <4> QED
          BY <1>3, <4>2
      <3> HIDE DEF o, t, addr, q, x, d
      <3>4. \A j \in 1 .. q : stale[j] \in Byte
        BY <1>3, <3>3 DEF Leftover
      <3>c. Carries(d, q, m, t, addr, q)
        BY <1>1, <1>2, <1>3, <1>8, <2>2, <3>4, ReadBits, Zenon DEF d
      <3>5. d \in Seq(Byte) /\ Len(d) = q /\ SameValues(m, t, addr, q, d)
        BY <3>c, Zenon DEF Carries
      <3>n. n = q
        BY <3>5
      <3> HIDE DEF n
      <3>6. n = x % 256 /\ n <= 255
        BY <1>3, <3>2, <3>3, <3>n, SMT
      <3> QED
        BY <3>5, <3>6, Zenon
    <2> QED
      BY <1>9, <2>1, <2>2, Zenon
  <1> DEFINE y == x % 256
             s == a.pdu
  <1>11. y \in Byte /\ y = Len(d)
    <2>1. n \in Nat
      BY <1>10
    <2> QED
      BY <1>10, <2>1, ByteRange
  <1>12. s = <<fc, y>> \o d
    BY <1>7
  <1> HIDE DEF a, o, w, t, addr, q, d, x, n, y, s
  <1>13. Reads(s, fc, d)
    BY <1>10, <1>11, <1>12, DataReceived, Zenon
  <1>15. fc \notin WriteSingleFCs /\ fc \notin WriteMultipleFCs
    BY Codes, Zenon
  <1>16. ReceiveDataResponse(s).err = "nil" /\ ReceiveDataResponse(s).data = d
    BY <1>13 DEF Reads
  <1>17. Truthful(p, s, a.bank)
    BY <1>6, <1>10, <1>13, <1>15, <1>16, Zenon DEF Truthful, Reads, t, addr, q
  <1> QED
    BY <1>17 DEF s, a

\* A request that is not refused.
LEMMA NotRefused ==
  ASSUME NEW o, NEW kind \in {"read", "write"}, NEW t \in Table, NEW addr \in Uint16, NEW q \in Nat,
         IsOperation(o, kind, t, addr, q), Outcome(o) = ExceptionNone
  PROVE  /\ Granted(o, t, addr, q) /\ Check(o) = ExceptionNone
         /\ \A k \in 0 .. q - 1 : <<t, addr + k>> \in Cell
  <1>1. Outcome(o) \notin 2 .. 3
    BY DEF ExceptionNone
  <1>2. Granted(o, t, addr, q)
    BY <1>1, Walk, Zenon
  <1>3. Check(o) = ExceptionNone
    BY Zenon DEF Outcome
  <1>4. \A k \in 0 .. q - 1 : <<t, addr + k>> \in Cell
    BY <1>2, InTheBank, Zenon DEF Granted
  <1> QED
    BY <1>2, <1>3, <1>4, Zenon

\* The numbers of a write come back.
LEMMA Echoed ==
  ASSUME NEW fc \in WriteSingleFCs \cup WriteMultipleFCs, NEW addr \in Uint16, NEW v \in Uint16,
         NEW s, s = writeSimple2U16(fc, addr, v)
  PROVE  /\ s \in Seq(Byte) /\ Sized(Len(s)) /\ s[1] = fc
         /\ fc \in WriteSingleFCs =>
              ReceiveSingleWriteResponse(s) = [err |-> "nil", addr |-> addr, value |-> v]
  <1> DEFINE n == Len(s)
  <1>1. fc \in Byte
    BY Codes, ByteRange
  <1>2. s \in Seq(Byte) /\ n = 5 /\ s[1] = fc /\ Uint16At(s, 2) = addr /\ Uint16At(s, 4) = v
    BY <1>1, TwoNumbers
  <1>n. n = Len(s)
    OBVIOUS
  <1> HIDE DEF n
  <1>3. ~(n < 5) /\ Sized(n)
    BY <1>2 DEF Sized
  <1>4. fc \in WriteSingleFCs =>
          ReceiveSingleWriteResponse(s) = [err |-> "nil", addr |-> addr, value |-> v]
    BY <1>2, <1>3, <1>n, Zenon DEF ReceiveSingleWriteResponse
  <1> QED
    BY <1>2, <1>3, <1>4, <1>n, Zenon

\* An answer to a write of one element: the bank has it.
LEMMA SingleAnswered ==
  ASSUME NEW p \in Seq(Byte), NEW req, IsShort(p, req), p[1] \in WriteSingleFCs,
         NEW m \in BankOf(Uint16), NEW data,
         NEW capacity \in Nat, capacity <= 256, NEW room, NEW stale,
         PutResponse(req, m, data, capacity, room, stale).out = "ok"
  PROVE  Truthful(p, PutResponse(req, m, data, capacity, room, stale).pdu,
                  PutResponse(req, m, data, capacity, room, stale).bank)
  <1> DEFINE a == PutResponse(req, m, data, capacity, room, stale)
             o == OperationOf(req, data)
             fc == p[1]
             t == TableOf(fc)
             addr == Uint16At(p, 2)
             q == Uint16At(p, 4)
             e == Echo(req)
             s == a.pdu
  <1>1. /\ IsOperation(o, "write", t, addr, 1) /\ req.fc = fc /\ req.maybeAddr = addr
        /\ req.maybeValueQuantity = q
        /\ fc = FCWriteSingleRegister => o.data[1] = q
        /\ fc = FCWriteSingleCoil => o.data[1] \in {0, 1} /\ (q <= 255 => o.data[1] = 0)
    BY SingleOperation, SMTT(30)
  <1>2. addr \in Uint16 /\ q \in Uint16
    BY DEF IsShort
  <1>3. addr \in Nat /\ q \in Nat
    BY <1>2, Wraps, SMT
  <1>4. o.kind = "write" /\ o.table = t
    BY <1>1 DEF IsOperation
  <1>5. /\ ~SlicePanics(req, capacity) /\ Outcome(o) = ExceptionNone
        /\ a.bank = Effect(o, Reached(o), m)
        /\ o.kind = "write" => s = writeSimple2U16(req.fc, req.maybeAddr, e)
    BY Endings
  <1>6. quantityBytes(req) = q
    <2>1. fc \notin {FCReadHoldingRegisters, FCReadInputRegisters}
      BY Codes DEF ReadFCs
    <2> QED
      BY <1>1, <2>1, Zenon DEF quantityBytes
  <1>7. q <= 254
    <2>1. ~(U16(2 + q) < 2 \/ U16(2 + q) > capacity)
      BY <1>5, <1>6, Zenon DEF SlicePanics, SliceEnd
    <2> HIDE DEF q
    <2>2. q + 2 <= capacity
      BY <1>2, <2>1, SliceFits
    <2> QED
      BY <1>3, <2>2
  <1>8. /\ e \in Uint16
        /\ fc = FCWriteSingleRegister => e = q
        /\ q = 0 => e = q
        /\ q # 65280
        /\ fc = FCWriteSingleCoil => o.data[1] = 0
    <2>1. e = IF fc = FCWriteSingleCoil THEN IF q = 65280 THEN 65280 ELSE 0 ELSE q
      BY <1>1, <1>6 DEF Echo
    <2>2. FCWriteSingleRegister # FCWriteSingleCoil
      BY DEF FCWriteSingleRegister, FCWriteSingleCoil
    <2>3. 0 \in Uint16 /\ q # 65280 /\ q <= 255
      <3> HIDE DEF q
      <3> QED
        BY <1>3, <1>7, Wraps
    <2> HIDE DEF o, e, q, s, a
    <2> QED
      BY <1>1, <1>2, <2>1, <2>2, <2>3
  <1>9. fc \in WriteSingleFCs \cup WriteMultipleFCs
    OBVIOUS
  <1>t. t \in Table
    BY Tables, Zenon
  <1>10. s = writeSimple2U16(fc, addr, e)
    BY <1>1, <1>4, <1>5, Zenon
  <1> HIDE DEF a, o, t, addr, q, e, s
  <1>11. /\ s \in Seq(Byte) /\ Sized(Len(s)) /\ s[1] = fc
         /\ ReceiveSingleWriteResponse(s) = [err |-> "nil", addr |-> addr, value |-> e]
    BY <1>2, <1>8, <1>9, <1>10, Echoed
  <1>12. a.bank[<<t, addr>>] = o.data[1]
    <2>1. "write" \in {"read", "write"} /\ 1 \in Nat
      OBVIOUS
    <2>2. Granted(o, t, addr, 1) /\ \A k \in 0 .. 1 - 1 : <<t, addr + k>> \in Cell
      BY <1>1, <1>2, <1>5, <1>t, <2>1, NotRefused, Zenon
    <2>3. Storable(o, Uint16, 1)
      <3>1. o.data[1] \in Uint16 /\ (t \in BitTables => o.data[1] \in {0, 1})
        <4>1. CASE fc = FCWriteSingleRegister
          <5>1. t \notin BitTables
            BY <4>1, Tables DEF t
          <5> QED
            BY <1>1, <1>2, <4>1, <5>1
        <4>2. CASE fc = FCWriteSingleCoil
          <5>1. o.data[1] = 0 /\ 0 \in Uint16
            BY <1>8, <4>2, Wraps, SMTT(30)
          <5> QED
            BY <5>1
        <4> QED
          BY <4>1, <4>2 DEF WriteSingleFCs
      <3>2. \A k \in 0 .. 1 - 1 : k + 1 = 1
        OBVIOUS
      <3> QED
        BY <1>4, <3>1, <3>2, Zenon DEF Storable
    <2> DEFINE ks == Reached(o)
    <2>4. ks = 0 .. 1 - 1
      BY <2>2, Zenon DEF Granted
    <2> HIDE DEF ks
    <2>5. \A k \in ks : <<t, addr + k>> \in Cell => Effect(o, ks, m)[<<t, addr + k>>] = o.data[k + 1]
      <3>1. ks \subseteq 0 .. 1 - 1
        BY <2>4
      <3>2. Has(Effect(o, ks, m), o, ks, t, addr)
        BY <1>1, <1>2, <2>1, <2>3, <3>1, WriteEffect, Zenon
      <3> QED
        BY <3>2, Zenon DEF Has
    <2>6. 0 \in ks /\ addr + 0 = addr /\ 0 + 1 = 1
      BY <1>3, <2>4
    <2>7. <<t, addr + 0>> \in Cell
      BY <2>2, <2>4, <2>6, Zenon
    <2>8. Effect(o, ks, m)[<<t, addr + 0>>] = o.data[0 + 1]
      BY <2>5, <2>6, <2>7, Zenon
    <2> QED
      BY <1>5, <2>6, <2>8 DEF ks
  <1>13. Acknowledges(p, s, a.bank)
    <2>1. CASE fc = FCWriteSingleRegister
      <3>1. e = q /\ o.data[1] = q
        BY <1>1, <1>8, <2>1, SMTT(30)
      <3> QED
        BY <1>11, <1>12, <2>1, <3>1 DEF Acknowledges, t, addr, q
    <2>2. CASE fc = FCWriteSingleCoil /\ q = 0
      <3>1. e = q /\ o.data[1] = q \div 65280
        BY <1>8, <2>2
      <3>2. fc # FCWriteSingleRegister
        BY <2>2 DEF FCWriteSingleRegister, FCWriteSingleCoil
      <3> QED
        BY <1>11, <1>12, <3>1, <3>2, SMTT(30) DEF Acknowledges, t, addr, q
    <2>3. CASE fc = FCWriteSingleCoil /\ q # 0
      BY <1>8, <2>3 DEF Acknowledges, q
    <2> QED
      BY <2>1, <2>2, <2>3 DEF WriteSingleFCs
  <1>14. fc \notin ReadFCs /\ fc \notin WriteMultipleFCs
    BY Codes, Zenon
  <1>15. Truthful(p, s, a.bank)
    BY <1>11, <1>13, <1>14, Zenon DEF Truthful
  <1> QED
    BY <1>15 DEF s, a

\* The values that follow the sixth byte.
LEMMA ValuesAfter ==
  ASSUME NEW p \in Seq(Byte), NEW k \in Nat, 2 * k + 8 <= Len(p)
  PROVE  Uint16At(SubSeq(p, 7, Len(p)), 2 * k + 1) = Uint16At(p, 2 * k + 7)
  <1> DEFINE i == 2 * k + 1
             l == Len(p)
             u == SubSeq(p, 7, l)
  <1>1. i \in Nat /\ i >= 1 /\ i + 7 <= l /\ l \in Nat /\ 2 * k + 7 = i + 6
    OBVIOUS
  <1>2. u[i] = p[i + 6] /\ u[i + 1] = p[i + 7]
    <2> HIDE DEF i
    <2> QED
      BY <1>1
  <1>3. (i + 6) + 1 = i + 7
    BY <1>1
  <1> HIDE DEF i, u
  <1>4. Uint16At(u, i) = Uint16At(p, i + 6)
    BY <1>2, <1>3, Zenon DEF Uint16At
  <1> QED
    BY <1>1, <1>4, Zenon DEF u, i

\* Numbers made of bytes are what uint16 registers take.
LEMMA StoresNumbers == \A p \in Seq(Byte) : StoresIn(p, Uint16)
  <1> SUFFICES ASSUME NEW p \in Seq(Byte), Len(p) >= 5 PROVE StoresIn(p, Uint16)
    BY Zenon DEF StoresIn
  <1> DEFINE l == Len(p)
  <1>l. l \in Nat /\ l = Len(p)
    OBVIOUS
  <1>1. Uint16At(p, 4) \in Uint16
    BY NumberAt
  <1>2. ASSUME NEW k \in 0 .. l, 2 * k + 8 <= l PROVE Uint16At(p, 2 * k + 7) \in Uint16
    <2> DEFINE i == 2 * k + 7
    <2> HIDE DEF l
    <2>1. i \in Nat /\ i >= 1 /\ i + 1 <= Len(p)
      BY <1>l, <1>2
    <2> HIDE DEF i
    <2>2. Uint16At(p, i) \in Uint16
      BY <2>1, NumberAt
    <2> QED
      BY <2>2 DEF i
  <1> QED
    BY <1>1, <1>2, Zenon DEF StoresIn

\* An answer to a write of several elements: the bank has them all.
LEMMA ManyAnswered ==
  ASSUME NEW p \in Seq(Byte), NEW req, IsLong(p, req), NEW m \in BankOf(Uint16),
         NEW data, data = SubSeq(p, req.off + 1, Len(p)), NEW capacity, NEW room, NEW stale,
         PutResponse(req, m, data, capacity, room, stale).out = "ok"
  PROVE  Truthful(p, PutResponse(req, m, data, capacity, room, stale).pdu,
                  PutResponse(req, m, data, capacity, room, stale).bank)
  <1> DEFINE a == PutResponse(req, m, data, capacity, room, stale)
             o == OperationOf(req, data)
             n == Supplied(req.fc, WrittenData(req, data))
             fc == p[1]
             t == TableOf(fc)
             addr == Uint16At(p, 2)
             q == Uint16At(p, 4)
             s == a.pdu
  <1>w. WritesMany(p, req, o, n)
    BY MultipleOperation, Zenon
  <1>1. /\ IsOperation(o, "write", t, addr, q) /\ req.fc = fc /\ req.maybeAddr = addr
        /\ req.maybeValueQuantity = q
    BY <1>w, Zenon DEF WritesMany
  <1>2. addr \in Uint16 /\ q \in Uint16 /\ fc \in WriteMultipleFCs /\ p[6] \in Nat
    BY ByteRange DEF IsLong
  <1>3. addr \in Nat /\ q \in Nat
    BY <1>2, Wraps, SMT
  <1>4. o.kind = "write" /\ o.table = t /\ o.qty = q
    BY <1>1 DEF IsOperation
  <1>5. /\ Outcome(o) = ExceptionNone /\ ~RunsOut(req, data)
        /\ req.fc # FCWriteMultipleCoils /\ a.bank = Effect(o, Reached(o), m)
        /\ o.kind = "write" => s = writeSimple2U16(req.fc, req.maybeAddr, Echo(req))
    BY Endings
  <1>6. fc = FCWriteMultipleRegisters
    BY <1>1, <1>2, <1>5, Zenon DEF WriteMultipleFCs
  <1>t. t \in Table /\ t \notin BitTables
    BY <1>6, Tables, Zenon
  <1>7. Echo(req) = q
    <2>1. fc \notin {FCReadHoldingRegisters, FCReadInputRegisters} /\ fc # FCWriteSingleCoil
      BY <1>6 DEF FCReadHoldingRegisters, FCReadInputRegisters, FCWriteMultipleRegisters, FCWriteSingleCoil
    <2> QED
      BY <1>1, <2>1 DEF quantityBytes, Echo
  <1>8. s = writeSimple2U16(fc, addr, q)
    BY <1>1, <1>4, <1>5, <1>7, Zenon
  <1>r. RunsOut(req, data) <=>
          o.kind = "write" /\ n < o.qty /\ Check(o) = ExceptionNone /\ 0 .. n - 1 \subseteq Reached(o)
    BY Zenon DEF RunsOut
  <1>9. /\ n = p[6] \div 2
        /\ \A k \in 0 .. q - 1 : k < n => 2 * k + 8 <= Len(p) /\ o.data[k + 1] = Uint16At(p, 2 * k + 7)
        /\ \A k \in 0 .. q - 1 : k >= n => o.data[k + 1] = 0
    BY <1>w, <1>6, Zenon DEF WritesMany
  <1> HIDE DEF a, o, n, t, addr, q, s
  <1>10. /\ Granted(o, t, addr, q) /\ Check(o) = ExceptionNone
         /\ \A k \in 0 .. q - 1 : <<t, addr + k>> \in Cell
    <2>1. "write" \in {"read", "write"}
      OBVIOUS
    <2> QED
      BY <1>1, <1>2, <1>3, <1>5, <1>t, <2>1, NotRefused, Zenon
  <1> DEFINE ks == Reached(o)
  <1>11. ks = 0 .. q - 1
    BY <1>10, Zenon DEF Granted
  <1>12. n \in Nat /\ n >= q
    <2>1. n \in Nat
      BY <1>2, <1>9
    <2>2. n < q => 0 .. n - 1 \subseteq 0 .. q - 1
      BY <1>3, <2>1
    <2>3. ~(n < q)
      BY <1>4, <1>5, <1>10, <1>11, <1>r, <2>2, Zenon
    <2> QED
      BY <1>3, <2>1, <2>3
  <1>13. ASSUME NEW k \in 0 .. q - 1
         PROVE  /\ k \in Nat /\ 2 * k + 8 <= Len(p) /\ o.data[k + 1] = Uint16At(p, 2 * k + 7)
                /\ o.data[k + 1] \in Uint16
    <2>1. k \in Nat /\ k < n
      BY <1>3, <1>12
    <2>2. 2 * k + 8 <= Len(p) /\ o.data[k + 1] = Uint16At(p, 2 * k + 7)
      BY <1>9, <2>1, Zenon
    <2> DEFINE i == 2 * k + 7
    <2>3. i \in Nat /\ i >= 1 /\ i + 1 <= Len(p)
      BY <2>1, <2>2
    <2> HIDE DEF i
    <2>4. Uint16At(p, i) \in Uint16
      BY <2>3, NumberAt
    <2> QED
      BY <2>1, <2>2, <2>4, Zenon DEF i
  <1>14. Has(a.bank, o, ks, t, addr)
    <2>1. Storable(o, Uint16, q)
      BY <1>4, <1>13, <1>t, Zenon DEF Storable
    <2>2. ks \subseteq 0 .. q - 1
      BY <1>11
    <2> HIDE DEF ks
    <2>3. Has(Effect(o, ks, m), o, ks, t, addr)
      BY <1>1, <1>2, <1>3, <2>1, <2>2, WriteEffect, Zenon
    <2> QED
      BY <1>5, <2>3, Zenon DEF ks
  <1> HIDE DEF ks
  <1> DEFINE d == SubSeq(p, 7, Len(p))
  <1>15. ASSUME NEW k \in 0 .. q - 1 PROVE Uint16At(d, 2 * k + 1) = a.bank[<<t, addr + k>>]
    <2>1. k \in Nat /\ 2 * k + 8 <= Len(p) /\ o.data[k + 1] = Uint16At(p, 2 * k + 7)
      BY <1>13
    <2>2. a.bank[<<t, addr + k>>] = o.data[k + 1]
      BY <1>10, <1>11, <1>14, Zenon DEF Has
    <2>3. Uint16At(d, 2 * k + 1) = Uint16At(p, 2 * k + 7)
      BY <2>1, ValuesAfter, Zenon
    <2> QED
      BY <2>1, <2>2, <2>3, Zenon
  <1>16. SameValues(a.bank, t, addr, q, d)
    BY <1>15, <1>t, Zenon DEF SameValues
  <1>17. s \in Seq(Byte) /\ Sized(Len(s)) /\ s[1] = fc
    <2>1. fc \in WriteSingleFCs \cup WriteMultipleFCs
      BY <1>2
    <2> QED
      BY <1>2, <1>8, <2>1, Echoed
  <1>18. fc \notin ReadFCs /\ fc \notin WriteSingleFCs
    BY <1>2, Codes, Zenon
  <1>19. Truthful(p, s, a.bank)
    BY <1>16, <1>17, <1>18, Zenon DEF Truthful, t, addr, q
  <1> QED
    BY <1>19 DEF s, a

\* The exceptions that PutResponse answers.
LEMMA Excepts ==
  ASSUME NEW p \in Seq(Byte), NEW req, IsShort(p, req) \/ IsLong(p, req) \/ IsStatus(p, req), NEW m,
         NEW data, data = SubSeq(p, req.off + 1, Len(p)), NEW capacity, NEW room, NEW stale,
         PutResponse(req, m, data, capacity, room, stale).out = "exception"
  PROVE  PutResponse(req, m, data, capacity, room, stale).exc \in Byte
  <1> DEFINE a == PutResponse(req, m, data, capacity, room, stale)
             o == OperationOf(req, data)
  <1>1. a.exc = ExceptionIllegalFunction \/ (a.exc = Outcome(o) /\ Outcome(o) # ExceptionNone
                                             /\ req.fc \in KnownFCs)
    BY Endings
  <1>2. ExceptionIllegalFunction \in Byte
    BY ByteRange DEF ExceptionIllegalFunction
  <1>3. CASE a.exc = Outcome(o) /\ Outcome(o) # ExceptionNone /\ req.fc \in KnownFCs
    <2>1. IsShort(p, req) \/ IsLong(p, req)
      <3>1. ASSUME IsStatus(p, req) PROVE FALSE
        <4>1. req.fc = FCReadExceptionStatus
          BY <3>1 DEF IsStatus, Decoded
        <4> QED
          BY <1>3, <4>1, Codes, Zenon DEF KnownFCs
      <3> QED
        BY <3>1
    <2>2. Uint16At(p, 2) \in Uint16 /\ \E q \in Nat : AsksFor(o, p, q, Uint16)
      <3>1. {0, 1} \subseteq Uint16
        BY Wraps
      <3>2. StoresIn(p, Uint16)
        BY StoresNumbers, Zenon
      <3> QED
        BY <2>1, <3>1, <3>2, Asking
    <2>3. PICK q \in Nat : AsksFor(o, p, q, Uint16)
      BY <2>2, Zenon
    <2> DEFINE t == TableOf(p[1])
               addr == Uint16At(p, 2)
    <2>4. PICK kind \in {"read", "write"} : IsOperation(o, kind, t, addr, q)
      BY <2>3, Zenon DEF AsksFor
    <2> HIDE DEF o, a, t
    <2>5. Outcome(o) \in 2 .. 3 \/ Granted(o, t, addr, q)
      BY <2>2, <2>4, Walk, Zenon
    <2>6. Outcome(o) \in 2 .. 3
      BY <1>3, <2>5, Zenon DEF Granted
    <2>7. Outcome(o) \in Byte
      BY <2>6, ByteRange
    <2> QED
      BY <1>3, <2>7, Zenon DEF a
  <1>4. a.exc \in Byte
    BY <1>1, <1>2, <1>3, Zenon
  <1> QED
    BY <1>4, Zenon

\* A request that PutResponse serves without a panic, in a buffer of 256
\* bytes: the slice it takes for values fits, and a write has all its values.
Serves(p) ==
  LET qty == Uint16At(p, 4)
  IN Len(p) >= 5 =>
       /\ p[1] \in {FCReadCoils, FCReadDiscreteInputs} \cup WriteSingleFCs => qty <= 254
       /\ p[1] \in {FCReadHoldingRegisters, FCReadInputRegisters} => qty <= 127
       /\ p[1] = FCWriteMultipleRegisters /\ Len(p) >= 7 => 2 * qty <= p[6]
       /\ p[1] # FCWriteMultipleCoils

\* Of the slices that fit.
LEMMA SliceThere ==
  ASSUME NEW x \in Nat, NEW capacity \in Nat, x + 2 <= capacity, capacity <= 256
  PROVE  ~(U16(2 + x) < 2 \/ U16(2 + x) > capacity)
BY SMT DEF U16

\* c is what rxbuf holds from the offset on that the request has come to.
FullBuffer(req, c) == c = 256 - req.off

\* What it takes to make PutResponse panic.
LEMMA Panicking ==
  ASSUME NEW req, NEW m, NEW data, NEW capacity, NEW room, NEW stale,
         ~SlicePanics(req, capacity), ~RunsOut(req, data), req.fc # FCWriteMultipleCoils
  PROVE  PutResponse(req, m, data, capacity, room, stale).out # "panic"
  BY Endings

LEMMA NoPanics ==
  ASSUME NEW p \in Seq(Byte), NEW req, IsShort(p, req) \/ IsLong(p, req) \/ IsStatus(p, req), Serves(p),
         NEW m, NEW data, data = SubSeq(p, req.off + 1, Len(p)), NEW c, FullBuffer(req, c),
         NEW room, NEW stale
  PROVE  PutResponse(req, m, data, c, room, stale).out # "panic"
  <1> USE DEF FullBuffer
  <1> DEFINE q == Uint16At(p, 4)
             x == quantityBytes(req)
             fc == p[1]
             l == Len(p)
             o == OperationOf(req, data)
             n == Supplied(req.fc, WrittenData(req, data))
  <1>0. /\ x \in Nat /\ c \in Nat /\ x + 2 <= c /\ c <= 256 /\ ~RunsOut(req, data)
        /\ req.fc # FCWriteMultipleCoils
    <2>1. CASE IsShort(p, req) /\ fc \in ReadFCs
      <3>1. req.fc = fc /\ req.maybeValueQuantity = q /\ req.maybeByteCount = 0 /\ req.off = 0
        BY <2>1 DEF IsShort, Decoded
      <3>2. q \in Nat /\ l >= 5
        BY <2>1, Wraps, SMT DEF IsShort
      <3>3. fc \notin WriteMultipleFCs
        BY <2>1, Codes, Zenon
      <3>4. CASE fc \in {FCReadHoldingRegisters, FCReadInputRegisters}
        <4>1. q <= 127
          BY <3>2, <3>4 DEF Serves
        <4>2. x = U16(2 * q)
          BY <3>1, <3>4, Zenon DEF quantityBytes
        <4> HIDE DEF q, x
        <4>3. x = 2 * q
          BY <3>2, <4>1, <4>2, SMT DEF U16
        <4>4. x \in Nat /\ x + 2 <= 256
          BY <3>2, <4>1, <4>3
        <4>5. o.kind = "read"
          BY <2>1, <3>1 DEF OperationOf
        <4>6. ~RunsOut(req, data)
          BY <4>5 DEF RunsOut
        <4> QED
          BY <3>1, <3>3, <4>4, <4>6 DEF WriteMultipleFCs
      <3>5. CASE fc \notin {FCReadHoldingRegisters, FCReadInputRegisters}
        <4>1. q <= 254
          BY <2>1, <3>2, <3>5 DEF Serves, ReadFCs
        <4>2. x = q
          BY <3>1, <3>5, Zenon DEF quantityBytes
        <4> HIDE DEF q, x
        <4>4. x \in Nat /\ x + 2 <= 256
          BY <3>2, <4>1, <4>2
        <4>5. o.kind = "read"
          BY <2>1, <3>1 DEF OperationOf
        <4>6. ~RunsOut(req, data)
          BY <4>5 DEF RunsOut
        <4> QED
          BY <3>1, <3>3, <4>4, <4>6 DEF WriteMultipleFCs
      <3> QED
        BY <3>4, <3>5, Zenon
    <2>2. CASE IsShort(p, req) /\ fc \in WriteSingleFCs
      <3>1. req.fc = fc /\ req.maybeValueQuantity = q /\ req.off = 0 /\ n >= 1
        BY <2>2, SingleOperation
      <3>2. q \in Nat /\ l >= 5
        BY <2>2, Wraps, SMT DEF IsShort
      <3>3. fc \notin WriteMultipleFCs /\ fc \notin {FCReadHoldingRegisters, FCReadInputRegisters}
        BY <2>2, Codes DEF ReadFCs
      <3>4. q <= 254
        BY <2>2, <3>2 DEF Serves
      <3>5. x = q
        BY <3>1, <3>3, Zenon DEF quantityBytes
      <3>6. x \in Nat /\ x + 2 <= 256
        <4> HIDE DEF q, x
        <4> QED
          BY <3>2, <3>4, <3>5
      <3>7. o.qty = 1
        BY <2>2, <3>1 DEF OperationOf, Asked
      <3>8. n \in Nat
        <4>1. Len(BigEndian(req.maybeValueQuantity)) = 2
          BY DEF BigEndian
        <4>2. WrittenData(req, data) = BigEndian(req.maybeValueQuantity)
          BY <2>2, <3>1 DEF WrittenData
        <4> QED
          BY <4>1, <4>2 DEF Supplied
      <3>r. RunsOut(req, data) => n < o.qty
        BY Zenon DEF RunsOut
      <3> HIDE DEF n, o
      <3>9. ~RunsOut(req, data)
        BY <3>1, <3>7, <3>8, <3>r
      <3> QED
        BY <3>1, <3>3, <3>6, <3>9 DEF WriteMultipleFCs
    <2>3. CASE IsLong(p, req)
      <3>1. WritesMany(p, req, o, n)
        BY <2>3, MultipleOperation, Zenon
      <3>2. /\ IsOperation(o, "write", TableOf(fc), Uint16At(p, 2), q) /\ req.fc = fc
            /\ req.maybeValueQuantity = q /\ req.off = 6
            /\ fc = FCWriteMultipleRegisters => n = p[6] \div 2
        BY <3>1, Zenon DEF WritesMany
      <3>3. l >= 7 /\ fc \in WriteMultipleFCs /\ p[6] \in Nat /\ p[6] <= 255 /\ q \in Nat
        <4>1. l >= 7 /\ fc \in WriteMultipleFCs
          BY <2>3 DEF IsLong
        <4>2. p[6] \in Byte
          BY <4>1
        <4>3. p[6] \in Nat /\ p[6] <= 255
          BY <4>2, ByteRange
        <4>4. q \in Nat
          BY <2>3, Wraps, SMT DEF IsLong
        <4> QED
          BY <4>1, <4>3, <4>4
      <3>4. l \in Nat /\ l >= 5
        BY <3>3
      <3>5. fc # FCWriteMultipleCoils
        BY <3>4, Zenon DEF Serves
      <3>6. fc = FCWriteMultipleRegisters
        BY <3>3, <3>5 DEF WriteMultipleFCs
      <3>7. 2 * q <= p[6]
        BY <3>3, <3>4, <3>6, Zenon DEF Serves
      <3>8. x = q
        <4>1. fc \notin {FCReadHoldingRegisters, FCReadInputRegisters}
          BY <3>3, Codes DEF ReadFCs
        <4> QED
          BY <3>2, <4>1, Zenon DEF quantityBytes
      <3>9. o.qty = q
        BY <3>2 DEF IsOperation
      <3>r. RunsOut(req, data) => n < o.qty
        BY Zenon DEF RunsOut
      <3> HIDE DEF n, o, x, q
      <3>10. ~(n < q) /\ q <= 127
        BY <3>2, <3>3, <3>6, <3>7
      <3>11. x \in Nat /\ x + 2 <= 250
        BY <3>3, <3>8, <3>10
      <3> QED
        BY <3>2, <3>5, <3>9, <3>r, <3>10, <3>11
    <2>4. CASE IsStatus(p, req)
      <3>1. req.fc = FCReadExceptionStatus /\ req.maybeValueQuantity = 0 /\ req.off = 0
            /\ req.maybeByteCount = 0
        BY <2>4 DEF IsStatus, Decoded
      <3>2. x = 0
        <4>1. req.fc \notin {FCReadHoldingRegisters, FCReadInputRegisters}
          BY <3>1, Codes DEF ReadFCs
        <4> QED
          BY <3>1, <4>1, Zenon DEF quantityBytes
      <3>3. o.qty = 0
        BY <3>1, Codes DEF OperationOf, Asked
      <3>4. ~RunsOut(req, data)
        <4>1. req.fc \notin WriteSingleFCs
          BY <3>1, Codes, Zenon
        <4>2. WrittenData(req, data) = SubSeq(data, 1, 0)
          BY <3>1, <4>1 DEF WrittenData
        <4>3. Len(SubSeq(data, 1, 0)) = 0
          <5>1. data \in Seq(Byte)
            BY <3>1
          <5> QED
            BY <5>1
        <4>4. n = 0
          BY <4>2, <4>3 DEF Supplied
        <4>r. RunsOut(req, data) => n < o.qty
          BY Zenon DEF RunsOut
        <4> HIDE DEF n, o
        <4> QED
          BY <3>3, <4>4, <4>r
      <3>5. req.fc # FCWriteMultipleCoils
        BY <3>1 DEF FCReadExceptionStatus, FCWriteMultipleCoils
      <3> QED
        BY <3>1, <3>2, <3>4, <3>5
    <2>5. IsShort(p, req) => fc \in ReadFCs \/ fc \in WriteSingleFCs
      BY DEF IsShort
    <2> QED
      BY <2>1, <2>2, <2>3, <2>4, <2>5, Zenon
  <1>1. ~SlicePanics(req, c)
    <2> HIDE DEF x
    <2>1. ~(U16(2 + x) < 2 \/ U16(2 + x) > c)
      BY <1>0, SliceThere
    <2> QED
      BY <2>1, Zenon DEF SlicePanics, SliceEnd, x
  <1> QED
    BY <1>0, <1>1, Panicking, ZenonT(40)
================================================================================
