------------------------------ MODULE RtuLinkAnswers -----------------------------
(***************************************************************************)
(* What RtuLink sends, for every set of calls, every bank and every        *)
(* checksum: the request of a call, the answer of the server to it, and    *)
(* how the two ends find their way through the bytes of either.            *)
(***************************************************************************)
EXTENDS RtuLink, TLAPS

\* generateCRC returns a uint16.
CrcIsUint16 == \A b \in Seq(Byte) : CRC(b) \in Uint16

\* How many registers a call reads, what they hold, and as bytes.
Quantity(c) == U16(Len(c.regs))
RegistersAt(m, t, addr, q) == [k \in 1 .. q |-> m[<<t, addr + k - 1>>]]
HeldBy(m, c) == RegistersAt(m, TableOf(c.fc), c.addr, Quantity(c))
Bytes(regs) == [j \in 1 .. 2 * Len(regs) |-> BigEndian(regs[(j + 1) \div 2])[2 - (j % 2)]]

\* The answer to a call that the server does not refuse.
AnswerFrom(m, c) ==
  IF c.fc = FCWriteMultipleRegisters THEN writeSimple2U16(c.fc, c.addr, Len(c.regs))
  ELSE <<c.fc, 2 * Quantity(c)>> \o Bytes(HeldBy(m, c))

\* What a client gets that never gets an answer: nothing, or an exception.
NoAnswers == {<<>>} \cup {<<fc + 128, exc>> : fc \in RegisterFCs, exc \in 1 .. 3}

\* What the length of an answer a of which k bytes are known is taken to be:
\* it is unknown if all of it is an exception, and after two bytes of a read's.
Unknown(a, k) == Len(a) = 2 \/ (k = 2 /\ a[2] # FCWriteMultipleRegisters)
Missing(a, k) == IF Unknown(a, k) THEN 2 ELSE Len(a) - k

--------------------------------------------------------------------------------
(***************************************************************************)
(* Packets.                                                                *)
(***************************************************************************)
LEMMA ByteRange ==
  /\ \A x \in Byte : x \in Nat /\ x <= 255
  /\ \A x \in Nat : x <= 255 => x \in Byte
BY DEF Byte

\* What has been received of a packet, what is still on the line, and how
\* both change with j bytes more.
LEMMA Pieces ==
  ASSUME NEW p \in Seq(Byte), NEW k \in Nat, NEW j \in Nat, k + j <= Len(p)
  PROVE  /\ SubSeq(p, 1, k) \o SubSeq(SubSeq(p, k + 1, Len(p)), 1, j) = SubSeq(p, 1, k + j)
         /\ SubSeq(SubSeq(p, k + 1, Len(p)), j + 1, Len(SubSeq(p, k + 1, Len(p))))
              = SubSeq(p, k + j + 1, Len(p))
  <1> DEFINE b == SubSeq(p, 1, k)
             l == SubSeq(p, k + 1, Len(p))
  <1>1. b \in Seq(Byte) /\ Len(b) = k /\ l \in Seq(Byte) /\ Len(l) = Len(p) - k
    OBVIOUS
  <1>2. b \o SubSeq(l, 1, j) = SubSeq(p, 1, k + j)
    BY <1>1
  <1>3. SubSeq(l, j + 1, Len(l)) = SubSeq(p, k + j + 1, Len(p))
    BY <1>1
  <1> QED
    BY <1>2, <1>3

\* All of a packet, and nothing of it.
LEMMA AllOrNone ==
  ASSUME NEW T, NEW p \in Seq(T)
  PROVE  /\ SubSeq(p, 1, Len(p)) = p /\ SubSeq(p, Len(p) + 1, Len(p)) = <<>>
         /\ SubSeq(p, 1, 0) = <<>> /\ SubSeq(p, 0 + 1, Len(p)) = p
         /\ <<>> \o p = p /\ p \o <<>> = p
  OBVIOUS

\* Two sequences in a row.
LEMMA Concat ==
  ASSUME NEW a \in Seq(Byte), NEW b \in Seq(Byte)
  PROVE  /\ a \o b \in Seq(Byte) /\ Len(a \o b) = Len(a) + Len(b)
         /\ \A j \in 1 .. Len(a) : (a \o b)[j] = a[j]
         /\ \A j \in 1 .. Len(b) : (a \o b)[Len(a) + j] = b[j]
  OBVIOUS

\* A part of a sequence.
LEMMA Part ==
  ASSUME NEW p \in Seq(Byte), NEW a \in Nat, NEW b \in Nat, a <= b, b <= Len(p)
  PROVE  /\ SubSeq(p, a + 1, b) \in Seq(Byte) /\ Len(SubSeq(p, a + 1, b)) = b - a
         /\ \A j \in 1 .. b - a : SubSeq(p, a + 1, b)[j] = p[a + j]
  OBVIOUS

\* Sequences of the same length with the same elements.
LEMMA Same ==
  ASSUME NEW p \in Seq(Byte), NEW q \in Seq(Byte), Len(p) = Len(q), \A j \in 1 .. Len(p) : p[j] = q[j]
  PROVE  p = q
  OBVIOUS

\* Two sequences in a row are taken apart where they meet.
LEMMA Apart ==
  ASSUME NEW s \in Seq(Byte), NEW l \in Seq(Byte), NEW j \in Nat, j <= Len(s)
  PROVE  /\ SubSeq(s \o l, 1, j) = SubSeq(s, 1, j)
         /\ SubSeq(s \o l, j + 1, Len(s \o l)) = SubSeq(s, j + 1, Len(s)) \o l
  <1> DEFINE t == s \o l
             n == Len(s)
             m == Len(l)
  <1>1. /\ t \in Seq(Byte) /\ Len(t) = n + m
        /\ \A i \in 1 .. n : t[i] = s[i]
        /\ \A i \in 1 .. m : t[n + i] = l[i]
    BY Concat
  <1>n. n = Len(s) /\ m = Len(l) /\ n \in Nat /\ m \in Nat /\ j <= n
    OBVIOUS
  <1> HIDE DEF t, n, m
  <1>2. SubSeq(t, 1, j) = SubSeq(s, 1, j)
    <2> DEFINE x == SubSeq(t, 1, j)
               y == SubSeq(s, 1, j)
    <2>0. j <= Len(t) /\ j <= Len(s) /\ 0 <= j /\ 0 + 1 = 1 /\ 0 \in Nat
      BY <1>1, <1>n
    <2>1. x \in Seq(Byte) /\ Len(x) = j /\ \A i \in 1 .. j : x[i] = t[i]
      BY <1>1, <1>n, <2>0
    <2>2. y \in Seq(Byte) /\ Len(y) = j /\ \A i \in 1 .. j : y[i] = s[i]
      BY <2>0
    <2> HIDE DEF x, y
    <2>3. \A i \in 1 .. j : x[i] = y[i]
      <3>1. \A i \in 1 .. j : i \in 1 .. n
        BY <1>n
      <3> QED
        BY <3>1, <2>1, <2>2, <1>1
    <2> QED
      BY <2>1, <2>2, <2>3, Same DEF x, y
  <1>3. SubSeq(t, j + 1, Len(t)) = SubSeq(s, j + 1, n) \o l
    <2> DEFINE x == SubSeq(t, j + 1, Len(t))
               y == SubSeq(s, j + 1, n)
               z == y \o l
               r == n - j
    <2>r. r = n - j /\ r \in Nat
      BY <1>n
    <2>1. x \in Seq(Byte) /\ Len(x) = r + m /\ \A i \in 1 .. r + m : x[i] = t[j + i]
      <3>1. j <= Len(t) /\ Len(t) \in Nat /\ Len(t) <= Len(t) /\ Len(t) - j = r + m
        BY <1>1, <1>n
      <3> HIDE DEF r
      <3> QED
        BY <3>1, <1>1, Part
    <2>2. y \in Seq(Byte) /\ Len(y) = r /\ \A i \in 1 .. r : y[i] = s[j + i]
      BY <1>n, Part
    <2> HIDE DEF x, y, r
    <2>3. z \in Seq(Byte) /\ Len(z) = r + m
      BY <2>2, <1>n, Concat
    <2>4. \A i \in 1 .. r : z[i] = y[i]
      BY <2>2, <1>n, Concat
    <2>5. \A i \in 1 .. m : z[r + i] = l[i]
      BY <2>2, <1>n, Concat
    <2> HIDE DEF z
    <2>6. ASSUME NEW i \in 1 .. r + m PROVE x[i] = z[i]
      <3>0. i \in Int /\ i >= 1 /\ i <= r + m
        BY <2>r, <1>n
      <3>1. CASE i <= r
        <4>1. i \in 1 .. r /\ j + i \in 1 .. n
          BY <3>1, <3>0, <2>r, <1>n
        <4>2. x[i] = t[j + i] /\ t[j + i] = s[j + i] /\ z[i] = y[i] /\ y[i] = s[j + i]
          BY <4>1, <2>1, <2>2, <2>4, <1>1
        <4> QED
          BY <4>2
      <3>2. CASE ~(i <= r)
        <4> DEFINE k == i - r
        <4>1. k \in 1 .. m /\ j + i = n + k /\ r + k = i
          BY <3>2, <3>0, <2>r, <1>n
        <4> HIDE DEF k
        <4>2. x[i] = t[j + i] /\ t[n + k] = l[k] /\ z[r + k] = l[k]
          BY <4>1, <2>1, <2>5, <1>1
        <4> QED
          BY <4>1, <4>2
      <3> QED
        BY <3>1, <3>2
    <2>7. Len(x) = Len(z) /\ \A i \in 1 .. Len(x) : x[i] = z[i]
      BY <2>1, <2>3, <2>6
    <2> QED
      BY <2>1, <2>3, <2>7, Same DEF x, y, z
  <1> QED
    BY <1>2, <1>3, <1>n DEF t

\* What is on the line when k bytes of packet p have been read and l comes
\* behind it, and what is left when j more have been.
Rest(p, k, l) == SubSeq(p, k + 1, Len(p)) \o l

LEMMA FrontPieces ==
  ASSUME NEW p \in Seq(Byte), NEW l \in Seq(Byte), NEW k \in Nat, NEW j \in Nat, k + j <= Len(p)
  PROVE  /\ Rest(p, k, l) \in Seq(Byte) /\ Len(Rest(p, k, l)) = Len(p) - k + Len(l)
         /\ SubSeq(p, 1, k) \o SubSeq(Rest(p, k, l), 1, j) = SubSeq(p, 1, k + j)
         /\ SubSeq(Rest(p, k, l), j + 1, Len(Rest(p, k, l))) = Rest(p, k + j, l)
  <1> DEFINE s == SubSeq(p, k + 1, Len(p))
  <1>1. s \in Seq(Byte) /\ Len(s) = Len(p) - k /\ j <= Len(s)
    BY Part
  <1>2. /\ SubSeq(p, 1, k) \o SubSeq(s, 1, j) = SubSeq(p, 1, k + j)
        /\ SubSeq(s, j + 1, Len(s)) = SubSeq(p, k + j + 1, Len(p))
    BY Pieces, Zenon
  <1> HIDE DEF s
  <1>3. /\ s \o l \in Seq(Byte) /\ Len(s \o l) = Len(s) + Len(l)
        /\ SubSeq(s \o l, 1, j) = SubSeq(s, 1, j)
        /\ SubSeq(s \o l, j + 1, Len(s \o l)) = SubSeq(s, j + 1, Len(s)) \o l
    BY <1>1, Concat, Apart, Zenon
  <1>4. Rest(p, k, l) = s \o l /\ Rest(p, k + j, l) = SubSeq(p, k + j + 1, Len(p)) \o l
    BY DEF s, Rest
  <1> QED
    BY <1>1, <1>2, <1>3, <1>4, Zenon

LEMMA RestAlone ==
  ASSUME NEW p \in Seq(Byte), NEW k \in Nat, k <= Len(p)
  PROVE  Rest(p, k, <<>>) = SubSeq(p, k + 1, Len(p))
  <1>1. SubSeq(p, k + 1, Len(p)) \in Seq(Byte)
    BY Part
  <1> QED
    BY <1>1, AllOrNone, Zenon DEF Rest

LEMMA Associative ==
  ASSUME NEW a \in Seq(Byte), NEW b \in Seq(Byte), NEW c \in Seq(Byte)
  PROVE  (a \o b) \o c = a \o (b \o c)
OBVIOUS

LEMMA OneByte ==
  ASSUME NEW T, NEW x \in T
  PROVE  <<x>> \in Seq(T) /\ Len(<<x>>) = 1 /\ <<x>>[1] = x
  OBVIOUS

\* Address, PDU, and a CRC that TryRx finds to be right.
IsPacket(p, dev, pdu) ==
  /\ p \in Seq(Byte) /\ Len(p) = Len(pdu) + 3 /\ p[1] = dev
  /\ \A j \in 1 .. Len(pdu) : p[j + 1] = pdu[j]
  /\ SubSeq(p, 2, Len(p) - 2) = pdu
  /\ CRC(SubSeq(p, 1, Len(p) - 2)) = p[Len(p) - 1] + 256 * p[Len(p)]

LEMMA PacketBytes ==
  ASSUME CrcIsUint16, NEW dev \in Byte, NEW pdu \in Seq(Byte)
  PROVE  IsPacket(Packet(dev, pdu), dev, pdu)
  <1> DEFINE p == Packet(dev, pdu)
             body == <<dev>> \o pdu
             lo == CRC(body) % 256
             hi == CRC(body) \div 256
  <1>1. body \in Seq(Byte) /\ Len(body) = Len(pdu) + 1 /\ body[1] = dev
        /\ \A j \in 1 .. Len(pdu) : body[j + 1] = pdu[j]
    OBVIOUS
  <1>2. lo \in Byte /\ hi \in Byte /\ lo + 256 * hi = CRC(body) /\ lo \in Nat /\ hi \in Nat
    <2>1. CRC(body) \in Uint16
      BY <1>1, Zenon DEF CrcIsUint16
    <2>2. CRC(body) \in Nat /\ CRC(body) < 65536
      BY <2>1, SMT DEF Uint16
    <2> DEFINE v == CRC(body)
    <2>3. v \in Nat /\ v < 65536
      BY <2>2
    <2> HIDE DEF v
    <2>4. v % 256 \in Nat /\ v % 256 <= 255 /\ v \div 256 \in Nat /\ v \div 256 <= 255
          /\ (v % 256) + 256 * (v \div 256) = v
      BY <2>3, SMT
    <2> QED
      BY <2>4, ByteRange, SMT DEF v
  <1>3. p = body \o <<lo, hi>>
    BY DEF Packet
  <1> HIDE DEF p, body, lo, hi
  <1>4. /\ p \in Seq(Byte) /\ Len(p) = Len(body) + 2
        /\ \A j \in 1 .. Len(body) : p[j] = body[j]
        /\ p[Len(body) + 1] = lo /\ p[Len(body) + 2] = hi
    BY <1>1, <1>2, <1>3
  <1>5. SubSeq(p, 1, Len(p) - 2) = body
    BY <1>1, <1>4
  <1>6. SubSeq(p, 2, Len(p) - 2) = pdu
    BY <1>1, <1>4
  <1>7. p[Len(p) - 1] = lo /\ p[Len(p)] = hi
    BY <1>1, <1>4
  <1>8. Len(p) = Len(pdu) + 3 /\ p[1] = dev /\ \A j \in 1 .. Len(pdu) : p[j + 1] = pdu[j]
    BY <1>1, <1>4
  <1> QED
    BY <1>2, <1>4, <1>5, <1>6, <1>7, <1>8, Zenon DEF IsPacket, p

--------------------------------------------------------------------------------
(***************************************************************************)
(* Numbers as bytes.                                                       *)
(***************************************************************************)

\* uint16 arithmetic.
LEMMA Wraps ==
  /\ \A n \in Nat : U16(n) \in Nat /\ U16(n) < 65536 /\ U16(n) \in Uint16
  /\ \A n \in Nat : n < 65536 => n \in Uint16 /\ U16(n) = n
  /\ \A n \in Uint16 : n \in Nat /\ n < 65536
BY SMT DEF U16, Uint16

\* The two bytes of a uint16 make it up.
LEMMA TwoBytes ==
  ASSUME NEW v \in Uint16
  PROVE  /\ BigEndian(v)[1] \in Byte /\ BigEndian(v)[2] \in Byte
         /\ 256 * BigEndian(v)[1] + BigEndian(v)[2] = v
  <1>1. v \in Nat /\ v < 65536
    BY SMT DEF Uint16
  <1> HIDE DEF Uint16
  <1>2. v % 256 \in Nat /\ v % 256 <= 255 /\ v \div 256 \in Nat /\ v \div 256 <= 255
        /\ 256 * (v \div 256) + (v % 256) = v
    BY <1>1, SMT
  <1>3. BigEndian(v)[1] = v \div 256 /\ BigEndian(v)[2] = v % 256
    BY SMT DEF BigEndian
  <1> QED
    BY <1>2, <1>3, ByteRange, SMT

\* A function code and two numbers.
LEMMA TwoNumbers ==
  ASSUME NEW fc \in Byte, NEW v1 \in Uint16, NEW v2 \in Uint16,
         NEW s, s = writeSimple2U16(fc, v1, v2)
  PROVE  /\ s \in Seq(Byte) /\ Len(s) = 5 /\ s[1] = fc
         /\ Uint16At(s, 2) = v1 /\ Uint16At(s, 4) = v2
  <1> DEFINE a == BigEndian(v1)[1]
             b == BigEndian(v1)[2]
             c == BigEndian(v2)[1]
             d == BigEndian(v2)[2]
  <1>1. /\ a \in Byte /\ b \in Byte /\ 256 * a + b = v1
        /\ c \in Byte /\ d \in Byte /\ 256 * c + d = v2
    <2>1. a \in Byte /\ b \in Byte /\ 256 * a + b = v1
      BY TwoBytes, Zenon
    <2>2. c \in Byte /\ d \in Byte /\ 256 * c + d = v2
      BY TwoBytes, Zenon
    <2> QED
      BY <2>1, <2>2, Zenon
  <1>2. BigEndian(v1) = <<a, b>> /\ BigEndian(v2) = <<c, d>>
    BY SMT DEF BigEndian
  <1> HIDE DEF a, b, c, d
  <1>3. s = <<fc>> \o <<a, b>> \o <<c, d>>
    BY <1>2 DEF writeSimple2U16
  <1> DEFINE u == <<fc>> \o <<a, b>>
  <1>4. u \in Seq(Byte) /\ Len(u) = 3 /\ u[1] = fc /\ u[2] = a /\ u[3] = b
    BY <1>1
  <1> HIDE DEF u
  <1>5. s \in Seq(Byte) /\ Len(s) = 5
    BY <1>1, <1>3, <1>4 DEF u
  <1>6. s[1] = fc /\ s[2] = a /\ s[3] = b /\ s[4] = c /\ s[5] = d
    BY <1>1, <1>3, <1>4 DEF u
  <1> QED
    BY <1>1, <1>5, <1>6 DEF Uint16At

\* The bytes of registers, two for each.
LEMMA BytesOf ==
  ASSUME NEW regs \in Seq(Uint16), NEW s, s = Bytes(regs)
  PROVE  /\ s \in Seq(Byte) /\ Len(s) = 2 * Len(regs)
         /\ \A k \in 1 .. Len(regs) : 256 * s[2 * k - 1] + s[2 * k] = regs[k]
  <1> DEFINE n == Len(regs)
             e(j) == BigEndian(regs[(j + 1) \div 2])[2 - (j % 2)]
  <1>1. n \in Nat
    OBVIOUS
  <1>2. s = [j \in 1 .. 2 * n |-> e(j)]
    BY DEF Bytes
  <1>3. \A k \in 1 .. n : regs[k] \in Uint16
    OBVIOUS
  <1>4. ASSUME NEW j \in 1 .. 2 * n PROVE e(j) \in Byte
    <2>1. (j + 1) \div 2 \in 1 .. n /\ (2 - (j % 2) = 1 \/ 2 - (j % 2) = 2)
      <3> HIDE DEF n, e
      <3> QED
        BY <1>1, SMT
    <2>2. regs[(j + 1) \div 2] \in Uint16
      BY <1>3, <2>1
    <2>3. BigEndian(regs[(j + 1) \div 2])[1] \in Byte /\ BigEndian(regs[(j + 1) \div 2])[2] \in Byte
      BY <2>2, TwoBytes, Zenon
    <2> QED
      BY <2>1, <2>3, Zenon
  <1>5. ASSUME NEW k \in 1 .. n
        PROVE  256 * e(2 * k - 1) + e(2 * k) = regs[k] /\ 2 * k - 1 \in 1 .. 2 * n /\ 2 * k \in 1 .. 2 * n
    <2>1. /\ ((2 * k - 1) + 1) \div 2 = k /\ (2 * k + 1) \div 2 = k
          /\ 2 - ((2 * k - 1) % 2) = 1 /\ 2 - ((2 * k) % 2) = 2
          /\ 2 * k - 1 \in 1 .. 2 * n /\ 2 * k \in 1 .. 2 * n
      <3> HIDE DEF n, e
      <3> QED
        BY <1>1, SMT
    <2>2. e(2 * k - 1) = BigEndian(regs[k])[1] /\ e(2 * k) = BigEndian(regs[k])[2]
      BY <2>1, Zenon
    <2>3. 256 * BigEndian(regs[k])[1] + BigEndian(regs[k])[2] = regs[k]
      BY <1>3, TwoBytes, Zenon
    <2> QED
      BY <2>1, <2>2, <2>3, Zenon
  <1> HIDE DEF e
  <1>6. s \in [1 .. 2 * n -> Byte]
    BY <1>2, <1>4, Zenon
  <1>7. s \in Seq(Byte) /\ Len(s) = 2 * n
    <2> HIDE DEF n
    <2>1. 2 * n \in Nat
      BY <1>1, SMT
    <2> QED
      BY <1>6, <2>1, SMT
  <1>8. ASSUME NEW k \in 1 .. n PROVE 256 * s[2 * k - 1] + s[2 * k] = regs[k]
    <2>1. s[2 * k - 1] = e(2 * k - 1) /\ s[2 * k] = e(2 * k)
      <3>1. 2 * k - 1 \in 1 .. 2 * n /\ 2 * k \in 1 .. 2 * n
        BY <1>5
      <3> QED
        BY <1>2, <3>1, Zenon
    <2> QED
      BY <1>5, <2>1, ZenonT(40)
  <1> QED
    BY <1>7, <1>8

--------------------------------------------------------------------------------
(***************************************************************************)
(* Requests.                                                               *)
(***************************************************************************)
LEMMA CallFacts ==
  ASSUME NEW c \in Calls
  PROVE  /\ c.fc \in RegisterFCs /\ c.fc \in Byte /\ c.dev \in Byte
         /\ c.addr \in Uint16 /\ c.regs \in Seq(Uint16) /\ Len(c.regs) \in Nat
         /\ c.regs \in Seq(Word)
  <1>1. c \in [fc : RegisterFCs, dev : Byte, addr : Uint16, regs : Seq(Word)]
    BY LinkAssumption, Zenon
  <1>2. c.fc \in RegisterFCs /\ c.dev \in Byte /\ c.addr \in Uint16 /\ c.regs \in Seq(Word)
    BY <1>1, Zenon
  <1>3. c.regs \in Seq(Uint16) /\ Len(c.regs) \in Nat
    BY <1>2, LinkAssumption
  <1>4. c.fc \in Byte
    BY <1>2, ByteRange
       DEF RegisterFCs, FCReadHoldingRegisters, FCReadInputRegisters, FCWriteMultipleRegisters
  <1> QED
    BY <1>2, <1>3, <1>4

IsRead(r, c) ==
  /\ Quantity(c) \in Uint16 /\ Quantity(c) \in Nat
  /\ Quantity(c) >= 1 /\ Quantity(c) <= 125
  /\ r \in Seq(Byte) /\ Len(r) = 5 /\ r[1] = c.fc
  /\ Uint16At(r, 2) = c.addr /\ Uint16At(r, 4) = Quantity(c)

LEMMA ReadRequest ==
  ASSUME NEW c \in Calls, c.fc # FCWriteMultipleRegisters, RequestOf(c) # <<>>
  PROVE  IsRead(RequestOf(c), c)
  <1> DEFINE r == RequestOf(c)
             q == Quantity(c)
  <1>1. r = RequestRead(c.fc, c.addr, q)
    BY DEF RequestOf, Quantity
  <1>2. q \in Nat /\ q < 65536
    <2> DEFINE n == Len(c.regs)
    <2>1. n \in Nat
      BY CallFacts
    <2> QED
      BY <2>1, Wraps DEF Quantity
  <1>r. r # <<>>
    OBVIOUS
  <1> HIDE DEF q, r
  <1>3. q >= 1 /\ q <= 125 /\ r = writeSimple2U16(c.fc, c.addr, q)
    BY <1>1, <1>2, <1>r DEF RequestRead
  <1>4. q \in Uint16
    BY <1>2, Wraps
  <1>5. c.fc \in Byte /\ c.addr \in Uint16
    BY CallFacts
  <1>6. /\ r \in Seq(Byte) /\ Len(r) = 5 /\ r[1] = c.fc
        /\ Uint16At(r, 2) = c.addr /\ Uint16At(r, 4) = q
    BY <1>3, <1>4, <1>5, TwoNumbers
  <1> QED
    BY <1>2, <1>3, <1>4, <1>6 DEF q, r, IsRead

\* One byte more.
LEMMA ByteMore ==
  ASSUME NEW s \in Seq(Byte), NEW x \in Byte
  PROVE  /\ s \o <<x>> \in Seq(Byte) /\ Len(s \o <<x>>) = Len(s) + 1
         /\ \A j \in 1 .. Len(s) : (s \o <<x>>)[j] = s[j]
         /\ (s \o <<x>>)[Len(s) + 1] = x
  OBVIOUS

\* Five bytes, a byte count and what it counts.
LEMMA Counting ==
  ASSUME NEW s \in Seq(Byte), Len(s) = 5, NEW x \in Byte, NEW b \in Seq(Byte)
  PROVE  /\ (s \o <<x>>) \o b \in Seq(Byte) /\ Len((s \o <<x>>) \o b) = 6 + Len(b)
         /\ \A j \in 1 .. Len(s) : ((s \o <<x>>) \o b)[j] = s[j]
         /\ ((s \o <<x>>) \o b)[6] = x
         /\ \A j \in 1 .. Len(b) : ((s \o <<x>>) \o b)[6 + j] = b[j]
  <1> DEFINE t == s \o <<x>>
             r == t \o b
  <1>1. /\ t \in Seq(Byte) /\ Len(t) = Len(s) + 1 /\ t[Len(s) + 1] = x
        /\ \A j \in 1 .. Len(s) : t[j] = s[j]
    BY ByteMore, Zenon
  <1> HIDE DEF t
  <1>2. /\ r \in Seq(Byte) /\ Len(r) = Len(t) + Len(b)
        /\ \A j \in 1 .. Len(t) : r[j] = t[j]
        /\ \A j \in 1 .. Len(b) : r[Len(t) + j] = b[j]
    BY <1>1, Concat, Zenon
  <1> HIDE DEF r
  <1>3. Len(t) = 6
    BY <1>1
  <1>4. r[6] = x /\ \A j \in 1 .. Len(s) : r[j] = s[j]
    BY <1>1, <1>2, <1>3, SMT
  <1>5. r \in Seq(Byte) /\ Len(r) = 6 + Len(b) /\ \A j \in 1 .. Len(b) : r[6 + j] = b[j]
    BY <1>2, <1>3, Zenon
  <1> QED
    BY <1>4, <1>5 DEF r, t

IsWrite(r, c) ==
  /\ Len(c.regs) \in Uint16 /\ Len(c.regs) \in Nat /\ Quantity(c) = Len(c.regs)
  /\ Len(c.regs) >= 1 /\ Len(c.regs) <= 123
  /\ r \in Seq(Byte) /\ Len(r) = 6 + 2 * Len(c.regs) /\ r[1] = c.fc
  /\ Uint16At(r, 2) = c.addr /\ Uint16At(r, 4) = Len(c.regs) /\ r[6] = 2 * Len(c.regs)
  /\ \A j \in 1 .. 2 * Len(c.regs) : r[6 + j] = Bytes(c.regs)[j]

LEMMA WriteRequest ==
  ASSUME NEW c \in Calls, c.fc = FCWriteMultipleRegisters, RequestOf(c) # <<>>
  PROVE  IsWrite(RequestOf(c), c)
  <1> DEFINE r == RequestOf(c)
             n == Len(c.regs)
             s == writeSimple2U16(c.fc, c.addr, n)
             b == Bytes(c.regs)
  <1>1. r = RequestWriteMultipleRegisters(c.addr, c.regs)
    BY DEF RequestOf
  <1>2. n \in Nat /\ n >= 1 /\ n <= 123
    <2>1. n \in 1 .. 123
      BY <1>1, Zenon DEF RequestWriteMultipleRegisters
    <2> HIDE DEF n
    <2>2. n \in Nat /\ n >= 1 /\ n <= 123
      BY <2>1, SMT
    <2> QED
      BY <2>2
  <1>3. r = s \o <<2 * n>> \o b
    BY <1>1, <1>2 DEF RequestWriteMultipleRegisters, Bytes
  <1>4. n \in Uint16 /\ Quantity(c) = n
    <2> HIDE DEF n
    <2>1. n \in Uint16 /\ U16(n) = n
      BY <1>2, Wraps, SMT
    <2> QED
      BY <2>1, Zenon DEF Quantity, n
  <1>5. c.fc \in Byte /\ c.addr \in Uint16 /\ c.regs \in Seq(Uint16)
    BY CallFacts
  <1>6. b \in Seq(Byte) /\ Len(b) = 2 * n
    BY <1>5, BytesOf
  <1>7. s \in Seq(Byte) /\ Len(s) = 5 /\ s[1] = c.fc /\ Uint16At(s, 2) = c.addr /\ Uint16At(s, 4) = n
    BY <1>4, <1>5, TwoNumbers
  <1>8. 2 * n \in Byte
    <2> HIDE DEF n
    <2>1. 2 * n \in Nat /\ 2 * n <= 255
      BY <1>2, SMT
    <2> QED
      BY <2>1, ByteRange
  <1> HIDE DEF n, s, b, r
  <1>9. /\ r \in Seq(Byte) /\ Len(r) = 6 + Len(b)
        /\ \A j \in 1 .. Len(s) : r[j] = s[j]
        /\ r[6] = 2 * n /\ \A j \in 1 .. Len(b) : r[6 + j] = b[j]
    <2>1. s \in Seq(Byte) /\ Len(s) = 5 /\ b \in Seq(Byte)
      BY <1>6, <1>7
    <2> DEFINE x == 2 * n
               w == (s \o <<x>>) \o b
    <2>2. x \in Byte
      BY <1>8
    <2> HIDE DEF x
    <2>3. /\ w \in Seq(Byte) /\ Len(w) = 6 + Len(b) /\ \A j \in 1 .. Len(s) : w[j] = s[j]
          /\ w[6] = x /\ \A j \in 1 .. Len(b) : w[6 + j] = b[j]
      BY <2>1, <2>2, Counting, SMT
    <2>4. r = w
      BY <1>3 DEF x
    <2> HIDE DEF w
    <2> QED
      BY <2>3, <2>4, Zenon DEF x
  <1>10. r[1] = c.fc /\ Uint16At(r, 2) = c.addr /\ Uint16At(r, 4) = n
    <2>1. r[1] = s[1] /\ r[2] = s[2] /\ r[3] = s[3] /\ r[4] = s[4] /\ r[5] = s[5]
      BY <1>7, <1>9, SMT
    <2> QED
      BY <1>7, <2>1 DEF Uint16At
  <1> QED
    BY <1>2, <1>4, <1>6, <1>9, <1>10 DEF n, b, r, IsWrite

\* How TryRx finds its way through a request: two bytes tell a read from a
\* write, and the length of a read; eight tell that of a write.
ServerFramed(p) ==
  /\ p \in Seq(Byte) /\ Len(p) \in Nat /\ Len(p) >= 8 /\ Len(p) <= 256
  /\ Len(p) = 8 => \A k \in Nat : 2 <= k /\ k < 8 => S!Infer(SubSeq(p, 1, k)) = Inferred(5, "nil")
  /\ Len(p) > 8 => /\ S!Infer(SubSeq(p, 1, 2)) = Inferred(5, "missing")
                   /\ S!Infer(SubSeq(p, 1, 8)) = Inferred(Len(p) - 3, "nil")

\* The inference sees all of what is buffered but its first byte.
LEMMA TailOf ==
  ASSUME NEW p \in Seq(Byte), NEW k \in Nat, k >= 1, k <= Len(p)
  PROVE  /\ Tail(SubSeq(p, 1, k)) \in Seq(Byte) /\ Len(Tail(SubSeq(p, 1, k))) = k - 1
         /\ \A j \in 1 .. k - 1 : Tail(SubSeq(p, 1, k))[j] = p[j + 1]
  <1> DEFINE b == SubSeq(p, 1, k)
  <1>1. b \in Seq(Byte) /\ Len(b) = k /\ \A j \in 1 .. k : b[j] = p[j]
    OBVIOUS
  <1> HIDE DEF b
  <1>2. b # <<>>
    BY <1>1
  <1>3. Tail(b) \in Seq(Byte) /\ Len(Tail(b)) = k - 1 /\ \A j \in 1 .. k - 1 : Tail(b)[j] = b[j + 1]
    BY <1>1, <1>2
  <1> QED
    BY <1>1, <1>3 DEF b

LEMMA ServerInfers == \A b : S!Infer(b) = InferRequestPacketLength(Tail(b))
BY DEF S!Infer, S!InferRequestPacketLength, InferRequestPacketLength, S!Inferred, Inferred,
       S!ReadFCs, ReadFCs, S!WriteSingleFCs, WriteSingleFCs, S!WriteMultipleFCs, WriteMultipleFCs,
       S!UnimplementedAccess, UnimplementedAccess,
       S!FCReadCoils, FCReadCoils, S!FCReadDiscreteInputs, FCReadDiscreteInputs,
       S!FCReadHoldingRegisters, FCReadHoldingRegisters, S!FCReadInputRegisters, FCReadInputRegisters,
       S!FCWriteSingleCoil, FCWriteSingleCoil, S!FCWriteSingleRegister, FCWriteSingleRegister,
       S!FCWriteMultipleCoils, FCWriteMultipleCoils,
       S!FCWriteMultipleRegisters, FCWriteMultipleRegisters,
       S!FCReadFileRecord, FCReadFileRecord, S!FCReadFIFOQueue, FCReadFIFOQueue,
       S!FCReadExceptionStatus, FCReadExceptionStatus, S!FCDiagnostic, FCDiagnostic,
       S!FCGetComEventCounter, FCGetComEventCounter, S!FCGetComEventLog, FCGetComEventLog,
       S!FCReportServerID, FCReportServerID,
       S!FCReadDeviceIdentification, FCReadDeviceIdentification

LEMMA ClientInfers == \A b : C!Infer(b) = InferResponsePacketLength(Tail(b))
BY DEF C!Infer, C!InferResponsePacketLength, InferResponsePacketLength, C!Inferred, Inferred,
       C!Counted, Counted,
       C!ReadFCs, ReadFCs, C!WriteSingleFCs, WriteSingleFCs, C!WriteMultipleFCs, WriteMultipleFCs,
       C!FCReadCoils, FCReadCoils, C!FCReadDiscreteInputs, FCReadDiscreteInputs,
       C!FCReadHoldingRegisters, FCReadHoldingRegisters, C!FCReadInputRegisters, FCReadInputRegisters,
       C!FCWriteSingleCoil, FCWriteSingleCoil, C!FCWriteSingleRegister, FCWriteSingleRegister,
       C!FCWriteMultipleCoils, FCWriteMultipleCoils,
       C!FCWriteMultipleRegisters, FCWriteMultipleRegisters,
       C!FCReadExceptionStatus, FCReadExceptionStatus, C!FCDiagnostic, FCDiagnostic,
       C!FCGetComEventCounter, FCGetComEventCounter, C!FCGetComEventLog, FCGetComEventLog

\* What is inferred from the requests of a Client.
LEMMA RequestInferred ==
  ASSUME NEW b, Len(b) \in Nat, Len(b) >= 1, b[1] \in RegisterFCs
  PROVE  InferRequestPacketLength(b) =
           IF b[1] # FCWriteMultipleRegisters THEN Inferred(5, "nil")
           ELSE IF Len(b) < 6 THEN Inferred(6 - Len(b), "missing") ELSE Inferred(b[6] + 6, "nil")
  <1> DEFINE Five    == ReadFCs \cup WriteSingleFCs
             One     == {FCReadExceptionStatus, FCGetComEventCounter, FCGetComEventLog, FCReportServerID}
             Refused == UnimplementedAccess \cup {FCDiagnostic, FCReadDeviceIdentification}
  <1>1. InferRequestPacketLength(b) =
          CASE b[1] \in Five             -> Inferred(5, "nil")
            [] b[1] \in One              -> Inferred(1, "nil")
            [] b[1] \in WriteMultipleFCs ->
                 IF Len(b) < 6 THEN Inferred(6 - Len(b), "missing") ELSE Inferred(b[6] + 6, "nil")
            [] b[1] \in Refused          -> Inferred(0, "exception")
            [] OTHER                     -> Inferred(0, "badfc")
    BY DEF InferRequestPacketLength
  <1>2. /\ b[1] \notin One /\ b[1] \notin Refused
        /\ (b[1] \in Five) = (b[1] # FCWriteMultipleRegisters)
        /\ (b[1] \in WriteMultipleFCs) = (b[1] = FCWriteMultipleRegisters)
    BY DEF RegisterFCs, ReadFCs, WriteSingleFCs, WriteMultipleFCs, UnimplementedAccess, FCReadCoils,
           FCReadDiscreteInputs, FCReadHoldingRegisters, FCReadInputRegisters, FCWriteSingleCoil,
           FCWriteSingleRegister, FCWriteMultipleCoils, FCWriteMultipleRegisters, FCReadFileRecord,
           FCReadFIFOQueue, FCReadExceptionStatus, FCDiagnostic, FCGetComEventCounter,
           FCGetComEventLog, FCReportServerID, FCReadDeviceIdentification
  <1> HIDE DEF Five, One, Refused
  <1> QED
    BY <1>1, <1>2

LEMMA RequestFramed ==
  ASSUME NEW p \in Seq(Byte), Len(p) >= 8, NEW n \in Nat, n >= 8, n <= 256, p[2] \in RegisterFCs,
         p[2] # FCWriteMultipleRegisters => n = 8,
         p[2] = FCWriteMultipleRegisters => n > 8 /\ p[7] = n - 9
  PROVE  n = Len(p) => ServerFramed(p)
  <1> DEFINE t == Tail(SubSeq(p, 1, 2))
             u == Tail(SubSeq(p, 1, 8))
             k == Len(t)
             m == Len(u)
  <1>1. k = 1 /\ t[1] = p[2]
    <2>1. /\ t \in Seq(Byte) /\ Len(t) = 2 - 1
          /\ \A j \in 1 .. 2 - 1 : t[j] = p[j + 1]
      BY TailOf
    <2> HIDE DEF t
    <2> QED
      BY <2>1
  <1>2. m = 7 /\ u[1] = p[2] /\ u[6] = p[7]
    <2>1. /\ u \in Seq(Byte) /\ Len(u) = 8 - 1
          /\ \A j \in 1 .. 8 - 1 : u[j] = p[j + 1]
      BY TailOf
    <2> HIDE DEF u
    <2> QED
      BY <2>1
  <1>3. S!Infer(SubSeq(p, 1, 2)) = InferRequestPacketLength(t)
        /\ S!Infer(SubSeq(p, 1, 8)) = InferRequestPacketLength(u)
    BY ServerInfers
  <1> HIDE DEF t, u
  <1>4. /\ InferRequestPacketLength(t) =
             IF t[1] # FCWriteMultipleRegisters THEN Inferred(5, "nil")
             ELSE IF k < 6 THEN Inferred(6 - k, "missing") ELSE Inferred(t[6] + 6, "nil")
        /\ InferRequestPacketLength(u) =
             IF u[1] # FCWriteMultipleRegisters THEN Inferred(5, "nil")
             ELSE IF m < 6 THEN Inferred(6 - m, "missing") ELSE Inferred(u[6] + 6, "nil")
    <2>1. k \in Nat /\ k >= 1 /\ m \in Nat /\ m >= 1
      <3> HIDE DEF k, m
      <3> QED
        BY <1>1, <1>2
    <2> QED
      BY <1>1, <1>2, <2>1, RequestInferred, Zenon
  <1> HIDE DEF k, m
  <1>5. k < 6 /\ 6 - k = 5 /\ ~(m < 6) /\ (n > 8 => n # 8)
    BY <1>1, <1>2
  <1>6. CASE p[2] # FCWriteMultipleRegisters
    <2>1. n = 8 /\ ~(n > 8)
      BY <1>6
    <2>2. ASSUME NEW i \in Nat, 2 <= i, i < 8
          PROVE  S!Infer(SubSeq(p, 1, i)) = Inferred(5, "nil")
      <3> DEFINE v == Tail(SubSeq(p, 1, i))
      <3>1. v \in Seq(Byte) /\ Len(v) = i - 1 /\ \A j \in 1 .. i - 1 : v[j] = p[j + 1]
        <4>1. i >= 1 /\ i <= Len(p)
          BY <2>2
        <4> QED
          BY <4>1, TailOf
      <3>2. S!Infer(SubSeq(p, 1, i)) = InferRequestPacketLength(v)
        BY ServerInfers
      <3> HIDE DEF v
      <3>3. Len(v) \in Nat /\ Len(v) >= 1 /\ v[1] = p[2]
        BY <2>2, <3>1
      <3> QED
        BY <1>6, <3>2, <3>3, RequestInferred, Zenon
    <2> QED
      BY <2>1, <2>2, ZenonT(40) DEF ServerFramed
  <1>7. CASE p[2] = FCWriteMultipleRegisters
    <2>1. n > 8 /\ n # 8 /\ p[7] + 6 = n - 3
      BY <1>7
    <2>2. InferRequestPacketLength(t) = Inferred(5, "missing")
      BY <1>1, <1>4, <1>5, <1>7
    <2>3. InferRequestPacketLength(u) = Inferred(n - 3, "nil")
      BY <1>2, <1>4, <1>5, <1>7, <2>1
    <2> QED
      BY <1>3, <2>1, <2>2, <2>3, Zenon DEF ServerFramed
  <1> QED
    BY <1>6, <1>7

LEMMA ServerFraming ==
  ASSUME CrcIsUint16, NEW c \in Calls, RequestOf(c) # <<>>
  PROVE  /\ ServerFramed(Packet(c.dev, RequestOf(c)))
         /\ RequestOf(c) \in Seq(Byte) /\ c.dev \in Byte
  <1> DEFINE r == RequestOf(c)
             p == Packet(c.dev, r)
  <1>1. c.dev \in Byte /\ c.fc \in RegisterFCs /\ Len(c.regs) \in Nat
    BY CallFacts
  <1>2. CASE c.fc # FCWriteMultipleRegisters
    <2>1. r \in Seq(Byte) /\ Len(r) = 5 /\ r[1] = c.fc
      BY <1>2, ReadRequest DEF IsRead
    <2> HIDE DEF r
    <2>p. IsPacket(p, c.dev, r)
      BY <1>1, <2>1, PacketBytes, Zenon
    <2>2. p \in Seq(Byte) /\ Len(p) = Len(r) + 3 /\ \A j \in 1 .. Len(r) : p[j + 1] = r[j]
      BY <2>p DEF IsPacket
    <2> HIDE DEF p
    <2> DEFINE m == Len(p)
    <2>3. m \in Nat /\ m = 8 /\ p[2] = c.fc
      BY <2>1, <2>2
    <2>m. m = Len(p)
      OBVIOUS
    <2> HIDE DEF m
    <2>4. ServerFramed(p)
      <3>1. m >= 8 /\ m <= 256
        BY <2>3
      <3> QED
        BY <1>1, <1>2, <2>2, <2>3, <2>m, <3>1, RequestFramed
    <2> QED
      BY <1>1, <2>1, <2>4 DEF p, r
  <1>3. CASE c.fc = FCWriteMultipleRegisters
    <2> DEFINE n == Len(c.regs)
    <2>1. r \in Seq(Byte) /\ Len(r) = 6 + 2 * n /\ r[1] = c.fc /\ r[6] = 2 * n /\ n >= 1 /\ n <= 123
      BY <1>3, WriteRequest DEF IsWrite
    <2> HIDE DEF r
    <2>p. IsPacket(p, c.dev, r)
      BY <1>1, <2>1, PacketBytes, Zenon
    <2>2. p \in Seq(Byte) /\ Len(p) = Len(r) + 3 /\ \A j \in 1 .. Len(r) : p[j + 1] = r[j]
      BY <2>p DEF IsPacket
    <2> HIDE DEF p
    <2>3. n \in Nat
      BY <1>1
    <2> HIDE DEF n
    <2> DEFINE m == Len(p)
    <2>4. m \in Nat /\ m > 8 /\ m >= 8 /\ m <= 256 /\ p[2] = c.fc /\ p[7] = m - 9
      BY <2>1, <2>2, <2>3
    <2>m. m = Len(p)
      OBVIOUS
    <2> HIDE DEF m
    <2>5. ServerFramed(p)
      BY <1>1, <1>3, <2>2, <2>4, <2>m, RequestFramed
    <2> QED
      BY <1>1, <2>1, <2>5 DEF p, r
  <1> QED
    BY <1>2, <1>3

--------------------------------------------------------------------------------
(***************************************************************************)
(* The server answers.                                                     *)
(***************************************************************************)

\* A walk that wraps around meets the last address there is, which no bank has.
LEMMA WholeRange ==
  ASSUME NEW addr \in Uint16, NEW q \in Nat, \A k \in 0 .. q - 1 : U16(addr + k) \in 0 .. RegSize - 1
  PROVE  \A k \in 0 .. q - 1 : addr + k \in 0 .. RegSize - 1 /\ U16(addr + k) = addr + k
  <1>1. addr \in Nat /\ addr < 65536 /\ RegSize \in Nat /\ RegSize < 65536
    BY SizeAssumption, Wraps, SMT
  <1>2. ASSUME NEW k \in 0 .. q - 1 PROVE addr + k < 65536
    <2>1. SUFFICES ASSUME addr + k >= 65536 PROVE FALSE
      BY <1>1, SMT
    <2> DEFINE j == 65535 - addr
    <2>2. j \in 0 .. q - 1 /\ addr + j = 65535
      BY <1>1, <2>1, SMT
    <2> HIDE DEF j
    <2>3. U16(addr + j) \in 0 .. RegSize - 1
      BY <2>2, SMT
    <2>4. U16(addr + j) = 65535
      BY <2>2, SMT DEF U16
    <2> QED
      BY <1>1, <2>3, <2>4, SMT
  <1>3. ASSUME NEW k \in 0 .. q - 1
        PROVE  addr + k \in 0 .. RegSize - 1 /\ U16(addr + k) = addr + k
    <2>1. addr + k \in Nat /\ addr + k < 65536
      BY <1>1, <1>2, SMT
    <2>2. U16(addr + k) = addr + k
      BY <2>1, Wraps, SMT
    <2> QED
      BY <2>2, SMT
  <1> QED
    BY <1>3, SMT

IsOperation(o, kind, t, addr, q) ==
  /\ o.kind = kind /\ o.check = TRUE /\ o.table = t /\ o.start = addr /\ o.qty = q /\ o.odd = 0

\* Such an operation is not refused.
Granted(o, t, addr, q) ==
  /\ Outcome(o) = ExceptionNone /\ Reached(o) = 0 .. q - 1
  /\ \A k \in 0 .. q - 1 : addr + k \in 0 .. RegSize - 1 /\ CellOf(o, k) = <<t, addr + k>>

\* A request for registers is refused, or walks over its whole range.
LEMMA Walk ==
  ASSUME NEW o, NEW kind \in {"read", "write"}, NEW t \in RegTables, NEW addr \in Uint16,
         NEW q \in Nat, IsOperation(o, kind, t, addr, q)
  PROVE  /\ Reached(o) \subseteq 0 .. q - 1
         /\ Outcome(o) \in 2 .. 3 \/ Granted(o, t, addr, q)
  <1>0. /\ o.kind = kind /\ o.check = TRUE /\ o.table = t /\ o.start = addr /\ o.qty = q
        /\ Total(o) = q
    BY DEF IsOperation, Total
  <1>1. Reached(o) \subseteq 0 .. q - 1
    BY <1>0 DEF Reached
  <1>2. Check(o) = ExceptionNone \/ Check(o) = 2 \/ Check(o) = 3
    BY <1>0 DEF Check, CheckRead, CheckWrite, ExceptionNone, ExceptionIllegalDataAddr,
                ExceptionIllegalDataValue
  <1>3. CASE Check(o) # ExceptionNone
    <2>1. Outcome(o) = 2 \/ Outcome(o) = 3
      BY <1>2, <1>3, Zenon DEF Outcome
    <2> QED
      BY <1>1, <2>1
  <1>4. CASE Check(o) = ExceptionNone /\ ~\A k \in 0 .. q - 1 : k \in Reached(o)
    <2>1. Outcome(o) = 2
      BY <1>0, <1>4, Zenon DEF Outcome, ExceptionIllegalDataAddr
    <2> QED
      BY <1>1, <2>1
  <1>5. CASE Check(o) = ExceptionNone /\ \A k \in 0 .. q - 1 : k \in Reached(o)
    <2>1. Outcome(o) = ExceptionNone /\ Reached(o) = 0 .. q - 1
      BY <1>0, <1>1, <1>5, Zenon DEF Outcome
    <2>2. Size(t) = RegSize
      BY DEF Size, RegTables, BitTables
    <2>3. ASSUME NEW k \in 0 .. q - 1 PROVE U16(addr + k) \in 0 .. RegSize - 1
      <3>1. k \in 0 .. k
        OBVIOUS
      <3>2. InRange(o, k)
        BY <1>5, <3>1, Zenon DEF Reached
      <3> QED
        BY <1>0, <2>2, <3>2, Zenon DEF InRange, Addr
    <2>4. \A k \in 0 .. q - 1 : addr + k \in 0 .. RegSize - 1 /\ U16(addr + k) = addr + k
      BY <2>3, WholeRange
    <2>5. \A k \in 0 .. q - 1 : CellOf(o, k) = <<t, addr + k>>
      BY <1>0, <2>4, Zenon DEF CellOf, Addr
    <2> QED
      BY <1>1, <2>1, <2>4, <2>5, Zenon DEF Granted
  <1> QED
    BY <1>3, <1>4, <1>5, Zenon

\* Such a range is in the bank.
LEMMA InTheBank ==
  ASSUME NEW t \in RegTables, NEW x \in 0 .. RegSize - 1
  PROVE  <<t, x>> \in Cell
  <1>1. t \in Table /\ Size(t) = RegSize
    BY DEF Size, RegTables, BitTables, Table
  <1>2. <<t, x>> \in {t} \X (0 .. Size(t) - 1)
    BY <1>1
  <1> QED
    BY <1>1, <1>2, Zenon DEF Cell

\* A read leaves the bank alone.
LEMMA ReadEffect ==
  ASSUME NEW o, o.kind = "read", NEW ks, NEW m \in [Cell -> Word]
  PROVE  Effect(o, ks, m) = m
  <1>1. Effect(o, ks, m) = [c \in Cell |-> m[c]]
    BY DEF Effect
  <1> QED
    BY <1>1, Zenon

\* Elements ks of regs are in bank w.
HasStored(w, t, addr, regs, ks) ==
  /\ w \in [Cell -> Word]
  /\ \A k \in ks : <<t, addr + k>> \in Cell => w[<<t, addr + k>>] = regs[k + 1]

\* A write stores the registers it was given.
LEMMA WriteEffect ==
  ASSUME NEW o, NEW t, NEW addr \in Uint16, NEW regs \in Seq(Word),
         IsOperation(o, "write", t, addr, Len(regs)), o.data = regs,
         NEW ks, ks \subseteq 0 .. Len(regs) - 1, NEW m \in [Cell -> Word]
  PROVE  HasStored(Effect(o, ks, m), t, addr, regs, ks)
  <1> DEFINE n == Len(regs)
             w(c) == IF c[1] = t /\ c[2] - addr \in ks THEN Stored(o, c[2] - addr, m[c]) ELSE m[c]
  <1>1. n \in Nat /\ addr \in Nat
    BY Wraps, SMT
  <1>2. \A k \in ks : \A x : Stored(o, k, x) = regs[k + 1] /\ regs[k + 1] \in Word
    <2> SUFFICES ASSUME NEW k \in ks, NEW x
                 PROVE  Stored(o, k, x) = regs[k + 1] /\ regs[k + 1] \in Word
      BY Zenon
    <2>1. k # n /\ k + 1 \in 1 .. n
      <3> HIDE DEF n
      <3>1. k \in 0 .. n - 1
        BY Zenon DEF n
      <3> QED
        BY <1>1, <3>1, SMT
    <2>2. regs[k + 1] \in Word
      BY <2>1
    <2> QED
      BY <2>1, <2>2, Zenon DEF Stored, IsOperation
  <1>3. Effect(o, ks, m) = [c \in Cell |-> w(c)]
    BY Zenon DEF Effect, IsOperation
  <1>4. \A c \in Cell : w(c) \in Word
    BY <1>2, Zenon
  <1>5. ASSUME NEW k \in ks, <<t, addr + k>> \in Cell
        PROVE  w(<<t, addr + k>>) = regs[k + 1]
    <2>1. (addr + k) - addr = k
      <3> HIDE DEF n
      <3>1. k \in 0 .. n - 1
        BY Zenon DEF n
      <3> QED
        BY <1>1, <3>1, SMT
    <2>2. <<t, addr + k>>[1] = t /\ <<t, addr + k>>[2] = addr + k
      BY Zenon
    <2> QED
      BY <1>2, <2>1, <2>2, Zenon
  <1> HIDE DEF w
  <1> QED
    BY <1>3, <1>4, <1>5, Zenon DEF HasStored

\* The server decodes what the client has encoded.
LEMMA DecodeRead ==
  ASSUME NEW c \in Calls, c.fc # FCWriteMultipleRegisters, RequestOf(c) # <<>>
  PROVE  DecodeRequest(RequestOf(c)) = Decoded("nil", c.fc, c.addr, Quantity(c), 0, 0)
  <1> DEFINE r == RequestOf(c)
             n == Len(r)
  <1>1. n = 5 /\ r[1] = c.fc /\ Uint16At(r, 2) = c.addr /\ Uint16At(r, 4) = Quantity(c)
    BY ReadRequest, Zenon DEF IsRead
  <1>2. c.fc \in ReadFCs \cup WriteSingleFCs
    BY CallFacts DEF RegisterFCs, ReadFCs, FCReadHoldingRegisters, FCReadInputRegisters,
                     FCReadCoils, FCReadDiscreteInputs
  <1>n. n = Len(r)
    OBVIOUS
  <1> HIDE DEF r, n
  <1>3. ~(n < 2) /\ ~(n < 5)
    BY <1>1
  <1>4. DecodeRequest(r) = Decoded("nil", r[1], Uint16At(r, 2), Uint16At(r, 4), 0, 0)
    BY <1>1, <1>2, <1>3, <1>n, Zenon DEF DecodeRequest
  <1> QED
    BY <1>1, <1>4, Zenon DEF r

LEMMA DecodeWrite ==
  ASSUME NEW c \in Calls, c.fc = FCWriteMultipleRegisters, RequestOf(c) # <<>>
  PROVE  DecodeRequest(RequestOf(c)) =
           Decoded("nil", c.fc, c.addr, Len(c.regs), 2 * Len(c.regs), 6)
  <1> DEFINE r == RequestOf(c)
             n == Len(r)
             q == Len(c.regs)
  <1>1. /\ n = 6 + 2 * q /\ r[1] = c.fc /\ Uint16At(r, 2) = c.addr /\ Uint16At(r, 4) = q
        /\ r[6] = 2 * q /\ q \in Nat /\ q >= 1
    BY WriteRequest, Zenon DEF IsWrite
  <1>2. c.fc \notin ReadFCs \cup WriteSingleFCs /\ c.fc \in WriteMultipleFCs
    BY DEF ReadFCs, WriteSingleFCs, WriteMultipleFCs, FCReadHoldingRegisters, FCReadInputRegisters,
           FCReadCoils, FCReadDiscreteInputs, FCWriteSingleCoil, FCWriteSingleRegister,
           FCWriteMultipleRegisters, FCWriteMultipleCoils
  <1>n. n = Len(r)
    OBVIOUS
  <1>q. q = Len(c.regs)
    OBVIOUS
  <1> HIDE DEF r, n, q
  <1>3. ~(n < 2) /\ ~(n < 7) /\ ~(n < 6 + r[6])
    BY <1>1
  <1>4. DecodeRequest(r) = Decoded("nil", r[1], Uint16At(r, 2), Uint16At(r, 4), r[6], 6)
    BY <1>1, <1>2, <1>3, <1>n, Zenon DEF DecodeRequest
  <1> QED
    BY <1>1, <1>4, <1>q, Zenon DEF r

\* The tables that the calls of a Client are about.
LEMMA RegisterTable ==
  ASSUME NEW fc \in RegisterFCs
  PROVE  TableOf(fc) \in RegTables /\ TableOf(fc) # "coils"
         /\ fc \in ReadFCs \cup WriteSingleFCs \cup WriteMultipleFCs /\ fc \notin WriteSingleFCs
         /\ fc # FCWriteMultipleCoils /\ (fc \in ReadFCs) = (fc # FCWriteMultipleRegisters)
         /\ (fc \in {FCReadHoldingRegisters, FCReadInputRegisters}) = (fc # FCWriteMultipleRegisters)
         /\ fc # FCWriteSingleCoil /\ fc \in Nat /\ fc <= 16
BY DEF RegisterFCs, TableOf, RegTables, ReadFCs, WriteSingleFCs, WriteMultipleFCs,
       FCReadHoldingRegisters, FCReadInputRegisters, FCReadCoils, FCReadDiscreteInputs,
       FCWriteSingleCoil, FCWriteSingleRegister, FCWriteMultipleRegisters, FCWriteMultipleCoils

\* The bytes of an answer are those of the registers.
LEMMA ReadBytes ==
  ASSUME NEW o, NEW t \in RegTables, NEW addr \in Uint16, NEW q \in Nat,
         IsOperation(o, "read", t, addr, q), Granted(o, t, addr, q),
         NEW m \in [Cell -> Word], NEW stale
  PROVE  /\ RegistersAt(m, t, addr, q) \in Seq(Uint16) /\ Len(RegistersAt(m, t, addr, q)) = q
         /\ ReadData(o, m, stale) = Bytes(RegistersAt(m, t, addr, q))
  <1> DEFINE regs == [k \in 1 .. q |-> m[<<t, addr + k - 1>>]]
             vals == Values(o, m)
             n == Len(regs)
  <1>1. addr \in Nat
    BY Wraps, SMT
  <1>2. ASSUME NEW k \in 1 .. q PROVE m[<<t, addr + k - 1>>] \in Uint16
    <2>1. k - 1 \in 0 .. q - 1 /\ addr + k - 1 = addr + (k - 1)
      BY <1>1
    <2>2. addr + k - 1 \in 0 .. RegSize - 1
      BY <2>1, Zenon DEF Granted
    <2> QED
      BY <2>2, InTheBank, LinkAssumption, Zenon
  <1>3. regs \in [1 .. q -> Uint16]
    BY <1>2, Zenon
  <1>4. regs \in Seq(Uint16) /\ n = q
    <2> HIDE DEF regs
    <2> QED
      BY <1>3
  <1>5. vals = [k \in 0 .. q - 1 |-> m[CellOf(o, k)]]
    BY Zenon DEF Values, IsOperation, Granted
  <1>6. ASSUME NEW j \in 1 .. 2 * q
        PROVE  vals[(j - 1) \div 2] = regs[(j + 1) \div 2]
    <2> DEFINE k == (j - 1) \div 2
               i == (j + 1) \div 2
    <2>1. k \in 0 .. q - 1 /\ i \in 1 .. q /\ i = k + 1 /\ addr + i - 1 = addr + k
      <3> HIDE DEF regs, vals
      <3> QED
        BY <1>1, SMT
    <2> HIDE DEF k, i
    <2>2. vals[k] = m[<<t, addr + k>>]
      BY <1>5, <2>1, Zenon DEF Granted
    <2>3. regs[i] = m[<<t, addr + k>>]
      BY <2>1, Zenon
    <2> QED
      BY <2>2, <2>3, Zenon DEF k, i
  <1>7. ReadData(o, m, stale) = [j \in 1 .. 2 * q |-> BigEndian(vals[(j - 1) \div 2])[2 - (j % 2)]]
    BY Zenon DEF ReadData, IsOperation
  <1>n. n = Len(regs)
    OBVIOUS
  <1> HIDE DEF vals, regs, n
  <1>8. Bytes(regs) = [j \in 1 .. 2 * q |-> BigEndian(regs[(j + 1) \div 2])[2 - (j % 2)]]
    BY <1>4, <1>n, Zenon DEF Bytes
  <1>9. ReadData(o, m, stale) = Bytes(regs)
    BY <1>6, <1>7, <1>8, Zenon
  <1> QED
    BY <1>4, <1>9, <1>n, Zenon DEF regs, RegistersAt

\* A read is refused, or answered with the registers.
LEMMA AnswerRead ==
  ASSUME NEW c \in Calls, c.fc # FCWriteMultipleRegisters, RequestOf(c) # <<>>,
         NEW m \in [Cell -> Word], NEW data, NEW capacity \in Nat, capacity >= 500
  PROVE  LET q    == Quantity(c)
             regs == RegistersAt(m, TableOf(c.fc), c.addr, q)
             req  == Decoded("nil", c.fc, c.addr, q, 0, 0)
         IN \/ \E exc \in 2 .. 3 :
                 PutResponse(req, m, data, capacity, TxLen - 1, <<>>) = Answer("exception", m, exc, <<>>)
            \/ /\ regs \in Seq(Uint16) /\ Len(regs) = q
               /\ PutResponse(req, m, data, capacity, TxLen - 1, <<>>)
                    = Answer("ok", m, ExceptionNone, <<c.fc, 2 * q>> \o Bytes(regs))
  <1> DEFINE q == Quantity(c)
             t == TableOf(c.fc)
             regs == RegistersAt(m, t, c.addr, q)
             req == Decoded("nil", c.fc, c.addr, q, 0, 0)
             o == OperationOf(req, data)
             a == PutResponse(req, m, data, capacity, TxLen - 1, <<>>)
             after == Effect(o, Reached(o), m)
             values == ReadData(o, m, <<>>)
  <1>1. /\ c.fc \in RegisterFCs /\ c.addr \in Uint16 /\ q \in Nat /\ q >= 1 /\ q <= 125
    BY CallFacts, ReadRequest DEF IsRead
  <1>2. /\ t \in RegTables /\ c.fc \in ReadFCs /\ c.fc # FCWriteMultipleCoils
        /\ c.fc \in {FCReadHoldingRegisters, FCReadInputRegisters} /\ c.fc \notin WriteSingleFCs
        /\ c.fc \in ReadFCs \cup WriteSingleFCs \cup WriteMultipleFCs
    BY <1>1, RegisterTable, Zenon
  <1>3. /\ req.fc = c.fc /\ req.maybeAddr = c.addr /\ req.maybeValueQuantity = q
        /\ req.maybeByteCount = 0
    BY DEF Decoded
  <1>a. a = PutResponse(req, m, data, capacity, TxLen - 1, <<>>)
    OBVIOUS
  <1>r. req = Decoded("nil", c.fc, c.addr, q, 0, 0)
    OBVIOUS
  <1> HIDE DEF req
  <1>4. IsOperation(o, "read", t, c.addr, q)
    BY <1>2, <1>3 DEF OperationOf, IsOperation, Asked
  <1>5. quantityBytes(req) = 2 * q /\ ~SlicePanics(req, capacity)
    <2>1. quantityBytes(req) = U16(2 * q)
      BY <1>2, <1>3, Zenon DEF quantityBytes
    <2> HIDE DEF q
    <2>2. 2 * q \in Nat /\ 2 * q < 65536 /\ 2 + 2 * q \in Nat /\ 2 + 2 * q < 65536
      BY <1>1, SMT
    <2>3. U16(2 * q) = 2 * q /\ U16(2 + 2 * q) = 2 + 2 * q
      BY <2>2, Wraps, SMT
    <2>4. SliceEnd(req) = 2 + 2 * q
      BY <2>1, <2>3, Zenon DEF SliceEnd
    <2>5. ~(2 + 2 * q < 2) /\ ~(2 + 2 * q > capacity)
      BY <1>1, SMT
    <2> QED
      BY <2>1, <2>3, <2>4, <2>5, Zenon DEF SlicePanics
  <1>6. after = m /\ ~RunsOut(req, data) /\ o.kind = "read" /\ o.kind # "write"
    <2>1. o.kind = "read"
      BY <1>4 DEF IsOperation
    <2>2. ~RunsOut(req, data)
      BY <2>1 DEF RunsOut
    <2> HIDE DEF o
    <2> QED
      BY <2>1, <2>2, ReadEffect
  <1>u. a = IF SlicePanics(req, capacity) THEN Answer("panic", m, ExceptionNone, <<>>)
            ELSE IF req.fc \notin ReadFCs \cup WriteSingleFCs \cup WriteMultipleFCs
              THEN Answer("exception", m, ExceptionIllegalFunction, <<>>)
            ELSE IF RunsOut(req, data)
              THEN Answer("panic", Effect(o, 0 .. Supplied(req.fc, WrittenData(req, data)) - 1, m),
                          ExceptionNone, <<>>)
            ELSE IF Outcome(o) # ExceptionNone THEN Answer("exception", after, Outcome(o), <<>>)
            ELSE IF req.fc = FCWriteMultipleCoils THEN Answer("panic", after, ExceptionNone, <<>>)
            ELSE IF o.kind = "write"
              THEN Answer("ok", after, ExceptionNone, writeSimple2U16(req.fc, req.maybeAddr, Echo(req)))
            ELSE LET pdu == writeSimpleU8(req.fc, quantityBytes(req) % 256, values, TxLen - 1)
                 IN Answer(IF pdu = <<>> THEN "error" ELSE "ok", after, ExceptionNone, pdu)
    BY Zenon DEF PutResponse
  <1> HIDE DEF o, after, a
  <1>7. a = IF Outcome(o) # ExceptionNone THEN Answer("exception", after, Outcome(o), <<>>)
            ELSE LET pdu == writeSimpleU8(c.fc, (2 * q) % 256, values, TxLen - 1)
                 IN Answer(IF pdu = <<>> THEN "error" ELSE "ok", after, ExceptionNone, pdu)
    <2> DEFINE pdu == writeSimpleU8(req.fc, quantityBytes(req) % 256, values, TxLen - 1)
    <2>1. pdu = writeSimpleU8(c.fc, (2 * q) % 256, values, TxLen - 1)
      BY <1>3, <1>5, Zenon
    <2> HIDE DEF values, q
    <2>2. a = IF Outcome(o) # ExceptionNone THEN Answer("exception", after, Outcome(o), <<>>)
              ELSE Answer(IF pdu = <<>> THEN "error" ELSE "ok", after, ExceptionNone, pdu)
      BY <1>2, <1>3, <1>5, <1>6, <1>u, ZenonT(30)
    <2> HIDE DEF pdu
    <2> QED
      BY <2>1, <2>2, Zenon
  <1>8. CASE Outcome(o) \in 2 .. 3
    <2>1. Outcome(o) # ExceptionNone
      BY <1>8 DEF ExceptionNone
    <2>2. a = Answer("exception", m, Outcome(o), <<>>)
      BY <1>6, <1>7, <2>1, Zenon
    <2> QED
      BY <1>8, <2>2, <1>r, Zenon DEF a
  <1>9. CASE Granted(o, t, c.addr, q)
    <2>1. regs \in Seq(Uint16) /\ Len(regs) = q /\ values = Bytes(regs)
      <3> HIDE DEF q, t
      <3> QED
        <4>1. c.addr \in Uint16 /\ q \in Nat /\ t \in RegTables
          BY <1>1, <1>2
        <4> QED
          BY <1>4, <1>9, <4>1, ReadBytes, SMT
    <2>r. regs = RegistersAt(m, t, c.addr, q)
      OBVIOUS
    <2> HIDE DEF values, regs
    <2> DEFINE n == Len(values)
               b == <<c.fc, 2 * q>>
               pdu == b \o values
    <2>2. values \in Seq(Byte) /\ n = 2 * q
      BY <2>1, BytesOf
    <2>n. n = Len(values)
      OBVIOUS
    <2>3. (2 * q) % 256 = 2 * q /\ ~(n > TxLen - 1 - 2)
      <3> HIDE DEF n, q
      <3> QED
        BY <1>1, <2>2, SMT DEF TxLen
    <2>4. writeSimpleU8(c.fc, (2 * q) % 256, values, TxLen - 1) = pdu
      BY <2>3, Zenon DEF writeSimpleU8
    <2>5. pdu # <<>>
      <3>1. c.fc \in Byte /\ 2 * q \in Byte
        BY <1>1, CallFacts, ByteRange
      <3> DEFINE x == 2 * q
      <3>2. x \in Byte /\ x = 2 * q
        BY <3>1
      <3> HIDE DEF x, n, q
      <3>3. <<c.fc, x>> \in Seq(Byte) /\ Len(<<c.fc, x>>) = 2
        BY <3>1, <3>2
      <3>4. <<c.fc, x>> \o values # <<>>
        BY <2>2, <3>3
      <3> QED
        BY <3>2, <3>4, Zenon
    <2> HIDE DEF pdu
    <2>6. a = Answer("ok", m, ExceptionNone, pdu)
      BY <1>6, <1>7, <1>9, <2>4, <2>5, Zenon DEF Granted
    <2> QED
      BY <2>1, <2>6, <2>r, <1>r, Zenon DEF a, pdu, values
  <1> QED
    <2> HIDE DEF q, t, regs, values
    <2>1. Outcome(o) \in 2 .. 3 \/ Granted(o, t, c.addr, q)
      BY <1>1, <1>2, <1>4, Walk
    <2> QED
      BY <1>8, <1>9, <2>1, Zenon DEF q, t, regs, values

\* What a write is given is what the request carries.
LEMMA WrittenRegisters ==
  ASSUME NEW c \in Calls, c.fc = FCWriteMultipleRegisters, RequestOf(c) # <<>>
  PROVE  LET req  == Decoded("nil", c.fc, c.addr, Len(c.regs), 2 * Len(c.regs), 6)
             data == SubSeq(RequestOf(c), 6 + 1, Len(RequestOf(c)))
         IN /\ Supplied(c.fc, WrittenData(req, data)) = Len(c.regs)
            /\ OperationOf(req, data).data = c.regs
            /\ IsOperation(OperationOf(req, data), "write", TableOf(c.fc), c.addr, Len(c.regs))
  <1> DEFINE r == RequestOf(c)
             n == Len(c.regs)
             l == Len(r)
             b == Bytes(c.regs)
             req == Decoded("nil", c.fc, c.addr, n, 2 * n, 6)
             data == SubSeq(r, 6 + 1, l)
             given == WrittenData(req, data)
             o == OperationOf(req, data)
  <1>1. /\ n \in Nat /\ n >= 1 /\ n <= 123 /\ r \in Seq(Byte) /\ l = 6 + 2 * n
        /\ \A j \in 1 .. 2 * n : r[6 + j] = b[j]
    BY WriteRequest, Zenon DEF IsWrite
  <1>2. c.regs \in Seq(Uint16) /\ c.fc \in RegisterFCs
    BY CallFacts
  <1>3. b \in Seq(Byte) /\ Len(b) = 2 * n /\ \A k \in 1 .. n : 256 * b[2 * k - 1] + b[2 * k] = c.regs[k]
    BY <1>2, BytesOf
  <1>4. /\ c.fc \notin WriteSingleFCs /\ c.fc \notin ReadFCs /\ TableOf(c.fc) # "coils"
        /\ c.fc # FCWriteSingleCoil
    BY <1>2, RegisterTable, Zenon
  <1>5. /\ req.fc = c.fc /\ req.maybeAddr = c.addr /\ req.maybeValueQuantity = n
        /\ req.maybeByteCount = 2 * n
    BY DEF Decoded
  <1>n. n = Len(c.regs)
    OBVIOUS
  <1>l. l = Len(r)
    OBVIOUS
  <1>6. given = SubSeq(data, 1, 2 * n)
    BY <1>4, <1>5, Zenon DEF WrittenData
  <1>7. o.data = [k \in 1 .. n |-> IF k <= Supplied(c.fc, given) THEN ElementIn(c.fc, given, k - 1) ELSE 0]
    BY <1>4, <1>5 DEF OperationOf, Asked
  <1>8. IsOperation(o, "write", TableOf(c.fc), c.addr, n)
    BY <1>4, <1>5 DEF OperationOf, IsOperation, Asked
  <1> HIDE DEF req, given, o, data, n, l, b, r
  <1>9. given \in Seq(Byte) /\ Len(given) = 2 * n /\ \A j \in 1 .. 2 * n : given[j] = b[j]
    <2>1. data \in Seq(Byte) /\ Len(data) = 2 * n /\ \A j \in 1 .. 2 * n : data[j] = r[6 + j]
      BY <1>1, <1>l DEF data
    <2>2. SubSeq(data, 1, Len(data)) = data
      BY <2>1, AllOrNone
    <2>3. given = data
      BY <1>6, <2>1, <2>2, Zenon
    <2> QED
      BY <1>1, <2>1, <2>3, Zenon
  <1>10. Supplied(c.fc, given) = n
    <2>1. Supplied(c.fc, given) = (2 * n) \div 2
      BY <1>4, <1>9, Zenon DEF Supplied
    <2> QED
      BY <1>1, <2>1
  <1>11. ASSUME NEW k \in 1 .. n PROVE k <= n /\ ElementIn(c.fc, given, k - 1) = c.regs[k]
    <2>1. /\ 2 * (k - 1) + 1 = 2 * k - 1 /\ (2 * (k - 1) + 1) + 1 = 2 * k
          /\ 2 * k - 1 \in 1 .. 2 * n /\ 2 * k \in 1 .. 2 * n /\ k <= n
      BY <1>1, SMT
    <2>2. ElementIn(c.fc, given, k - 1) = 256 * given[2 * k - 1] + given[2 * k]
      BY <1>4, <2>1, Zenon DEF ElementIn, Uint16At
    <2>3. given[2 * k - 1] = b[2 * k - 1] /\ given[2 * k] = b[2 * k]
      BY <1>9, <2>1, Zenon
    <2> QED
      BY <1>3, <2>1, <2>2, <2>3, ZenonT(40)
  <1>12. o.data = [k \in 1 .. n |-> c.regs[k]]
    BY <1>7, <1>10, <1>11, Zenon
  <1>13. [k \in 1 .. n |-> c.regs[k]] = c.regs
    BY <1>2, <1>n
  <1> QED
    BY <1>8, <1>10, <1>12, <1>13, Zenon DEF o, given, req, data, n, l, r

\* A write is refused, though some of it may have been done, or acknowledged.
LEMMA AnswerWrite ==
  ASSUME NEW c \in Calls, c.fc = FCWriteMultipleRegisters, RequestOf(c) # <<>>,
         NEW m \in [Cell -> Word], NEW capacity \in Nat, capacity >= 500
  PROVE  LET n    == Len(c.regs)
             req  == Decoded("nil", c.fc, c.addr, n, 2 * n, 6)
             data == SubSeq(RequestOf(c), 6 + 1, Len(RequestOf(c)))
         IN \E w \in [Cell -> Word] :
              \/ \E exc \in 2 .. 3 :
                   PutResponse(req, m, data, capacity, TxLen - 1, <<>>) = Answer("exception", w, exc, <<>>)
              \/ /\ RegistersAt(w, TableOf(c.fc), c.addr, n) = c.regs
                 /\ PutResponse(req, m, data, capacity, TxLen - 1, <<>>)
                      = Answer("ok", w, ExceptionNone, writeSimple2U16(c.fc, c.addr, n))
  <1> DEFINE n == Len(c.regs)
             t == TableOf(c.fc)
             req == Decoded("nil", c.fc, c.addr, n, 2 * n, 6)
             data == SubSeq(RequestOf(c), 6 + 1, Len(RequestOf(c)))
             o == OperationOf(req, data)
             a == PutResponse(req, m, data, capacity, TxLen - 1, <<>>)
             after == Effect(o, Reached(o), m)
  <1>1. /\ c.fc \in RegisterFCs /\ c.addr \in Uint16 /\ c.regs \in Seq(Word)
        /\ n \in Nat /\ n >= 1 /\ n <= 123
    BY CallFacts, WriteRequest, Zenon DEF IsWrite
  <1>2. /\ t \in RegTables /\ c.fc # FCWriteMultipleCoils /\ c.fc # FCWriteSingleCoil
        /\ c.fc \notin {FCReadHoldingRegisters, FCReadInputRegisters}
        /\ c.fc \in ReadFCs \cup WriteSingleFCs \cup WriteMultipleFCs
    BY <1>1, RegisterTable, Zenon
  <1>3. req.fc = c.fc /\ req.maybeAddr = c.addr /\ req.maybeValueQuantity = n
    BY DEF Decoded
  <1>4. /\ Supplied(c.fc, WrittenData(req, data)) = n /\ o.data = c.regs
        /\ IsOperation(o, "write", t, c.addr, n)
    BY WrittenRegisters, Zenon
  <1> HIDE DEF req, data
  <1>5. quantityBytes(req) = n /\ ~SlicePanics(req, capacity)
    <2>1. quantityBytes(req) = n
      BY <1>2, <1>3, Zenon DEF quantityBytes
    <2> HIDE DEF n
    <2>2. 2 + n \in Nat /\ 2 + n < 65536
      BY <1>1, SMT
    <2>3. U16(2 + n) = 2 + n
      BY <2>2, Wraps, SMT
    <2>4. SliceEnd(req) = 2 + n
      BY <2>1, <2>3, Zenon DEF SliceEnd
    <2>5. ~(2 + n < 2) /\ ~(2 + n > capacity)
      BY <1>1, SMT
    <2> QED
      BY <2>1, <2>4, <2>5, Zenon DEF SlicePanics
  <1>6. o.kind = "write" /\ o.qty = n
    BY <1>4, Zenon DEF IsOperation
  <1>7. ~RunsOut(req, data)
    <2>1. ~(n < n)
      <3> HIDE DEF n
      <3> QED
        BY <1>1
    <2> QED
      BY <1>3, <1>4, <1>6, <2>1, Zenon DEF RunsOut
  <1>8. Echo(req) = n
    BY <1>2, <1>3, <1>5, SMTT(30) DEF Echo
  <1>9. a = IF Outcome(o) # ExceptionNone THEN Answer("exception", after, Outcome(o), <<>>)
            ELSE Answer("ok", after, ExceptionNone, writeSimple2U16(c.fc, c.addr, n))
    <2>1. a = IF SlicePanics(req, capacity) THEN Answer("panic", m, ExceptionNone, <<>>)
              ELSE IF req.fc \notin ReadFCs \cup WriteSingleFCs \cup WriteMultipleFCs
                THEN Answer("exception", m, ExceptionIllegalFunction, <<>>)
              ELSE IF RunsOut(req, data)
                THEN Answer("panic", Effect(o, 0 .. Supplied(req.fc, WrittenData(req, data)) - 1, m),
                            ExceptionNone, <<>>)
              ELSE IF Outcome(o) # ExceptionNone THEN Answer("exception", after, Outcome(o), <<>>)
              ELSE IF req.fc = FCWriteMultipleCoils THEN Answer("panic", after, ExceptionNone, <<>>)
              ELSE IF o.kind = "write"
                THEN Answer("ok", after, ExceptionNone, writeSimple2U16(req.fc, req.maybeAddr, Echo(req)))
              ELSE LET pdu == writeSimpleU8(req.fc, quantityBytes(req) % 256,
                                            ReadData(o, m, <<>>), TxLen - 1)
                   IN Answer(IF pdu = <<>> THEN "error" ELSE "ok", after, ExceptionNone, pdu)
      BY Zenon DEF PutResponse
    <2> HIDE DEF a, o, after, n
    <2> QED
      BY <1>2, <1>3, <1>5, <1>6, <1>7, <1>8, <2>1
  <1>10. /\ Reached(o) \subseteq 0 .. n - 1 /\ (Outcome(o) \in 2 .. 3 \/ Granted(o, t, c.addr, n))
    <2> HIDE DEF o, t, n
    <2>1. "write" \in {"read", "write"} /\ t \in RegTables /\ c.addr \in Uint16 /\ n \in Nat
      BY <1>1, <1>2
    <2>2. IsOperation(o, "write", t, c.addr, n)
      BY <1>4
    <2> QED
      BY <2>1, <2>2, Walk, Zenon
  <1>11. HasStored(after, t, c.addr, c.regs, Reached(o)) /\ after \in [Cell -> Word]
    <2>1. /\ IsOperation(o, "write", t, c.addr, Len(c.regs)) /\ o.data = c.regs
          /\ Reached(o) \subseteq 0 .. Len(c.regs) - 1
      BY <1>4, <1>10, Zenon
    <2>2. c.addr \in Uint16 /\ c.regs \in Seq(Word)
      BY <1>1
    <2> HIDE DEF o, t
    <2> QED
      <3> DEFINE ks == Reached(o)
      <3>1. ks \subseteq 0 .. Len(c.regs) - 1
        BY <2>1
      <3> HIDE DEF ks
      <3>2. HasStored(Effect(o, ks, m), t, c.addr, c.regs, ks)
        BY <2>1, <2>2, <3>1, WriteEffect
      <3>3. HasStored(after, t, c.addr, c.regs, Reached(o))
        BY <3>2 DEF ks
      <3> QED
        BY <3>3 DEF HasStored
  <1> HIDE DEF a, o, after
  <1>12. CASE Outcome(o) \in 2 .. 3
    <2>1. Outcome(o) # ExceptionNone
      BY <1>12 DEF ExceptionNone
    <2>2. a = Answer("exception", after, Outcome(o), <<>>)
      BY <1>9, <2>1, Zenon
    <2> QED
      BY <1>11, <1>12, <2>2, Zenon DEF a, req, data
  <1>13. CASE Granted(o, t, c.addr, n)
    <2>1. a = Answer("ok", after, ExceptionNone, writeSimple2U16(c.fc, c.addr, n))
      BY <1>9, <1>13, Zenon DEF Granted
    <2>n. n = Len(c.regs)
      OBVIOUS
    <2> HIDE DEF t, n
    <2>2. ASSUME NEW k \in 1 .. n PROVE after[<<t, c.addr + k - 1>>] = c.regs[k]
      <3> DEFINE j == k - 1
      <3>1. j \in 0 .. n - 1 /\ j + 1 = k /\ c.addr + k - 1 = c.addr + j
        <4>1. c.addr \in Nat
          BY <1>1, Wraps, SMT
        <4> QED
          BY <1>1, <4>1, SMT
      <3> HIDE DEF j
      <3>2. j \in Reached(o) /\ c.addr + j \in 0 .. RegSize - 1
        BY <1>13, <3>1, Zenon DEF Granted
      <3>3. <<t, c.addr + j>> \in Cell
        BY <1>2, <3>2, InTheBank, Zenon
      <3> QED
        BY <1>11, <3>1, <3>2, <3>3, Zenon DEF HasStored
    <2>3. RegistersAt(after, t, c.addr, n) = [k \in 1 .. n |-> c.regs[k]]
      BY <2>2, Zenon DEF RegistersAt
    <2>4. [k \in 1 .. n |-> c.regs[k]] = c.regs
      BY <1>1, <2>n
    <2> QED
      BY <1>11, <2>1, <2>3, <2>4, <2>n, Zenon DEF a, req, data, t
  <1> QED
    BY <1>10, <1>12, <1>13, Zenon

\* What PutResponse makes of the request of a call.
Responds(answer, c) ==
  \E w \in [Cell -> Word] :
    \/ \E exc \in 2 .. 3 : answer = Answer("exception", w, exc, <<>>)
    \/ /\ HeldBy(w, c) \in Seq(Uint16) /\ (c.fc = FCWriteMultipleRegisters => HeldBy(w, c) = c.regs)
       /\ answer = Answer("ok", w, ExceptionNone, AnswerFrom(w, c))

LEMMA Responding ==
  ASSUME NEW c \in Calls, RequestOf(c) # <<>>, NEW m \in [Cell -> Word]
  PROVE  LET r   == RequestOf(c)
             req == DecodeRequest(r)
         IN /\ req.err = "nil" /\ req.fc = c.fc
            /\ Responds(PutResponse(req, m, SubSeq(r, req.off + 1, Len(r)),
                                    S!BufLen - 1 - req.off, TxLen - 1, <<>>), c)
  <1> DEFINE r == RequestOf(c)
             req == DecodeRequest(r)
             t == TableOf(c.fc)
  <1>1. CASE c.fc # FCWriteMultipleRegisters
    <2> DEFINE q == Quantity(c)
               code == Decoded("nil", c.fc, c.addr, q, 0, 0)
               data == SubSeq(r, 0 + 1, Len(r))
               capacity == S!BufLen - 1 - 0
               a == PutResponse(code, m, data, capacity, TxLen - 1, <<>>)
    <2>1. req = code
      BY <1>1, DecodeRead, Zenon
    <2>2. code.err = "nil" /\ code.fc = c.fc /\ code.off = 0
      BY DEF Decoded
    <2>3. capacity \in Nat /\ capacity >= 500
      BY DEF S!BufLen
    <2> HIDE DEF data, capacity
    <2>4. \/ \E exc \in 2 .. 3 : a = Answer("exception", m, exc, <<>>)
          \/ /\ RegistersAt(m, t, c.addr, q) \in Seq(Uint16)
             /\ a = Answer("ok", m, ExceptionNone, <<c.fc, 2 * q>> \o Bytes(RegistersAt(m, t, c.addr, q)))
      BY <1>1, <2>3, AnswerRead, Zenon
    <2> HIDE DEF a
    <2>5. Responds(a, c)
      BY <1>1, <2>4, Zenon DEF Responds, HeldBy, AnswerFrom
    <2> QED
      <3> HIDE DEF code, q, r, req
      <3>1. req.err = "nil" /\ req.fc = c.fc /\ req.off = 0
        BY <2>1, <2>2, Zenon
      <3>2. Responds(PutResponse(req, m, SubSeq(r, req.off + 1, Len(r)),
                                 S!BufLen - 1 - req.off, TxLen - 1, <<>>), c)
        BY <2>1, <2>5, <3>1, Zenon DEF a, data, capacity
      <3> QED
        BY <3>1, <3>2, Zenon DEF req, r
  <1>2. CASE c.fc = FCWriteMultipleRegisters
    <2> DEFINE n == Len(c.regs)
               code == Decoded("nil", c.fc, c.addr, n, 2 * n, 6)
               data == SubSeq(r, 6 + 1, Len(r))
               capacity == S!BufLen - 1 - 6
               a == PutResponse(code, m, data, capacity, TxLen - 1, <<>>)
    <2>1. req = code
      BY <1>2, DecodeWrite, Zenon
    <2>2. code.err = "nil" /\ code.fc = c.fc /\ code.off = 6
      BY DEF Decoded
    <2>3. capacity \in Nat /\ capacity >= 500
      BY DEF S!BufLen
    <2> HIDE DEF capacity
    <2>4. PICK w \in [Cell -> Word] :
            \/ \E exc \in 2 .. 3 : a = Answer("exception", w, exc, <<>>)
            \/ /\ RegistersAt(w, t, c.addr, n) = c.regs
               /\ a = Answer("ok", w, ExceptionNone, writeSimple2U16(c.fc, c.addr, n))
      BY <1>2, <2>3, AnswerWrite, Zenon
    <2>q. Quantity(c) = n /\ c.regs \in Seq(Uint16)
      BY <1>2, CallFacts, WriteRequest, Zenon DEF IsWrite
    <2> HIDE DEF a
    <2>5. Responds(a, c)
      BY <1>2, <2>4, <2>q, Zenon DEF Responds, HeldBy, AnswerFrom
    <2> QED
      <3> HIDE DEF code, n, r, req
      <3>1. req.err = "nil" /\ req.fc = c.fc /\ req.off = 6
        BY <2>1, <2>2, Zenon
      <3>2. Responds(PutResponse(req, m, SubSeq(r, req.off + 1, Len(r)),
                                 S!BufLen - 1 - req.off, TxLen - 1, <<>>), c)
        BY <2>1, <2>5, <3>1, Zenon DEF a, data, capacity
      <3> QED
        BY <3>1, <3>2, Zenon DEF req, r
  <1> QED
    BY <1>1, <1>2

\* Two bytes and the rest.
LEMMA TwoAndRest ==
  ASSUME NEW f \in Byte, NEW x \in Byte, NEW b \in Seq(Byte)
  PROVE  /\ <<f, x>> \o b \in Seq(Byte) /\ Len(<<f, x>> \o b) = 2 + Len(b)
         /\ (<<f, x>> \o b)[1] = f /\ (<<f, x>> \o b)[2] = x
         /\ SubSeq(<<f, x>> \o b, 3, Len(<<f, x>> \o b)) = b
  <1> DEFINE p == <<f, x>> \o b
             m == Len(b)
  <1>1. /\ p \in Seq(Byte) /\ Len(p) = 2 + m /\ p[1] = f /\ p[2] = x /\ m \in Nat
        /\ \A j \in 1 .. m : p[2 + j] = b[j]
    OBVIOUS
  <1>m. m = Len(b)
    OBVIOUS
  <1> HIDE DEF p, m
  <1>2. /\ SubSeq(p, 3, 2 + m) \in Seq(Byte) /\ Len(SubSeq(p, 3, 2 + m)) = m
        /\ \A j \in 1 .. m : SubSeq(p, 3, 2 + m)[j] = p[2 + j]
    BY <1>1
  <1>3. SubSeq(p, 3, 2 + m) = b
    BY <1>1, <1>2, <1>m
  <1> QED
    BY <1>1, <1>3, <1>m DEF p

\* What an answer looks like.
IsAnswer(pdu, m, c) ==
  /\ pdu \in Seq(Byte) /\ pdu[1] = c.fc /\ Len(pdu) \in Nat /\ Len(pdu) >= 4 /\ Len(pdu) <= 252
  /\ c.fc = FCWriteMultipleRegisters => Len(pdu) = 5
  /\ c.fc # FCWriteMultipleRegisters =>
       /\ pdu[2] = Len(pdu) - 2 /\ Len(pdu) = 2 + 2 * Quantity(c) /\ Quantity(c) \in Nat
       /\ Len(HeldBy(m, c)) = Quantity(c)
       /\ SubSeq(pdu, 3, Len(pdu)) = Bytes(HeldBy(m, c))

LEMMA AnswerShape ==
  ASSUME NEW c \in Calls, RequestOf(c) # <<>>, NEW m, HeldBy(m, c) \in Seq(Uint16)
  PROVE  IsAnswer(AnswerFrom(m, c), m, c)
  <1> DEFINE pdu == AnswerFrom(m, c)
             n == Len(pdu)
  <1>0. c.fc \in RegisterFCs /\ c.fc \in Byte /\ c.addr \in Uint16
    BY CallFacts
  <1>n. n = Len(pdu)
    OBVIOUS
  <1>1. CASE c.fc = FCWriteMultipleRegisters
    <2> DEFINE q == Len(c.regs)
    <2>1. q \in Uint16
      BY <1>1, WriteRequest, Zenon DEF IsWrite
    <2>2. pdu = writeSimple2U16(c.fc, c.addr, q)
      BY <1>1, Zenon DEF AnswerFrom
    <2> HIDE DEF pdu, n, q
    <2>3. pdu \in Seq(Byte) /\ pdu[1] = c.fc /\ n = 5
      BY <1>0, <1>n, <2>1, <2>2, TwoNumbers
    <2>4. n \in Nat /\ n >= 4 /\ n <= 252
      BY <2>3
    <2> QED
      BY <1>1, <1>n, <2>3, <2>4, Zenon DEF IsAnswer, pdu
  <1>2. CASE c.fc # FCWriteMultipleRegisters
    <2> DEFINE q == Quantity(c)
               x == 2 * q
               regs == HeldBy(m, c)
               b == Bytes(regs)
               h == <<c.fc, x>>
    <2>1. q \in Nat /\ q >= 1 /\ q <= 125
      BY <1>2, ReadRequest, Zenon DEF IsRead
    <2>2. pdu = h \o b
      BY <1>2, Zenon DEF AnswerFrom
    <2>3. Len(regs) = q
      <3> HIDE DEF q
      <3> QED
        BY <2>1 DEF HeldBy, RegistersAt, q
    <2>4. b \in Seq(Byte) /\ Len(b) = x
      BY <2>3, BytesOf
    <2>5. x \in Byte /\ x \in Nat /\ x >= 2 /\ x <= 250
      BY <2>1, ByteRange
    <2>q. x = 2 * q
      OBVIOUS
    <2>b. b = Bytes(regs)
      OBVIOUS
    <2> HIDE DEF x, q, b, pdu, n
    <2>6. /\ h \o b \in Seq(Byte) /\ Len(h \o b) = 2 + Len(b) /\ (h \o b)[1] = c.fc /\ (h \o b)[2] = x
          /\ SubSeq(h \o b, 3, Len(h \o b)) = b
      BY <1>0, <2>4, <2>5, TwoAndRest, SMT
    <2> HIDE DEF h
    <2>7. pdu \in Seq(Byte) /\ n = 2 + x /\ pdu[1] = c.fc /\ pdu[2] = x
      BY <1>n, <2>2, <2>4, <2>6, Zenon
    <2>8. SubSeq(pdu, 3, Len(pdu)) = b
      BY <2>2, <2>6, Zenon
    <2>9. n \in Nat /\ n >= 4 /\ n <= 252 /\ x = n - 2
      BY <2>5, <2>7
    <2> QED
      <3>1. Len(pdu) = 2 + 2 * q /\ pdu[2] = n - 2
        BY <1>n, <2>7, <2>9, <2>q, Zenon
      <3> QED
        BY <1>2, <1>n, <2>1, <2>3, <2>7, <2>8, <2>9, <2>b, <3>1, Zenon DEF IsAnswer, pdu, q
  <1> QED
    BY <1>1, <1>2

LEMMA NoAnswerBytes ==
  ASSUME NEW a \in NoAnswers
  PROVE  a \in Seq(Byte) /\ ~(Len(a) > 2)
  <1>1. CASE a = <<>>
    BY <1>1
  <1>2. ASSUME NEW fc \in RegisterFCs, NEW exc \in 1 .. 3, a = <<fc + 128, exc>>
        PROVE  a \in Seq(Byte) /\ ~(Len(a) > 2)
    <2>1. fc \in Nat /\ fc <= 16
      BY RegisterTable, Zenon
    <2> DEFINE x == fc + 128
    <2>2. x \in Byte /\ exc \in Byte
      BY <2>1, ByteRange
    <2> HIDE DEF x
    <2>3. <<x, exc>> \in Seq(Byte) /\ ~(Len(<<x, exc>>) > 2)
      BY <2>2
    <2> QED
      BY <1>2, <2>3 DEF x
  <1> QED
    BY <1>1, <1>2 DEF NoAnswers


--------------------------------------------------------------------------------
(***************************************************************************)
(* The client finds its way through an answer.                             *)
(***************************************************************************)

\* How TryRx finds its way through an answer.
ClientFramed(a) ==
  /\ a \in Seq(Byte) /\ Len(a) \in Nat /\ Len(a) <= 255 /\ (Len(a) > 2 => Len(a) >= 7)
  /\ \A k \in 2 .. Len(a) : (Len(a) > 2 => k < Len(a)) =>
       C!Infer(SubSeq(a, 1, k)) =
         IF Unknown(a, k) THEN Inferred(1, "missing") ELSE Inferred(Len(a) - 3, "nil")

\* What is inferred from what a server sends: an exception is mistaken for
\* an answer, since it has no address.
LEMMA AnswerInferred ==
  ASSUME NEW b, NEW n \in Nat, n >= 1, b[1] \in RegisterFCs \cup 1 .. 3
  PROVE  n = Len(b) =>
           InferResponsePacketLength(b) =
             IF b[1] = FCWriteMultipleRegisters THEN Inferred(5, "nil")
             ELSE IF n < 2 THEN Inferred(2 - n, "missing") ELSE Inferred(2 + b[2], "nil")
  <1>1. SUFFICES ASSUME n = Len(b)
                 PROVE  InferResponsePacketLength(b) =
                          IF b[1] = FCWriteMultipleRegisters THEN Inferred(5, "nil")
                          ELSE IF n < 2 THEN Inferred(2 - n, "missing") ELSE Inferred(2 + b[2], "nil")
    BY Zenon
  <1>2. ~(n < 1) /\ ~(b[1] >= 128)
    BY DEF RegisterFCs, FCReadHoldingRegisters, FCReadInputRegisters, FCWriteMultipleRegisters
  <1>3. /\ (b[1] \in ReadFCs \cup {FCGetComEventLog}) = (b[1] # FCWriteMultipleRegisters)
        /\ FCWriteMultipleRegisters \in WriteSingleFCs \cup WriteMultipleFCs \cup {FCGetComEventCounter}
    BY DEF RegisterFCs, ReadFCs, FCReadHoldingRegisters, FCReadInputRegisters, FCWriteMultipleRegisters,
           FCReadCoils, FCReadDiscreteInputs, FCGetComEventLog, WriteMultipleFCs
  <1>4. InferResponsePacketLength(b) =
          IF b[1] # FCWriteMultipleRegisters THEN Counted(b, 2) ELSE Inferred(5, "nil")
    BY <1>1, <1>2, <1>3, Zenon DEF InferResponsePacketLength
  <1>5. Counted(b, 2) = IF n < 2 THEN Inferred(2 - n, "missing") ELSE Inferred(2 + b[2], "nil")
    BY <1>1, Zenon DEF Counted
  <1> QED
    BY <1>4, <1>5, Zenon

LEMMA NoAnswerFramed ==
  ASSUME NEW a \in NoAnswers
  PROVE  ClientFramed(a)
  <1>1. CASE a = <<>>
    <2>1. Len(a) = 0 /\ a \in Seq(Byte)
      BY <1>1
    <2> QED
      BY <2>1 DEF ClientFramed
  <1>2. ASSUME NEW fc \in RegisterFCs, NEW exc \in 1 .. 3, a = <<fc + 128, exc>>
        PROVE  ClientFramed(a)
    <2>1. a \in Seq(Byte)
      BY NoAnswerBytes
    <2> DEFINE n == Len(a)
               t == Tail(SubSeq(a, 1, 2))
               l == Len(t)
    <2>2. n = 2 /\ a[2] = exc
      BY <1>2
    <2>n. n = Len(a)
      OBVIOUS
    <2>3. n \in Nat /\ n <= 255 /\ (n > 2 => n >= 7)
      BY <2>2
    <2>4. l = 1 /\ t[1] = exc
      <3>1. 2 <= n
        BY <2>2
      <3>2. l = 2 - 1 /\ \A j \in 1 .. 2 - 1 : t[j] = a[j + 1]
        BY <2>1, <3>1, TailOf
      <3> HIDE DEF l, t
      <3> QED
        BY <2>2, <3>2
    <2>l. l = Len(t)
      OBVIOUS
    <2> HIDE DEF l, t, n
    <2>5. InferResponsePacketLength(t) = Inferred(1, "missing")
      <3>1. /\ exc # FCWriteMultipleRegisters /\ exc \in RegisterFCs \cup 1 .. 3
            /\ l < 2 /\ 2 - l = 1 /\ l \in Nat /\ l >= 1
        BY <2>4 DEF FCWriteMultipleRegisters
      <3>2. InferResponsePacketLength(t) =
              IF t[1] = FCWriteMultipleRegisters THEN Inferred(5, "nil")
              ELSE IF l < 2 THEN Inferred(2 - l, "missing") ELSE Inferred(2 + t[2], "nil")
        BY <2>4, <2>l, <3>1, AnswerInferred, Zenon
      <3> QED
        BY <2>4, <3>1, <3>2, Zenon
    <2>6. C!Infer(SubSeq(a, 1, 2)) = Inferred(1, "missing")
      BY <2>5, ClientInfers, Zenon DEF t
    <2>7. ASSUME NEW k \in 2 .. n
          PROVE  C!Infer(SubSeq(a, 1, k)) =
                   IF Unknown(a, k) THEN Inferred(1, "missing") ELSE Inferred(Len(a) - 3, "nil")
      <3>1. k = 2
        BY <2>2
      <3>2. Unknown(a, k)
        BY <2>2, <2>n, Zenon DEF Unknown
      <3> QED
        BY <2>6, <3>1, <3>2, Zenon
    <2> QED
      BY <2>1, <2>3, <2>7, <2>n, Zenon DEF ClientFramed
  <1> QED
    BY <1>1, <1>2 DEF NoAnswers

LEMMA AnswerFramed ==
  ASSUME NEW p, NEW dev, NEW pdu, NEW m, NEW c, IsPacket(p, dev, pdu), IsAnswer(pdu, m, c),
         c.fc \in RegisterFCs
  PROVE  ClientFramed(p) /\ Len(p) > 2
  <1> DEFINE n == Len(p)
             l == Len(pdu)
  <1>1. /\ l \in Nat /\ l >= 4 /\ l <= 252 /\ pdu[1] = c.fc
        /\ (c.fc = FCWriteMultipleRegisters => l = 5)
        /\ (c.fc # FCWriteMultipleRegisters => pdu[2] = l - 2)
    BY Zenon DEF IsAnswer
  <1>2. p \in Seq(Byte) /\ n = l + 3 /\ \A j \in 1 .. l : p[j + 1] = pdu[j]
    BY Zenon DEF IsPacket
  <1>n. n = Len(p)
    OBVIOUS
  <1> HIDE DEF n, l
  <1>3. n \in Nat /\ n >= 7 /\ n <= 255
    BY <1>1, <1>2
  <1>4. p[2] = c.fc /\ (c.fc # FCWriteMultipleRegisters => p[3] = n - 5)
    <2>1. p[1 + 1] = pdu[1] /\ p[2 + 1] = pdu[2]
      BY <1>1, <1>2
    <2> QED
      BY <1>1, <1>2, <2>1
  <1>5. ASSUME NEW k \in 2 .. n, k < n
        PROVE  C!Infer(SubSeq(p, 1, k)) =
                 IF Unknown(p, k) THEN Inferred(1, "missing") ELSE Inferred(Len(p) - 3, "nil")
    <2> DEFINE t == Tail(SubSeq(p, 1, k))
               u == k - 1
    <2>1. t \in Seq(Byte) /\ Len(t) = u /\ \A j \in 1 .. u : t[j] = p[j + 1]
      <3>1. k \in Nat /\ k >= 1 /\ k <= n
        BY <1>3
      <3> QED
        BY <1>2, <1>n, <3>1, TailOf, Zenon
    <2>2. C!Infer(SubSeq(p, 1, k)) = InferResponsePacketLength(t)
      BY ClientInfers, Zenon
    <2>3. u \in Nat /\ u >= 1 /\ (u < 2) = (k = 2) /\ (k = 2 => 2 - u = 1)
      BY <1>3
    <2> HIDE DEF t, u
    <2>4. t[1] = p[2] /\ (u >= 2 => t[2] = p[3])
      <3>1. 1 \in 1 .. u /\ (u >= 2 => 2 \in 1 .. u)
        BY <2>3
      <3>2. t[1] = p[1 + 1] /\ (u >= 2 => t[2] = p[2 + 1])
        BY <2>1, <3>1, Zenon
      <3> QED
        BY <3>2
    <2>5. InferResponsePacketLength(t) =
            IF t[1] = FCWriteMultipleRegisters THEN Inferred(5, "nil")
            ELSE IF u < 2 THEN Inferred(2 - u, "missing") ELSE Inferred(2 + t[2], "nil")
      BY <1>4, <2>1, <2>3, <2>4, AnswerInferred, Zenon
    <2>6. Unknown(p, k) = (k = 2 /\ c.fc # FCWriteMultipleRegisters)
      <3>1. n # 2
        BY <1>3
      <3> QED
        BY <1>4, <1>n, <3>1, Zenon DEF Unknown
    <2>7. CASE c.fc = FCWriteMultipleRegisters
      <3>1. 5 = n - 3
        BY <1>1, <1>2, <2>7
      <3> QED
        BY <1>4, <1>n, <2>2, <2>4, <2>5, <2>6, <2>7, <3>1, Zenon
    <2>8. CASE c.fc # FCWriteMultipleRegisters /\ k = 2
      BY <1>4, <2>2, <2>3, <2>4, <2>5, <2>6, <2>8, Zenon
    <2>9. CASE c.fc # FCWriteMultipleRegisters /\ k # 2
      <3>1. ~(u < 2) /\ u >= 2
        BY <2>3, <2>9
      <3>2. 2 + t[2] = n - 3
        BY <1>3, <1>4, <2>4, <2>9, <3>1
      <3> QED
        BY <1>4, <1>n, <2>2, <2>4, <2>5, <2>6, <2>9, <3>1, <3>2, Zenon
    <2> QED
      BY <2>7, <2>8, <2>9, Zenon
  <1>6. n > 2
    BY <1>3
  <1> QED
    BY <1>2, <1>3, <1>5, <1>6, <1>n, Zenon DEF ClientFramed

\* The bytes of an answer are made registers again.
LEMMA RegistersBack ==
  ASSUME NEW regs \in Seq(Uint16)
  PROVE  Len(Bytes(regs)) = 2 * Len(regs) /\ Registers(Bytes(regs)) = regs
  <1> DEFINE b == Bytes(regs)
             n == Len(regs)
  <1>1. n \in Nat /\ Len(b) = 2 * n /\ \A k \in 1 .. n : 256 * b[2 * k - 1] + b[2 * k] = regs[k]
    BY BytesOf
  <1>2. regs = [k \in 1 .. n |-> regs[k]]
    OBVIOUS
  <1>n. n = Len(regs)
    OBVIOUS
  <1> HIDE DEF b, n
  <1>3. Len(b) \div 2 = n
    <2>1. (2 * n) \div 2 = n
      BY <1>1
    <2> QED
      BY <1>1, <2>1, Zenon
  <1>4. \A k \in 1 .. n : (2 * k - 1) + 1 = 2 * k
    BY <1>1
  <1>5. \A k \in 1 .. n : Uint16At(b, 2 * k - 1) = regs[k]
    BY <1>1, <1>4, Zenon DEF Uint16At
  <1>6. Registers(b) = [k \in 1 .. n |-> Uint16At(b, 2 * k - 1)]
    BY <1>3, Zenon DEF Registers
  <1>7. Registers(b) = [k \in 1 .. n |-> regs[k]]
    BY <1>5, <1>6, Zenon
  <1> QED
    BY <1>1, <1>2, <1>7, <1>n, Zenon DEF b

--------------------------------------------------------------------------------
(***************************************************************************)
(* A client that any bytes come to, such as an answer that is too late.    *)
(***************************************************************************)

\* What is inferred from any bytes whatever.
IsInferred(i, n) ==
  /\ i.n \in Nat /\ i.err \in {"nil", "missing", "badfc"}
  /\ i.err = "missing" => n <= 2 /\ i.n = 1
  /\ i.err = "nil" => i.n >= 2 /\ i.n <= 258

LEMMA ResponseInferred ==
  ASSUME NEW t \in Seq(Byte), Len(t) >= 1
  PROVE  IsInferred(InferResponsePacketLength(t), Len(t) + 1)
  <1> DEFINE m == Len(t)
             P(x) == IsInferred(x, m + 1)
  <1>1. m \in Nat /\ m >= 1 /\ m = Len(t)
    OBVIOUS
  <1>2. m >= 2 => t[2] \in Nat /\ t[2] <= 255
    <2>1. m >= 2 => t[2] \in Byte
      OBVIOUS
    <2> QED
      BY <2>1, ByteRange
  <1> HIDE DEF m
  <1>3. P(Inferred(2, "nil")) /\ P(Inferred(5, "nil")) /\ P(Inferred(0, "badfc"))
    BY DEF Inferred, IsInferred
  <1>4. P(Counted(t, 2)) /\ P(Counted(t, 3))
    <2>1. CASE m < 2
      <3>1. m = 1 /\ 2 - m = 1 /\ m + 1 <= 2
        BY <1>1, <2>1
      <3>2. Counted(t, 2) = Inferred(1, "missing") /\ Counted(t, 3) = Inferred(1, "missing")
        BY <1>1, <2>1, <3>1, Zenon DEF Counted
      <3>3. P(Inferred(1, "missing"))
        BY <3>1 DEF Inferred, IsInferred
      <3> QED
        BY <3>2, <3>3, Zenon
    <2>2. CASE ~(m < 2)
      <3>1. m >= 2
        BY <1>1, <2>2
      <3>2. Counted(t, 2) = Inferred(2 + t[2], "nil") /\ Counted(t, 3) = Inferred(3 + t[2], "nil")
        BY <1>1, <2>2, Zenon DEF Counted
      <3>3. ASSUME NEW n \in Nat, n >= 2, n <= 258 PROVE P(Inferred(n, "nil"))
        BY <3>3 DEF Inferred, IsInferred
      <3>4. 2 + t[2] \in Nat /\ 2 + t[2] >= 2 /\ 2 + t[2] <= 258 /\ 3 + t[2] \in Nat /\ 3 + t[2] >= 2 /\ 3 + t[2] <= 258
        BY <1>2, <3>1
      <3> QED
        BY <3>2, <3>3, <3>4, Zenon
    <2> QED
      BY <2>1, <2>2
  <1>5. InferResponsePacketLength(t) \in
          {Inferred(2, "nil"), Inferred(5, "nil"), Inferred(0, "badfc"), Counted(t, 2), Counted(t, 3)}
    BY DEF InferResponsePacketLength
  <1>6. P(InferResponsePacketLength(t))
    <2> HIDE DEF P
    <2> QED
      BY <1>3, <1>4, <1>5
  <1> QED
    BY <1>6 DEF m

\* More bytes do not change a length once it is inferred.
LEMMA ResponseStable ==
  ASSUME NEW t \in Seq(Byte), NEW u \in Seq(Byte), Len(t) >= 1, Len(t) <= Len(u),
         t[1] = u[1], Len(t) >= 2 => t[2] = u[2],
         InferResponsePacketLength(t).err # "missing"
  PROVE  InferResponsePacketLength(u) = InferResponsePacketLength(t)
BY SMTT(30) DEF InferResponsePacketLength, Counted, Inferred, Byte

\* What a client buffers: too little to infer a length, refused, or a proper
\* prefix of a packet.
Incomplete(b) ==
  \/ Len(b) < 2
  \/ C!Infer(b).err = "badfc"
  \/ /\ C!Infer(b).err \in {"nil", "missing"}
     /\ C!Missing(b) >= 1 /\ Len(b) + C!Missing(b) <= 261

LEMMA Inference ==
  ASSUME NEW b \in Seq(Byte), Len(b) >= 2
  PROVE  /\ IsInferred(C!Infer(b), Len(b)) /\ C!Missing(b) \in Int
         /\ C!Missing(b) = C!Infer(b).n + 3 - Len(b)
  <1> DEFINE t == Tail(b)
             n == Len(b)
  <1>1. t \in Seq(Byte) /\ Len(t) = n - 1 /\ n \in Nat /\ n >= 2
    <2>1. b # <<>>
      OBVIOUS
    <2> QED
      BY <2>1
  <1>2. C!Infer(b) = InferResponsePacketLength(t)
    BY ClientInfers
  <1>n. n = Len(b)
    OBVIOUS
  <1>3. C!Missing(b) = C!Infer(b).n + 3 - n
    BY DEF C!Missing
  <1> HIDE DEF t, n
  <1>4. Len(t) >= 1 /\ Len(t) + 1 = n
    BY <1>1
  <1>5. IsInferred(InferResponsePacketLength(t), Len(t) + 1)
    BY <1>1, <1>4, ResponseInferred
  <1>6. IsInferred(C!Infer(b), n)
    BY <1>2, <1>4, <1>5, Zenon
  <1>7. C!Missing(b) \in Int
    BY <1>1, <1>3, <1>6 DEF IsInferred
  <1> QED
    BY <1>3, <1>6, <1>7, <1>n, Zenon

\* The first two bytes are incomplete ...
LEMMA TwoIncomplete ==
  ASSUME NEW b \in Seq(Byte), NEW n \in Nat, n = Len(b), n <= 2
  PROVE  Incomplete(b)
  <1>1. CASE n = 2
    <2>1. IsInferred(C!Infer(b), n) /\ C!Missing(b) \in Int /\ C!Missing(b) = C!Infer(b).n + 3 - n
      BY <1>1, Inference
    <2>2. C!Infer(b).err \in {"nil", "missing"} => C!Missing(b) >= 1 /\ n + C!Missing(b) <= 261
      BY <1>1, <2>1 DEF IsInferred
    <2>3. C!Infer(b).err \in {"nil", "missing", "badfc"}
      BY <2>1 DEF IsInferred
    <2> QED
      BY <2>2, <2>3 DEF Incomplete
  <1> QED
    BY <1>1 DEF Incomplete

\* ... and a packet stays so when fewer bytes come than are missing.
LEMMA StaysIncomplete ==
  ASSUME NEW b \in Seq(Byte), NEW x \in Seq(Byte), Len(b) >= 2, Incomplete(b),
         C!Infer(b).err \in {"nil", "missing"}, Len(x) <= C!Missing(b),
         C!Infer(b).err = "nil" => Len(x) < C!Missing(b)
  PROVE  Incomplete(b \o x)
  <1> DEFINE c == b \o x
             n == Len(b)
             m == Len(x)
             l == Len(c)
             k == C!Infer(b).n
             j == C!Infer(c).n
  <1>1. /\ c \in Seq(Byte) /\ l = n + m /\ n \in Nat /\ m \in Nat /\ n >= 2
        /\ b[1] = c[1] /\ b[2] = c[2] /\ (n >= 3 => b[3] = c[3])
    OBVIOUS
  <1>n. n = Len(b) /\ m = Len(x) /\ l = Len(c) /\ k = C!Infer(b).n /\ j = C!Infer(c).n
    OBVIOUS
  <1> HIDE DEF c, n, m, l, k, j
  <1>2. IsInferred(C!Infer(b), n) /\ C!Missing(b) \in Int /\ C!Missing(b) = k + 3 - n
    BY <1>1, <1>n, Inference
  <1>3. l >= 2 /\ l \in Nat
    BY <1>1
  <1>4. IsInferred(C!Infer(c), l) /\ C!Missing(c) \in Int /\ C!Missing(c) = j + 3 - l
    BY <1>1, <1>3, <1>n, Inference
  <1>5. CASE C!Infer(b).err = "missing"
    <2>1. n <= 2 /\ k = 1 /\ m <= 2
      BY <1>1, <1>2, <1>5, <1>n DEF IsInferred
    <2>2. l <= 4
      BY <1>1, <2>1
    <2>3. C!Infer(c).err \in {"nil", "missing"} => C!Missing(c) >= 1 /\ l + C!Missing(c) <= 261
      BY <1>3, <1>4, <1>n, <2>2 DEF IsInferred
    <2>4. C!Infer(c).err \in {"nil", "missing", "badfc"}
      BY <1>4 DEF IsInferred
    <2> QED
      BY <1>n, <2>3, <2>4 DEF Incomplete, c
  <1>6. CASE C!Infer(b).err = "nil"
    <2> DEFINE t == Tail(b)
               u == Tail(c)
    <2>1. /\ t \in Seq(Byte) /\ Len(t) = n - 1 /\ t[1] = b[2] /\ (n >= 3 => t[2] = b[3])
      <3>1. b # <<>>
        BY <1>1, <1>n
      <3> QED
        BY <1>1, <1>n, <3>1
    <2>2. /\ u \in Seq(Byte) /\ Len(u) = l - 1 /\ u[1] = c[2] /\ (n >= 3 => u[2] = c[3])
      <3>1. c # <<>> /\ (n >= 3 => l >= 3)
        BY <1>1, <1>3, <1>n
      <3> QED
        BY <1>1, <1>3, <1>n, <3>1
    <2>3. C!Infer(b) = InferResponsePacketLength(t) /\ C!Infer(c) = InferResponsePacketLength(u)
      BY ClientInfers
    <2> HIDE DEF t, u
    <2>4. /\ Len(t) >= 1 /\ Len(t) <= Len(u) /\ t[1] = u[1] /\ (Len(t) >= 2 => t[2] = u[2])
      BY <1>1, <2>1, <2>2, SMTT(30)
    <2>5. InferResponsePacketLength(t).err # "missing"
      BY <1>6, <2>3
    <2>6. C!Infer(c) = C!Infer(b)
      BY <2>1, <2>2, <2>3, <2>4, <2>5, ResponseStable, Zenon
    <2>7. j = k /\ C!Infer(c).err = "nil" /\ m < C!Missing(b) /\ k <= 258 /\ k \in Nat
      BY <1>2, <1>6, <1>n, <2>6 DEF IsInferred
    <2>8. C!Missing(c) >= 1 /\ l + C!Missing(c) <= 261
      BY <1>1, <1>2, <1>3, <1>4, <2>7
    <2> QED
      BY <1>n, <2>7, <2>8 DEF Incomplete, c
  <1> QED
    BY <1>5, <1>6

--------------------------------------------------------------------------------
(***************************************************************************)
(* How far each end has come with the packet on the way to it.             *)
(***************************************************************************)

\* The client waits as long as it takes, and its port does not fail.
Patient == ~HasDeadline /\ ~PortFails

\* What TryRx asks its port for with k of the n bytes of a request.
Due(n, k) == IF k < 8 THEN 8 - k ELSE n - 8

\* The server has received k bytes of packet p; p is empty if there is none.
\* A read, of eight bytes, may come in any pieces.  A write comes in those
\* TryRx asks for: two bytes for the function code, then up to the byte
\* count, the eighth, then the rest.
ServerStops(p, k) ==
  /\ k # 0 => k < Len(p)
  /\ Len(p) > 8 => k = 0 \/ k = 2 \/ k = 8
  /\ k # 0 \/ spc # "ready" => sstart = 0
  /\ sbuf = SubSeq(p, 1, k)
  /\ \/ serving = "loop" /\ spc = "ready"
     \/ serving = "rx" /\ spc = "ready" /\ sret.err = "missing"
     \/ serving = "rx" /\ spc = "head" /\ k < 2 /\ sneed = 2 - k
     \/ serving = "rx" /\ spc = "body" /\ k >= 2 /\ sneed = Due(Len(p), k)

ServerAt(p, k) == ServerStops(p, k) /\ toServer = SubSeq(p, k + 1, Len(p))

ServerHas(p) == \E k \in Nat : ServerAt(p, k)

ServerHolds(pdu, dev) ==
  sbuf = <<>> /\ serving = "rx" /\ spc = "ready" /\ sret = S!Result("nil", pdu, dev)

ServerGot(pdu, dev) == ServerHolds(pdu, dev) /\ toServer = <<>>

\* The client has received k bytes of a, a packet or an exception.
ClientAt(a, k) ==
  /\ cbuf = SubSeq(a, 1, k) /\ toClient = SubSeq(a, k + 1, Len(a))
  /\ k # 0 \/ cpc # "ready" => cstart = 0
  /\ Len(a) > 2 => k < Len(a)
  /\ \/ st = "loop" /\ cpc = "ready"
     \/ st = "rx" /\ cpc = "ready" /\ cret.err = "missing" /\ cret.pdu = <<>>
     \/ st = "rx" /\ cpc = "head" /\ k < 2 /\ cneed = 2 - k
     \/ st = "rx" /\ cpc = "body" /\ k >= 2 /\ cneed = Missing(a, k)

ClientHas(a) == \E k \in 0 .. Len(a) : ClientAt(a, k)

ClientGot(pdu) ==
  /\ cbuf = <<>> /\ toClient = <<>>
  /\ st = "rx" /\ cpc = "ready" /\ cret = C!Result("nil", pdu, address)

--------------------------------------------------------------------------------
(***************************************************************************)
(* The server receives a request.                                          *)
(***************************************************************************)

\* With k of n bytes, the length inferred is y.
Tells(n, k, y) ==
  \/ n = 8 /\ y = 5
  \/ n > 8 /\ k = 2 /\ y = 5
  \/ n > 8 /\ k = 8 /\ y = n - 3

Adds(n, k, y) ==
  /\ y + 3 - k = Due(n, k) /\ Due(n, k) \in Nat /\ Due(n, k) >= 1 /\ k + Due(n, k) <= n
  /\ n = 8 \/ k = 8 => y + 3 = n /\ Due(n, k) = n - k
  /\ n > 8 /\ k = 2 => Due(n, k) = 6

LEMMA DueSums ==
  ASSUME NEW n \in Nat, NEW k \in Nat, NEW y, n >= 8, 2 <= k, k < n, Tells(n, k, y)
  PROVE  Adds(n, k, y)
  BY DEF Due, Tells, Adds

\* What there is to know of the places a server may stop at.
ServerPlace(p, n, k) ==
  /\ \/ S!Infer(SubSeq(p, 1, k)).err = "nil" /\ S!Infer(SubSeq(p, 1, k)).n + 3 = n
        /\ Due(n, k) = n - k
     \/ S!Infer(SubSeq(p, 1, k)).err = "missing" /\ n > 8 /\ k = 2 /\ Due(n, k) = 6
  /\ S!Missing(SubSeq(p, 1, k)) = Due(n, k) /\ Len(SubSeq(p, 1, k)) = k
  /\ Due(n, k) \in Nat /\ Due(n, k) >= 1 /\ k + Due(n, k) <= n /\ n <= 256

LEMMA ServerPlaces ==
  ASSUME NEW p, ServerFramed(p), NEW n \in Nat, n = Len(p),
         NEW k \in Nat, 2 <= k, k < n, n > 8 => k = 2 \/ k = 8
  PROVE  ServerPlace(p, n, k)
  <1> DEFINE b == SubSeq(p, 1, k)
             x == S!Infer(b)
             d == Due(n, k)
  <1>1. n >= 8 /\ n <= 256 /\ p \in Seq(Byte)
    BY DEF ServerFramed
  <1>2. Len(b) = k
    BY <1>1
  <1>3. S!Missing(b) = x.n + 3 - Len(b)
    BY DEF S!Missing
  <1>4. \/ n = 8 /\ x = Inferred(5, "nil")
        \/ n > 8 /\ k = 2 /\ x = Inferred(5, "missing")
        \/ n > 8 /\ k = 8 /\ x = Inferred(n - 3, "nil")
    <2>1. CASE n = 8
      BY <2>1, Zenon DEF ServerFramed
    <2>2. CASE n > 8
      BY <2>2, Zenon DEF ServerFramed
    <2> QED
      BY <1>1, <2>1, <2>2
  <1> HIDE DEF b, x, d
  <1>5. \/ n = 8 /\ x.n = 5 /\ x.err = "nil"
        \/ n > 8 /\ k = 2 /\ x.n = 5 /\ x.err = "missing"
        \/ n > 8 /\ k = 8 /\ x.n = n - 3 /\ x.err = "nil"
    BY <1>4 DEF Inferred
  <1>6. /\ \/ x.err = "nil" /\ x.n + 3 = n /\ d = n - k
           \/ x.err = "missing" /\ n > 8 /\ k = 2 /\ d = 6
        /\ x.n + 3 - k = d /\ d \in Nat /\ d >= 1 /\ k + d <= n
    <2>1. PICK y : y = x.n
      OBVIOUS
    <2>2. Tells(n, k, y)
      BY <1>5, <2>1, Zenon DEF Tells
    <2>3. Adds(n, k, y)
      BY <1>1, <2>2, DueSums
    <2> QED
      BY <1>5, <2>1, <2>3, Zenon DEF Adds, d
  <1>7. S!Missing(b) = d
    BY <1>2, <1>3, <1>6, Zenon
  <1> QED
    BY <1>1, <1>2, <1>6, <1>7, Zenon DEF ServerPlace, b, d, x

LEMMA ServerInfersThenReads ==
  ASSUME NEW p, ServerFramed(p), NEW n \in Nat, n = Len(p),
         NEW k \in Nat, 2 <= k, k < n, n > 8 => k = 2 \/ k = 8,
         S!InferThenRead(0, SubSeq(p, 1, k))
  PROVE  spc' = "body" /\ sneed' = Due(n, k)
  <1> DEFINE b == SubSeq(p, 1, k)
             m == S!Missing(b)
             l == Len(b)
  <1>0. ServerPlace(p, n, k)
    BY ServerPlaces
  <1>1. S!Infer(b).err # "badfc"
    BY <1>0 DEF ServerPlace
  <1>2. m = Due(n, k) /\ l = k /\ m \in Nat /\ m >= 1 /\ k + m <= n /\ n <= 256
    BY <1>0, Zenon DEF ServerPlace
  <1> HIDE DEF b
  <1>3. S!CallRead("body", m, 0, b)
    BY <1>1, Zenon DEF S!InferThenRead, b
  <1> HIDE DEF m, l
  <1>4. ~(m > 512 - (0 + l)) /\ ~(m <= 0)
    BY <1>2
  <1>5. ~(m > S!BufLen - (0 + Len(b)))
    BY <1>4, Zenon DEF S!BufLen, l
  <1> QED
    BY <1>2, <1>3, <1>4, <1>5, Zenon DEF S!CallRead

\* TryRx is called with k bytes of a request buffered.
LEMMA ServerTry ==
  ASSUME NEW p, p = <<>> \/ ServerFramed(p), NEW k \in Nat, ServerStops(p, k), ServerTryRx
  PROVE  ServerStops(p, k)' /\ toServer' = toServer
  <1>1. /\ spc = "ready" /\ serving = "loop" /\ serving' = "rx" /\ toServer' = toServer
        /\ sbuf = SubSeq(p, 1, k) /\ (k # 0 => k < Len(p) /\ sstart = 0)
        /\ (Len(p) > 8 => k = 0 \/ k = 2 \/ k = 8)
    BY DEF ServerStops, ServerTryRx, S!TryRx
  <1>2. p \in Seq(Byte) /\ Len(p) \in Nat /\ Len(p) <= 256 /\ Len(sbuf) = k /\ k < 256
    <2>1. CASE p = <<>>
      <3>1. k = 0
        BY <1>1, <2>1
      <3>2. SubSeq(<<>>, 1, 0) = <<>>
        OBVIOUS
      <3> QED
        BY <1>1, <2>1, <3>1, <3>2
    <2>2. CASE ServerFramed(p)
      BY <1>1, <2>2, SMTT(30) DEF ServerFramed
    <2> QED
      BY <2>1, <2>2
  <1>3. sbuf' = sbuf /\ sstart' = 0
    <2>1. CASE k = 0
      <3>1. sbuf = <<>>
        BY <1>1, <1>2, <2>1
      <3> QED
        BY <3>1 DEF ServerTryRx, S!TryRx, S!MustReset, S!AfterReset
    <2>2. CASE k # 0
      BY <1>1, <1>2, <2>2 DEF ServerTryRx, S!TryRx, S!MustReset, S!AfterReset, S!dataEnd
    <2> QED
      BY <2>1, <2>2
  <1>4. CASE k < 2
    <2>1. S!CallRead("head", 2 - Len(sbuf'), sstart', sbuf')
      <3>1. Len(sbuf') < 2
        BY <1>2, <1>3, <1>4
      <3> QED
        BY <3>1, Zenon DEF ServerTryRx, S!TryRx
    <2>2. spc' = "head" /\ sneed' = 2 - k
      BY <1>2, <1>3, <1>4, <2>1 DEF S!CallRead, S!BufLen
    <2> QED
      BY <1>1, <1>3, <1>4, <2>2 DEF ServerStops
  <1>5. CASE ~(k < 2)
    <2>1. k # 0 /\ k < Len(p) /\ 2 <= k /\ k >= 2 /\ p # <<>>
      BY <1>1, <1>5
    <2>2. ServerFramed(p)
      BY <2>1
    <2>3. S!InferThenRead(0, SubSeq(p, 1, k))
      <3>1. ~(Len(sbuf') < 2)
        BY <1>2, <1>3, <1>5
      <3>2. S!InferThenRead(sstart', sbuf')
        BY <3>1, Zenon DEF ServerTryRx, S!TryRx
      <3> QED
        BY <1>1, <1>3, <3>2, Zenon
    <2>4. spc' = "body" /\ sneed' = Due(Len(p), k)
      BY <1>1, <1>2, <2>1, <2>2, <2>3, ServerInfersThenReads
    <2> QED
      BY <1>1, <1>3, <2>1, <2>4 DEF ServerStops
  <1> QED
    BY <1>4, <1>5

\* A request TryRx can digest: it arrives as it is asked for, or is a read.
Edible(p) == WholeRequests \/ Len(p) = 8

\* All requests are: port.Read returns all it is asked for, or nobody writes.
Digestible == WholeRequests \/ \A c \in Calls : c.fc # FCWriteMultipleRegisters

LEMMA RequestEdible ==
  ASSUME CrcIsUint16, Digestible, NEW c \in Calls, RequestOf(c) # <<>>
  PROVE  Edible(Packet(c.dev, RequestOf(c)))
  <1>1. CASE WholeRequests
    BY <1>1, Zenon DEF Edible
  <1>2. CASE c.fc # FCWriteMultipleRegisters
    <2> DEFINE r == RequestOf(c)
               p == Packet(c.dev, r)
    <2>1. r \in Seq(Byte) /\ Len(r) = 5 /\ c.dev \in Byte
      BY <1>2, CallFacts, ReadRequest DEF IsRead
    <2> HIDE DEF r
    <2>2. IsPacket(p, c.dev, r)
      BY <2>1, PacketBytes, Zenon
    <2> HIDE DEF p
    <2>3. Len(p) = 8
      BY <2>1, <2>2 DEF IsPacket
    <2> QED
      BY <2>3 DEF Edible, p, r
  <1> QED
    BY <1>1, <1>2, Zenon DEF Digestible

\* The port returns some bytes of a read, whatever number, or as many bytes of
\* a write as it was asked for.
LEMMA ServerReads ==
  ASSUME NEW dev, NEW pdu, NEW p, IsPacket(p, dev, pdu), ServerFramed(p), Edible(p),
         NEW k \in Nat, ServerStops(p, k), ServerRead,
         NEW l \in Seq(Byte), toServer = Rest(p, k, l)
  PROVE  \/ ServerHolds(pdu, dev)' /\ toServer' = l
         \/ \E i \in Nat : ServerStops(p, i)' /\ toServer' = Rest(p, i, l)
  <1> DEFINE n == Len(p)
  <1>1. PICK j \in 0 .. sneed : /\ WholeRequests => j \in {sneed, Len(toServer)}
                                /\ S!ReadReturns(j, FALSE)
    BY Zenon DEF ServerRead
  <1>2. n \in Nat /\ p \in Seq(Byte) /\ n >= 8 /\ n <= 256 /\ (n = 8 \/ n > 8)
    <2>1. n \in Nat /\ p \in Seq(Byte) /\ n >= 8 /\ n <= 256
      BY Zenon DEF ServerFramed
    <2> HIDE DEF n
    <2> QED
      BY <2>1
  <1>3. k <= n /\ sbuf = SubSeq(p, 1, k) /\ k < n /\ (n > 8 => k = 0 \/ k = 2 \/ k = 8)
    BY <1>2 DEF ServerStops
  <1>4. /\ Len(toServer) = n - k + Len(l) /\ serving' = serving /\ Len(l) \in Nat
        /\ n - k <= Len(toServer)
    <2>1. 0 \in Nat /\ k + 0 <= Len(p)
      BY <1>2, <1>3
    <2>2. Len(toServer) = Len(p) - k + Len(l)
      BY <1>2, <2>1, FrontPieces, Zenon
    <2>3. Len(l) \in Nat /\ serving' = serving
      BY DEF ServerRead
    <2> HIDE DEF n
    <2> QED
      BY <1>2, <2>1, <2>2, <2>3 DEF n
  <1>n. n = Len(p)
    OBVIOUS
  <1> HIDE DEF n
  <1>s. /\ spc = "head" \/ spc = "body"
        /\ sstart = 0 /\ serving = "rx"
        /\ spc = "head" => k < 2 /\ sneed = 2 - k
        /\ spc = "body" => k >= 2 /\ 2 <= k /\ sneed = Due(n, k)
    <2>1. spc = "head" \/ spc = "body"
      BY <1>1 DEF S!ReadReturns, S!ReadHead, S!ReadBody
    <2> QED
      BY <1>n, <2>1 DEF ServerStops
  <1>t. sneed \in Nat /\ k + sneed <= n
    <2>1. CASE spc = "head"
      BY <1>2, <1>s, <2>1
    <2>2. CASE spc = "body"
      <3>1. ServerPlace(p, n, k)
        BY <1>2, <1>3, <1>n, <1>s, <2>2, ServerPlaces
      <3> QED
        BY <1>s, <2>2, <3>1, Zenon DEF ServerPlace
    <2> QED
      BY <1>s, <2>1, <2>2
  <1> DEFINE m == k + j
  <1>5. j \in Nat /\ j <= sneed /\ k + j <= n /\ m \in Nat /\ m <= n /\ m = k + j
    BY <1>2, <1>t
  <1>w. n > 8 => j = sneed
    <2>1. n > 8 => j = sneed \/ j = Len(toServer)
      <3>1. n > 8 => n # 8
        BY <1>2
      <3> QED
        BY <1>1, <1>n, <3>1, Zenon DEF Edible
    <2> DEFINE z == Len(toServer)
    <2>2. n - k <= z /\ z = n - k + Len(l) /\ (n > 8 => j = sneed \/ j = z)
      BY <1>4, <2>1
    <2> HIDE DEF z
    <2> QED
      BY <1>2, <1>3, <1>4, <1>5, <1>t, <2>2
  <1>6. /\ sbuf \o SubSeq(toServer, 1, j) = SubSeq(p, 1, m)
        /\ SubSeq(toServer, j + 1, Len(toServer)) = Rest(p, m, l)
    <2>1. p \in Seq(Byte) /\ j \in Nat /\ k \in Nat /\ k + j <= Len(p)
      BY <1>2, <1>5, <1>n
    <2> QED
      BY <1>3, <2>1, FrontPieces, ZenonT(40)
  <1> HIDE DEF m
  <1>7. CASE spc = "head"
    <2>1. k < 2 /\ sneed = 2 - k
      BY <1>7, <1>s
    <2>2. m <= 2 /\ m < n /\ (n > 8 => m = 2)
      BY <1>2, <1>5, <1>w, <2>1
    <2>3. S!ReadHead(j, FALSE)
      BY <1>1, <1>7, Zenon DEF S!ReadReturns, S!ReadBody
    <2>4. sbuf' = SubSeq(p, 1, m) /\ toServer' = Rest(p, m, l) /\ sstart' = 0
      BY <1>6, <1>s, <2>3, Zenon DEF S!ReadHead
    <2>5. Len(sbuf') = m
      BY <1>2, <1>5, <1>n, <2>4
    <2>6. \/ spc' = "ready" /\ sret'.err = "missing"
          \/ spc' = "body" /\ m >= 2 /\ sneed' = Due(n, m)
      <3>1. CASE m < 2
        <4>1. spc' = "ready" /\ sret' = S!Result("missing", <<>>, 0)
          BY <2>3, <2>5, <3>1 DEF S!ReadHead, S!Return
        <4> QED
          BY <4>1 DEF S!Result
      <3>2. CASE ~(m < 2)
        <4>1. S!InferThenRead(0, SubSeq(p, 1, m))
          <5>1. ~(Len(sbuf') < 2)
            BY <2>5, <3>2, Zenon
          <5>2. S!InferThenRead(sstart, sbuf')
            BY <2>3, <5>1, Zenon DEF S!ReadHead
          <5> QED
            BY <1>s, <2>4, <5>2, Zenon
        <4>2. m >= 2 /\ 2 <= m
          BY <1>5, <3>2
        <4>3. spc' = "body" /\ sneed' = Due(n, m)
          BY <1>2, <1>5, <1>n, <2>2, <4>1, <4>2, ServerInfersThenReads
        <4> QED
          BY <4>2, <4>3
      <3> QED
        BY <3>1, <3>2
    <2>7. ServerStops(p, m)'
      BY <1>4, <1>n, <1>s, <2>2, <2>4, <2>6 DEF ServerStops
    <2> QED
      BY <1>5, <2>4, <2>7
  <1>8. CASE spc = "body"
    <2> DEFINE e == S!Infer(sbuf).err
               i == S!Infer(sbuf).n
    <2>1. \/ e = "nil" /\ i + 3 = n /\ sneed = n - k
          \/ e = "missing" /\ n > 8 /\ k = 2 /\ sneed = 6
      <3>1. ServerPlace(p, n, k)
        BY <1>2, <1>3, <1>8, <1>n, <1>s, ServerPlaces
      <3> QED
        BY <1>3, <1>8, <1>s, <3>1, Zenon DEF ServerPlace
    <2>2. S!ReadBody(j, FALSE)
      BY <1>1, <1>8, Zenon DEF S!ReadReturns, S!ReadHead
    <2> HIDE DEF e, i
    <2>3. CASE e = "nil" /\ j >= sneed
      <3>1. m = n /\ i + 3 = n
        BY <1>2, <1>5, <2>1, <2>3
      <3>2. sbuf \o SubSeq(toServer, 1, j) = p /\ SubSeq(toServer, j + 1, Len(toServer)) = l
        <4>1. SubSeq(p, 1, n) = p /\ Rest(p, n, l) = l
          BY <1>2, AllOrNone, Zenon DEF n, Rest
        <4> QED
          BY <1>6, <3>1, <4>1, Zenon
      <3>3. toServer' = l /\ S!Deliver(SubSeq(p, 1, n)) /\ S!Consume(p, n)
        BY <2>2, <2>3, <3>1, <3>2, Zenon DEF S!ReadBody, e, i
      <3>4. SubSeq(p, 1, n) = p /\ SubSeq(p, n + 1, Len(p)) = <<>>
        BY <1>2, AllOrNone DEF n
      <3>5. sbuf' = <<>>
        BY <3>3, <3>4 DEF S!Consume
      <3>6. S!Deliver(p)
        BY <3>3, <3>4, Zenon
      <3>7. spc' = "ready" /\ sret' = S!Result("nil", pdu, dev)
        BY <3>6, Zenon DEF S!Deliver, S!Return, IsPacket
      <3> QED
        BY <1>4, <1>s, <3>3, <3>5, <3>7 DEF ServerHolds
    <2>4. CASE ~(e = "nil" /\ j >= sneed)
      <3>1. e = "nil" \/ e = "missing"
        BY <2>1, Zenon
      <3>2. m < n /\ (n > 8 => m = 8)
        BY <1>2, <1>5, <1>w, <2>1, <2>4
      <3>3. /\ sbuf' = SubSeq(p, 1, m) /\ toServer' = Rest(p, m, l) /\ sstart' = 0
            /\ spc' = "ready" /\ sret' = S!Result("missing", <<>>, 0)
        BY <1>6, <1>s, <2>2, <2>4, <3>1, Zenon DEF S!ReadBody, S!Return, e
      <3>4. sret'.err = "missing"
        BY <3>3 DEF S!Result
      <3>5. ServerStops(p, m)'
        BY <1>4, <1>n, <1>s, <3>2, <3>3, <3>4 DEF ServerStops
      <3> QED
        BY <1>5, <3>3, <3>5
    <2> QED
      BY <2>3, <2>4
  <1> QED
    BY <1>7, <1>8, <1>s

\* No request is on its way.
LEMMA NothingToRead ==
  ASSUME ServerHas(<<>>), ServerRead
  PROVE  ServerHas(<<>>)'
  <1>1. PICK k \in Nat : ServerAt(<<>>, k)
    BY DEF ServerHas
  <1>2. k = 0 /\ sbuf = <<>> /\ toServer = <<>>
    BY <1>1 DEF ServerAt, ServerStops
  <1>3. PICK j \in 0 .. sneed : S!ReadReturns(j, FALSE)
    BY Zenon DEF ServerRead
  <1>4. j = 0 /\ spc = "head" /\ serving = "rx" /\ S!ReadHead(j, FALSE)
    BY <1>1, <1>2, <1>3, SMTT(30) DEF ServerAt, ServerStops, S!ReadReturns, S!PortRead, S!ReadHead, S!ReadBody
  <1>5. sbuf' = <<>> /\ toServer' = <<>>
    BY <1>2, <1>4 DEF S!ReadHead
  <1>6. spc' = "ready" /\ sret' = S!Result("missing", <<>>, 0) /\ serving' = "rx"
    BY <1>4, <1>5 DEF S!ReadHead, S!Return, ServerRead
  <1>7. sret'.err = "missing"
    BY <1>6 DEF S!Result
  <1>8. ServerAt(<<>>, 0)'
    BY <1>5, <1>6, <1>7 DEF ServerAt, ServerStops
  <1> QED
    BY <1>8 DEF ServerHas

\* HandleNext drops what is not for it, or tries again.
LEMMA Dropped ==
  ASSUME NEW p, ServerHas(p), NotForUs
  PROVE  ServerHas(p)'
  <1>1. PICK k \in Nat : ServerAt(p, k)
    BY DEF ServerHas
  <1>2. ServerAt(p, k)'
    BY <1>1 DEF ServerAt, ServerStops, NotForUs, line, srx
  <1> QED
    BY <1>2 DEF ServerHas

LEMMA DroppedRequest ==
  ASSUME NEW pdu, NEW dev, ServerGot(pdu, dev), NotForUs
  PROVE  ServerHas(<<>>)'
  <1>1. /\ sbuf' = <<>> /\ toServer' = <<>> /\ serving' = "loop" /\ spc' = "ready"
    BY DEF ServerGot, ServerHolds, NotForUs, line, srx
  <1>2. ServerAt(<<>>, 0)'
    BY <1>1 DEF ServerAt, ServerStops
  <1> QED
    BY <1>2 DEF ServerHas

\* A server that has not got a whole request has nothing to handle.
LEMMA NothingToHandle ==
  ASSUME NEW p, ServerHas(p)
  PROVE  ~Handle /\ serving # "panic" /\ spc # "panic"
BY DEF ServerHas, ServerAt, ServerStops, Handle

--------------------------------------------------------------------------------
(***************************************************************************)
(* The client receives an answer.                                          *)
(***************************************************************************)

\* What there is to know of the places a client may stop at.
LEMMA ClientPlaces ==
  ASSUME NEW a, ClientFramed(a), NEW n \in Nat, NEW k \in Nat, 2 <= k, k <= n, n > 2 => k < n
  PROVE  n = Len(a) =>
           LET x == C!Infer(SubSeq(a, 1, k)) IN
           /\ C!Missing(SubSeq(a, 1, k)) = Missing(a, k) /\ Missing(a, k) \in Nat
           /\ Missing(a, k) >= 1 /\ Missing(a, k) <= 255
           /\ \/ x.err = "nil" /\ x.n + 3 = n /\ Missing(a, k) = n - k /\ n > 2
              \/ x.err = "missing" /\ (n = 2 \/ Missing(a, k) < n - k)
  <1> DEFINE b == SubSeq(a, 1, k)
             x == C!Infer(b)
             u == Unknown(a, k)
  <1>1. SUFFICES ASSUME n = Len(a)
                 PROVE  /\ C!Missing(b) = Missing(a, k) /\ Missing(a, k) \in Nat
                        /\ Missing(a, k) >= 1 /\ Missing(a, k) <= 255
                        /\ \/ x.err = "nil" /\ x.n + 3 = n /\ Missing(a, k) = n - k /\ n > 2
                           \/ x.err = "missing" /\ (n = 2 \/ Missing(a, k) < n - k)
    BY Zenon
  <1>2. n <= 255 /\ (n > 2 => n >= 7)
    BY <1>1 DEF ClientFramed
  <1>3. x = IF u THEN [n |-> 1, err |-> "missing"] ELSE [n |-> n - 3, err |-> "nil"]
    BY <1>1 DEF ClientFramed, Inferred
  <1>4. Len(b) = k
    BY <1>1 DEF ClientFramed
  <1>5. C!Missing(b) = x.n + 3 - k
    BY <1>4 DEF C!Missing
  <1>6. u = (n = 2 \/ (k = 2 /\ a[2] # FCWriteMultipleRegisters)) /\ Missing(a, k) = IF u THEN 2 ELSE n - k
    BY <1>1, Zenon DEF Unknown, Missing
  <1>7. (u => x.n = 1 /\ x.err = "missing") /\ (~u => x.n = n - 3 /\ x.err = "nil")
    BY <1>3
  <1> HIDE DEF b, x, u
  <1> DEFINE m == Missing(a, k)
             e == x.err
             l == x.n
             w == C!Missing(b)
             c == a[2] # FCWriteMultipleRegisters
  <1> HIDE DEF m, e, l, w, c
  <1>8. /\ w = m /\ m \in Nat /\ m >= 1 /\ m <= 255
        /\ \/ e = "nil" /\ l + 3 = n /\ m = n - k /\ n > 2
           \/ e = "missing" /\ (n = 2 \/ m < n - k)
    <2>1. /\ w = l + 3 - k /\ u = (n = 2 \/ (k = 2 /\ c)) /\ m = IF u THEN 2 ELSE n - k
          /\ (u => l = 1 /\ e = "missing") /\ (~u => l = n - 3 /\ e = "nil")
      BY <1>5, <1>6, <1>7 DEF m, e, l, w, c
    <2>2. CASE u
      <3>1. l = 1 /\ e = "missing" /\ m = 2 /\ (n = 2 \/ k = 2) /\ w = l + 3 - k
        BY <2>1, <2>2, Zenon
      <3>2. k = 2 /\ (n = 2 \/ n >= 7)
        BY <1>2, <3>1
      <3> QED
        BY <3>1, <3>2
    <2>3. CASE ~u
      <3>1. l = n - 3 /\ e = "nil" /\ m = n - k /\ n # 2 /\ w = l + 3 - k
        BY <2>1, <2>3
      <3> QED
        BY <1>2, <3>1
    <2> QED
      BY <2>2, <2>3
  <1> QED
    BY <1>8 DEF m, e, l, w

\* The client stops in the middle of an answer, or at the end of an exception.
LEMMA ClientStops ==
  ASSUME NEW a, NEW k \in Nat, k <= Len(a), Len(a) \in Nat, Len(a) > 2 => k < Len(a),
         (cbuf = SubSeq(a, 1, k) /\ toClient = SubSeq(a, k + 1, Len(a)) /\ cstart = 0)',
         \/ (st = "rx" /\ cpc = "ready" /\ cret.err = "missing" /\ cret.pdu = <<>>)'
         \/ (st = "rx" /\ cpc = "head" /\ k < 2 /\ cneed = 2 - k)'
         \/ (st = "rx" /\ cpc = "body" /\ k >= 2 /\ cneed = Missing(a, k))'
  PROVE  ClientHas(a)'
  <1>1. ClientAt(a, k)'
    BY Zenon DEF ClientAt
  <1>2. k \in 0 .. Len(a)
    OBVIOUS
  <1> QED
    BY <1>1, <1>2, Zenon DEF ClientHas

\* The length is inferred from two bytes or more: the rest is asked for.
LEMMA ClientInfersThenReads ==
  ASSUME NEW a, ClientFramed(a), NEW k \in Nat, 2 <= k, k <= Len(a), Len(a) > 2 => k < Len(a),
         C!InferThenRead(0, SubSeq(a, 1, k))
  PROVE  cpc' = "body" /\ cneed' = Missing(a, k)
  <1> DEFINE b == SubSeq(a, 1, k)
  <1>1. /\ Len(a) \in Nat /\ Len(a) <= 255 /\ Len(b) = k
    BY DEF ClientFramed
  <1>2. /\ C!Infer(b).err # "badfc" /\ C!Missing(b) = Missing(a, k)
        /\ Missing(a, k) \in Nat /\ Missing(a, k) >= 1 /\ Missing(a, k) <= 255
    BY <1>1, ClientPlaces, SMTT(30)
  <1> HIDE DEF b
  <1>3. C!CallRead("body", Missing(a, k), 0, b)
    BY <1>2 DEF C!InferThenRead, b
  <1>4. ~(Missing(a, k) > C!BufLen - (0 + Len(b))) /\ ~(Missing(a, k) <= 0)
    BY <1>1, <1>2 DEF C!BufLen
  <1> QED
    BY <1>3, <1>4, Zenon DEF C!CallRead

\* TryRx is called with k bytes of an answer buffered.
LEMMA ClientTry ==
  ASSUME NEW a, ClientFramed(a), ClientHas(a), ClientTryRx
  PROVE  ClientHas(a)'
  <1> DEFINE n == Len(a)
  <1>0. PICK k \in 0 .. n : ClientAt(a, k)
    BY DEF ClientHas
  <1>1. /\ n \in Nat /\ n <= 255 /\ k \in Nat /\ k <= n /\ (n > 2 => k < n) /\ a \in Seq(Byte)
    BY <1>0 DEF ClientFramed, ClientAt
  <1>2. /\ cpc = "ready" /\ st' = "rx" /\ toClient' = toClient
        /\ cbuf = SubSeq(a, 1, k) /\ toClient = SubSeq(a, k + 1, n) /\ (k # 0 => cstart = 0)
    BY <1>0 DEF ClientAt, ClientTryRx, C!TryRx
  <1>3. Len(cbuf) = k /\ (k = 0 => cbuf = <<>>)
    BY <1>1, <1>2
  <1>4. cbuf' = cbuf /\ cstart' = 0
    <2>1. CASE k = 0
      BY <1>3, <2>1 DEF ClientTryRx, C!TryRx, C!MustReset, C!AfterReset
    <2>2. CASE k # 0
      <3>1. ~C!MustReset
        BY <1>1, <1>2, <1>3, <2>2 DEF C!MustReset, C!dataEnd
      <3> QED
        BY <1>2, <2>2, <3>1 DEF ClientTryRx, C!TryRx
    <2> QED
      BY <2>1, <2>2
  <1>5. IF k < 2 THEN C!CallRead("head", 2 - k, 0, cbuf) ELSE C!InferThenRead(0, cbuf)
    <2>1. IF Len(cbuf') < 2 THEN C!CallRead("head", 2 - Len(cbuf'), cstart', cbuf')
          ELSE C!InferThenRead(cstart', cbuf')
      BY DEF ClientTryRx, C!TryRx
    <2> QED
      BY <1>3, <1>4, <2>1, Zenon
  <1>6. \/ cpc' = "head" /\ k < 2 /\ cneed' = 2 - k
        \/ cpc' = "body" /\ k >= 2 /\ cneed' = Missing(a, k)
    <2>1. CASE k < 2
      <3>1. C!CallRead("head", 2 - k, 0, cbuf)
        BY <1>5, <2>1
      <3>2. ~(2 - k > C!BufLen - (0 + Len(cbuf))) /\ ~(2 - k <= 0)
        BY <1>1, <1>3, <2>1 DEF C!BufLen
      <3> QED
        BY <2>1, <3>1, <3>2, Zenon DEF C!CallRead
    <2>2. CASE ~(k < 2)
      <3>1. C!InferThenRead(0, SubSeq(a, 1, k))
        BY <1>2, <1>5, <2>2, Zenon
      <3>2. k >= 2 /\ 2 <= k
        BY <1>1, <2>2
      <3> QED
        BY <1>1, <3>1, <3>2, ClientInfersThenReads
    <2> QED
      BY <2>1, <2>2
  <1> QED
    BY <1>1, <1>2, <1>4, <1>6, ClientStops, Zenon

\* The port returns some bytes of an answer, whatever number.
LEMMA ClientReads ==
  ASSUME Patient, NEW a, ClientFramed(a), NEW pdu, Len(a) > 2 => IsPacket(a, address, pdu),
         ClientHas(a), ClientRead
  PROVE  ClientHas(a)' \/ (Len(a) > 2 /\ ClientGot(pdu)')
  <1> DEFINE n == Len(a)
  <1>0. PICK k \in 0 .. n : ClientAt(a, k)
    BY DEF ClientHas
  <1>1. PICK j \in 0 .. cneed : C!ReadReturns(j, FALSE)
    <2>1. PortFails = FALSE
      BY LinkAssumption, Zenon DEF Patient
    <2>2. PICK j \in 0 .. cneed, failed \in {FALSE, PortFails} : C!ReadReturns(j, failed)
      BY Zenon DEF ClientRead
    <2>3. failed = FALSE
      BY <2>1, <2>2, Zenon
    <2> QED
      BY <2>2, <2>3, Zenon
  <1>2. /\ n \in Nat /\ n <= 255 /\ k \in Nat /\ k <= n /\ (n > 2 => k < n) /\ a \in Seq(Byte)
        /\ (n > 2 => n >= 7)
    BY <1>0, SMTT(30) DEF ClientFramed, ClientAt
  <1>3. /\ cbuf = SubSeq(a, 1, k) /\ toClient = SubSeq(a, k + 1, n) /\ cstart = 0
        /\ st = "rx" /\ st' = "rx" /\ (cpc = "head" \/ cpc = "body")
    <2>1. cpc = "head" \/ cpc = "body"
      BY <1>1 DEF C!ReadReturns, C!ReadHead, C!ReadBody
    <2> QED
      BY <1>0, <2>1 DEF ClientAt, ClientRead
  <1>4. Len(toClient) = n - k
    BY <1>2, <1>3
  <1>5. j \in Nat /\ j <= cneed /\ cneed \in Nat /\ k + j <= n
    <2>1. j <= Len(toClient)
      BY <1>1 DEF C!ReadReturns, C!PortRead
    <2>2. cneed \in Nat
      <3>1. CASE cpc = "head"
        <4>1. k < 2 /\ cneed = 2 - k
          BY <1>0, <3>1, Zenon DEF ClientAt
        <4>2. k \in Nat
          BY <1>2, Zenon
        <4> QED
          BY <4>1, <4>2
      <3>2. CASE cpc = "body"
        <4>1. k >= 2 /\ 2 <= k /\ cneed = Missing(a, k)
          BY <1>0, <1>2, <3>2 DEF ClientAt
        <4> QED
          BY <1>2, <4>1, ClientPlaces
      <3> QED
        BY <1>3, <3>1, <3>2
    <2> HIDE DEF n
    <2> QED
      BY <1>2, <1>4, <2>1, <2>2
  <1>6. /\ cbuf \o SubSeq(toClient, 1, j) = SubSeq(a, 1, k + j)
        /\ SubSeq(toClient, j + 1, Len(toClient)) = SubSeq(a, k + j + 1, n)
    <2>1. /\ SubSeq(a, 1, k) \o SubSeq(SubSeq(a, k + 1, n), 1, j) = SubSeq(a, 1, k + j)
          /\ SubSeq(SubSeq(a, k + 1, n), j + 1, Len(SubSeq(a, k + 1, n))) = SubSeq(a, k + j + 1, n)
      BY <1>2, <1>5, Pieces
    <2> QED
      BY <1>3, <2>1, Zenon
  <1>n. n = Len(a)
    OBVIOUS
  <1> HIDE DEF n
  <1> DEFINE m == k + j
  <1>m. m \in Nat /\ m <= n /\ m = k + j
    BY <1>2, <1>5
  <1>7. CASE cpc = "head"
    <2>1. k < 2 /\ cneed = 2 - k
      BY <1>0, <1>7 DEF ClientAt
    <2>2. m <= 2 /\ (n > 2 => m < n)
      BY <1>2, <1>5, <1>m, <2>1
    <2> HIDE DEF m
    <2>3. C!ReadHead(j, FALSE)
      BY <1>1, <1>7, Zenon DEF C!ReadReturns, C!ReadBody
    <2>4. cbuf' = SubSeq(a, 1, m) /\ toClient' = SubSeq(a, m + 1, n) /\ cstart' = 0
      BY <1>3, <1>6, <1>m, <2>3, Zenon DEF C!ReadHead
    <2>5. Len(cbuf') = m
      BY <1>2, <1>m, <1>n, <2>4
    <2>6. \/ cpc' = "ready" /\ cret'.err = "missing" /\ cret'.pdu = <<>>
          \/ cpc' = "body" /\ m >= 2 /\ cneed' = Missing(a, m)
      <3>1. CASE m < 2
        <4>1. cpc' = "ready" /\ cret' = C!Result("missing", <<>>, 0)
          BY <2>3, <2>5, <3>1 DEF C!ReadHead, C!Return
        <4> QED
          BY <4>1 DEF C!Result
      <3>2. CASE ~(m < 2)
        <4>1. C!InferThenRead(0, SubSeq(a, 1, m))
          <5>1. ~(Len(cbuf') < 2)
            BY <2>5, <3>2, Zenon
          <5>2. C!InferThenRead(cstart, cbuf')
            BY <2>3, <5>1, Zenon DEF C!ReadHead
          <5> QED
            BY <1>3, <2>4, <5>2, Zenon
        <4>2. m >= 2 /\ 2 <= m
          BY <1>m, <3>2
        <4>3. cpc' = "body" /\ cneed' = Missing(a, m)
          BY <1>m, <1>n, <2>2, <4>1, <4>2, ClientInfersThenReads
        <4> QED
          BY <4>2, <4>3
      <3> QED
        BY <3>1, <3>2
    <2> QED
      BY <1>2, <1>3, <1>m, <1>n, <2>2, <2>4, <2>6, ClientStops, Zenon
  <1>8. CASE cpc = "body"
    <2>1. k >= 2 /\ 2 <= k /\ cneed = Missing(a, k)
      BY <1>0, <1>2, <1>8 DEF ClientAt
    <2> DEFINE e == C!Infer(cbuf).err
               l == C!Infer(cbuf).n
    <2>2. \/ e = "nil" /\ l + 3 = n /\ cneed = n - k /\ n > 2
          \/ e = "missing" /\ (n = 2 \/ cneed < n - k)
      <3>1. LET x == C!Infer(SubSeq(a, 1, k)) IN
            \/ x.err = "nil" /\ x.n + 3 = n /\ Missing(a, k) = n - k /\ n > 2
            \/ x.err = "missing" /\ (n = 2 \/ Missing(a, k) < n - k)
        BY <1>2, <1>n, <2>1, ClientPlaces, SMTT(30)
      <3> QED
        BY <1>3, <2>1, <3>1, Zenon
    <2>3. C!ReadBody(j, FALSE)
      BY <1>1, <1>8, Zenon DEF C!ReadReturns, C!ReadHead
    <2> HIDE DEF e, l, m
    <2>4. CASE e = "nil" /\ j >= cneed
      <3>1. m = n /\ l + 3 = n /\ n > 2
        BY <1>2, <1>5, <1>m, <2>2, <2>4
      <3>2. cbuf \o SubSeq(toClient, 1, j) = a /\ SubSeq(toClient, j + 1, Len(toClient)) = <<>>
        <4>1. SubSeq(a, 1, n) = a /\ SubSeq(a, n + 1, n) = <<>>
          BY <1>2, <1>n, AllOrNone
        <4> QED
          BY <1>6, <1>m, <3>1, <4>1, Zenon
      <3>3. toClient' = <<>> /\ C!Deliver(SubSeq(a, 1, n)) /\ C!Consume(a, n)
        BY <2>3, <2>4, <3>1, <3>2, Zenon DEF C!ReadBody, e, l
      <3>4. SubSeq(a, 1, n) = a /\ SubSeq(a, n + 1, Len(a)) = <<>>
        BY <1>2, <1>n, AllOrNone
      <3>5. cbuf' = <<>>
        BY <3>3, <3>4 DEF C!Consume
      <3>6. C!Deliver(a)
        BY <3>3, <3>4, Zenon
      <3>7. IsPacket(a, address, pdu) /\ Len(a) > 2
        BY <1>n, <3>1
      <3>8. cpc' = "ready" /\ cret' = C!Result("nil", pdu, address)
        BY <3>6, <3>7, Zenon DEF C!Deliver, C!Return, IsPacket
      <3> QED
        BY <1>3, <3>3, <3>5, <3>7, <3>8 DEF ClientGot
    <2>5. CASE ~(e = "nil" /\ j >= cneed)
      <3>1. e = "nil" \/ e = "missing"
        BY <2>2, Zenon
      <3>2. n > 2 => m < n
        BY <1>2, <1>5, <1>m, <2>2, <2>5
      <3>3. /\ cbuf' = SubSeq(a, 1, m) /\ toClient' = SubSeq(a, m + 1, n) /\ cstart' = 0
            /\ cpc' = "ready" /\ cret' = C!Result("missing", <<>>, 0)
        BY <1>3, <1>6, <1>m, <2>3, <2>5, <3>1, Zenon DEF C!ReadBody, C!Return, e
      <3>4. cret'.err = "missing" /\ cret'.pdu = <<>>
        BY <3>3 DEF C!Result
      <3> QED
        BY <1>2, <1>3, <1>m, <1>n, <3>2, <3>3, <3>4, ClientStops, Zenon
    <2> QED
      BY <2>4, <2>5
  <1> QED
    BY <1>3, <1>7, <1>8

\* What is not an answer sends transaction round its loop.
LEMMA ClientGoesOn ==
  ASSUME NEW a, ClientHas(a), Examine
  PROVE  ClientHas(a)' /\ errcount' = errcount + 0 /\ UNCHANGED <<call, result>>
  <1>0. PICK k \in 0 .. Len(a) : ClientAt(a, k)
    BY DEF ClientHas
  <1>1. cret.err = "missing" /\ cret.pdu = <<>> /\ st = "rx" /\ cpc = "ready"
    BY <1>0 DEF ClientAt, Examine
  <1>2. ~Matches
    BY <1>1 DEF Matches
  <1>3. st' = "loop" /\ errcount' = errcount + 0 /\ UNCHANGED <<call, result>>
    BY <1>1, <1>2 DEF Examine
  <1>4. ClientAt(a, k)'
    BY <1>0, <1>1, <1>3 DEF ClientAt, Examine, line, crx
  <1> QED
    BY <1>3, <1>4 DEF ClientHas
================================================================================
