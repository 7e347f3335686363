--------------------------- MODULE InterpreterProofs ---------------------------
(***************************************************************************)
(* Proofs about Interpreter: a number of two to four words is got as it    *)
(* was put, for any number of goroutines, any bank and any numbers in it.  *)
(***************************************************************************)
EXTENDS Interpreter, DataModelProofs

--------------------------------------------------------------------------------
(***************************************************************************)
(* The inductive invariant, on top of IInv.  PutInv: a put has stored the  *)
(* words it has visited.  WholeInv: the registers of a number hold all the *)
(* words of one value, or somebody is putting one.                         *)
(***************************************************************************)
InBank(d) == \A k \in 0 .. d.n - 1 : <<d.table, d.start + k>> \in Cell

Holds(m, d, v, n) == \A k \in 0 .. n - 1 : m[<<d.table, d.start + k>>] = putUintReg(d, v)[k + 1]

Putting(p, d, v) == Running(p) /\ op[p] = Put(d, v)

PutInv == \A p \in Proc : \A d \in Numbers : \A v \in d.vals :
  Putting(p, d, v) /\ InBank(d) => Holds(mem, d, v, i[p])

WholeInv == \A d \in Numbers : InBank(d) =>
  \/ \E v \in d.vals \cup {0} : Holds(mem, d, v, d.n)
  \/ \E p \in Proc : \E v \in d.vals : Putting(p, d, v)

NumberInv == PutInv /\ WholeInv

--------------------------------------------------------------------------------
(***************************************************************************)
(* Words and numbers.                                                      *)
(***************************************************************************)

\* Quotient and remainder.
LEMMA DivMod ==
  ASSUME NEW b \in Nat, b >= 1, NEW v \in Nat
  PROVE  /\ v \div b \in Nat /\ v % b \in Nat /\ v % b < b
         /\ v = (v \div b) * b + (v % b)
  OBVIOUS

\* There is only one quotient.
LEMMA DivUnique ==
  ASSUME NEW b \in Nat, b >= 1, NEW q \in Nat, NEW r \in Nat, r < b
  PROVE  (q * b + r) \div b = q
  OBVIOUS

\* Shifting by b and then by c is shifting by b*c.
LEMMA DivDiv ==
  ASSUME NEW b \in Nat, b >= 1, NEW c \in Nat, c >= 1, NEW v \in Nat
  PROVE  b * c \in Nat /\ b * c >= 1 /\ v \div (b * c) = (v \div b) \div c
<1> DEFINE q == v \div b
           r == v % b
           p == q \div c
           s == q % c
           y == s * b + r
<1>1. q \in Nat /\ r \in Nat /\ r < b /\ v = q * b + r
  BY DivMod
<1>2. p \in Nat /\ s \in Nat /\ s <= c - 1 /\ q = p * c + s
  BY <1>1, DivMod
<1> HIDE DEF q, r, p, s
<1>3. b * c \in Nat /\ b * c >= 1
  OBVIOUS
<1>4. y \in Nat /\ y < b * c
  <2>1. s * b \in Nat /\ s * b <= (c - 1) * b /\ (c - 1) * b = b * c - b
    BY <1>2
  <2> QED
    BY <1>1, <1>3, <2>1
<1>5. v = p * (b * c) + y
  BY <1>1, <1>2
<1> HIDE DEF y
<1>6. v \div (b * c) = p
  <2> DEFINE x == b * c
  <2> HIDE DEF x
  <2>1. (p * x + y) \div x = p
    BY <1>2, <1>3, <1>4, DivUnique DEF x
  <2> QED
    BY <1>5, <2>1 DEF x
<1> QED
  BY <1>3, <1>6 DEF p, q

\* The quotients by the weights, one word at a time.
LEMMA Quotients ==
  ASSUME NEW v \in Nat
  PROVE  /\ v \div Weight(0) = v
         /\ v \div Weight(1) = v \div Base
         /\ v \div Weight(2) = (v \div Base) \div Base
         /\ v \div Weight(3) = ((v \div Base) \div Base) \div Base
<1>1. Weight(0) = 1 /\ Weight(1) = Base /\ Weight(2) = Base * Base /\ Weight(3) = Base * Base * Base
  BY BaseAssumption DEF Weight
<1>2. v \div 1 = v
  OBVIOUS
<1>3. Base * Base \in Nat /\ Base * Base >= 1 /\ v \div (Base * Base) = (v \div Base) \div Base
  BY BaseAssumption, DivDiv
<1>4. v \div ((Base * Base) * Base) = (v \div (Base * Base)) \div Base
  BY BaseAssumption, <1>3, DivDiv
<1> QED
  BY <1>1, <1>2, <1>3, <1>4

\* The quotient of a number below b*m.
LEMMA DivBelow ==
  ASSUME NEW b \in Nat, b >= 1, NEW m \in Nat, NEW v \in Nat, v < b * m
  PROVE  v \div b < m
<1> DEFINE q == v \div b
<1>1. q \in Nat /\ v % b \in Nat /\ v = q * b + (v % b)
  BY DivMod
<1> HIDE DEF q
<1>2. SUFFICES ASSUME q >= m PROVE FALSE
  BY <1>1 DEF q
<1>3. q * b >= m * b /\ m * b = b * m
  BY <1>1, <1>2
<1> QED
  BY <1>1, <1>3

\* Word k of v, counted from the least significant one.
Digit(v, k) == (v \div Weight(k)) % Base

\* Words one after the other: the rest, times Base, plus the word.
LEMMA DigitStep ==
  ASSUME NEW x \in Nat
  PROVE  /\ x \div Base \in Nat /\ x % Base \in Nat
         /\ x = (x \div Base) * Base + (x % Base)
         /\ x < Base => x % Base = x
  BY BaseAssumption, DivMod

\* A number of two to four words is the sum of its words, each with its weight.
LEMMA SumOfDigits ==
  ASSUME NEW v \in Nat
  PROVE  /\ \A k \in 0 .. 3 : Digit(v, k) \in Nat
         /\ v < Base * Weight(1) => v = Digit(v, 0) + Digit(v, 1) * Weight(1)
         /\ v < Base * Weight(2) => v = Digit(v, 0) + Digit(v, 1) * Weight(1) + Digit(v, 2) * Weight(2)
         /\ v < Base * Weight(3) => v = Digit(v, 0) + Digit(v, 1) * Weight(1) + Digit(v, 2) * Weight(2)
                                         + Digit(v, 3) * Weight(3)
<1> DEFINE b == Base
           q1 == v \div b
           q2 == q1 \div b
           q3 == q2 \div b
           d0 == v % b
           d1 == q1 % b
           d2 == q2 % b
           d3 == q3 % b
<1>0. b \in Nat /\ b >= 2 /\ b * b \in Nat /\ b * b * b \in Nat
  BY BaseAssumption
<1>1. /\ Digit(v, 0) = d0 /\ Digit(v, 1) = d1 /\ Digit(v, 2) = d2 /\ Digit(v, 3) = d3
      /\ Weight(1) = b /\ Weight(2) = b * b /\ Weight(3) = b * b * b
  <2>1. Weight(1) = b /\ Weight(2) = b * b /\ Weight(3) = b * b * b
    BY <1>0 DEF Weight
  <2> QED
    BY <2>1, Quotients, Zenon DEF Digit
<1>2. q1 \in Nat /\ d0 \in Nat /\ v = q1 * b + d0
  BY DigitStep
<1>3. q2 \in Nat /\ d1 \in Nat /\ q1 = q2 * b + d1 /\ (q1 < b => d1 = q1)
  BY <1>2, DigitStep
<1>4. q3 \in Nat /\ d2 \in Nat /\ q2 = q3 * b + d2 /\ (q2 < b => d2 = q2)
  BY <1>3, DigitStep
<1>5. d3 \in Nat /\ (q3 < b => d3 = q3)
  BY <1>4, DigitStep
<1>6. ASSUME NEW x \in Nat, NEW m \in Nat, x < b * m PROVE x \div b < m
  BY <1>0, <1>6, DivBelow
<1>7. /\ v < b * b => q1 < b
      /\ v < b * (b * b) => q1 < b * b
      /\ v < b * (b * b * b) => q1 < b * b * b
      /\ q1 < b * b => q2 < b
      /\ q1 < b * (b * b) => q2 < b * b
      /\ q2 < b * b => q3 < b
  BY <1>0, <1>2, <1>3, <1>6, Zenon
<1> HIDE DEF b, q1, q2, q3, d0, d1, d2, d3
<1>8. v < b * b => v = d0 + d1 * b
  BY <1>0, <1>2, <1>3, <1>7
<1>9. v < b * (b * b) => v = d0 + d1 * b + d2 * (b * b)
  <2> SUFFICES ASSUME v < b * (b * b) PROVE v = d0 + d1 * b + d2 * (b * b)
    OBVIOUS
  <2>1. d2 = q2
    BY <1>4, <1>7
  <2>2. q1 = d2 * b + d1
    BY <1>3, <2>1
  <2> QED
    BY <1>0, <1>2, <1>3, <1>4, <2>2
<1>10. v < b * (b * b * b) => v = d0 + d1 * b + d2 * (b * b) + d3 * (b * b * b)
  <2> SUFFICES ASSUME v < b * (b * b * b) PROVE v = d0 + d1 * b + d2 * (b * b) + d3 * (b * b * b)
    OBVIOUS
  <2>1. b * b * b = b * (b * b)
    BY <1>0
  <2>2. d3 = q3
    BY <1>5, <1>7, <2>1
  <2>3. q2 = d3 * b + d2
    BY <1>4, <2>2
  <2>4. q1 = d3 * (b * b) + d2 * b + d1
    BY <1>0, <1>3, <1>4, <1>5, <2>3
  <2> QED
    BY <1>0, <1>2, <1>3, <1>4, <1>5, <2>4
<1>11. \A k \in 0 .. 3 : Digit(v, k) \in Nat
  <2>1. \A k \in 0 .. 3 : k = 0 \/ k = 1 \/ k = 2 \/ k = 3
    OBVIOUS
  <2> QED
    BY <1>1, <1>2, <1>3, <1>4, <1>5, <2>1, Zenon
<1> QED
  BY <1>1, <1>8, <1>9, <1>10, <1>11 DEF b

\* What uintReg adds up, word by word.
LEMMA UintRegSum ==
  ASSUME NEW d, d.n \in 2 .. 4, NEW words, NEW t \in [0 .. 3 -> Int],
         \A j \in 0 .. d.n - 1 : words[j] * Weight(shift(d, j)) = t[j],
         \A j \in d.n .. 3 : t[j] = 0
  PROVE  uintReg(d, words) = t[0] + t[1] + t[2] + t[3]
<1> DEFINE S == 0 .. d.n - 1
           Term(j) == words[j] * Weight(shift(d, j))
           x(s) == CHOOSE y \in s : TRUE
           In(s, j) == IF j \in s THEN t[j] ELSE 0
           total == [s \in SUBSET S |-> In(s, 0) + In(s, 1) + In(s, 2) + In(s, 3)]
           Body(h) == [s \in SUBSET S |-> IF s = {} THEN 0 ELSE Term(x(s)) + h[s \ {x(s)}]]
           iter == CHOOSE h : h = Body(h)
<1>1. uintReg(d, words) = iter[S]
  BY DEF uintReg, MapThenSumSet, MapThenFoldSet
<1>2. S \subseteq 0 .. 3 /\ \A j \in 0 .. 3 : j \in S \/ j \in d.n .. 3
  OBVIOUS
<1>3. ASSUME NEW s \in SUBSET S, NEW y \in s
      PROVE  total[s] = t[y] + total[s \ {y}]
  <2>1. t[0] \in Int /\ t[1] \in Int /\ t[2] \in Int /\ t[3] \in Int
    OBVIOUS
  <2>2. total[s] = In(s, 0) + In(s, 1) + In(s, 2) + In(s, 3)
    OBVIOUS
  <2>3. total[s \ {y}] = In(s \ {y}, 0) + In(s \ {y}, 1) + In(s \ {y}, 2) + In(s \ {y}, 3)
    OBVIOUS
  <2>4. y = 0 \/ y = 1 \/ y = 2 \/ y = 3
    BY <1>2
  <2> HIDE DEF total
  <2> QED
    BY <2>1, <2>2, <2>3, <2>4
<1>4. ASSUME NEW s \in SUBSET S, s # {}
      PROVE  x(s) \in s /\ total[s] = Term(x(s)) + total[s \ {x(s)}]
  <2>1. x(s) \in s
    BY <1>4
  <2>2. Term(x(s)) = t[x(s)]
    BY <2>1
  <2> HIDE DEF total, x, Term
  <2> QED
    BY <1>3, <2>1, <2>2, Zenon
<1>5. total[{}] = 0
  OBVIOUS
<1>6. total[S] = t[0] + t[1] + t[2] + t[3]
  BY <1>2
<1>7. total = Body(total)
  BY <1>4, <1>5, Zenon
<1>8. iter = Body(iter)
  BY <1>7, Zenon
<1> HIDE DEF total, iter
<1>9. iter[{}] = 0
  BY <1>8
<1>10. ASSUME NEW s \in SUBSET S, s # {}, iter[s \ {x(s)}] = total[s \ {x(s)}]
       PROVE  iter[s] = total[s]
  <2>1. iter[s] = Term(x(s)) + iter[s \ {x(s)}]
    BY <1>8, <1>10, Zenon
  <2> QED
    BY <1>4, <1>10, <2>1, Zenon
<1> HIDE DEF x
<1>11. ASSUME NEW a, NEW s \in SUBSET S, s \subseteq {a}
       PROVE  iter[s] = total[s]
  <2>1. CASE s # {}
    <3>1. x(s) \in s
      BY <1>4, <2>1, Zenon
    <3>2. s \ {x(s)} = {}
      BY <1>11, <3>1
    <3> QED
      BY <1>5, <1>9, <1>10, <2>1, <3>2, Zenon
  <2> QED
    BY <1>5, <1>9, <2>1
<1> DEFINE Two(s, a, b) == \A y \in s : y = a \/ y = b
<1> HIDE DEF Two
<1>12. ASSUME NEW a, NEW b, NEW s \in SUBSET S, Two(s, a, b)
       PROVE  iter[s] = total[s]
  <2>1. CASE s # {}
    <3>1. x(s) \in s
      BY <1>4, <2>1, Zenon
    <3>2. s \ {x(s)} \subseteq {a} \/ s \ {x(s)} \subseteq {b}
      BY <1>12, <3>1 DEF Two
    <3>3. s \ {x(s)} \in SUBSET S
      OBVIOUS
    <3> QED
      BY <1>10, <1>11, <2>1, <3>2, <3>3, Zenon
  <2> QED
    BY <1>5, <1>9, <2>1
<1> DEFINE Three(s, a, b, c) == \A y \in s : y = a \/ y = b \/ y = c
<1> HIDE DEF Three
<1>13. ASSUME NEW a, NEW b, NEW c, NEW s \in SUBSET S, Three(s, a, b, c)
       PROVE  iter[s] = total[s]
  <2>1. CASE s # {}
    <3>1. x(s) \in s
      BY <1>4, <2>1, Zenon
    <3> DEFINE rest == s \ {x(s)}
    <3>2. Two(rest, b, c) \/ Two(rest, a, c) \/ Two(rest, a, b)
      BY <1>13, <3>1 DEF Two, Three
    <3>3. rest \in SUBSET S
      OBVIOUS
    <3> HIDE DEF rest
    <3>4. iter[rest] = total[rest]
      BY <1>12, <3>2, <3>3, Zenon
    <3> QED
      BY <1>10, <2>1, <3>4, Zenon DEF rest
  <2> QED
    BY <1>5, <1>9, <2>1
<1>14. iter[S] = total[S]
  <2> DEFINE rest == S \ {x(S)}
  <2>1. S # {} /\ S \in SUBSET S /\ \A y \in S : y = 0 \/ y = 1 \/ y = 2 \/ y = 3
    BY <1>2
  <2>2. x(S) \in S
    BY <1>4, <2>1, Zenon
  <2>3. x(S) = 0 \/ x(S) = 1 \/ x(S) = 2 \/ x(S) = 3
    BY <2>1, <2>2, Zenon
  <2>4. \A y \in rest : y # x(S) /\ (y = 0 \/ y = 1 \/ y = 2 \/ y = 3)
    BY <2>1, Zenon
  <2>5. rest \in SUBSET S
    OBVIOUS
  <2> HIDE DEF S, rest
  <2>6. Three(rest, 1, 2, 3) \/ Three(rest, 0, 2, 3) \/ Three(rest, 0, 1, 3) \/ Three(rest, 0, 1, 2)
    BY <2>3, <2>4 DEF Three
  <2>7. iter[rest] = total[rest]
    BY <1>13, <2>5, <2>6
  <2> QED
    BY <1>10, <2>1, <2>7, Zenon DEF rest
<1> QED
  BY <1>1, <1>6, <1>14

\* What is known of a number that the application keeps.
LEMMA NumberFields ==
  ASSUME NEW d \in Numbers
  PROVE  /\ d.table \in RegTables /\ d.start \in Int /\ d.n \in 2 .. 4 /\ d.mswFirst \in BOOLEAN
         /\ d.locks \in {1, 2} /\ d.vals \subseteq Nat
         /\ \A v \in d.vals \cup {0} : v \in Nat /\ v < Base * Weight(d.n - 1)
<1>1. /\ d.table \in RegTables /\ d.start \in Int /\ d.n \in 2 .. 4 /\ d.mswFirst \in BOOLEAN
      /\ d.locks \in {1, 2} /\ d.vals \subseteq Nat
      /\ \A v \in d.vals : v < Base * Weight(d.n - 1)
  BY NumbersAssumption
<1>2. Base * Weight(d.n - 1) \in Nat /\ Base * Weight(d.n - 1) > 0
  <2>1. d.n - 1 = 1 \/ d.n - 1 = 2 \/ d.n - 1 = 3
    BY <1>1
  <2>2. /\ Base * Weight(1) \in Nat /\ Base * Weight(1) > 0
        /\ Base * Weight(2) \in Nat /\ Base * Weight(2) > 0
        /\ Base * Weight(3) \in Nat /\ Base * Weight(3) > 0
    BY BaseAssumption DEF Weight
  <2> QED
    BY <2>1, <2>2, Zenon
<1> QED
  BY <1>1, <1>2

\* The words of a number, put together again, make the number: both loops of
\* uintReg undo those of putUintReg.
LEMMA RoundTrip ==
  ASSUME NEW d \in Numbers, NEW v \in d.vals \cup {0}, NEW words,
         \A j \in 0 .. d.n - 1 : words[j] = putUintReg(d, v)[j + 1]
  PROVE  uintReg(d, words) = v
<1> DEFINE Term(k) == Digit(v, k) * Weight(k)
           t == [j \in 0 .. 3 |-> IF j < d.n THEN Term(shift(d, j)) ELSE 0]
<1>1. d.n \in 2 .. 4 /\ d.mswFirst \in BOOLEAN /\ v \in Nat /\ v < Base * Weight(d.n - 1)
  BY NumberFields
<1>2. \A k \in 0 .. 3 : Term(k) \in Int
  <2>1. Weight(0) \in Nat /\ Weight(1) \in Nat /\ Weight(2) \in Nat /\ Weight(3) \in Nat
    BY BaseAssumption DEF Weight
  <2>2. \A k \in 0 .. 3 : Weight(k) \in Nat
    <3>1. \A k \in 0 .. 3 : k = 0 \/ k = 1 \/ k = 2 \/ k = 3
      OBVIOUS
    <3> QED
      BY <2>1, <3>1, Zenon
  <2>3. \A k \in 0 .. 3 : Digit(v, k) \in Nat
    BY <1>1, SumOfDigits, Zenon
  <2> QED
    BY <2>2, <2>3
<1>3. \A j \in 0 .. d.n - 1 : shift(d, j) \in 0 .. d.n - 1 /\ shift(d, j) \in 0 .. 3
  BY <1>1 DEF shift
<1>4. \A j \in 0 .. d.n - 1 : words[j] * Weight(shift(d, j)) = t[j]
  <2> SUFFICES ASSUME NEW j \in 0 .. d.n - 1 PROVE words[j] * Weight(shift(d, j)) = t[j]
    OBVIOUS
  <2>1. j + 1 \in 1 .. d.n /\ j + 1 - 1 = j /\ j \in 0 .. 3 /\ j < d.n
    BY <1>1
  <2>2. words[j] = Digit(v, shift(d, j))
    <3> DEFINE k == j + 1
    <3>1. k \in 1 .. d.n /\ k - 1 = j
      BY <2>1
    <3> HIDE DEF k
    <3>2. putUintReg(d, v)[k] = (v \div Weight(shift(d, k - 1))) % Base
      BY <3>1, Zenon DEF putUintReg
    <3>3. putUintReg(d, v)[k] = Digit(v, shift(d, j))
      BY <3>1, <3>2, Zenon DEF Digit
    <3> QED
      BY <3>3, Zenon DEF k
  <2>3. t[j] = Term(shift(d, j))
    BY <2>1, Zenon
  <2> QED
    BY <2>2, <2>3, Zenon
<1>5. t \in [0 .. 3 -> Int]
  BY <1>1, <1>2, <1>3
<1>6. \A j \in d.n .. 3 : t[j] = 0
  BY <1>1
<1>7. uintReg(d, words) = t[0] + t[1] + t[2] + t[3]
  <2> HIDE DEF t
  <2> QED
    BY <1>1, <1>4, <1>5, <1>6, UintRegSum
<1>8. /\ d.n = 2 => v = Term(0) + Term(1)
      /\ d.n = 3 => v = Term(0) + Term(1) + Term(2)
      /\ d.n = 4 => v = Term(0) + Term(1) + Term(2) + Term(3)
  <2>1. Term(0) = Digit(v, 0)
    <3>1. Weight(0) = 1
      BY BaseAssumption DEF Weight
    <3>2. Digit(v, 0) \in Nat
      BY <1>1, SumOfDigits
    <3> QED
      BY <3>1, <3>2
  <2>2. (d.n = 2 => d.n - 1 = 1) /\ (d.n = 3 => d.n - 1 = 2) /\ (d.n = 4 => d.n - 1 = 3)
    OBVIOUS
  <2>3. /\ v < Base * Weight(1) => v = Term(0) + Term(1)
        /\ v < Base * Weight(2) => v = Term(0) + Term(1) + Term(2)
        /\ v < Base * Weight(3) => v = Term(0) + Term(1) + Term(2) + Term(3)
    BY <1>1, <2>1, SumOfDigits, Zenon
  <2> QED
    BY <1>1, <2>2, <2>3, Zenon
<1>9. /\ t[0] = Term(shift(d, 0)) /\ t[1] = Term(shift(d, 1))
      /\ t[2] = IF 2 < d.n THEN Term(shift(d, 2)) ELSE 0
      /\ t[3] = IF 3 < d.n THEN Term(shift(d, 3)) ELSE 0
  BY <1>1
<1>10. Term(0) \in Int /\ Term(1) \in Int /\ Term(2) \in Int /\ Term(3) \in Int
  BY <1>2
<1> HIDE DEF Term, t
<1>11. t[0] + t[1] + t[2] + t[3] = v
  <2>1. CASE d.mswFirst
    <3>1. shift(d, 0) = d.n - 1 /\ shift(d, 1) = d.n - 2 /\ shift(d, 2) = d.n - 3 /\ shift(d, 3) = d.n - 4
      BY <1>1, <2>1 DEF shift
    <3> QED
      BY <1>1, <1>8, <1>9, <1>10, <3>1
  <2>2. CASE ~d.mswFirst
    <3>1. shift(d, 0) = 0 /\ shift(d, 1) = 1 /\ shift(d, 2) = 2 /\ shift(d, 3) = 3
      BY <2>2 DEF shift
    <3> QED
      BY <1>1, <1>8, <1>9, <1>10, <3>1
  <2> QED
    BY <2>1, <2>2
<1> QED
  BY <1>7, <1>11

--------------------------------------------------------------------------------
(***************************************************************************)
(* The invariant holds.                                                    *)
(***************************************************************************)

\* What kind of operation a put is, and where its elements are.
LEMMA PutFields ==
  ASSUME NEW d \in Numbers, NEW v
  PROVE  /\ Put(d, v).kind = "write" /\ Put(d, v).odd = 0 /\ Put(d, v).qty = d.n
         /\ Put(d, v).data = putUintReg(d, v) /\ Put(d, v).table = d.table
         /\ Total(Put(d, v)) = d.n /\ Check(Put(d, v)) = ExceptionNone
  BY NumberFields DEF Put, Total, Check

LEMMA PutCell ==
  ASSUME NEW d, NEW v, NEW k
  PROVE  Addr(Put(d, v), k) = d.start + k /\ CellOf(Put(d, v), k) = <<d.table, d.start + k>>
  BY DEF Put, CellOf, Addr

\* The same for a get.
LEMMA GetFields ==
  ASSUME NEW d \in Numbers
  PROVE  Get(d).kind = "read" /\ Total(Get(d)) = d.n /\ d.n \in 2 .. 4
  BY NumberFields DEF Get, Total

LEMMA GetCell ==
  ASSUME NEW d, NEW k
  PROVE  CellOf(Get(d), k) = <<d.table, d.start + k>>
  BY DEF Get, CellOf, Addr

\* The words of zero are zero, which is what a new bank holds.
LEMMA ZeroWords ==
  ASSUME NEW d \in Numbers, NEW k \in 0 .. d.n - 1
  PROVE  putUintReg(d, 0)[k + 1] = 0
<1>1. d.n \in 2 .. 4 /\ k + 1 \in 1 .. d.n /\ shift(d, k + 1 - 1) \in 0 .. 3
  BY NumberFields DEF shift
<1>2. \A j \in 0 .. 3 : (0 \div Weight(j)) % Base = 0
  <2>1. \A j \in 0 .. 3 : j = 0 \/ j = 1 \/ j = 2 \/ j = 3
    OBVIOUS
  <2>2. 0 \div Base = 0 /\ 0 % Base = 0
    BY BaseAssumption
  <2>3. \A j \in 0 .. 3 : 0 \div Weight(j) = 0
    BY <2>1, <2>2, Quotients, Zenon
  <2> QED
    BY <2>2, <2>3, Zenon
<1> DEFINE j == k + 1
<1>3. j \in 1 .. d.n /\ shift(d, j - 1) \in 0 .. 3
  BY <1>1
<1> HIDE DEF j
<1>4. putUintReg(d, 0)[j] = (0 \div Weight(shift(d, j - 1))) % Base
  BY <1>3, Zenon DEF putUintReg
<1> QED
  BY <1>2, <1>3, <1>4, Zenon DEF j

\* Initially every number is zero.
LEMMA InitNumbers == Init => NumberInv
<1> SUFFICES ASSUME Init PROVE NumberInv
  OBVIOUS
<1>1. PutInv
  BY DEF Init, PutInv, Putting, Running
<1>2. WholeInv
  <2> SUFFICES ASSUME NEW d \in Numbers, InBank(d) PROVE Holds(mem, d, 0, d.n)
    BY Zenon DEF WholeInv
  <2> SUFFICES ASSUME NEW k \in 0 .. d.n - 1 PROVE mem[<<d.table, d.start + k>>] = putUintReg(d, 0)[k + 1]
    BY Zenon DEF Holds
  <2>1. <<d.table, d.start + k>> \in Cell
    BY DEF InBank
  <2> QED
    BY <2>1, ZeroWords, Zenon DEF Init
<1> QED
  BY <1>1, <1>2 DEF NumberInv

\* A put of a number in the bank ends when all its words are stored.
LEMMA PutEnds ==
  ASSUME IInv, NEW p \in Proc, NEW d \in Numbers, NEW v \in d.vals,
         Putting(p, d, v), InBank(d), Finished(p)
  PROVE  i[p] = d.n
<1>1. Running(p) /\ op[p] = Put(d, v)
  BY DEF Putting
<1>2. i[p] \in Nat /\ i[p] \in 0 .. Total(op[p])
  BY <1>1, RunningFacts DEF IInv, LoopInv
<1>3. d.n \in 2 .. 4 /\ Total(op[p]) = d.n /\ Check(op[p]) = ExceptionNone
  BY <1>1, NumberFields, PutFields
<1>4. ASSUME i[p] < d.n PROVE InRange(op[p], i[p])
  <2>1. i[p] \in 0 .. d.n - 1
    BY <1>2, <1>3, <1>4
  <2>2. <<d.table, d.start + i[p]>> \in Cell
    BY <2>1, Zenon DEF InBank
  <2>3. d.start + i[p] \in 0 .. Size(d.table) - 1
    BY <2>2, SizeAssumption DEF Cell, Size
  <2>4. op[p].table = d.table /\ Addr(op[p], i[p]) = d.start + i[p]
    <3>1. Put(d, v).table = d.table
      BY PutFields, Zenon
    <3>2. Addr(Put(d, v), i[p]) = d.start + i[p]
      BY PutCell, Zenon
    <3> QED
      BY <1>1, <3>1, <3>2, Zenon
  <2> QED
    BY <2>3, <2>4 DEF InRange
<1>5. exc[p] = ExceptionNone \/ (i[p] < Total(op[p]) /\ ~InRange(op[p], i[p]))
  BY <1>1, <1>3, Zenon DEF IInv, LoopInv
<1>6. exc[p] = ExceptionNone
  BY <1>3, <1>4, <1>5, Zenon
<1>7. ~(i[p] < Total(op[p]))
  BY <1>6, Zenon DEF Finished, AtElement
<1> QED
  BY <1>2, <1>3, <1>7

\* A write that touches a register of a number is a put of that number.
LEMMA OwnRegister ==
  ASSUME RegistersOfItsOwn, NEW o \in Ops, NEW j \in Reached(o), o.kind = "write",
         NEW d \in Numbers, NEW k \in 0 .. d.n - 1, CellOf(o, j) = <<d.table, d.start + k>>
  PROVE  \E v \in d.vals : o = Put(d, v)
<1>1. o \in Operation /\ WellFormed(o) /\ o.start \in Int /\ Total(o) \in Nat
  BY OpTyped, OpFields
<1>2. j \in Nat /\ j < Total(o) /\ CellOf(o, j) = <<o.table, o.start + j>>
  BY <1>1, ReachedAddr DEF CellOf
<1>3. o.table = d.table /\ o.start + j = d.start + k
  BY <1>2
<1>4. d.start \in Int /\ d.n \in Nat
  BY NumberFields
<1>5. o.start < d.start + d.n /\ d.start < o.start + Total(o)
  BY <1>1, <1>2, <1>3, <1>4
<1> QED
  BY <1>3, <1>5, Zenon DEF RegistersOfItsOwn

\* A step that stores nothing and ends no put.
LEMMA QuietNumbers ==
  ASSUME NumberInv, mem' = mem,
         \A q \in Proc : Running(q) => Running(q)' /\ op'[q] = op[q],
         \A q \in Proc : Running(q)' /\ op'[q].kind = "write" =>
           i'[q] = 0 \/ (Running(q) /\ op'[q] = op[q] /\ i'[q] = i[q])
  PROVE  NumberInv'
<1>1. PutInv'
  <2> SUFFICES ASSUME NEW q \in Proc, NEW d \in Numbers, NEW v \in d.vals, Putting(q, d, v)', InBank(d)
               PROVE  Holds(mem', d, v, i'[q])
    BY Zenon DEF PutInv, InBank
  <2>1. Running(q)' /\ op'[q] = Put(d, v) /\ op'[q].kind = "write"
    BY PutFields DEF Putting
  <2>2. CASE i'[q] = 0
    BY <2>2 DEF Holds
  <2>3. CASE Running(q) /\ op'[q] = op[q] /\ i'[q] = i[q]
    <3>1. Putting(q, d, v)
      BY <2>1, <2>3, Zenon DEF Putting
    <3> QED
      BY <2>3, <3>1, Zenon DEF NumberInv, PutInv
  <2> QED
    BY <2>1, <2>2, <2>3, Zenon
<1>2. WholeInv'
  <2> SUFFICES ASSUME NEW d \in Numbers, InBank(d)
               PROVE  \/ \E v \in d.vals \cup {0} : Holds(mem', d, v, d.n)
                      \/ \E p \in Proc : \E v \in d.vals : Putting(p, d, v)'
    BY Zenon DEF WholeInv, InBank
  <2> QED
    BY Zenon DEF NumberInv, WholeInv, Putting
<1> QED
  BY <1>1, <1>2 DEF NumberInv

\* The call that ends leaves whole numbers behind.
LEMMA UnlockNumbers ==
  ASSUME IInv, NumberInv, NEW p \in Proc, Unlock(p)
  PROVE  NumberInv'
<1>1. mem' = mem /\ Finished(p) /\ ~Running(p)'
  BY DEF Unlock, Running, IInv, TypeOK
<1>2. \A q \in Proc : q # p => (Running(q)' <=> Running(q)) /\ op'[q] = op[q] /\ i'[q] = i[q]
  BY DEF Unlock, Running, IInv, TypeOK
<1>3. PutInv'
  <2> SUFFICES ASSUME NEW q \in Proc, NEW d \in Numbers, NEW v \in d.vals, Putting(q, d, v)', InBank(d)
               PROVE  Holds(mem', d, v, i'[q])
    BY Zenon DEF PutInv, InBank
  <2>1. q # p
    BY <1>1, Zenon DEF Putting
  <2>2. Putting(q, d, v) /\ i'[q] = i[q]
    BY <1>2, <2>1, Zenon DEF Putting
  <2> QED
    BY <1>1, <2>2, Zenon DEF NumberInv, PutInv
<1>4. WholeInv'
  <2> SUFFICES ASSUME NEW d \in Numbers, InBank(d)
               PROVE  \/ \E v \in d.vals \cup {0} : Holds(mem', d, v, d.n)
                      \/ \E q \in Proc : \E v \in d.vals : Putting(q, d, v)'
    BY Zenon DEF WholeInv, InBank
  <2>1. CASE \E v \in d.vals \cup {0} : Holds(mem, d, v, d.n)
    BY <1>1, <2>1, Zenon
  <2>2. ASSUME NEW q \in Proc, NEW v \in d.vals, Putting(q, d, v), q # p
        PROVE  \E r \in Proc : \E w \in d.vals : Putting(r, d, w)'
    BY <1>2, <2>2, Zenon DEF Putting
  <2>3. ASSUME NEW v \in d.vals, Putting(p, d, v)
        PROVE  Holds(mem', d, v, d.n)
    <3>1. i[p] = d.n
      BY <1>1, <2>3, PutEnds, Zenon
    <3> QED
      BY <1>1, <2>3, <3>1, Zenon DEF NumberInv, PutInv
  <2> QED
    BY <2>1, <2>2, <2>3, Zenon DEF NumberInv, WholeInv
<1> QED
  BY <1>3, <1>4 DEF NumberInv

\* A step that stores element j of a write, and keeps everybody running.
LEMMA StoreElsewhere ==
  ASSUME RegistersOfItsOwn, NEW o \in Ops, NEW j \in Reached(o), o.kind = "write", mem \in [Cell -> Word],
         NEW w, mem' = [mem EXCEPT ![CellOf(o, j)] = w],
         NEW d \in Numbers, InBank(d), \A v \in d.vals : o # Put(d, v), NEW v, NEW n \in 0 .. d.n,
         Holds(mem, d, v, n)
  PROVE  Holds(mem', d, v, n)
<1> SUFFICES ASSUME NEW k \in 0 .. n - 1
             PROVE  mem'[<<d.table, d.start + k>>] = putUintReg(d, v)[k + 1]
  BY Zenon DEF Holds
<1>1. k \in 0 .. d.n - 1
  BY NumberFields
<1>2. <<d.table, d.start + k>> \in Cell /\ CellOf(o, j) # <<d.table, d.start + k>>
  BY <1>1, OwnRegister, Zenon DEF InBank
<1>3. mem'[<<d.table, d.start + k>>] = mem[<<d.table, d.start + k>>]
  BY <1>2, Zenon
<1> QED
  BY <1>3, Zenon DEF Holds

\* A write stores one element: the next word of a put, or a register that
\* belongs to no number.
LEMMA StoreNumbers ==
  ASSUME RegistersOfItsOwn, IInv, NumberInv, NEW p \in Proc, Running(p), op[p].kind = "write",
         i[p] \in Reached(op[p]), NEW w, op[p].odd = 0 => w = op[p].data[i[p] + 1],
         mem' = [mem EXCEPT ![CellOf(op[p], i[p])] = w],
         op' = op, i' = [i EXCEPT ![p] = @ + 1], \A q \in Proc : Running(q)' <=> Running(q)
  PROVE  NumberInv'
<1>1. /\ op[p] \in Ops /\ i[p] \in Nat /\ mem \in [Cell -> Word] /\ i'[p] = i[p] + 1
      /\ \A q \in Proc : Running(q) => q = p
  <2>1. i \in [Proc -> Nat] /\ mem \in [Cell -> Word]
    BY DEF IInv, TypeOK
  <2>2. op[p] \in Ops /\ \A q \in Proc : q # p => ~Inside(q)
    BY RunningFacts, Zenon
  <2> QED
    BY <2>1, <2>2 DEF Running, Inside
<1>2. PutInv'
  <2> SUFFICES ASSUME NEW q \in Proc, NEW d \in Numbers, NEW v \in d.vals, Putting(q, d, v)', InBank(d)
               PROVE  Holds(mem', d, v, i'[q])
    BY Zenon DEF PutInv, InBank
  <2>1. q = p /\ Putting(p, d, v) /\ op[p] = Put(d, v)
    BY <1>1, Zenon DEF Putting
  <2>2. Holds(mem, d, v, i[p])
    BY <2>1, Zenon DEF NumberInv, PutInv
  <2>3. w = putUintReg(d, v)[i[p] + 1] /\ CellOf(op[p], i[p]) = <<d.table, d.start + i[p]>>
    <3>1. Put(d, v).odd = 0 /\ Put(d, v).data = putUintReg(d, v)
      BY PutFields, Zenon
    <3>2. CellOf(Put(d, v), i[p]) = <<d.table, d.start + i[p]>>
      BY PutCell, Zenon
    <3> QED
      BY <2>1, <3>1, <3>2, Zenon
  <2>4. CellOf(op[p], i[p]) \in Cell
    BY <1>1, OpTyped, ReachedAddr
  <2>5. ASSUME NEW k \in 0 .. i[p] PROVE mem'[<<d.table, d.start + k>>] = putUintReg(d, v)[k + 1]
    <3>1. CASE k = i[p]
      BY <1>1, <2>3, <2>4, <3>1, Zenon
    <3>2. CASE k # i[p]
      <4>1. k \in 0 .. i[p] - 1 /\ d.start + k # d.start + i[p]
        BY <1>1, <3>2, NumberFields
      <4>2. <<d.table, d.start + k>> # <<d.table, d.start + i[p]>>
        BY <4>1
      <4>3. i[p] < d.n
        <5>1. Total(op[p]) = d.n /\ i[p] \in 0 .. Total(op[p]) - 1
          BY <2>1, PutFields, Zenon DEF Reached
        <5> QED
          BY <1>1, <5>1, NumberFields
      <4>4. <<d.table, d.start + k>> \in Cell
        <5>1. k \in 0 .. d.n - 1
          BY <1>1, <4>1, <4>3, NumberFields
        <5> QED
          BY <5>1, Zenon DEF InBank
      <4>5. mem'[<<d.table, d.start + k>>] = mem[<<d.table, d.start + k>>]
        BY <1>1, <2>3, <4>2, <4>4, Zenon
      <4> QED
        BY <2>2, <4>1, <4>5, Zenon DEF Holds
    <3> QED
      BY <3>1, <3>2
  <2>6. 0 .. i'[p] - 1 = 0 .. i[p]
    BY <1>1
  <2> QED
    BY <2>1, <2>5, <2>6, Zenon DEF Holds
<1>3. WholeInv'
  <2> SUFFICES ASSUME NEW d \in Numbers, InBank(d)
               PROVE  \/ \E v \in d.vals \cup {0} : Holds(mem', d, v, d.n)
                      \/ \E q \in Proc : \E v \in d.vals : Putting(q, d, v)'
    BY Zenon DEF WholeInv, InBank
  <2>1. \A q \in Proc : \A v \in d.vals : Putting(q, d, v) => Putting(q, d, v)'
    BY Zenon DEF Putting
  <2>2. CASE \E v \in d.vals : op[p] = Put(d, v)
    BY <2>1, <2>2, Zenon DEF Putting
  <2>3. ASSUME \A v \in d.vals : op[p] # Put(d, v), NEW v \in d.vals \cup {0}, Holds(mem, d, v, d.n)
        PROVE  Holds(mem', d, v, d.n)
    <3>1. d.n \in 0 .. d.n
      BY NumberFields
    <3> QED
      BY <1>1, <2>3, <3>1, StoreElsewhere
  <2> QED
    BY <2>1, <2>2, <2>3, Zenon DEF NumberInv, WholeInv
<1> QED
  BY <1>2, <1>3 DEF NumberInv

\* Every step keeps numbers whole.
LEMMA NextNumbers ==
  ASSUME RegistersOfItsOwn, IInv, NumberInv, [Next]_vars
  PROVE  NumberInv'
<1>0. pc \in [Proc -> {"idle", "lock", "access", "merge"}] /\ op \in [Proc -> Ops \cup {NoOp}]
      /\ i \in [Proc -> Nat]
  BY DEF IInv, TypeOK
<1>1. ASSUME NEW p \in Proc, NEW o \in Ops, Invoke(p, o) PROVE NumberInv'
  BY <1>0, <1>1, QuietNumbers DEF Invoke, Running
<1>2. ASSUME NEW p \in Proc, LockDataModel(p) PROVE NumberInv'
  <2>1. i[p] = 0
    BY <1>2, Zenon DEF IInv, WaitInv, LockDataModel
  <2> QED
    BY <1>0, <1>2, <2>1, QuietNumbers DEF LockDataModel, Running
<1>3. ASSUME NEW p \in Proc, Refuse(p) PROVE NumberInv'
  BY <1>3, QuietNumbers DEF Refuse, Running
<1>4. ASSUME NEW p \in Proc, GetElement(p) PROVE NumberInv'
  BY <1>0, <1>4, QuietNumbers DEF GetElement, Running
<1>5. ASSUME NEW p \in Proc, GetOdd(p) PROVE NumberInv'
  BY <1>0, <1>5, QuietNumbers DEF GetOdd, Running, AtElement
<1>6. ASSUME NEW p \in Proc, SetElement(p) PROVE NumberInv'
  <2>1. Running(p) /\ i[p] \in Nat /\ \A k \in 0 .. i[p] : k \in Reached(op[p])
    BY <1>6, AtElementFacts DEF SetElement
  <2>2. i[p] \in Reached(op[p])
    BY <2>1
  <2> QED
    BY <1>6, <2>1, <2>2, StoreNumbers DEF SetElement, Running
<1>7. ASSUME NEW p \in Proc, SetOdd(p) PROVE NumberInv'
  <2>1. pc[p] = "merge" /\ Running(p) /\ op[p].odd = 1 /\ op[p].kind = "write" /\ i[p] = op[p].qty
        /\ InRange(op[p], i[p]) /\ exc[p] = ExceptionNone
    BY <1>7, Zenon DEF SetOdd, Running, IInv, OddInv
  <2>2. op[p] \in Operation /\ WellFormed(op[p]) /\ i[p] \in Nat
    BY <2>1, RunningFacts
  <2>3. Check(op[p]) = ExceptionNone /\ \A k \in 0 .. i[p] - 1 : k \in Reached(op[p])
    BY <2>1, Zenon DEF IInv, LoopInv
  <2>4. i[p] < Total(op[p])
    BY <2>1, <2>2 DEF Total
  <2>5. i[p] \in 0 .. i[p] /\ \A k \in 0 .. i[p] : k \in Reached(op[p])
    BY <2>1, <2>2, <2>3, <2>4, ReachNext
  <2>6. \A q \in Proc : Running(q)' <=> Running(q)
    BY <1>0, <1>7 DEF SetOdd, Running
  <2> DEFINE w == HighByte(op[p].data[i[p] + 1], old[p])
  <2>7. /\ mem' = [mem EXCEPT ![CellOf(op[p], i[p])] = w]
        /\ op' = op /\ i' = [i EXCEPT ![p] = @ + 1]
    BY <1>7, Zenon DEF SetOdd
  <2>8. op[p].odd = 0 => w = op[p].data[i[p] + 1]
    BY <2>1
  <2>9. i[p] \in Reached(op[p])
    BY <2>5, Zenon
  <2> HIDE DEF w
  <2> QED
    BY <2>1, <2>6, <2>7, <2>8, <2>9, StoreNumbers, Zenon
<1>8. ASSUME UNCHANGED vars PROVE NumberInv'
  BY <1>8, QuietNumbers DEF vars, Running
<1> QED
  BY <1>1, <1>2, <1>3, <1>4, <1>5, <1>6, <1>7, <1>8, UnlockNumbers, Zenon DEF Next, Step

\* uintReg gives back a number that was put as a whole, or the zero of a new
\* bank, in either word order and whoever else puts and gets at the same time,
\* as long as nothing but puts of the number writes to its registers.
THEOREM WholeNumbers ==
  ASSUME RegistersOfItsOwn
  PROVE  Spec => []NumbersAreWhole
<1>1. IInv /\ NumberInv => NumbersAreWhole
  <2> SUFFICES ASSUME IInv, NumberInv, NEW p \in Proc, NEW d \in Numbers,
                      Finished(p), op[p] = Get(d), exc[p] = ExceptionNone
               PROVE  uintReg(d, got[p]) \in d.vals \cup {0}
    BY Zenon DEF NumbersAreWhole
  <2>1. Running(p) /\ ~(i[p] < Total(op[p]))
    BY Zenon DEF Finished, AtElement, Running
  <2>2. /\ op[p].kind = "read" /\ Total(op[p]) = d.n /\ d.n \in 2 .. 4
        /\ \A k : CellOf(op[p], k) = <<d.table, d.start + k>>
    <3>1. \A k : CellOf(Get(d), k) = <<d.table, d.start + k>>
      BY GetCell, Zenon
    <3> QED
      BY <3>1, GetFields, Zenon
  <2>3. i[p] \in 0 .. Total(op[p]) /\ \A k \in 0 .. i[p] - 1 : k \in Reached(op[p])
    BY <2>1, Zenon DEF IInv, LoopInv
  <2>4. i[p] = d.n
    BY <2>1, <2>2, <2>3
  <2>5. \A k \in 0 .. d.n - 1 : got[p][k] = mem[<<d.table, d.start + k>>]
    <3>1. got[p] = [k \in 0 .. d.n - 1 |-> mem[CellOf(op[p], k)]]
      BY <2>1, <2>2, <2>4, Zenon DEF IInv, GotInv, ReadSoFar
    <3> QED
      BY <2>2, <3>1, Zenon
  <2>6. InBank(d)
    <3>1. op[p] \in Operation /\ WellFormed(op[p])
      BY <2>1, RunningFacts
    <3> QED
      BY <2>2, <2>3, <2>4, <3>1, ReachedAddr, Zenon DEF InBank
  <2>7. ASSUME NEW q \in Proc, NEW v \in d.vals, Putting(q, d, v) PROVE FALSE
    <3>1. q = p
      BY <2>1, <2>7, RunningFacts DEF Putting, Inside, Running
    <3> QED
      BY <2>2, <2>7, <3>1, PutFields DEF Putting
  <2>8. PICK v \in d.vals \cup {0} : Holds(mem, d, v, d.n)
    BY <2>6, <2>7, Zenon DEF NumberInv, WholeInv
  <2>9. uintReg(d, got[p]) = v
    BY <2>5, <2>8, RoundTrip, Zenon DEF Holds
  <2> QED
    BY <2>9
<1>2. Spec => []NumberInv
  BY InitNumbers, NextNumbers, Invariance, PTL DEF Spec
<1> QED
  BY <1>1, <1>2, Invariance, PTL
================================================================================
