---------------------------- MODULE DataModelProofs ----------------------------
(***************************************************************************)
(* Proofs about DataModel, for any number of goroutines, any bank size and *)
(* any set of operations; at the end, that it implements AtomicModel.      *)
(***************************************************************************)
EXTENDS DataModel, TLAPS

--------------------------------------------------------------------------------
(***************************************************************************)
(* The inductive invariant.  LockInv is mutual exclusion; the others say   *)
(* how far a goroutine has got with its operation.                         *)
(***************************************************************************)
Running(p) == pc[p] \in {"access", "merge"}

LockInv == \A p \in Proc : Inside(p) <=> mu = p

IdleInv == \A p \in Proc : pc[p] = "idle" =>
  op[p] = NoOp /\ depth[p] = 0 /\ i[p] = 0 /\ exc[p] = ExceptionNone /\ got[p] = NoValues

WaitInv == \A p \in Proc : pc[p] = "lock" =>
  op[p] \in Ops /\ depth[p] < op[p].locks /\ i[p] = 0 /\ exc[p] = Check(op[p]) /\ got[p] = NoValues

\* The elements visited so far are elements the operation reaches; once an
\* exception is set it reaches no more.
LoopInv == \A p \in Proc : Running(p) =>
  /\ op[p] \in Ops
  /\ i[p] \in 0 .. Total(op[p])
  /\ \A k \in 0 .. i[p] - 1 : k \in Reached(op[p])
  /\ \/ exc[p] = ExceptionNone /\ Check(op[p]) = ExceptionNone
     \/ exc[p] # ExceptionNone /\ exc[p] = Check(op[p]) /\ i[p] = 0
     \/ /\ exc[p] = ExceptionIllegalDataAddr /\ Check(op[p]) = ExceptionNone
        /\ i[p] < Total(op[p]) /\ ~InRange(op[p], i[p])

\* What has been read is what the bank holds.
ReadSoFar(p) == IF op[p].kind = "read" THEN 0 .. i[p] - 1 ELSE {}

GotInv == \A p \in Proc : Running(p) =>
  got[p] = [k \in ReadSoFar(p) |-> mem[CellOf(op[p], k)]]

OddInv == \A p \in Proc : pc[p] = "merge" =>
  /\ exc[p] = ExceptionNone
  /\ op[p].kind = "write" /\ op[p].odd = 1 /\ i[p] = op[p].qty
  /\ InRange(op[p], i[p])
  /\ old[p] = mem[CellOf(op[p], i[p])]

IInv == TypeOK /\ LockInv /\ IdleInv /\ WaitInv /\ LoopInv /\ GotInv /\ OddInv

--------------------------------------------------------------------------------
(***************************************************************************)
(* Facts about operations.                                                 *)
(***************************************************************************)

\* An operation of the model, or the one of an idle goroutine, has its type.
LEMMA OpTyped ==
  ASSUME NEW o \in Ops \cup {NoOp}
  PROVE  o \in Operation /\ WellFormed(o)
<1>1. NoOp \in Operation
  BY DEF NoOp, Operation, Table, BitTables
<1>2. WellFormed(NoOp)
  BY DEF NoOp, WellFormed
<1>. QED
  BY <1>1, <1>2, OpsAssumption

\* The fields of an operation.
LEMMA OpFields ==
  ASSUME NEW o \in Operation
  PROVE  /\ o.kind \in {"read", "write"} /\ o.table \in Table
         /\ o.start \in Int /\ o.qty \in Nat
         /\ o.odd \in {0, 1} /\ o.locks \in {1, 2} /\ o.data \in Seq(Word)
         /\ Total(o) \in Nat
  BY DEF Operation, Total

\* Every element of a write has a value.
LEMMA DataTyped ==
  ASSUME NEW o \in Operation, WellFormed(o), o.kind = "write", NEW k \in Nat, k < Total(o)
  PROVE  o.data[k + 1] \in Word
<1>1. o.data \in Seq(Word) /\ Len(o.data) = Total(o) /\ Total(o) \in Nat
  BY OpFields DEF WellFormed
<1>2. k + 1 \in 1 .. Len(o.data)
  BY <1>1
<1>. QED
  BY <1>1, <1>2

\* A table and an address below its size make a cell.
LEMMA CellPair ==
  ASSUME NEW t \in Table, NEW a \in 0 .. Size(t) - 1
  PROVE  <<t, a>> \in Cell
  BY DEF Cell

\* An address that passes the bounds test of BlockedModel is a cell.
LEMMA InRangeCell ==
  ASSUME NEW o \in Operation, NEW k, InRange(o, k)
  PROVE  CellOf(o, k) \in Cell
  BY OpFields, CellPair DEF InRange, CellOf

\* The exceptions the range checks answer.
LEMMA CheckTyped ==
  ASSUME NEW o
  PROVE  Check(o) \in {ExceptionNone, ExceptionIllegalDataAddr, ExceptionIllegalDataValue}
<1>1. CheckRead(o) \in {ExceptionNone, ExceptionIllegalDataAddr, ExceptionIllegalDataValue}
  BY DEF CheckRead
<1>2. CheckWrite(o) \in {ExceptionNone, ExceptionIllegalDataAddr}
  BY DEF CheckWrite
<1>. QED
  BY <1>1, <1>2 DEF Check

\* The elements an operation reaches lie at start, start+1, ...: the uint16
\* address does not wrap before it leaves the block.
LEMMA NoWrap ==
  ASSUME NEW o \in Operation, WellFormed(o), NEW k \in Nat, \A j \in 0 .. k : InRange(o, j), k < 65536
  PROVE  Addr(o, k) = o.start + k
<1>1. CASE ~o.check
  BY <1>1 DEF Addr
<1>2. CASE o.check
  <2>1. o.start \in Int /\ 0 <= o.start /\ o.start < 65536
    BY <1>2, OpFields DEF WellFormed
  <2>2. Size(o.table) \in Nat /\ Size(o.table) < 65536
    BY SizeAssumption DEF Size
  <2>3. CASE o.start + k < 65536
    BY <1>2, <2>1, <2>3 DEF Addr, U16
  <2>4. CASE o.start + k >= 65536
    <3> DEFINE j == 65535 - o.start
    <3>1. j \in 0 .. k
      BY <2>1, <2>4
    <3>2. Addr(o, j) = 65535
      BY <1>2, <2>1 DEF Addr, U16
    <3>3. Addr(o, j) \in 0 .. Size(o.table) - 1
      BY <3>1 DEF InRange
    <3>. QED
      BY <3>2, <3>3, <2>2
  <2>. QED
    BY <2>1, <2>3, <2>4
<1>. QED
  BY <1>1, <1>2

\* The same for the elements of Reached, with their types.
LEMMA ReachedAddr ==
  ASSUME NEW o \in Operation, WellFormed(o), NEW k \in Reached(o)
  PROVE  /\ k \in Nat /\ k < Total(o)
         /\ InRange(o, k) /\ CellOf(o, k) \in Cell
         /\ Addr(o, k) = o.start + k
<1>1. k \in 0 .. Total(o) - 1 /\ \A j \in 0 .. k : InRange(o, j)
  BY DEF Reached
<1>2. Total(o) \in Nat /\ Total(o) <= 65536
  BY OpFields DEF WellFormed, Total
<1>3. k \in Nat /\ k < Total(o) /\ k < 65536
  BY <1>1, <1>2
<1>. QED
  BY <1>1, <1>3, NoWrap, InRangeCell

\* An element that is in range after reached ones is reached too.
LEMMA ReachNext ==
  ASSUME NEW o \in Operation, WellFormed(o), NEW n \in Nat, n < Total(o),
         Check(o) = ExceptionNone,
         \A k \in 0 .. n - 1 : k \in Reached(o),
         InRange(o, n)
  PROVE  \A k \in 0 .. n : k \in Reached(o)
<1>1. Total(o) \in Nat
  BY OpFields
<1>2. \A j \in 0 .. n : InRange(o, j)
  BY ReachedAddr
<1>. QED
  BY <1>1, <1>2 DEF Reached

\* An exception in the loop ends it at the last element reached.
LEMMA ReachStop ==
  ASSUME NEW o \in Operation, WellFormed(o), NEW n \in Nat,
         \A k \in 0 .. n - 1 : k \in Reached(o),
         n = Total(o) \/ ~InRange(o, n) \/ Check(o) # ExceptionNone
  PROVE  Reached(o) \subseteq 0 .. n - 1
<1>1. Total(o) \in Nat
  BY OpFields
<1>. QED
  BY <1>1 DEF Reached

--------------------------------------------------------------------------------
(***************************************************************************)
(* The invariant holds.                                                    *)
(***************************************************************************)

\* The invariant holds initially.
LEMMA InitInv == Init => IInv
<1>. SUFFICES ASSUME Init PROVE IInv
  OBVIOUS
<1>1. TypeOK
  BY WordAssumption DEF Init, TypeOK
<1>2. LockInv
  BY ProcAssumption DEF Init, LockInv, Inside
<1>. QED
  BY <1>1, <1>2 DEF Init, IInv, IdleInv, WaitInv, LoopInv, GotInv, OddInv, Running

\* What the invariant says of the goroutine that is in the loop.
LEMMA RunningFacts ==
  ASSUME IInv, NEW p \in Proc, Running(p)
  PROVE  /\ mu = p
         /\ op[p] \in Ops /\ op[p] \in Operation /\ WellFormed(op[p])
         /\ i[p] \in Nat
         /\ \A q \in Proc : q # p => ~Inside(q)
<1>1. mu = p
  BY DEF IInv, LockInv, Inside, Running
<1>2. op[p] \in Ops
  BY DEF IInv, LoopInv
<1>. QED
  BY <1>1, <1>2, OpTyped DEF IInv, LockInv, TypeOK

\* A call preserves the invariant.
LEMMA InvokeInv ==
  ASSUME IInv, NEW p \in Proc, NEW o \in Ops, Invoke(p, o)
  PROVE  IInv'
<1>0. o \in Operation /\ WellFormed(o) /\ o.locks \in {1, 2}
  BY OpTyped, OpFields
<1>1. TypeOK'
  BY CheckTyped DEF IInv, TypeOK, Invoke
<1>2. LockInv'
  BY DEF IInv, TypeOK, LockInv, IdleInv, Invoke, Inside
<1>3. IdleInv' /\ WaitInv'
  BY <1>0 DEF IInv, TypeOK, IdleInv, WaitInv, Invoke
<1>4. LoopInv' /\ GotInv' /\ OddInv'
  BY DEF IInv, TypeOK, LoopInv, GotInv, OddInv, Invoke, Running, ReadSoFar
<1>. QED
  BY <1>1, <1>2, <1>3, <1>4 DEF IInv

\* lockDataModel preserves the invariant.
LEMMA LockDataModelInv ==
  ASSUME IInv, NEW p \in Proc, LockDataModel(p)
  PROVE  IInv'
<1>0. /\ op[p] \in Ops /\ op[p] \in Operation /\ op[p].locks \in {1, 2}
      /\ depth[p] \in {0, 1} /\ depth[p] < op[p].locks
      /\ i[p] = 0 /\ exc[p] = Check(op[p]) /\ got[p] = NoValues
      /\ Total(op[p]) \in Nat
  BY OpTyped, OpFields DEF IInv, TypeOK, WaitInv, LockDataModel
<1>1. TypeOK'
  BY <1>0 DEF IInv, TypeOK, LockDataModel
<1>2. LockInv'
  BY <1>0, ProcAssumption DEF IInv, TypeOK, LockInv, LockDataModel, Inside
<1>3. IdleInv' /\ WaitInv'
  BY <1>0 DEF IInv, TypeOK, IdleInv, WaitInv, LockDataModel
<1>4. LoopInv'
  BY <1>0, CheckTyped DEF IInv, TypeOK, LoopInv, LockDataModel, Running
<1>5. GotInv'
  <2>1. \A q \in Proc : q # p /\ Running(q)' =>
          Running(q) /\ ReadSoFar(q)' = ReadSoFar(q) /\ got'[q] = got[q] /\ op'[q] = op[q]
    BY DEF IInv, TypeOK, LockDataModel, Running, ReadSoFar
  <2>2. ReadSoFar(p)' = {}
    BY <1>0 DEF LockDataModel, ReadSoFar
  <2>3. got'[p] = [k \in ReadSoFar(p)' |-> mem'[CellOf(op'[p], k)]]
    BY <1>0, <2>2 DEF LockDataModel, NoValues
  <2>. QED
    BY <2>1, <2>3 DEF IInv, GotInv, LockDataModel
<1>6. OddInv'
  BY DEF IInv, TypeOK, OddInv, LockDataModel
<1>. QED
  BY <1>1, <1>2, <1>3, <1>4, <1>5, <1>6 DEF IInv

\* A refused access preserves the invariant.
LEMMA RefuseInv ==
  ASSUME IInv, NEW p \in Proc, Refuse(p)
  PROVE  IInv'
<1>1. TypeOK'
  BY DEF IInv, TypeOK, Refuse
<1>2. LockInv'
  BY DEF IInv, LockInv, Refuse, Inside
<1>3. IdleInv' /\ WaitInv'
  BY DEF IInv, TypeOK, IdleInv, WaitInv, Refuse, AtElement
<1>4. LoopInv'
  BY DEF IInv, TypeOK, LoopInv, Refuse, AtElement, Running, ExceptionNone, ExceptionIllegalDataAddr
<1>5. GotInv' /\ OddInv'
  BY DEF IInv, TypeOK, GotInv, OddInv, Refuse, AtElement, Running, ReadSoFar
<1>. QED
  BY <1>1, <1>2, <1>3, <1>4, <1>5 DEF IInv

\* A goroutine at an element that is in range: the element is reached.
LEMMA AtElementFacts ==
  ASSUME IInv, NEW p \in Proc, AtElement(p), InRange(op[p], i[p])
  PROVE  /\ Running(p) /\ mu = p /\ i[p] \in Nat /\ i[p] < Total(op[p])
         /\ op[p] \in Ops /\ op[p] \in Operation /\ WellFormed(op[p])
         /\ Check(op[p]) = ExceptionNone
         /\ \A k \in 0 .. i[p] : k \in Reached(op[p])
         /\ CellOf(op[p], i[p]) \in Cell
         /\ \A q \in Proc : q # p => ~Inside(q) /\ ~Running(q)
<1>1. Running(p) /\ i[p] < Total(op[p])
  BY DEF AtElement, Running
<1>2. /\ mu = p /\ i[p] \in Nat
      /\ op[p] \in Ops /\ op[p] \in Operation /\ WellFormed(op[p])
      /\ \A q \in Proc : q # p => ~Inside(q) /\ ~Running(q)
  BY <1>1, RunningFacts DEF Inside, Running
<1>3. Check(op[p]) = ExceptionNone /\ \A k \in 0 .. i[p] - 1 : k \in Reached(op[p])
  BY <1>1 DEF IInv, LoopInv, AtElement
<1>4. \A k \in 0 .. i[p] : k \in Reached(op[p])
  BY <1>1, <1>2, <1>3, ReachNext
<1>. QED
  BY <1>1, <1>2, <1>3, <1>4, InRangeCell

\* Reading an element preserves the invariant.
LEMMA GetElementInv ==
  ASSUME IInv, NEW p \in Proc, GetElement(p)
  PROVE  IInv'
<1>0. AtElement(p) /\ InRange(op[p], i[p]) /\ op[p].kind = "read"
  BY DEF GetElement
<1>a. /\ i[p] \in Nat /\ i[p] < Total(op[p]) /\ Total(op[p]) \in Nat
      /\ \A k \in 0 .. i[p] : k \in Reached(op[p])
      /\ \A q \in Proc : q # p => ~Running(q)
  BY <1>0, AtElementFacts, OpFields
<1>1. TypeOK'
  BY <1>a DEF IInv, TypeOK, GetElement
<1>2. LockInv'
  BY DEF IInv, LockInv, GetElement, Inside
<1>3. IdleInv' /\ WaitInv'
  BY <1>0 DEF IInv, TypeOK, IdleInv, WaitInv, GetElement, AtElement
<1>4. LoopInv'
  BY <1>0, <1>a DEF IInv, TypeOK, LoopInv, GetElement, AtElement, Running
<1>5. GotInv'
  <2>1. ReadSoFar(p) = 0 .. i[p] - 1 /\ ReadSoFar(p)' = 0 .. i[p]
    BY <1>0, <1>a DEF ReadSoFar, GetElement, IInv, TypeOK
  <2>2. got[p] = [k \in 0 .. i[p] - 1 |-> mem[CellOf(op[p], k)]]
    BY <1>0, <2>1, Zenon DEF IInv, GotInv, Running, AtElement
  <2>3. \A k \in 0 .. i[p] : k = i[p] \/ got[p][k] = mem[CellOf(op[p], k)]
    <3>1. \A k \in 0 .. i[p] : k = i[p] \/ k \in 0 .. i[p] - 1
      BY <1>a
    <3>. QED
      BY <2>2, <3>1, Zenon
  <2>4. got'[p] = [k \in 0 .. i[p] |-> IF k = i[p] THEN mem[CellOf(op[p], k)] ELSE got[p][k]]
    BY DEF GetElement, IInv, TypeOK
  <2>5. got'[p] = [k \in ReadSoFar(p)' |-> mem'[CellOf(op'[p], k)]]
    BY <2>1, <2>3, <2>4, Zenon DEF GetElement
  <2>. QED
    BY <1>a, <2>5, Zenon DEF GotInv, GetElement, Running
<1>6. OddInv'
  BY <1>0, <1>a DEF IInv, OddInv, GetElement, AtElement, Running
<1>. QED
  BY <1>1, <1>2, <1>3, <1>4, <1>5, <1>6 DEF IInv

\* Storing an element preserves the invariant.
LEMMA SetElementInv ==
  ASSUME IInv, NEW p \in Proc, SetElement(p)
  PROVE  IInv'
<1>0. AtElement(p) /\ InRange(op[p], i[p]) /\ op[p].kind = "write" /\ i[p] < op[p].qty
  BY DEF SetElement
<1>a. /\ i[p] \in Nat /\ i[p] < Total(op[p]) /\ Total(op[p]) \in Nat
      /\ \A k \in 0 .. i[p] : k \in Reached(op[p])
      /\ \A q \in Proc : q # p => ~Running(q)
      /\ op[p] \in Operation /\ WellFormed(op[p])
      /\ Running(p)
  BY <1>0, AtElementFacts, OpFields
<1>b. op[p].data[i[p] + 1] \in Word
  BY <1>0, <1>a, DataTyped
<1>1. TypeOK'
  <2>1. mem' \in [Cell -> Word]
    BY <1>b, Zenon DEF IInv, TypeOK, SetElement
  <2>2. i' \in [Proc -> Nat]
    <3>1. i \in [Proc -> Nat] /\ i' = [i EXCEPT ![p] = @ + 1]
      BY DEF IInv, TypeOK, SetElement
    <3> QED
      BY <3>1
  <2>. QED
    BY <2>1, <2>2, Zenon DEF IInv, TypeOK, SetElement
<1>2. LockInv'
  BY DEF IInv, LockInv, SetElement, Inside
<1>3. IdleInv' /\ WaitInv'
  BY <1>0 DEF IInv, TypeOK, IdleInv, WaitInv, SetElement, AtElement
<1>4. LoopInv'
  <2>1. /\ i'[p] = i[p] + 1 /\ op' = op /\ exc' = exc /\ pc' = pc
        /\ exc[p] = ExceptionNone
    BY <1>0, <1>a DEF IInv, TypeOK, SetElement, AtElement
  <2>2. op[p] \in Ops /\ Check(op[p]) = ExceptionNone
    BY <1>a, <2>1 DEF IInv, LoopInv
  <2>. QED
    BY <1>a, <2>1, <2>2, SMTT(30) DEF LoopInv, Running
<1>5. GotInv'
  <2>1. ReadSoFar(p) = {} /\ ReadSoFar(p)' = {}
    BY <1>0 DEF ReadSoFar, SetElement
  <2>2. got'[p] = [k \in ReadSoFar(p)' |-> mem'[CellOf(op'[p], k)]]
    BY <1>a, <2>1, Zenon DEF IInv, GotInv, SetElement
  <2>. QED
    BY <1>a, <2>2 DEF GotInv, SetElement, Running
<1>6. OddInv'
  BY <1>0, <1>a DEF IInv, OddInv, SetElement, AtElement, Running
<1>. QED
  BY <1>1, <1>2, <1>3, <1>4, <1>5, <1>6 DEF IInv

\* Reading the register of the odd byte preserves the invariant.
LEMMA GetOddInv ==
  ASSUME IInv, NEW p \in Proc, GetOdd(p)
  PROVE  IInv'
<1>0. AtElement(p) /\ InRange(op[p], i[p]) /\ op[p].kind = "write" /\ i[p] = op[p].qty
  BY DEF GetOdd
<1>a. /\ i[p] < Total(op[p]) /\ CellOf(op[p], i[p]) \in Cell
      /\ op[p] \in Operation /\ op[p].odd = 1
      /\ \A q \in Proc : q # p => ~Running(q)
  <2>1. /\ i[p] < Total(op[p]) /\ CellOf(op[p], i[p]) \in Cell /\ op[p] \in Operation
        /\ \A q \in Proc : q # p => ~Running(q)
    BY <1>0, AtElementFacts, Zenon
  <2>2. op[p].odd \in {0, 1} /\ op[p].qty \in Nat
    BY <2>1, OpFields, Zenon
  <2>3. op[p].odd = 1
    BY <1>0, <2>1, <2>2 DEF Total
  <2>. QED
    BY <2>1, <2>3
<1>1. TypeOK'
  BY <1>a DEF IInv, TypeOK, GetOdd
<1>2. LockInv'
  BY <1>0 DEF IInv, TypeOK, LockInv, GetOdd, Inside, AtElement
<1>3. IdleInv' /\ WaitInv'
  BY DEF IInv, TypeOK, IdleInv, WaitInv, GetOdd
<1>4. LoopInv'
  BY <1>0 DEF IInv, TypeOK, LoopInv, GetOdd, AtElement, Running
<1>6. GotInv'
  <2>1. ReadSoFar(p) = {} /\ ReadSoFar(p)' = {} /\ Running(p)
    BY <1>0 DEF ReadSoFar, GetOdd, Running, AtElement
  <2>2. got'[p] = [k \in ReadSoFar(p)' |-> mem'[CellOf(op'[p], k)]]
    BY <2>1, Zenon DEF IInv, GotInv, GetOdd
  <2>3. \A q \in Proc : q # p => ~Running(q)'
    BY <1>a DEF Running, GetOdd, IInv, TypeOK
  <2>. QED
    BY <2>2, <2>3 DEF GotInv
<1>5. OddInv'
  BY <1>0, <1>a DEF IInv, TypeOK, OddInv, GetOdd, AtElement, Running
<1>. QED
  BY <1>1, <1>2, <1>3, <1>4, <1>5, <1>6 DEF IInv

\* Merging the odd byte preserves the invariant.
LEMMA SetOddInv ==
  ASSUME IInv, NEW p \in Proc, SetOdd(p)
  PROVE  IInv'
<1>0. /\ pc[p] = "merge" /\ Running(p)
      /\ exc[p] = ExceptionNone /\ op[p].kind = "write" /\ op[p].odd = 1
      /\ i[p] = op[p].qty /\ InRange(op[p], i[p])
  BY DEF SetOdd, IInv, OddInv, Running
<1>a. /\ op[p] \in Operation /\ WellFormed(op[p])
      /\ i[p] \in Nat /\ Total(op[p]) = i[p] + 1
      /\ \A q \in Proc : q # p => ~Inside(q) /\ ~Running(q)
  BY <1>0, RunningFacts, OpFields DEF Total, Inside, Running
<1>b. \A k \in 0 .. i[p] : k \in Reached(op[p])
  <2>1. Check(op[p]) = ExceptionNone /\ \A k \in 0 .. i[p] - 1 : k \in Reached(op[p])
    BY <1>0 DEF IInv, LoopInv
  <2>. QED
    <3>1. i[p] < Total(op[p])
      BY <1>a
    <3>. QED
      BY <1>0, <1>a, <2>1, <3>1, ReachNext, Zenon
<1>c. HighByte(op[p].data[i[p] + 1], old[p]) \in Word
  <2>0. i[p] < Total(op[p])
    BY <1>a
  <2>1. op[p].data[i[p] + 1] \in Word
    BY <1>0, <1>a, <2>0, DataTyped
  <2>2. old[p] \in Word
    BY DEF IInv, TypeOK
  <2>. QED
    BY <2>1, <2>2, WordAssumption, Zenon
<1>1. TypeOK'
  <2>1. mem' \in [Cell -> Word]
    BY <1>c, Zenon DEF IInv, TypeOK, SetOdd
  <2>2. i' \in [Proc -> Nat]
    <3>1. i \in [Proc -> Nat] /\ i' = [i EXCEPT ![p] = @ + 1]
      BY DEF IInv, TypeOK, SetOdd
    <3> QED
      BY <3>1
  <2>3. pc' \in [Proc -> {"idle", "lock", "access", "merge"}]
    BY DEF IInv, TypeOK, SetOdd
  <2>. QED
    BY <2>1, <2>2, <2>3, Zenon DEF IInv, TypeOK, SetOdd
<1>2. LockInv'
  BY <1>0 DEF IInv, TypeOK, LockInv, SetOdd, Inside
<1>3. IdleInv' /\ WaitInv'
  BY DEF IInv, TypeOK, IdleInv, WaitInv, SetOdd
<1>4. LoopInv'
  <2>1. i'[p] = i[p] + 1 /\ op' = op /\ exc' = exc
    BY <1>0, <1>a DEF IInv, TypeOK, SetOdd
  <2>2. op[p] \in Ops /\ Check(op[p]) = ExceptionNone
    BY <1>0 DEF IInv, LoopInv
  <2>3. \A q \in Proc : q # p => pc'[q] = pc[q]
    BY DEF IInv, TypeOK, SetOdd
  <2>. QED
    <3>1. i'[p] \in 0 .. Total(op'[p]) /\ \A k \in 0 .. i'[p] - 1 : k \in Reached(op'[p])
      <4>1. i'[p] \in 0 .. Total(op'[p])
        BY <1>a, <2>1
      <4>2. i'[p] - 1 = i[p]
        BY <1>a, <2>1
      <4>. QED
        BY <1>b, <2>1, <4>1, <4>2, Zenon
    <3>2. exc'[p] = ExceptionNone /\ op'[p] \in Ops /\ Check(op'[p]) = ExceptionNone
      BY <1>0, <2>1, <2>2
    <3>3. \A q \in Proc : q # p => ~Running(q)'
      BY <1>a, <2>3 DEF Running
    <3> QED
      BY <3>1, <3>2, <3>3, Zenon DEF LoopInv
<1>5. GotInv'
  <2>1. ReadSoFar(p) = {} /\ ReadSoFar(p)' = {}
    BY <1>0 DEF ReadSoFar, SetOdd
  <2>2. got'[p] = [k \in ReadSoFar(p)' |-> mem'[CellOf(op'[p], k)]]
    BY <1>0, <2>1, Zenon DEF IInv, GotInv, SetOdd
  <2>3. \A q \in Proc : q # p => ~Running(q)'
    BY <1>a DEF Running, SetOdd, IInv, TypeOK
  <2>. QED
    BY <2>2, <2>3 DEF GotInv
<1>6. OddInv'
  BY <1>a DEF IInv, TypeOK, OddInv, SetOdd, Running
<1>. QED
  BY <1>1, <1>2, <1>3, <1>4, <1>5, <1>6 DEF IInv

\* Unlocking and returning preserves the invariant.
LEMMA UnlockInv ==
  ASSUME IInv, NEW p \in Proc, Unlock(p)
  PROVE  IInv'
<1>0. pc[p] = "access" /\ Running(p) /\ mu = p /\ \A q \in Proc : q # p => ~Inside(q)
  BY RunningFacts DEF Unlock, Finished, Running
<1>1. TypeOK'
  BY WordAssumption DEF IInv, TypeOK, Unlock
<1>2. LockInv'
  BY <1>0, ProcAssumption DEF IInv, TypeOK, LockInv, Unlock, Inside
<1>3. IdleInv' /\ WaitInv'
  BY DEF IInv, TypeOK, IdleInv, WaitInv, Unlock
<1>4. LoopInv' /\ GotInv' /\ OddInv'
  BY <1>0 DEF IInv, TypeOK, LoopInv, GotInv, OddInv, Unlock, Running, Inside
<1>. QED
  BY <1>1, <1>2, <1>3, <1>4 DEF IInv

\* IInv is inductive.
LEMMA NextInv == IInv /\ [Next]_vars => IInv'
<1>. SUFFICES ASSUME IInv, [Next]_vars PROVE IInv'
  OBVIOUS
<1>1. ASSUME NEW p \in Proc, NEW o \in Ops, Invoke(p, o) PROVE IInv'
  BY <1>1, InvokeInv
<1>2. ASSUME NEW p \in Proc, LockDataModel(p) PROVE IInv'
  BY <1>2, LockDataModelInv
<1>3. ASSUME NEW p \in Proc, Step(p) PROVE IInv'
  <2>1. CASE Refuse(p)
    BY <2>1, RefuseInv
  <2>2. CASE GetElement(p)
    BY <2>2, GetElementInv
  <2>3. CASE SetElement(p)
    BY <2>3, SetElementInv
  <2>4. CASE GetOdd(p)
    BY <2>4, GetOddInv
  <2>5. CASE SetOdd(p)
    BY <2>5, SetOddInv
  <2>6. CASE Unlock(p)
    BY <2>6, UnlockInv
  <2>. QED
    BY <1>3, <2>1, <2>2, <2>3, <2>4, <2>5, <2>6 DEF Step
<1>4. CASE UNCHANGED vars
  <2>1. /\ mem' = mem /\ mu' = mu /\ pc' = pc /\ op' = op /\ depth' = depth
        /\ i' = i /\ exc' = exc /\ got' = got /\ old' = old
    BY <1>4 DEF vars
  <2>2. TypeOK' /\ LockInv'
    BY <2>1 DEF IInv, TypeOK, LockInv, Inside
  <2>3. IdleInv' /\ WaitInv'
    BY <2>1 DEF IInv, IdleInv, WaitInv
  <2>4. LoopInv' /\ OddInv'
    BY <2>1 DEF IInv, LoopInv, OddInv, Running
  <2>5. GotInv'
    <3>1. \A p \in Proc : Running(p)' = Running(p) /\ ReadSoFar(p)' = ReadSoFar(p)
      BY <2>1 DEF Running, ReadSoFar
    <3>. QED
      BY <2>1, <3>1, Zenon DEF IInv, GotInv
  <2>. QED
    BY <2>2, <2>3, <2>4, <2>5 DEF IInv
<1>. QED
  BY <1>1, <1>2, <1>3, <1>4 DEF Next

\* The invariant holds always.
LEMMA Invariance == Spec => []IInv
  BY InitInv, NextInv, PTL DEF Spec

--------------------------------------------------------------------------------
(***************************************************************************)
(* Safety.                                                                 *)
(***************************************************************************)

\* The state always has its type.
THEOREM TypeCorrect == Spec => []TypeOK
  BY Invariance, PTL DEF IInv

\* No torn reads and no lost byte: an operation in progress sees a bank
\* that nobody else changes, because lockDataModel excludes them.
THEOREM Snapshot == Spec => []SnapshotHolds
<1>1. IInv => SnapshotHolds
  <2>. SUFFICES ASSUME IInv, NEW p \in Proc
                PROVE  /\ Inside(p) /\ op[p].kind = "read" =>
                            \A k \in 0 .. i[p] - 1 : got[p][k] = mem[CellOf(op[p], k)]
                       /\ pc[p] = "merge" => old[p] = mem[CellOf(op[p], i[p])]
    BY DEF SnapshotHolds
  <2>1. pc[p] = "merge" => old[p] = mem[CellOf(op[p], i[p])]
    BY DEF IInv, OddInv
  <2>2. ASSUME Running(p), op[p].kind = "read"
        PROVE  \A k \in 0 .. i[p] - 1 : got[p][k] = mem[CellOf(op[p], k)]
    BY <2>2, Zenon DEF IInv, GotInv, ReadSoFar
  <2>3. ASSUME pc[p] = "lock"
        PROVE  \A k \in 0 .. i[p] - 1 : got[p][k] = mem[CellOf(op[p], k)]
    BY <2>3 DEF IInv, WaitInv
  <2>. QED
    BY <2>1, <2>2, <2>3 DEF Inside, Running
<1>. QED
  BY <1>1, Invariance, PTL

\* Why a loop has stopped early: an exception found before it, or an element
\* the bank refuses.
LEMMA StopFacts ==
  ASSUME IInv, NEW p \in Proc, Running(p)
  PROVE  \/ exc[p] = ExceptionNone
         \/ i[p] = 0
         \/ Check(op[p]) = ExceptionNone /\ i[p] < Total(op[p]) /\ ~InRange(op[p], i[p])
  BY Zenon DEF IInv, LoopInv

\* Address k of a request, when it does not wrap.
LEMMA PlainAddress ==
  ASSUME NEW o, o.check, NEW k, NEW n \in Nat, n < 65536, n = o.start + k
  PROVE  Addr(o, k) = n
<1>1. U16(n) = n
  BY SMTT(30) DEF U16
<1>. QED
  BY <1>1, SMTT(30) DEF Addr

LEMMA SizeFacts ==
  ASSUME NEW t \in Table
  PROVE  Size(t) \in Nat /\ Size(t) < 65536
  BY SizeAssumption, SMTT(30) DEF Size

\* An operation that has visited an element found the first one in the block.
LEMMA FirstInRange ==
  ASSUME IInv, NEW p \in Proc, Running(p), op[p].check, i[p] > 0
  PROVE  op[p].start < Size(op[p].table)
<1> DEFINE o == op[p]
<1>1. o \in Operation /\ WellFormed(o) /\ i[p] \in Nat
  BY RunningFacts, SMTT(30)
<1>2. o.start \in Int /\ 0 <= o.start /\ o.start < 65536 /\ o.table \in Table
  BY <1>1, OpFields, SMTT(30) DEF WellFormed
<1>3. \A k \in 0 .. i[p] - 1 : k \in Reached(o)
  BY Zenon DEF IInv, LoopInv
<1>4. 0 \in 0 .. i[p] - 1
  BY <1>1, SMTT(30)
<1>5. InRange(o, 0)
  <2>1. 0 \in Reached(o)
    BY <1>3, <1>4, Zenon
  <2>. QED
    BY <1>1, <2>1, OpFields, SMTT(30) DEF Reached
<1>6. Addr(o, 0) = o.start
  <2>1. o.start < 65536 /\ o.start \in Nat /\ o.start = o.start + 0
    BY <1>2, SMTT(30)
  <2>. QED
    BY <2>1, PlainAddress, SMTT(30)
<1>. QED
  BY <1>2, <1>5, <1>6, SizeFacts, SMTT(30) DEF InRange

\* writeToModel's range check is strong enough: a write it lets through
\* stores all its elements, and one whose range wraps stores none.
THEOREM AllOrNothing == Spec => []WriteRequestAllOrNothing
<1>1. IInv => WriteRequestAllOrNothing
  <2>. SUFFICES ASSUME IInv, NEW p \in Proc, Inside(p), op[p].check, op[p].kind = "write", i[p] > 0,
                       op[p].qty + Size(op[p].table) <= 65536
                PROVE  op[p].start + op[p].qty <= Size(op[p].table) /\ exc[p] = ExceptionNone
    BY DEF WriteRequestAllOrNothing
  <2> DEFINE o == op[p]
  <2>1. Running(p)
    BY SMTT(30) DEF IInv, WaitInv, Inside, Running
  <2>2. o \in Operation /\ WellFormed(o) /\ i[p] \in Nat
    BY <2>1, RunningFacts, SMTT(30)
  <2>3. /\ o.start \in Int /\ 0 <= o.start /\ o.qty \in Nat /\ Total(o) = o.qty
        /\ o.table \in Table
    <3>1. o.start \in Int /\ o.qty \in Nat /\ o.odd \in {0, 1} /\ o.table \in Table
      BY <2>2, OpFields, SMTT(30)
    <3>2. 0 <= o.start /\ o.odd = 0
      BY <2>2, SMTT(30) DEF WellFormed
    <3> QED
      BY <3>1, <3>2, SMTT(30) DEF Total
  <2>4. o.start < Size(o.table) /\ Size(o.table) \in Nat
    BY <2>1, <2>3, FirstInRange, SizeFacts, SMTT(30)
  <2>5. o.start + o.qty < 65536
    BY <2>3, <2>4, SMTT(30)
  <2>6. Check(o) = ExceptionNone
    BY <2>1, SMTT(30) DEF IInv, LoopInv
  <2>7. ~OutOfBounds(o, o.start + o.qty)
    <3>1. U16(o.start + o.qty) = o.start + o.qty
      BY <2>3, <2>5, SMTT(30) DEF U16
    <3>2. CheckWrite(o) = ExceptionNone
      BY <2>6, SMTT(30) DEF Check
    <3>. QED
      BY <3>1, <3>2, SMTT(30) DEF CheckWrite, ExceptionNone, ExceptionIllegalDataAddr
  <2>8. o.start + o.qty <= Size(o.table)
    BY <2>3, <2>7, SizeAssumption, SMTT(30) DEF OutOfBounds, Size, Table, RegTables
  <2>9. exc[p] = ExceptionNone
    <3>1. SUFFICES ASSUME i[p] < Total(o), ~InRange(o, i[p]) PROVE FALSE
      BY <2>1, <2>2, StopFacts, SMTT(30)
    <3> DEFINE n == o.start + i[p]
               z == Size(o.table)
    <3>z. z \in Nat /\ o.start + o.qty <= z /\ z = Size(o.table)
      BY <2>4, <2>8
    <3>i. i[p] < o.qty
      BY <2>3, <3>1, SMTT(30)
    <3>n. n = o.start + i[p]
      OBVIOUS
    <3> HIDE DEF z, n
    <3>2. n \in Nat /\ n < z /\ n < 65536
      BY <2>2, <2>3, <2>5, <3>i, <3>n, <3>z, SMTT(30)
    <3>3. Addr(o, i[p]) = n
      BY <3>2, <3>n, PlainAddress, SMTT(30)
    <3> HIDE DEF o
    <3>. QED
      BY <3>z, <3>1, <3>2, <3>3, SMTT(30) DEF InRange
  <2>. QED
    BY <2>8, <2>9
<1>. QED
  BY <1>1, Invariance, PTL

\* A range that leaves the block, or wraps, has an address just behind the
\* block, so the bank refuses it whatever the range check says.
LEMMA RangeInBlock ==
  ASSUME NEW o \in Operation, WellFormed(o), o.check, o.qty > 0,
         \A k \in 0 .. o.qty - 1 : InRange(o, k)
  PROVE  o.start + o.qty <= Size(o.table)
<1> DEFINE s == Size(o.table)
<1>1. /\ o.start \in Int /\ 0 <= o.start /\ o.start < 65536 /\ o.qty \in Nat
      /\ s \in Nat /\ s < 65536
  BY OpFields, SizeFacts, SMTT(30) DEF WellFormed
<1>s. \A k \in 0 .. o.qty - 1 : Addr(o, k) \in 0 .. s - 1
  BY Zenon DEF InRange
<1> HIDE DEF s
<1>2. o.start < s
  <2>1. 0 \in 0 .. o.qty - 1 /\ o.start \in Nat /\ o.start = o.start + 0
    BY <1>1, SMTT(30)
  <2>2. Addr(o, 0) = o.start
    BY <1>1, <2>1, PlainAddress, SMTT(30)
  <2>3. Addr(o, 0) \in 0 .. s - 1
    BY <1>s, <2>1, Zenon
  <2>. QED
    BY <1>1, <2>2, <2>3, SMTT(30)
<1>3. SUFFICES ASSUME o.start + o.qty > s PROVE FALSE
  BY <1>1, SMTT(30) DEF s
<1> DEFINE k == s - o.start
<1>4. k \in 0 .. o.qty - 1 /\ s = o.start + k
  BY <1>1, <1>2, <1>3, SMTT(30)
<1> HIDE DEF k
<1>5. Addr(o, k) = s
  BY <1>1, <1>4, PlainAddress, SMTT(30)
<1>6. Addr(o, k) \in 0 .. s - 1
  BY <1>s, <1>4, Zenon
<1>. QED
  BY <1>1, <1>5, <1>6, SMTT(30)

\* No request is answered without an exception unless every element it names
\* exists: the wrap of the last address in uint16 lets nothing through.
THEOREM RangeWithinBlock == Spec => []AnsweredInRange
<1>1. IInv => AnsweredInRange
  <2>. SUFFICES ASSUME IInv, NEW p \in Proc, Finished(p), op[p].check, exc[p] = ExceptionNone
                PROVE  op[p].start + op[p].qty <= Size(op[p].table)
    BY DEF AnsweredInRange
  <2> DEFINE o == op[p]
  <2>1. Running(p)
    BY DEF Finished, Running
  <2>2. o \in Operation /\ WellFormed(o) /\ i[p] \in Nat
    BY <2>1, RunningFacts, SMTT(30)
  <2>3. /\ o.start \in Int /\ 0 <= o.start /\ o.start < 65536 /\ o.qty \in Nat
        /\ Total(o) = o.qty /\ o.table \in Table /\ o.kind \in {"read", "write"}
    <3>1. /\ o.start \in Int /\ o.qty \in Nat /\ o.odd \in {0, 1} /\ o.table \in Table
          /\ o.kind \in {"read", "write"}
      BY <2>2, OpFields, SMTT(30)
    <3>2. 0 <= o.start /\ o.start < 65536 /\ o.odd = 0
      BY <2>2, SMTT(30) DEF WellFormed
    <3> QED
      BY <3>1, <3>2, SMTT(30) DEF Total
  <2>4. Check(o) = ExceptionNone /\ i[p] = o.qty
    <3>1. Check(o) = ExceptionNone /\ i[p] \in 0 .. Total(o)
      BY <2>1, SMTT(30) DEF IInv, LoopInv
    <3>2. ~(i[p] < Total(o))
      BY DEF Finished, AtElement
    <3>. QED
      BY <2>2, <2>3, <3>1, <3>2, SMTT(30)
  <2>5. CASE o.qty > 0
    <3>1. \A k \in 0 .. o.qty - 1 : k \in Reached(o)
      BY <2>1, <2>4, Zenon DEF IInv, LoopInv
    <3>2. \A k \in 0 .. o.qty - 1 : InRange(o, k)
      BY <2>3, <3>1, SMTT(30) DEF Reached
    <3>. QED
      BY <2>2, <2>5, <3>2, RangeInBlock, Zenon
  <2>6. CASE o.qty = 0
    <3>1. o.kind = "write" /\ CheckWrite(o) = ExceptionNone
      BY <2>3, <2>4, <2>6, SMTT(30) DEF Check, CheckRead, ExceptionNone, ExceptionIllegalDataValue
    <3>2. U16(o.start + o.qty) = o.start + o.qty
      BY <2>3, <2>6, SMTT(30) DEF U16
    <3>3. ~OutOfBounds(o, o.start + o.qty)
      BY <3>1, <3>2, SMTT(30) DEF CheckWrite, ExceptionNone, ExceptionIllegalDataAddr
    <3>. QED
      BY <2>3, <3>3, SizeAssumption, SMTT(30) DEF OutOfBounds, Size, Table, RegTables
  <2>. QED
    BY <2>3, <2>5, <2>6, SMTT(30)
<1>. QED
  BY <1>1, Invariance, PTL

--------------------------------------------------------------------------------
(***************************************************************************)
(* Refinement.  In the states of the invariant the abstract result is the  *)
(* one AtomicModel computes, whether the loop is over or not.              *)
(***************************************************************************)
ResPlain == [p \in Proc |->
  IF mu = p THEN [exc |-> Outcome(op[p]), vals |-> Values(op[p], mem)]
  ELSE [exc |-> ExceptionNone, vals |-> NoValues]]

\* Once the loop is over nothing is left to store.
LEMMA FinishedReached ==
  ASSUME IInv, NEW p \in Proc, Finished(p)
  PROVE  /\ Running(p) /\ mu = p /\ op[p] \in Operation /\ WellFormed(op[p])
         /\ i[p] \in Nat /\ Reached(op[p]) = 0 .. i[p] - 1
         /\ exc[p] = Outcome(op[p])
<1>1. Running(p)
  BY DEF Finished, Running
<1>2. mu = p /\ op[p] \in Operation /\ WellFormed(op[p]) /\ i[p] \in Nat /\ Total(op[p]) \in Nat
  BY <1>1, RunningFacts, OpFields
<1>3. /\ \A k \in 0 .. i[p] - 1 : k \in Reached(op[p])
      /\ i[p] <= Total(op[p])
      /\ \/ exc[p] = ExceptionNone /\ Check(op[p]) = ExceptionNone
         \/ exc[p] # ExceptionNone /\ exc[p] = Check(op[p]) /\ i[p] = 0
         \/ /\ exc[p] = ExceptionIllegalDataAddr /\ Check(op[p]) = ExceptionNone
            /\ i[p] < Total(op[p]) /\ ~InRange(op[p], i[p])
  BY <1>1, <1>2, SMTT(30) DEF IInv, LoopInv
<1>4. exc[p] = ExceptionNone => i[p] = Total(op[p])
  BY <1>2, <1>3, SMTT(30) DEF Finished, AtElement
<1>5. Reached(op[p]) = 0 .. i[p] - 1
  BY <1>2, <1>3, <1>4, ReachStop, Zenon
<1>6. exc[p] = Outcome(op[p])
  BY <1>2, <1>3, <1>4, <1>5 DEF Outcome
<1>. QED
  BY <1>1, <1>2, <1>5, <1>6

\* The two ways to write the abstract result agree in every reachable state.
LEMMA ResIsPlain == IInv => ResView = ResPlain
<1>. SUFFICES ASSUME IInv, NEW p \in Proc, Finished(p)
              PROVE  mu = p /\ exc[p] = Outcome(op[p]) /\ got[p] = Values(op[p], mem)
  BY DEF ResView, ResPlain
<1>1. Running(p) /\ mu = p /\ Reached(op[p]) = 0 .. i[p] - 1 /\ exc[p] = Outcome(op[p])
  BY FinishedReached
<1>2. got[p] = Values(op[p], mem)
  BY <1>1 DEF IInv, GotInv, ReadSoFar, Values
<1>. QED
  BY <1>1, <1>2

\* Storing nothing leaves the bank as it is.
LEMMA EffectNone ==
  ASSUME NEW o, NEW m \in [Cell -> Word]
  PROVE  Effect(o, {}, m) = m
  BY DEF Effect

\* Storing element n first and the rest later is storing all of them.
LEMMA EffectStep ==
  ASSUME NEW o \in Operation, WellFormed(o), o.kind = "write",
         NEW m \in [Cell -> Word], NEW ks, NEW n \in Reached(o), n \in ks
  PROVE  Effect(o, ks \ {n}, [m EXCEPT ![CellOf(o, n)] = Stored(o, n, m[CellOf(o, n)])])
           = Effect(o, ks, m)
<1> DEFINE c0 == CellOf(o, n)
           m1 == [m EXCEPT ![c0] = Stored(o, n, m[c0])]
<1>1. c0 \in Cell /\ c0 = <<o.table, o.start + n>> /\ n \in Nat /\ o.start \in Int
  BY ReachedAddr, OpFields DEF CellOf
<1>2. ASSUME NEW c \in Cell PROVE Effect(o, ks \ {n}, m1)[c] = Effect(o, ks, m)[c]
  <2>1. CASE c = c0
    <3>1. c[1] = o.table /\ c[2] - o.start = n
      BY <1>1, <2>1
    <3>2. Effect(o, ks, m)[c] = Stored(o, n, m[c])
      BY <3>1, <1>2 DEF Effect
    <3>3. Effect(o, ks \ {n}, m1)[c] = m1[c]
      BY <3>1, <1>2 DEF Effect
    <3>. QED
      BY <3>2, <3>3, <2>1, <1>1
  <2>2. CASE c # c0
    <3>1. ~(c[1] = o.table /\ c[2] - o.start = n)
      <4>1. PICK t \in Table : c \in {t} \X (0 .. Size(t) - 1)
        BY <1>2 DEF Cell
      <4>2. c = <<c[1], c[2]>> /\ c[2] \in Int
        BY <4>1
      <4>. QED
        BY <4>2, <1>1, <2>2
    <3>2. m1[c] = m[c]
      BY <2>2, <1>2
    <3>. QED
      BY <3>1, <3>2, <1>2 DEF Effect
  <2>. QED
    BY <2>1, <2>2
<1>3. Effect(o, ks \ {n}, m1) = [c \in Cell |-> Effect(o, ks \ {n}, m1)[c]]
  BY DEF Effect
<1>4. Effect(o, ks, m) = [c \in Cell |-> Effect(o, ks, m)[c]]
  BY DEF Effect
<1>. QED
  BY <1>2, <1>3, <1>4, Zenon

\* AtomicModel speaks of the same operations.
LEMMA SameOperations ==
  /\ Atomic!Cell = Cell /\ Atomic!NoOp = NoOp
  /\ Atomic!NoResult = [exc |-> ExceptionNone, vals |-> NoValues]
  /\ \A o : Atomic!Reached(o) = Reached(o) /\ Atomic!Outcome(o) = Outcome(o)
  /\ \A o, m : Atomic!Values(o, m) = Values(o, m)
  /\ \A o, ks, m : Atomic!Effect(o, ks, m) = Effect(o, ks, m)
<1>1. Atomic!Cell = Cell /\ \A t : Atomic!Size(t) = Size(t)
  BY DEF Cell, Atomic!Cell, Size, Atomic!Size, Table, Atomic!Table, BitTables, Atomic!BitTables,
         RegTables, Atomic!RegTables
<1>2. Atomic!NoOp = NoOp
  BY DEF NoOp, Atomic!NoOp
<1>3. Atomic!NoResult = [exc |-> ExceptionNone, vals |-> NoValues]
  BY DEF Atomic!NoResult, NoValues, Atomic!NoValues, ExceptionNone, Atomic!ExceptionNone
<1>4. \A o : Atomic!Check(o) = Check(o)
  BY DEF Check, Atomic!Check, CheckRead, Atomic!CheckRead, CheckWrite, Atomic!CheckWrite,
         OutOfBounds, Atomic!OutOfBounds, U16, Atomic!U16, RegTables, Atomic!RegTables,
         ExceptionNone, Atomic!ExceptionNone,
         ExceptionIllegalDataAddr, Atomic!ExceptionIllegalDataAddr,
         ExceptionIllegalDataValue, Atomic!ExceptionIllegalDataValue
<1>5. \A o, k : Atomic!CellOf(o, k) = CellOf(o, k) /\ Atomic!InRange(o, k) = InRange(o, k)
  BY <1>1 DEF CellOf, Atomic!CellOf, InRange, Atomic!InRange, Addr, Atomic!Addr, U16, Atomic!U16
<1>6. \A o : Atomic!Reached(o) = Reached(o)
  BY <1>4, <1>5 DEF Reached, Atomic!Reached, Total, Atomic!Total, ExceptionNone, Atomic!ExceptionNone
<1>7. \A o : Atomic!Outcome(o) = Outcome(o)
  BY <1>4, <1>6 DEF Outcome, Atomic!Outcome, Total, Atomic!Total,
         ExceptionNone, Atomic!ExceptionNone,
         ExceptionIllegalDataAddr, Atomic!ExceptionIllegalDataAddr
<1>8. \A o, m : Atomic!Values(o, m) = Values(o, m)
  BY <1>5, <1>6 DEF Values, Atomic!Values
<1>9. \A o, ks, m : Atomic!Effect(o, ks, m) = Effect(o, ks, m)
  BY <1>1 DEF Effect, Atomic!Effect, Stored, Atomic!Stored
<1>. QED
  BY <1>1, <1>2, <1>3, <1>6, <1>7, <1>8, <1>9

\* The initial states of the code are initial states of AtomicModel.
LEMMA RefineInit == Init => Atomic!Init
<1>. SUFFICES ASSUME Init PROVE Atomic!Init
  OBVIOUS
<1>1. BankView = [c \in Cell |-> 0]
  BY DEF Init, BankView
<1>2. StView = [p \in Proc |-> "idle"]
  BY DEF Init, StView
<1>3. ResView = [p \in Proc |-> Atomic!NoResult]
  BY ProcAssumption, SameOperations DEF Init, ResView, Finished
<1>. QED
  BY <1>1, <1>2, <1>3, SameOperations DEF Init, Atomic!Init

\* A call is an abstract call.
LEMMA RefineInvoke ==
  ASSUME IInv, NEW p \in Proc, NEW o \in Ops, Invoke(p, o), ResView = ResPlain, ResView' = ResPlain'
  PROVE  Atomic!Call(p, o)
<1>1. mu # p /\ mu' = mu /\ mem' = mem /\ i' = i
  BY DEF Invoke, IInv, LockInv, Inside
<1>2. op' = [op EXCEPT ![p] = o] /\ pc' = [pc EXCEPT ![p] = "lock"] /\ pc[p] = "idle"
  BY DEF Invoke
<1>3. mu # NoProc => op'[mu] = op[mu]
  BY <1>1, <1>2 DEF IInv, TypeOK
<1>4. BankView' = BankView
  BY <1>1, <1>3, Zenon DEF BankView, Pending
<1>5. StView[p] = "idle" /\ StView' = [StView EXCEPT ![p] = "pending"]
  BY <1>1, <1>2, Zenon DEF StView, IInv, TypeOK
<1>6. ResView' = ResView
  BY <1>1, <1>2 DEF ResPlain, IInv, TypeOK
<1>. QED
  BY <1>2, <1>4, <1>5, <1>6 DEF Atomic!Call

\* The first lockDataModel of a call chain is the instant the operation
\* takes effect; a nested one changes nothing.
LEMMA RefineLock ==
  ASSUME IInv, NEW p \in Proc, LockDataModel(p), ResView = ResPlain, ResView' = ResPlain'
  PROVE  Atomic!TakeEffect(p) \/ UNCHANGED Atomic!vars
<1>0. /\ pc[p] = "lock" /\ mem' = mem /\ op' = op /\ i' = i
      /\ pc' \in [Proc -> {"idle", "lock", "access", "merge"}]
      /\ pc'[p] # "idle" /\ \A q \in Proc : q # p => pc'[q] = pc[q]
  BY DEF LockDataModel, IInv, TypeOK
<1>1. CASE depth[p] = 0
  <2>1. mu = NoProc /\ mu' = p /\ p # NoProc
    BY <1>1, ProcAssumption DEF LockDataModel
  <2>2. Pending(p) = Reached(op[p]) /\ Pending(p)' = Reached(op[p])
    BY <1>0 DEF Pending, IInv, WaitInv
  <2>3. BankView = mem /\ BankView' = Effect(op[p], Reached(op[p]), mem)
    BY <1>0, <2>1, <2>2, SMTT(30) DEF BankView, Pending
  <2>4. StView[p] = "pending" /\ StView' = [StView EXCEPT ![p] = "done"]
    BY <1>0, <2>1, ProcAssumption, Zenon DEF StView
  <2>5. ResView' = [ResView EXCEPT ![p] = [exc |-> Outcome(op[p]), vals |-> Values(op[p], mem)]]
    BY <1>0, <2>1, ProcAssumption, Zenon DEF ResPlain
  <2>. QED
    BY <1>0, <2>3, <2>4, <2>5, SameOperations, Zenon DEF Atomic!TakeEffect
<1>2. CASE depth[p] # 0
  <2>1. mu' = mu
    BY <1>2 DEF LockDataModel
  <2>2. BankView' = BankView
    BY <1>0, <2>1 DEF BankView, Pending
  <2>3. StView' = StView
    BY <1>0, <2>1 DEF StView
  <2>4. ResView' = ResView
    BY <1>0, <2>1 DEF ResPlain
  <2>. QED
    BY <1>0, <2>2, <2>3, <2>4 DEF Atomic!vars
<1>. QED
  BY <1>1, <1>2

\* The steps of the loop are invisible.
LEMMA RefineLoop ==
  ASSUME IInv, NEW p \in Proc, Step(p), ~Unlock(p), ResView = ResPlain, ResView' = ResPlain'
  PROVE  UNCHANGED Atomic!vars
<1>0. Running(p) /\ mu' = mu /\ op' = op
  BY Zenon DEF Step, Refuse, GetElement, SetElement, GetOdd, SetOdd, AtElement, Running
<1>a. /\ mu = p /\ p # NoProc /\ op[p] \in Operation /\ WellFormed(op[p]) /\ i[p] \in Nat
      /\ mem \in [Cell -> Word]
  BY <1>0, RunningFacts, ProcAssumption, Zenon DEF IInv, TypeOK
<1>1. StView' = StView
  <2>2. \A q \in Proc : pc'[q] = "idle" <=> pc[q] = "idle"
    BY <1>0, Zenon DEF Step, Refuse, GetElement, SetElement, GetOdd, SetOdd, Running, IInv, TypeOK
  <2>. QED
    BY <1>0, <2>2 DEF StView
<1>2. Values(op[p], mem') = Values(op[p], mem)
  <2>1. CASE op[p].kind = "read"
    <3>1. mem' = mem
      BY <2>1, <1>0, Zenon DEF Step, Refuse, GetElement, SetElement, GetOdd, SetOdd, IInv, OddInv
    <3>. QED
      BY <3>1
  <2>2. CASE op[p].kind # "read"
    BY <2>2 DEF Values
  <2>. QED
    BY <2>1, <2>2
<1>3. ResView' = ResView
  BY <1>0, <1>2, <1>a DEF ResPlain
<1>4. Effect(op[p], Pending(p)', mem') = Effect(op[p], Pending(p), mem)
  <2>1. CASE Refuse(p) \/ GetOdd(p)
    BY <2>1 DEF Refuse, GetOdd, Pending
  <2>2. CASE GetElement(p)
    BY <2>2 DEF GetElement, Effect
  <2>3. ASSUME SetElement(p) \/ SetOdd(p)
        PROVE  Effect(op[p], Pending(p)', mem') = Effect(op[p], Pending(p), mem)
    <3>1. /\ op[p].kind = "write" /\ i[p] \in Reached(op[p])
          /\ i' = [i EXCEPT ![p] = @ + 1]
      <4>1. CASE SetElement(p)
        <5>1. /\ AtElement(p) /\ InRange(op[p], i[p]) /\ op[p].kind = "write"
              /\ i' = [i EXCEPT ![p] = @ + 1]
          BY <4>1 DEF SetElement
        <5>2. \A k \in 0 .. i[p] : k \in Reached(op[p])
          BY <5>1, AtElementFacts
        <5>. QED
          BY <1>a, <5>1, <5>2
      <4>2. CASE SetOdd(p)
        <5>1. /\ op[p].kind = "write" /\ InRange(op[p], i[p]) /\ op[p].odd = 1 /\ i[p] = op[p].qty
              /\ exc[p] = ExceptionNone
          BY <4>2 DEF SetOdd, IInv, OddInv
        <5>2. i[p] < Total(op[p])
          BY <5>1, <1>a, OpFields, SMTT(30) DEF Total
        <5>3. Check(op[p]) = ExceptionNone /\ \A k \in 0 .. i[p] - 1 : k \in Reached(op[p])
          BY <1>0, <5>1 DEF IInv, LoopInv
        <5>4. i[p] \in Reached(op[p])
          BY <1>a, <5>1, <5>2, <5>3, ReachNext, SMTT(30)
        <5>. QED
          BY <4>2, <5>1, <5>4 DEF SetOdd
      <4>. QED
        BY <2>3, <4>1, <4>2
    <3>2. mem' = [mem EXCEPT ![CellOf(op[p], i[p])] =
                    Stored(op[p], i[p], mem[CellOf(op[p], i[p])])]
      <4>1. CASE SetElement(p)
        <5>1. i[p] # op[p].qty
          BY <4>1, <1>a, OpFields, SMTT(30) DEF SetElement
        <5>. QED
          BY <4>1, <5>1 DEF SetElement, Stored
      <4>2. CASE SetOdd(p)
        BY <4>2, Zenon DEF SetOdd, Stored, IInv, OddInv
      <4>. QED
        BY <2>3, <4>1, <4>2
    <3>3. Pending(p)' = Pending(p) \ {i[p]} /\ i[p] \in Pending(p)
      <4>1. i'[p] = i[p] + 1
        BY <3>1 DEF IInv, TypeOK
      <4>2. \A k \in Reached(op[p]) : k \in Nat
        BY <1>a, ReachedAddr
      <4>6. i'[p] - 1 = i[p]
        BY <4>1, <1>a, SMTT(30)
      <4>3. Pending(p)' = Reached(op[p]) \ (0 .. i[p])
        BY <4>6, <1>0, Zenon DEF Pending
      <4>4. \A k \in Nat : k \in 0 .. i[p] <=> k \in 0 .. i[p] - 1 \/ k = i[p]
        BY <1>a
      <4>5. i[p] \notin 0 .. i[p] - 1
        BY <1>a
      <4>. QED
        BY <4>2, <4>3, <4>4, <4>5, <3>1 DEF Pending
    <3> DEFINE c == CellOf(op[p], i[p])
    <3>4. Effect(op[p], Pending(p) \ {i[p]}, [mem EXCEPT ![c] = Stored(op[p], i[p], mem[c])])
            = Effect(op[p], Pending(p), mem)
      BY <3>1, <3>3, <1>a, EffectStep, Zenon
    <3>. QED
      BY <3>2, <3>3, <3>4, Zenon
  <2>. QED
    BY <2>1, <2>2, <2>3 DEF Step
<1>5. BankView' = BankView
  BY <1>0, <1>a, <1>4 DEF BankView, Pending
<1>. QED
  BY <1>0, <1>1, <1>3, <1>5 DEF Atomic!vars

\* Unlocking is the abstract return.
LEMMA RefineUnlock ==
  ASSUME IInv, NEW p \in Proc, Unlock(p), ResView = ResPlain, ResView' = ResPlain'
  PROVE  Atomic!Return(p)
<1>1. /\ mu = p /\ p # NoProc /\ mu' = NoProc /\ mem' = mem
      /\ Reached(op[p]) = 0 .. i[p] - 1 /\ mem \in [Cell -> Word]
  BY FinishedReached, ProcAssumption DEF Unlock, IInv, TypeOK
<1>2. BankView' = BankView
  <2>1. Pending(p) = {}
    BY <1>1 DEF Pending
  <2>. QED
    BY <1>1, <2>1, EffectNone, Zenon DEF BankView
<1>3. StView[p] = "done" /\ StView' = [StView EXCEPT ![p] = "idle"]
  <2>1. pc[p] = "access" /\ pc' = [pc EXCEPT ![p] = "idle"]
    BY DEF Unlock, Finished
  <2>2. \A q \in Proc : mu = q <=> q = p
    BY <1>1
  <2>3. \A q \in Proc : mu' # q
    BY <1>1, ProcAssumption
  <2>. QED
    BY <2>1, <2>2, <2>3, Zenon DEF StView, IInv, TypeOK
<1>4. ResView' = [ResView EXCEPT ![p] = Atomic!NoResult]
  BY <1>1, ProcAssumption, SameOperations DEF ResPlain
<1>5. op' = [op EXCEPT ![p] = Atomic!NoOp]
  BY SameOperations DEF Unlock
<1>. QED
  BY <1>2, <1>3, <1>4, <1>5 DEF Atomic!Return

\* ConcurrencySafeDataModel keeps its promise: to its callers, every
\* operation on the wrapped model happens in one instant.
THEOREM Refinement == Spec => Linearizable
<1> DEFINE ResInv == ResView = ResPlain
<1>1. IInv /\ ResInv /\ ResInv' /\ [Next]_vars => [Atomic!Next]_Atomic!vars
  <2>. SUFFICES ASSUME IInv, ResView = ResPlain, ResView' = ResPlain', [Next]_vars
                PROVE  Atomic!Next \/ UNCHANGED Atomic!vars
    OBVIOUS
  <2>1. ASSUME NEW p \in Proc, NEW o \in Ops, Invoke(p, o) PROVE Atomic!Next
    BY <2>1, RefineInvoke DEF Atomic!Next
  <2>2. ASSUME NEW p \in Proc, LockDataModel(p) PROVE Atomic!Next \/ UNCHANGED Atomic!vars
    BY <2>2, RefineLock DEF Atomic!Next
  <2>3. ASSUME NEW p \in Proc, Step(p) PROVE Atomic!Next \/ UNCHANGED Atomic!vars
    BY <2>3, RefineLoop, RefineUnlock DEF Atomic!Next
  <2>4. CASE UNCHANGED vars
    BY <2>4, Zenon DEF vars, Atomic!vars, BankView, StView, ResView, Pending, Finished, AtElement
  <2>. QED
    BY <2>1, <2>2, <2>3, <2>4 DEF Next
<1>2. IInv => ResInv
  BY ResIsPlain
<1>. HIDE DEF ResInv
<1>. QED
  BY <1>1, <1>2, RefineInit, Invariance, PTL DEF Spec, Linearizable, Atomic!Spec
================================================================================
