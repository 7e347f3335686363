------------------------------- MODULE DataModel -------------------------------
(***************************************************************************)
(* Goroutines sharing one data model wrapped by ConcurrencySafeDataModel:  *)
(* servers answering requests, DataInterpreters, and the application       *)
(* calling Get and Set.  Every call chain goes through lockDataModel (the  *)
(* methods of lockedDataModel lock in the same way), visits the elements   *)
(* of its operation one at a time on the model inside the wrapper, and     *)
(* unlocks on return.  One action is one access to the bank or one         *)
(* operation on the mutex.                                                 *)
(***************************************************************************)
EXTENDS DataBank

CONSTANTS
  Proc,    \* the goroutines that share the data model
  NoProc   \* "the mutex is free"

ASSUME ProcAssumption == NoProc \notin Proc

VARIABLES
  mem,    \* the registers, coils and inputs
  mu,     \* the goroutine that holds the wrapper's mutex
  pc,     \* per goroutine: where it is
  op,     \* per goroutine: the operation it runs
  depth,  \* per goroutine: calls of lockDataModel that have returned
  i,      \* per goroutine: elements visited
  exc,    \* per goroutine: the exception so far
  got,    \* per goroutine: what its Get calls returned, element by element
  old     \* per goroutine: the register the odd byte will be merged into

vars == <<mem, mu, pc, op, depth, i, exc, got, old>>

NoValues == [k \in {} |-> 0]

Init ==
  /\ mem = [c \in Cell |-> 0]
  /\ mu = NoProc
  /\ pc = [p \in Proc |-> "idle"]
  /\ op = [p \in Proc |-> NoOp]
  /\ depth = [p \in Proc |-> 0]
  /\ i = [p \in Proc |-> 0]
  /\ exc = [p \in Proc |-> ExceptionNone]
  /\ got = [p \in Proc |-> NoValues]
  /\ old = [p \in Proc |-> 0]

\* A call, up to lockDataModel: the range check comes before the lock.
Invoke(p, o) ==
  /\ pc[p] = "idle"
  /\ pc' = [pc EXCEPT ![p] = "lock"]
  /\ op' = [op EXCEPT ![p] = o]
  /\ exc' = [exc EXCEPT ![p] = Check(o)]
  /\ UNCHANGED <<mem, mu, depth, i, got, old>>

\* Mutant: the lock is forgotten.
LockDataModel_NoMutex(p) ==
  /\ pc[p] = "lock"
  /\ depth' = [depth EXCEPT ![p] = op[p].locks]
  /\ pc' = [pc EXCEPT ![p] = "access"]
  /\ UNCHANGED <<mem, mu, op, i, exc, got, old>>

\* Mutant: readers do not wait for the mutex.
LockDataModel_ReadersFree(p) ==
  /\ pc[p] = "lock"
  /\ mu = NoProc \/ op[p].kind = "read"
  /\ mu' = IF op[p].kind = "read" THEN mu ELSE p
  /\ depth' = [depth EXCEPT ![p] = op[p].locks]
  /\ pc' = [pc EXCEPT ![p] = "access"]
  /\ UNCHANGED <<mem, op, i, exc, got, old>>

\* lockDataModel.  The first call sees the wrapper and takes its mutex; it
\* hands back the model inside, so a nested call (PutFloat64Input through
\* PutUint64Input) sees an unwrapped model and locks nothing.
LockDataModel(p) ==
  /\ pc[p] = "lock"
  /\ \/ depth[p] = 0 /\ mu = NoProc /\ mu' = p
     \/ depth[p] > 0 /\ UNCHANGED mu
  /\ depth' = [depth EXCEPT ![p] = @ + 1]
  /\ pc' = [pc EXCEPT ![p] = IF depth[p] + 1 = op[p].locks THEN "access" ELSE "lock"]
  /\ UNCHANGED <<mem, op, i, exc, got, old>>

\* The loop is still running and about to visit element i[p].
AtElement(p) == pc[p] = "access" /\ exc[p] = ExceptionNone /\ i[p] < Total(op[p])

\* Mutant: the wrong exception.
Refuse_WrongCode(p) ==
  /\ AtElement(p)
  /\ ~InRange(op[p], i[p])
  /\ exc' = [exc EXCEPT ![p] = ExceptionMemoryParityError]
  /\ UNCHANGED <<mem, mu, pc, op, depth, i, got, old>>

\* Mutant: an element that is refused is tried again.
Refuse_Retry(p) == AtElement(p) /\ ~InRange(op[p], i[p]) /\ UNCHANGED vars

\* Element i[p] is out of the block: its Get or Set returns an exception.
Refuse(p) ==
  /\ AtElement(p)
  /\ ~InRange(op[p], i[p])
  /\ exc' = [exc EXCEPT ![p] = ExceptionIllegalDataAddr]
  /\ UNCHANGED <<mem, mu, pc, op, depth, i, got, old>>

GetElement(p) ==
  /\ AtElement(p) /\ InRange(op[p], i[p])
  /\ op[p].kind = "read"
  /\ got' = [got EXCEPT ![p] =
               [k \in 0 .. i[p] |-> IF k = i[p] THEN mem[CellOf(op[p], k)] ELSE got[p][k]]]
  /\ i' = [i EXCEPT ![p] = @ + 1]
  /\ UNCHANGED <<mem, mu, pc, op, depth, exc, old>>

SetElement(p) ==
  /\ AtElement(p) /\ InRange(op[p], i[p])
  /\ op[p].kind = "write" /\ i[p] < op[p].qty
  /\ mem' = [mem EXCEPT ![CellOf(op[p], i[p])] = op[p].data[i[p] + 1]]
  /\ i' = [i EXCEPT ![p] = @ + 1]
  /\ UNCHANGED <<mu, pc, op, depth, exc, got, old>>

\* writeBytes with an odd length: the last register is read ...
GetOdd(p) ==
  /\ AtElement(p) /\ InRange(op[p], i[p])
  /\ op[p].kind = "write" /\ i[p] = op[p].qty
  /\ old' = [old EXCEPT ![p] = mem[CellOf(op[p], i[p])]]
  /\ pc' = [pc EXCEPT ![p] = "merge"]
  /\ UNCHANGED <<mem, mu, op, depth, i, exc, got>>

\* ... and written back with its high byte replaced.
SetOdd(p) ==
  /\ pc[p] = "merge"
  /\ mem' = [mem EXCEPT ![CellOf(op[p], i[p])] = HighByte(op[p].data[i[p] + 1], old[p])]
  /\ i' = [i EXCEPT ![p] = @ + 1]
  /\ pc' = [pc EXCEPT ![p] = "access"]
  /\ UNCHANGED <<mu, op, depth, exc, got, old>>

\* The loop is over; exc[p] and got[p] are the result.
Finished(p) == pc[p] = "access" /\ ~AtElement(p)

\* The deferred unlock, and the return; the locals go out of scope.
Unlock(p) ==
  /\ Finished(p)
  /\ mu' = NoProc
  /\ pc' = [pc EXCEPT ![p] = "idle"]
  /\ op' = [op EXCEPT ![p] = NoOp]
  /\ depth' = [depth EXCEPT ![p] = 0]
  /\ i' = [i EXCEPT ![p] = 0]
  /\ exc' = [exc EXCEPT ![p] = ExceptionNone]
  /\ got' = [got EXCEPT ![p] = NoValues]
  /\ old' = [old EXCEPT ![p] = 0]
  /\ UNCHANGED mem

Step(p) == \/ Refuse(p) \/ GetElement(p) \/ SetElement(p)
           \/ GetOdd(p) \/ SetOdd(p) \/ Unlock(p)

Next == \E p \in Proc : (\E o \in Ops : Invoke(p, o)) \/ LockDataModel(p) \/ Step(p)

Spec == Init /\ [][Next]_vars

\* A goroutine that can run is run, and sync.Mutex hands the lock to a
\* waiter that has been starved, so a goroutine waiting for it gets it.
\* Nothing makes a goroutine start a call.
FairSpec == Spec /\ \A p \in Proc : WF_vars(Step(p)) /\ SF_vars(LockDataModel(p))

--------------------------------------------------------------------------------
(***************************************************************************)
(* Properties.                                                             *)
(***************************************************************************)

\* The state has its type.
TypeOK ==
  /\ mem \in [Cell -> Word]
  /\ mu \in Proc \cup {NoProc}
  /\ pc \in [Proc -> {"idle", "lock", "access", "merge"}]
  /\ op \in [Proc -> Ops \cup {NoOp}]
  /\ depth \in [Proc -> 0 .. 2]
  /\ i \in [Proc -> Nat]
  /\ exc \in [Proc -> {ExceptionNone, ExceptionIllegalDataAddr, ExceptionIllegalDataValue}]
  /\ old \in [Proc -> Word]
  /\ DOMAIN got = Proc

Inside(p) == pc[p] \in {"access", "merge"} \/ (pc[p] = "lock" /\ depth[p] > 0)

\* A read in progress holds a snapshot: what its earlier Get calls returned
\* is still what the bank holds, so the registers of one multi-register
\* answer (readFromModel, uintReg, read16) all belong to the same instant.
\* Likewise the register writeBytes is about to merge its odd byte into has
\* not changed since it was read.
SnapshotHolds ==
  \A p \in Proc :
    /\ Inside(p) /\ op[p].kind = "read" =>
         \A k \in 0 .. i[p] - 1 : got[p][k] = mem[CellOf(op[p], k)]
    /\ pc[p] = "merge" => old[p] = mem[CellOf(op[p], i[p])]

\* A write request is all or nothing: writeToModel stores an element only if
\* every element the request names exists, in integers that do not wrap, and
\* refuses none of them later.  The range check before the lock (in uint16, so
\* that a range may wrap and pass it) and the bounds the bank tests inside the
\* loop must make it so together.  The request names fewer elements than there
\* are addresses outside the block: PutResponse slices rxbuf, 512 bytes, by
\* the number of elements before it calls writeToModel (tx.go:140).
WriteRequestAllOrNothing ==
  \A p \in Proc :
    /\ Inside(p) /\ op[p].check /\ op[p].kind = "write" /\ i[p] > 0
    /\ op[p].qty + Size(op[p].table) <= 65536
    => op[p].start + op[p].qty <= Size(op[p].table) /\ exc[p] = ExceptionNone

\* A request that is answered without an exception names only elements that
\* exist, in integers that do not wrap: readFromModel and writeToModel compute
\* the last address in uint16, so that a range that runs past 65535 passes
\* their check, and it is the bank that has to refuse it.
AnsweredInRange ==
  \A p \in Proc :
    Finished(p) /\ op[p].check /\ exc[p] = ExceptionNone =>
      op[p].start + op[p].qty <= Size(op[p].table)

\* "Holding Registers | 16bit word | Read/Write" (peamodbus.go:28): a write
\* request whose registers all exist is not refused.
HoldingRegistersWritable ==
  \A p \in Proc :
    Inside(p) /\ op[p].check /\ op[p].kind = "write" /\ op[p].table = "holdingRegisters"
    /\ op[p].start + op[p].qty <= RegSize => exc[p] = ExceptionNone

\* Every call returns: no caller waits for ever for the mutex, and a call
\* chain that goes through lockDataModel twice does not wait for itself.
CallsReturn == \A p \in Proc : pc[p] # "idle" ~> pc[p] = "idle"

(***************************************************************************)
(* Refinement: an operation takes effect when it gets the mutex.  From     *)
(* then on the abstract bank already holds what the holder still has to    *)
(* store.  The abstract result is the one AtomicModel computes until the   *)
(* loop is over, and the one the code returns from there on: were they     *)
(* different, the last access would not be a stuttering step.              *)
(***************************************************************************)
Pending(p) == Reached(op[p]) \ (0 .. i[p] - 1)

BankView == IF mu = NoProc THEN mem ELSE Effect(op[mu], Pending(mu), mem)

StView == [p \in Proc |-> IF pc[p] = "idle" THEN "idle" ELSE IF mu = p THEN "done" ELSE "pending"]

ResView == [p \in Proc |->
  IF Finished(p) THEN [exc |-> exc[p], vals |-> got[p]]
  ELSE IF mu = p THEN [exc |-> Outcome(op[p]), vals |-> Values(op[p], mem)]
  ELSE [exc |-> ExceptionNone, vals |-> NoValues]]

Atomic == INSTANCE AtomicModel WITH bank <- BankView, st <- StView, call <- op, res <- ResView

\* The wrapped data model is linearizable: its behaviours are behaviours of
\* AtomicModel, where every operation happens in one instant.
Linearizable == Atomic!Spec
================================================================================
