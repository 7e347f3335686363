------------------------------ MODULE AtomicModel ------------------------------
(***************************************************************************)
(* What ConcurrencySafeDataModel promises: "a DataModel that is safe for   *)
(* concurrent use".  Whatever a caller asks for, a single register or a    *)
(* request that spans many, happens to the bank in one instant between the *)
(* call and its return.                                                    *)
(***************************************************************************)
EXTENDS DataBank

CONSTANT Proc   \* the goroutines that share the data model

VARIABLES
  bank,  \* the register bank
  st,    \* per goroutine: "idle", "pending" (called) or "done" (took effect)
  call,  \* per goroutine: the operation it called
  res    \* per goroutine: the result it is about to return

vars == <<bank, st, call, res>>

NoValues == [k \in {} |-> 0]
NoResult == [exc |-> ExceptionNone, vals |-> NoValues]

Init ==
  /\ bank = [c \in Cell |-> 0]
  /\ st = [p \in Proc |-> "idle"]
  /\ call = [p \in Proc |-> NoOp]
  /\ res = [p \in Proc |-> NoResult]

Call(p, o) ==
  /\ st[p] = "idle"
  /\ st' = [st EXCEPT ![p] = "pending"]
  /\ call' = [call EXCEPT ![p] = o]
  /\ UNCHANGED <<bank, res>>

TakeEffect(p) ==
  /\ st[p] = "pending"
  /\ st' = [st EXCEPT ![p] = "done"]
  /\ bank' = Effect(call[p], Reached(call[p]), bank)
  /\ res' = [res EXCEPT ![p] = [exc |-> Outcome(call[p]), vals |-> Values(call[p], bank)]]
  /\ UNCHANGED call

Return(p) ==
  /\ st[p] = "done"
  /\ st' = [st EXCEPT ![p] = "idle"]
  /\ call' = [call EXCEPT ![p] = NoOp]
  /\ res' = [res EXCEPT ![p] = NoResult]
  /\ UNCHANGED bank

Next == \E p \in Proc : (\E o \in Ops : Call(p, o)) \/ TakeEffect(p) \/ Return(p)

Spec == Init /\ [][Next]_vars
================================================================================
