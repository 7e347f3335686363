------------------------------ MODULE MCDataModel ------------------------------
(***************************************************************************)
(* DataModel on two goroutines and a bank of six registers and eight bits  *)
(* per block: as in BlockedModel, requests for registers meet the bound of *)
(* registers first.  A "byte" is one bit wide, so a word is 2*high + low.  *)
(***************************************************************************)
EXTENDS Interpreter

MCWord == 0 .. 3
MCHighByte(new, o) == (2 * (new \div 2)) + (o % 2)

Read(c, t, s, q) ==
  [kind |-> "read", check |-> c, table |-> t, start |-> s, qty |-> q, odd |-> 0, locks |-> 1,
   data |-> <<>>]

Write(c, t, s, q, v) ==
  [kind |-> "write", check |-> c, table |-> t, start |-> s, qty |-> q, odd |-> 0,
   locks |-> 1, data |-> [k \in 1 .. q |-> v]]

\* Requests: counts around the size of a block, and ranges that wrap.
Requests ==
  {Read(TRUE, "holdingRegisters", 0, q) : q \in {0, 6, 7}} \cup
  {Write(TRUE, "holdingRegisters", 0, q, 3) : q \in {2, 7}} \cup
  {Write(TRUE, "holdingRegisters", 5, 1, 3), Write(TRUE, "holdingRegisters", 65535, 2, 3),
   Read(TRUE, "holdingRegisters", 65535, 2), Read(TRUE, "coils", 7, 2)}

\* Application calls: a 32-bit get, also below zero, a put off the end, one
\* and three bytes.
Calls ==
  {Read(FALSE, "holdingRegisters", s, 2) : s \in {-1, 4}} \cup
  {Write(FALSE, "holdingRegisters", 5, 2, 1)} \cup
  {[Write(FALSE, "holdingRegisters", 0, q + 1, 2) EXCEPT !.odd = 1, !.qty = q] : q \in {0, 1}}

\* A 32-bit number with its most significant word first, and a 64-bit float
\* with its least significant one first, whose put locks twice.
MCNumbers ==
  {Number("inputRegisters", 0, 2, TRUE, 1, {1, 6}),
   Number("inputRegisters", 2, 4, FALSE, 2, {27})}

MCOps == Requests \cup Calls \cup NumberOps

ASSUME OwnRegistersAssumption == RegistersOfItsOwn
================================================================================
