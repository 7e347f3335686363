-------------------------------- MODULE DataBank --------------------------------
(***************************************************************************)
(* The register bank of a Modbus server (BlockedModel) and the operations  *)
(* that walk over it: readFromModel and writeToModel on behalf of a        *)
(* request, the DataInterpreter and the Get/Set methods on behalf of the   *)
(* application.  Everything here is a pure definition; DataModel says how  *)
(* concurrent callers interleave.                                          *)
(*                                                                         *)
(* Every operation visits consecutive addresses of one table and stops at  *)
(* the first address the bank refuses.  An operation is a record           *)
(*    kind   "read" or "write"                                             *)
(*    check  TRUE iff it enters through readFromModel or writeToModel,     *)
(*           which check the range with uint16 arithmetic beforehand       *)
(*    table  the block it visits                                           *)
(*    start  the first address: a uint16 when check, else an int           *)
(*    qty    how many whole elements it visits                             *)
(*    odd    1 iff a last, single byte is written to the high half of one  *)
(*           more register (writeBytes with an odd length), else 0         *)
(*    data   what a write stores, element k (from 0) at data[k + 1]        *)
(*    locks  how many times the call chain goes through lockDataModel      *)
(***************************************************************************)
EXTENDS Definitions, Sequences

CONSTANTS
  RegSize,         \* registers in each register block: 125 in BlockedModel
  BitSize,         \* coils, and discrete inputs: 2000 in BlockedModel
  Word,            \* the values an element holds; coils and inputs use 0 and 1
  HighByte(_, _),  \* HighByte(new, old): old with its high byte taken from new
  Ops              \* the operations callers may ask for

BitTables == {"coils", "discreteInputs"}
RegTables == {"inputRegisters", "holdingRegisters"}
Table     == BitTables \cup RegTables

Size(t) == IF t \in BitTables THEN BitSize ELSE RegSize
Cell    == UNION {{t} \X (0 .. Size(t) - 1) : t \in Table}

\* The elements an operation visits, the odd byte's register included.
Total(o) == o.qty + o.odd

Operation == [kind : {"read", "write"}, check : BOOLEAN, table : Table, start : Int,
              qty : Nat, odd : {0, 1}, locks : {1, 2}, data : Seq(Word)]

WellFormed(o) ==
  /\ o.qty < 65536
  /\ o.check => 0 <= o.start /\ o.start < 65536 /\ o.odd = 0
  /\ o.odd = 1 => o.kind = "write"
  /\ o.kind = "write" => Len(o.data) = Total(o)

\* The operation of a goroutine that has not called anything yet.
NoOp == [kind |-> "read", check |-> FALSE, table |-> "coils", start |-> 0, qty |-> 0,
         odd |-> 0, locks |-> 1, data |-> <<>>]

ASSUME SizeAssumption ==
  /\ RegSize \in Nat \ {0} /\ RegSize < 65536
  /\ BitSize \in Nat \ {0} /\ BitSize < 65536

ASSUME WordAssumption ==
  /\ {0, 1} \subseteq Word
  /\ \A v, w \in Word : HighByte(v, w) \in Word

ASSUME OpsAssumption == Ops \subseteq Operation /\ \A o \in Ops : WellFormed(o)

--------------------------------------------------------------------------------
(***************************************************************************)
(* The range check of readFromModel and of writeToModel.  The last address *)
(* is computed in uint16, and the two functions disagree on what it is:    *)
(* start+qty-1 for a read, start+qty for a write.                          *)
(***************************************************************************)
\* Mutant: the bound of the bit tables for every table.
OutOfBounds_BitsOnly(o, endAddress) == endAddress > BitSize

OutOfBounds(o, endAddress) ==
  endAddress > BitSize \/ (o.table \in RegTables /\ endAddress >= RegSize)

CheckRead(o) ==
  IF o.qty = 0 THEN ExceptionIllegalDataValue
  ELSE IF OutOfBounds(o, U16(o.start + o.qty - 1)) THEN ExceptionIllegalDataAddr
  ELSE ExceptionNone

CheckWrite(o) ==
  IF OutOfBounds(o, U16(o.start + o.qty)) THEN ExceptionIllegalDataAddr ELSE ExceptionNone

Check(o) ==
  IF ~o.check THEN ExceptionNone
  ELSE IF o.kind = "read" THEN CheckRead(o) ELSE CheckWrite(o)

\* Mutant: a request visits its elements from address 0 on.
Addr_NoStart(o, k) == IF o.check THEN k ELSE o.start + k

\* The address of element k: ireg in the loops over a request, an int elsewhere.
Addr(o, k) == IF o.check THEN U16(o.start + k) ELSE o.start + k

\* The bounds test of every Get and Set method of BlockedModel.
InRange(o, k) == Addr(o, k) \in 0 .. Size(o.table) - 1

CellOf(o, k) == <<o.table, Addr(o, k)>>

\* What a write leaves in element k when the cell holds w.
Stored(o, k, w) == IF k = o.qty THEN HighByte(o.data[k + 1], w) ELSE o.data[k + 1]

--------------------------------------------------------------------------------
(***************************************************************************)
(* What an operation does as a whole, if nobody else touches the bank.     *)
(***************************************************************************)

\* The elements it gets to: all before the first one out of range, none at
\* all if the range check refuses the operation.
Reached(o) ==
  {k \in 0 .. Total(o) - 1 : Check(o) = ExceptionNone /\ \A j \in 0 .. k : InRange(o, j)}

\* The exception it answers.
Outcome(o) ==
  IF Check(o) # ExceptionNone THEN Check(o)
  ELSE IF \A k \in 0 .. Total(o) - 1 : k \in Reached(o) THEN ExceptionNone
  ELSE ExceptionIllegalDataAddr

\* The bank m after the elements ks of it have been stored.
Effect(o, ks, m) ==
  [c \in Cell |-> IF o.kind = "write" /\ c[1] = o.table /\ c[2] - o.start \in ks
                    THEN Stored(o, c[2] - o.start, m[c]) ELSE m[c]]

\* The values a read returns from bank m; a write returns none.
Values(o, m) == [k \in IF o.kind = "read" THEN Reached(o) ELSE {} |-> m[CellOf(o, k)]]
================================================================================
