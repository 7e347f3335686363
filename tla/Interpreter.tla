------------------------------ MODULE Interpreter ------------------------------
(***************************************************************************)
(* The DataInterpreter: numbers of 32 and 64 bits in consecutive registers *)
(* of a data model, which other goroutines put and get at the same time.   *)
(* Signed numbers and floats are the same bits.                            *)
(***************************************************************************)
EXTENDS DataModel, FiniteSetsExt

CONSTANTS
  Base,      \* 2^16, the number of values of a register
  Numbers    \* where the application keeps numbers: see Number

\* A number of n words from register start on, words in the order mswFirst, put
\* by a chain of calls that locks so many times; vals are those ever put there.
Number(t, start, n, mswFirst, locks, vals) ==
  [table |-> t, start |-> start, n |-> n, mswFirst |-> mswFirst, locks |-> locks, vals |-> vals]

ASSUME BaseAssumption == Base \in Nat /\ Base >= 2

\* 2^(16*k), for numbers of up to four words.
Weight(k) == <<1, Base, Base * Base, Base * Base * Base>>[k + 1]

\* "bad sizeWords" is never reached, and a number fits the words it has.
ASSUME NumbersAssumption ==
  \A d \in Numbers :
    /\ d \in [table : RegTables, start : Int, n : 2 .. 4, mswFirst : BOOLEAN, locks : {1, 2},
              vals : SUBSET Nat]
    /\ \A v \in d.vals : v < Base * Weight(d.n - 1)

\* By how many words word j is shifted.
shift(d, j) == IF d.mswFirst THEN d.n - j - 1 ELSE j

\* The words of a number, in the order they are stored.
putUintReg(d, value) == [j \in 1 .. d.n |-> (value \div Weight(shift(d, j - 1))) % Base]

\* Mutant: words are put together in the other order.
uintReg_Swapped(d, words) ==
  MapThenSumSet(LAMBDA j : words[j] * Weight(d.n - 1 - shift(d, j)), 0 .. d.n - 1)

\* The number that words make up.
uintReg(d, words) == MapThenSumSet(LAMBDA j : words[j] * Weight(shift(d, j)), 0 .. d.n - 1)

\* PutUint32Input, PutFloat64Input and the like.
Put(d, value) ==
  [kind |-> "write", check |-> FALSE, table |-> d.table, start |-> d.start, qty |-> d.n, odd |-> 0,
   locks |-> d.locks, data |-> putUintReg(d, value)]

\* Uint32Input, Float64Input and the like.
Get(d) ==
  [kind |-> "read", check |-> FALSE, table |-> d.table, start |-> d.start, qty |-> d.n, odd |-> 0,
   locks |-> 1, data |-> <<>>]

NumberOps == UNION {{Get(d)} \cup {Put(d, v) : v \in d.vals} : d \in Numbers}

\* The application keeps a number in registers of its own: what writes to them
\* is a put of that number.
RegistersOfItsOwn ==
  \A d \in Numbers : \A o \in Ops :
    /\ o.kind = "write" /\ o.table = d.table
    /\ o.start < d.start + d.n /\ d.start < o.start + Total(o)
    => \E v \in d.vals : o = Put(d, v)

\* A number that a get returns is one that was put, as a whole: its words are
\* put together in the order they were stored in, for both values of
\* MostSignificantWordFirst, and belong to one put, even if others put at the
\* same time.  Only 0 was there before.
NumbersAreWhole ==
  \A p \in Proc : \A d \in Numbers :
    Finished(p) /\ op[p] = Get(d) /\ exc[p] = ExceptionNone =>
      uintReg(d, got[p]) \in d.vals \cup {0}
================================================================================
