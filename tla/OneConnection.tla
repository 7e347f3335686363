------------------------------ MODULE OneConnection ------------------------------
(***************************************************************************)
(* What a TCP server promises about its connections: "By design Servers    *)
(* can only maintain one connection" (modbustcp/server.go:83).  They are   *)
(* served one after the other, each at most once, and nothing is written   *)
(* to a connection before its turn or after it.                            *)
(***************************************************************************)
EXTENDS Naturals

CONSTANTS
  Conns,     \* the connections clients may make
  NoConn

VARIABLES
  serving,   \* the connection being served, or NoConn
  past,      \* the connections served before
  written    \* how many answers each connection has got

vars == <<serving, past, written>>

Init == serving = NoConn /\ past = {} /\ written = [c \in Conns |-> 0]

Open ==
  /\ serving = NoConn
  /\ \E c \in Conns \ past : serving' = c
  /\ UNCHANGED <<past, written>>

Answer ==
  /\ serving \in Conns
  /\ written' = [written EXCEPT ![serving] = @ + 1]
  /\ UNCHANGED <<serving, past>>

Close ==
  /\ serving \in Conns
  /\ serving' = NoConn
  /\ past' = past \cup {serving}
  /\ UNCHANGED written

Next == Open \/ Answer \/ Close

Spec == Init /\ [][Next]_vars
================================================================================
