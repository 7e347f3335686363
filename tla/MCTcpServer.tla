------------------------------- MODULE MCTcpServer -------------------------------
(***************************************************************************)
(* Small instances of TcpServer: clients that use the request builders of  *)
(* the package, and some that do not keep to the protocol.                 *)
(***************************************************************************)
EXTENDS TcpServer, TLC

MCWord == {0, 1, 9, 258, 1000}
MCHighByte(new, old) == new
MCOps == {}

\* Some of the elements are not 0.
MCInitial ==
  [cell \in Cell |-> IF cell[1] \in BitTables THEN cell[2] \div 2 ELSE IF cell[2] = 1 THEN 258 ELSE 0]

Request(pdu) == Frame(0, Len(pdu) + 1, 5, pdu)

\* Reads and writes with values that the server can take.
Nominal == {Request(pdu) : pdu \in {
  RequestReadBits(FCReadDiscreteInputs, 1, 3), RequestWriteSingleRegister(1, 9),
  RequestWriteMultipleRegisters(1, <<9, 258>>)}}

\* Answered by an exception: more coils than there are, around the end of the
\* address space, and a function that is not implemented.
Refused == {Request(pdu) : pdu \in {
  RequestReadBits(FCReadCoils, 65535, 200), <<FCReadFileRecord, 0>>}}

\* Closes the connection: a request that is not decoded, a Length that wraps
\* around, another protocol.
Dropped == {Request(<<FCReadExceptionStatus>>), Frame(0, 0, 5, <<>>), Frame(1, 2, 5, <<1>>)}

Reading == {Request(RequestRead(FCReadHoldingRegisters, 1, 2))}

\* One client sends anything and then reads what it may have written; another reads.
CONSTANTS c1, c2
AllFrames == c1 :> <<Nominal \cup Refused \cup Dropped, Reading>> @@ c2 :> <<Reading>>
RefusedFrames == c1 :> <<Refused>>

\* Writes of single values above 254, and of several coils.
PlainWrites == c1 :> <<{Request(pdu) : pdu \in {
  RequestWriteSingleRegister(1, 1000), RequestWriteSingleCoil(1, TRUE),
  RequestWriteMultipleCoils(1, 2, <<3>>)}}>>

ASSUME WellFramedAssumption == WellFramed /\ AllSend(WritesWords) /\ AllSend(OnOrOff)

ASSUME ManageableAssumption == \A f \in Nominal \cup Refused \cup Dropped \cup Reading : Manageable(f.pdu)
================================================================================
