SPECIFICATION Spec
CONSTANTS
  Proc = {p1, p2}
  NoProc = NoProc
  RegSize = 6
  BitSize = 8
  Word <- MCWord
  HighByte <- MCHighByte
  Ops <- MCOps
  Base = 4
  Numbers <- MCNumbers
INVARIANTS HoldingRegistersWritable
