SPECIFICATION Spec
CONSTANTS
  RegSize = 4
  BitSize = 4
  Word <- MCWord
  HighByte <- MCHighByte
  Ops <- MCOps
  Acceptors = {a1}
  Conns = {c1}
  NoConn = NoConn
  c1 = c1
  c2 = c2
  Frames <- RefusedFrames
  Initial <- MCInitial
  HasTimeout = TRUE
  Stale = {0, 255}
  Cuts = {}
INVARIANTS LengthIsTold
