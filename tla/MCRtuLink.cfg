SPECIFICATION FairSpec
CONSTANTS
  RegSize = 4
  BitSize = 4
  Word <- MCWord
  HighByte <- MCHighByte
  Ops <- MCOps
  address = 7
  CRC <- generateCRC
  Calls <- GoodCalls
  HasDeadline = FALSE
  PortFails = FALSE
  Blocking = TRUE
  WholeRequests = TRUE
  MaxCalls = 3
  MaxLost = 0
INVARIANTS TypeOK ResultIsTrue
PROPERTIES CallsReturn
