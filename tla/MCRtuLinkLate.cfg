SPECIFICATION FairSpec
CONSTANTS
  RegSize = 4
  BitSize = 4
  Word <- MCWord
  HighByte <- MCHighByte
  Ops <- MCOps
  address = 7
  CRC <- generateCRC
  Calls <- LateCalls
  HasDeadline = TRUE
  PortFails = TRUE
  Blocking = FALSE
  WholeRequests = FALSE
  MaxCalls = 2
  MaxLost = 1
INVARIANTS AnswerIsGenuine NoPanic
PROPERTIES CallsReturn
