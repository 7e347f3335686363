SPECIFICATION FairSpec
CONSTANTS
  IsResponse = FALSE
  ErrWithData = FALSE
  Cuts = {}
  CRC <- MCCRC
  Packets <- MCRequests
  MaxSent = 3
INVARIANTS IncompleteIsReported InSync NothingBehind
PROPERTIES AllDelivered
