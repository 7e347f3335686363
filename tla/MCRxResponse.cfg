SPECIFICATION FairSpec
CONSTANTS
  IsResponse = TRUE
  ErrWithData = FALSE
  Cuts = {0, 1, 2, 3, 4, 5}
  CRC <- MCCRC
  Packets <- MCResponses
  MaxSent = 2
INVARIANTS TypeOK IncompleteIsReported InSync NothingBehind BufferSuffices
PROPERTIES AllDelivered
