SPECIFICATION Spec
CONSTANTS
  IsResponse = FALSE
  ErrWithData = FALSE
  Cuts = {0, 1, 2, 3, 4, 5}
  CRC <- MCCRC
  Packets <- MCRequests
  MaxSent = 1
INVARIANTS IncompleteIsReported
