SPECIFICATION Spec
CONSTANTS
  IsResponse = FALSE
  ErrWithData = FALSE
  Cuts = {1, 2}
  CRC <- generateCRC
  Packets <- BusTraffic
  MaxSent = 4
INVARIANTS DeliveredInOrder
PROPERTIES DesyncIsFinal
CHECK_DEADLOCK FALSE
