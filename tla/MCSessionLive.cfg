SPECIFICATION Spec
CONSTANTS
  HANDLE_READ_RETRY_MAX = 1
  MaxPending = 1
  MaxPackets = 1
  MaxWrites = 1
  MaxReserves = 2
PROPERTIES
  ReadFailureCloses
  ReservedCloseHappens
  ReadChainEnds
CHECK_DEADLOCK FALSE
