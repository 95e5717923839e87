SPECIFICATION Spec
CONSTANTS
  HANDLE_READ_RETRY_MAX = 1
  MaxPending = 1
  MaxPackets = 1
  MaxWrites = 1
  MaxReserves = 1
INVARIANT
  NoLostUser
CHECK_DEADLOCK FALSE
