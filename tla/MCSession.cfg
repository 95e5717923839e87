SPECIFICATION Spec
CONSTANTS
  HANDLE_READ_RETRY_MAX = 2
  MaxPending = 2
  MaxPackets = 2
  MaxWrites = 1
  MaxReserves = 2
INVARIANTS
  CloseOnce
  SingleRead
  SingleDispatch
  NoIdleSession
  DestroyedAfterClose
  NoStrandedPacket
  PeerCloseLosesNothing
  AbortedWaitClosesOnlyIfReplaced
CHECK_DEADLOCK FALSE
