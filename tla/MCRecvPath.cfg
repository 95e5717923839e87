SPECIFICATION Spec
CONSTANTS
  SessionTypes = {"TCP", "WEBSOCKET"}
  HeaderSize = 2
  UshrtMax = 4
  RecvBufferSize = 3
  BufferSize = 6
  Sizes <- AnySizes
  Streams <- TwoOrThree
INVARIANTS
  InOrder
  NothingHeldBack
PROPERTIES
  AllHanded
CHECK_DEADLOCK FALSE
