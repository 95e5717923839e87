SPECIFICATION Spec
CONSTANTS
  SessionTypes = {"WEBSOCKET"}
  HeaderSize = 2
  UshrtMax = 4
  RecvBufferSize = 3
  BufferSize = 3
  Sizes = {2, 3}
  Streams <- Two
INVARIANT
  WellFormedIsHandled
CHECK_DEADLOCK FALSE
