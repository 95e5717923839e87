SPECIFICATION Spec
CONSTANTS
  SessionTypes = {"TCP"}
  HeaderSize = 2
  UshrtMax = 4
  RecvBufferSize = 3
  BufferSize = 3
  Sizes = {2, 3}
  Streams <- Two
INVARIANT
  NoOverrun
CHECK_DEADLOCK FALSE
