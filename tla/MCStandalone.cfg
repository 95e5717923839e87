CONSTANTS
  Byte <- MCByte
  Zero = "0"
  Header <- MCHeader
  BufferSize = 3
  MaxChunk = 2
  MaxSize = 4
  Modes = {"sync", "async", "coro"}
  Urls = {"/test"}
  Requests <- SomeRequests
  MaxRequests = 2
  MaxSends = 2
  NoMessage = NoMessage
  Clients = {c1, c2}
  ListenerUrls = {"", "/a"}
  Handlers = {h1}
  Threads = 3
  None = None
  UpdateTimes = {1}
  NoArg = NoArg
  Targets = {t1, t2}
  MaxCalls = 2
  MaxSessions = 2
  MaxSchedules = 1
  Intervals = {2}
  MaxQueue = 2
  Packets = {p1, p2, p3}
  Parts = 2
  Items = {i1, i2, i3}
SPECIFICATION PartsSpec
INVARIANTS
  AliveUnlessSentTwice
  AnswersMatch
  ExceptionsAnswered
  OneAcceptGoesOn
  ConnectsAddUp
  UpdatesGoOn
  TicksGoOn
  TornOnlyIfOverlapped
PROPERTIES
  FIFO
  OverrunOnlyAfterPartialRead
  SilentOnesLeave
  EveryCallSettled
CHECK_DEADLOCK FALSE
