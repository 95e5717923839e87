CONSTANTS
  Clients = {c1, c2}
  NoClient = NoClient
  MaxClients <- MCMaxClients
  NoArg = NoArg
  UpdateTimes = {0, 1}
  IoWorkerCnt = 1
  HardwareConcurrency = 1
SPECIFICATION FairServiceSpec
INVARIANTS
  OneChainPerPort
  AcceptedInOrder
  StoppedMeansServed
PROPERTIES
  CallbackServed
CHECK_DEADLOCK FALSE
