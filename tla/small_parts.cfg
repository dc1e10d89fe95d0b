SPECIFICATION PartsSpec
CONSTANT
  Instance <- MCInstance
  Goroutine <- MCGoroutine
  Nobody = nobody
  Ticker <- MCTicker
  Reader <- MCReader
  Inode <- MCInode
  None = None
  Priority <- MCPriority
  MaxWrites = 2
  MaxDrift = 2
  Name <- MCName
  Effort <- MCEffort
  Builtin <- MCBuiltin
  Offers <- MCOffers
  Settings <- MCSettings
  MaxSteps = 5
  Cred <- MCCred
  Model <- MCModel
  KeepFor = 1
  MaxSecond = 3
  MaxRequests = 3
  Panel <- MCPanel
  Window <- MCWindow
  Period <- MCPeriod
  Hour = 1
  Day = 3
  Cap = 2
  Gap = 1
  MaxNow = 4
  MaxMishaps = 1
INVARIANTS
  PartsTypeOK
  StandDownJustified
  SomeoneMoves
  OutageReported
PROPERTIES
  NoActAfterHandover
  HandoverCompletes
  ProbesBounded
  ImplementsAuthFile
  RecountSeesWrite
  PricesHold
CHECK_DEADLOCK FALSE
