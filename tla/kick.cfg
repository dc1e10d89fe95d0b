SPECIFICATION FairSpec
CONSTANTS
  Ticker <- LoopOnly
  Refresher <- OnePanel
  Cap = 2
  Sweeps = TRUE
  MaxFail = 1
  MaxCrash = 1
INVARIANTS
  TypeOK
PROPERTIES
  GreetingsBounded
  WaitingIsStarted
