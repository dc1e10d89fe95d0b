SPECIFICATION Spec
CONSTANTS
  c1 = c1
  c2 = c2
  c3 = c3
  Cred <- ThreeCreds
  Ticker <- LoopOnly
  KeepEnabled = 2
  MaxChanges = 2
  NeverEnable <- Nobody
  NeverDisable <- Nobody
  Confirm = TRUE
  DisableDead = TRUE
  DryRun = FALSE
  MaxDrift = 1
SYMMETRY Alike3
INVARIANTS
  TypeOK
  DayBudget
PROPERTIES
  DrainKeepsTarget
  EmptyGoesFirst
  NewcomerJoinsBack
