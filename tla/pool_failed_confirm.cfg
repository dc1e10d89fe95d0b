SPECIFICATION Spec
CONSTANTS
  c1 = c1
  c2 = c2
  c3 = c3
  Cred <- TwoCreds
  Ticker <- LoopOnly
  KeepEnabled = 1
  MaxChanges = 3
  NeverEnable <- Nobody
  NeverDisable <- Nobody
  Confirm = TRUE
  DisableDead = TRUE
  DryRun = FALSE
  MaxDrift = 1
SYMMETRY Alike2
PROPERTIES
  FailureIsNotRefusal
