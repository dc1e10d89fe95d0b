SPECIFICATION FairSpec
CONSTANTS
  c1 = c1
  c2 = c2
  c3 = c3
  Cred <- TwoCreds
  Ticker <- LoopOnly
  KeepEnabled = 1
  MaxChanges = 1
  NeverEnable <- Nobody
  NeverDisable <- JustC1
  Confirm = TRUE
  DisableDead = TRUE
  DryRun = FALSE
  MaxDrift = 1
PROPERTIES
  ShortfallIsFilled
