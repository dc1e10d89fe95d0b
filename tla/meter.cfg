SPECIFICATION Spec
CONSTANTS
  Slot <- OneSlot
  Step = 2
  MaxCost = 2
  Period = 2
  MaxNow = 3
  MaxSpent = 3
  ReportsReset = TRUE
  Grants <- AnyGrant
  MaxGrant = 1
  MaxUnbilled = 1
  MaxExternal = 1
  MaxCrash = 1
INVARIANTS
  TypeOK
  PendingInCycle
  EvidenceIsOwn
  CoverageWithinAPoint
  QuotaWithinAPoint
  GrantsAreReal
  CyclesAreReal
