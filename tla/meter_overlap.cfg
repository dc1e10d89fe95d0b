SPECIFICATION Spec
CONSTANTS
  Slot <- TwoSlots
  Step = 2
  MaxCost = 2
  Period = 2
  MaxNow = 3
  MaxSpent = 4
  ReportsReset = TRUE
  Grants <- AnyGrant
  MaxGrant = 0
  MaxUnbilled = 1
  MaxExternal = 0
  MaxCrash = 0
INVARIANTS
  GrantsAreReal
