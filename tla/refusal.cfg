SPECIFICATION Spec
CONSTANTS
  m1 = m1
  worker = worker
  Model <- OneModel
  Refresher <- OneRefresher
  MaxToken = 2
  MaxTime = 2
  MaxCrash = 1
  MaxFail = 1
  MaxUnread = 1
INVARIANTS
  TypeOK
  FingerprintNamesRefused
PROPERTIES
  NoReask
