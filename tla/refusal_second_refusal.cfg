SPECIFICATION Spec
CONSTANTS
  m1 = m1
  worker = worker
  Model <- OneModel
  Refresher <- NoRefresher
  MaxToken = 2
  MaxTime = 3
  MaxCrash = 0
  MaxFail = 0
  MaxUnread = 0
PROPERTIES
  LiveRefusalKept
