SPECIFICATION FairSpec
CONSTANTS
  m1 = m1
  worker = worker
  Model <- OneModel
  Refresher <- OneRefresher
  MaxToken = 2
  MaxTime = 2
  MaxCrash = 0
  MaxFail = 1
  MaxUnread = 1
PROPERTIES
  ReLoginRestores
  RefusedIsRetired
