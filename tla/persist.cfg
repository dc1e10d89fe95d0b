SPECIFICATION FairSpec
CONSTANTS
  Instance <- ThreeInstances
  Change <- ThreeChanges
  Inode <- Files
  Reloads = FALSE
  MaxStop = 2
  MaxFail = 1
  MaxCrash = 1
INVARIANTS
  TypeOK
  EventsLoggedOnce
PROPERTIES
  DiskNeverRegresses
  ChangeIsSaved
  RestartRemembers
CHECK_DEADLOCK FALSE
