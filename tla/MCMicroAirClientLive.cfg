SPECIFICATION FairSpec
CONSTANTS
  Tasks = {t1}
  NoTask = NoTask
  MaxGen = 6
  EepSizes = {2}
  EepMin = 2
  EepCap = 2
CHECK_DEADLOCK FALSE
PROPERTIES
  CommandTerminates
  CancelReleases
