SPECIFICATION FairSpec
CONSTANTS
  Modes = {"calibrated", "noise"}
  Replug = TRUE
  Lossy = TRUE
  MaxSets = 2
  MaxQueue = 0
  MaxOverdue = 1
INVARIANT CacheCorrected
INVARIANT ConfigOnItsWay
PROPERTY ConfigReachesPad
PROPERTY SensorKeepsPolling
