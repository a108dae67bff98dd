SPECIFICATION FairSpec
CONSTANTS
  Modes = {"calibrated"}
  Replug = FALSE
  Lossy = FALSE
  MaxSets = 1
  MaxQueue = 0
  MaxOverdue = 1
PROPERTY ConfigNotStarved
