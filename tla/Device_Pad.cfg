SPECIFICATION Spec
CONSTANTS
  Modes = {"calibrated"}
  Replug = TRUE
  Lossy = FALSE
  MaxSets = 2
  MaxQueue = 0
  MaxOverdue = 0
INVARIANT ConfigOnlyForItsPad
