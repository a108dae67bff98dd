SPECIFICATION FairSpec
CONSTANTS
  Version <- MixedVersions
  MaxFrames = 1
  TestModes = {"off", "pressure"}
  MaxTests = 1
  RefreshTicks = 3
  MaxQueue = 1
  MaxSwaps = 0
  Replug = FALSE
PROPERTY FrameReachesPad
PROPERTY TestModeReachesPad
PROPERTY ReleasedStays
