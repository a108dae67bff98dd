SPECIFICATION Spec
CONSTANTS
  Version <- MixedVersions
  MaxFrames = 3
  TestModes = {"off"}
  MaxTests = 0
  RefreshTicks = 3
  MaxQueue = 0
  MaxSwaps = 1
  Replug = TRUE
INVARIANT StagedWhole
INVARIANT BacklogBounded
INVARIANT NewestOnItsWay
PROPERTY NeverOlder
