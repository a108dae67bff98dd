SPECIFICATION FairSpec
CONSTANTS
  Callers = {"app"}
  Switchers = {"app"}
  Players = {p1, p2}
  NoPlayer = NoPlayer
  LightsType = {"pressed"}
  Gifs <- TwoGifs
CHECK_DEADLOCK FALSE
INVARIANT TypeOK
INVARIANT FrameExists
INVARIANT DirectLightsKept
INVARIANT OffMeansOff
INVARIANT QuietAfterDrop
PROPERTY IntroOnce
PROPERTY DropReturns
PROPERTY SwitchReturns
PROPERTY AnimationPlays
