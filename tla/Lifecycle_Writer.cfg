SPECIFICATION Spec
CONSTANTS
  Callers = {"app"}
  Switchers = {}
  Players = {p1}
  NoPlayer = NoPlayer
  LightsType = {}
  Gifs = {}
CHECK_DEADLOCK FALSE
INVARIANT WriterKeepsNothing
