SPECIFICATION FairSpec
CONSTANTS
  a = a
  b = b
  NoPad = NoPad
  Pads = {a, b}
  Player2 = {b}
  Assignments <- OnlyJumpers
  SlowReplug = TRUE
  Faulty = TRUE
  ReadFaulty = FALSE
  Inputs = {}
PROPERTY PluggedIsConnected
PROPERTY ErrorIsReaped
INVARIANT ListenerInStep
