SPECIFICATION Spec
CONSTANTS
  a = a
  b = b
  NoPad = NoPad
  Pads = {a, b}
  Player2 = {b}
  Assignments <- PinSome
  SlowReplug = FALSE
  Faulty = TRUE
  ReadFaulty = FALSE
  Inputs = {a}
INVARIANT TypeOK
INVARIANT SlotsAligned
INVARIANT PairOrdered
PROPERTY LonePlacedOnConnect
