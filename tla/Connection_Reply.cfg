SPECIFICATION Spec
CONSTANTS
  Packets <- MCPackets
  MaxCommands = 4
  MaxLate = 1
  Lossy = TRUE
  Faulty = FALSE
INVARIANT ReplyIsOwn
