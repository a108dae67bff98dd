SPECIFICATION FairSpec
CONSTANTS
  Packets <- MCPackets
  MaxCommands = 3
  MaxLate = 0
  Lossy = TRUE
  Faulty = TRUE
INVARIANT ConnectionInv
INVARIANT CallbackOnce
INVARIANT ReplyIsOwn
INVARIANT OneJobAtWriter
PROPERTY WireInOrder
PROPERTY ImplementsService
PROPERTY EventuallyResolved
PROPERTY ErrorEndsConnection
