SPECIFICATION Spec
CONSTANTS
  MaxRequests = 3
  MaxTicks = 2
  PendingLimit = 1
  Buffer = 1
  NoMessage = NoMessage
INVARIANTS TypeOK HandledInOrder EachInOnePlace TicksAccounted OnlyACutDrops
PROPERTIES PendingAreRead SettlesRequests
CHECK_DEADLOCK FALSE
