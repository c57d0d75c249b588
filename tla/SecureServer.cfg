SPECIFICATION Spec
CONSTANTS
  Slots = {1, 2, 3}
  MaxConnections = 2
  Backlog = 1
  Closers = {101, 102}
INVARIANTS TypeOK ClosedLeavesNothing
PROPERTIES ShutdownEnds SilentPeerLeaves
CHECK_DEADLOCK FALSE
