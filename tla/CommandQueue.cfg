SPECIFICATION FairSpec
CONSTANTS
  Host = {h1, h2}
  Queue = {q1, q2}
  MaxCommands = 2
  User = {u}
  None = None
INVARIANTS
  NothingFreedInUse
PROPERTIES
  ImplementsInOrder
  WaitsEnd
CHECK_DEADLOCK FALSE
