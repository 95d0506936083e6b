SPECIFICATION FairSpec
CONSTANTS
  Worker = {w1, w2}
  Queue = q
  MaxGroups = 3
  NumItems = 2
  MaxBarriers = 2
  Launches = 2
INVARIANTS
  ExecAlive
  BarrierHolds
  EachItemOnce
PROPERTIES
  LaunchEnds
CHECK_DEADLOCK FALSE
