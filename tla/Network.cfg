SPECIFICATION FairSpec
CONSTANTS
  Nets <- MCNets
  MaxDelay = 2
INVARIANTS
  OneEventEach
  WaitersHaveCause
  RoutesAreShortest
PROPERTY
  Delivered
