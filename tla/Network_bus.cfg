SPECIFICATION Spec
CONSTANTS
  Nets <- BusNets
  MaxDelay = 2
INVARIANT
  NoStall
