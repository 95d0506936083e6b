SPECIFICATION FairSpec
CONSTANTS
  Stack = {s1, s2, s3}
  Block = {a, b}
  Ops = {"load", "store", "nc"}
  Prefetcher = TRUE
  MshrSize = 2
  None = None
INVARIANTS
  TypeOK
  ServedApart
  WaitsForOlder
  MshrsSuffice
PROPERTIES
  LeavesInOrder
  WitnessedOnce
  EveryAccessFinishes
