SPECIFICATION FairSpec
CONSTANTS
  s1 = s1
  s2 = s2
  s3 = s3
  Stack = {s1, s2, s3}
  Tag = {a, b}
  Assoc = 2
  Policy = "lru"
  NumPorts = 1
  MainMemory = TRUE
  Kind <- MemoryKind
  None = None
INVARIANT
  UniqueCopy
PROPERTY
  PortServed
