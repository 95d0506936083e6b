SPECIFICATION Spec
CONSTANTS
  s1 = s1
  s2 = s2
  s3 = s3
  Stack = {s1, s2, s3}
  Tag = {a, b, c}
  Assoc = 2
  Policy = "lru"
  NumPorts = 1
  MainMemory = FALSE
  Kind <- FirstLevelKind
  None = None
SYMMETRY Interchangeable
INVARIANTS
  TypeOK
  EntryMutex
  PortsConsistent
  NoIdlePort
  NoLostWakeup
  HeldStateCurrent
