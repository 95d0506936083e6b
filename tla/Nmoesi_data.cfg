SPECIFICATION Spec
CONSTANTS
  l1a = l1a
  l1b = l1b
  l2a = l2a
  l2b = l2b
  mm = mm
  a1 = a1
  a2 = a2
  Mod = {l1a, l1b, l2a, mm}
  Low <- SharedLow
  Assoc <- TwoWaysInMemory
  Tag = {x, y}
  Access = {a1, a2}
  Home <- OneAccessEach
  Ops = {"load", "store"}
  PeerTransfers = TRUE
  None = None
SYMMETRY Interchangeable
PROPERTIES
  DataTakenBackIsKept
