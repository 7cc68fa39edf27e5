CONSTANTS
  g1 = g1
  g2 = g2
  g3 = g3
  Growers = {g1, g2, g3}
  Num = 2
  InitDepth = 1
  Memory = 5
  Nobody = nobody
SPECIFICATION Spec
INVARIANTS DepthNeverOver
PROPERTIES GrowsAtomically
