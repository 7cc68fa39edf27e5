CONSTANTS
  a = a
  b = b
  c = c
  d1 = d1
  d2 = d2
  d3 = d3
  d4 = d4
  x0 = x0
  x1 = x1
  Producers = {a, b}
  Consumers = {b}
  Particles = {d1, d2, d3}
  InitParticles = {d1}
  GrowBy = 2
  MaxBulk = 2
  Infos = {x0}
  DefaultInfo = x0
  AllMemalign = FALSE
  SingleProducer = FALSE
  EnqueueMayFail = TRUE
  TokenLane = tok
  NoParticle = none
SPECIFICATION FairSpec
CHECK_DEADLOCK FALSE
PROPERTIES HandsOver CallsReturn
INVARIANTS TypeOK OneOwner NothingLost
