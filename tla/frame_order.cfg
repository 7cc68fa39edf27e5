CONSTANTS
  p = p
  c = c
  d1 = d1
  d2 = d2
  d3 = d3
  Producers = {p}
  Consumers = {c}
  Particles = {d1, d2, d3}
  InitParticles = {d1, d2}
  GrowBy = 1
  MaxBulk = 2
  MaxFrame = 4
  Infos <- Numbers
  DefaultInfo = 0
  AllMemalign = FALSE
  SingleProducer = FALSE
  EnqueueMayFail = FALSE
  TokenLane = tok
  NoParticle = none
SPECIFICATION OSpec
CHECK_DEADLOCK FALSE
PROPERTIES EveryFrameInOrder
