CONSTANTS
  p = p
  c = c
  d = d
  d1 = d1
  d2 = d2
  d3 = d3
  d4 = d4
  x0 = x0
  Producers = {p}
  Consumers = {c, d}
  Particles = {d1, d2, d3, d4}
  InitParticles = {d1, d2, d3, d4}
  GrowBy = 1
  MaxBulk = 1
  Infos = {x0}
  DefaultInfo = x0
  AllMemalign = TRUE
  SingleProducer = FALSE
  EnqueueMayFail = FALSE
  TokenLane = tok
  NoParticle = none
SPECIFICATION LoopSpec
PROPERTIES FramesFlow
