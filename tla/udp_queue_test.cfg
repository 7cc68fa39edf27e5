CONSTANTS
  recver = recver
  procer = procer
  d1 = d1
  d2 = d2
  d3 = d3
  d4 = d4
  Producers = {recver}
  Consumers = {procer}
  Particles = {d1, d2, d3, d4}
  InitParticles = {d1, d2}
  GrowBy = 1
  MaxBulk = 1
  MaxFrames = 4
  Infos <- RecvInfos
  DefaultInfo = "none"
  AllMemalign = TRUE
  SingleProducer = TRUE
  EnqueueMayFail = FALSE
  TokenLane = tok
  NoParticle = none
SPECIFICATION TestSpec
INVARIANTS AtMostOneStaleFrame NoFrameLost
PROPERTIES TestEnds
