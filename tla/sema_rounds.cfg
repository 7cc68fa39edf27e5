CONSTANTS
  w1 = w1
  w2 = w2
  w3 = w3
  Workers = {w1, w2, w3}
  Stride = 10
  Size = 40
  Rounds = 2
  Nobody = nobody
SPECIFICATION FairSpec
INVARIANTS TypeOK TokensConserved RoundsDoNotOverlap
PROPERTIES WorksInRounds AllThreadsEnd
