SPECIFICATION Spec
CONSTANTS
  d1 = d1
  h1 = h1
  w1 = w1
  w2 = w2
  Docs = {d1}
  Workers = {w1, w2}
  Handlers = {h1}
  Home <- MCHome
  Generations = {g1, g2, g3}
  ChunksOf <- MCChunksOf
  MaxAttempts = 2
  Punctual = FALSE
  MaxReindexes = 1
  MaxCrashes = 1
  MaxIncidents = 2
  NoDoc = NoDoc
  NoGeneration = NoGeneration
SYMMETRY Symmetry
INVARIANTS OneIndexer ActiveIsRetrievable ActiveWasIndexed FailedIsClean DeletedIsGone NobodyForgotten
CHECK_DEADLOCK FALSE
