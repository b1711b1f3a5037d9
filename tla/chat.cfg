SPECIFICATION Spec
CONSTANTS
  c1 = c1
  c2 = c2
  k1 = k1
  k3 = k3
  Connections = {c1, c2}
  Conversations = {k1}
  Foreign = {k3}
  MaxHistory = 3
  MaxTurns = 2
  MaxMessages = 3
  None = None
INVARIANTS HistoriesAgree RatedQuestion
PROPERTIES EveryMessageAnswered
