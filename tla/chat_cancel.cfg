SPECIFICATION CancelSpec
CONSTANTS
  Connections = {c1}
  Conversations = {k1}
  Foreign = {k3}
  MaxHistory = 3
  MaxTurns = 2
  MaxMessages = 3
  None = None
INVARIANT CancelIsRead
