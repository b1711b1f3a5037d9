SPECIFICATION Spec
CONSTANTS
  w1 = w1
  w2 = w2
  l1 = l1
  e1 = e1
  e2 = e2
  Workers = {w1, w2}
  Loads = {l1}
  Edits = {e1, e2}
  Home <- MCHome
  None = None
  Seed = Seed
  TTL = 2
  MaxCrashes = 1
  Reliable = FALSE
INVARIANTS BoundedStaleness NeverBehindInvalidation
PROPERTIES HistoryOnlyGrows
CHECK_DEADLOCK FALSE
