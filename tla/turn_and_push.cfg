SPECIFICATION PartSpec
CONSTANTS
  t1 = t1
  t2 = t2
  Turns = {t1, t2}
  Labels = {"faq", "order_query", "complaint", "handoff", "knowledge_search"}
  Confidences = {3, 6, 9}
  RouteMaps <- MCRouteMaps
  MaxSlotTurns = 3
  None = None
  b1 = b1
  b2 = b2
  b3 = b3
  Tabs = {b1, b2, b3}
  MaxFrames = 3
SYMMETRY PartSymmetry
INVARIANTS AsksBounded InOrder ReachesEveryTab
PROPERTIES SlotIsFilled DriftKeepsSlot
CHECK_DEADLOCK FALSE
