SPECIFICATION Spec
CONSTANTS
  t1 = t1
  t2 = t2
  Turns = {t1, t2}
  Labels = {"faq", "order_query", "complaint", "handoff", "knowledge_search"}
  Confidences = {3, 6, 9}
  RouteMaps <- MCRouteMaps
  MaxSlotTurns = 3
  None = None
INVARIANT DroppedForAReason
