SPECIFICATION Spec
CONSTANTS
  t1 = t1
  t2 = t2
  t3 = t3
  p1 = p1
  p2 = p2
  p3 = p3
  e1 = e1
  e2 = e2
  e3 = e3
  k1 = k1
  Tickets = {t1, t2, t3}
  Creates = {p1, p2, p3}
  Edits = {e1, e2, e3}
  Customers = {e3}
  Titles = {k1}
  Wanted <- MCWanted
  NoTicket = NoTicket
SYMMETRY Symmetry
INVARIANTS OneOpenTicket FailsOnlyAfterTwoClosures AnswerIsOpen StampFollowsStatus
CHECK_DEADLOCK FALSE
