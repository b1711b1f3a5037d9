SPECIFICATION Spec
CONSTANTS
  g1 = g1
  g2 = g2
  d1 = d1
  d2 = d2
  d3 = d3
  Gaps = {g1, g2}
  Drafts = {d1, d2, d3}
  GapOf <- MCGapOf
  Signals = {s1, s2, s3}
  Requests = {p1, p2, p3, p4}
  None = None
SYMMETRY Symmetry
INVARIANTS SignalsCounted OnePending PublishedWhole NoOrphans
PROPERTIES ReviewIsFinal
CHECK_DEADLOCK FALSE
