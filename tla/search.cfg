SPECIFICATION SearchSpec
CONSTANTS
  Workers = {w1, w2, w3}
  MaxChanges = 4
  MaxCrashes = 2
  Passages = {p1, p2, p3}
  Strengths = {10, 20, 40, 60, 80}
  MaxTopK = 2
  MaxClaims = 2
  Common = 15249024
  None = None
SYMMETRY Symmetry
INVARIANTS SomeoneIsFresh FusionKeepsAgreement EvidenceIsShown BadgeIsHonest
PROPERTIES NeverBackwards
CHECK_DEADLOCK FALSE
