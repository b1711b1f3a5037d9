SPECIFICATION Spec
CONSTANTS
  c1 = c1
  c2 = c2
  s1 = s1
  s2 = s2
  s3 = s3
  Convs = {c1}
  Sessions = {s1, s2}
  ConvOf <- MCConvOfOne
  Turns = {t1}
  Requests = {r1, r2}
  Sweepers = {w1}
  Staff = {a1}
  NoConv = NoConv
  NoSession = NoSession
  NoStaff = NoStaff
  AllowArchive = TRUE
  MaxCrashes = 0
SYMMETRY Symmetry
INVARIANT NeverStranded
