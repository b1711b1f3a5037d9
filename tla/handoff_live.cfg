SPECIFICATION FairSpec
CONSTANTS
  c1 = c1
  c2 = c2
  s1 = s1
  s2 = s2
  s3 = s3
  Convs = {c1, c2}
  Sessions = {s1, s3}
  ConvOf <- MCConvOfTwo
  Turns = {t1}
  Requests = {r1}
  Sweepers = {w1}
  Staff = {a1}
  NoConv = NoConv
  NoSession = NoSession
  NoStaff = NoStaff
  AllowArchive = FALSE
  MaxCrashes = 1
PROPERTIES QueuedIsServed EveryTransactionEnds ImplementsOwnership
