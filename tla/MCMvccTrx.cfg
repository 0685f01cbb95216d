CONSTANTS
  s1 = s1
  s2 = s2
  s3 = s3
  r1 = r1
  r2 = r2
  Sessions <- ThreeSessions
  Rids <- TwoRids
  MaxTrxId = 99
  MaxId = 5
  MaxOps = 2
  MaxLog = 0
  MaxCrashes = 0
  SelfDeleteTwice = FALSE
  QuietSync = TRUE
SPECIFICATION MvccSpec
SYMMETRY Symmetry3
INVARIANTS
  
  InsertsSeenOnceCommitted
PROPERTIES
  ReadsRepeatable
