CONSTANTS
  s1 = s1
  s2 = s2
  s3 = s3
  r1 = r1
  r2 = r2
  Sessions <- TwoSessions
  Rids <- TwoRids
  MaxTrxId = 99
  MaxId = 6
  MaxOps = 2
  MaxLog = 0
  MaxCrashes = 0
  SelfDeleteTwice = FALSE
  QuietSync = TRUE
SPECIFICATION MvccSpec
PROPERTIES
  DeletesFinal
