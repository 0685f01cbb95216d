CONSTANTS
  s1 = s1
  s2 = s2
  s3 = s3
  r1 = r1
  r2 = r2
  Sessions <- TwoSessions
  Rids <- OneRid
  MaxTrxId = 99
  MaxId = 4
  MaxOps = 1
  MaxLog = 7
  MaxCrashes = 1
  SelfDeleteTwice = FALSE
  QuietSync = TRUE
SPECIFICATION RSpec
SYMMETRY Symmetry2
CHECK_DEADLOCK FALSE
INVARIANTS
  CheckpointSound
  AckedKept

  
