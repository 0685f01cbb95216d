SPECIFICATION MCSpec
CONSTANTS
  Keys <- MCKeys
  MaxDwbPages = 3
  MaxDwbVer = 2
  MaxCrashes = 2
  QuietClose = TRUE
  t1 = t1
  t2 = t2
  fA = fA
  fB = fB
  Threads = {t1, t2}
  Pools = {fA, fB}
  MaxPages <- FilePages
  Capacity = 2
  MaxVer = 1
  MaxHeld = 2
  Disposable <- LastPage
  Faults = {"load", "purge", "extend", "flush_all", "log"}
  Apart = TRUE
SYMMETRY Symmetry
INVARIANTS
  WrittenPagesSurvive
  
  
CHECK_DEADLOCK FALSE
