SPECIFICATION MCSpec
CONSTANTS
  UserKeys <- MCUserKeys
  Rids <- MCRids
  RidSpan = 4
  LeafMax = 4
  InternalMax = 4
  MaxPage = 10
  Builds <- MCBuilds
  OpKeys <- MCOpKeys
  Budgets <- MCBudgets
  ScanBounds <- MCScanBounds
  FreesReach = FALSE
  MaxSteps = 3
  MaxStops = 1
  Writers = {w1, w2}
  Scanners = {s1}
  LatchBuilds <- MCLatchBuilds
  LatchKeys <- MCLatchKeys
  Workloads <- MCWorkloads
  MaxCalls = 3
SYMMETRY MCSymmetry
CHECK_DEADLOCK FALSE
INVARIANTS
  IndexIsRight
  EveryStopIsRecoverable
  ScanIsSound
  
PROPERTIES
  ConcurrentIndexIsRight
