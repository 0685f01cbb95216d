SPECIFICATION TSpec
CONSTANTS
  Threads = {t1, t2, t3}
  MaxPage = 3
  Capacity = 2
  Fills <- MCFills
  MaxCalls <- MCMaxCalls
  MaxFlushes = 2
  MaxStops = 1
  FreesReach = FALSE
  Tables = {a, b}
  Columns = 2
  FaultSets <- MCFaultSets
  MaxDdl = 3
  MaxHalts = 2
  Rids = {r1, r2}
  Fields = 2
  Vals = {1, 2}
  Beside = FALSE
  MaxOps = 5
SYMMETRY MCSymmetry
CHECK_DEADLOCK FALSE
INVARIANTS
  
  EveryStopKeepsTheRecords
  SchemaSurvives
  
