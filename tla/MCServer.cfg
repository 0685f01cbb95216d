SPECIFICATION MCSpec
CONSTANTS
  Names = {"ann"}
  Keys = {"k1", "k2"}
  Bases = {"shop"}
  Privileges = {"GRANT", "CREATE"}
  Admins = {s1, s2}
  Free = Free
  CatalogFaults = {{}, {"save"}, {"crash"}}
  MaxOps = 4
  MaxStatements = 4
  MaxRows = 2
  Columns = 2
  SeqModulus = 4
  SessionFaults = {{}, {"midway"}, {"commit"}, {"next"}, {"socket"}, {"pipeline"}, {"next", "commit"}, {"socket", "commit"}}
  Capacity = 4
  MaxPiece = 6
  MaxBytes = 11
  LengthValues <- MCLengths
  Ids = {1, 2, 3}
  PoolNum = 2
  ItemNum = 1
  NoFrameId = 0
  MaxTime = 4
  LruKeys = {k1, k2, k3, k4}
  LruValues = {v1, v2}
  Nil = Nil
  Latchers = {p1, p2, p3}
  NoThread = NoThread
  MaxDepth = 2
  Tids = {p1, p2, p3}
  Mutexes = {m1, m2}
  Recursives = {m2}
  NoTid = NoTid
  NoMutex = NoMutex
  MaxBlockTids = 8
  MaxHolds = 2
  Magnitudes <- MCMagnitudes
  Strings <- MCStrings
INVARIANTS
  
  
  ListIsInOrderOfUse
  LatchIsRight
  AlarmsAreTrue
  EncodingIsFaithful
PROPERTIES
  
  RepliesArriveInOrder
  FrameCacheIsRight
CHECK_DEADLOCK FALSE
