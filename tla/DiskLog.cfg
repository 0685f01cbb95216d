CONSTANTS
  Appenders = {a1, a2}
  Sizes = {1}
  HeaderSize = 1
  MaxBytes = 3
  N = 2
  MaxLsn = 3
  MaxFaults = 1
  TornFaults = FALSE
SPECIFICATION Spec
INVARIANTS
  EntriesAreKept
  AckedDurable
PROPERTIES
  ImplementsWal
