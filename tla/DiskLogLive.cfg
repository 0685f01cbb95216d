CONSTANTS
  Appenders = {a1}
  Sizes = {1}
  HeaderSize = 1
  MaxBytes = 3
  N = 2
  MaxLsn = 3
  MaxFaults = 1
  TornFaults = TRUE
SPECIFICATION FairSpec
PROPERTIES
  LogMakesProgress
