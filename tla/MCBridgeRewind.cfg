CONSTANTS
  Parts = {"session rewinds"}
  v1 = v1
  v2 = v2
  None = None
  MaxQueuedEvents = 3
  TerminalReserveEvents = 1
  MaxBatchEvents = 2
  MaxAttempts = 2
  ClosesCall = TRUE
  MaxScope = 1
  MaxSequence = 4
SPECIFICATION SystemSpec
PROPERTIES
  CatalogNeverRewinds
CHECK_DEADLOCK FALSE
