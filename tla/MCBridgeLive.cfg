CONSTANTS
  Parts = {"journal", "session accounts", "authority answers", "rotation"}
  v1 = v1
  v2 = v2
  None = None
  MaxQueuedEvents = 2
  TerminalReserveEvents = 1
  MaxBatchEvents = 1
  MaxAttempts = 2
  ClosesCall = TRUE
  MaxScope = 2
  MaxSequence = 2
SPECIFICATION SystemLiveSpec
PROPERTIES
  ShutdownDrains
  
CHECK_DEADLOCK FALSE
