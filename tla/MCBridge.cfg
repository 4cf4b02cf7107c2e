CONSTANTS
  Parts = {"journal", "session playback", "session tools", "authority",
           "authority evicts", "rotation"}
  v1 = v1
  v2 = v2
  None = None
  MaxQueuedEvents = 3
  TerminalReserveEvents = 1
  MaxBatchEvents = 2
  MaxAttempts = 2
  ClosesCall = TRUE
  MaxScope = 1
  MaxSequence = 4
SPECIFICATION SystemSpec
INVARIANTS
  NothingLost
  AudioIsHonest
PROPERTIES
  
  
  RenewalSurvives
SYMMETRY Symmetry
CHECK_DEADLOCK FALSE
