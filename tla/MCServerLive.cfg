CONSTANTS
  Parts = {"tools", "workers end", "call settles", "campaign ends", "remote ends"}
  v1 = v1
  v2 = v2
  v3 = v3
  v4 = v4
  None = None
  Invocations = {"i1"}
  Inputs = {"launch", "plain"}
  Recoverable = {"launch"}
  Requests = {"q1", "q2"}
  ArgumentBytes = 1
  Reserve = 2
  LargeBytes = 4
  MaxReceipts = 2
  MaxWindow = 1
  MaxArgumentBytes = 2
  MaxBytes = 6
SPECIFICATION SystemLiveSpec
PROPERTIES
  ImplementsAtMostOnce
  
CHECK_DEADLOCK FALSE
