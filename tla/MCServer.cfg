CONSTANTS
  Parts = {"tools", "log workers", "log goals", "workers",
           "workers batch", "call", "call repeated", "campaign",
           "campaign retried", "scheduled retried", "direct calls", "remote pinned",
           "remote open", "remote shared", "remote stream"}
  v1 = v1
  v2 = v2
  v3 = v3
  v4 = v4
  None = None
  Invocations = {v3, v4}
  Inputs = {"launch", "plain"}
  Recoverable = {"launch"}
  Requests = {v1, v2}
  ArgumentBytes = 1
  Reserve = 2
  LargeBytes = 4
  MaxReceipts = 2
  MaxWindow = 2
  MaxArgumentBytes = 2
  MaxBytes = 6
SPECIFICATION SystemSpec
INVARIANTS
  AtMostOneEffect
  ToldIsRecorded
  QuotaIsSound
PROPERTIES
  ConversationIsSound
  
  RowIsSound
  
  
SYMMETRY Symmetry
CHECK_DEADLOCK FALSE
