CONSTANTS
  Parts = {"store"}
  v1 = v1
  v2 = v2
  None = None
  Nodes = {"work"}
  Fallbacks = {}
  Steps = {"order"}
  NodeOf <- OrderNode
  Ancestors <- NoAncestors
  EntryFlag <- NoFlag
  Transitions <- NoTransitions
  OnFailure <- NoFailurePath
  MaxAttempts <- TwoAttempts
  MaxStepEntries = 2
  Checkpointed = {}
  RequiresOutput = {}
  Binding <- BoundToPay
  Tools = {"pay"}
  AlwaysTools = {}
  NodeTools <- NoNodeTools
  StepTools <- PayGranted
  StepPolicy <- PayPerCall
  AlwaysPolicy <- NeverAlways
  Values = {"ok"}
  Args = {"x", "y"}
  Receipts = {"r1", "r2"}
  MaxReceipts = 2
  MaxEpoch = 4
  Workers = {"w1", "w2"}
  Proofs = {}
  ReadOnly = {}
  Remote = {}
  Reconcilable = {"pay"}
  MaxProofAttempts = 2
SPECIFICATION SystemSpec
INVARIANTS
  ReceiptRecordsWhatWasSent
CHECK_DEADLOCK FALSE
