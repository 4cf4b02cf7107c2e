CONSTANTS
  Parts = {"flow", "actions call", "actions call fails", "actions schedule",
           "actions campaign", "actions number", "actions quota", "sends messages",
           "sends voice", "sends", "turn"}
  v1 = v1
  v2 = v2
  None = None
  Nodes <- MCNodes
  Fallbacks <- MCFallbacks
  Steps <- MCSteps
  NodeOf <- MCNodeOf
  Ancestors <- MCAncestors
  EntryFlag <- MCEntryFlag
  Transitions <- MCTransitions
  OnFailure <- MCOnFailure
  MaxAttempts <- MCMaxAttempts
  MaxStepEntries = 3
  Checkpointed <- MCCheckpointed
  RequiresOutput <- MCRequiresOutput
  Binding <- MCBinding
  Tools <- MCTools
  AlwaysTools = {}
  NodeTools <- MCNodeTools
  StepTools <- MCStepTools
  StepPolicy <- MCStepPolicy
  AlwaysPolicy <- MCAlwaysPolicy
  Values = {"yes", "no"}
  Args = {"x", "y"}
  Receipts = {"r1", "r2"}
  MaxReceipts = 2
  MaxEpoch = 7
  Workers = {}
  Proofs = {}
  ReadOnly = {}
  Remote = {}
  Reconcilable = {}
  MaxProofAttempts = 2
SPECIFICATION SystemSpec
INVARIANTS
  PersistedStateIsValid
  UnresolvedFreezesStep
  EpochIdentifiesScope
  ActionsAreSound
PROPERTIES
  ReceiptsKeepTheirOutcome
SYMMETRY Symmetry
CHECK_DEADLOCK FALSE
