CONSTANTS
  Parts = {"proof", "proof shared", "proof ledgers", "paid",
           "paid faults", "paid rollback", "dev", "dev two",
           "gateway", "gateway rotation", "segment", "segment manual",
           "slice"}
  v1 = v1
  v2 = v2
  v3 = v3
  v4 = v4
SPECIFICATION Spec
INVARIANTS
  
  SliceIsExact
PROPERTIES
  BudgetIsKept
  SpendIsAccounted
  
SYMMETRY Symmetry
CHECK_DEADLOCK FALSE
