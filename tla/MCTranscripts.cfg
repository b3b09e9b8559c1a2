CONSTANTS
  None = None
  MaxRepair = 2
  Budgets <- MCBudgets
  Bills <- MCBills
  MaxRuns = 2
  MaxObligations = 2
  Naming <- MCNaming
  FileOf <- MCFileOf
SPECIFICATION TFairSpec
INVARIANTS
  TTypeOK
  RecordsAgree
  VerdictsJoinOwnCalls
PROPERTIES
  ImplementsContract
  ObligationsEnd
CHECK_DEADLOCK FALSE
