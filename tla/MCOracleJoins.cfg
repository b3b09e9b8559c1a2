CONSTANTS
  None = None
  MaxRepair = 1
  Budgets <- MCBudgets
  Bills <- MCBills
  MaxRuns = 2
  MaxObligations = 2
SPECIFICATION Spec
INVARIANT LinesJoinOwnRun
CHECK_DEADLOCK FALSE
