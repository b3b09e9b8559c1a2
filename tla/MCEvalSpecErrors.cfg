CONSTANTS
  None = None
  Suite <- MCSingle
  Configs = 1
  MaxObligations = 1
  MaxRounds = 1
  Requests <- MCRequests
  Bills <- MCBills
  MaxBill = 2
SPECIFICATION Spec
PROPERTY SpecErrorsContained
CHECK_DEADLOCK FALSE
