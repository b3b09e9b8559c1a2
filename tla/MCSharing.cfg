CONSTANTS
  c1 = c1
  c2 = c2
  c3 = c3
  p1 = p1
  p2 = p2
  r1 = r1
  r2 = r2
  r3 = r3
  right = right
  wrong = wrong
  Empty = Empty
  Absent = Absent
  Truncated = Truncated
  None = None
  Callers <- MCCallers
  Attempts = 3
  Budgets <- MCBudgets
  Bills <- MCBills
  MaxBill = 3
  Procs <- MCProcs
  Bodies <- MCBodies
  Proofs <- MCProofs
  MaxCalls = 2
  Runs <- MCRuns
  Holes = 2
SPECIFICATION PartsSpec
INVARIANTS
  GuardTypeOK
  CostOvershootBounded
  CallsBounded
  BooksBalance
  TypeOK
  VerdictIsOwn
  CleanWorkspace
  ReturnedIsLogged
  DemoTypeOK
  ScratchRestored
  ResultsMatchArtifacts
PROPERTY ImplementsGate
SYMMETRY Interchangeable
CHECK_DEADLOCK FALSE
