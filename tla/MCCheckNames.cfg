CONSTANTS
  None = None
  Documents <- MCSameName
  FileCount = 1
  FailAfter = 1
SPECIFICATION Spec
INVARIANTS
  LeanClaimsChecked
CHECK_DEADLOCK FALSE
