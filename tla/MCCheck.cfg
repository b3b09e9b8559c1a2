CONSTANTS
  None = None
  Documents <- MCDocuments
  FileCount = 2
  FailAfter = 1
  MaxText = 5
  Texts <- MCTexts
SPECIFICATION PartsSpec
INVARIANTS
  TypeOK
  EachClaimOnce
  ExitCodeTellsAll
  TextIsRead
CHECK_DEADLOCK FALSE
