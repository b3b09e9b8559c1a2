CONSTANTS
  p1 = p1
  p2 = p2
  None = None
  Procs <- MCProcs
  Asked <- MCAsked
  Budgets <- MCBudgets
  PricingFile <- MCPricingFile
  Answers <- MCAnswers
  Failures <- MCFailures
  MaxAttempts = 2
  MaxRequests = 2
  MaxCommands = 1
SPECIFICATION MCSpec
INVARIANTS
  TypeOK
  LedgersAgree
  AnswersBelong
  PaidIsCached
PROPERTIES
  RequestsEnd
  EntriesAreFinal
CHECK_DEADLOCK FALSE
