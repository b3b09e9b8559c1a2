CONSTANTS
  None = None
  Suite <- MCSuite
  Configs = 2
  MaxObligations = 3
  MaxRounds = 2
  Requests <- MCRequests
  Bills <- MCBills
  MaxBill = 2
  CommandLines <- MCCommandLines
  Experiments <- MCExperiments
  SafeName <- MCSafeName
  Signatures <- MCSignatures
  DefaultOracle <- MCDefaultOracle
SPECIFICATION MCSpec
INVARIANTS
  HalvesTypeOK
  CapHolds
  ReportTellsAll
  LabelsUnique
  PlanIsAsked
  TablesTell
CHECK_DEADLOCK FALSE
