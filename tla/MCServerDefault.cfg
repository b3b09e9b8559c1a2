CONSTANTS
  None = None
  Empty = Empty
  Unwritten = Unwritten
  Caps <- MCCaps
  Bills <- MCBills
  MaxBill = 2
  MaxFiles = 2
  MaxObligations = 3
  MaxRounds = 2
  MaxCommands = 2
  Requests = {"q1", "q2"}
  Tools = {"solve", "check", "eval", "mine", "cost_report"}
  MaxCalls = 3
  RunCount = 2
  Rows <- MCRows
  MaxRows = 2
  Calls = {"c1", "c2"}
  Feeds <- MCFeeds
  Recognised = {"s", "t"}
  Limits = {0, 2}
SPECIFICATION MCSpec
INVARIANT DefaultCapHolds
CHECK_DEADLOCK FALSE
