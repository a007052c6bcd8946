CONSTANTS
  Requests = {"p1", "p2"}
  Balance = 4
  Cleared = 2
  Minimum = 1
  MaxTries = 2
  MaxClicks = 3
  MaxFaults = 1
SPECIFICATION Spec
INVARIANTS NoDoubleWithdrawal
CHECK_DEADLOCK FALSE
