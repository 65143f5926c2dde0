CONSTANTS
  Users = {}
  UsePm = TRUE
  Types = {1}
  TxqMax = 4
  MayRefuse = TRUE
  MayFail = FALSE
  MaxCalls = 4
SPECIFICATION Spec
INVARIANTS FailureClears
CHECK_DEADLOCK FALSE
