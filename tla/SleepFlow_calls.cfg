CONSTANTS
  Users = {u1, u2}
  UsePm = TRUE
  Types = {256, 257}
  TxqMax = 1
  MayRefuse = TRUE
  MayFail = TRUE
  MaxCalls = 3
SPECIFICATION FairSpec
INVARIANTS SleepHolds
PROPERTIES CallsReturn
CHECK_DEADLOCK FALSE
