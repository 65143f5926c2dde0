CONSTANTS
  c1 = c1  c2 = c2  ota = ota  boot = boot  hci = hci
  Callers = {c1, c2}
  KindOf <- KindsTwo
  IoctlCallers = {c2}
  CookieMod = 2
  TxqMax = 0
  MaxCmds = 2
  MaxDups = 1
  Env = {"remove", "sleep"}
SPECIFICATION FairSpec
INVARIANTS AnswerIsOwn LeakOnlyOnRepeat
PROPERTIES RemoveCompletes QuietAfterCancel ImplementsRpc
CHECK_DEADLOCK FALSE
