CONSTANTS
  c1 = c1  c2 = c2  ota = ota  boot = boot  hci = hci
  Callers = {boot, ota, hci}
  KindOf <- KindsMixed
  IoctlCallers = {hci}
  CookieMod = 3
  TxqMax = 0
  MaxCmds = 2
  MaxDups = 0
  Env = {"inboot", "detect"}
SPECIFICATION Spec
INVARIANTS PdListExact NoLostWakeup
CHECK_DEADLOCK FALSE
