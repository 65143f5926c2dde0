CONSTANTS
  HasReinit = TRUE
  NoPoll = TRUE
  NoBootdl = FALSE
  IfTest = FALSE
  DlRetry = 1
  RunRetry = 1
  DetRetry = 1
  MaxResets = 1
  MayRemove = FALSE
  MayQueue = FALSE
  MaySleep = FALSE
  Lossy = TRUE
SPECIFICATION FairSpec

PROPERTIES ReloadAfterReset EventuallyInited
