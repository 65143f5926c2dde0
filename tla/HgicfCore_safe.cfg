CONSTANTS
  HasReinit = TRUE
  NoPoll = FALSE
  NoBootdl = FALSE
  IfTest = TRUE
  DlRetry = 1
  RunRetry = 1
  DetRetry = 1
  MaxResets = 0
  MayRemove = TRUE
  MayQueue = TRUE
  MaySleep = TRUE
  Lossy = TRUE
SPECIFICATION Spec
INVARIANTS QuietAfterRemove SuspendHasOwner DetectorAlive
