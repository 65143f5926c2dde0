CONSTANTS
  TxBufs = {t1, t2}
  RxBufs = {r1, r2}
  MaxSkbs = 3
  Frames = 1
  MaxErrs = 2
  MaxCardResets = 1
  MaxInts = 1
  MaxCore = 1
  BusyLoops = 0
  MaxRetry = 1
  RxRetry = 1
  IsSpi = FALSE
  Caps = {{"fast", "wide"}, {}}
  SoftFc = FALSE
SPECIFICATION BusSpec
INVARIANTS FrameCompletedOnce PoolsSound HostOwned BusAgrees
PROPERTIES BusProgress
CHECK_DEADLOCK FALSE
