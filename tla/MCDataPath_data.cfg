CONSTANTS
  TxqSize = 1
  IfAgg = 18
  HdrLen = 8
  FrameLens <- MCFrameLens
  Window = 2
  Grants = {0, 2}
  MaxReloads = 1
  Buffers <- MCBuffers
  RxHdr = 8
  MaxRx = 2
  MaxNoMem = 1
SPECIFICATION DpSpec
INVARIANTS SentInOrder TxLimits RxDelivers
PROPERTIES QueueDrains
CHECK_DEADLOCK FALSE
