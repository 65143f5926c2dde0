CONSTANTS
  s1 = s1
  s2 = s2
  Writers = {w1, w2}
  Files <- MCFiles
  OwnFw <- MCOwnFw
  FragSize = 2
  MaxUploads = 2
  MaxOtaFaults = 1
  Tools = {p1, p2}
  Stations = {s1, s2}
  Svn <- MCSvn
  Images <- MCImages
  Invocations <- MCInvocations
  Saved <- MCSaved
  BlockSize = 2
  TableSize = 2
  ScanRecvs = 2
  OtaRetries = 2
  MaxInbox = 1
  MaxAir = 1
SPECIFICATION UpSpec
INVARIANTS ImageWhole QueueClean UpgradeComplete
PROPERTIES OtaEnds
CHECK_DEADLOCK FALSE
