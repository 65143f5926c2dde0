CONSTANTS
  ImageLen = 5
  FragSize = 4
  BlkSize = 2
  Retries = 2
  MaxDetects = 1
  MaxDups = 1
  MaxErrs = 1
SPECIFICATION FairSpec
INVARIANTS RunsWholeImage ReadBounded
PROPERTIES DownloadEnds
CHECK_DEADLOCK FALSE
