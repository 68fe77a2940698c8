SPECIFICATION PartSpec
CONSTANTS
  MaxAu = 6
  QueueCap = 2
  MayLose = TRUE
  MayRestart = TRUE
  LibavReports = TRUE
  SeqSpace = 8
  FirstIndex = {0, 6}
  Gaps = {0, 5}
  Late = 1
  MaxLost = 1
  QualityTier = 0
  Sender = {"ui", "tx", "clip"}
  CtrWindow = 2
  MaxSeal = 3
  MaxRecord = 4
  MaxLsb = 4
  MaxPic = 9
  MaxIdr = 1
INVARIANT
  KeyFrameWhole
CHECK_DEADLOCK FALSE
