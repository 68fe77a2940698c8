SPECIFICATION PartSpec
CONSTANTS
  Slot = {s1, s2, s3}
  Op = {o1, o2}
  NoSlot = NoSlot
  BurstSizes = {2, 6}
  CheckEvery = 2
  Window = 3
  Threshold = 2
  MinFrames = 2
  MaxRestarts = 2
  Secondary = {1}
  RnTile = {1}
  Address = {1, 2, 3}
  CacheCap = 1
  MaxGen = 3
  MaxResize = 1
  NoFrame = NoFrame
  NoNal = NoNal
  Nal = {n1, n2}
  Restarters = {"tx"}
  MaxFeed = 4
INVARIANTS
  FallbackIsSound
  FramesAreCurrent
  SlotsGoRound
PROPERTIES
  QueueIsFifo
  QueueGetsOn
  ImplementsRing
  ReceivesUntilStopped
  CardIsLeft
  CloseEnds
CHECK_DEADLOCK FALSE
