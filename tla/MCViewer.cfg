SPECIFICATION PartSpec
CONSTANTS
  TileCounts = {1, 2}
  ReArmCap = 2
  ForceallAfter = 2
  Faults = 2
  Size = {A, B}
  Codec = {"avc", "hevc"}
  None = None
  MaxMoves = 2
  MaxLoss = 1
  Side = {"left"}
  Bit = {"ctrl"}
  Named = {"shift"}
  Printable = {"c"}
  View = {"main"}
  MaxNotice = 2
  Body = {"a", "b"}
  MaxCopies = 3
  MaxChunks = 2
  ChunkFrames = 2
  Late = 1
  Period = {0, 1, 3}
  MaxTime = 3
  MaxFeeds = 3
INVARIANTS
  NoStuckModifier
PROPERTIES
  RequirementKept
  GateRecovers
  CanvasSettles
  OnlyTypedHere
  ClipboardSettles
  SoundInOrder
CHECK_DEADLOCK FALSE
