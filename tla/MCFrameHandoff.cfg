SPECIFICATION FhFairSpec
CONSTANTS
    NumTiles = 2
    Codec = "hevc"
    PerTileRecovery = TRUE
    MaxFrame = 3
PROPERTIES
  DrawsFreshInOrder
  AnnouncedGetsDrawn
