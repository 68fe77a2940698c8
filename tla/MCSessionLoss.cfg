SPECIFICATION PartSpec
CONSTANTS
  Mac = {m1, m2}
  NoMac = NoMac
  SrpFirst = TRUE
  Tries = 2
  Queries = 2
PROPERTY
  EveryLossEndsViewer
