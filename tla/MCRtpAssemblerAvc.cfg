\* One AVC tile: access units of 1, 3 and 1 packets, numbered over the 65535 -> 0 wrap.
CONSTANTS
  Ssrc = {s1}
  Slot = {p1, p2, p3, p4}
  Codec = "Avc"
  SeqMod = 16
  SeqBase = 14
  NumPkts = 5
  TsOf <- Ts_1_3_1
  NackSpan = 3
  RepairWait = 1
  PendingTtl = 1
  DedupTtl = 2
  EvictPeriod = 1
  MaxTime = 4
  MaxDup = 1
SYMMETRY SlotSymmetry
SPECIFICATION Spec
INVARIANTS
  GapsAreAnnounced
  EndsOnceInTime
PROPERTIES
  TracksSequence
CHECK_DEADLOCK FALSE
