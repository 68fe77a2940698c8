\* Two HEVC tiles that share the pool: access units of 2 and 1 packets.
CONSTANTS
  Ssrc = {s1, s2}
  Slot = {p1, p2, p3}
  Codec = "Hevc"
  SeqMod = 16
  SeqBase = 14
  NumPkts = 3
  TsOf <- Ts_2_1
  NackSpan = 3
  RepairWait = 1
  PendingTtl = 1
  DedupTtl = 2
  EvictPeriod = 1
  MaxTime = 3
  MaxDup = 1
SYMMETRY SlotSymmetry
SPECIFICATION Spec
INVARIANTS
  SlotsConserved
CHECK_DEADLOCK FALSE
