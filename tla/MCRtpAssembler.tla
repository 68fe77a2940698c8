--------------------------- MODULE MCRtpAssembler ---------------------------
(* Streams for model checking RtpAssembler: TsOf names each packet's access *)
(* unit by the unit's last packet.                                         *)
EXTENDS RtpAssembler, TLC

Units(ends) == [i \in Idx |-> Min({e \in ends : e >= i})]

Ts_1_3_1 == Units({0, 3, 4})
Ts_2_1   == Units({1, 2})

SlotSymmetry == Permutations(Slot)
=============================================================================
