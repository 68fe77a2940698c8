------------------------------ MODULE MCDecoding ------------------------------
(***************************************************************************)
(* What comes from the Mac and how it is read, each part by itself in one  *)
(* run: the records of the control channel, the burst of the first video   *)
(* packets, the recovery from a broken reference chain, the references of  *)
(* HEVC slices, and the locks of the threads that do all this.             *)
(***************************************************************************)
EXTENDS AvcRecovery, InitialBurst, ControlChannel, HevcRps, LockOrder

VARIABLE part

PartInit ==
    /\ part \in {"burst", "recovery", "send", "read", "references", "locks"}
    /\ AvInit /\ ChInit /\ RpsInit /\ LoInit
    /\ IbInit /\ (part # "burst" => /\ isAvc
                                    /\ first = (CHOOSE f \in FirstIndex : TRUE)
                                    /\ gap = (CHOOSE g \in Gaps : TRUE))

PartNext ==
    /\ UNCHANGED part
    /\ \/ part = "burst" /\ IbNext /\ UNCHANGED <<avVars, sendVars, readVars, rpsVars, loVars>>
       \/ part = "recovery" /\ AvNext /\ UNCHANGED <<ibVars, sendVars, readVars, rpsVars, loVars>>
       \/ part = "send" /\ SendNext /\ UNCHANGED <<avVars, ibVars, readVars, rpsVars, loVars>>
       \/ part = "read" /\ ReadNext /\ UNCHANGED <<avVars, ibVars, sendVars, rpsVars, loVars>>
       \/ part = "references" /\ RpsNext /\ UNCHANGED <<avVars, ibVars, sendVars, readVars, loVars>>
       \/ part = "locks" /\ LoNext /\ UNCHANGED <<avVars, ibVars, sendVars, readVars, rpsVars>>

PartSpec == PartInit /\ [][PartNext]_<<part, avVars, ibVars, sendVars, readVars, rpsVars, loVars>>
=============================================================================
