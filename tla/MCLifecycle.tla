----------------------------- MODULE MCLifecycle ------------------------------
(***************************************************************************)
(* Pairing a PC with two Macs, and a run of the viewer with a couple of    *)
(* attempts and re-queries, each by itself in one run.                     *)
(***************************************************************************)
EXTENDS PairingWizard, SessionLife

VARIABLE part

First(S) == CHOOSE x \in S : TRUE

PartInit ==
    /\ part \in {"pairing", "session"}
    /\ PwInit
    /\ SlInit /\ (part # "session" => cfg = First(Config))

PartNext ==
    /\ UNCHANGED part
    /\ \/ part = "pairing" /\ PwNext /\ UNCHANGED lifeVars
       \/ part = "session" /\ SlNext /\ UNCHANGED pwVars

PartSpec ==
    /\ PartInit /\ [][PartNext]_<<part, pwVars, lifeVars>>
    \* PairingWizard
    /\ WF_pwVars(part = "pairing" /\ Worker) /\ WF_pwVars(part = "pairing" /\ dlg.cancel /\ Copy)
    /\ WF_pwVars(part = "pairing" /\ SetupFinish) /\ WF_pwVars(part = "pairing" /\ RemoveDone)
    /\ WF_pwVars(part = "pairing" /\ CheckEnds) /\ WF_pwVars(part = "pairing" /\ LinkDone)
    \* SessionLife
    /\ WF_lifeVars(part = "session" /\ Connect) /\ WF_lifeVars(part = "session" /\ Viewer)
    /\ SF_lifeVars(part = "session" /\ LeaveLoop) /\ WF_lifeVars(part = "session" /\ PacketStart)
    /\ \A t \in Threads : WF_lifeVars(part = "session" /\ ThreadEnds(t))
=============================================================================
