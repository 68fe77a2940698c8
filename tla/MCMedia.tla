------------------------------- MODULE MCMedia -------------------------------
(***************************************************************************)
(* Four parts of the media path, each checked by itself in one run: the    *)
(* initial state says which part moves, and the others keep theirs.  Two   *)
(* QueuedNals stand for the 64 of the program: the rings wrap and run full *)
(* within a few calls.                                                     *)
(***************************************************************************)
EXTENDS UdpReceiver, NalQueue, HwFallback, Renderer

VARIABLE part

PartInit ==
    /\ part \in {"receiver", "queue", "hardware", "render"}
    /\ NqInit /\ RnInit
    /\ RxInit /\ (part # "receiver" => held = {})
    /\ HwInit /\ (part # "hardware" => card = "works" /\ avc /\ size \in BurstSizes /\ \A n \in BurstSizes : size <= n)

PartNext ==
    /\ UNCHANGED part
    /\ \/ part = "receiver" /\ RxNext /\ UNCHANGED <<nqVars, hwVars, rnVars>>
       \/ part = "queue" /\ NqNext /\ UNCHANGED <<rxVars, hwVars, rnVars>>
       \/ part = "hardware" /\ HwNext /\ UNCHANGED <<rxVars, nqVars, rnVars>>
       \/ part = "render" /\ RnNext /\ UNCHANGED <<rxVars, nqVars, hwVars>>

PartSpec ==
    /\ PartInit /\ [][PartNext]_<<part, rxVars, nqVars, hwVars, rnVars>>
    \* UdpReceiver
    /\ WF_rxVars(part = "receiver" /\ RxThread)
    /\ WF_rxVars(part = "receiver" /\ stop = "asked" /\ RxStop)
    /\ \A s \in Slot : SF_rxVars(part = "receiver" /\ RxRelease(s))
    \* NalQueue
    /\ \A t \in Thread : WF_nqVars(part = "queue" /\ GetsOn(t))
    /\ SF_nqVars(part = "queue" /\ (Decode \/ DecodeAndRecover))
    \* HwFallback
    /\ WF_hwVars(part = "hardware" /\ (HwStart \/ FeedUnit \/ Fallback \/ BurstDone))
    /\ WF_hwVars(part = "hardware" /\ ReferenceMissing)
    /\ WF_hwVars(part = "hardware" /\ Intra) /\ WF_hwVars(part = "hardware" /\ LiveUnit)
    \* Renderer
    /\ WF_rnVars(part = "render" /\ Top) /\ WF_rnVars(part = "render" /\ Skip)
    /\ WF_rnVars(part = "render" /\ DrawDone)
    /\ WF_rnVars(part = "render" /\ \E i \in Id : DrawView(i))
=============================================================================
