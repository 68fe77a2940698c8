------------------------------ MODULE MCViewer -------------------------------
(***************************************************************************)
(* Five parts of the viewer, each checked by itself in one run: the        *)
(* initial state says which part moves, and the others keep theirs.        *)
(***************************************************************************)
EXTENDS Feedback, CanvasChange, KeyRouting, ClipboardShare, AudioSink

VARIABLE part

First(S) == CHOOSE x \in S : TRUE

PartInit ==
    /\ part \in {"feedback", "canvas", "keys", "clipboard", "sound"}
    /\ CsInit /\ AuInit
    /\ FbInit /\ (part # "feedback" => tiles = First(TileCounts))
    /\ CcInit /\ (part # "canvas" => codec = First(Codec) /\ win = First(Size))
    /\ KrInit /\ (part # "keys" => hwnd = First(View))

PartNext ==
    /\ UNCHANGED part
    /\ \/ part = "feedback" /\ FbNext /\ UNCHANGED <<ccVars, krVars, csVars, auVars>>
       \/ part = "canvas" /\ CcNext /\ UNCHANGED <<fbVars, krVars, csVars, auVars>>
       \/ part = "keys" /\ KrNext /\ UNCHANGED <<fbVars, ccVars, csVars, auVars>>
       \/ part = "clipboard" /\ CsNext /\ UNCHANGED <<fbVars, ccVars, krVars, auVars>>
       \/ part = "sound" /\ AuNext /\ UNCHANGED <<fbVars, ccVars, krVars, csVars>>

PartSpec ==
    /\ PartInit /\ [][PartNext]_<<part, fbVars, ccVars, krVars, csVars, auVars>>
    \* Feedback
    /\ WF_fbVars(part = "feedback" /\ TxTick) /\ WF_fbVars(part = "feedback" /\ HostAnswers)
    /\ WF_fbVars(part = "feedback" /\ Resume)
    /\ \A t \in 0 .. 1 : WF_fbVars(part = "feedback" /\ t \in Tile /\ Clean(t))
    /\ \A x \in {<<p, 0>> : p \in Plain} \cup ({"fir"} \X (0 .. 1)) :
          WF_fbVars(part = "feedback" /\ Expire(x))
    \* CanvasChange
    /\ WF_ccVars(part = "canvas" /\ Render) /\ WF_ccVars(part = "canvas" /\ Ripen)
    /\ WF_ccVars(part = "canvas" /\ Cooled) /\ WF_ccVars(part = "canvas" /\ HostResize)
    /\ WF_ccVars(part = "canvas" /\ HostSwitch) /\ WF_ccVars(part = "canvas" /\ TcpLayout)
    /\ WF_ccVars(part = "canvas" /\ TxPostLayout) /\ WF_ccVars(part = "canvas" /\ TxStall)
    /\ SF_ccVars(part = "canvas" /\ PacketParams(Kind)) /\ WF_ccVars(part = "canvas" /\ PacketClear)
    \* ClipboardShare
    /\ WF_csVars(part = "clipboard" /\ (TcpMessage \/ TcpWrites))
    /\ WF_csVars(part = "clipboard" /\ (PollReads \/ PollSends))
    /\ WF_csVars(part = "clipboard" /\ MacAnswers) /\ WF_csVars(part = "clipboard" /\ MacPastes)
    \* AudioSink
    /\ WF_auVars(part = "sound" /\ AuLeave) /\ WF_auVars(part = "sound" /\ Joined)
=============================================================================
