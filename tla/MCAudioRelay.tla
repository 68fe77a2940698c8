---------------------------- MODULE MCAudioRelay ----------------------------
(* Two agents, of one account (an old connection and its successor) or of   *)
(* two; two subscribers.                                                    *)
EXTENDS AudioRelay
=============================================================================
