--------------------------- MODULE MCFrameHandoff ---------------------------
(***************************************************************************)
(* Two tiles and three frames: a frame is replaced before it is taken, and *)
(* a restart finds frames of both tiles on their way.                      *)
(***************************************************************************)
EXTENDS FrameHandoff
=============================================================================
