-------------------------- MODULE MCTunnelInstall ---------------------------
(***************************************************************************)
(* The tunnel of the PC, written and read, each by itself in one run.      *)
(* Writing: two Macs to pair with and two identities, so that every run    *)
(* may change the configuration and an identity can be reset.  Reading:    *)
(* the same Mac at two addresses, and another Mac at the first of them.    *)
(***************************************************************************)
EXTENDS TunnelInstall, TunnelGate

VARIABLE part

MCPairing == {"a1", "b1", "a2"}
MCPeerOf(p) == IF p = "b1" THEN "b" ELSE "a"
MCIpOf(p) == IF p = "a2" THEN "2" ELSE "1"

PartInit ==
    /\ part \in {"install", "gate"}
    /\ Init
    /\ TgInit /\ (part = "install" => conf = NoPairing)

PartNext ==
    /\ UNCHANGED part
    /\ \/ part = "install" /\ Next /\ UNCHANGED tgVars
       \/ part = "gate" /\ TgNext /\ UNCHANGED vars

PartSpec == PartInit /\ [][PartNext]_<<part, vars, tgVars>>
=============================================================================
