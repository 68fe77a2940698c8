------------------------------ MODULE TunnelGate ------------------------------
(***************************************************************************)
(* The commands that read the tunnel (src/src/app/tunnel_cli.cpp): a       *)
(* session asks resolve_session_host for the address of the Mac, and       *)
(* `scshr status` reports.  Each looks at the state file, the service, the *)
(* routes and the driver, one after the other (src/src/tunnel/             *)
(* win_tunnel.cpp), while `init` and `uninstall` of another process change *)
(* them, services stop, and other software changes the routes.             *)
(*                                                                         *)
(* TunnelInstall has the writers in detail; here they are what a reader    *)
(* can see of them.  A configuration and a state file name one pairing.    *)
(***************************************************************************)
EXTENDS FiniteSets, TLC

CONSTANTS
    Pairing,    \* the pairings of this PC: the key and the tunnel address of a Mac
    PeerOf(_), IpOf(_),
    NoPairing

VARIABLES
    conf, store, \* the pairing in the configuration and in the state file
    live,        \* the pairing the running service has loaded, NoPairing without one
    extra,       \* what other software did to the routes
    inst,        \* the writing command
    cmd,         \* the reading command
    shown        \* what the last reading command came to

tgVars == <<conf, store, live, extra, inst, cmd, shown>>

NoInit == [at |-> "none"]

\* A default route, or two halves of one, on the adapter; another route for
\* the address of the Mac; a DNS server.
Extra == {"default", "halves", "stolen", "dns"}

NoCmd == [at |-> "none", kind |-> "none", host |-> NoPairing, state |-> NoPairing,
          svc |-> FALSE, calm |-> TRUE]

TgInit ==
    /\ \E p \in Pairing \cup {NoPairing} : conf = p /\ store = p /\ live = p
    /\ extra = {}
    /\ inst = NoInit
    /\ cmd = NoCmd
    /\ shown = "nothing"

-----------------------------------------------------------------------------
(* The writing commands.                                                   *)

\* audit_routes: the adapter is there, the best route of the Mac is the /32 on
\* it, it has no default route and no DNS server, and 1.1.1.1 is elsewhere.
AuditOk(ip) ==
    /\ live # NoPairing
    /\ IpOf(live) = ip /\ "stolen" \notin extra
    /\ "default" \notin extra
    /\ "halves" \notin extra
    /\ "dns" \notin extra

\* The reading command no longer sees one state of the PC.
Disturb == cmd' = [cmd EXCEPT !.calm = FALSE]

Goto(at) == inst' = [inst EXCEPT !.at = at]

\* cmd_init, once the pairing code has been decoded, up to the writing of
\* the configuration.
CmdInit(p) ==
    /\ inst = NoInit
    /\ inst' = [at |-> "service", for |-> p, was |-> live # NoPairing,
                old |-> conf, changed |-> conf # p]
    /\ conf' = p
    /\ Disturb
    /\ UNCHANGED <<store, live, extra, shown>>

StopForInit ==
    /\ inst.at = "service"
    /\ Goto("start")
    /\ live' = IF inst.changed /\ inst.was THEN NoPairing ELSE live
    /\ Disturb
    /\ UNCHANGED <<conf, store, extra, shown>>

StartForInit ==
    /\ inst.at = "start"
    /\ \/ Goto("audit") /\ live' = IF live = NoPairing THEN conf ELSE live
       \/ Goto("rollback") /\ live = NoPairing /\ UNCHANGED live
    /\ Disturb
    /\ UNCHANGED <<conf, store, extra, shown>>

AuditForInit ==
    /\ inst.at = "audit"
    /\ Goto(IF AuditOk(IpOf(inst.for)) THEN "state" ELSE "rollback")
    /\ UNCHANGED <<conf, store, live, extra, cmd, shown>>

\* A service that ran before is left running, with what it has loaded.
RollbackInit ==
    /\ inst.at = "rollback"
    /\ inst' = NoInit
    /\ live' = IF inst.was THEN live ELSE NoPairing
    /\ conf' = IF inst.changed THEN inst.old ELSE conf
    /\ Disturb
    /\ UNCHANGED <<store, extra, shown>>

StateForInit ==
    /\ inst.at = "state"
    /\ inst' = NoInit
    /\ store' = inst.for
    /\ Disturb
    /\ UNCHANGED <<conf, live, extra, shown>>

\* `tunnel uninstall` and `unpair`: the service, the configuration, the state.
CmdUninstall ==
    /\ inst = NoInit
    /\ inst' = [at |-> "removeConf"]
    /\ live' = NoPairing
    /\ Disturb
    /\ UNCHANGED <<conf, store, extra, shown>>

RemoveConf ==
    /\ inst.at = "removeConf"
    /\ Goto("removeState")
    /\ conf' = NoPairing
    /\ Disturb
    /\ UNCHANGED <<store, live, extra, shown>>

RemoveState ==
    /\ inst.at = "removeState"
    /\ inst' = NoInit
    /\ store' = NoPairing
    /\ Disturb
    /\ UNCHANGED <<conf, live, extra, shown>>

\* The writing process ends between two of its operations.
InitDies ==
    /\ inst # NoInit
    /\ inst' = NoInit
    /\ UNCHANGED <<conf, store, live, extra, cmd, shown>>

\* The service is stopped by hand, or starts again with what is on disk.
ServiceMoves ==
    /\ inst = NoInit /\ conf # NoPairing
    /\ live' = IF live = NoPairing THEN conf ELSE NoPairing
    /\ Disturb
    /\ UNCHANGED <<conf, store, extra, inst, shown>>

\* Other software changes the routes; one thing at a time is wrong.
RoutesMove ==
    /\ extra' \in {{}} \cup {{e} : e \in Extra}
    /\ extra' # extra
    /\ Disturb
    /\ UNCHANGED <<conf, store, live, inst, shown>>

-----------------------------------------------------------------------------
(* The reading commands.                                                   *)

\* `--direct`: the host as it was asked for.
Direct ==
    /\ cmd.at = "none"
    /\ shown' = "direct"
    /\ UNCHANGED <<conf, store, live, extra, inst, cmd>>

Ask(kind, host) ==
    /\ cmd.at = "none"
    /\ cmd' = [NoCmd EXCEPT !.at = "state", !.kind = kind, !.host = host]
    /\ UNCHANGED <<conf, store, live, extra, inst, shown>>

End(result) == cmd' = NoCmd /\ shown' = result

Go(next) == cmd' = next /\ UNCHANGED shown

\* Mutant: a session has to name its host.
LoadStateNeedsHost ==
    /\ cmd.at = "state"
    /\ IF store = NoPairing \/ (cmd.kind = "session" /\ cmd.host # IpOf(store))
         THEN End("refused")
         ELSE Go([cmd EXCEPT !.at = "service", !.state = store])
    /\ UNCHANGED <<conf, store, live, extra, inst>>

\* load_state; a session compares the host it was asked for.
LoadState ==
    /\ cmd.at = "state"
    /\ IF \/ store = NoPairing
          \/ cmd.kind = "session" /\ cmd.host \notin {NoPairing, IpOf(store)}
         THEN End("refused")
         ELSE Go([cmd EXCEPT !.at = "service", !.state = store])
    /\ UNCHANGED <<conf, store, live, extra, inst>>

\* service_state
Service ==
    /\ cmd.at = "service"
    /\ IF cmd.kind = "session"
         THEN IF live = NoPairing THEN End("refused") ELSE Go([cmd EXCEPT !.at = "audit"])
         ELSE Go([cmd EXCEPT !.at = "query", !.svc = live # NoPairing])
    /\ UNCHANGED <<conf, store, live, extra, inst>>

\* audit_routes; with it `status` is done.
Audit ==
    /\ cmd.at = "audit"
    /\ LET ok == AuditOk(IpOf(cmd.state)) IN
       IF cmd.kind = "session"
         THEN IF ok THEN Go([cmd EXCEPT !.at = "query"]) ELSE End("refused")
         ELSE End(IF ok /\ cmd.svc THEN "admitted" ELSE "refused")
    /\ UNCHANGED <<conf, store, live, extra, inst>>

\* Mutant: what the running tunnel lets through is not compared.
GateOpensForPeer(p) == live # NoPairing /\ PeerOf(live) = PeerOf(p)

\* query_status, and the two comparisons with the pairing that was read.
GateOpens(p) ==
    /\ live # NoPairing
    /\ PeerOf(live) = PeerOf(p)
    /\ IpOf(live) = IpOf(p)

\* A session gets the address of the pairing; `status` prints, and goes on.
Query ==
    /\ cmd.at = "query"
    /\ IF cmd.kind = "session"
         THEN End(IF GateOpens(cmd.state) THEN "admitted" ELSE "refused")
         ELSE Go([cmd EXCEPT !.at = "audit"])
    /\ UNCHANGED <<conf, store, live, extra, inst>>

TgNext ==
    \/ \E p \in Pairing : CmdInit(p)
    \/ StopForInit \/ StartForInit \/ AuditForInit \/ RollbackInit \/ StateForInit
    \/ CmdUninstall \/ RemoveConf \/ RemoveState
    \/ InitDies \/ ServiceMoves \/ RoutesMove
    \/ Direct
    \/ \E host \in {IpOf(p) : p \in Pairing} \cup {NoPairing} : Ask("session", host)
    \/ Ask("status", NoPairing)
    \/ LoadState \/ Service \/ Audit \/ Query

TgSpec == TgInit /\ [][TgNext]_tgVars

-----------------------------------------------------------------------------
(* Properties.                                                             *)

Ends == cmd.at # "none" /\ cmd'.at = "none"

\* Whatever was re-paired, removed or restarted since resolve_session_host
\* read the state file: when it hands the address out, the tunnel that runs
\* is bound to the Mac of that file and lets exactly its address through, and
\* if nothing moved meanwhile, no other traffic goes into the tunnel.
SessionOnItsPairing ==
    Ends /\ cmd.kind = "session" /\ shown' = "admitted" =>
       /\ live # NoPairing
       /\ PeerOf(live) = PeerOf(cmd.state) /\ IpOf(live) = IpOf(cmd.state)
       /\ cmd.calm => extra = {}

Healthy == store # NoPairing /\ live = store /\ extra = {}

\* A PC whose tunnel runs what its files say, with no foreign routes, is
\* never refused: `scshr status` exits with 0 and a session gets its host.
HealthyIsAdmitted ==
    Ends /\ cmd.calm /\ Healthy /\ cmd.host \in {NoPairing, IpOf(store)}
       => shown' = "admitted"

\* "Repeat runs reconcile the existing configuration" (the help of init):
\* an init that comes to its end leaves the service running its pairing.
\* install_windows_tunnel restarts it only when the file has changed.
InitReconciles == inst.at = "state" => live \in {NoPairing, inst.for}

\* The gate of a session opens to the right Mac only, and it opens.
GateIsRight == [][SessionOnItsPairing /\ HealthyIsAdmitted]_tgVars

=============================================================================
