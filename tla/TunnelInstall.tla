--------------------------- MODULE TunnelInstall ----------------------------
(***************************************************************************)
(* Installing and removing the Windows tunnel: install_windows_tunnel      *)
(* (src/src/app/tunnel_cli.cpp) with the identity, configuration and       *)
(* service operations it calls, and uninstall                              *)
(* (src/src/tunnel/win_tunnel.cpp).                                        *)
(*                                                                         *)
(* One elevated process runs at a time; pc is the operation it comes to    *)
(* next.  An operation may fail (the C++ throws) and the process may die   *)
(* before any of them; write_secure_file truncates and then writes, so     *)
(* dying in it leaves the file Torn.  The service reads the configuration  *)
(* when it starts, and starts by itself after a reboot.                    *)
(***************************************************************************)
EXTENDS Naturals

CONSTANTS
    Server,     \* pairing codes of Macs
    None,       \* no file; nothing loaded
    Torn,       \* a file that was created and not written
    MaxKey      \* bound: identities generated

Key == 1 .. MaxKey

\* A rendered configuration, or the same facts in the state file.
Conf == [key : Key, srv : Server]
Binary == {"old", "current"}

ASSUME InstallAssumption ==
    /\ MaxKey \in Nat
    /\ None # Torn
    /\ {None, Torn} \cap (Key \cup Conf) = {}
    /\ None \notin [conf : Conf, bin : Binary]

VARIABLES
    file,       \* the files of paths(): identity (private key), pubkey, conf, state
    svc,        \* the service: [at, bin, loaded], its state, its registered command
                \* line and what the running one was started from
    keys,       \* identities generated so far
    pc,         \* the next operation of the process, or "idle"
    run,        \* locals of install_windows_tunnel
    broken      \* history: a process died or a write failed since the last success

vars == <<file, svc, keys, pc, run, broken>>

Init ==
    /\ file = [identity |-> None, pubkey |-> None, conf |-> None, state |-> None]
    /\ svc = [at |-> "absent", bin |-> "current", loaded |-> None]
    /\ keys = 0
    /\ pc = "idle"
    /\ run = None
    /\ broken = FALSE

Step(from, to) == pc = from /\ pc' = to

\* Does the running service run what is on disk?
Coherent == svc.at = "running" => svc.loaded = [conf |-> file.conf, bin |-> svc.bin]

-----------------------------------------------------------------------------
(* load_or_create_identity.                                                *)

\* Mutant: one file of the two is taken for none.
FreshUnlessBoth == file.identity = None \/ file.pubkey = None

\* Neither file is there: a new key pair is made.
Fresh == file.identity = None /\ file.pubkey = None

Begin(s, k) ==
    run' = [srv |-> s, key |-> k, before |-> svc.at, previous |-> file.conf, changed |-> FALSE,
            binChanged |-> FALSE, coherent |-> Coherent, confFailed |-> FALSE]

\* An identity that is half there, or torn, ends the call with an error.
LoadIdentity(s) ==
    /\ Step("idle", "conf")
    /\ file.identity \in Key /\ file.pubkey \in Key
    /\ Begin(s, file.identity)
    /\ UNCHANGED <<file, svc, keys, broken>>

CreateIdentity(s) ==
    /\ Step("idle", "identity")
    /\ Fresh
    /\ keys < MaxKey
    /\ keys' = keys + 1
    /\ Begin(s, keys + 1)
    /\ UNCHANGED <<file, svc, broken>>

WriteIdentity ==
    /\ Step("identity", "pubkey")
    /\ file' = [file EXCEPT !.identity = run.key]
    /\ UNCHANGED <<svc, keys, run, broken>>

WritePubkey ==
    /\ Step("pubkey", "conf")
    /\ file' = [file EXCEPT !.pubkey = run.key]
    /\ UNCHANGED <<svc, keys, run, broken>>

-----------------------------------------------------------------------------
(* The try block.                                                          *)

Rendered == [key |-> run.key, srv |-> run.srv]

WriteConf ==
    /\ Step("conf", "service")
    /\ file' = [file EXCEPT !.conf = Rendered]
    /\ run' = [run EXCEPT !.changed = file.conf # Rendered]
    /\ UNCHANGED <<svc, keys, broken>>

\* Mutant: nobody looks at what WriteFile returns.
WriteConfFailsUnseen ==
    /\ Step("conf", "service")
    /\ file.conf # Rendered
    /\ file' = [file EXCEPT !.conf = Torn]
    /\ run' = [run EXCEPT !.changed = TRUE]
    /\ broken' = TRUE
    /\ UNCHANGED <<svc, keys>>

\* CreateFile, the write, or the ACL after it, fails: changed is not assigned.
WriteConfFails ==
    /\ Step("conf", "rollback")
    /\ file.conf # Rendered
    /\ \E c \in {file.conf, Torn, Rendered} : file' = [file EXCEPT !.conf = c]
    /\ run' = [run EXCEPT !.confFailed = TRUE]
    /\ broken' = TRUE
    /\ UNCHANGED <<svc, keys>>

\* install_service: create the service or give it the current command line.
Register ==
    svc' = [svc EXCEPT !.at = IF @ = "absent" THEN "stopped" ELSE @, !.bin = "current"]

InstallService ==
    /\ Step("service", "stop")
    /\ Register
    /\ run' = [run EXCEPT !.binChanged = svc.at = "absent" \/ svc.bin # "current"]
    /\ UNCHANGED <<file, keys, broken>>

\* ... which fails before it does anything, or at the SID type.
InstallServiceFails ==
    /\ Step("service", "rollback")
    /\ Register \/ UNCHANGED svc
    /\ UNCHANGED <<file, keys, run, broken>>

\* Mutant: only a changed configuration restarts the service.
MustRestartForConf == run.changed /\ run.before = "running"

MustRestart == (run.changed \/ run.binChanged) /\ run.before = "running"

\* stop_service: the service stops within its 10 s.
Stopped == [svc EXCEPT !.at = "stopped", !.loaded = None]

StopForRestart ==
    /\ Step("stop", "start")
    /\ svc' = IF MustRestart THEN Stopped ELSE svc
    /\ UNCHANGED <<file, keys, run, broken>>

\* The service comes up with the configuration it finds.
Started == [svc EXCEPT !.at = "running", !.loaded = [conf |-> file.conf, bin |-> svc.bin]]

StartService ==
    /\ Step("start", "audit")
    /\ svc' = IF svc.at = "running" THEN svc ELSE Started
    /\ UNCHANGED <<file, keys, run, broken>>

\* It does not start, or it starts after the 10 s.
StartServiceFails ==
    /\ Step("start", "rollback")
    /\ svc.at # "running"
    /\ svc' \in {svc, Started}
    /\ UNCHANGED <<file, keys, run, broken>>

AuditRoutes(ok) ==
    /\ Step("audit", IF ok THEN "state" ELSE "rollback")
    /\ UNCHANGED <<file, svc, keys, run, broken>>

-----------------------------------------------------------------------------
(* The catch block, and save_state.                                        *)

Deleted == [svc EXCEPT !.at = "absent", !.loaded = None]

\* Mutant: a service that was there and stopped is left as it is.
UndoServiceCreated == svc' = IF run.before = "absent" THEN Deleted ELSE svc

UndoService ==
    \/ run.before = "absent" /\ svc' = Deleted
    \/ run.before = "stopped" /\ svc' = Stopped
    \/ run.before = "running" /\ UNCHANGED svc

\* Mutant: the configuration is not put back.
RollbackServiceOnly ==
    /\ Step("rollback", "failed")
    /\ UndoService
    /\ UNCHANGED <<file, keys, run, broken>>

RollbackService ==
    /\ Step("rollback", IF run.changed THEN "restore" ELSE "failed")
    /\ UndoService
    /\ UNCHANGED <<file, keys, run, broken>>

RestoreConf ==
    /\ Step("restore", "failed")
    /\ file' = [file EXCEPT !.conf = run.previous]
    /\ UNCHANGED <<svc, keys, run, broken>>

\* The exception leaves install_windows_tunnel.
Rethrow ==
    /\ Step("failed", "idle")
    /\ run' = None
    /\ UNCHANGED <<file, svc, keys, broken>>

SaveState ==
    /\ Step("state", "idle")
    /\ file' = [file EXCEPT !.state = Rendered]
    /\ run' = None
    /\ broken' = FALSE
    /\ UNCHANGED <<svc, keys>>

-----------------------------------------------------------------------------
(* uninstall, and what happens to the machine.                             *)

UninstallService ==
    /\ Step("idle", "removeConf")
    /\ svc' = Deleted
    /\ UNCHANGED <<file, keys, run, broken>>

\* DeleteFile, for one file after the other.
Remove(f, from, to) ==
    /\ Step(from, to)
    /\ file' = [file EXCEPT ![f] = None]
    /\ broken' = (broken /\ f # "state")
    /\ UNCHANGED <<svc, keys, run>>

\* The file write_secure_file would be called for now.
Writing ==
    {f \in {"identity", "pubkey", "conf", "state"} :
        \/ pc = f /\ (f = "conf" => file.conf # Rendered)
        \/ pc = "restore" /\ f = "conf" /\ run.previous # None}

\* The process dies, or an operation outside the try block throws.
Die ==
    /\ pc # "idle"
    /\ pc' = "idle"
    /\ UNCHANGED file \/ \E f \in Writing : file' = [file EXCEPT ![f] = Torn]
    /\ run' = None
    /\ broken' = TRUE
    /\ UNCHANGED <<svc, keys>>

\* The service is SERVICE_AUTO_START; a torn configuration it refuses.
Reboot ==
    /\ pc = "idle"
    /\ svc.at # "absent"
    /\ svc' = IF file.conf \in Conf THEN Started ELSE Stopped
    /\ UNCHANGED <<file, keys, pc, run, broken>>

UserStops ==
    /\ pc = "idle"
    /\ svc.at = "running"
    /\ svc' = Stopped
    /\ UNCHANGED <<file, keys, pc, run, broken>>

\* The program moves: what is registered, and running, is the old one.
Move ==
    /\ pc = "idle"
    /\ svc.at # "absent"
    /\ svc' = [svc EXCEPT !.bin = "old",
                          !.loaded = IF svc.at = "running" THEN [@ EXCEPT !.bin = "old"] ELSE @]
    /\ UNCHANGED <<file, keys, pc, run, broken>>

Install ==
    \/ \E s \in Server : LoadIdentity(s) \/ CreateIdentity(s)
    \/ WriteIdentity \/ WritePubkey
    \/ WriteConf \/ WriteConfFails
    \/ InstallService \/ InstallServiceFails
    \/ StopForRestart \/ StartService \/ StartServiceFails
    \/ \E ok \in BOOLEAN : AuditRoutes(ok)
    \/ RollbackService \/ RestoreConf \/ Rethrow
    \/ SaveState

Uninstall ==
    \/ UninstallService
    \/ Remove("conf", "removeConf", "removeState")
    \/ \E next \in {"idle", "removeIdentity"} : Remove("state", "removeState", next)
    \/ Remove("identity", "removeIdentity", "removePubkey")
    \/ Remove("pubkey", "removePubkey", "idle")

Next == Install \/ Uninstall \/ Die \/ Reboot \/ UserStops \/ Move

Spec == Init /\ [][Next]_vars

-----------------------------------------------------------------------------
(* Properties.                                                             *)

File(S) == S \cup {None, Torn}

\* The files and the service are in states the operations can produce.
TypeOK ==
    /\ file \in [identity : File(Key), pubkey : File(Key), conf : File(Conf), state : File(Conf)]
    /\ svc \in [at : {"absent", "stopped", "running"}, bin : Binary,
                loaded : [conf : Conf, bin : Binary] \cup {None}]
    /\ svc.loaded # None <=> svc.at = "running"
    /\ keys \in 0 .. MaxKey
    /\ broken \in BOOLEAN

\* Whatever was interrupted, two identity files that can be read are the two
\* halves of one key pair: load_or_create_identity never goes on with a
\* private key and the public key of another one.
IdentityIsAPair ==
    file.identity \in Key /\ file.pubkey \in Key => file.identity = file.pubkey

\* A run that gets as far as save_state, and found the service running what
\* was on disk, leaves it running the configuration it has rendered, from the
\* current program: all that changed has been loaded.
InstallTakesEffect ==
    pc = "state" /\ run.coherent =>
        svc.at = "running" /\ svc.loaded = [conf |-> Rendered, bin |-> "current"]

\* A failed run puts back what was there: no service if there was none, a
\* service at rest if it was at rest, and the configuration of before unless
\* it was the writing of it that failed.
RollbackRestores ==
    pc = "failed" =>
        /\ run.before # "running" => svc.at = run.before
        /\ ~run.confFailed => file.conf = run.previous

\* Between runs the state file tells what the configuration says, unless a
\* process died half-way or failed to write the configuration.
StateTellsConf == pc = "idle" /\ ~broken => file.state = file.conf

\* install_windows_tunnel happens as a whole: a success is loaded, a failure
\* is undone, and the state file follows the configuration.
InstallIsWhole == InstallTakesEffect /\ RollbackRestores /\ StateTellsConf

=============================================================================
