--------------------------- MODULE PairingProofs ----------------------------
(***************************************************************************)
(* Proofs about the pairing of this PC with a Mac: TunnelInstall, the      *)
(* steps that write the WireGuard tunnel and undo it; and PairingWizard,   *)
(* the dialogs and the worker that set a pairing up and remove it.         *)
(***************************************************************************)
EXTENDS TunnelInstall, PairingWizard, TLAPS

-----------------------------------------------------------------------------
(* TunnelInstall, for any set of Macs and any number of identities.  The   *)
(* inductive invariant says, for each place the process can be at, what it *)
(* has done so far: which files are written (Written), what the service    *)
(* has been given (Given) and what is left to put back (Kept).             *)

Running == {"conf", "service", "stop", "start", "audit", "rollback", "restore", "failed", "state"}
Creating == {"identity", "pubkey"}
Removing == {"removeConf", "removeState", "removeIdentity", "removePubkey"}

Locals == [srv : Server, key : Key, before : {"absent", "stopped", "running"},
           previous : File(Conf), changed : BOOLEAN, binChanged : BOOLEAN,
           coherent : BOOLEAN, confFailed : BOOLEAN]

\* The process is somewhere in the code, with its locals assigned.
Placed ==
    /\ pc \in {"idle"} \cup Creating \cup Running \cup Removing
    /\ pc \in Creating \cup Running => run \in Locals

\* The identity files while they are made, and in between.
Written ==
    /\ IdentityIsAPair
    /\ pc = "identity" => file.identity = None /\ file.pubkey = None
    /\ pc = "pubkey" => file.identity = run.key /\ file.pubkey = None

\* Until the service is touched it is as it was; what it runs, once a run
\* that found it coherent has come past the start, is what is on disk.
Given ==
    /\ pc \in Creating \cup {"conf", "service"} => svc.at = run.before
    /\ pc \in Creating \cup {"conf"} /\ run.coherent => Coherent
    /\ pc = "stop" => (svc.at = "running" <=> run.before = "running")
    /\ pc \in {"service", "stop", "start", "audit", "state"} => file.conf = Rendered
    /\ pc \in {"stop", "start", "audit", "state"} => svc.bin = "current"
    /\ pc = "service" /\ run.coherent /\ ~run.changed => Coherent
    /\ pc = "stop" /\ run.coherent /\ ~run.changed /\ ~run.binChanged => Coherent
    /\ pc \in {"start", "audit", "state"} /\ run.coherent => Coherent
    /\ pc \in {"audit", "state"} => svc.at = "running"

\* What a failed run has to put back, and what the state file tells.
Kept ==
    /\ pc \in Creating \cup {"conf"} => file.conf = run.previous /\ ~run.changed
    /\ pc \in Creating \cup (Running \ {"rollback", "failed"}) => ~run.confFailed
    /\ pc \in {"service", "stop", "start", "audit", "rollback"} /\ ~run.changed /\ ~run.confFailed
         => file.conf = run.previous
    /\ pc = "rollback" => ~(run.changed /\ run.confFailed)
    /\ pc = "restore" /\ run.before # "running" => svc.at = run.before
    /\ RollbackRestores
    /\ pc \in Creating \cup (Running \ {"state"}) /\ ~broken
         => file.state = run.previous /\ ~run.confFailed
    /\ pc = "removeState" => file.conf = None
    /\ pc \in {"idle", "removeIdentity", "removePubkey"} /\ ~broken => file.state = file.conf

Inv ==
    /\ TypeOK
    /\ Placed
    /\ Written
    /\ Given
    /\ Kept

\* The invariant holds at the start.
LEMMA InitInv == Init => Inv
<1> SUFFICES ASSUME Init PROVE Inv
  OBVIOUS
<1> USE InstallAssumption DEF Init, Creating, Running, Removing
<1>1. TypeOK
  <2>1. None \in File(Key) /\ None \in File(Conf) /\ "current" \in Binary /\ keys \in 0 .. MaxKey
    BY DEF File, Binary
  <2> QED BY Zenon, <2>1 DEF TypeOK
<1>2. Placed /\ Written
  BY Zenon DEF Placed, Written, IdentityIsAPair, Key
<1>3. Given /\ Kept
  BY Zenon DEF Given, Kept, RollbackRestores
<1> QED BY Zenon, <1>1, <1>2, <1>3 DEF Inv

\* Every operation of install_windows_tunnel, failed or not, keeps it.
LEMMA InstallInv == Inv /\ Install => Inv'
<1> SUFFICES ASSUME Inv, Install PROVE Inv'
  OBVIOUS
<1> USE InstallAssumption DEF Inv, Step, Creating, Running, Removing
<1>1. ASSUME NEW s \in Server, LoadIdentity(s) PROVE Inv'
  <2>1. TypeOK'
    BY Zenon, <1>1 DEF LoadIdentity, Begin, TypeOK
  <2>2. Placed'
    <3>1. Coherent \in BOOLEAN
      BY Zenon DEF Coherent
    <3> QED BY Zenon, <1>1, <3>1 DEF LoadIdentity, Begin, Placed, Locals, TypeOK, File
  <2>3. Written'
    BY Zenon, <1>1 DEF LoadIdentity, Begin, Written, IdentityIsAPair
  <2>4. Given'
    BY Zenon, <1>1 DEF LoadIdentity, Begin, Given, Coherent
  <2>5. Kept'
    BY Zenon, <1>1 DEF LoadIdentity, Begin, Kept, RollbackRestores
  <2> QED BY Zenon, <2>1, <2>2, <2>3, <2>4, <2>5
<1>2. ASSUME NEW s \in Server, CreateIdentity(s) PROVE Inv'
  <2>1. TypeOK'
    BY <1>2 DEF CreateIdentity, Begin, Fresh, TypeOK
  <2>2. Placed'
    <3>1. Coherent \in BOOLEAN
      BY Zenon DEF Coherent
    <3> QED BY <1>2, <3>1 DEF CreateIdentity, Begin, Fresh, Placed, Locals, TypeOK, File, Key
  <2>3. Written'
    BY Zenon, <1>2 DEF CreateIdentity, Begin, Fresh, Written, IdentityIsAPair
  <2>4. Given'
    BY Zenon, <1>2 DEF CreateIdentity, Begin, Fresh, Given, Coherent
  <2>5. Kept'
    BY Zenon, <1>2 DEF CreateIdentity, Begin, Fresh, Kept, RollbackRestores
  <2> QED BY Zenon, <2>1, <2>2, <2>3, <2>4, <2>5
<1>3. CASE WriteIdentity
  <2>1. TypeOK'
    BY Zenon, <1>3 DEF WriteIdentity, TypeOK, File, Placed, Locals
  <2>2. Placed'
    BY Zenon, <1>3 DEF WriteIdentity, Placed
  <2>3. Written'
    BY <1>3 DEF WriteIdentity, Written, IdentityIsAPair
  <2>4. Given'
    BY <1>3 DEF WriteIdentity, Given, Coherent
  <2>5. Kept'
    BY <1>3 DEF WriteIdentity, Kept, RollbackRestores
  <2> QED BY Zenon, <2>1, <2>2, <2>3, <2>4, <2>5
<1>4. CASE WritePubkey
  <2>1. TypeOK'
    BY Zenon, <1>4 DEF WritePubkey, TypeOK, File, Placed, Locals
  <2>2. Placed'
    BY Zenon, <1>4 DEF WritePubkey, Placed
  <2>3. Written'
    BY <1>4 DEF WritePubkey, Written, IdentityIsAPair
  <2>4. Given'
    BY <1>4 DEF WritePubkey, Given, Coherent
  <2>5. Kept'
    BY <1>4 DEF WritePubkey, Kept, RollbackRestores
  <2> QED BY Zenon, <2>1, <2>2, <2>3, <2>4, <2>5
<1>5. CASE WriteConf
  <2>1. TypeOK'
    BY Zenon, <1>5 DEF WriteConf, TypeOK, File, Binary, Placed, Locals, Rendered, Conf
  <2>2. Placed'
    BY Zenon, <1>5 DEF WriteConf, Placed, Locals
  <2>3. Written'
    BY <1>5 DEF WriteConf, Written, IdentityIsAPair
  <2>4. Given'
    BY Zenon, <1>5 DEF WriteConf, Given, Coherent, Rendered, TypeOK, Placed, Locals
  <2>5. Kept'
    BY Zenon, <1>5 DEF WriteConf, Kept, RollbackRestores, TypeOK, Placed, Locals
  <2> QED BY Zenon, <2>1, <2>2, <2>3, <2>4, <2>5
<1>6. CASE WriteConfFails
  <2>1. TypeOK'
    BY <1>6 DEF WriteConfFails, TypeOK, File, Binary, Placed, Locals, Rendered, Conf
  <2>2. Placed'
    BY Zenon, <1>6 DEF WriteConfFails, Placed, Locals
  <2>3. Written'
    BY <1>6 DEF WriteConfFails, Written, IdentityIsAPair
  <2>4. Given'
    BY Zenon, <1>6 DEF WriteConfFails, Given
  <2>5. Kept'
    BY <1>6 DEF WriteConfFails, Kept, RollbackRestores
  <2> QED BY Zenon, <2>1, <2>2, <2>3, <2>4, <2>5
<1>7. CASE InstallService
  <2>1. TypeOK'
    BY Zenon, <1>7 DEF InstallService, Register, TypeOK, Binary
  <2>2. Placed'
    BY Zenon, <1>7 DEF InstallService, Register, Placed, Locals
  <2>3. Written'
    BY Zenon, <1>7 DEF InstallService, Register, Written, IdentityIsAPair
  <2>4. Given'
    BY Zenon, <1>7 DEF InstallService, Register, Given, Coherent, Rendered, TypeOK, Placed, Locals
  <2>5. Kept'
    BY <1>7 DEF InstallService, Register, Kept, RollbackRestores
  <2> QED BY Zenon, <2>1, <2>2, <2>3, <2>4, <2>5
<1>8. CASE InstallServiceFails
  <2>1. TypeOK'
    BY Zenon, <1>8 DEF InstallServiceFails, Register, TypeOK, Binary
  <2>2. Placed'
    BY <1>8 DEF InstallServiceFails, Register, Placed
  <2>3. Written'
    BY Zenon, <1>8 DEF InstallServiceFails, Register, Written, IdentityIsAPair
  <2>4. Given'
    BY Zenon, <1>8 DEF InstallServiceFails, Register, Given
  <2>5. Kept'
    BY Zenon, <1>8 DEF InstallServiceFails, Register, Kept, RollbackRestores
  <2> QED BY Zenon, <2>1, <2>2, <2>3, <2>4, <2>5
<1>9. CASE StopForRestart
  <2>1. TypeOK'
    BY Zenon, <1>9 DEF StopForRestart, MustRestart, Stopped, TypeOK
  <2>2. Placed'
    BY Zenon, <1>9 DEF StopForRestart, MustRestart, Stopped, Placed
  <2>3. Written'
    BY Zenon, <1>9 DEF StopForRestart, MustRestart, Stopped, Written, IdentityIsAPair
  <2>4. Given'
    BY <1>9 DEF StopForRestart, MustRestart, Stopped, Given, Coherent, Rendered
  <2>5. Kept'
    BY Zenon, <1>9 DEF StopForRestart, MustRestart, Stopped, Kept, RollbackRestores
  <2> QED BY Zenon, <2>1, <2>2, <2>3, <2>4, <2>5
<1>10. CASE StartService
  <2>1. TypeOK'
    <3>1. file.conf \in Conf
      BY <1>10 DEF StartService, Started, Given, Rendered, Placed, Locals, Conf
    <3>2. [conf |-> file.conf, bin |-> svc.bin] \in [conf : Conf, bin : Binary]
      BY Zenon, <3>1 DEF TypeOK
    <3> QED BY Zenon, <1>10, <3>2 DEF StartService, Started, TypeOK
  <2>2. Placed'
    BY Zenon, <1>10 DEF StartService, Started, Placed
  <2>3. Written'
    BY Zenon, <1>10 DEF StartService, Started, Written, IdentityIsAPair
  <2>4. Given'
    BY <1>10 DEF StartService, Started, Given, Coherent, Rendered
  <2>5. Kept'
    BY Zenon, <1>10 DEF StartService, Started, Kept, RollbackRestores
  <2> QED BY Zenon, <2>1, <2>2, <2>3, <2>4, <2>5
<1>11. CASE StartServiceFails
  <2>1. TypeOK'
    <3>1. file.conf \in Conf
      BY <1>11 DEF StartServiceFails, Started, Given, Rendered, Placed, Locals, Conf
    <3>2. [conf |-> file.conf, bin |-> svc.bin] \in [conf : Conf, bin : Binary]
      BY Zenon, <3>1 DEF TypeOK
    <3> QED BY Zenon, <1>11, <3>2 DEF StartServiceFails, Started, TypeOK
  <2>2. Placed'
    BY Zenon, <1>11 DEF StartServiceFails, Started, Placed
  <2>3. Written'
    BY Zenon, <1>11 DEF StartServiceFails, Started, Written, IdentityIsAPair
  <2>4. Given'
    BY Zenon, <1>11 DEF StartServiceFails, Started, Given
  <2>5. Kept'
    BY Zenon, <1>11 DEF StartServiceFails, Started, Kept, RollbackRestores
  <2> QED BY Zenon, <2>1, <2>2, <2>3, <2>4, <2>5
<1>12. ASSUME NEW ok \in BOOLEAN, AuditRoutes(ok) PROVE Inv'
  <2>1. TypeOK'
    BY Zenon, <1>12 DEF AuditRoutes, TypeOK
  <2>2. Placed'
    BY Zenon, <1>12 DEF AuditRoutes, Placed
  <2>3. Written'
    BY Zenon, <1>12 DEF AuditRoutes, Written, IdentityIsAPair
  <2>4. Given'
    BY Zenon, <1>12 DEF AuditRoutes, Given, Coherent, Rendered
  <2>5. Kept'
    BY Zenon, <1>12 DEF AuditRoutes, Kept, RollbackRestores
  <2> QED BY Zenon, <2>1, <2>2, <2>3, <2>4, <2>5
<1>13. CASE RollbackService
  <2>1. TypeOK'
    BY Zenon, <1>13 DEF RollbackService, UndoService, Deleted, Stopped, TypeOK, Binary
  <2>2. Placed'
    BY Zenon, <1>13 DEF RollbackService, UndoService, Deleted, Stopped, Placed
  <2>3. Written'
    BY Zenon, <1>13 DEF RollbackService, UndoService, Deleted, Stopped, Written, IdentityIsAPair
  <2>4. Given'
    BY Zenon, <1>13 DEF RollbackService, UndoService, Deleted, Stopped, Given
  <2>5. Kept'
    BY Zenon, <1>13 DEF RollbackService, UndoService, Deleted, Stopped, Kept, RollbackRestores, TypeOK
  <2> QED BY Zenon, <2>1, <2>2, <2>3, <2>4, <2>5
<1>14. CASE RestoreConf
  <2>1. TypeOK'
    BY Zenon, <1>14 DEF RestoreConf, TypeOK, Placed, Locals
  <2>2. Placed'
    BY Zenon, <1>14 DEF RestoreConf, Placed
  <2>3. Written'
    BY <1>14 DEF RestoreConf, Written, IdentityIsAPair
  <2>4. Given'
    BY Zenon, <1>14 DEF RestoreConf, Given
  <2>5. Kept'
    BY <1>14 DEF RestoreConf, Kept, RollbackRestores
  <2> QED BY Zenon, <2>1, <2>2, <2>3, <2>4, <2>5
<1>15. CASE Rethrow
  <2>1. TypeOK'
    BY Zenon, <1>15 DEF Rethrow, TypeOK
  <2>2. Placed'
    BY Zenon, <1>15 DEF Rethrow, Placed
  <2>3. Written'
    BY Zenon, <1>15 DEF Rethrow, Written, IdentityIsAPair
  <2>4. Given'
    BY Zenon, <1>15 DEF Rethrow, Given
  <2>5. Kept'
    BY Zenon, <1>15 DEF Rethrow, Kept, RollbackRestores
  <2> QED BY Zenon, <2>1, <2>2, <2>3, <2>4, <2>5
<1>16. CASE SaveState
  <2>1. TypeOK'
    BY Zenon, <1>16 DEF SaveState, TypeOK, File, Binary, Placed, Locals, Rendered, Conf
  <2>2. Placed'
    BY Zenon, <1>16 DEF SaveState, Placed
  <2>3. Written'
    BY <1>16 DEF SaveState, Written, IdentityIsAPair
  <2>4. Given'
    BY Zenon, <1>16 DEF SaveState, Given
  <2>5. Kept'
    BY Zenon, <1>16 DEF SaveState, Kept, RollbackRestores, Given, Rendered, TypeOK
  <2> QED BY Zenon, <2>1, <2>2, <2>3, <2>4, <2>5
<1> QED
  BY Zenon, <1>1, <1>2, <1>3, <1>4, <1>5, <1>6, <1>7, <1>8, <1>9, <1>10, <1>11, <1>12, <1>13, <1>14,
                                        <1>15, <1>16 DEF Install

\* uninstall keeps it, with or without the identity.
LEMMA UninstallInv == Inv /\ Uninstall => Inv'
<1> SUFFICES ASSUME Inv, Uninstall PROVE Inv'
  OBVIOUS
<1> USE InstallAssumption DEF Inv, Step, Creating, Running, Removing
<1>1. CASE UninstallService
  <2>1. TypeOK'
    BY Zenon, <1>1 DEF UninstallService, Deleted, TypeOK
  <2>2. Placed'
    BY Zenon, <1>1 DEF UninstallService, Deleted, Placed
  <2>3. Written'
    BY Zenon, <1>1 DEF UninstallService, Deleted, Written, IdentityIsAPair
  <2>4. Given'
    BY Zenon, <1>1 DEF UninstallService, Deleted, Given
  <2>5. Kept'
    BY Zenon, <1>1 DEF UninstallService, Deleted, Kept, RollbackRestores
  <2> QED BY Zenon, <2>1, <2>2, <2>3, <2>4, <2>5
<1>2. CASE Remove("conf", "removeConf", "removeState")
  <2>1. TypeOK'
    BY Zenon, <1>2 DEF Remove, TypeOK, File
  <2>2. Placed'
    BY Zenon, <1>2 DEF Remove, Placed
  <2>3. Written'
    BY <1>2 DEF Remove, Written, IdentityIsAPair
  <2>4. Given'
    BY Zenon, <1>2 DEF Remove, Given
  <2>5. Kept'
    BY Zenon, <1>2 DEF Remove, Kept, RollbackRestores, TypeOK
  <2> QED BY Zenon, <2>1, <2>2, <2>3, <2>4, <2>5
<1>3. ASSUME NEW next \in {"idle", "removeIdentity"}, Remove("state", "removeState", next) PROVE Inv'
  <2>1. TypeOK'
    BY Zenon, <1>3 DEF Remove, TypeOK, File
  <2>2. Placed'
    BY Zenon, <1>3 DEF Remove, Placed
  <2>3. Written'
    BY <1>3 DEF Remove, Written, IdentityIsAPair
  <2>4. Given'
    BY Zenon, <1>3 DEF Remove, Given
  <2>5. Kept'
    BY Zenon, <1>3 DEF Remove, Kept, RollbackRestores, TypeOK
  <2> QED BY Zenon, <2>1, <2>2, <2>3, <2>4, <2>5
<1>4. CASE Remove("identity", "removeIdentity", "removePubkey")
  <2>1. TypeOK'
    BY Zenon, <1>4 DEF Remove, TypeOK, File
  <2>2. Placed'
    BY Zenon, <1>4 DEF Remove, Placed
  <2>3. Written'
    BY <1>4 DEF Remove, Written, IdentityIsAPair
  <2>4. Given'
    BY Zenon, <1>4 DEF Remove, Given
  <2>5. Kept'
    BY Zenon, <1>4 DEF Remove, Kept, RollbackRestores, TypeOK
  <2> QED BY Zenon, <2>1, <2>2, <2>3, <2>4, <2>5
<1>5. CASE Remove("pubkey", "removePubkey", "idle")
  <2>1. TypeOK'
    BY Zenon, <1>5 DEF Remove, TypeOK, File
  <2>2. Placed'
    BY Zenon, <1>5 DEF Remove, Placed
  <2>3. Written'
    BY <1>5 DEF Remove, Written, IdentityIsAPair
  <2>4. Given'
    BY Zenon, <1>5 DEF Remove, Given
  <2>5. Kept'
    BY Zenon, <1>5 DEF Remove, Kept, RollbackRestores, TypeOK
  <2> QED BY Zenon, <2>1, <2>2, <2>3, <2>4, <2>5
<1> QED
  BY Zenon, <1>1, <1>2, <1>3, <1>4, <1>5 DEF Uninstall

\* A death at any place, and what the machine does between runs, keep it.
LEMMA MachineInv ==
  ASSUME Inv, Die \/ Reboot \/ UserStops \/ Move \/ UNCHANGED vars
  PROVE  Inv'
<1> USE InstallAssumption DEF Inv, Step, Creating, Running, Removing
<1>1. CASE Die
  <2>1. TypeOK'
    BY <1>1 DEF Die, Writing, TypeOK, File
  <2>2. Placed'
    BY Zenon, <1>1 DEF Die, Placed
  <2>3. Written'
    BY Zenon, <1>1 DEF Die, Writing, Written, IdentityIsAPair, TypeOK
  <2>4. Given'
    BY Zenon, <1>1 DEF Die, Given
  <2>5. Kept'
    BY Zenon, <1>1 DEF Die, Kept, RollbackRestores
  <2> QED BY Zenon, <2>1, <2>2, <2>3, <2>4, <2>5
<1>2. CASE Reboot
  <2>1. TypeOK'
    <3>1. file.conf \in Conf => [conf |-> file.conf, bin |-> svc.bin] \in [conf : Conf, bin : Binary]
      BY Zenon DEF TypeOK
    <3> QED BY Zenon, <1>2, <3>1 DEF Reboot, Started, Stopped, TypeOK
  <2>2. Placed'
    BY Zenon, <1>2 DEF Reboot, Started, Stopped, Placed
  <2>3. Written'
    BY Zenon, <1>2 DEF Reboot, Started, Stopped, Written, IdentityIsAPair
  <2>4. Given'
    BY Zenon, <1>2 DEF Reboot, Started, Stopped, Given
  <2>5. Kept'
    BY Zenon, <1>2 DEF Reboot, Started, Stopped, Kept, RollbackRestores
  <2> QED BY Zenon, <2>1, <2>2, <2>3, <2>4, <2>5
<1>3. CASE UserStops
  <2>1. TypeOK'
    BY Zenon, <1>3 DEF UserStops, Stopped, TypeOK
  <2>2. Placed'
    BY Zenon, <1>3 DEF UserStops, Stopped, Placed
  <2>3. Written'
    BY Zenon, <1>3 DEF UserStops, Stopped, Written, IdentityIsAPair
  <2>4. Given'
    BY Zenon, <1>3 DEF UserStops, Stopped, Given
  <2>5. Kept'
    BY Zenon, <1>3 DEF UserStops, Stopped, Kept, RollbackRestores
  <2> QED BY Zenon, <2>1, <2>2, <2>3, <2>4, <2>5
<1>4. CASE Move
  <2>1. TypeOK'
    <3>1. svc.loaded # None => [svc.loaded EXCEPT !.bin = "old"] \in [conf : Conf, bin : Binary]
      BY Zenon DEF TypeOK, Binary
    <3>2. "old" \in Binary
      BY Zenon DEF Binary
    <3> QED BY Zenon, <1>4, <3>1, <3>2 DEF Move, TypeOK
  <2>2. Placed'
    BY Zenon, <1>4 DEF Move, Placed
  <2>3. Written'
    BY Zenon, <1>4 DEF Move, Written, IdentityIsAPair
  <2>4. Given'
    BY Zenon, <1>4 DEF Move, Given
  <2>5. Kept'
    BY Zenon, <1>4 DEF Move, Kept, RollbackRestores
  <2> QED BY Zenon, <2>1, <2>2, <2>3, <2>4, <2>5
<1>5. CASE UNCHANGED vars
  <2>1. TypeOK'
    BY Zenon, <1>5 DEF vars, TypeOK
  <2>2. Placed'
    BY Zenon, <1>5 DEF vars, Placed
  <2>3. Written'
    BY Zenon, <1>5 DEF vars, Written, IdentityIsAPair
  <2>4. Given'
    BY Zenon, <1>5 DEF vars, Given, Coherent, Rendered
  <2>5. Kept'
    BY Zenon, <1>5 DEF vars, Kept, RollbackRestores
  <2> QED BY Zenon, <2>1, <2>2, <2>3, <2>4, <2>5
<1> QED
  BY Zenon, <1>1, <1>2, <1>3, <1>4, <1>5

\* The invariant holds throughout.
LEMMA InductiveInv == Spec => []Inv
<1>1. Inv /\ [Next]_vars => Inv'
  BY Zenon, InstallInv, UninstallInv, MachineInv DEF Next
<1> QED BY <1>1, InitInv, PTL DEF Spec

\* The files and the service stay in the states the operations produce.
THEOREM TypeCorrect == Spec => []TypeOK
<1>1. Inv => TypeOK
  BY Zenon DEF Inv
<1> QED BY <1>1, InductiveInv, PTL

\* load_or_create_identity never goes on with halves of two key pairs,
\* whatever was interrupted, reset and made again before.
THEOREM IdentityPairs == Spec => []IdentityIsAPair
<1>1. Inv => IdentityIsAPair
  BY Zenon DEF Inv, Written
<1> QED BY <1>1, InductiveInv, PTL

\* An installation that succeeds on a coherent service has been loaded.
THEOREM TakesEffect == Spec => []InstallTakesEffect
<1>1. Inv => InstallTakesEffect
  BY Zenon DEF Inv, Given, Coherent, InstallTakesEffect
<1> QED BY <1>1, InductiveInv, PTL

\* The catch block of install_windows_tunnel puts back what it promises.
THEOREM RollsBack == Spec => []RollbackRestores
<1>1. Inv => RollbackRestores
  BY Zenon DEF Inv, Kept
<1> QED BY <1>1, InductiveInv, PTL

\* The state file follows the configuration through failures and rollbacks.
THEOREM StateFollows == Spec => []StateTellsConf
<1>1. Inv => StateTellsConf
  BY Zenon DEF Inv, Kept, StateTellsConf
<1> QED BY <1>1, InductiveInv, PTL

\* install_windows_tunnel as a whole: the three together.
THEOREM InstallsWholly == Spec => []InstallIsWhole
<1>1. InstallTakesEffect /\ RollbackRestores /\ StateTellsConf => InstallIsWhole
  BY Zenon DEF InstallIsWhole
<1> QED BY <1>1, TakesEffect, RollsBack, StateFollows, PTL

-----------------------------------------------------------------------------
(* PairingWizard.  The invariant says, for each step run_setup comes to,   *)
(* what the Mac, the tunnel and the settings are there.                    *)

Before == {"dial", "signin", "tmp", "copy", "preflight", "init"}
Between == {"install", "pair"}
After == {"save", "sharing", "verify", "probe"}
AtEnd == {"cleanup", "finished"}
SetupAt == Before \cup Between \cup After \cup {"rollback"} \cup AtEnd
UnpairAt == {"unMac", "unPc", "unSettings", "unDone"}

MacStates == [init : BOOLEAN, peer : BOOLEAN]

WorkerStates ==
    [at : SetupAt \cup UnpairAt \cup {"idle"}, busy : BOOLEAN, m : Mac \cup {NoMac},
     rollback : BOOLEAN, said : {"", "nothing", "restored", "stuck"}, ok : BOOLEAN]

DlgStates == [running : BOOLEAN, doneOk : BOOLEAN, closeOk : BOOLEAN, cancel : BOOLEAN]
CheckStates ==
    [thread : {"none", "running", "ended"}, posted : 0 .. 2, checking : BOOLEAN, haveStatus : BOOLEAN]
HistStates == [before : MacStates, initFailed : BOOLEAN, undoFailed : BOOLEAN, changing : BOOLEAN]

PwShape ==
    /\ mac \in [Mac -> MacStates]
    /\ tunnel \in Mac \cup {NoMac} /\ settings \in Mac \cup {NoMac}
    /\ page \in {"main", "setup", "connect", "exit"}
    /\ dlg \in DlgStates
    /\ w \in WorkerStates
    /\ hist \in HistStates

PwWhere ==
    /\ w.at \in UnpairAt => page = "connect" /\ hist.changing
    /\ w.at \in SetupAt => page = "setup" /\ dlg.running /\ w.m \in Mac

PwCheck ==
    /\ check \in CheckStates
    /\ page # "connect" => check = NoCheck
    /\ check.thread = "running" => check.posted <= 1 /\ ~check.haveStatus /\ check.checking
    /\ ~check.checking /\ w.at = "idle" => check.posted <= 1

PwRun ==
    /\ w.at \in Before => mac[w.m] = hist.before /\ ~w.rollback
    /\ w.at \in Between => mac[w.m].init /\ w.rollback
    /\ w.at \in After => mac[w.m].init /\ mac[w.m].peer /\ ~w.rollback
    /\ w.at \in {"pair"} \cup After => tunnel = w.m
    /\ w.at \in After \ {"save"} => settings = w.m
    /\ w.at \in Before \cup Between \cup {"save", "rollback"} => hist.changing \/ settings = NoMac
    /\ w.at \in SetupAt \ AtEnd => ~w.ok
    /\ w.at \in AtEnd => /\ Blocked(w.m) => w.said = "stuck" \/ hist.initFailed \/ hist.before.init
                         /\ w.ok => Paired(w.m) /\ settings = w.m

PwInv == PwShape /\ PwWhere /\ PwCheck /\ PwRun /\ SavedMeansPaired

\* The steps of run_setup one after the other.
LEMMA NextSteps ==
  /\ NextStep("dial") = "signin" /\ NextStep("signin") = "tmp" /\ NextStep("tmp") = "copy"
  /\ NextStep("copy") = "preflight" /\ NextStep("preflight") = "init" /\ NextStep("init") = "install"
  /\ NextStep("install") = "pair" /\ NextStep("pair") = "save" /\ NextStep("save") = "sharing"
  /\ NextStep("sharing") = "verify" /\ NextStep("verify") = "probe"
<1>1. \A l, n : \A k \in 1 .. 11 : l = Order[k] /\ n = Order[k + 1] => NextStep(l) = n
  <2> SUFFICES ASSUME NEW k \in 1 .. 11 PROVE NextStep(Order[k]) = Order[k + 1]
    OBVIOUS
  <2>1. k \in 1 .. Len(Order) /\ \A i \in 1 .. Len(Order) : Order[i] = Order[k] => i = k
    BY DEF Order
  <2>2. (CHOOSE i \in 1 .. Len(Order) : Order[i] = Order[k]) = k
    BY Zenon, <2>1
  <2>3. NextStep(Order[k]) = Order[1 + k]
    BY Zenon, <2>2 DEF NextStep
  <2>4. 1 + k = k + 1
    OBVIOUS
  <2> QED BY Zenon, <2>3, <2>4
<1>2. /\ Order[1] = "dial" /\ Order[2] = "signin" /\ Order[3] = "tmp" /\ Order[4] = "copy"
      /\ Order[5] = "preflight" /\ Order[6] = "init" /\ Order[7] = "install" /\ Order[8] = "pair"
      /\ Order[9] = "save" /\ Order[10] = "sharing" /\ Order[11] = "verify" /\ Order[12] = "probe"
  BY Zenon DEF Order
<1> QED BY <1>1, <1>2

\* What the next step finds: the worker goes on, with the flag that the Mac needs undoing.
LEMMA Advances ==
  ASSUME PwShape, w.at \in (Before \cup Between \cup After) \ {"probe"}, Advance
  PROVE  /\ w' \in WorkerStates
         /\ w'.at = NextStep(w.at) /\ w'.m = w.m /\ w'.ok = w.ok
         /\ w'.rollback <=> w.at # "pair" /\ (w.at = "init" \/ w.rollback)
<1> DEFINE b == NextStep(w.at) \in NoStep
           r == IF w.at = "pair" THEN FALSE ELSE w.at = "init" \/ w.rollback
<1>1. w' = [w EXCEPT !.at = NextStep(w.at), !.busy = b, !.rollback = r]
  BY Zenon DEF Advance
<1>2. NextStep(w.at) \in Before \cup Between \cup After /\ w \in WorkerStates
  <2>1. \A l \in (Before \cup Between \cup After) \ {"probe"} : NextStep(l) \in Before \cup Between \cup After
    BY Zenon, NextSteps DEF Before, Between, After
  <2> QED BY Zenon, <2>1 DEF PwShape
<1>3. b \in BOOLEAN /\ r \in BOOLEAN
  <2>1. w.rollback \in BOOLEAN
    BY Zenon, <1>2 DEF WorkerStates
  <2>2. r \in BOOLEAN
    BY Zenon, <2>1
  <2>3. b \in BOOLEAN
    OBVIOUS
  <2> QED BY Zenon, <2>2, <2>3
<1> HIDE DEF b, r
<1>4. w' \in WorkerStates
  BY Zenon, <1>1, <1>2, <1>3 DEF WorkerStates, SetupAt
<1> QED BY Zenon, <1>1, <1>2, <1>4 DEF WorkerStates, r

\* What a catch block does to the worker.
LEMMA Throws ==
  ASSUME PwShape, NEW undo \in BOOLEAN, Throw(undo)
  PROVE  /\ w' \in WorkerStates
         /\ w'.at = IF undo THEN "rollback" ELSE "cleanup"
         /\ w'.m = w.m /\ w'.ok = w.ok
<1> DEFINE a == IF undo THEN "rollback" ELSE "cleanup"
           s == IF undo THEN "" ELSE "nothing"
<1>1. w' = [w EXCEPT !.at = a, !.busy = FALSE, !.said = s] /\ w \in WorkerStates
  BY Zenon DEF Throw, PwShape
<1>2. a \in SetupAt /\ s \in {"", "nothing", "restored", "stuck"}
  BY Zenon DEF SetupAt, AtEnd
<1> HIDE DEF a, s
<1>3. w' \in WorkerStates
  BY Zenon, <1>1, <1>2 DEF WorkerStates
<1> QED BY Zenon, <1>1, <1>3 DEF WorkerStates, a

\* What a command that takes effect does to the Macs.
LEMMA RemoteIs ==
  ASSUME PwShape, w.m \in Mac, NEW l, Remote(l)
  PROVE  /\ mac' \in [Mac -> MacStates]
         /\ mac'[w.m] = Effect(l, mac[w.m])
         /\ \A m \in Mac : m # w.m => mac'[m] = mac[m]
<1>1. mac \in [Mac -> MacStates] /\ mac[w.m] \in MacStates
  BY Zenon DEF PwShape
<1>2. [mac[w.m] EXCEPT !.init = TRUE] \in MacStates /\ Clean \in MacStates
  BY Zenon, <1>1 DEF MacStates, Clean
<1>3. [mac[w.m] EXCEPT !.peer = mac[w.m].init] \in MacStates
  <2>1. mac[w.m].init \in BOOLEAN
    BY Zenon, <1>1 DEF MacStates
  <2> QED BY Zenon, <1>1, <2>1 DEF MacStates
<1>4. Effect(l, mac[w.m]) \in MacStates
  BY Zenon, <1>1, <1>2, <1>3 DEF Effect
<1>5. mac' = [mac EXCEPT ![w.m] = Effect(l, mac[w.m])]
  BY Zenon DEF Remote
<1> QED BY Zenon, <1>1, <1>4, <1>5

\* A step of run_setup to another of its places leaves the pages and the check alone.
LEMMA SetupStep ==
  ASSUME PwInv, w.at \in SetupAt, w'.at \in SetupAt, w'.m = w.m, UNCHANGED <<page, dlg, check>>
  PROVE  PwWhere' /\ PwCheck'
<1>1. w'.at \notin UnpairAt /\ w'.at # "idle"
  BY Zenon DEF SetupAt, UnpairAt, Before, Between, After, AtEnd
<1>2. PwWhere'
  BY Zenon, <1>1 DEF PwInv, PwWhere
<1>3. PwCheck'
  BY Zenon, <1>1 DEF PwInv, PwCheck
<1> QED BY Zenon, <1>2, <1>3

\* The invariant of the run when an error or a cancel ends it before the Mac is changed, after
\* the Mac is changed and before it is paired, and after that.
LEMMA RunThrows ==
  ASSUME PwInv, w.at \in Before \cup Between \cup After, Throw(w.rollback),
         mac' = mac \/ (hist'.initFailed /\ w.at = "init") \/ w.at = "pair",
         tunnel' = tunnel, settings' = settings, hist'.before = hist.before, hist'.changing = hist.changing
  PROVE  w'.at \in SetupAt /\ w'.m = w.m /\ w' \in WorkerStates /\ PwRun'
<1>1. w.rollback \in BOOLEAN /\ PwShape /\ w.at \in SetupAt \ AtEnd
  BY Zenon DEF PwInv, PwShape, WorkerStates, SetupAt, Before, Between, After, AtEnd
<1>2. /\ w' \in WorkerStates
      /\ w'.at = IF w.rollback THEN "rollback" ELSE "cleanup"
      /\ w'.m = w.m /\ w'.ok = w.ok
  BY Zenon, <1>1, Throws
<1>3. ~w.ok
  BY Zenon, <1>1 DEF PwInv, PwRun
<1>4. CASE w.at \in Before
  <2>1. ~w.rollback /\ mac[w.m] = hist.before /\ w.at # "pair"
    BY Zenon, <1>4 DEF PwInv, PwRun, Before
  <2> QED BY Zenon, <1>2, <1>3, <1>4, <2>1 DEF PwRun, Blocked, SetupAt, Before, Between, After, AtEnd
<1>5. CASE w.at \in Between
  <2>1. w.rollback /\ (hist.changing \/ settings = NoMac)
    BY Zenon, <1>5 DEF PwInv, PwRun
  <2> QED BY Zenon, <1>2, <1>3, <1>5, <2>1 DEF PwRun, SetupAt, Before, Between, After, AtEnd
<1>6. CASE w.at \in After
  <2>1. ~w.rollback /\ mac[w.m].peer /\ mac' = mac
    BY Zenon, <1>6 DEF PwInv, PwRun, After
  <2> QED BY Zenon, <1>2, <1>3, <2>1 DEF PwRun, Blocked, SetupAt, Before, Between, After, AtEnd
<1> QED BY Zenon, <1>4, <1>5, <1>6

\* step() lets the worker through or, on a cancel, ends the run.
LEMMA EnterStep == ASSUME PwInv, Enter PROVE PwInv'
<1>1. ~w.busy /\ w.at \in Before \cup Between \cup After
  BY DEF Enter, Order, Before, Between, After
<1>2. UNCHANGED <<mac, tunnel, settings, page, dlg, check, hist>>
  BY Zenon DEF Enter
<1>3. PwRun' /\ w'.at \in SetupAt /\ w'.m = w.m /\ w' \in WorkerStates
  <2>1. CASE Throw(w.rollback)
    <3>1. mac' = mac /\ tunnel' = tunnel /\ settings' = settings /\ hist' = hist
      BY Zenon, <1>2
    <3> QED BY Zenon, <1>1, <2>1, <3>1, RunThrows
  <2>2. CASE w' = [w EXCEPT !.busy = TRUE]
    <3>1. w \in WorkerStates
      BY Zenon DEF PwInv, PwShape
    <3>2. w' \in WorkerStates
      BY Zenon, <2>2, <3>1 DEF WorkerStates
    <3>3. w'.at = w.at /\ w'.m = w.m /\ w'.ok = w.ok /\ w'.said = w.said /\ w'.rollback = w.rollback
      BY Zenon, <2>2, <3>1 DEF WorkerStates
    <3> QED BY Zenon, <1>1, <1>2, <3>2, <3>3 DEF PwInv, PwRun, Blocked, Paired, SetupAt
  <2> QED BY Zenon, <2>1, <2>2 DEF Enter
<1>4. PwShape' /\ SavedMeansPaired'
  BY Zenon, <1>2, <1>3 DEF PwInv, PwShape, SavedMeansPaired, Paired
<1>5. PwWhere' /\ PwCheck'
  BY Zenon, <1>1, <1>2, <1>3, SetupStep DEF SetupAt
<1> QED BY Zenon, <1>3, <1>4, <1>5 DEF PwInv

SshSteps == {"dial", "signin", "tmp", "copy", "preflight", "init", "pair", "sharing"}

\* The settings stay true of the pairing while only a Mac that is being set up changes.
LEMMA SavedStays ==
  ASSUME PwInv, w.at \in SetupAt, settings' = settings, hist'.changing = hist.changing,
         (mac' = mac /\ tunnel' = tunnel) \/ w.at \in Before \cup Between \cup {"save", "rollback"}
  PROVE  SavedMeansPaired'
<1>1. CASE mac' = mac /\ tunnel' = tunnel
  BY Zenon, <1>1 DEF PwInv, SavedMeansPaired, Paired
<1>2. CASE w.at \in Before \cup Between \cup {"save", "rollback"}
  BY Zenon, <1>2 DEF PwInv, PwRun, SavedMeansPaired
<1> QED BY Zenon, <1>1, <1>2

\* A command of run_setup that returns what the step requires.
LEMMA CommandStep == ASSUME PwInv, NEW l \in SshSteps, Command(l) PROVE PwInv'
<1>1. w.at = l /\ Remote(l) /\ (Advance \/ (l = "init" /\ Throw(TRUE)))
  BY Zenon DEF Command
<1>2. tunnel' = tunnel /\ settings' = settings /\ hist' = hist /\ UNCHANGED <<page, dlg, check>>
  BY Zenon DEF Command
<1>3. w.at \in SetupAt \ AtEnd /\ l # "probe" /\ w.at \in Before \cup Between \cup After
  BY Zenon, <1>1 DEF SshSteps, SetupAt, Before, Between, After, AtEnd
<1>4. w.m \in Mac /\ ~w.ok /\ PwShape /\ PwRun
  BY Zenon, <1>3 DEF PwInv, PwWhere, PwRun
<1>5. /\ mac' \in [Mac -> MacStates] /\ mac'[w.m] = Effect(l, mac[w.m])
      /\ \A m \in Mac : m # w.m => mac'[m] = mac[m]
  BY Zenon, <1>1, <1>4, RemoteIs
<1>6. mac[w.m] \in MacStates /\ mac \in [Mac -> MacStates]
  BY Zenon, <1>4 DEF PwShape
<1>7. /\ w.at \in SshSteps \ {"init", "pair"} => mac'[w.m] = mac[w.m]
      /\ w.at = "init" => mac'[w.m].init
      /\ w.at = "pair" => mac'[w.m].peer = mac[w.m].init /\ mac'[w.m].init = mac[w.m].init
  BY Zenon, <1>1, <1>5, <1>6 DEF Effect, MacStates, SshSteps
<1>8. /\ w' \in WorkerStates /\ w'.at \in SetupAt /\ w'.m = w.m
      /\ PwRun'
  <2>1. CASE l = "init" /\ Throw(TRUE)
    <3>1. w' \in WorkerStates /\ w'.at = "rollback" /\ w'.m = w.m /\ w'.ok = w.ok
      BY Zenon, <1>4, <2>1, Throws
    <3> QED BY Zenon, <1>1, <1>2, <1>4, <2>1, <3>1 DEF PwRun, SetupAt, Before, Between, After, AtEnd
  <2>2. CASE Advance
    <3>1. /\ w' \in WorkerStates
          /\ w'.at = NextStep(w.at) /\ w'.m = w.m /\ w'.ok = w.ok
          /\ w'.rollback <=> w.at # "pair" /\ (w.at = "init" \/ w.rollback)
      BY Zenon, <1>1, <1>3, <1>4, <2>2, Advances
    <3>2. CASE w.at \in Before \ {"init"}
      <4>1. w'.at \in Before /\ ~w'.rollback
        BY <1>4, <3>1, <3>2, NextSteps DEF Before, PwRun
      <4> QED BY Zenon, <1>1, <1>2, <1>4, <1>7, <3>1, <3>2, <4>1
              DEF PwRun, SetupAt, Before, Between, After, AtEnd
    <3>3. CASE w.at = "init"
      <4>1. w'.at = "install" /\ w'.rollback
        BY Zenon, <3>1, <3>3, NextSteps
      <4> QED BY Zenon, <1>2, <1>4, <1>7, <3>1, <3>3, <4>1 DEF PwRun, SetupAt, Before, Between, After, AtEnd
    <3>4. CASE w.at = "pair"
      <4>1. w'.at = "save" /\ ~w'.rollback
        BY Zenon, <3>1, <3>4, NextSteps
      <4> QED BY Zenon, <1>2, <1>4, <1>7, <3>1, <3>4, <4>1 DEF PwRun, SetupAt, Before, Between, After, AtEnd
    <3>5. CASE w.at = "sharing"
      <4>1. w'.at = "verify" /\ ~w'.rollback
        BY Zenon, <1>4, <3>1, <3>5, NextSteps DEF After, PwRun
      <4> QED BY Zenon, <1>2, <1>4, <1>7, <3>1, <3>5, <4>1
              DEF PwRun, SshSteps, SetupAt, Before, Between, After, AtEnd
    <3> QED BY Zenon, <1>1, <3>2, <3>3, <3>4, <3>5 DEF SshSteps, Before
  <2> QED BY Zenon, <1>1, <2>1, <2>2
<1>9. SavedMeansPaired'
  <2>1. w.at = "sharing" => mac' = mac
    BY <1>5, <1>6, <1>7 DEF SshSteps
  <2>2. w.at \in Before \cup Between \cup {"save", "rollback"} \/ w.at = "sharing"
    BY Zenon, <1>1 DEF SshSteps, Before, Between
  <2> QED BY Zenon, <1>2, <1>3, <2>1, <2>2, SavedStays
<1>10. PwShape'
  BY Zenon, <1>2, <1>4, <1>5, <1>8 DEF PwShape
<1>11. PwWhere' /\ PwCheck'
  BY Zenon, <1>2, <1>3, <1>8, SetupStep
<1> QED BY Zenon, <1>8, <1>9, <1>10, <1>11 DEF PwInv

\* A command that throws or returns an error, whether it took effect on the Mac or not.
LEMMA FailStep == ASSUME PwInv, NEW l \in SshSteps, CommandFails(l) PROVE PwInv'
<1>1. w.at = l /\ Throw(w.rollback) /\ (Remote(l) \/ mac' = mac)
  BY Zenon DEF CommandFails
<1>2. /\ tunnel' = tunnel /\ settings' = settings /\ UNCHANGED <<page, dlg, check>>
      /\ hist' = [hist EXCEPT !.initFailed = hist.initFailed \/ l = "init"]
  BY Zenon DEF CommandFails
<1>3. w.at \in SetupAt \ AtEnd /\ w.at \in Before \cup Between \cup After
  BY Zenon, <1>1 DEF SshSteps, SetupAt, Before, Between, After, AtEnd
<1>4. w.m \in Mac /\ ~w.ok /\ PwShape /\ PwRun
  BY Zenon, <1>3 DEF PwInv, PwWhere, PwRun
<1>5. mac' \in [Mac -> MacStates] /\ (mac' = mac \/ w.at \in {"init", "pair"})
  <2>1. CASE mac' = mac
    BY Zenon, <1>4, <2>1 DEF PwShape
  <2>2. CASE Remote(l)
    <3>1. /\ mac' \in [Mac -> MacStates] /\ mac'[w.m] = Effect(l, mac[w.m])
          /\ \A m \in Mac : m # w.m => mac'[m] = mac[m]
      BY Zenon, <1>4, <2>2, RemoteIs
    <3>2. l \notin {"init", "pair"} => Effect(l, mac[w.m]) = mac[w.m]
      BY Zenon DEF Effect, SshSteps
    <3>3. mac \in [Mac -> MacStates]
      BY Zenon, <1>4 DEF PwShape
    <3> QED BY <1>1, <3>1, <3>2, <3>3
  <2> QED BY Zenon, <1>1, <2>1, <2>2
<1>6. /\ hist' \in HistStates /\ hist'.before = hist.before /\ hist'.changing = hist.changing
      /\ w.at = "init" => hist'.initFailed
  <2> DEFINE f == hist.initFailed \/ l = "init"
  <2>1. hist \in HistStates /\ f \in BOOLEAN
    BY Zenon, <1>4 DEF PwShape, HistStates
  <2>2. hist' = [hist EXCEPT !.initFailed = f]
    BY Zenon, <1>2
  <2>3. w.at = "init" => f
    BY Zenon, <1>1
  <2> HIDE DEF f
  <2>4. hist' \in HistStates
    BY Zenon, <2>1, <2>2 DEF HistStates
  <2> QED BY Zenon, <2>1, <2>2, <2>3, <2>4 DEF HistStates
<1>7. w'.at \in SetupAt /\ w'.m = w.m /\ w' \in WorkerStates /\ PwRun'
  BY Zenon, <1>1, <1>2, <1>3, <1>5, <1>6, RunThrows
<1>8. SavedMeansPaired'
  BY Zenon, <1>2, <1>3, <1>5, <1>6, SavedStays DEF Before, Between
<1>9. PwShape'
  BY Zenon, <1>2, <1>4, <1>5, <1>6, <1>7 DEF PwShape
<1>10. PwWhere' /\ PwCheck'
  BY Zenon, <1>2, <1>3, <1>7, SetupStep
<1> QED BY Zenon, <1>7, <1>8, <1>9, <1>10 DEF PwInv

\* Step 5, the tunnel of this PC.
LEMMA InstallStep == ASSUME PwInv, InstallTunnel PROVE PwInv'
<1>1. w.at = "install" /\ w.m \in Mac /\ PwShape /\ PwRun /\ ~w.ok /\ w.at \in SetupAt
  BY Zenon DEF InstallTunnel, PwInv, PwWhere, PwRun, SetupAt, Between, AtEnd
<1>2. UNCHANGED <<mac, settings, page, dlg, check, hist>>
  BY Zenon DEF InstallTunnel
<1>3. w'.at \in SetupAt /\ w'.m = w.m /\ w' \in WorkerStates /\ PwRun' /\ tunnel' \in Mac \cup {NoMac}
  <2>1. CASE tunnel' = tunnel /\ Throw(w.rollback)
    <3>1. tunnel' \in Mac \cup {NoMac}
      BY Zenon, <1>1, <2>1 DEF PwShape
    <3> QED BY Zenon, <1>1, <1>2, <2>1, <3>1, RunThrows DEF Between
  <2>2. CASE tunnel' = w.m /\ Advance
    <3>1. /\ w' \in WorkerStates /\ w'.at = "pair" /\ w'.m = w.m /\ w'.ok = w.ok
          /\ w'.rollback <=> w.rollback
      BY Zenon, <1>1, <2>2, Advances, NextSteps DEF Between
    <3> QED BY Zenon, <1>1, <1>2, <2>2, <3>1 DEF PwRun, SetupAt, Before, Between, After, AtEnd
  <2> QED BY Zenon, <2>1, <2>2 DEF InstallTunnel
<1>4. SavedMeansPaired'
  BY Zenon, <1>1, <1>2, SavedStays DEF Between
<1>5. PwShape'
  BY Zenon, <1>1, <1>2, <1>3 DEF PwShape
<1>6. PwWhere' /\ PwCheck'
  BY Zenon, <1>1, <1>2, <1>3, SetupStep
<1> QED BY Zenon, <1>3, <1>4, <1>5, <1>6 DEF PwInv

\* Saving the settings, whole or torn.
LEMMA SaveStep == ASSUME PwInv, Save PROVE PwInv'
<1>1. w.at = "save" /\ w.m \in Mac /\ PwShape /\ PwRun /\ ~w.ok /\ w.at \in SetupAt
  BY Zenon DEF Save, PwInv, PwWhere, PwRun, SetupAt, After, AtEnd
<1>2. mac' = mac /\ tunnel' = tunnel /\ UNCHANGED <<page, dlg, check>>
  BY Zenon DEF Save
<1>3. mac[w.m].init /\ mac[w.m].peer /\ ~w.rollback /\ tunnel = w.m /\ (hist.changing \/ settings = NoMac)
  BY Zenon, <1>1 DEF PwRun, After
<1>4. /\ w'.at \in SetupAt /\ w'.m = w.m /\ w' \in WorkerStates /\ PwRun' /\ SavedMeansPaired'
      /\ settings' \in Mac \cup {NoMac} /\ hist' \in HistStates
  <2>1. CASE settings' = w.m /\ Advance /\ hist' = [hist EXCEPT !.changing = FALSE]
    <3>1. /\ w' \in WorkerStates /\ w'.at = "sharing" /\ w'.m = w.m /\ w'.ok = w.ok /\ ~w'.rollback
      BY Zenon, <1>1, <1>3, <2>1, Advances, NextSteps DEF After
    <3>2. hist' \in HistStates
      BY Zenon, <1>1, <2>1 DEF PwShape, HistStates
    <3>3. PwRun' /\ w'.at \in SetupAt
      BY Zenon, <1>1, <1>2, <1>3, <2>1, <3>1 DEF PwRun, SetupAt, Before, Between, After, AtEnd
    <3> QED BY Zenon, <1>1, <1>2, <1>3, <2>1, <3>1, <3>2, <3>3 DEF SavedMeansPaired, Paired
  <2>2. CASE settings' \in TornSettings /\ Throw(FALSE) /\ hist' = hist
    <3>1. w' \in WorkerStates /\ w'.at = "cleanup" /\ w'.m = w.m /\ w'.ok = w.ok
      BY Zenon, <1>1, <2>2, Throws
    <3>2. PwRun' /\ w'.at \in SetupAt
      BY Zenon, <1>1, <1>2, <1>3, <3>1 DEF PwRun, Blocked, SetupAt, Before, Between, After, AtEnd
    <3>3. SavedMeansPaired'
      BY Zenon, <1>3, <2>2 DEF TornSettings, SavedMeansPaired
    <3>4. settings' \in Mac \cup {NoMac} /\ hist' \in HistStates
      BY Zenon, <1>1, <2>2 DEF TornSettings, PwShape
    <3> QED BY Zenon, <3>1, <3>2, <3>3, <3>4
  <2> QED BY Zenon, <2>1, <2>2 DEF Save
<1>5. PwShape'
  BY Zenon, <1>1, <1>2, <1>4 DEF PwShape
<1>6. PwWhere' /\ PwCheck'
  BY Zenon, <1>1, <1>2, <1>4, SetupStep
<1> QED BY Zenon, <1>4, <1>5, <1>6 DEF PwInv

\* The steps that only look, and the end of the run.
LEMMA LookStep == ASSUME PwInv, Verify \/ Probe \/ Cleanup PROVE PwInv'
<1>1. w.at \in {"verify", "probe", "cleanup"} /\ w.m \in Mac /\ PwShape /\ PwRun /\ w.at \in SetupAt
  BY Zenon DEF Verify, Probe, Cleanup, PwInv, PwWhere, SetupAt, After, AtEnd
<1>2. UNCHANGED <<mac, tunnel, settings, page, dlg, check, hist>>
  BY Zenon DEF Verify, Probe, Cleanup
<1>3. w'.at \in SetupAt /\ w'.m = w.m /\ w' \in WorkerStates /\ PwRun'
  <2>0. w \in WorkerStates
    BY Zenon, <1>1 DEF PwShape
  <2>1. CASE Verify
    <3>1. w.at = "verify" /\ ~w.ok
      BY Zenon, <1>1, <2>1 DEF Verify, PwRun, AtEnd
    <3>2. CASE Advance
      <4>1. w' \in WorkerStates /\ w'.at = "probe" /\ w'.m = w.m /\ w'.ok = w.ok /\ ~w'.rollback
        BY Zenon, <1>1, <3>1, <3>2, Advances, NextSteps DEF After, PwRun
      <4> QED BY Zenon, <1>1, <1>2, <3>1, <4>1 DEF PwRun, SetupAt, Before, Between, After, AtEnd
    <3>3. CASE w' = [w EXCEPT !.at = "cleanup", !.busy = FALSE]
      <4>1. w' \in WorkerStates
        BY Zenon, <2>0, <3>3 DEF WorkerStates, SetupAt, AtEnd
      <4>2. w'.at = "cleanup" /\ w'.m = w.m /\ w'.ok = w.ok
        BY Zenon, <2>0, <3>3 DEF WorkerStates
      <4> QED BY Zenon, <1>1, <1>2, <3>1, <4>1, <4>2 DEF PwRun, Blocked, SetupAt, Before, Between, After, AtEnd
    <3> QED BY Zenon, <2>1, <3>2, <3>3 DEF Verify
  <2>2. CASE Probe
    <3>1. w.at = "probe"
      BY Zenon, <2>2 DEF Probe
    <3>2. PICK ok \in BOOLEAN : w' = [w EXCEPT !.at = "cleanup", !.busy = FALSE, !.ok = ok]
      BY Zenon, <2>2 DEF Probe
    <3>3. w' \in WorkerStates
      BY Zenon, <2>0, <3>2 DEF WorkerStates, SetupAt, AtEnd
    <3>4. w'.at = "cleanup" /\ w'.m = w.m
      BY Zenon, <2>0, <3>2 DEF WorkerStates
    <3> QED BY Zenon, <1>1, <1>2, <3>1, <3>3, <3>4 DEF PwRun, Blocked, Paired, SetupAt, Before, Between, After, AtEnd
  <2>3. CASE Cleanup
    <3>1. w.at = "cleanup" /\ w' = [w EXCEPT !.at = "finished"]
      BY Zenon, <2>3 DEF Cleanup
    <3>2. w' \in WorkerStates
      BY Zenon, <2>0, <3>1 DEF WorkerStates, SetupAt, AtEnd
    <3>3. w'.at = "finished" /\ w'.m = w.m /\ w'.ok = w.ok /\ w'.said = w.said
      BY Zenon, <2>0, <3>1 DEF WorkerStates
    <3> QED BY Zenon, <1>1, <1>2, <3>1, <3>2, <3>3 DEF PwRun, Blocked, Paired, SetupAt, Before, Between, After, AtEnd
  <2> QED BY Zenon, <2>1, <2>2, <2>3
<1>4. PwShape' /\ SavedMeansPaired'
  BY Zenon, <1>2, <1>3 DEF PwInv, PwShape, SavedMeansPaired, Paired
<1>5. PwWhere' /\ PwCheck'
  BY Zenon, <1>1, <1>2, <1>3, SetupStep
<1> QED BY Zenon, <1>3, <1>4, <1>5 DEF PwInv

\* rollback_mac, which may be cancelled, fail, or fail after it took effect.
LEMMA RollbackStep == ASSUME PwInv, Rollback PROVE PwInv'
<1>1. w.at = "rollback" /\ w.m \in Mac /\ PwShape /\ PwRun /\ ~w.ok /\ w.at \in SetupAt /\ w \in WorkerStates
  BY Zenon DEF Rollback, PwInv, PwWhere, PwRun, PwShape, SetupAt, AtEnd
<1>2. tunnel' = tunnel /\ settings' = settings /\ UNCHANGED <<page, dlg, check>>
  BY Zenon DEF Rollback
<1>3. /\ mac' \in [Mac -> MacStates]
      /\ Remote("uninstall") => mac'[w.m] = Clean
  <2>1. CASE mac' = mac
    <3>1. Remote("uninstall") => mac'[w.m] = Clean
      BY Zenon, <1>1, RemoteIs DEF Effect
    <3> QED BY Zenon, <1>1, <2>1, <3>1 DEF PwShape
  <2>2. CASE Remote("uninstall")
    BY Zenon, <1>1, <2>2, RemoteIs DEF Effect
  <2> QED BY Zenon, <2>1, <2>2 DEF Rollback
<1>4. /\ hist' \in HistStates /\ hist'.before = hist.before /\ hist'.changing = hist.changing
      /\ hist'.initFailed = hist.initFailed
  <2>1. hist \in HistStates
    BY Zenon, <1>1 DEF PwShape
  <2>2. CASE hist' = hist
    BY Zenon, <2>1, <2>2
  <2>3. CASE hist' = [hist EXCEPT !.undoFailed = TRUE]
    <3>1. hist' \in HistStates
      BY Zenon, <2>1, <2>3 DEF HistStates
    <3> QED BY Zenon, <2>1, <2>3, <3>1 DEF HistStates
  <2> QED BY Zenon, <2>2, <2>3 DEF Rollback
<1>5. w'.at \in SetupAt /\ w'.m = w.m /\ w' \in WorkerStates /\ PwRun'
  <2>1. CASE w' = [w EXCEPT !.busy = TRUE]
    <3>1. w' \in WorkerStates
      BY Zenon, <1>1, <2>1 DEF WorkerStates
    <3>2. w'.at = w.at /\ w'.m = w.m /\ w'.ok = w.ok
      BY Zenon, <1>1, <2>1 DEF WorkerStates
    <3> QED BY Zenon, <1>1, <1>2, <1>4, <3>1, <3>2 DEF PwRun, SetupAt, Before, Between, After, AtEnd
  <2>2. CASE w' = [w EXCEPT !.at = "cleanup", !.said = "stuck"]
    <3>1. w' \in WorkerStates
      BY Zenon, <1>1, <2>2 DEF WorkerStates, SetupAt, AtEnd
    <3>2. w'.at = "cleanup" /\ w'.m = w.m /\ w'.ok = w.ok /\ w'.said = "stuck"
      BY Zenon, <1>1, <2>2 DEF WorkerStates
    <3> QED BY Zenon, <1>1, <3>1, <3>2 DEF PwRun, SetupAt, Before, Between, After, AtEnd
  <2>3. CASE w' = [w EXCEPT !.at = "cleanup", !.busy = FALSE, !.said = "stuck"]
    <3>1. w' \in WorkerStates
      BY Zenon, <1>1, <2>3 DEF WorkerStates, SetupAt, AtEnd
    <3>2. w'.at = "cleanup" /\ w'.m = w.m /\ w'.ok = w.ok /\ w'.said = "stuck"
      BY Zenon, <1>1, <2>3 DEF WorkerStates
    <3> QED BY Zenon, <1>1, <3>1, <3>2 DEF PwRun, SetupAt, Before, Between, After, AtEnd
  <2>4. CASE Remote("uninstall") /\ w' = [w EXCEPT !.at = "cleanup", !.busy = FALSE, !.said = "restored"]
    <3>1. w' \in WorkerStates
      BY Zenon, <1>1, <2>4 DEF WorkerStates, SetupAt, AtEnd
    <3>2. w'.at = "cleanup" /\ w'.m = w.m /\ w'.ok = w.ok
      BY Zenon, <1>1, <2>4 DEF WorkerStates
    <3>3. ~mac'[w.m].init
      BY <1>3, <2>4 DEF Clean
    <3> QED BY Zenon, <1>1, <3>1, <3>2, <3>3 DEF PwRun, Blocked, SetupAt, Before, Between, After, AtEnd
  <2> QED BY Zenon, <2>1, <2>2, <2>3, <2>4 DEF Rollback
<1>6. SavedMeansPaired'
  BY Zenon, <1>1, <1>2, <1>4, SavedStays
<1>7. PwShape'
  BY Zenon, <1>1, <1>2, <1>3, <1>4, <1>5 DEF PwShape
<1>8. PwWhere' /\ PwCheck'
  BY Zenon, <1>1, <1>2, <1>5, SetupStep
<1> QED BY Zenon, <1>5, <1>6, <1>7, <1>8 DEF PwInv

\* No place of run_unpair, and not "idle", is one of run_setup.
LEMMA Apart == UnpairAt \cap SetupAt = {} /\ "idle" \notin SetupAt /\ "idle" \notin UnpairAt
BY Zenon DEF SetupAt, UnpairAt, Before, Between, After, AtEnd

\* run_unpair changes what it likes: it has marked the pairing as changing.
LEMMA UnpairStep == ASSUME PwInv, UnpairMac \/ UnpairPc \/ UnpairSettings PROVE PwInv'
<1>1. w.at \in UnpairAt \ {"unDone"} /\ PwShape /\ w \in WorkerStates
  BY Zenon DEF UnpairMac, UnpairPc, UnpairSettings, UnpairAt, PwInv, PwShape
<1>2. page = "connect" /\ hist.changing
  BY Zenon, <1>1 DEF PwInv, PwWhere
<1>3. UNCHANGED <<page, dlg, check, hist>>
  BY Zenon DEF UnpairMac, UnpairPc, UnpairSettings
<1>4. PICK a \in UnpairAt : w' = [w EXCEPT !.at = a]
  BY Zenon DEF UnpairMac, UnpairPc, UnpairSettings, UnpairAt
<1>5. w' \in WorkerStates
  BY Zenon, <1>1, <1>4 DEF WorkerStates
<1>6. w'.at = a /\ w'.at \notin SetupAt /\ w'.at # "idle"
  BY Zenon, <1>1, <1>4, Apart DEF WorkerStates
<1>7. mac' \in [Mac -> MacStates]
  <2>1. CASE mac' = mac
    BY Zenon, <1>1, <2>1 DEF PwShape
  <2>2. CASE Remote("uninstall")
    <3>1. mac' = [mac EXCEPT ![w.m] = Clean] /\ Clean \in MacStates
      BY Zenon, <2>2 DEF Remote, Effect, Clean, MacStates
    <3> QED BY Zenon, <1>1, <3>1 DEF PwShape
  <2> QED BY Zenon, <2>1, <2>2 DEF UnpairMac, UnpairPc, UnpairSettings
<1>8. tunnel' \in Mac \cup {NoMac} /\ settings' \in Mac \cup {NoMac}
  BY Zenon, <1>1 DEF UnpairMac, UnpairPc, UnpairSettings, PwShape
<1>9. PwShape'
  BY Zenon, <1>1, <1>3, <1>5, <1>7, <1>8 DEF PwShape
<1>10. PwWhere' /\ PwCheck' /\ SavedMeansPaired'
  BY Zenon, <1>1, <1>2, <1>3, <1>6 DEF PwInv, PwWhere, PwCheck, SavedMeansPaired
<1>11. PwRun'
  BY Zenon, <1>6 DEF PwRun, SetupAt, Before, Between, After, AtEnd
<1> QED BY Zenon, <1>9, <1>10, <1>11 DEF PwInv

\* A step of the user in the set-up dialog, or the message of its worker.
LEMMA DialogStep ==
  ASSUME PwInv, (\E m \in Mac : SetupStart(m)) \/ SetupCancel \/ SetupFinish \/ SetupClose
  PROVE  PwInv'
<1> USE DEF PwInv
<1>0. /\ page = "setup" /\ UNCHANGED <<mac, tunnel, settings, check>> /\ PwShape /\ check = NoCheck
      /\ w.at \notin UnpairAt
  BY Zenon DEF SetupStart, SetupCancel, SetupFinish, SetupClose, PwWhere, PwCheck
<1>1. Idle \in WorkerStates /\ NoDlg \in DlgStates
  BY Zenon DEF Idle, WorkerStates, NoDlg, DlgStates
<1>2. ASSUME NEW m \in Mac, SetupStart(m) PROVE PwInv'
  <2>1. w' = [Idle EXCEPT !.at = "dial", !.m = m] /\ dlg' = [dlg EXCEPT !.running = TRUE, !.cancel = FALSE]
    BY Zenon, <1>2 DEF SetupStart
  <2>2. w' \in WorkerStates
    BY Zenon, <1>1, <2>1 DEF WorkerStates, SetupAt, Before
  <2>3. w'.at = "dial" /\ w'.m = m /\ ~w'.rollback /\ ~w'.ok
    BY Zenon, <2>1 DEF Idle
  <2>4. dlg' \in DlgStates
    BY Zenon, <1>0, <2>1 DEF PwShape, DlgStates
  <2>5. dlg'.running
    BY Zenon, <1>0, <2>1 DEF PwShape, DlgStates
  <2>6. /\ hist' \in HistStates /\ hist'.before = mac[m]
        /\ hist'.changing \/ settings = NoMac
    <3> DEFINE c == settings # NoMac
    <3>1. c \in BOOLEAN /\ mac[m] \in MacStates
      BY Zenon, <1>0 DEF PwShape
    <3>2. hist' = [before |-> mac[m], initFailed |-> FALSE, undoFailed |-> FALSE, changing |-> c]
      BY Zenon, <1>2 DEF SetupStart
    <3>3. c \/ settings = NoMac
      OBVIOUS
    <3> HIDE DEF c
    <3>4. hist' \in HistStates
      BY Zenon, <3>1, <3>2 DEF HistStates
    <3> QED BY Zenon, <3>2, <3>3, <3>4
  <2>7. PwShape' /\ page' = page
    BY Zenon, <1>0, <1>2, <2>2, <2>4, <2>6 DEF PwShape, SetupStart
  <2>8. PwWhere' /\ PwCheck' /\ SavedMeansPaired'
    BY Zenon, <1>0, <2>3, <2>5, <2>6, <2>7 DEF PwWhere, PwCheck, SavedMeansPaired, UnpairAt
  <2>9. PwRun'
    BY Zenon, <1>0, <2>3, <2>6 DEF PwRun, SetupAt, Before, Between, After, AtEnd
  <2> QED BY Zenon, <2>7, <2>8, <2>9
<1>3. CASE SetupCancel
  <2>1. /\ dlg' = [dlg EXCEPT !.cancel = TRUE] /\ w' = w /\ hist' = hist /\ page' = page
        /\ mac' = mac /\ settings' = settings /\ tunnel' = tunnel /\ check' = check
    BY Zenon, <1>3 DEF SetupCancel
  <2>2. dlg' \in DlgStates
    BY Zenon, <1>0, <2>1 DEF PwShape, DlgStates
  <2>3. dlg'.running = dlg.running
    BY Zenon, <1>0, <2>1 DEF PwShape, DlgStates
  <2>4. PwShape' /\ PwRun' /\ SavedMeansPaired'
    BY <2>1, <2>2 DEF PwShape, PwRun, SavedMeansPaired, Blocked, Paired
  <2> QED BY Zenon, <2>1, <2>3, <2>4 DEF PwWhere, PwCheck
<1>4. CASE SetupFinish
  <2> DEFINE ok == w.ok
             c == IF w.ok THEN dlg.closeOk ELSE settings # NoMac
  <2>1. dlg' = [dlg EXCEPT !.running = FALSE, !.doneOk = ok, !.closeOk = c]
    BY Zenon, <1>4 DEF SetupFinish
  <2>2. ok \in BOOLEAN /\ c \in BOOLEAN
    BY Zenon, <1>0 DEF PwShape, WorkerStates, DlgStates
  <2> HIDE DEF ok, c
  <2>3. dlg' \in DlgStates
    BY Zenon, <1>0, <2>1, <2>2 DEF PwShape, DlgStates
  <2>4. w' = Idle /\ hist' = hist /\ page' = page
    BY Zenon, <1>4 DEF SetupFinish
  <2>5. PwShape' /\ SavedMeansPaired'
    BY Zenon, <1>0, <1>1, <2>3, <2>4 DEF PwShape, SavedMeansPaired, Paired
  <2>6. w'.at \notin SetupAt /\ w'.at \notin UnpairAt
    BY Zenon, <2>4, Apart DEF Idle
  <2>7. PwWhere' /\ PwCheck'
    BY <1>0, <2>4, <2>6 DEF PwWhere, PwCheck, NoCheck
  <2>8. PwRun'
    BY Zenon, <2>6 DEF PwRun, SetupAt, Before, Between, After, AtEnd
  <2> QED BY Zenon, <2>5, <2>7, <2>8
<1>5. CASE SetupClose
  <2>1. dlg' = NoDlg /\ w' = w /\ hist' = hist /\ page' \in {"main", "exit"} /\ w.at \notin SetupAt
    BY Zenon, <1>5 DEF SetupClose, PwWhere
  <2>2. PwShape' /\ SavedMeansPaired'
    BY Zenon, <1>0, <1>1, <2>1 DEF PwShape, SavedMeansPaired, Paired
  <2>3. PwWhere' /\ PwCheck'
    BY Zenon, <1>0, <2>1 DEF PwWhere, PwCheck, NoCheck
  <2>4. PwRun'
    BY Zenon, <2>1 DEF PwRun, SetupAt, Before, Between, After, AtEnd
  <2> QED BY Zenon, <2>2, <2>3, <2>4
<1> QED BY Zenon, <1>2, <1>3, <1>4, <1>5

\* The checker thread and the messages it posts.
LEMMA CheckStep ==
  ASSUME PwInv, StartCheck \/ CheckEnds \/ LinkDone \/ RunViewer
  PROVE  PwInv'
<1> USE DEF PwInv
<1>1. UNCHANGED <<mac, tunnel, settings, page, dlg, w, hist>>
  BY Zenon DEF StartCheck, CheckEnds, LinkDone, RunViewer
<1>2. PwShape' /\ PwWhere' /\ PwRun' /\ SavedMeansPaired'
  BY <1>1 DEF PwShape, PwWhere, PwRun, SavedMeansPaired, Blocked, Paired
<1>3. /\ check \in CheckStates
      /\ page # "connect" => check = NoCheck
      /\ check.thread = "running" => check.posted <= 1 /\ ~check.haveStatus /\ check.checking
      /\ ~check.checking /\ w.at = "idle" => check.posted <= 1
  BY Zenon DEF PwCheck
<1>4. CASE StartCheck \/ RunViewer
  <2>1. check' = CheckStarted(check) /\ check.posted <= 1 /\ page = "connect"
    BY <1>3, <1>4 DEF StartCheck, RunViewer, MayCommand, CheckStates
  <2>2. check' \in CheckStates
    BY Zenon, <1>3, <2>1 DEF CheckStarted, CheckStates
  <2>3. check'.posted = check.posted /\ check'.checking /\ ~check'.haveStatus
    BY Zenon, <1>3, <2>1 DEF CheckStarted, CheckStates
  <2> QED BY Zenon, <1>1, <1>2, <2>1, <2>2, <2>3 DEF PwCheck
<1>5. CASE CheckEnds
  <2>1. check.thread = "running" /\ check' = [check EXCEPT !.thread = "ended", !.posted = check.posted + 1]
    BY Zenon, <1>5 DEF CheckEnds
  <2>2. check.posted + 1 \in 0 .. 2 /\ check.thread # NoCheck.thread
    BY <1>3, <2>1 DEF CheckStates, NoCheck
  <2>3. check' \in CheckStates
    BY Zenon, <1>3, <2>1, <2>2 DEF CheckStates
  <2>4. check'.thread = "ended" /\ check'.checking = check.checking
    BY Zenon, <1>3, <2>1 DEF CheckStates
  <2>5. check'.checking
    BY Zenon, <1>3, <2>1, <2>4
  <2> QED BY Zenon, <1>1, <1>2, <1>3, <2>2, <2>3, <2>4, <2>5 DEF PwCheck
<1>6. CASE LinkDone
  <2>1. page = "connect" /\ check.posted > 0 /\ check.posted - 1 \in 0 .. 1
    BY <1>3, <1>6 DEF LinkDone, CheckStates
  <2>2. check' = [thread |-> "none", posted |-> check.posted - 1, checking |-> FALSE, haveStatus |-> TRUE]
    BY Zenon, <1>6 DEF LinkDone
  <2>3. check.posted - 1 \in 0 .. 2
    BY <2>1
  <2>4. check' \in CheckStates
    BY Zenon, <2>2, <2>3 DEF CheckStates
  <2>5. check'.thread = "none" /\ check'.posted <= 1
    BY <2>1, <2>2
  <2> QED BY Zenon, <1>1, <1>2, <2>1, <2>4, <2>5 DEF PwCheck
<1> QED BY Zenon, <1>4, <1>5, <1>6

\* Leaving the connect page, and the removal that begins and ends there.
LEMMA ConnectStep ==
  ASSUME PwInv, SetupAgain \/ ConnectRemove \/ RemoveDone \/ ConnectClose
  PROVE  PwInv'
<1> USE DEF PwInv
<1>0. /\ page = "connect" /\ UNCHANGED <<mac, tunnel, settings, dlg>> /\ PwShape
      /\ w.at = "idle" \/ w.at = "unDone"
  BY Zenon DEF SetupAgain, ConnectRemove, RemoveDone, ConnectClose, MayCommand
<1>1. CASE ConnectRemove
  <2>1. PICK a \in {"unMac", "unPc"} : w' = [Idle EXCEPT !.at = a, !.m = settings]
    BY Zenon, <1>1 DEF ConnectRemove
  <2>2. w' \in WorkerStates
    BY Zenon, <1>0, <2>1 DEF Idle, WorkerStates, UnpairAt, PwShape
  <2>3. w'.at \in UnpairAt /\ w'.at \notin SetupAt /\ w'.at # "idle"
    BY Zenon, <2>1, Apart DEF Idle, UnpairAt
  <2>4. hist' = [hist EXCEPT !.changing = TRUE] /\ page' = page
    BY Zenon, <1>1 DEF ConnectRemove
  <2>5. hist' \in HistStates
    BY Zenon, <1>0, <2>4 DEF PwShape, HistStates
  <2>6. hist'.changing
    BY Zenon, <1>0, <2>4 DEF PwShape, HistStates
  <2>7. check' = [check EXCEPT !.thread = "none", !.checking = FALSE, !.haveStatus = FALSE]
    BY Zenon, <1>1 DEF ConnectRemove
  <2>8. check' \in CheckStates
    BY Zenon, <2>7 DEF PwCheck, CheckStates
  <2>9. check'.thread = "none"
    BY Zenon, <2>7 DEF PwCheck, CheckStates
  <2>10. PwShape' /\ SavedMeansPaired' /\ PwWhere' /\ PwCheck'
    BY Zenon, <1>0, <2>2, <2>3, <2>4, <2>5, <2>6, <2>8, <2>9 DEF PwShape, SavedMeansPaired, PwWhere, PwCheck
  <2>11. PwRun'
    BY Zenon, <2>3 DEF PwRun, SetupAt, Before, Between, After, AtEnd
  <2> QED BY Zenon, <2>10, <2>11
<1>2. CASE SetupAgain \/ RemoveDone \/ ConnectClose
  <2>0. Idle \in WorkerStates /\ Idle.at = "idle"
    BY Zenon DEF Idle, WorkerStates
  <2>1. /\ check' = NoCheck /\ page' \in {"setup", "main", "exit"} /\ hist' = hist
        /\ (w.at = "idle" /\ w' = w) \/ w' = Idle
    BY Zenon, <1>2 DEF SetupAgain, RemoveDone, ConnectClose, MayCommand
  <2>2. w' \in WorkerStates /\ w'.at = "idle"
    BY Zenon, <1>0, <2>0, <2>1 DEF PwShape
  <2>3. PwShape' /\ SavedMeansPaired'
    BY Zenon, <1>0, <2>1, <2>2 DEF PwShape, SavedMeansPaired, Paired
  <2>4. w'.at \notin UnpairAt /\ w'.at \notin SetupAt
    BY Zenon, <2>2, Apart
  <2>5. PwWhere' /\ PwCheck'
    BY <2>1, <2>4 DEF PwWhere, PwCheck, NoCheck, CheckStates
  <2>6. PwRun'
    BY Zenon, <2>4 DEF PwRun, SetupAt, Before, Between, After, AtEnd
  <2> QED BY Zenon, <2>3, <2>5, <2>6
<1> QED BY Zenon, <1>1, <1>2

\* The launcher's loop, and the process that ends anywhere and is started again.
LEMMA LauncherStep == ASSUME PwInv, RunGui \/ Kill \/ Relaunch PROVE PwInv'
<1> USE DEF PwInv
<1>1. CASE RunGui \/ Relaunch
  <2>1. page \in {"main", "exit"} /\ UNCHANGED <<mac, tunnel, settings, dlg, w, hist>>
    BY Zenon, <1>1 DEF RunGui, Relaunch
  <2>2. w.at \notin UnpairAt /\ w.at \notin SetupAt /\ check = NoCheck
    BY Zenon, <2>1 DEF PwWhere, PwCheck
  <2>3. /\ page' \in {"main", "setup", "connect", "exit"}
        /\ check' = NoCheck \/ (page' = "connect" /\ check' = CheckStarted(NoCheck))
    BY Zenon, <1>1, <2>2 DEF RunGui, Relaunch
  <2>4. PwShape' /\ SavedMeansPaired' /\ PwWhere'
    BY Zenon, <2>1, <2>2, <2>3 DEF PwShape, SavedMeansPaired, Paired, PwWhere
  <2>5. PwCheck'
    <3>1. NoCheck \in CheckStates /\ NoCheck.posted = 0 /\ NoCheck.thread = "none"
      BY DEF NoCheck, CheckStates
    <3>2. CASE check' = NoCheck
      BY <3>1, <3>2 DEF PwCheck
    <3>3. CASE page' = "connect" /\ check' = CheckStarted(NoCheck)
      <4>1. check' \in CheckStates
        BY Zenon, <3>1, <3>3 DEF CheckStarted, CheckStates
      <4>2. check'.posted = 0 /\ check'.checking /\ ~check'.haveStatus
        BY Zenon, <3>1, <3>3 DEF CheckStarted, CheckStates
      <4> QED BY <3>3, <4>1, <4>2 DEF PwCheck
    <3> QED BY Zenon, <2>3, <3>2, <3>3
  <2>6. PwRun'
    BY Zenon, <2>1, <2>2 DEF PwRun, SetupAt, Before, Between, After, AtEnd
  <2> QED BY Zenon, <2>4, <2>5, <2>6
<1>2. CASE Kill
  <2>1. /\ page' = "exit" /\ dlg' = NoDlg /\ w' = Idle /\ check' = NoCheck
        /\ UNCHANGED <<mac, tunnel, hist>>
    BY Zenon, <1>2 DEF Kill
  <2>2. settings' \in {settings, NoMac}
    BY Zenon, <1>2 DEF Kill, TornSettings
  <2>3. Idle \in WorkerStates /\ NoDlg \in DlgStates
    BY Zenon DEF Idle, WorkerStates, NoDlg, DlgStates
  <2>4. w'.at \notin UnpairAt /\ w'.at \notin SetupAt
    BY Zenon, <2>1, Apart DEF Idle
  <2>5. PwShape' /\ SavedMeansPaired'
    BY Zenon, <2>1, <2>2, <2>3 DEF PwShape, SavedMeansPaired, Paired
  <2>6. PwWhere' /\ PwCheck'
    BY <2>1, <2>4 DEF PwWhere, PwCheck, NoCheck, CheckStates
  <2>7. PwRun'
    BY Zenon, <2>4 DEF PwRun, SetupAt, Before, Between, After, AtEnd
  <2> QED BY Zenon, <2>5, <2>6, <2>7
<1> QED BY Zenon, <1>1, <1>2

\* Whatever Macs there are, and whatever fails, is cancelled or is killed when: run_setup, the
\* settings and the launcher never say of the pairing what is not so.
THEOREM WizardTellsTruth == PwSpec => []WizardIsTrue
<1>1. PwInit => PwInv
  <2> SUFFICES ASSUME PwInit PROVE PwInv
    OBVIOUS
  <2> USE DEF PwInit
  <2>1. w.at \notin UnpairAt /\ w.at \notin SetupAt
    BY Zenon, Apart DEF Idle
  <2>2. Idle \in WorkerStates /\ NoDlg \in DlgStates /\ Clean \in MacStates /\ hist \in HistStates
    BY Zenon DEF Idle, WorkerStates, NoDlg, DlgStates, Clean, MacStates, HistStates
  <2>3. PwShape /\ SavedMeansPaired
    BY Zenon, <2>2 DEF PwShape, SavedMeansPaired
  <2>4. PwWhere /\ PwCheck
    BY <2>1 DEF PwWhere, PwCheck, NoCheck, CheckStates
  <2>5. PwRun
    BY Zenon, <2>1 DEF PwRun, SetupAt, Before, Between, After, AtEnd
  <2> QED BY Zenon, <2>3, <2>4, <2>5 DEF PwInv
<1>2. PwInv /\ [PwNext]_pwVars => PwInv'
  <2>1. ASSUME PwInv, UNCHANGED pwVars PROVE PwInv'
    BY <2>1 DEF pwVars, PwInv, PwShape, PwWhere, PwCheck, PwRun, SavedMeansPaired, Paired, Blocked
  <2>2. ASSUME PwInv, NEW l \in SshSteps, Ssh(l) PROVE PwInv'
    BY Zenon, <2>2, CommandStep, FailStep DEF Ssh
  <2>3. ASSUME PwInv, Worker \/ Copy PROVE PwInv'
    <3>1. CASE \E l \in SshSteps : Ssh(l)
      BY Zenon, <2>2, <2>3, <3>1
    <3>2. CASE Enter \/ InstallTunnel \/ Save \/ Verify \/ Probe \/ Rollback \/ Cleanup
               \/ UnpairMac \/ UnpairPc \/ UnpairSettings
      BY Zenon, <2>3, <3>2, EnterStep, InstallStep, SaveStep, LookStep, RollbackStep, UnpairStep
    <3> QED BY Zenon, <2>3, <3>1, <3>2 DEF Worker, Copy, Dial, SignIn, MakeFolder, Preflight, InitMac,
                                    PairMac, EnableSharing, SshSteps
  <2> QED BY Zenon, <2>1, <2>3, DialogStep, CheckStep, ConnectStep, LauncherStep DEF PwNext
<1>3. PwInv => WizardIsTrue
  <2> SUFFICES ASSUME PwInv PROVE WizardIsTrue
    OBVIOUS
  <2> USE DEF PwInv
  <2>1. PwTypeOK
    BY Zenon DEF PwShape, PwCheck, PwTypeOK, CheckStates, MacStates, DlgStates, WorkerStates
  <2>2. BlockedIsReported /\ ReadyIsPaired
    BY Zenon DEF PwRun, BlockedIsReported, ReadyIsPaired, AtEnd
  <2>3. DialogOutlivesWorker
    BY Zenon DEF PwShape, PwWhere, WorkerStates, DialogOutlivesWorker, UnpairAt
  <2>4. StatusIsLatest
    BY Zenon DEF PwCheck, StatusIsLatest
  <2> QED BY Zenon, <2>1, <2>2, <2>3, <2>4 DEF WizardIsTrue, PairingIsTold, PagesFollowWorkers
<1> QED BY <1>1, <1>2, <1>3, PTL DEF PwSpec

=============================================================================
