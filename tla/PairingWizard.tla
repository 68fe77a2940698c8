--------------------------- MODULE PairingWizard ----------------------------
(***************************************************************************)
(* Pairing this PC with a Mac from the launcher: the set-up dialog, its    *)
(* worker run_setup (src/src/app/setup.cpp) over an SSH connection         *)
(* (ssh_client.cpp), the connect page with its link check and its removal  *)
(* worker run_unpair, and run_gui, which goes from one page to the other   *)
(* (gui.cpp).                                                              *)
(*                                                                         *)
(* The dialogs run on the UI thread; the worker runs beside them and meets *)
(* them in the cancel flag and in the message it posts at its end.  A      *)
(* command sent over SSH takes effect on the Mac or does not, and the call *)
(* returns, fails or times out independently of that.                      *)
(* install_windows_tunnel is one step here (TunnelInstall has its steps).  *)
(***************************************************************************)
EXTENDS Integers, Sequences

CONSTANTS
    Mac,    \* Macs the user may type the address of
    NoMac   \* no settings file; no tunnel on this PC

ASSUME WizardAssumption == NoMac \notin Mac

VARIABLES
    mac,        \* each Mac: [init: its PF anchor and daemon are in place, peer: this PC is its peer]
    tunnel,     \* the Mac the tunnel of this PC is configured for, or NoMac
    settings,   \* the Mac of a settings file with paired=1, or NoMac
    page,       \* what run_gui shows: "setup", "connect", "main" between them, "exit"
    dlg,        \* SetupCtx: [running, doneOk, closeOk, cancel]
    w,          \* the worker of either page: its next step and its locals
    check,      \* ConnectCtx: [thread, posted, checking, haveStatus]
    hist        \* history: [before: w.m when run_setup began, initFailed, undoFailed, changing]

pwVars == <<mac, tunnel, settings, page, dlg, w, check, hist>>

Clean == [init |-> FALSE, peer |-> FALSE]
Idle == [at |-> "idle", busy |-> FALSE, m |-> NoMac, rollback |-> FALSE, said |-> "", ok |-> FALSE]
NoDlg == [running |-> FALSE, doneOk |-> FALSE, closeOk |-> FALSE, cancel |-> FALSE]
NoCheck == [thread |-> "none", posted |-> 0, checking |-> FALSE, haveStatus |-> FALSE]

PwInit ==
    /\ mac = [m \in Mac |-> Clean]
    /\ tunnel = NoMac
    /\ settings = NoMac
    /\ page = "main"
    /\ dlg = NoDlg
    /\ w = Idle
    /\ check = NoCheck
    /\ hist = [before |-> Clean, initFailed |-> FALSE, undoFailed |-> FALSE, changing |-> FALSE]

-----------------------------------------------------------------------------
(* run_setup.  w.at is the step it comes to; w.busy says that step() let   *)
(* it through, so that its command is under way.                           *)

Order == <<"dial", "signin", "tmp", "copy", "preflight", "init", "install", "pair", "save",
           "sharing", "verify", "probe">>
NextStep(l) == Order[1 + CHOOSE i \in 1 .. Len(Order) : Order[i] = l]

NoStep == {"signin", "copy", "save", "probe"}     \* reached without a step() before them

\* Mutant: the flag falls before the Mac has accepted the peer.
AdvanceEarly == w' = [w EXCEPT !.at = NextStep(@), !.busy = NextStep(w.at) \in NoStep,
                               !.rollback = w.at = "init"]

Advance == w' = [w EXCEPT !.at = NextStep(@), !.busy = NextStep(w.at) \in NoStep,
                          !.rollback = IF w.at = "pair" THEN FALSE ELSE w.at = "init" \/ @]

\* The three catch blocks: undo the Mac if it needs it, then the Cleanup destructor.
Throw(undo) ==
    w' = [w EXCEPT !.at = IF undo THEN "rollback" ELSE "cleanup", !.busy = FALSE,
                   !.said = IF undo THEN "" ELSE "nothing"]

\* step(): a cancel that is already there ends the run between two steps.
Enter ==
    /\ w.at \in {Order[i] : i \in 1 .. Len(Order)} \ NoStep
    /\ ~w.busy
    /\ IF dlg.cancel THEN Throw(w.rollback) ELSE w' = [w EXCEPT !.busy = TRUE]
    /\ UNCHANGED <<mac, tunnel, settings, page, dlg, check, hist>>

\* What a helper command does to the Mac it runs on: init keeps a peer it knows.
Effect(l, s) == CASE l = "init" -> [s EXCEPT !.init = TRUE]
                  [] l = "pair" -> [s EXCEPT !.peer = s.init]
                  [] l = "uninstall" -> Clean
                  [] OTHER -> s

Remote(l) == mac' = [mac EXCEPT ![w.m] = Effect(l, @)]

\* exec() returns with the exit code the step requires.
Command(l) ==
    /\ w.at = l /\ w.busy
    /\ Remote(l)
    /\ Advance \/ (l = "init" /\ Throw(TRUE))   \* init printed no pairing code
    /\ UNCHANGED <<tunnel, settings, page, dlg, check, hist>>

\* Mutant: nobody requires the exit code.
CommandFailsUnseen(l) ==
    /\ w.at = l /\ w.busy
    /\ UNCHANGED mac
    /\ Advance
    /\ UNCHANGED <<tunnel, settings, page, dlg, check, hist>>

\* They throw (deadline, cancel, lost connection) or the exit code is an error.
CommandFails(l) ==
    /\ w.at = l /\ w.busy
    /\ Remote(l) \/ UNCHANGED mac
    /\ Throw(w.rollback)
    /\ hist' = [hist EXCEPT !.initFailed = @ \/ l = "init"]
    /\ UNCHANGED <<tunnel, settings, page, dlg, check>>

Ssh(l) == Command(l) \/ CommandFails(l)

Dial == Ssh("dial")             \* connect_with_timeout
SignIn == Ssh("signin")         \* handshake, pinned host key, password
MakeFolder == Ssh("tmp")
Copy == Ssh("copy")             \* upload() has no deadline of its own
Preflight == Ssh("preflight")
InitMac == Ssh("init")
PairMac == Ssh("pair")
EnableSharing == Ssh("sharing")

\* Mutant: the settings are saved before the Mac has been asked to pair.
InstallSaves ==
    /\ w.at = "install" /\ w.busy
    /\ tunnel' = w.m /\ settings' = w.m /\ Advance
    /\ hist' = [hist EXCEPT !.changing = FALSE]
    /\ UNCHANGED <<mac, page, dlg, check>>

\* Step 5.  A failure has been rolled back on this PC.
InstallTunnel ==
    /\ w.at = "install" /\ w.busy
    /\ \/ tunnel' = w.m /\ Advance
       \/ UNCHANGED tunnel /\ Throw(w.rollback)
    /\ UNCHANGED <<mac, settings, page, dlg, check, hist>>

\* paired is the last line of the file: what is left of a write reads as not paired.
TornSettings == {settings, NoMac}

\* Both halves trust each other.  A write that fails can leave nothing readable.
Save ==
    /\ w.at = "save"
    /\ \/ settings' = w.m /\ Advance /\ hist' = [hist EXCEPT !.changing = FALSE]
       \/ settings' \in TornSettings /\ Throw(FALSE) /\ UNCHANGED hist
    /\ UNCHANGED <<mac, tunnel, page, dlg, check>>

\* Step 8: ping_peer, query_status and probe_rfb only report.  No handshake ends the run.
Verify ==
    /\ w.at = "verify" /\ w.busy
    /\ Advance \/ w' = [w EXCEPT !.at = "cleanup", !.busy = FALSE]
    /\ UNCHANGED <<mac, tunnel, settings, page, dlg, check, hist>>

Probe ==
    /\ w.at = "probe"
    /\ \E ok \in BOOLEAN : w' = [w EXCEPT !.at = "cleanup", !.busy = FALSE, !.ok = ok]
    /\ UNCHANGED <<mac, tunnel, settings, page, dlg, check, hist>>

\* Mutant: the undo is tried until it succeeds.
RollbackUntilDone ==
    /\ w.at = "rollback"
    /\ w' = IF dlg.cancel THEN [w EXCEPT !.busy = ~@] ELSE [w EXCEPT !.at = "cleanup", !.busy = FALSE]
    /\ UNCHANGED <<mac, hist, tunnel, settings, page, dlg, check>>

\* rollback_mac: uninstall over the same connection, whose waits still honour the cancel.
Rollback ==
    /\ w.at = "rollback"
    /\ \/ /\ ~w.busy /\ ~dlg.cancel
          /\ w' = [w EXCEPT !.busy = TRUE]
          /\ UNCHANGED <<mac, hist>>
       \/ /\ ~w.busy /\ dlg.cancel
          /\ w' = [w EXCEPT !.at = "cleanup", !.said = "stuck"]
          /\ UNCHANGED <<mac, hist>>
       \/ /\ w.busy
          /\ Remote("uninstall")
          /\ w' = [w EXCEPT !.at = "cleanup", !.busy = FALSE, !.said = "restored"]
          /\ UNCHANGED hist
       \/ /\ w.busy
          /\ Remote("uninstall") \/ UNCHANGED mac
          /\ w' = [w EXCEPT !.at = "cleanup", !.busy = FALSE, !.said = "stuck"]
          /\ hist' = [hist EXCEPT !.undoFailed = TRUE]
    /\ UNCHANGED <<tunnel, settings, page, dlg, check>>

\* ~Cleanup removes the remote folder if it can; the worker posts WM_SETUP_DONE.
Cleanup ==
    /\ w.at = "cleanup"
    /\ w' = [w EXCEPT !.at = "finished"]
    /\ UNCHANGED <<mac, tunnel, settings, page, dlg, check, hist>>

-----------------------------------------------------------------------------
(* run_unpair: each part swallows its own failure.                         *)

UnpairMac ==
    /\ w.at = "unMac"
    /\ Remote("uninstall") \/ UNCHANGED mac
    /\ w' = [w EXCEPT !.at = "unPc"]
    /\ UNCHANGED <<tunnel, settings, page, dlg, check, hist>>

UnpairPc ==
    /\ w.at = "unPc"
    /\ tunnel' \in {NoMac, tunnel}
    /\ w' = [w EXCEPT !.at = "unSettings"]
    /\ UNCHANGED <<mac, settings, page, dlg, check, hist>>

UnpairSettings ==
    /\ w.at = "unSettings"
    /\ settings' = NoMac
    /\ w' = [w EXCEPT !.at = "unDone"]
    /\ UNCHANGED <<mac, tunnel, page, dlg, check, hist>>

-----------------------------------------------------------------------------
(* The set-up dialog.                                                      *)

\* setup_start: the fields are filled in and name a Mac.
SetupStart(m) ==
    /\ page = "setup"
    /\ ~dlg.running /\ ~dlg.doneOk
    /\ dlg' = [dlg EXCEPT !.running = TRUE, !.cancel = FALSE]
    /\ w' = [Idle EXCEPT !.at = "dial", !.m = m]
    /\ hist' = [before |-> mac[m], initFailed |-> FALSE, undoFailed |-> FALSE,
                changing |-> settings # NoMac]
    /\ UNCHANGED <<mac, tunnel, settings, page, check>>

SetupCancel ==
    /\ page = "setup" /\ dlg.running /\ ~dlg.cancel
    /\ dlg' = [dlg EXCEPT !.cancel = TRUE]
    /\ UNCHANGED <<mac, tunnel, settings, page, w, check, hist>>

\* setup_finish, on WM_SETUP_DONE.
SetupFinish ==
    /\ page = "setup" /\ w.at = "finished"
    /\ dlg' = [dlg EXCEPT !.running = FALSE, !.doneOk = w.ok,
                          !.closeOk = IF w.ok THEN @ ELSE settings # NoMac]
    /\ w' = Idle
    /\ UNCHANGED <<mac, tunnel, settings, page, check, hist>>

\* Mutant: Cancel ends the dialog at once.
SetupCloseAnyTime ==
    /\ page = "setup"
    /\ page' = IF dlg.doneOk \/ dlg.closeOk THEN "main" ELSE "exit"
    /\ dlg' = NoDlg
    /\ UNCHANGED <<mac, tunnel, settings, w, check, hist>>

\* Open, Close, or Cancel with no run under way; run_gui quits unless it gets IDOK.
SetupClose ==
    /\ page = "setup" /\ ~dlg.running
    /\ page' = IF dlg.doneOk \/ dlg.closeOk THEN "main" ELSE "exit"
    /\ dlg' = NoDlg
    /\ UNCHANGED <<mac, tunnel, settings, w, check, hist>>

-----------------------------------------------------------------------------
(* The connect page.  Its commands do nothing while the pairing is being   *)
(* removed; all of them but Check first join the checker thread.           *)

CheckStarted(c) == [c EXCEPT !.thread = "running", !.checking = TRUE, !.haveStatus = FALSE]
MayCommand == page = "connect" /\ w.at = "idle"
PwJoined == check.thread # "running"

\* connect_start_check; a finished thread is joined first.
StartCheck ==
    /\ MayCommand /\ ~check.checking
    /\ PwJoined
    /\ check' = CheckStarted(check)
    /\ UNCHANGED <<mac, tunnel, settings, page, dlg, w, hist>>

\* check_link returns and posts WM_LINK_DONE.
CheckEnds ==
    /\ check.thread = "running"
    /\ check' = [check EXCEPT !.thread = "ended", !.posted = @ + 1]
    /\ UNCHANGED <<mac, tunnel, settings, page, dlg, w, hist>>

\* Mutant: the message of an earlier check is shown without joining the present one.
LinkDoneAtOnce ==
    /\ page = "connect" /\ check.posted > 0
    /\ check' = [check EXCEPT !.posted = @ - 1, !.checking = FALSE, !.haveStatus = TRUE]
    /\ UNCHANGED <<mac, tunnel, settings, page, dlg, w, hist>>

\* Mutant: the flag that a check is under way is not lowered.
LinkDoneStillChecking ==
    /\ page = "connect" /\ check.posted > 0 /\ PwJoined
    /\ check' = [check EXCEPT !.thread = "none", !.posted = @ - 1, !.haveStatus = TRUE]
    /\ UNCHANGED <<mac, tunnel, settings, page, dlg, w, hist>>

\* Mutant: one message is handled twice.
LinkDoneTwice ==
    /\ page = "connect" /\ check.posted > 0 /\ PwJoined
    /\ check' = [thread |-> "none", posted |-> check.posted - 2, checking |-> FALSE,
                 haveStatus |-> TRUE]
    /\ UNCHANGED <<mac, tunnel, settings, page, dlg, w, hist>>

\* connect_show_status.
LinkDone ==
    /\ page = "connect" /\ check.posted > 0 /\ PwJoined
    /\ check' = [thread |-> "none", posted |-> check.posted - 1, checking |-> FALSE,
                 haveStatus |-> TRUE]
    /\ UNCHANGED <<mac, tunnel, settings, page, dlg, w, hist>>

\* connect_run_viewer: the sessions, reconnects included, then a new check.
RunViewer ==
    /\ MayCommand /\ PwJoined
    /\ check.posted < 2     \* bound: messages nobody has handled yet
    /\ check' = CheckStarted(check)
    /\ UNCHANGED <<mac, tunnel, settings, page, dlg, w, hist>>

SetupAgain ==
    /\ MayCommand /\ PwJoined
    /\ page' = "setup"
    /\ check' = NoCheck
    /\ UNCHANGED <<mac, tunnel, settings, dlg, w, hist>>

\* connect_remove, with the Mac's password or without.
ConnectRemove ==
    /\ MayCommand /\ PwJoined
    /\ \E at \in {"unMac", "unPc"} : w' = [Idle EXCEPT !.at = at, !.m = settings]
    /\ check' = [check EXCEPT !.thread = "none", !.checking = FALSE, !.haveStatus = FALSE]
    /\ hist' = [hist EXCEPT !.changing = TRUE]
    /\ UNCHANGED <<mac, tunnel, settings, page, dlg>>

\* connect_remove_done, on WM_UNPAIR_DONE.
RemoveDone ==
    /\ page = "connect" /\ w.at = "unDone"
    /\ page' = "main"
    /\ w' = Idle
    /\ check' = NoCheck
    /\ UNCHANGED <<mac, tunnel, settings, dlg, hist>>

ConnectClose ==
    /\ MayCommand /\ PwJoined
    /\ page' = "exit"
    /\ check' = NoCheck
    /\ UNCHANGED <<mac, tunnel, settings, dlg, w, hist>>

-----------------------------------------------------------------------------

\* The loop of run_gui reads the settings again; the connect page starts a check.
RunGui ==
    /\ page = "main"
    /\ IF settings = NoMac THEN page' = "setup" /\ UNCHANGED check
                           ELSE page' = "connect" /\ check' = CheckStarted(NoCheck)
    /\ UNCHANGED <<mac, tunnel, settings, dlg, w, hist>>

\* The process is killed, in the middle of a write perhaps.
Kill ==
    /\ page \in {"setup", "connect"}
    /\ page' = "exit"
    /\ dlg' = NoDlg /\ w' = Idle /\ check' = NoCheck
    /\ settings' \in IF w.at = "save" THEN TornSettings ELSE {settings}
    /\ UNCHANGED <<mac, tunnel, hist>>

Relaunch ==
    /\ page = "exit"
    /\ page' = "main"
    /\ UNCHANGED <<mac, tunnel, settings, dlg, w, check, hist>>

Worker ==
    \/ Enter \/ Dial \/ SignIn \/ MakeFolder \/ Preflight \/ InitMac \/ InstallTunnel \/ PairMac \/ Save
    \/ EnableSharing \/ Verify \/ Probe \/ Rollback \/ Cleanup
    \/ UnpairMac \/ UnpairPc \/ UnpairSettings

PwNext ==
    \/ Worker \/ Copy
    \/ \E m \in Mac : SetupStart(m)
    \/ SetupCancel \/ SetupFinish \/ SetupClose
    \/ StartCheck \/ CheckEnds \/ LinkDone
    \/ RunViewer \/ SetupAgain \/ ConnectRemove \/ RemoveDone \/ ConnectClose
    \/ RunGui \/ Kill \/ Relaunch

\* Every exec has a deadline and the UI thread handles its messages; upload has no deadline
\* and only a cancel is sure to end it.
PwFairness ==
    /\ WF_pwVars(Worker) /\ WF_pwVars(dlg.cancel /\ Copy)
    /\ WF_pwVars(SetupFinish) /\ WF_pwVars(RemoveDone)
    /\ WF_pwVars(CheckEnds) /\ WF_pwVars(LinkDone)

PwSpec == PwInit /\ [][PwNext]_pwVars /\ PwFairness

-----------------------------------------------------------------------------

\* The values each variable takes.
PwTypeOK ==
    /\ mac \in [Mac -> [init : BOOLEAN, peer : BOOLEAN]]
    /\ tunnel \in Mac \cup {NoMac} /\ settings \in Mac \cup {NoMac}
    /\ page \in {"main", "setup", "connect", "exit"}
    /\ dlg \in [running : BOOLEAN, doneOk : BOOLEAN, closeOk : BOOLEAN, cancel : BOOLEAN]
    /\ w.m \in Mac \cup {NoMac} /\ w.said \in {"", "nothing", "restored", "stuck"}
    /\ check \in [thread : {"none", "running", "ended"}, posted : 0 .. 2,
                  checking : BOOLEAN, haveStatus : BOOLEAN]

Paired(m) == mac[m].init /\ mac[m].peer /\ tunnel = m
Blocked(m) == mac[m].init /\ ~mac[m].peer

\* run_setup ends with a Mac that blocks Screen Sharing for everyone and knows no peer only if
\* it says so, if init itself failed, or if it found the Mac like that (setup.cpp 227-258).
BlockedIsReported ==
    w.at = "finished" /\ Blocked(w.m) =>
        w.said = "stuck" \/ hist.initFailed \/ hist.before.init

\* "Your Mac is ready to use" (setup.cpp:415): the Mac knows this PC, the tunnel of this PC
\* leads to that Mac, and the settings name it, whatever failed or was killed before.
ReadyIsPaired == w.at = "finished" /\ w.ok => Paired(w.m) /\ settings = w.m

\* Settings that say paired were saved when both halves trusted each other (setup.cpp:363), and
\* only a later run of the set-up or of the removal can have made them untrue.
SavedMeansPaired == settings # NoMac /\ ~hist.changing => Paired(settings)

\* No dialog ends while its worker is changing the Mac and this PC (gui.cpp 343, 542): the
\* worker never runs without the page that shows its outcome.
DialogOutlivesWorker ==
    w.at # "idle" => IF w.at \in {"unMac", "unPc", "unSettings", "unDone"}
                     THEN page = "connect"
                     ELSE page = "setup" /\ dlg.running

\* The connect page shows the result of a check only when no other check is under way, though
\* the message of an earlier check may still be in the queue (gui.cpp 407-418, 433).
StatusIsLatest == check.haveStatus => check.thread # "running"

\* A run of the set-up ends, except in an upload that nobody cancels (ssh_client.cpp 314-330).
SetupSettles == dlg.running ~> ~dlg.running \/ (w.at = "copy" /\ ~dlg.cancel)

\* A check that was started is eventually shown or abandoned with its page (gui.cpp 395-418).
CheckSettles == check.checking ~> ~check.checking

\* "any failure has to put the Mac back" (setup.cpp:229): a Mac that was untouched before a run
\* that failed is not left blocked by it, unless init or the undo command itself failed.
AnyFailurePutsMacBack ==
    w.at = "finished" /\ ~w.ok /\ hist.before = Clean =>
        ~Blocked(w.m) \/ hist.initFailed \/ hist.undoFailed

\* What run_setup reports and the settings say of the pairing is so: ready, paired, or blocked.
PairingIsTold == PwTypeOK /\ BlockedIsReported /\ ReadyIsPaired /\ SavedMeansPaired

\* The pages outlive their workers and show the latest check.
PagesFollowWorkers == DialogOutlivesWorker /\ StatusIsLatest

\* Nothing the wizard or the launcher shows is untrue or out of date.
WizardIsTrue == PairingIsTold /\ PagesFollowWorkers

\* Set-up and check come to their ends.
PagesSettle == SetupSettles /\ CheckSettles

=============================================================================
