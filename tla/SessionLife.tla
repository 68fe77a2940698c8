---------------------------- MODULE SessionLife ------------------------------
(***************************************************************************)
(* One viewer run: run_viewer (src/src/app/viewer.cpp) drives a Session    *)
(* (src/src/session/session.cpp) through connect, render and close, while  *)
(* the handshake (src/src/protocol/negotiation.cpp) runs on a helper       *)
(* thread and the session's own threads come and go.                       *)
(*                                                                         *)
(* The user may close the window or type at any moment, the Mac may stop   *)
(* answering at any step, and the control connection may be lost.  Every   *)
(* wait of the code has a time-out, so every step of it eventually         *)
(* happens, with one of the outcomes below.  Replay mode is left out.      *)
(***************************************************************************)
EXTENDS FiniteSets, Naturals, Sequences

CONSTANTS
    SrpFirst,  \* srp_first
    Tries,     \* BURST_RETRY_ATTEMPTS
    Queries    \* 0x1c messages in all: one and DEGENERATE_RETRY_LIMIT more

ASSUME LifeAssumption == SrpFirst \in BOOLEAN /\ Tries \in Nat \ {0} /\ Queries \in Nat \ {0}

VARIABLES
    cfg,        \* what was asked for and what the Mac accepts
    v,          \* where run_viewer is
    exit,       \* the ViewerExit it returned
    closed,     \* the window was closed
    c,          \* where connect() is, on the helper thread
    h,          \* the handshake: connections and what was said on them
    try,        \* attempt of handshake_with_reconnect, from 1
    td,         \* step of teardown(), 0 outside
    flags,      \* cancel_, stop_ and connected_
    thr,        \* the session's threads, and the punch thread
    res,        \* members teardown() releases
    neg,        \* neg_: 0, or the attempt whose Result it holds
    ui,         \* the Result the window callback is using in send_ctrl, 0 outside
    fault,      \* history: something failed that was not asked to
    lost        \* history: when the control connection was lost

lifeVars == <<cfg, v, exit, closed, c, h, try, td, flags, thr, res, neg, ui, fault, lost>>

Method == {"srp", "nonsrp"}
Spawned == <<"packet", "ctrl", "audio", "tcp", "tx", "clip">>
Threads == {"packet", "ctrl", "audio", "tcp", "tx", "clip", "punch"}

\* teardown(), in order: stop_, the joins, then one member after the other.
Teardown == <<"stop", "join", "hook", "decoder", "rx", "udp", "neg", "pool">>

\* accepts: authentication methods the Mac takes;  mask: the session-select prompt's commands
\* (no prompt when it is empty).
Config == [alt : BOOLEAN, accepts : SUBSET Method, mask : SUBSET {0, 2}]

NoHandshake == [n |-> 0, open |-> {}, sock |-> 0, key |-> 0, alt |-> FALSE, cmd |-> "none",
                cipher |-> 0, sent |-> 0, flags |-> 0, dims |-> FALSE, second |-> FALSE]

SlInit ==
    /\ cfg \in Config
    /\ v = "start" /\ exit = "none" /\ closed = FALSE
    /\ c = "idle" /\ h = NoHandshake /\ try = 0 /\ td = 0
    /\ flags = [cancel |-> FALSE, stop |-> FALSE, connected |-> FALSE]
    /\ thr = [t \in Threads |-> "none"]
    /\ res = {} /\ neg = 0 /\ ui = 0
    /\ fault = FALSE /\ lost = "no"

viewerVars == <<cfg, v, exit, closed, ui, lost>>
sharedVars == <<flags, thr, res, neg>>

-----------------------------------------------------------------------------
(* connect(), up to the end of the handshake.                              *)

At(l) == c = l /\ td = 0

\* An exception leaves the phase: the sockets it had on its stack are closed.
Throws ==
    /\ c' = "throw"
    /\ h' = NoHandshake
    /\ UNCHANGED <<try, td, viewerVars, sharedVars>>

\* A read times out, the Mac closes, or the read sees the cancel.
Fails == Throws /\ fault' = TRUE

Phase(to, nh) ==
    /\ c' = to /\ h' = nh
    /\ UNCHANGED <<try, td, fault, viewerVars, sharedVars>>

BindUdp ==
    /\ At("bind")
    /\ \/ /\ res' = res \cup {"udp"} /\ c' = "warmup"
          /\ UNCHANGED <<h, try, td, fault, viewerVars, flags, thr, neg>>
       \/ Fails

\* TcpSocket::connect: a new connection is the one in use.
Dialled(g) == [g EXCEPT !.n = @ + 1, !.open = @ \cup {g.n + 1}, !.sock = g.n + 1]

\* Mutant: the socket is forgotten, not closed.
HangUpForgets(g) == [g EXCEPT !.sock = 0]

\* TcpSocket::close
HangUp(g) == [g EXCEPT !.open = @ \ {g.sock}, !.sock = 0]

\* warmup_tcp opens a connection of its own, ...
WarmupTcp ==
    \/ At("warmup") /\ ~flags.cancel /\ Phase("dwell", Dialled(h))
    \/ At("dwell") /\ Phase("check", HangUp(h))

\* ... and a failure of it is only logged.
SkipWarmup == At("warmup") /\ Phase("check", h)

\* The first cancel check; then the punch thread starts.
StartPunch ==
    /\ At("check")
    /\ \/ flags.cancel /\ Throws /\ UNCHANGED fault
       \/ /\ ~flags.cancel
          /\ thr' = [thr EXCEPT !["punch"] = "run"]
          /\ c' = "dial" /\ try' = 1 /\ h' = [NoHandshake EXCEPT !.alt = cfg.alt]
          /\ UNCHANGED <<td, fault, viewerVars, flags, res, neg>>

\* A connection and the version exchange.
OpenAndHandshake ==
    /\ c \in {"dial", "redial"} /\ td = 0
    /\ \/ /\ ~flags.cancel
          /\ Phase(IF c = "dial" THEN "auth" ELSE "fallback", Dialled(h))
       \/ Fails

\* Mutant: SRP is never accepted.
DoSrpAuthRefuses == "AuthError"

\* do_srp_auth and do_nonsrp_auth: a method the Mac does not take, or a refused password, is an
\* AuthError.
DoSrpAuth == IF "srp" \in cfg.accepts THEN "ok" ELSE "AuthError"
DoNonSrpAuth == IF "nonsrp" \in cfg.accepts THEN "ok" ELSE "AuthError"

\* phase_auth: an AuthError of the first method closes the connection and tries the other one.
PhaseAuth ==
    /\ c \in {"auth", "fallback"} /\ td = 0
    /\ \/ /\ ~flags.cancel
          /\ LET r == IF SrpFirst = (c = "auth") THEN DoSrpAuth ELSE DoNonSrpAuth
             IN  \/ r = "ok" /\ Phase("init", [h EXCEPT !.key = h.sock])
                 \/ /\ r = "AuthError" /\ c = "auth"
                    /\ Phase("redial", HangUp(h))
                 \/ r = "AuthError" /\ c = "fallback" /\ Throws /\ UNCHANGED fault
       \/ Fails

PhaseClientInit ==
    /\ At("init")
    /\ \/ ~flags.cancel /\ Phase(IF h.second THEN "select" ELSE "prompt", h)
       \/ Fails

\* peek_ss_prompt and peek_ss_flags.
Prompted == cfg.mask # {}
OnlyConsole == cfg.mask = {0}

\* The prompt is peeked at: an own session the Mac does not offer becomes a shared one; an own
\* session needs a second connection.  (on_session_choice is set by no caller.)
PeekPrompt ==
    /\ At("prompt")
    /\ \/ Fails
       \/ ~flags.cancel /\ ~Prompted /\ Phase("plain", h)
       \/ /\ ~flags.cancel /\ Prompted
          /\ IF h.alt /\ ~OnlyConsole
             THEN Phase("dial", [HangUp(h) EXCEPT !.second = TRUE])
             ELSE Phase("select", [h EXCEPT !.alt = FALSE])

\* Mutant: the command is chosen by what was asked for, not by what was settled.
SelectAsAsked ==
    /\ At("select")
    /\ \/ Phase("plain", h)
       \/ ~flags.cancel /\ Phase("plain", [h EXCEPT !.cmd = IF cfg.alt THEN "own" ELSE "share"])
       \/ Fails

\* phase_session_select: a prompt that does not come within half a second is skipped, and so is
\* a cancel seen by that read.
PhaseSessionSelect ==
    /\ At("select")
    /\ \/ Phase("plain", h)
       \/ ~flags.cancel /\ Phase("plain", [h EXCEPT !.cmd = IF h.alt THEN "own" ELSE "share"])
       \/ Fails

\* ViewerInfo, the virtual display and the encodings, in the clear.
PhasePlaintext == At("plain") /\ (Phase("enc", h) \/ Fails)

\* Mutant: the cipher keeps the key of the first connection.
ReadCipherFirstKey == At("enc") /\ (Phase("drain", [h EXCEPT !.cipher = 1]) \/ Fails)

\* read_until_enc1103: what was read before a cancel may be enough.
ReadCipher == At("enc") /\ (Phase("drain", [h EXCEPT !.cipher = h.key]) \/ Fails)

\* drain_through_cipher swallows every error.
DrainThroughCipher == At("drain") /\ Phase("offer", h)

\* The flags of the 0x1c message; bit 1 asks for the console's screen.
Build0x1c(alt, legacyCursor) == IF alt THEN 5 ELSE IF legacyCursor THEN 3 ELSE 7

SendOffer ==
    /\ At("offer")
    /\ \/ \E legacy \in BOOLEAN :
             Phase("answer", [h EXCEPT !.sent = 1, !.flags = Build0x1c(h.alt, legacy)])
       \/ Fails

\* read_video_answer: dimensions, or nothing within its time.
ReadVideoAnswer ==
    At("answer") /\ \E d \in BOOLEAN : Phase("canvas", [h EXCEPT !.dims = d])

\* The canvas is degenerate: ask again.
ReQuery ==
    /\ At("canvas") /\ ~h.dims /\ h.sent < Queries
    /\ \/ flags.cancel /\ Throws /\ UNCHANGED fault
       \/ ~flags.cancel /\ Phase("answer", [h EXCEPT !.sent = @ + 1])
       \/ ~flags.cancel /\ Fails

\* The Result keeps the socket and the cipher, ...
MakeResult ==
    /\ At("canvas") /\ (h.dims \/ h.sent = Queries)
    /\ Phase("store", [NoHandshake EXCEPT !.open = h.open, !.sock = h.sock, !.cipher = h.cipher])

\* ... and becomes neg_.
StoreResult ==
    /\ At("store")
    /\ neg' = try /\ c' = "burst"
    /\ UNCHANGED <<h, try, td, fault, viewerVars, flags, thr, res>>

\* Mutant: the attempts are not counted against the limit.
ReconnectForever ==
    /\ At("starved") /\ ~flags.cancel
    /\ neg' = 0 /\ try' = try + 1
    /\ h' = [NoHandshake EXCEPT !.alt = cfg.alt]
    /\ c' = "dial"
    /\ UNCHANGED <<td, fault, viewerVars, flags, thr, res>>

\* A starved burst: reset the connection, sleep, and start over.
Reconnect ==
    /\ At("starved") /\ try < Tries /\ ~flags.cancel
    /\ neg' = 0 /\ try' = try + 1
    /\ h' = [NoHandshake EXCEPT !.alt = cfg.alt]
    /\ c' = "dial"
    /\ UNCHANGED <<td, fault, viewerVars, flags, thr, res>>

\* Mutant: the last attempt's failure is not told from the others.
GiveUpOnCancel == At("starved") /\ flags.cancel /\ Phase("throw", h)

GiveUp == At("starved") /\ (try = Tries \/ flags.cancel) /\ Phase("throw", h)

\* negotiate_and_burst's drain (a cancel cuts it short) and handshake_with_reconnect.
DrainBurst ==
    \/ At("burst") /\ ~flags.cancel /\ Phase("punched", h)
    \/ At("burst") /\ c' = "starved" /\ fault' = TRUE
       /\ UNCHANGED <<h, try, td, viewerVars, sharedVars>>
    \/ Reconnect
    \/ GiveUp

Handshake ==
    \/ BindUdp \/ WarmupTcp \/ SkipWarmup \/ StartPunch \/ OpenAndHandshake \/ PhaseAuth
    \/ PhaseClientInit \/ PeekPrompt \/ PhaseSessionSelect \/ PhasePlaintext \/ ReadCipher
    \/ DrainThroughCipher \/ SendOffer \/ ReadVideoAnswer \/ ReQuery \/ MakeResult
    \/ StoreResult \/ DrainBurst

-----------------------------------------------------------------------------
(* The rest of connect_internal, connect() and teardown().                 *)

\* punch_stop and its join.
JoinPunch(to) ==
    /\ c' = to
    /\ thr' = [thr EXCEPT !["punch"] = "none"]
    /\ UNCHANGED <<h, try, td, fault, viewerVars, flags, res, neg>>

\* Decoder with its libav log hook, pool and assembler: one member after the other.
Acquire(from, r, to) ==
    /\ At(from)
    /\ \/ /\ res' = res \cup {r} /\ c' = to
          /\ UNCHANGED <<h, try, td, fault, viewerVars, flags, thr, neg>>
       \/ /\ c' = "throw" /\ fault' = TRUE
          /\ UNCHANGED <<h, try, td, viewerVars, sharedVars>>

\* The second cancel check: nothing long-lived starts after it saw the cancel.
ClearStop ==
    /\ At("check2")
    /\ \/ /\ flags.cancel /\ Phase("throw", h)
       \/ /\ ~flags.cancel
          /\ flags' = [flags EXCEPT !.stop = FALSE] /\ c' = "spawn"
          /\ UNCHANGED <<h, try, td, fault, viewerVars, thr, res, neg>>

\* spawn_threads, in its order.
SpawnThread ==
    /\ At("spawn")
    /\ \E i \in DOMAIN Spawned :
          /\ thr[Spawned[i]] = "none"
          /\ \A j \in 1 .. (i - 1) : thr[Spawned[j]] # "none"
          /\ thr' = [thr EXCEPT ![Spawned[i]] = "run"]
          /\ c' = IF i = Len(Spawned) THEN "return" ELSE "spawn"
    /\ UNCHANGED <<h, try, td, fault, viewerVars, flags, res, neg>>

\* The first FIRs, and connected_ = true.
ConnectReturns ==
    /\ At("return")
    /\ flags' = [flags EXCEPT !.connected = TRUE]
    /\ c' = "ok"
    /\ UNCHANGED <<h, try, td, fault, viewerVars, thr, res, neg>>

\* Mutant: teardown() does not wait for the threads.
JoinedNone == TRUE

SlJoined == \A t \in Threads : thr[t] # "run"

\* Mutant: the receiver is left for the next connect.
ReleasedButRx(r) == {r} \ {"rx"}

Released(r) == {r}

\* One step of teardown(), called by connect() on the helper thread or by close().
TeardownStep ==
    /\ td # 0
    /\ Teardown[td] = "join" => SlJoined
    /\ flags' = [flags EXCEPT !.stop = TRUE]
    /\ res' = res \ Released(Teardown[td])
    /\ neg' = IF Teardown[td] = "neg" THEN 0 ELSE neg
    /\ h' = IF Teardown[td] = "neg" THEN NoHandshake ELSE h
    /\ td' = (td + 1) % (Len(Teardown) + 1)
    /\ UNCHANGED <<thr, try, fault, cfg, closed, ui, lost>>

\* connect()'s catch: the punch thread is joined, everything released, and the error rethrown.
ConnectCatches ==
    \/ At("throw") /\ thr["punch"] = "run" /\ JoinPunch("throw")
    \/ /\ At("throw") /\ thr["punch"] # "run"
       /\ c' = "catch" /\ td' = 1
       /\ UNCHANGED <<h, try, fault, viewerVars, sharedVars>>
    \/ /\ c = "catch" /\ TeardownStep
       /\ c' = IF td' = 0 THEN "failed" ELSE c
       /\ UNCHANGED <<v, exit>>

Connect ==
    \/ Handshake
    \/ At("punched") /\ JoinPunch("decoder")
    \/ Acquire("decoder", "decoder", "hook") \/ Acquire("hook", "hook", "pool")
    \/ Acquire("pool", "pool", "check2")
    \/ ClearStop \/ SpawnThread \/ ConnectReturns \/ ConnectCatches

-----------------------------------------------------------------------------
(* The session's threads.                                                  *)

threadFrame == <<cfg, v, exit, closed, c, h, try, td, neg, ui, fault>>

\* packet_thread makes its receiver, whether or not stop_ is set by then.
PacketStart ==
    /\ thr["packet"] = "run" /\ "rx" \notin res
    /\ res' = res \cup {"rx"}
    /\ UNCHANGED <<threadFrame, flags, thr, lost>>

\* Mutant: tcp_thread reads without a time-out.
ThreadEndsButTcp(t) ==
    /\ t \notin {"punch", "tcp"} /\ thr[t] = "run" /\ flags.stop
    /\ t = "packet" => "rx" \in res
    /\ thr' = [thr EXCEPT ![t] = "ended"]
    /\ UNCHANGED <<threadFrame, flags, res, lost>>

\* A thread sees stop_ at its next turn (every wait of theirs is bounded, or woken by teardown).
ThreadEnds(t) ==
    /\ t # "punch" /\ thr[t] = "run" /\ flags.stop
    /\ t = "packet" => "rx" \in res
    /\ thr' = [thr EXCEPT ![t] = "ended"]
    /\ UNCHANGED <<threadFrame, flags, res, lost>>

\* Mutant: the read error only ends the thread.
TcpFailsQuietly ==
    /\ thr["tcp"] = "run"
    /\ thr' = [thr EXCEPT !["tcp"] = "ended"]
    /\ lost' = IF flags.stop THEN lost ELSE IF c = "ok" THEN "late" ELSE "early"
    /\ UNCHANGED <<threadFrame, res, flags>>

\* tcp_thread: the read fails (the Mac went away, or the cancel is set) and the session is
\* marked dead.
TcpFails ==
    /\ thr["tcp"] = "run"
    /\ thr' = [thr EXCEPT !["tcp"] = "ended"]
    /\ flags' = [flags EXCEPT !.connected = FALSE]
    /\ lost' = IF flags.stop THEN lost ELSE IF c = "ok" THEN "late" ELSE "early"
    /\ UNCHANGED <<threadFrame, res>>

-----------------------------------------------------------------------------
(* run_viewer, on the UI thread.                                           *)

viewFrame == <<cfg, h, try, thr, res, neg, ui, fault, lost>>
View(from, to) == v = from /\ ui = 0 /\ v' = to

\* No user, no paired tunnel, no graphics device: the viewer ends before there is a session.
StartFails ==
    /\ View("start", "done")
    /\ exit' \in {"ConnectFailed", "Error"}
    /\ UNCHANGED <<viewFrame, closed, c, td, flags>>

StartConnect ==
    /\ View("start", "pump") /\ c' = "bind"
    /\ UNCHANGED <<viewFrame, exit, closed, td, flags>>

\* The window is pumped: the user may close it, or type; a key goes through send_ctrl, which
\* looks at neg_ and then uses it.
CloseWindow ==
    /\ v \in {"pump", "render"} /\ ui = 0 /\ ~closed
    /\ closed' = TRUE
    /\ UNCHANGED <<viewFrame, v, exit, c, td, flags>>

KeyStart ==
    /\ v \in {"pump", "render"} /\ ui = 0 /\ ~closed /\ neg # 0
    /\ ui' = neg
    /\ UNCHANGED <<cfg, v, exit, closed, c, h, try, td, flags, thr, res, neg, fault, lost>>

KeyDone ==
    /\ ui # 0 /\ ui' = 0
    /\ UNCHANGED <<cfg, v, exit, closed, c, h, try, td, flags, thr, res, neg, fault, lost>>

LeavePump ==
    /\ closed \/ c \in {"ok", "failed"}
    /\ View("pump", "join")
    /\ flags' = [flags EXCEPT !.cancel = closed]
    /\ UNCHANGED <<viewFrame, exit, closed, c, td>>

\* conn.join(), and what it came to.
JoinConnect ==
    /\ c \in {"ok", "failed"}
    /\ \/ /\ c = "ok" /\ ~closed /\ View("join", "render") /\ UNCHANGED <<exit, td>>
       \/ /\ c = "failed" \/ closed
          /\ View("join", "close") /\ td' = 1
          /\ exit' = IF closed THEN "Closed" ELSE "ConnectFailed"
    /\ UNCHANGED <<viewFrame, closed, c, flags>>

\* The head of the render loop, and the clean-up after it.
LeaveRender ==
    /\ View("render", "close") /\ td' = 1
    /\ \/ closed /\ exit' = "Closed"
       \/ ~closed /\ ~flags.connected /\ exit' = "ConnectionLost"
    /\ UNCHANGED <<viewFrame, closed, c, flags>>

\* The device is lost, or --auto-quit's deadline passes: the loop ends as if the user left.
LeaveRenderQuietly ==
    /\ View("render", "close") /\ td' = 1 /\ ~closed
    /\ exit' = "Closed"
    /\ UNCHANGED <<viewFrame, closed, c, flags>>

\* close(): stop_, teardown(), connected_ = false.
CloseSession ==
    \/ /\ v = "close" /\ td # 0 /\ TeardownStep
       /\ UNCHANGED <<v, exit, c>>
    \/ /\ td = 0 /\ View("close", "done")
       /\ flags' = [flags EXCEPT !.connected = FALSE]
       /\ UNCHANGED <<viewFrame, exit, closed, c, td>>

Viewer == StartConnect \/ KeyDone \/ JoinConnect \/ CloseSession
LeaveLoop == LeavePump \/ LeaveRender

Done == v = "done" /\ UNCHANGED lifeVars

SlNext ==
    \/ Connect \/ Viewer \/ LeaveLoop
    \/ CloseWindow \/ KeyStart \/ StartFails \/ LeaveRenderQuietly
    \/ PacketStart \/ TcpFails
    \/ \E t \in Threads : ThreadEnds(t)
    \/ Done

\* The helper thread and the UI thread are scheduled, and none of their waits is unbounded; a
\* thread that polls stop_ sees it.  pump() comes back to the head of its loop between any two
\* keys.  Nothing makes the user, or the network, do anything.
SlFairness ==
    /\ WF_lifeVars(Connect) /\ WF_lifeVars(Viewer) /\ SF_lifeVars(LeaveLoop) /\ WF_lifeVars(PacketStart)
    /\ \A t \in Threads : WF_lifeVars(ThreadEnds(t))

SlSpec == SlInit /\ [][SlNext]_lifeVars /\ SlFairness

-----------------------------------------------------------------------------

\* The values each variable takes.
SlTypeOK ==
    /\ cfg \in Config /\ closed \in BOOLEAN /\ fault \in BOOLEAN
    /\ v \in {"start", "pump", "join", "render", "close", "done"}
    /\ exit \in {"none", "Closed", "ConnectFailed", "ConnectionLost", "Error"}
    /\ try \in 0 .. Tries /\ td \in 0 .. Len(Teardown)
    /\ neg \in 0 .. Tries /\ ui \in 0 .. Tries
    /\ thr \in [Threads -> {"none", "run", "ended"}]
    /\ res \subseteq {"hook", "decoder", "rx", "udp", "pool"}
    /\ h.sock \in {0} \cup h.open /\ h.sent \in 0 .. Queries
    /\ lost \in {"no", "early", "late"}

\* The members a thread works with: sockets, decoder, pool and the control channel.
Uses == [packet |-> {"udp", "pool", "decoder", "neg"}, ctrl |-> {"udp"}, audio |-> {},
         tcp |-> {"neg", "decoder"}, tx |-> {"udp", "pool", "decoder", "neg"}, clip |-> {"neg"},
         punch |-> {"udp"}]

\* No thread of the session runs on a member that does not exist yet or was released: connect()
\* spawns them last and teardown() joins them first, on the error path of every phase too
\* (session.cpp 82-83, 125-126, 174-178, 304-325).
ThreadsHaveTheirParts ==
    \A t \in Threads : thr[t] = "run" =>
        \A r \in Uses[t] : IF r = "neg" THEN neg # 0 ELSE r \in res

\* When run_viewer has returned, nothing of the session is left: no thread, no socket, no TCP
\* connection, no decoder, and libav's log goes to nobody (viewer.cpp 276-277, 440).
NothingOutlivesViewer ==
    v = "done" => /\ \A t \in Threads : thr[t] # "run"
                  /\ res = {} /\ neg = 0 /\ h.open = {} /\ ~flags.connected

\* The client is on one TCP connection at a time, over warm-up, authentication fallback, own
\* session and reconnects: the Mac rate-limits and counts them (negotiation.cpp 43, 273;
\* session.cpp 200).
OneConnection == Cardinality(h.open) <= 1

\* The record layer is keyed by the authentication of the connection it runs on, also after the
\* fallback and the second connection (negotiation.cpp 250, 275, 290).
CipherOfThisConnection == h.cipher # 0 => h.cipher = h.sock

\* The media offer announces the session the Mac was asked for: an own one after command 2, the
\* console after command 0; and an own session is never asked of a Mac that offers only the
\* console (negotiation.cpp 254-278, 298).
OfferMatchesSelection ==
    /\ h.sent > 0 /\ h.cmd # "none" => ((h.flags \div 2) % 2 = 0) = (h.cmd = "own")
    /\ cfg.mask = {0} => h.cmd # "own"

\* connect() fails only when something failed under it, the user cancelled, or the Mac takes
\* neither way to authenticate (negotiation.cpp 34-48).
FailsForAReason == c = "failed" => fault \/ flags.cancel \/ cfg.accepts = {}

\* A window the user closes goes away, whatever the handshake is waiting for (viewer.cpp
\* 273-276).
ClosedWindowEnds == closed ~> v = "done"

\* connect() comes back, with a session or with an error.
ConnectEnds == c = "bind" ~> c \in {"ok", "failed"}

\* A control connection lost while the viewer renders ends the viewer (session.cpp 601,
\* viewer.cpp 320).
LossEndsViewer == lost = "late" ~> v = "done"

\* ... and so does one that is lost while connect() is about to return: "marking session dead"
\* (session.cpp 601).
EveryLossEndsViewer == lost # "no" ~> v = "done"

\* "Input (any thread; serialised on the record layer)" (session.h 108): a key event works on a
\* control channel that exists for as long as it uses it.
InputUsesLiveChannel == ui # 0 => neg = ui

\* Threads live within the lives of their parts, and all within the viewer's.
PartsOutliveThreads == SlTypeOK /\ ThreadsHaveTheirParts /\ NothingOutlivesViewer

\* Over fallback, own session and reconnects, the connection, its key and its offer belong
\* together, and connect() gives up only for a reason.
HandshakeIsCoherent ==
    OneConnection /\ CipherOfThisConnection /\ OfferMatchesSelection /\ FailsForAReason

\* The viewer ends when its window is closed or its connection lost, and connect() returns.
ViewerEnds == ClosedWindowEnds /\ ConnectEnds /\ LossEndsViewer

=============================================================================
