------------------------------ MODULE Feedback -------------------------------
(***************************************************************************)
(* Asking the Mac for key frames: the quality gate                         *)
(* (src/src/media/quality_gate.cpp), the requests of Session (request_fir, *)
(* send_fir_for_tile, drain_pending_fir, the re-anchor) and the escalation *)
(* that libav's messages drive (on_libav_concealment).                     *)
(*                                                                         *)
(* Every interval the code measures is a timer that runs or has expired;   *)
(* a timer may expire at any moment, so that every order of the intervals  *)
(* is covered.  Each call on the gate is one critical section of gate_mu_, *)
(* and what follows it in a handler touches only state under policy_mu_;   *)
(* handlers are therefore single steps.                                    *)
(***************************************************************************)
EXTENDS Integers, FiniteSets

CONSTANTS
    TileCounts,      \* numbers of tiles a session may have
    ReArmCap,        \* re_arm_cap, 8
    ForceallAfter,   \* DPB_FORCEALL_AFTER_FIRS, 3
    Faults           \* bound: errors, silences and unanswered requests of one behaviour

ASSUME FbAssumption ==
    /\ TileCounts \subseteq Nat \ {0}
    /\ ReArmCap \in Nat /\ ForceallAfter \in Nat \ {0} /\ Faults \in Nat

VARIABLES
    tiles,    \* num_tiles()
    gate,     \* the FrameQualityGate
    policy,   \* what policy_mu_ protects
    timer,    \* the timers that are running
    mac      \* the Mac and the network

fbVars == <<tiles, gate, policy, timer, mac>>

Tile == 0 .. tiles - 1

\* fir: since last_fir_per_tile_ (0.25 s).
Fir(t) == <<"fir", t>>

\* loud: last_unreliable_concealment_ns_, 1.5 s;  rearm: fir_last_[0], 1 s or 4 s;  fast:
\* last_dpb_fast_recovery_ns_, 1 s;  stall: last_dpb_error_ns_, 2.5 s;  storm: the same, 3 s.
\* grace: idr_observed_at_, 0.5 s, which every IDR and every reset sets for all tiles at once.
\* The intervals of the soft concealments (last_libav_fir_ns_, 2 s) and of the re-anchor (3 s)
\* only make those steps rarer and are left out.
Plain == {"loud", "rearm", "fast", "stall", "storm", "grace"}
Timers == {<<p, 0>> : p \in Plain} \cup {Fir(t) : t \in Tile}
Running(p) == <<p, 0>> \in timer
Start(ps) == {<<p, 0>> : p \in ps}

FbInit ==
    /\ tiles \in TileCounts
    /\ gate = [required |-> {}, idr |-> {}, bad |-> {}, attempts |-> 0]
    /\ policy = [firs |-> 0, forceall |-> FALSE]
    /\ timer = {}
    /\ mac = [idle |-> FALSE, asked |-> FALSE, faults |-> Faults]

Fault == mac.faults > 0
Spent(h) == [h EXCEPT !.faults = @ - 1]

-----------------------------------------------------------------------------
\* The gate, as functions of its state g.

\* Mutant: a new requirement keeps the count of attempts of the last one.
MarkErrorKeepsAttempts(g, ts) ==
    LET hit == IF Running("grace") THEN {} ELSE ts
    IN  [g EXCEPT !.bad = @ \cup hit, !.required = @ \cup hit]

\* mark_decode_error for the tiles ts: an error within the grace of an IDR is not counted.
MarkError(g, ts) ==
    LET hit == IF Running("grace") THEN {} ELSE ts
        new == hit \ g.required
    IN  [g EXCEPT !.bad = @ \cup hit, !.required = @ \cup hit, !.idr = @ \ new,
                  !.attempts = IF 0 \in new THEN 0 ELSE @]

\* Mutant: a suspiciously small IDR counts like any other.
MarkIdrTrustsFakes(g, suspicious) == [g EXCEPT !.idr = @ \cup g.required]

\* mark_idr_observed, which every caller makes for all tiles.
MarkIdr(g, suspicious) == IF suspicious THEN g ELSE [g EXCEPT !.idr = @ \cup g.required]

Recovers(g, t) == t \in g.required /\ t \in g.idr /\ ~Running("loud")

MarkClean(g, t) ==
    LET r == IF Recovers(g, t) THEN {t} ELSE {}
    IN  [g EXCEPT !.bad = @ \ {t}, !.required = @ \ r, !.idr = @ \ r,
                  !.attempts = IF 0 \in r THEN 0 ELSE @]

\* reset(); fir_last_ and last_unreliable_concealment_ns_ stay.
Reset(g) == [required |-> {}, idr |-> {}, bad |-> {}, attempts |-> 0]

\* Mutant: after re_arm_cap attempts the gate gives up.
MayConsumeGivesUp(g) == g.required # {} /\ ~Running("rearm") /\ g.attempts < ReArmCap

\* consume_fir_request: the counter of tile 0 paces the requests of all tiles; past the cap the
\* interval is longer and the count only grows (it stops at the cap here).
MayConsume(g) == g.required # {} /\ ~Running("rearm")
Consume(g) == [g EXCEPT !.attempts = IF @ < ReArmCap THEN @ + 1 ELSE @]

-----------------------------------------------------------------------------
\* Sending.

\* send_fir_for_tile for the tiles ts: those whose last request is older than FIR_MIN_INTERVAL.
Due(ts) == {t \in ts : Fir(t) \notin timer}
Sent(h, ts) == [h EXCEPT !.asked = @ \/ Due(ts) # {}]
FirTimers(ts) == {Fir(t) : t \in Due(ts)}

\* request_fir() for all tiles: arm the gate, then send.
\* The viewer's resize, a new layout, an adopted SSRC group ask for it.
RequestFir ==
    /\ Fault
    /\ gate' = MarkError(gate, Tile)
    /\ mac' = Sent(Spent(mac), Tile)
    /\ timer' = timer \cup FirTimers(Tile)
    /\ UNCHANGED <<tiles, policy>>

\* restart() and the request_fir() that follows it everywhere.
FbRestart ==
    /\ Fault
    /\ LET g == Reset(gate) IN
          /\ gate' = [g EXCEPT !.bad = Tile, !.required = Tile]
          /\ mac' = Sent(Spent(mac), Tile)
          /\ timer' = (timer \ Start({"grace"})) \cup FirTimers(Tile)
    /\ UNCHANGED <<tiles, policy>>

\* The force-all escalation of a session with one tile, at the head of drain_pending_fir.
Escalates == policy.forceall /\ tiles = 1 /\ gate.required # {} /\ ~Running("stall")

\* Mutant: the armed flag stays when nothing is required any more.
DrainStaysArmed ==
    /\ policy' = policy
    /\ IF ~mac.idle /\ MayConsume(gate)
       THEN /\ gate' = Consume(gate)
            /\ mac' = Sent(mac, {0})
            /\ timer' = timer \cup Start({"rearm"}) \cup FirTimers({0})
       ELSE UNCHANGED <<gate, mac, timer>>

\* drain_pending_fir when nothing escalates.  The armed flag falls once nothing is required.
DrainPendingFir ==
    /\ policy' = [policy EXCEPT !.forceall = @ /\ ~(tiles = 1 /\ gate.required = {})]
    /\ IF ~mac.idle /\ MayConsume(gate)
       THEN /\ gate' = Consume(gate)
            /\ mac' = Sent(mac, {0})
            /\ timer' = timer \cup Start({"rearm"}) \cup FirTimers({0})
       ELSE UNCHANGED <<gate, mac, timer>>

\* ... and when it does: request_fir() even while the Mac is idle, then the rest, whose own
\* request for tile 0 falls to the interval that has just begun.
DrainEscalates ==
    LET g == MarkError(gate, Tile)
        on == ~mac.idle /\ MayConsume(g)
    IN  /\ policy' = [policy EXCEPT !.forceall = FALSE]
        /\ gate' = IF on THEN Consume(g) ELSE g
        /\ mac' = Sent(mac, Tile)
        /\ timer' = timer \cup FirTimers(Tile) \cup (IF on THEN Start({"rearm"}) ELSE {})

\* One tick of tx_thread.
TxTick ==
    /\ IF Escalates THEN DrainEscalates ELSE DrainPendingFir
    /\ UNCHANGED tiles

\* maybe_reanchor_d3d11va_avc: asks without arming the gate.  That the accelerator has decoded
\* AVC_D3D11_REANCHOR_FRAMES since the last intra frame is not tracked.
Reanchor ==
    /\ tiles = 1 /\ Fault
    /\ mac' = Sent(Spent(mac), Tile)
    /\ timer' = timer \cup FirTimers(Tile)
    /\ UNCHANGED <<tiles, gate, policy>>

-----------------------------------------------------------------------------
\* What the decoder and libav report.

\* A reliable error of one tile: a reference is missing, the queue was full, libav refused the
\* packet, the decoder was silent, the access unit is incomplete, the frame is corrupt.
DecodeError(t) ==
    /\ Fault
    /\ gate' = MarkError(gate, {t})
    /\ mac' = Spent(mac)
    /\ UNCHANGED <<tiles, policy, timer>>

\* dpb_fir_count_ after one more recovery, and whether the escalation stays armed.
Count(n) ==
    IF n >= ForceallAfter THEN [firs |-> 0, forceall |-> FALSE]
    ELSE [firs |-> n, forceall |-> policy.forceall \/ tiles = 1]

\* on_libav_concealment for a missing reference.  The tiles marked are the ones with a bad streak
\* after a force-all request (the only tile when there is none), and unreliably.
OnLibavConcealment ==
    /\ Fault
    /\ LET before == IF Running("storm") THEN policy.firs ELSE 0
           clock == Start({"stall", "storm"})
           n == before + 1
           all == n >= ForceallAfter
           g == IF all THEN MarkError(gate, Tile) ELSE gate
           bad == IF g.bad = {} /\ tiles = 1 THEN {0} ELSE g.bad
           loud == IF bad = {} THEN {} ELSE Start({"loud"})
       IN  IF Running("fast")
           THEN /\ policy' = [policy EXCEPT !.firs = before]
                /\ timer' = timer \cup clock
                /\ mac' = Spent(mac) /\ UNCHANGED gate
           ELSE /\ policy' = Count(n)
                /\ gate' = MarkError(g, bad)
                /\ mac' = IF all THEN Sent(Spent(mac), Tile) ELSE Spent(mac)
                /\ timer' = timer \cup clock \cup Start({"fast"}) \cup loud
                              \cup (IF all THEN FirTimers(Tile) ELSE {})
    /\ UNCHANGED tiles

\* ... and for any other concealment, unless frames flow.
SoftConcealment ==
    /\ Fault
    /\ gate' = MarkError(gate, {0})
    /\ timer' = timer \cup Start({"loud"})
    /\ mac' = Spent(mac)
    /\ UNCHANGED <<tiles, policy>>

\* A key frame reaches the decoder; one much smaller than the last few is suspicious.
IdrArrives(h, suspicious) ==
    /\ gate' = MarkIdr(gate, suspicious)
    /\ mac' = h
    /\ timer' = timer \cup Start({"grace"})
    /\ UNCHANGED <<tiles, policy>>

HostAnswers == mac.asked /\ IdrArrives([mac EXCEPT !.asked = FALSE], FALSE)
UnaskedIdr == IdrArrives(mac, FALSE)
SmallIdr == Fault /\ IdrArrives(Spent(mac), TRUE)

\* The request or its answer is lost.
AnswerLost ==
    /\ mac.asked /\ Fault
    /\ mac' = [Spent(mac) EXCEPT !.asked = FALSE]
    /\ UNCHANGED <<tiles, gate, policy, timer>>

\* take_latest hands out an intact frame of the tile.
Clean(t) ==
    /\ ~mac.idle
    /\ gate' = MarkClean(gate, t)
    /\ UNCHANGED <<tiles, policy, timer, mac>>

\* The Mac falls silent for 1.5 s, and sends again.
GoIdle ==
    /\ ~mac.idle /\ Fault
    /\ mac' = [Spent(mac) EXCEPT !.idle = TRUE]
    /\ UNCHANGED <<tiles, gate, policy, timer>>
Resume ==
    /\ mac.idle
    /\ mac' = [mac EXCEPT !.idle = FALSE]
    /\ UNCHANGED <<tiles, gate, policy, timer>>

\* 2.5 s after the last missing reference come before 3 s.
Expire(x) ==
    /\ x \in timer
    /\ x[1] = "storm" => ~Running("stall")
    /\ timer' = timer \ {x}
    /\ UNCHANGED <<tiles, gate, policy, mac>>

FbNext ==
    \/ TxTick \/ RequestFir \/ FbRestart \/ Reanchor
    \/ OnLibavConcealment \/ SoftConcealment
    \/ HostAnswers \/ UnaskedIdr \/ SmallIdr \/ AnswerLost \/ GoIdle \/ Resume
    \/ \E t \in Tile : DecodeError(t) \/ Clean(t)
    \/ \E x \in Timers : Expire(x)

\* The tx thread ticks every 0.5 s, time passes, the Mac sends frames again and answers a request
\* that was not lost, and the render thread takes the frames of every tile.
FbFairness ==
    /\ WF_fbVars(TxTick) /\ WF_fbVars(HostAnswers) /\ WF_fbVars(Resume)
    /\ \A t \in 0 .. 1 : WF_fbVars(t \in Tile /\ Clean(t))
    /\ \A x \in {<<p, 0>> : p \in Plain} \cup ({"fir"} \X (0 .. 1)) :
          WF_fbVars(Expire(x))

FbSpec == FbInit /\ [][FbNext]_fbVars /\ FbFairness

-----------------------------------------------------------------------------
\* The values each variable takes.
FbTypeOK ==
    /\ tiles \in TileCounts
    /\ gate \in [required : SUBSET Tile, idr : SUBSET Tile, bad : SUBSET Tile,
                 attempts : 0 .. ReArmCap]
    /\ policy \in [firs : 0 .. ForceallAfter - 1, forceall : BOOLEAN]
    /\ timer \subseteq Timers
    /\ mac \in [idle : BOOLEAN, asked : BOOLEAN, faults : 0 .. Faults]

\* A tile stops requiring a key frame only when a credible IDR came after the requirement was
\* raised and a frame decodes cleanly, or in a restart that asks again (quality_gate.cpp 38-48:
\* the requirement is sticky).  An IDR is remembered only for a tile that requires one;
\* a suspicious one, which is one of the faults, is not remembered.
StickyRequirement ==
    /\ gate'.idr \subseteq gate'.required
    /\ gate'.idr \ gate.idr # {} => mac'.faults = mac.faults
    /\ \A t \in gate.required \ gate'.required : t \in gate.idr /\ ~Running("loud")

\* As long as the gate requires a key frame the Mac is asked again, past the cap of attempts and
\* whatever was lost: once nothing more goes wrong every tile recovers (quality_gate.cpp 50-62,
\* session.cpp 868-883).
Recovery == gate.required # {} ~> gate.required = {}

\* An armed force-all escalation is always resolved: by recovery, by the request to all tiles, or
\* by the count of recoveries (session.cpp 872-876, 994-997).
EscalationResolved == policy.forceall ~> ~policy.forceall

\* A new requirement of tile 0 starts with the short interval, however slowly the Mac answered the
\* previous one (quality_gate.cpp 23, 44).
FreshAttempts ==
    0 \in gate'.required /\ 0 \notin gate.required => gate'.attempts = 0

\* A requirement lasts until it is met, and each starts with its own attempts.
RequirementKept == [][FbTypeOK' /\ StickyRequirement /\ FreshAttempts]_fbVars

\* Whatever was lost: tiles recover, and an armed escalation is resolved.
GateRecovers == Recovery /\ EscalationResolved

=============================================================================
