---------------------------- MODULE FrameHandoff ----------------------------
(***************************************************************************)
(* The hand-over of decoded frames from the decoder to the render loop     *)
(* (VideoDecoder::publish, take_latest, wait_for_frame, reset_state and    *)
(* try_recovery in src/src/media/decoder.cpp; the frame step of the loop   *)
(* in src/src/app/viewer.cpp).                                             *)
(*                                                                         *)
(* Two processes.  The decoder side is whoever holds codec_mu_ (the worker *)
(* or a thread in restart()): at most one of its calls is under way, dpc   *)
(* says which critical section comes next.  The render loop waits for a    *)
(* frame, waits for the swapchain, takes the newest frame of every tile    *)
(* and draws.  A frame is its number next_index_; what is in it does not   *)
(* matter here, nor does what the quality gate is told of it.              *)
(***************************************************************************)
EXTENDS Integers, FiniteSets

CONSTANTS
    NumTiles,           \* cfg_.num_tiles
    Codec,              \* "avc" or "hevc"
    PerTileRecovery,    \* cfg_.pertile_recovery
    MaxFrame            \* bound: frames published in a behaviour

ASSUME HandoffAssumption ==
    /\ NumTiles \in Nat \ {0}
    /\ MaxFrame \in Nat
    /\ Codec \in {"avc", "hevc"}
    /\ PerTileRecovery \in BOOLEAN

Tile == 0 .. NumTiles - 1
NoFrame == 0
Frame == 0 .. MaxFrame

VARIABLES
    frame,      \* tiles_[t].frame: the frame waiting in the slot, or NoFrame
    pending,    \* frame_pending_
    dpb,        \* dpb_has_idr_
    await,      \* tiles_await_idr_
    index,      \* next_index_
    dpc,        \* decoder side: "idle", "stored", "rooted", "wiped"
    dtile,      \* the tile publish() is working for
    rpc,        \* render loop: "wait", "gate", "take"
    ti,         \* the loop variable over tiles
    moved,      \* cursor_moved
    fresh,      \* any_fresh
    everShown,  \* any_frame_ever
    waited,     \* the window's waited flag
    submitted,  \* the frame the renderer holds for a tile
    drawn,      \* the frame of a tile last presented
    untaken,    \* history: tiles published since take_latest was last called
    floor,      \* history: newest published frame when the wait returned
    wiped,      \* history: next_index_ at the last reset_state
    stalled     \* history: wait_can_present timed out since the tiles were last asked

decoderVars == <<frame, index, dpb, await, dpc, dtile, wiped>>
renderVars == <<rpc, ti, moved, fresh, everShown, waited, submitted, drawn, stalled>>
fhVars == <<frame, pending, dpb, await, index, dpc, dtile, rpc, ti, moved, fresh,
          everShown, waited, submitted, drawn, untaken, floor, wiped,
          stalled>>

FhInit ==
    /\ frame = [t \in Tile |-> NoFrame]
    /\ pending = FALSE
    /\ dpb = FALSE
    /\ await = {}
    /\ index = 0
    /\ dpc = "idle"
    /\ dtile = 0
    /\ rpc = "wait"
    /\ ti = 0
    /\ moved = FALSE
    /\ fresh = FALSE
    /\ everShown = FALSE
    /\ waited = FALSE
    /\ submitted = [t \in Tile |-> NoFrame]
    /\ drawn = [t \in Tile |-> NoFrame]
    /\ untaken = {}
    /\ floor = [t \in Tile |-> NoFrame]
    /\ wiped = 0
    /\ stalled = FALSE

-----------------------------------------------------------------------------
(* The decoder side.                                                       *)

\* take_latest hands out nothing for a tile that waits for a key frame.
Blocked(t) ==
    \/ ~dpb
    \/ Codec = "hevc" /\ PerTileRecovery /\ t \in await

\* decode_one reaches libav, so that a frame of some tile may come out:
\* HEVC delta frames are dropped until the shared DPB has a root.
MayDecode ==
    Codec = "hevc" => dpb /\ \E t \in Tile : ~Blocked(t)

\* Mutant: the frame number is taken after a second increment.
StoreSkips(t) == [frame EXCEPT ![t] = index + 2]

\* Newest wins: what was in the slot is replaced.
Store(t) == [frame EXCEPT ![t] = index + 1]

\* publish(), first critical section (tiles_mu_).
PublishStore(t) ==
    /\ dpc = "idle"
    /\ MayDecode
    /\ index < MaxFrame
    /\ index' = index + 1
    /\ frame' = Store(t)
    /\ dtile' = t
    /\ dpc' = "stored"
    /\ UNCHANGED <<pending, dpb, await, untaken, floor, wiped, renderVars>>

\* publish(): the first AVC frame roots the DPB.
PublishRoot ==
    /\ dpc = "stored"
    /\ dpb' = (dpb \/ Codec = "avc")
    /\ dpc' = "rooted"
    /\ UNCHANGED <<frame, pending, await, index, dtile, untaken, floor, wiped, renderVars>>

\* publish(), second critical section (frame_cv_mu_): the frame is announced.
PublishSignal ==
    /\ dpc = "rooted"
    /\ pending' = TRUE
    /\ untaken' = untaken \cup {dtile}
    /\ dpc' = "idle"
    /\ dtile' = 0
    /\ UNCHANGED <<frame, dpb, await, index, floor, wiped, renderVars>>

\* decode_one: an HEVC key frame re-roots the shared DPB for every tile
\* before libav sees it; whether a frame then comes out is another matter.
KeyFrame ==
    /\ Codec = "hevc"
    /\ dpc = "idle"
    /\ dpb' = TRUE
    /\ await' = {}
    /\ UNCHANGED <<frame, pending, index, dpc, dtile, untaken, floor, wiped, renderVars>>

\* try_recovery for the tiles the gate holds for broken.
TryRecovery(hit) ==
    /\ dpc = "idle"
    /\ IF PerTileRecovery
         THEN await' = await \cup hit /\ UNCHANGED dpb
         ELSE dpb' = FALSE /\ UNCHANGED await
    /\ floor' = [t \in Tile |-> IF t \in hit \/ ~PerTileRecovery THEN NoFrame ELSE floor[t]]
    /\ UNCHANGED <<frame, pending, index, dpc, dtile, untaken, wiped, renderVars>>

\* Mutant: a restart numbers the frames from one again.
ResetSlotsAndIndex ==
    /\ dpc = "idle"
    /\ frame' = [t \in Tile |-> NoFrame]
    /\ index' = 0
    /\ wiped' = index
    /\ floor' = [t \in Tile |-> NoFrame]
    /\ dpc' = "wiped"
    /\ UNCHANGED <<pending, dpb, await, dtile, untaken, renderVars>>

\* restart() -> reset_state(): first the slots (tiles_mu_) ...
ResetSlots ==
    /\ dpc = "idle"
    /\ frame' = [t \in Tile |-> NoFrame]
    /\ wiped' = index
    /\ floor' = [t \in Tile |-> NoFrame]
    /\ dpc' = "wiped"
    /\ UNCHANGED <<pending, dpb, await, index, dtile, untaken, renderVars>>

\* ... then tiles_await_idr_ and dpb_has_idr_.
ResetFlags ==
    /\ dpc = "wiped"
    /\ await' = {}
    /\ dpb' = FALSE
    /\ dpc' = "idle"
    /\ UNCHANGED <<frame, pending, index, dtile, untaken, floor, wiped, renderVars>>

Decoder ==
    \/ \E t \in Tile : PublishStore(t)
    \/ PublishRoot
    \/ PublishSignal
    \/ KeyFrame
    \/ \E hit \in (SUBSET Tile) \ {{}} : TryRecovery(hit)
    \/ ResetSlots
    \/ ResetFlags

-----------------------------------------------------------------------------
(* The render loop.                                                        *)

\* The newest frame of each tile whose publish() has finished and that
\* take_latest would hand out.
Announced ==
    [t \in Tile |-> IF t \in untaken /\ ~Blocked(t) THEN frame[t] ELSE NoFrame]

\* The locals of an iteration, and what the history keeps for it, end with it.
IterationEnds ==
    /\ rpc' = "wait"
    /\ ti' = 0
    /\ moved' = FALSE
    /\ fresh' = FALSE
    /\ floor' = [t \in Tile |-> NoFrame]

\* wait_for_frame finds the flag up, and lowers it.
WaitFrame(m) ==
    /\ rpc = "wait"
    /\ pending
    /\ pending' = FALSE
    /\ moved' = m
    /\ rpc' = "gate"
    /\ floor' = Announced
    /\ UNCHANGED <<ti, fresh, everShown, waited, submitted, drawn, untaken, stalled, decoderVars>>

\* wait_for_frame runs into its 4 ms limit; only a moved cursor takes the
\* loop further, otherwise it starts over (a stuttering step).
WaitTimeout ==
    /\ rpc = "wait"
    /\ ~pending
    /\ moved' = TRUE
    /\ rpc' = "gate"
    /\ floor' = Announced
    /\ UNCHANGED <<pending, ti, fresh, everShown, waited, submitted, drawn, untaken, stalled,
                   decoderVars>>

\* wait_can_present succeeds.
CanPresent ==
    /\ rpc = "gate"
    /\ waited' = TRUE
    /\ ti' = 0
    /\ fresh' = FALSE
    /\ rpc' = "take"
    /\ UNCHANGED <<pending, moved, everShown, submitted, drawn, untaken, floor, stalled, decoderVars>>

\* wait_can_present times out: the loop starts over.
CannotPresent ==
    /\ rpc = "gate"
    /\ ~waited
    /\ IterationEnds
    /\ stalled' = TRUE
    /\ UNCHANGED <<pending, everShown, waited, submitted, drawn, untaken, decoderVars>>

\* Mutant: the loop over the tiles ends at the first that has a new frame.
TakeLatestFirst ==
    /\ rpc = "take"
    /\ ti < NumTiles
    /\ untaken' = untaken \ {ti}
    /\ IF Blocked(ti) \/ frame[ti] = NoFrame
         THEN /\ ti' = ti + 1
              /\ UNCHANGED <<frame, submitted, fresh, everShown>>
         ELSE /\ ti' = NumTiles
              /\ submitted' = [submitted EXCEPT ![ti] = frame[ti]]
              /\ frame' = [frame EXCEPT ![ti] = NoFrame]
              /\ fresh' = TRUE
              /\ everShown' = TRUE
    /\ UNCHANGED <<pending, rpc, moved, waited, drawn, floor, stalled, index, dpb, await, dpc,
                   dtile, wiped>>

\* take_latest(ti).  Its check of the DPB and its swap of the slot are two
\* critical sections; a recovery or reset that falls between them has the
\* outcome of one that comes right after, or right before, the whole call.
TakeLatest ==
    /\ rpc = "take"
    /\ ti < NumTiles
    /\ untaken' = untaken \ {ti}
    /\ ti' = ti + 1
    /\ IF Blocked(ti) \/ frame[ti] = NoFrame
         THEN UNCHANGED <<frame, submitted, fresh, everShown>>
         ELSE /\ submitted' = [submitted EXCEPT ![ti] = frame[ti]]
              /\ frame' = [frame EXCEPT ![ti] = NoFrame]
              /\ fresh' = TRUE
              /\ everShown' = TRUE
    /\ UNCHANGED <<pending, rpc, moved, waited, drawn, floor, stalled, index, dpb, await, dpc, dtile,
                   wiped>>

\* Mutant: "and" for "or".
DrawNeededBoth == fresh /\ moved /\ everShown

DrawNeeded == (fresh \/ moved) /\ everShown

\* Mutant: the flag is lowered at the end of the iteration, not at its wait.
DrawLowersFlag ==
    /\ rpc = "take"
    /\ ti = NumTiles
    /\ IF DrawNeeded
         THEN drawn' = submitted /\ waited' = FALSE
         ELSE UNCHANGED <<drawn, waited>>
    /\ pending' = FALSE
    /\ IterationEnds
    /\ stalled' = FALSE
    /\ UNCHANGED <<everShown, submitted, untaken, decoderVars>>

\* The end of the iteration: draw() when there is something to show.
Draw ==
    /\ rpc = "take"
    /\ ti = NumTiles
    /\ IF DrawNeeded
         THEN drawn' = submitted /\ waited' = FALSE
         ELSE UNCHANGED <<drawn, waited>>
    /\ IterationEnds
    /\ stalled' = FALSE
    /\ UNCHANGED <<pending, everShown, submitted, untaken, decoderVars>>

Render ==
    \/ \E m \in BOOLEAN : WaitFrame(m)
    \/ WaitTimeout
    \/ CanPresent
    \/ CannotPresent
    \/ TakeLatest
    \/ Draw

FhNext == Decoder \/ Render

\* Both threads run for as long as the session: publish() and reset_state()
\* hold no lock the loop keeps, and the loop's waits all time out.  Nothing
\* is assumed of libav, of the watchdogs or of the cursor.
Fairness ==
    /\ WF_fhVars(PublishRoot \/ PublishSignal \/ ResetFlags)
    /\ WF_fhVars((\E m \in BOOLEAN : WaitFrame(m)) \/ CanPresent \/ TakeLatest \/ Draw)

FhSpec == FhInit /\ [][FhNext]_fhVars

FhFairSpec == FhSpec /\ Fairness

-----------------------------------------------------------------------------
(* Properties.                                                             *)

\* Each variable has the values its declaration in the code gives it.
FhTypeOK ==
    /\ frame \in [Tile -> Frame]
    /\ pending \in BOOLEAN
    /\ dpb \in BOOLEAN
    /\ await \subseteq Tile
    /\ index \in Frame
    /\ dpc \in {"idle", "stored", "rooted", "wiped"}
    /\ dtile \in Tile
    /\ rpc \in {"wait", "gate", "take"}
    /\ ti \in 0 .. NumTiles
    /\ moved \in BOOLEAN
    /\ fresh \in BOOLEAN
    /\ everShown \in BOOLEAN
    /\ waited \in BOOLEAN
    /\ submitted \in [Tile -> Frame]
    /\ drawn \in [Tile -> Frame]
    /\ untaken \subseteq Tile
    /\ floor \in [Tile -> Frame]
    /\ wiped \in Frame
    /\ stalled \in BOOLEAN

\* wait_for_frame answers "any tile published since the last take": when the
\* render loop stands at the wait and the flag is down, so that the wait will
\* time out, no tile has been published that take_latest was not asked for.
WaitReportsUntaken ==
    rpc = "wait" /\ ~pending => untaken = {}

\* The same while the swapchain keeps up: unless wait_can_present has timed
\* out since the tiles were last asked, a flag that is down means that every
\* published tile was asked for after its publish().
WaitReportsUnlessStalled ==
    rpc = "wait" /\ ~pending /\ ~stalled => untaken = {}

\* A presented frame is never older than the newest frame that was already
\* announced when the loop's wait returned, unless a recovery or a reset took
\* that frame out of circulation in the meantime: the gate on the swapchain
\* comes before take_latest, so the 50 ms spent there do not age the picture.
FreshAtDraw ==
    rpc = "take" /\ ti = NumTiles => \A t \in Tile : submitted[t] >= floor[t]

\* What is on screen for a tile is never replaced by an older frame, not even
\* across a restart of the decoder.
ShownInOrder == \A t \in Tile : drawn'[t] >= drawn[t]

\* An announced frame, or a newer one of its tile, gets on screen, unless the
\* tile comes to wait for a key frame, the decoder is reset or the swapchain
\* is not free within the 50 ms the loop waits for it.
AnnouncedGetsDrawn ==
    \A t \in Tile, k \in 1 .. MaxFrame :
        (frame[t] = k /\ t \in untaken /\ ~Blocked(t))
            ~> (drawn[t] >= k \/ Blocked(t) \/ wiped >= k \/ stalled)

\* The render loop against publish(), recoveries and restart(): what may be
\* taken is announced unless the swapchain stalled, what is drawn is at least as
\* new as what was announced, and no tile goes back to an older picture.
DrawsFreshInOrder == [][WaitReportsUnlessStalled' /\ FreshAtDraw' /\ ShownInOrder]_fhVars

=============================================================================
