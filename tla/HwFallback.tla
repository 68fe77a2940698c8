----------------------------- MODULE HwFallback ------------------------------
(***************************************************************************)
(* How the decoder (src/src/media/decoder.cpp) chooses between the graphics *)
(* card and software, and leaves the card when it fails: at open, at the   *)
(* choice of a surface format, during the start burst, by a message of     *)
(* libav, or on a broken reference chain in the middle of the stream.      *)
(*                                                                         *)
(* The card behaves in one way for the whole session.  Units of the burst  *)
(* are numbered; what they hold is left out.                               *)
(***************************************************************************)
EXTENDS Naturals

CONSTANTS
    BurstSizes,  \* bound: units in the start burst
    CheckEvery,  \* 8
    Window,      \* HWACCEL_BURST_ERROR_WINDOW
    Threshold,   \* HWACCEL_BURST_ERROR_THRESHOLD
    MinFrames,   \* HWACCEL_BURST_MIN_FRAMES
    MaxRestarts  \* bound: restarts and intra frames after the burst

ASSUME HwAssumption == BurstSizes \subseteq Nat

Card == {"works", "noDevice", "openFails", "noPool", "setupFails", "silent", "flaky", "breaks"}

VARIABLES
    card,       \* what the card does
    avc,        \* H.264, otherwise HEVC
    size,       \* units in the burst
    hw,         \* [failed, name, bound, verified] of the decoder
    ctx,        \* the context: "none", "undecided", "d3d11", "software"
    had,        \* units of the burst the context was given
    good,       \* frames it published
    burst,      \* the loop of feed_burst: the next unit; 0 before start, size + 2 after the end
    broken,     \* reference_reset_pending_
    restarts

hwVars == <<card, avc, size, hw, ctx, had, good, burst, broken, restarts>>

HwInit ==
    /\ card \in Card /\ avc \in BOOLEAN /\ size \in BurstSizes
    /\ hw = [failed |-> FALSE, name |-> FALSE, bound |-> FALSE, verified |-> FALSE]
    /\ ctx = "none" /\ had = {} /\ good = 0 /\ burst = 0 /\ broken = FALSE
    /\ restarts = MaxRestarts

\* Mutant: a card that failed is asked again.
WantHwAgain(force) == TRUE

\* prefer_hw is set; the last conjunct of the code, a device to use, is the card's.
WantHw(force) == ~force /\ ~hw.failed

\* Mutant: when the card's context does not open there is none.
OpenedNever(force) == IF WantHw(force) /\ card = "openFails" THEN "none" ELSE "software"

\* create_codec: the context, for the card when it is wanted and has a device; when that does not
\* open, a software one.
Opened(force) == IF WantHw(force) /\ card \notin {"noDevice", "openFails"} THEN "undecided" ELSE "software"

\* What create_codec leaves of hw.
HwOpened(force) ==
    [failed |-> hw.failed \/ (WantHw(force) /\ card = "openFails"),
     name |-> Opened(force) = "undecided", bound |-> FALSE, verified |-> FALSE]

CreateCodec(force) ==
    /\ ctx' = Opened(force)
    /\ hw' = HwOpened(force)

\* start(), before the burst.
HwStart ==
    /\ burst = 0
    /\ CreateCodec(FALSE)
    /\ burst' = 1
    /\ UNCHANGED <<card, avc, size, had, good, broken, restarts>>

-----------------------------------------------------------------------------
\* choose_format on the first unit of a context for the card: its surfaces, with or without
\* shader access, or the first software format.
Bound == card \notin {"noPool", "setupFails"}
Chosen == IF ctx # "undecided" THEN ctx ELSE IF Bound THEN "d3d11" ELSE "software"

\* "failed setup for format d3d11" and its like come out of choose_format's failure:
\* on_libav_message and mark_hwaccel_failed.
HwChosen ==
    IF ctx # "undecided" THEN hw
    ELSE IF card = "setupFails" THEN [hw EXCEPT !.failed = TRUE, !.name = FALSE, !.bound = FALSE]
    ELSE [hw EXCEPT !.bound = Bound]

\* Whether the context makes a frame of the unit it is given.
Makes(c) == IF c = "software" \/ card \notin {"silent", "flaky"} THEN {TRUE}
            ELSE IF card = "silent" THEN {FALSE} ELSE BOOLEAN

\* The first frame that publish() sees tells whether the card is really in use.
HwPublished(h, c) ==
    IF h.verified THEN h
    ELSE [h EXCEPT !.verified = TRUE, !.name = @ /\ c = "d3d11", !.bound = (c = "d3d11")]

\* decode_one for a unit: choose the format, send, publish the frame.
DecodeUnit(u) ==
    /\ ctx' = Chosen
    /\ had' = had \cup u
    /\ \E made \in Makes(Chosen) :
          /\ hw' = IF made THEN HwPublished(HwChosen, Chosen) ELSE HwChosen
          /\ good' = IF made /\ u # {} THEN good + 1 ELSE good

\* The check of every eighth unit and the one at the end, when n units have given g frames.
BurstFails(n, g) ==
    /\ ctx # "software" /\ n > Window
    /\ (n % CheckEvery = 0 /\ n - g > Threshold) \/ (n = size /\ g < MinFrames)

\* One pass of feed_burst's loop.
FeedUnit ==
    /\ burst \in 1 .. size /\ ~BurstFails(burst - 1, good)
    /\ DecodeUnit({burst})
    /\ burst' = burst + 1
    /\ UNCHANGED <<card, avc, size, broken, restarts>>

\* Mutant: the new context goes on where the old one was.
RefedNothing == {}

\* refeed_all.
Refed == 1 .. size

\* Mutant: the old context's verdict on its frames stays.
LeftCardOnly == [hw EXCEPT !.failed = TRUE]

LeftCard == [failed |-> TRUE, name |-> FALSE, bound |-> FALSE, verified |-> TRUE]

\* fallback: a software context, which gets the burst from the start.
Fallback ==
    /\ burst \in 1 .. size + 1 /\ BurstFails(burst - 1, good)
    /\ hw' = LeftCard
    /\ ctx' = "software"
    /\ had' = Refed
    /\ good' = size
    /\ burst' = size + 2
    /\ UNCHANGED <<card, avc, size, broken, restarts>>

BurstDone ==
    /\ burst = size + 1 /\ ~BurstFails(size, good)
    /\ burst' = size + 2
    /\ UNCHANGED <<card, avc, size, hw, ctx, had, good, broken, restarts>>

-----------------------------------------------------------------------------
\* The stream after the burst.
Live == burst = size + 2

\* "could not find ref": an AVC chain is broken, and the card is not trusted any more
\* (on_libav_concealment, mark_hwaccel_reference_failure).
ReferenceMissing ==
    /\ Live /\ ctx = "d3d11" /\ card = "breaks"
    /\ broken' = (broken \/ avc)
    /\ hw' = [hw EXCEPT !.failed = @ \/ (avc /\ hw.name)]
    /\ UNCHANGED <<card, avc, size, ctx, had, good, burst, restarts>>

\* A fresh intra frame on a broken chain: a new context, seeded with it.
Intra ==
    /\ Live /\ broken
    /\ CreateCodec(hw.failed)
    /\ broken' = FALSE
    /\ UNCHANGED <<card, avc, size, had, good, burst, restarts>>

\* restart(), by the stall watchdog or for new parameters.
HwRestart ==
    /\ Live /\ restarts > 0
    /\ restarts' = restarts - 1
    /\ CreateCodec(hw.failed)
    /\ broken' = FALSE
    /\ UNCHANGED <<card, avc, size, had, good, burst>>

\* A unit of the stream for a context that has had none.
LiveUnit ==
    /\ Live /\ ctx = "undecided"
    /\ DecodeUnit({})
    /\ UNCHANGED <<card, avc, size, burst, broken, restarts>>

HwNext ==
    \/ HwStart \/ FeedUnit \/ Fallback \/ BurstDone
    \/ ReferenceMissing \/ Intra \/ HwRestart \/ LiveUnit

HwFairness ==
    /\ WF_hwVars(HwStart \/ FeedUnit \/ Fallback \/ BurstDone)
    /\ WF_hwVars(ReferenceMissing) /\ WF_hwVars(Intra) /\ WF_hwVars(LiveUnit)

HwSpec == HwInit /\ [][HwNext]_hwVars /\ HwFairness

-----------------------------------------------------------------------------
\* What the viewer says of the decoder is so: from the first frame on, hw_bound_ (decoder_name,
\* session.cpp 77) holds exactly if the frames come from the card, through every fallback.
BoundIsTrue == hw.verified => (hw.bound <=> ctx = "d3d11")

\* A card that has failed is never asked again in this session, by no restart and no recovery
\* (decoder.cpp 140, 231, 405, "disabling HW retries for this session").
NeverBackToCard == [][hw.failed /\ ctx' = "undecided" => ctx = "undecided"]_hwVars

\* The context that goes on to the stream has had the whole start burst, also when the decoder
\* changed over in the middle of it (feed_burst's refeed_all): the stream refers to its pictures.
BurstComplete == Live => had = 1 .. size

\* The card fails in a way the code detects.
Detected ==
    \/ card \in {"noDevice", "openFails", "noPool", "setupFails"}
    \/ card = "silent" /\ size > Window
    \/ card = "breaks" /\ avc

\* A card that fails in one of these ways is left for software.  One that takes a short burst and
\* then gives no frames is not: every restart asks it again (decoder.cpp 231).
FailingCardIsLeft == Detected ~> ctx = "software"

\* What is said of the card is so, and the stream goes on with a context that can decode it.
FallbackIsSound == BurstComplete /\ BoundIsTrue

\* A failing card is left, and none is asked again.
CardIsLeft == NeverBackToCard /\ FailingCardIsLeft

=============================================================================
