---------------------------- MODULE CanvasChange -----------------------------
(***************************************************************************)
(* Dynamic resolution, from the window to the decoder: the render loop     *)
(* turns a resized window into a request (src/src/app/viewer.cpp), the Mac *)
(* changes its virtual display, announces the new layout over TCP and its  *)
(* encoder changes over at a moment of its own, and Session                *)
(* (src/src/session/session.cpp) drops video until it has collected the    *)
(* parameter sets of the new canvas.                                       *)
(*                                                                         *)
(* A size stands for a canvas and for the window that asks for it; two     *)
(* sizes differ by at least the 32 pixels the viewer reacts to.            *)
(***************************************************************************)
EXTENDS Sequences, FiniteSets, Naturals

CONSTANTS
    Size,      \* window and canvas sizes
    Codec,     \* the codecs to look at, a subset of {"avc", "hevc"}
    None,      \* no value
    MaxMoves,  \* bound: times the user resizes the window
    MaxLoss    \* bound: parameter sets lost on the way

VARIABLES
    codec,
    win,       \* client_size() of the window
    view,      \* the locals of the render loop
    sess,      \* the session: canvas, flag, harvest, pending FIR
    params,    \* the parameter sets in the decoder: a size for each kind
    pkt,       \* the packet thread: "idle", or "clear" between restart() and the flag
    host,      \* the Mac: virtual display, encoder, and what is on the way
    moved      \* [left, loss: budgets, calm: the last move met a settled system]

ccVars == <<codec, win, view, sess, params, pkt, host, moved>>

\* AVC carries SPS and PPS in one avcC; HEVC sends them as NAL units of their own.
Kind == IF codec = "avc" THEN {"avcC"} ELSE {"vps", "sps", "pps"}
Set(s) == [k \in Kind |-> s]

CcInit ==
    /\ codec \in Codec
    /\ win \in Size
    /\ view = [canvas |-> win, adv |-> win, pending |-> None, ripe |-> FALSE, cool |-> FALSE]
    /\ sess = [canvas |-> win, flag |-> FALSE, harvest |-> Set(None), fir |-> FALSE]
    /\ params = Set(win)
    /\ pkt = "idle"
    /\ host = [canvas |-> win, stream |-> win, asks |-> <<>>, layouts |-> <<>>, keyDue |-> FALSE]
    /\ moved = [left |-> MaxMoves, loss |-> MaxLoss, calm |-> TRUE]

\* request_fir(): the answer carries parameter sets and an intra frame.
Asked(h) == [h EXCEPT !.keyDue = TRUE]

Settled == win = host.canvas /\ host.asks = <<>> /\ host.layouts = <<>> /\ view.canvas = win

-----------------------------------------------------------------------------
\* The viewer.

\* The user resizes the window.
MoveWindow(s) ==
    /\ moved.left > 0 /\ s # win
    /\ win' = s
    /\ moved' = [moved EXCEPT !.left = @ - 1, !.calm = Settled]
    /\ UNCHANGED <<codec, view, sess, params, pkt, host>>

\* The canvas has changed: the window's size now counts as advertised.
Seen(v) == IF sess.canvas = v.canvas THEN v ELSE [v EXCEPT !.canvas = sess.canvas, !.adv = win]

\* Mutant: a size seen while a request is cooling down counts as advertised.
DebouncedForgets(v) ==
    IF win = v.adv \/ v.cool THEN [v EXCEPT !.pending = None, !.ripe = FALSE, !.adv = win]
    ELSE IF v.pending = win THEN v ELSE [v EXCEPT !.pending = win, !.ripe = FALSE]

\* A size that differs from the advertised one is pending, and ages from when it is first seen.
Debounced(v) ==
    IF win = v.adv THEN [v EXCEPT !.pending = None, !.ripe = FALSE]
    ELSE IF v.pending = win THEN v ELSE [v EXCEPT !.pending = win, !.ripe = FALSE]

\* One pass of the render loop: the canvas, the debounce, and the request with its FIR.
Render ==
    LET v == Debounced(Seen(view))
    IN  /\ IF v.pending # None /\ v.ripe /\ ~v.cool
           THEN /\ view' = [v EXCEPT !.adv = win, !.pending = None, !.ripe = FALSE, !.cool = TRUE]
                /\ host' = Asked([host EXCEPT !.asks = Append(@, win)])
           ELSE view' = v /\ UNCHANGED host
        /\ UNCHANGED <<codec, win, sess, params, pkt, moved>>

\* 0.5 s with the same pending size; 2.5 s after the last request.
Ripen ==
    /\ view.pending # None /\ ~view.ripe
    /\ view' = [view EXCEPT !.ripe = TRUE]
    /\ UNCHANGED <<codec, win, sess, params, pkt, host, moved>>
Cooled ==
    /\ view.cool
    /\ view' = [view EXCEPT !.cool = FALSE]
    /\ UNCHANGED <<codec, win, sess, params, pkt, host, moved>>

-----------------------------------------------------------------------------
\* The Mac: it changes the display and announces the layout; its encoder follows, at once or
\* later, and what it sends then starts with parameter sets.

HostResize ==
    /\ host.asks # <<>>
    /\ LET s == Head(host.asks)
           h == [host EXCEPT !.canvas = s, !.asks = Tail(@), !.layouts = Append(@, s)]
       IN  host' \in {h, [h EXCEPT !.stream = s, !.keyDue = TRUE]}
    /\ UNCHANGED <<codec, win, view, sess, params, pkt, moved>>

HostSwitch ==
    /\ host.stream # host.canvas
    /\ host' = [host EXCEPT !.stream = host.canvas, !.keyDue = TRUE]
    /\ UNCHANGED <<codec, win, view, sess, params, pkt, moved>>

-----------------------------------------------------------------------------
\* The session.

\* A layout with another canvas: drop video until its parameter sets have arrived, send the offer
\* again and ask for a key frame on the next tick.
Flagged(x, s) == [x EXCEPT !.canvas = s, !.flag = TRUE, !.harvest = Set(None), !.fir = TRUE]

\* handle_fbu for a display layout.
TcpLayout ==
    /\ host.layouts # <<>>
    /\ LET s == Head(host.layouts)
       IN  sess' = IF s = sess.canvas THEN sess ELSE Flagged(sess, s)
    /\ host' = [host EXCEPT !.layouts = Tail(@)]
    /\ UNCHANGED <<codec, win, view, params, pkt, moved>>

\* tx_thread: needs_post_layout_fir_.
TxPostLayout ==
    /\ sess.fir
    /\ sess' = [sess EXCEPT !.fir = FALSE]
    /\ host' = Asked(host)
    /\ UNCHANGED <<codec, win, view, params, pkt, moved>>

\* The stall watchdog asks again while nothing is published (session.cpp 895-944).
TxStall ==
    /\ sess.flag
    /\ host' = Asked(host)
    /\ UNCHANGED <<codec, win, view, sess, params, pkt, moved>>

\* on_flushed_group for a unit with the parameter sets ks.  Without the flag they go to the
\* decoder, which has no use for them.  A harvest that is complete reconfigures the decoder and
\* restarts it; an avcC with the SPS the decoder has already is passed over.
PacketParams(ks) ==
    /\ pkt = "idle" /\ host.keyDue
    /\ host' = [host EXCEPT !.keyDue = FALSE]
    /\ moved' = [moved EXCEPT !.loss = IF ks = Kind THEN @ ELSE @ - 1]
    /\ LET got == [k \in Kind |-> IF k \in ks THEN host.stream ELSE sess.harvest[k]]
           done == /\ \A k \in Kind : got[k] # None
                   /\ codec = "avc" => got # params
       IN  IF ~sess.flag THEN UNCHANGED <<sess, params, pkt>>
           ELSE IF done
           THEN pkt' = "clear" /\ params' = got /\ sess' = [sess EXCEPT !.harvest = got]
           ELSE /\ UNCHANGED <<params, pkt>>
                /\ sess' = IF codec = "avc" THEN sess ELSE [sess EXCEPT !.harvest = got]
    /\ UNCHANGED <<codec, win, view>>

\* Mutant: the flag stays up.
PacketClearForgets ==
    /\ pkt = "clear"
    /\ pkt' = "idle"
    /\ host' = Asked(host)
    /\ UNCHANGED <<codec, win, view, sess, params, moved>>

\* ... and then the flag falls, whoever raised it meanwhile, and a key frame is asked for.
PacketClear ==
    /\ pkt = "clear"
    /\ pkt' = "idle"
    /\ sess' = [sess EXCEPT !.flag = FALSE]
    /\ host' = Asked(host)
    /\ UNCHANGED <<codec, win, view, params, moved>>

CcNext ==
    \/ Render \/ Ripen \/ Cooled \/ HostResize \/ HostSwitch
    \/ TcpLayout \/ TxPostLayout \/ TxStall \/ PacketClear
    \/ \E s \in Size : MoveWindow(s)
    \/ PacketParams(Kind)
    \/ moved.loss > 0 /\ \E ks \in SUBSET Kind \ {Kind} : PacketParams(ks)

\* Every loop runs, the Mac works off its requests, its encoder follows its display, and what is
\* not lost arrives.
CcFairness ==
    /\ WF_ccVars(Render) /\ WF_ccVars(Ripen) /\ WF_ccVars(Cooled)
    /\ WF_ccVars(HostResize) /\ WF_ccVars(HostSwitch)
    /\ WF_ccVars(TcpLayout) /\ WF_ccVars(TxPostLayout) /\ WF_ccVars(TxStall)
    /\ SF_ccVars(PacketParams(Kind)) /\ WF_ccVars(PacketClear)

CcSpec == CcInit /\ [][CcNext]_ccVars /\ CcFairness

-----------------------------------------------------------------------------
\* "Resize the window and the Mac's screen follows" (docs/USER-GUIDE.md 61), for the sizes the
\* render loop debounces (viewer.cpp 365-378): once the user leaves the window alone, the Mac's
\* display has its size.
ScreenFollowsWindow == win # host.canvas ~> win = host.canvas

\* It does so whenever the user's last move met a settled system: no request on the way, no
\* layout unseen (viewer.cpp 326-334 takes the window's size of the moment for the advertised one).
FollowsCalmMove == moved.calm /\ win # host.canvas ~> win = host.canvas \/ ~moved.calm

\* The drop of video ends, whatever is lost, with one exception: an AVC decoder that already has
\* the parameters of the stream (there and back before the encoder changed over) waits for others
\* (session.cpp 402-424, 492-525).
HarvestEnds == sess.flag ~> ~sess.flag \/ (codec = "avc" /\ params = Set(host.stream))

\* Video that is fed once a harvest has ended is decoded with parameters of the canvas it has
\* ("do not feed new-canvas slices under the old SPS", session.cpp 410; 417).
FedWithItsParams == params # Set(host.stream) ~> params = Set(host.stream)

\* A change of the canvas comes to its end: the Mac's screen has the size
\* of the window after a calm move, and video is fed again.
CanvasSettles == FollowsCalmMove /\ HarvestEnds

=============================================================================
