------------------------------ MODULE Renderer -------------------------------
(***************************************************************************)
(* The Direct3D renderer (src/src/gfx/d3d11_renderer.cpp) as the render    *)
(* loop of the viewer drives it (src/src/app/viewer.cpp): windows with a   *)
(* swap chain of latency one, the newest frame of each tile, and a cache   *)
(* of shader views of the decoder's textures, keyed by their address.      *)
(*                                                                         *)
(* A texture is an address and the generation of the decoder's pool it     *)
(* belongs to.  What Direct3D draws is left out; what it keeps alive is    *)
(* not: a frame or a view holds a reference to its texture, and an address *)
(* is free for a new texture only when nothing holds the old one.          *)
(***************************************************************************)
EXTENDS Naturals, FiniteSets

CONSTANTS
    Secondary,   \* ids of the windows that more monitors get; the primary is 0
    RnTile,      \* tiles of the canvas
    Address,     \* addresses a texture may have
    CacheCap,    \* 64
    MaxGen,      \* bound: pools the decoder creates
    MaxResize,   \* bound: times the swap chains are resized
    NoFrame

ASSUME RnAssumption == 0 \notin Secondary /\ IsFiniteSet(Address)

VARIABLES
    loop,     \* the render loop: "top", "wait", "draw", "end"
    views,    \* the windows it draws
    toDraw,   \* the ones left in this pass
    shut,     \* the windows the user has closed
    chain,    \* the swap chain of each window
    lost,     \* device_lost_
    pool,     \* the decoder's texture
    gen,      \* pools made so far
    shown,    \* the texture of each tile's frame
    cache,    \* srv_cache: address -> the texture the cached view is of
    resizes

rnVars == <<loop, views, toDraw, shut, chain, lost, pool, gen, shown, cache, resizes>>

Id == {0} \cup Secondary
NewChain == [live |-> TRUE, sem |-> 1, waited |-> FALSE, queued |-> 0, target |-> TRUE]
NoChain == [live |-> FALSE, sem |-> 0, waited |-> FALSE, queued |-> 0, target |-> FALSE]
Textures(S) == S \ {NoFrame}
Shown == Textures({shown[t] : t \in RnTile})
Cached == {cache[a] : a \in DOMAIN cache}
NoViews == [a \in {} |-> NoFrame]

\* init() and its add_window for the primary.
RnInit ==
    /\ loop = "top" /\ views = {0} /\ toDraw = {} /\ shut = {} /\ lost = FALSE
    /\ chain = [i \in Id |-> IF i = 0 THEN NewChain ELSE NoChain]
    /\ pool = NoFrame /\ gen = 0
    /\ shown = [t \in RnTile |-> NoFrame]
    /\ cache = NoViews
    /\ resizes = MaxResize

\* Mutant: a cached view does not keep its texture alive.
HeldIgnoresCache == {x.addr : x \in Shown}

\* The addresses of textures that something of the renderer holds: the frame of a tile, and a
\* cached view (ComPtr).
Held == {x.addr : x \in Shown \cup Cached}

\* choose_format of a new decoder: a texture at an address that is free.
NewPool ==
    /\ gen < MaxGen
    /\ gen' = gen + 1
    /\ \E a \in Address \ Held : pool' = [addr |-> a, gen |-> gen']
    /\ UNCHANGED <<loop, views, toDraw, shut, chain, lost, shown, cache, resizes>>

-----------------------------------------------------------------------------
\* The windows.

UserCloses(i) ==
    /\ loop # "end" /\ i \in views \ shut
    /\ shut' = shut \cup {i}
    /\ UNCHANGED <<loop, views, toDraw, chain, lost, pool, gen, shown, cache, resizes>>

\* resize(), from pump(): no render target until ResizeBuffers has succeeded; a failure says anew
\* whether the device is lost.
Resize(i) ==
    /\ loop = "top" /\ chain[i].live /\ resizes > 0
    /\ resizes' = resizes - 1
    /\ \/ chain' = [chain EXCEPT ![i].target = TRUE] /\ UNCHANGED lost
       \/ chain' = [chain EXCEPT ![i].target = FALSE] /\ lost' \in BOOLEAN
    /\ UNCHANGED <<loop, views, toDraw, shut, pool, gen, shown, cache>>

\* Mutant: the secondary windows are reaped before the close of the primary is looked at, and
\* the loop goes on for the others.
EndsWithLastWindow == views \subseteq shut

\* The loop ends with the primary window, or with the device.
Ends == 0 \in shut \/ lost

\* The top of the loop: reap the secondaries that are closed (remove_window), and go on.
Top ==
    /\ loop = "top"
    /\ loop' = IF Ends THEN "end" ELSE "wait"
    /\ views' = views \ (shut \ {0})
    /\ chain' = [i \in Id |-> IF i \in views' THEN chain[i] ELSE NoChain]
    /\ UNCHANGED <<toDraw, shut, lost, pool, gen, shown, cache, resizes>>

\* The layout has more than one monitor: add_window for each of the others, once.
OpenSecondaries ==
    /\ loop = "wait" /\ views = {0} /\ shut = {}
    /\ views' = Id
    /\ chain' = [i \in Id |-> IF i = 0 THEN chain[i] ELSE NewChain]
    /\ UNCHANGED <<loop, toDraw, shut, lost, pool, gen, shown, cache, resizes>>

\* set_canvas: the frames and the cache of the old canvas go.
SetCanvas ==
    /\ loop = "wait"
    /\ shown' = [t \in RnTile |-> NoFrame]
    /\ cache' = NoViews
    /\ UNCHANGED <<loop, views, toDraw, shut, chain, lost, pool, gen, resizes>>

-----------------------------------------------------------------------------
\* A frame.

\* wait_can_present: a wait that has succeeded counts until the next Present.
MayPresent(c) == c.live /\ (c.waited \/ c.sem > 0)
Waited(c) == IF c.waited THEN c ELSE [c EXCEPT !.sem = @ - 1, !.waited = TRUE]

\* Nothing new to show, or the swap chain still owns the previous frame.
Skip ==
    /\ loop = "wait"
    /\ loop' = "top"
    /\ UNCHANGED <<views, toDraw, shut, chain, lost, pool, gen, shown, cache, resizes>>

\* What a miss keeps of the cache: one past its cap is cleared first.
Kept == IF Cardinality(DOMAIN cache) > CacheCap THEN {} ELSE DOMAIN cache

\* submit_frame of the decoder's texture x for tile t: the cached view if there is one for the
\* address, else a new one, which is cached.  The frame it replaces is released.
RnSubmitFrame(t, x) ==
    /\ shown' = [shown EXCEPT ![t] = x]
    /\ cache' = IF x.addr \in DOMAIN cache THEN cache
                ELSE [a \in Kept \cup {x.addr} |-> IF a = x.addr THEN x ELSE cache[a]]

\* The primary can present: take the newest frames, and draw if one was new or the cursor moved.
Frame ==
    /\ loop = "wait" /\ MayPresent(chain[0])
    /\ chain' = [chain EXCEPT ![0] = Waited(@)]
    /\ \/ /\ pool # NoFrame /\ \E t \in RnTile : RnSubmitFrame(t, pool)
          /\ loop' = "draw" /\ toDraw' = views
       \/ /\ UNCHANGED <<shown, cache>>
          /\ \/ loop' = "draw" /\ toDraw' = views
             \/ loop' = "top" /\ UNCHANGED toDraw
    /\ UNCHANGED <<views, shut, lost, pool, gen, resizes>>

\* Mutant: Present leaves the wait of this window standing.
PresentedStillWaited(c) == [c EXCEPT !.queued = @ + 1]

Presented(c) == [c EXCEPT !.queued = @ + 1, !.waited = FALSE]

\* draw() of one view; a secondary that cannot present now is passed over.
DrawView(i) ==
    /\ loop = "draw" /\ i \in toDraw
    /\ \/ /\ MayPresent(chain[i])
          /\ chain' = [chain EXCEPT ![i] = Presented(Waited(@))]
          /\ \/ UNCHANGED <<lost, loop>>
             \/ lost' = TRUE /\ loop' = "end"
       \/ i # 0 /\ ~MayPresent(chain[i]) /\ UNCHANGED <<chain, lost, loop>>
    /\ toDraw' = toDraw \ {i}
    /\ UNCHANGED <<views, shut, pool, gen, shown, cache, resizes>>

DrawDone ==
    /\ loop = "draw" /\ toDraw = {}
    /\ loop' = "top"
    /\ UNCHANGED <<views, toDraw, shut, chain, lost, pool, gen, shown, cache, resizes>>

\* The compositor takes the frame and signals the waitable object.
Compose(i) ==
    /\ chain[i].queued > 0
    /\ chain' = [chain EXCEPT ![i].queued = @ - 1, ![i].sem = @ + 1]
    /\ UNCHANGED <<loop, views, toDraw, shut, lost, pool, gen, shown, cache, resizes>>

RnNext ==
    \/ Top \/ OpenSecondaries \/ Skip \/ Frame \/ DrawDone \/ SetCanvas \/ NewPool
    \/ \E i \in Id : UserCloses(i) \/ Resize(i) \/ DrawView(i) \/ Compose(i)

\* The render loop never stops by itself: each pass waits a bounded time.
RnFairness ==
    /\ WF_rnVars(Top) /\ WF_rnVars(Skip) /\ WF_rnVars(DrawDone)
    /\ WF_rnVars(\E i \in Id : DrawView(i))

RnSpec == RnInit /\ [][RnNext]_rnVars /\ RnFairness

-----------------------------------------------------------------------------
\* A window never has a second frame between Present and the screen ("never queue",
\* viewer.cpp 384): the one permit of its swap chain is with the waitable object, with the loop,
\* or with the queued frame, across skipped passes, late compositors and reaped windows.
NeverQueued ==
    \A i \in Id : chain[i].live =>
       chain[i].sem + chain[i].queued + (IF chain[i].waited THEN 1 ELSE 0) = 1

\* A cached view is of the texture the next frame is in, although the cache knows addresses only
\* and decoders with their textures come and go (d3d11_renderer.cpp 358-381).
CacheHitIsTrue ==
    \A x \in Textures({pool}) : x.addr \in DOMAIN cache => cache[x.addr] = x

\* Closing the primary window ends the viewer whatever the other windows do (viewer.cpp 315-317).
CloseEnds == 0 \in shut ~> loop = "end"

\* What is shown is current: no second frame is queued behind the one on its way to the screen,
\* and no view of a texture that is gone is drawn from.
FramesAreCurrent == NeverQueued /\ CacheHitIsTrue

=============================================================================
