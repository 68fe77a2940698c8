----------------------------- MODULE AvcRecovery ----------------------------
(***************************************************************************)
(* How the client gets over a break in the H.264 reference chain:          *)
(* Session::on_flushed_group and on_dropped_group on the packet thread,    *)
(* VideoDecoder::feed_nalu there too, decode_one and publish on the worker *)
(* and restart() on the watchdog's thread (src/src/session/session.cpp,    *)
(* src/src/media/decoder.cpp).                                             *)
(*                                                                         *)
(* The packet thread and the log hook set two atomics without a lock,      *)
(* reference_reset_pending_ and await_key_, which the worker and restart() *)
(* read and clear under codec_mu_.  An access unit is its number in the    *)
(* stream and whether it is intra; a delta unit needs the one before it.   *)
(* The decode queue is a plain FIFO here: NalQueue has its two rings.      *)
(***************************************************************************)
EXTENDS Integers, Sequences

CONSTANTS
    MaxAu,          \* bound: access units in the stream
    QueueCap,       \* QUEUE_CAP
    MayLose,        \* may the assembler give up on an access unit?
    MayRestart,     \* may the watchdog restart the decoder?
    LibavReports    \* does libav log every missing reference?

ASSUME RecoveryAssumption ==
    /\ MaxAu \in Nat
    /\ QueueCap \in Nat \ {0}
    /\ MayLose \in BOOLEAN
    /\ MayRestart \in BOOLEAN
    /\ LibavReports \in BOOLEAN

Au == 0 .. MaxAu
Unit == [no : Au, key : BOOLEAN]
NoUnit == [no |-> 0, key |-> FALSE]

VARIABLES
    au,         \* access units the packet thread has seen
    queue,      \* ring_
    awaitKey,   \* await_key_
    resetPending, \* reference_reset_pending_
    hasCtx,     \* ctx_ is not null
    chain,      \* the unit up to which ctx_ has decoded without a gap, 0 if none
    ppc,        \* packet thread: "idle", "push", "mark"
    fed,        \* the unit feed_nalu is working on
    wpc,        \* worker: "idle", "enter", "filter", "reset", "accept", "send", "publish"
    cur,        \* the unit the worker holds
    clean,      \* the frame libav put out shows no concealment
    rst,        \* the restarting thread: "idle", "flags", "drain"
    lock,       \* codec_mu_: "none", "worker", "watchdog"
    armed,      \* the quality gate waits for a key frame
    published,  \* the unit last published
    publishedBad, \* history: a concealed frame has been published
    lost,       \* history: the last unit the assembler gave up on
    dropped,    \* history: the last unit feed_nalu dropped
    sentKey,    \* history: the last intra unit handed to libav
    hope        \* history: an intra unit queued with no break or reset since, or 0

avVars == <<au, queue, awaitKey, resetPending, hasCtx, chain, ppc, fed, wpc, cur, clean, rst, lock,
            armed, published, publishedBad, lost, dropped, sentKey, hope>>

packetVars == <<au, ppc, fed, lost, dropped>>
workerVars == <<wpc, cur, clean, published, publishedBad, sentKey>>

\* As feed_burst leaves things when the burst had no intra picture.
AvInit ==
    /\ au = 0
    /\ queue = <<>>
    /\ awaitKey = TRUE
    /\ resetPending = FALSE
    /\ hasCtx = TRUE
    /\ chain = 0
    /\ ppc = "idle"
    /\ fed = NoUnit
    /\ wpc = "idle"
    /\ cur = NoUnit
    /\ clean = TRUE
    /\ rst = "idle"
    /\ lock = "none"
    /\ armed = FALSE
    /\ published = 0
    /\ publishedBad = FALSE
    /\ lost = 0
    /\ dropped = 0
    /\ sentKey = 0
    /\ hope = 0

-----------------------------------------------------------------------------
(* The packet thread.                                                      *)

\* feed_nalu: a delta unit is dropped while await_key_.
Filtered(key) == awaitKey /\ ~key

\* on_flushed_group -> feed_nalu, up to its filter.
FeedFilter(key) ==
    /\ ppc = "idle"
    /\ au < MaxAu
    /\ au' = au + 1
    /\ IF Filtered(key)
         THEN dropped' = au + 1 /\ UNCHANGED <<ppc, fed>>
         ELSE ppc' = "push" /\ fed' = [no |-> au + 1, key |-> key] /\ UNCHANGED dropped
    /\ UNCHANGED <<queue, awaitKey, resetPending, hasCtx, chain, rst, lock, armed, lost, hope, workerVars>>

\* Mutant: feed_nalu does not look at what push() returns.
FeedPushUnbounded ==
    /\ ppc = "push"
    /\ ppc' = "idle"
    /\ queue' = Append(queue, fed)
    /\ hope' = IF fed.key THEN fed.no ELSE hope
    /\ UNCHANGED <<au, awaitKey, resetPending, hasCtx, chain, fed, rst, lock, armed, lost, dropped, workerVars>>

\* feed_nalu: push, or drop and arm the gate when the queue is full.
FeedPush ==
    /\ ppc = "push"
    /\ ppc' = "idle"
    /\ IF Len(queue) < QueueCap
         THEN /\ queue' = Append(queue, fed)
              /\ hope' = IF fed.key THEN fed.no ELSE hope
              /\ UNCHANGED <<armed, dropped>>
         ELSE armed' = TRUE /\ dropped' = fed.no /\ UNCHANGED <<queue, hope>>
    /\ UNCHANGED <<au, awaitKey, resetPending, hasCtx, chain, fed, rst, lock, lost, workerVars>>

\* on_dropped_group -> mark_reference_chain_broken, its first store ...
LoseUnit ==
    /\ MayLose
    /\ ppc = "idle"
    /\ au < MaxAu
    /\ au' = au + 1
    /\ lost' = au + 1
    /\ resetPending' = TRUE
    /\ hope' = 0
    /\ ppc' = "mark"
    /\ UNCHANGED <<queue, awaitKey, hasCtx, chain, fed, rst, lock, armed, dropped, workerVars>>

\* ... and its second; then the gate is armed and the tx thread woken.
MarkAwait ==
    /\ ppc = "mark"
    /\ awaitKey' = TRUE
    /\ armed' = TRUE
    /\ ppc' = "idle"
    /\ UNCHANGED <<au, queue, resetPending, hasCtx, chain, fed, rst, lock, lost, dropped, hope, workerVars>>

Packet == (\E key \in BOOLEAN : FeedFilter(key)) \/ FeedPush \/ LoseUnit \/ MarkAwait

-----------------------------------------------------------------------------
(* The worker.                                                             *)

WorkerPop ==
    /\ wpc = "idle"
    /\ queue # <<>>
    /\ cur' = Head(queue)
    /\ queue' = Tail(queue)
    /\ wpc' = "enter"
    /\ UNCHANGED <<awaitKey, resetPending, hasCtx, chain, clean, rst, lock, armed, published, publishedBad,
                   sentKey, hope, packetVars>>

\* decode_one takes codec_mu_.
EnterDecode ==
    /\ wpc = "enter"
    /\ lock = "none"
    /\ lock' = "worker"
    /\ wpc' = "filter"
    /\ UNCHANGED <<queue, awaitKey, resetPending, hasCtx, chain, cur, clean, rst, armed, published, publishedBad,
                   sentKey, hope, packetVars>>

\* No context, or a delta unit while await_key_: decode_one returns.
DecodeFilter ==
    /\ wpc = "filter"
    /\ IF ~hasCtx \/ (awaitKey /\ ~cur.key)
         THEN wpc' = "idle" /\ lock' = "none"
         ELSE wpc' = "reset" /\ UNCHANGED lock
    /\ hope' = IF hasCtx THEN hope ELSE 0
    /\ UNCHANGED <<queue, awaitKey, resetPending, hasCtx, chain, cur, clean, rst, armed, published, publishedBad,
                   sentKey, packetVars>>

\* Mutant: the rebuilt context keeps the pending reset.
ResetContextPending(ok) ==
    /\ wpc = "reset"
    /\ cur.key /\ resetPending
    /\ chain' = 0
    /\ hasCtx' = ok
    /\ IF ok THEN wpc' = "accept" /\ UNCHANGED <<lock, hope>>
             ELSE wpc' = "idle" /\ lock' = "none" /\ hope' = 0
    /\ UNCHANGED <<queue, awaitKey, resetPending, cur, clean, rst, armed, published, publishedBad, sentKey, packetVars>>

\* An intra unit with a reset pending: the context is rebuilt, or cannot be.
ResetContext(ok) ==
    /\ wpc = "reset"
    /\ cur.key /\ resetPending
    /\ resetPending' = FALSE
    /\ chain' = 0
    /\ hasCtx' = ok
    /\ IF ok THEN wpc' = "accept" /\ UNCHANGED <<lock, hope>>
             ELSE wpc' = "idle" /\ lock' = "none" /\ hope' = 0
    /\ UNCHANGED <<queue, awaitKey, cur, clean, rst, armed, published, publishedBad, sentKey, packetVars>>

NoReset ==
    /\ wpc = "reset"
    /\ ~(cur.key /\ resetPending)
    /\ wpc' = "accept"
    /\ UNCHANGED <<queue, awaitKey, resetPending, hasCtx, chain, cur, clean, rst, lock, armed, published,
                   publishedBad, sentKey, hope, packetVars>>

\* An intra unit opens the gate; the quality gate has its key frame (it
\* forgets the error a little later, when the render loop takes the picture).
Accept ==
    /\ wpc = "accept"
    /\ IF cur.key THEN awaitKey' = FALSE /\ armed' = FALSE ELSE UNCHANGED <<awaitKey, armed>>
    /\ wpc' = "send"
    /\ UNCHANGED <<queue, resetPending, hasCtx, chain, cur, clean, rst, lock, published, publishedBad, sentKey,
                   hope, packetVars>>

\* The unit's references are all in the context.
HasReferences == cur.key \/ (chain # 0 /\ chain = cur.no - 1)

\* libav decodes the unit.  A missing reference is concealed and, if libav
\* logs it, the log hook marks the chain broken from inside this call.
Send ==
    /\ wpc = "send"
    /\ clean' = HasReferences
    /\ chain' = IF HasReferences THEN cur.no ELSE 0
    /\ sentKey' = IF cur.key THEN cur.no ELSE sentKey
    /\ IF ~HasReferences /\ LibavReports
         THEN resetPending' = TRUE /\ awaitKey' = TRUE /\ hope' = 0
         ELSE UNCHANGED <<resetPending, awaitKey, hope>>
    /\ wpc' = "publish"
    /\ UNCHANGED <<queue, hasCtx, cur, rst, lock, armed, published, publishedBad, packetVars>>

\* decode_one ends in try_recovery when libav has been silent for too many
\* units: the queue is drained.
QueueAfter(recover) == IF recover THEN <<>> ELSE queue

\* libav refuses the unit: the gate is armed, and a failed intra unit breaks
\* the chain.
SendError(recover) ==
    /\ wpc = "send"
    /\ chain' = 0
    /\ armed' = TRUE
    /\ sentKey' = IF cur.key THEN cur.no ELSE sentKey
    /\ resetPending' = (resetPending \/ cur.key)
    /\ awaitKey' = (awaitKey \/ cur.key)
    /\ hope' = IF cur.key \/ recover THEN 0 ELSE hope
    /\ queue' = QueueAfter(recover)
    /\ wpc' = "idle"
    /\ lock' = "none"
    /\ UNCHANGED <<hasCtx, cur, clean, rst, published, publishedBad, packetVars>>

\* libav is busy (EAGAIN) or puts nothing out: the unit is gone.
SendSilent(recover) ==
    /\ wpc = "send"
    /\ chain' = 0
    /\ armed' = (armed \/ recover)
    /\ sentKey' = IF cur.key THEN cur.no ELSE sentKey
    /\ hope' = IF cur.key \/ recover THEN 0 ELSE hope
    /\ queue' = QueueAfter(recover)
    /\ wpc' = "idle"
    /\ lock' = "none"
    /\ UNCHANGED <<awaitKey, resetPending, hasCtx, cur, clean, rst, published, publishedBad, packetVars>>

\* Mutant: publish() does not look for a break in progress.
FreedNever == FALSE

\* publish(): "never publish the concealed frame of a break in progress".
Freed == resetPending

Publish ==
    /\ wpc = "publish"
    /\ IF Freed
         THEN UNCHANGED <<published, publishedBad>>
         ELSE published' = cur.no /\ publishedBad' = (publishedBad \/ ~clean)
    /\ wpc' = "idle"
    /\ lock' = "none"
    /\ UNCHANGED <<queue, awaitKey, resetPending, hasCtx, chain, cur, clean, rst, armed, sentKey, hope,
                   packetVars>>

Worker ==
    \/ WorkerPop
    \/ EnterDecode
    \/ DecodeFilter
    \/ \E ok \in BOOLEAN : ResetContext(ok)
    \/ NoReset
    \/ Accept
    \/ Send
    \/ \E recover \in BOOLEAN : SendError(recover) \/ SendSilent(recover)
    \/ Publish

-----------------------------------------------------------------------------
(* restart(), called by the watchdog: destroy_codec, reset_state,          *)
(* drain_queue and create_codec under codec_mu_.                           *)

RestartBegin ==
    /\ MayRestart
    /\ rst = "idle"
    /\ lock = "none"
    /\ lock' = "watchdog"
    /\ hasCtx' = FALSE
    /\ chain' = 0
    /\ armed' = FALSE
    /\ awaitKey' = TRUE
    /\ hope' = 0
    /\ rst' = "flags"
    /\ UNCHANGED <<queue, resetPending, workerVars, packetVars>>

RestartFlags ==
    /\ rst = "flags"
    /\ resetPending' = FALSE
    /\ rst' = "drain"
    /\ UNCHANGED <<queue, awaitKey, hasCtx, chain, lock, armed, hope, workerVars, packetVars>>

RestartDrain(ok) ==
    /\ rst = "drain"
    /\ queue' = <<>>
    /\ hope' = 0
    /\ hasCtx' = ok
    /\ lock' = "none"
    /\ rst' = "idle"
    /\ UNCHANGED <<awaitKey, resetPending, chain, armed, workerVars, packetVars>>

Watchdog == RestartBegin \/ RestartFlags \/ \E ok \in BOOLEAN : RestartDrain(ok)

AvNext == Packet \/ Worker \/ Watchdog

AvSpec == AvInit /\ [][AvNext]_avVars

-----------------------------------------------------------------------------
(* Properties.                                                             *)

\* Each variable has the values its declaration in the code gives it.
AvTypeOK ==
    /\ au \in Au
    /\ queue \in Seq(Unit) /\ Len(queue) <= QueueCap
    /\ awaitKey \in BOOLEAN /\ resetPending \in BOOLEAN /\ hasCtx \in BOOLEAN
    /\ chain \in Au
    /\ ppc \in {"idle", "push", "mark"}
    /\ fed \in Unit
    /\ wpc \in {"idle", "enter", "filter", "reset", "accept", "send", "publish"}
    /\ cur \in Unit
    /\ clean \in BOOLEAN
    /\ rst \in {"idle", "flags", "drain"}
    /\ lock \in {"none", "worker", "watchdog"}
    /\ armed \in BOOLEAN
    /\ published \in Au
    /\ publishedBad \in BOOLEAN
    /\ lost \in Au
    /\ dropped \in Au
    /\ sentKey \in Au
    /\ hope \in Au

\* No picture decoded from missing references reaches the screen as long as
\* libav logs them: the break is marked, inside the decode call, before
\* publish() looks at it, and no other thread can clear it in between.
ConcealedNeverShown == ~publishedBad

\* The picture does not stay frozen: once the worker has caught up, an intra
\* unit that was queued after the last break or reset has been published (or
\* something newer has), whatever stale flags the break left behind.
IntraUnfreezes ==
    wpc = "idle" /\ queue = <<>> /\ rst = "idle" /\ hope # 0 => published >= hope

\* "gate deltas until next intra": libav gets no delta unit that follows a
\* lost unit before it has got an intra unit that follows it as well.
GatedUntilNextIntra ==
    wpc = "send" /\ ~cur.key => ~(sentKey < lost /\ lost < cur.no)

\* "A dropped slice breaks the reference chain for everything after it: arm
\* recovery instead of letting the decoder conceal silently": when libav gets
\* a delta unit from behind one that feed_nalu dropped, with no intra unit in
\* between, recovery is armed.
DropArmsRecovery ==
    wpc = "send" /\ ~cur.key /\ sentKey < dropped /\ dropped < cur.no => armed \/ resetPending

=============================================================================
