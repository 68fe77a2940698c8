------------------------------ MODULE NalQueue ------------------------------
(***************************************************************************)
(* The decode queue of VideoDecoder (src/src/media/decoder.cpp) on two     *)
(* SpscRings (src/src/common/ring.h): ring_ carries NALs from the packet   *)
(* thread to the worker, free_ring_ carries the empty QueuedNals back.     *)
(*                                                                         *)
(* The rings take no lock, so push() and pop() are two steps each: the     *)
(* indices are loaded and the cell is read or written, then the own index  *)
(* is stored.  drain_queue() runs under codec_mu_, on the worker (from     *)
(* try_recovery) and on any thread that calls restart(); the worker's own  *)
(* pop() is outside that lock.  A NAL is the number of the feed_nalu call  *)
(* that filled it; 0 is an empty one.                                      *)
(***************************************************************************)
EXTENDS Integers, FiniteSets, Functions

CONSTANTS
    Nal,        \* the QueuedNals of nal_pool_
    NoNal,      \* no QueuedNal: a null pointer, or a cell never written
    Restarters, \* threads that call restart(): a subset of {"packet", "tx"}
    MaxFeed     \* bound: feed_nalu calls

\* QUEUE_CAP: as many QueuedNals as ring_ has cells.
Cap == Cardinality(Nal)

ASSUME QueueAssumption ==
    /\ IsFiniteSet(Nal) /\ Nal # {}
    /\ NoNal \notin Nal
    /\ Restarters \subseteq {"packet", "tx"}
    /\ MaxFeed \in Nat

Thread == {"packet", "worker", "tx"}

VARIABLES
    ring,       \* ring_:      [buf, w, r], the cells, write_ and read_
    freeRing,   \* free_ring_: the same, twice as large
    data,       \* the payload of each QueuedNal
    th,         \* per thread: [pc, idx, nal], the pending index and QueuedNal
    own,        \* the QueuedNal decode_one was called with
    codecMu,    \* who holds codec_mu_, or "none"
    calls,      \* feed_nalu calls so far
    decoded,    \* the payload last handed to libav
    foreign     \* history: a thread other than the worker has drained ring_

nqVars == <<ring, freeRing, data, th, own, codecMu, calls, decoded, foreign>>

\* The constructor puts every QueuedNal in free_ring_, in an order nothing
\* depends on.
PoolOrder == CHOOSE f \in Bijection(0 .. Cap - 1, Nal) : TRUE

NqInit ==
    /\ ring = [buf |-> [i \in 0 .. Cap - 1 |-> NoNal], w |-> 0, r |-> 0]
    /\ freeRing = [buf |-> [i \in 0 .. 2 * Cap - 1 |-> IF i < Cap THEN PoolOrder[i] ELSE NoNal],
                   w |-> Cap, r |-> 0]
    /\ data = [n \in Nal |-> 0]
    /\ th = [t \in Thread |-> [pc |-> "idle", idx |-> 0, nal |-> NoNal]]
    /\ own = NoNal
    /\ codecMu = "none"
    /\ calls = 0
    /\ decoded = 0
    /\ foreign = FALSE

-----------------------------------------------------------------------------
(* SpscRing.                                                               *)

\* Mutant: off by one, the last element is not seen.
EmptyEarly(q) == q.w - q.r <= 1

Empty(q) == q.r = q.w
Full(q, size) == q.w - q.r >= size

Peek(q, size) == q.buf[q.r % size]
Put(q, size, n) == [q EXCEPT !.buf[q.w % size] = n]

\* A thread forgets the index it has stored, and between two QueuedNals the
\* QueuedNal.
Goto(t, pc) ==
    th' = [th EXCEPT ![t] = [pc |-> pc, idx |-> 0,
                             nal |-> IF pc \in {"idle", "drain"} THEN NoNal ELSE @.nal]]
GotoWith(t, pc, i, n) == th' = [th EXCEPT ![t] = [pc |-> pc, idx |-> i, nal |-> n]]

\* pop(), first half: load both indices and read the cell.
PopBegin(t, q, size, pc) ==
    /\ ~Empty(q)
    /\ GotoWith(t, pc, q.r, Peek(q, size))

\* pop(), second half: store read_.
PopEnd(t, q) == [q EXCEPT !.r = th[t].idx + 1]

\* push(), second half: store write_.
PushEnd(t, q) == [q EXCEPT !.w = th[t].idx + 1]

-----------------------------------------------------------------------------
(* The packet thread: feed_nalu.                                           *)

\* Mutant: the drop is counted twice.
FeedDropTwice ==
    /\ th["packet"].pc = "idle"
    /\ calls < MaxFeed
    /\ Empty(freeRing)
    /\ calls' = calls + 2
    /\ UNCHANGED <<ring, freeRing, data, th, own, codecMu, decoded, foreign>>

\* No QueuedNal is free: the slice is dropped and recovery armed.
FeedDrop ==
    /\ th["packet"].pc = "idle"
    /\ calls < MaxFeed
    /\ Empty(freeRing)
    /\ calls' = calls + 1
    /\ UNCHANGED <<ring, freeRing, data, th, own, codecMu, decoded, foreign>>

FeedPop ==
    /\ th["packet"].pc = "idle"
    /\ calls < MaxFeed
    /\ PopBegin("packet", freeRing, 2 * Cap, "feedPop")
    /\ UNCHANGED <<ring, freeRing, data, own, codecMu, calls, decoded, foreign>>

FeedPopEnd ==
    /\ th["packet"].pc = "feedPop"
    /\ freeRing' = PopEnd("packet", freeRing)
    /\ Goto("packet", "fill")
    /\ UNCHANGED <<ring, data, own, codecMu, calls, decoded, foreign>>

\* The QueuedNal is filled and pushed; if ring_ were full it would go back.
FeedFill ==
    LET n == th["packet"].nal IN
    /\ th["packet"].pc = "fill"
    /\ data' = [data EXCEPT ![n] = calls + 1]
    /\ calls' = calls + 1
    /\ IF Full(ring, Cap)
         THEN /\ Goto("packet", "giveBack")
              /\ UNCHANGED ring
         ELSE /\ ring' = Put(ring, Cap, n)
              /\ GotoWith("packet", "feedPush", ring.w, n)
    /\ UNCHANGED <<freeRing, own, codecMu, decoded, foreign>>

FeedPushEnd ==
    /\ th["packet"].pc = "feedPush"
    /\ ring' = PushEnd("packet", ring)
    /\ Goto("packet", "idle")
    /\ UNCHANGED <<freeRing, data, own, codecMu, calls, decoded, foreign>>

-----------------------------------------------------------------------------
(* The worker: worker_loop and decode_one.                                 *)

NqWorkerPop ==
    /\ th["worker"].pc = "idle"
    /\ PopBegin("worker", ring, Cap, "workPop")
    /\ UNCHANGED <<ring, freeRing, data, own, codecMu, calls, decoded, foreign>>

\* Mutant: the QueuedNal is given back before it has been decoded.
WorkerPopEndFrees ==
    /\ th["worker"].pc = "workPop"
    /\ ring' = PopEnd("worker", ring)
    /\ freeRing' = [Put(freeRing, 2 * Cap, th["worker"].nal) EXCEPT !.w = @ + 1]
    /\ Goto("worker", "decode")
    /\ UNCHANGED <<data, own, codecMu, calls, decoded, foreign>>

WorkerPopEnd ==
    /\ th["worker"].pc = "workPop"
    /\ ring' = PopEnd("worker", ring)
    /\ Goto("worker", "decode")
    /\ UNCHANGED <<freeRing, data, own, codecMu, calls, decoded, foreign>>

\* decode_one returns at once on an empty QueuedNal.
SendPacket(n) == IF data[n] = 0 THEN decoded ELSE data[n]

Decode ==
    LET n == th["worker"].nal IN
    /\ th["worker"].pc = "decode"
    /\ codecMu = "none"
    /\ decoded' = SendPacket(n)
    /\ Goto("worker", "release")
    /\ UNCHANGED <<ring, freeRing, data, own, codecMu, calls, foreign>>

\* ... or libav has been silent too long and decode_one ends in try_recovery.
DecodeAndRecover ==
    LET n == th["worker"].nal IN
    /\ th["worker"].pc = "decode"
    /\ codecMu = "none"
    /\ data[n] # 0
    /\ decoded' = SendPacket(n)
    /\ codecMu' = "worker"
    /\ own' = n
    /\ Goto("worker", "drain")
    /\ UNCHANGED <<ring, freeRing, data, calls, foreign>>

-----------------------------------------------------------------------------
(* drain_queue, on the thread that holds codec_mu_.                        *)

Restart(t) ==
    /\ t \in Restarters
    /\ th[t].pc = "idle"
    /\ codecMu = "none"
    /\ codecMu' = t
    /\ foreign' = TRUE
    /\ Goto(t, "drain")
    /\ UNCHANGED <<ring, freeRing, data, own, calls, decoded>>

DrainPop(t) ==
    /\ th[t].pc = "drain"
    /\ PopBegin(t, ring, Cap, "drainPop")
    /\ UNCHANGED <<ring, freeRing, data, own, codecMu, calls, decoded, foreign>>

DrainPopEnd(t) ==
    /\ th[t].pc = "drainPop"
    /\ ring' = PopEnd(t, ring)
    /\ data' = [data EXCEPT ![th[t].nal] = 0]
    /\ Goto(t, "drainFree")
    /\ UNCHANGED <<freeRing, own, codecMu, calls, decoded, foreign>>

\* Mutant: the thread keeps codec_mu_ when the queue is empty.
DrainEndLocked(t) ==
    /\ th[t].pc = "drain"
    /\ Empty(ring)
    /\ own' = NoNal
    /\ IF t = "worker" THEN GotoWith(t, "release", 0, own) ELSE Goto(t, "idle")
    /\ UNCHANGED <<ring, freeRing, data, codecMu, calls, decoded, foreign>>

\* The queue is empty: the worker goes back to release its own QueuedNal.
DrainEnd(t) ==
    /\ th[t].pc = "drain"
    /\ Empty(ring)
    /\ codecMu' = "none"
    /\ own' = NoNal
    /\ IF t = "worker" THEN GotoWith(t, "release", 0, own) ELSE Goto(t, "idle")
    /\ UNCHANGED <<ring, freeRing, data, calls, decoded, foreign>>

-----------------------------------------------------------------------------
(* free_ring_.push, with what each caller does before it.                  *)

AfterFree(t) == IF th[t].pc \in {"drainFree", "drainFreed"} THEN "drain" ELSE "idle"

\* Nobody looks at what push() returns.
FreePush(t) ==
    LET n == th[t].nal IN
    /\ th[t].pc \in {"release", "drainFree", "giveBack"}
    /\ data' = IF th[t].pc = "release" THEN [data EXCEPT ![n] = 0] ELSE data
    /\ IF Full(freeRing, 2 * Cap)
         THEN /\ Goto(t, AfterFree(t))
              /\ UNCHANGED freeRing
         ELSE /\ freeRing' = Put(freeRing, 2 * Cap, n)
              /\ GotoWith(t, IF th[t].pc = "drainFree" THEN "drainFreed" ELSE "freed",
                          freeRing.w, n)
    /\ UNCHANGED <<ring, own, codecMu, calls, decoded, foreign>>

\* Mutant: write_ is not stored.
FreePushEndLost(t) ==
    /\ th[t].pc \in {"freed", "drainFreed"}
    /\ Goto(t, AfterFree(t))
    /\ UNCHANGED <<ring, freeRing, data, own, codecMu, calls, decoded, foreign>>

FreePushEnd(t) ==
    /\ th[t].pc \in {"freed", "drainFreed"}
    /\ freeRing' = PushEnd(t, freeRing)
    /\ Goto(t, AfterFree(t))
    /\ UNCHANGED <<ring, data, own, codecMu, calls, decoded, foreign>>

Feeder == FeedDrop \/ FeedPop \/ FeedPopEnd \/ FeedFill \/ FeedPushEnd
NqWorker == NqWorkerPop \/ WorkerPopEnd \/ Decode \/ DecodeAndRecover
Drain(t) == DrainPop(t) \/ DrainPopEnd(t) \/ DrainEnd(t)
Free(t) == FreePush(t) \/ FreePushEnd(t)

NqNext ==
    \/ Feeder
    \/ NqWorker
    \/ \E t \in Thread : Restart(t) \/ Drain(t) \/ Free(t)

\* A thread's next step in a call it has begun, and the worker's next pop.
GetsOn(t) ==
    \/ Drain(t) \/ Free(t)
    \/ t = "packet" /\ (FeedPopEnd \/ FeedFill \/ FeedPushEnd)
    \/ t = "worker" /\ (NqWorkerPop \/ WorkerPopEnd)

\* Every thread gets on with a call it is in, and the worker looks at the
\* queue again every 5 ms.  Restarts are at least 3 s apart, so that the
\* worker finds codec_mu_ free in between: strong fairness on decode_one
\* stands for that.  Feeding and restarting may stop at any time.
NqFairness ==
    /\ WF_nqVars(GetsOn("packet")) /\ WF_nqVars(GetsOn("tx")) /\ WF_nqVars(GetsOn("worker"))
    /\ SF_nqVars(Decode \/ DecodeAndRecover)

NqSpec == NqInit /\ [][NqNext]_nqVars /\ NqFairness

-----------------------------------------------------------------------------
(* Properties.                                                             *)

RingOf(size) == [buf : [0 .. size - 1 -> Nal \cup {NoNal}], w : Nat, r : Nat]

\* The rings hold QueuedNals, and a thread's call is one the code has.
NqTypeOK ==
    /\ ring \in RingOf(Cap)
    /\ freeRing \in RingOf(2 * Cap)
    /\ data \in [Nal -> 0 .. MaxFeed]
    /\ th \in [Thread -> [pc : {"idle", "feedPop", "fill", "feedPush", "giveBack", "workPop",
                                "decode", "release", "drain", "drainPop", "drainFree",
                                "freed", "drainFreed"},
                          idx : Nat, nal : Nal \cup {NoNal}]]
    /\ own \in Nal \cup {NoNal}
    /\ codecMu \in Thread \cup {"none"}
    /\ calls \in 0 .. MaxFeed
    /\ decoded \in 0 .. MaxFeed
    /\ foreign \in BOOLEAN

\* Where QueuedNal n is: cells of the two rings and hands of the threads.
CellsOf(q, size, n) == {i \in q.r .. q.w - 1 : q.buf[i % size] = n}
HandsOf(n) ==
    {t \in Thread : /\ th[t].nal = n
                    /\ th[t].pc \in {"fill", "feedPush", "giveBack", "decode", "release",
                                     "drainFree", "freed", "drainFreed"}}

\* The rings are "single-producer / single-consumer": every QueuedNal is in
\* one cell of one ring or in the hands of one thread, never in two places
\* (it would be filled while it is decoded) and never in none (it would be
\* lost to the pool).
HeldOnce ==
    \A n \in Nal :
        Cardinality(CellsOf(ring, Cap, n)) + Cardinality(CellsOf(freeRing, 2 * Cap, n))
            + Cardinality(HandsOf(n)) + (IF own = n THEN 1 ELSE 0) = 1

\* The same as long as the worker is the only one to drain ring_: decode_one,
\* its own recovery and every path that gives a QueuedNal back keep it in one
\* place.
HeldOnceByWorker == ~foreign => HeldOnce

\* Until another thread drains ring_, libav gets the NALs in the order in
\* which they were fed, none of them twice and none after its QueuedNal has
\* been given to another NAL: a reference frame is never decoded after a
\* frame that needs it.
DecodedInOrder == decoded' # decoded /\ ~foreign => decoded' > decoded

\* The two rings are one FIFO: a QueuedNal is in one place, and NALs are
\* decoded in the order feed_nalu was called, until a foreign restart.
QueueIsFifo == [][(~foreign' => NqTypeOK') /\ HeldOnceByWorker' /\ DecodedInOrder]_nqVars

\* The queue does not stop.  The worker gets codec_mu_, comes out of every
\* decode and recovery and stands before its pop again, also when other
\* threads restart the decoder; and as feed_nalu calls are finite here, it then
\* finds the ring empty: no index goes astray and leaves NALs behind that
\* nobody sees.  After a foreign restart the second half is not claimed.
QueueGetsOn == []<>(th["worker"].pc = "idle" /\ (ring.r = ring.w \/ foreign))

=============================================================================
