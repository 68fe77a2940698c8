------------------------------ MODULE AudioSink ------------------------------
(***************************************************************************)
(* The sound output (src/src/app/audio.cpp, AudioSink): a queue of decoded *)
(* chunks between the thread that receives sound and a render thread that  *)
(* the device wakes once per period.  Chunks are written as frames; a      *)
(* frame carries the time its chunk was fed.                               *)
(***************************************************************************)
EXTENDS Naturals, Sequences, FiniteSets

CONSTANTS
  MaxChunks,    \* MAX_QUEUE_CHUNKS
  ChunkFrames,  \* frames of a chunk
  Late,         \* JITTER_TARGET_NS + SLACK_LATE_NS, in ticks
  Period,       \* frames the device may ask for at a time, 0 when it is full
  MaxTime,      \* bound: ticks
  MaxFeeds      \* bound: chunks fed

ASSUME SinkAssumption == ChunkFrames \in Nat /\ Late \in Nat /\ Period \subseteq Nat

VARIABLES
  now,     \* now_ns, in ticks
  sink,    \* "none" (create failed or not yet tried), "open", "stopped"
  thr,     \* render thread: "none", "run", "done"
  dev,     \* the device still wakes the thread and takes frames
  stop,    \* Impl::stop, set by AudioSink::stop
  q,       \* frames queued: [n: number, id: chunk, t: time fed]
  feeds,   \* chunks fed
  out      \* the frames written last, and when

auVars == <<now, sink, thr, dev, stop, q, feeds, out>>

AuInit ==
  /\ now = 0 /\ sink = "none" /\ thr = "none" /\ dev = TRUE /\ stop = FALSE
  /\ q = <<>> /\ feeds = 0 /\ out = [frames |-> <<>>, at |-> 0]

\* AudioSink::create: any failing step leaves the viewer without sound.
AuCreate ==
  /\ sink = "none" /\ ~stop
  /\ sink' = "open" /\ thr' = "run"
  /\ UNCHANGED <<now, dev, stop, q, feeds, out>>

Chunk(id) == [i \in 1..ChunkFrames |-> [n |-> (id - 1) * ChunkFrames + i, id |-> id, t |-> now]]

Chunks == Cardinality({q[i].id : i \in DOMAIN q})

\* How many frames pop_front takes while the head is one of these.
Popped(frames) == {n \in 0 .. Len(q) : 1 .. n \subseteq frames /\ n + 1 \notin frames}

HeadChunk == {i \in DOMAIN q : q[i].id = q[1].id}

\* feed of a chunk that is not silence; a full queue loses its oldest chunk.
AuFeed ==
  /\ sink = "open" /\ feeds < MaxFeeds
  /\ feeds' = feeds + 1
  /\ \E n \in IF Chunks >= MaxChunks THEN Popped(HeadChunk) ELSE {0} :
       q' = SubSeq(q, n + 1, Len(q)) \o Chunk(feeds + 1)
  /\ UNCHANGED <<now, sink, thr, dev, stop, out>>

\* Mutant: nothing is too old.
StaleNever == {}

\* The frames of chunks older than the cutoff.
Stale == {i \in DOMAIN q : q[i].t + Late < now}

\* Mutant: what was written stays queued.
LeftAll(n, k) == SubSeq(q, n + 1, Len(q))

\* What n stale frames and a period of k leave of the queue.
Left(n, k) == SubSeq(q, n + k + 1, Len(q))

\* One period of the render thread: the device has room for k frames; what the
\* queue cannot fill is silence.
AuRender(k) ==
  /\ thr = "run" /\ ~stop /\ dev
  /\ \/ k = 0 /\ UNCHANGED <<q, out>>
     \/ /\ k > 0
        /\ \E n \in Popped(Stale) :
             /\ out' = [frames |-> SubSeq(q, n + 1, IF n + k < Len(q) THEN n + k ELSE Len(q)), at |-> now]
             /\ q' = Left(n, k)
  /\ UNCHANGED <<now, sink, thr, dev, stop, feeds>>

\* Mutant: the wait for the device has no time-out.
WaitForever == dev

WaitTimesOut == TRUE

\* The wait for the device gives up after 200 ms; the loop ends when stop is set.
AuLeave ==
  /\ thr = "run" /\ stop /\ WaitTimesOut
  /\ thr' = "done"
  /\ UNCHANGED <<now, sink, dev, stop, q, feeds, out>>

\* AudioSink::stop: sets the flag, joins the thread, stops the client.
AuStop ==
  /\ sink = "open" /\ stop' = TRUE
  /\ UNCHANGED <<now, sink, thr, dev, q, feeds, out>>

Joined ==
  /\ sink = "open" /\ stop /\ thr = "done"
  /\ sink' = "stopped"
  /\ UNCHANGED <<now, thr, dev, stop, q, feeds, out>>

\* The output device is unplugged: GetBuffer fails, no more wake-ups.
Unplug ==
  /\ dev' = FALSE
  /\ UNCHANGED <<now, sink, thr, stop, q, feeds, out>>

AuTick ==
  /\ now < MaxTime
  /\ now' = now + 1
  /\ UNCHANGED <<sink, thr, dev, stop, q, feeds, out>>

AuNext == AuCreate \/ AuFeed \/ (\E k \in Period : AuRender(k)) \/ AuLeave \/ AuStop \/ Joined \/ Unplug \/ AuTick

AuFairness == WF_auVars(AuLeave) /\ WF_auVars(Joined)

AuSpec == AuInit /\ [][AuNext]_auVars /\ AuFairness

-----------------------------------------------------------------------------
(* No backlog is replayed: after any pause of the render thread, what it   *)
(* writes next is at most Late old ("drop ancient audio", audio.cpp:161).  *)
NeverLate == \A i \in DOMAIN out.frames : out.frames[i].t + Late >= out.at

(* A frame is written once and in the order it was fed, through partly     *)
(* played chunks, a full queue and late chunks: what remains queued is     *)
(* newer than everything written (audio.cpp:162-169, :186).                *)
PlayedInOrder ==
  LET all == out.frames \o q IN
  \A i, j \in DOMAIN all : i < j => all[i].n < all[j].n

(* Stopping the sink never hangs the viewer: the render thread ends and is *)
(* joined even when its device is gone (the 200 ms wait, audio.cpp:150).   *)
StopReturns == stop ~> sink = "stopped"

(* Sound is played in order and in time, and its thread ends when told.    *)
SoundInOrder == []NeverLate /\ []PlayedInOrder /\ StopReturns

=============================================================================
