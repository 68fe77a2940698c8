--------------------------- MODULE NalQueueProofs ----------------------------
(***************************************************************************)
(* Theorems about the pool of QueuedNals that goes round between feed_nalu *)
(* and the decode worker (codec_decoder.h), for any number of them: what   *)
(* push() and pop() do to a ring by themselves, where every QueuedNal is,  *)
(* and that the steps of both threads keep this.                           *)
(***************************************************************************)
EXTENDS NalQueue, FiniteSetTheorems, TLAPS

-----------------------------------------------------------------------------
(* A ring of sz cells by itself.                                           *)

Cell(q, sz, i) == q.buf[i % sz]
Idx(q) == q.r .. q.w - 1
Elems(q, sz) == {Cell(q, sz, i) : i \in Idx(q)}

\* The cells between read_ and write_ hold different QueuedNals.
RingOK(q, sz) ==
    /\ q \in RingOf(sz)
    /\ q.r <= q.w /\ q.w - q.r <= sz
    /\ \A i \in Idx(q) : Cell(q, sz, i) \in Nal
    /\ \A i, j \in Idx(q) : Cell(q, sz, i) = Cell(q, sz, j) => i = j

\* Two indices less than sz apart are in different cells.
LEMMA DifferentCells ==
  ASSUME NEW sz \in Nat \ {0}, NEW i \in Nat, NEW j \in Nat, i < j, j - i < sz
  PROVE  i % sz # j % sz /\ i % sz \in 0 .. sz - 1 /\ j % sz \in 0 .. sz - 1
<1>1. i % sz \in 0 .. sz - 1 /\ i \div sz \in Int /\ j % sz \in 0 .. sz - 1 /\ j \div sz \in Int
  OBVIOUS
<1>3. i = sz * (i \div sz) + (i % sz)
  BY SMTT(30)
<1>4. j = sz * (j \div sz) + (j % sz)
  BY SMTT(30)
<1>2. ASSUME i % sz = j % sz PROVE FALSE
  <2> DEFINE d == (j \div sz) - (i \div sz)
  <2>1. d \in Int /\ j - i = sz * d
    BY <1>1, <1>2, <1>3, <1>4
  <2> HIDE DEF d
  <2>2. d > 0
    BY <2>1
  <2>3. sz * d >= sz
    BY <2>1, <2>2
  <2> QED BY <2>1, <2>3
<1> QED BY Zenon, <1>1, <1>2

\* push() writes a cell that no element is in.
LEMMA RingPut ==
  ASSUME NEW sz \in Nat \ {0}, NEW q, RingOK(q, sz), q.w - q.r < sz, NEW n \in Nal
  PROVE  /\ Put(q, sz, n).r = q.r /\ Put(q, sz, n).w = q.w
         /\ Cell(Put(q, sz, n), sz, q.w) = n
         /\ \A i \in Idx(q) : Cell(Put(q, sz, n), sz, i) = Cell(q, sz, i)
         /\ Elems(Put(q, sz, n), sz) = Elems(q, sz)
         /\ RingOK(Put(q, sz, n), sz)
<1> DEFINE p == Put(q, sz, n)
<1>1. q \in RingOf(sz) /\ q.w \in Nat /\ q.r \in Nat /\ q.buf \in [0 .. sz - 1 -> Nal \cup {NoNal}]
  BY Zenon DEF RingOK, RingOf
<1>2. q.w % sz \in 0 .. sz - 1
  BY <1>1
<1>3. p.r = q.r /\ p.w = q.w /\ p.buf = [q.buf EXCEPT ![q.w % sz] = n] /\ p \in RingOf(sz)
  BY Zenon, <1>1, <1>2 DEF Put, RingOf
<1>4. Cell(p, sz, q.w) = n
  BY Zenon, <1>1, <1>2, <1>3 DEF Cell
<1>5. ASSUME NEW i \in Idx(q) PROVE Cell(p, sz, i) = Cell(q, sz, i)
  <2>1. i \in Nat /\ i < q.w /\ q.w - i < sz
    BY <1>1 DEF Idx, RingOK
  <2>2. i % sz # q.w % sz
    BY Zenon, <1>1, <2>1, DifferentCells
  <2> QED BY <1>1, <1>2, <1>3, <2>2 DEF Cell
<1>6. Idx(p) = Idx(q)
  BY Zenon, <1>3 DEF Idx
<1>7. Elems(p, sz) = Elems(q, sz)
  BY Zenon, <1>5, <1>6 DEF Elems
<1>8. RingOK(p, sz)
  BY Zenon, <1>3, <1>5, <1>6 DEF RingOK
<1> QED BY Zenon, <1>3, <1>4, <1>5, <1>7, <1>8

\* ... and the store of write_ adds it.
LEMMA RingPush ==
  ASSUME NEW sz \in Nat \ {0}, NEW q, RingOK(q, sz), q.w - q.r < sz,
         Cell(q, sz, q.w) \in Nal, Cell(q, sz, q.w) \notin Elems(q, sz)
  PROVE  LET p == [q EXCEPT !.w = q.w + 1]
         IN  /\ p.r = q.r /\ p.w = q.w + 1
             /\ \A i \in Nat : Cell(p, sz, i) = Cell(q, sz, i)
             /\ Elems(p, sz) = Elems(q, sz) \cup {Cell(q, sz, q.w)}
             /\ RingOK(p, sz)
<1> DEFINE p == [q EXCEPT !.w = q.w + 1]
<1>1. q \in RingOf(sz) /\ q.w \in Nat /\ q.r \in Nat /\ q.r <= q.w
  BY Zenon DEF RingOK, RingOf
<1>2. p.r = q.r /\ p.w = q.w + 1 /\ p.buf = q.buf /\ p \in RingOf(sz)
  BY <1>1 DEF RingOf
<1> HIDE DEF p
<1>3. \A i \in Nat : Cell(p, sz, i) = Cell(q, sz, i)
  BY Zenon, <1>2 DEF Cell
<1>4. Idx(p) = Idx(q) \cup {q.w} /\ Idx(p) \subseteq Nat /\ q.w \notin Idx(q)
  <2>1. \A i : i \in Idx(p) <=> i \in Nat /\ q.r <= i /\ i <= q.w
    BY <1>1, <1>2 DEF Idx
  <2>2. \A i : i \in Idx(q) <=> i \in Nat /\ q.r <= i /\ i < q.w
    BY <1>1 DEF Idx
  <2> QED BY <1>1, <2>1, <2>2
<1>5. Elems(p, sz) = Elems(q, sz) \cup {Cell(q, sz, q.w)}
  BY <1>3, <1>4 DEF Elems
<1>6. \A i \in Idx(p) : Cell(p, sz, i) \in Nal
  BY Zenon, <1>3, <1>4 DEF RingOK
<1>7. \A i, j \in Idx(p) : Cell(p, sz, i) = Cell(p, sz, j) => i = j
  BY <1>3, <1>4 DEF RingOK, Elems
<1>8. p.r <= p.w /\ p.w - p.r <= sz
  BY <1>1, <1>2
<1> QED BY Zenon, <1>2, <1>3, <1>5, <1>6, <1>7, <1>8 DEF RingOK, p

\* pop() takes the element read_ is at, and the store of read_ takes no other.
LEMMA RingPop ==
  ASSUME NEW sz \in Nat \ {0}, NEW q, RingOK(q, sz), q.r # q.w
  PROVE  LET p == [q EXCEPT !.r = q.r + 1]
         IN  /\ p.r = q.r + 1 /\ p.w = q.w /\ q.r \in Idx(q)
             /\ \A i \in Nat : Cell(p, sz, i) = Cell(q, sz, i)
             /\ Cell(q, sz, q.r) \in Elems(q, sz)
             /\ Elems(p, sz) = Elems(q, sz) \ {Cell(q, sz, q.r)}
             /\ RingOK(p, sz)
<1> DEFINE p == [q EXCEPT !.r = q.r + 1]
<1>1. q \in RingOf(sz) /\ q.w \in Nat /\ q.r \in Nat /\ q.r < q.w
  BY DEF RingOK, RingOf
<1>2. p.r = q.r + 1 /\ p.w = q.w /\ p.buf = q.buf /\ p \in RingOf(sz)
  BY <1>1 DEF RingOf
<1> HIDE DEF p
<1>3. \A i \in Nat : Cell(p, sz, i) = Cell(q, sz, i)
  BY Zenon, <1>2 DEF Cell
<1>4. Idx(p) = Idx(q) \ {q.r} /\ q.r \in Idx(q) /\ Idx(p) \subseteq Nat
  BY <1>1, <1>2 DEF Idx
<1>5. Cell(q, sz, q.r) \in Elems(q, sz) /\ Elems(p, sz) = Elems(q, sz) \ {Cell(q, sz, q.r)}
  BY <1>3, <1>4 DEF Elems, RingOK
<1>6. \A i \in Idx(p) : Cell(p, sz, i) \in Nal
  BY Zenon, <1>3, <1>4 DEF RingOK
<1>7. \A i, j \in Idx(p) : Cell(p, sz, i) = Cell(p, sz, j) => i = j
  BY Zenon, <1>3, <1>4 DEF RingOK
<1>8. p.r <= p.w /\ p.w - p.r <= sz
  BY <1>1, <1>2 DEF RingOK
<1> QED BY Zenon, <1>2, <1>3, <1>4, <1>5, <1>6, <1>7, <1>8 DEF RingOK, p

-----------------------------------------------------------------------------
(* NalQueue: the two rings and the threads.                                *)

PHolds == th["packet"].pc \in {"fill", "feedPush"}
WHolds == th["worker"].pc \in {"decode", "release", "drainFree", "freed", "drainFreed"}
PHas == IF PHolds THEN {th["packet"].nal} ELSE {}
WHas == IF WHolds THEN {th["worker"].nal} ELSE {}
OHas == IF th["worker"].pc \in {"drain", "drainPop", "drainFree", "drainFreed"} THEN {own} ELSE {}
InRing == Elems(ring, Cap)
InFree == Elems(freeRing, 2 * Cap)

\* Where each thread is in its call, and what it has loaded or written there.
NqShape ==
    /\ NqTypeOK
    /\ th["tx"].pc = "idle"
    /\ th["packet"].pc \in {"idle", "feedPop", "fill", "feedPush"}
    /\ th["worker"].pc \in {"idle", "workPop", "decode", "release", "drain", "drainPop", "drainFree",
                            "freed", "drainFreed"}
    /\ RingOK(ring, Cap) /\ RingOK(freeRing, 2 * Cap)
    /\ th["packet"].pc \in {"feedPop", "fill"} => calls < MaxFeed
    /\ th["packet"].pc = "feedPop" =>
         /\ freeRing.r # freeRing.w /\ th["packet"].idx = freeRing.r
         /\ th["packet"].nal = Cell(freeRing, 2 * Cap, freeRing.r)
    /\ th["packet"].pc = "feedPush" =>
         /\ ring.w - ring.r < Cap /\ th["packet"].idx = ring.w
         /\ th["packet"].nal = Cell(ring, Cap, ring.w)
    /\ th["worker"].pc \in {"workPop", "drainPop"} =>
         /\ ring.r # ring.w /\ th["worker"].idx = ring.r
         /\ th["worker"].nal = Cell(ring, Cap, ring.r)
    /\ th["worker"].pc \in {"freed", "drainFreed"} =>
         /\ freeRing.w - freeRing.r < 2 * Cap /\ th["worker"].idx = freeRing.w
         /\ th["worker"].nal = Cell(freeRing, 2 * Cap, freeRing.w)

\* Every QueuedNal is in one of five places.
NqOnce ==
    /\ Nal = InRing \cup InFree \cup PHas \cup WHas \cup OHas
    /\ InRing \cap InFree = {}
    /\ PHas \cap (InRing \cup InFree) = {}
    /\ WHas \cap (InRing \cup InFree \cup PHas) = {}
    /\ OHas \cap (InRing \cup InFree \cup PHas \cup WHas) = {}
    /\ (OHas = {} => own = NoNal)

\* The NALs on their way to libav, oldest first: the one the worker is about to decode, those in
\* ring_, and the one being pushed.
NqOrder ==
    /\ \A n \in Nal : data[n] <= calls
    /\ decoded <= calls
    /\ \A i \in Idx(ring) : decoded < data[Cell(ring, Cap, i)]
    /\ \A i, j \in Idx(ring) : i < j => data[Cell(ring, Cap, i)] < data[Cell(ring, Cap, j)]
    /\ th["worker"].pc = "decode" =>
         /\ decoded < data[th["worker"].nal]
         /\ \A i \in Idx(ring) : data[th["worker"].nal] < data[Cell(ring, Cap, i)]
    /\ th["packet"].pc = "feedPush" =>
         /\ data[th["packet"].nal] = calls /\ decoded < calls
         /\ \A i \in Idx(ring) : data[Cell(ring, Cap, i)] < calls
         /\ th["worker"].pc = "decode" => data[th["worker"].nal] < calls

NqInv == NqShape /\ NqOnce /\ NqOrder

\* What counting the QueuedNals gives: neither ring can be full when one of them is elsewhere.
RingsFit ==
    /\ Cap \in Nat \ {0} /\ 2 * Cap \in Nat \ {0}
    /\ freeRing.w - freeRing.r <= Cap
    /\ InRing # Nal => ring.w - ring.r < Cap

Pc == {"idle", "feedPop", "fill", "feedPush", "giveBack", "workPop", "decode", "release", "drain",
       "drainPop", "drainFree", "freed", "drainFreed"}

\* foreign is history: once set it stays.
LEMMA ForeignStays == foreign /\ [NqNext]_nqVars => foreign'
<1> SUFFICES ASSUME foreign, [NqNext]_nqVars PROVE foreign'
  OBVIOUS
<1>1. CASE Feeder
  BY Zenon, <1>1 DEF Feeder, FeedDrop, FeedPop, FeedPopEnd, FeedFill, FeedPushEnd
<1>2. CASE NqWorker
  BY Zenon, <1>2 DEF NqWorker, NqWorkerPop, WorkerPopEnd, Decode, DecodeAndRecover
<1>3. ASSUME NEW t \in Thread, Restart(t) PROVE foreign'
  BY Zenon, <1>3 DEF Restart
<1>4. ASSUME NEW t \in Thread, Drain(t) PROVE foreign'
  BY Zenon, <1>4 DEF Drain, DrainPop, DrainPopEnd, DrainEnd
<1>5. ASSUME NEW t \in Thread, Free(t) PROVE foreign'
  BY Zenon, <1>5 DEF Free, FreePush, FreePushEnd
<1>6. CASE UNCHANGED nqVars
  BY Zenon, <1>6 DEF nqVars
<1> QED BY Zenon, <1>1, <1>2, <1>3, <1>4, <1>5, <1>6 DEF NqNext

\* Without a foreign drain, the calls of drain_queue and release_nalu are the worker's.
LEMMA WorkerDrains ==
  ASSUME NqShape, ~foreign', NEW t \in Thread, Restart(t) \/ Drain(t) \/ Free(t)
  PROVE  t = "worker" /\ ~Restart(t)
<1>1. ~Restart(t)
  BY Zenon DEF Restart
<1>2. th["tx"].pc = "idle" /\ th["packet"].pc \in {"idle", "feedPop", "fill", "feedPush"}
  BY Zenon DEF NqShape
<1>3. th[t].pc \notin {"idle", "feedPop", "fill", "feedPush"}
  <2>1. CASE Drain(t)
    BY Zenon, <2>1 DEF Drain, DrainPop, DrainPopEnd, DrainEnd
  <2>2. CASE Free(t)
    BY Zenon, <2>2 DEF Free, FreePush, FreePushEnd
  <2> QED BY Zenon, <1>1, <2>1, <2>2
<1> QED BY Zenon, <1>1, <1>2, <1>3 DEF Thread

\* A step of a thread's call.
Moved(t, pc, i, n) == th' = [th EXCEPT ![t] = [pc |-> pc, idx |-> i, nal |-> n]]
\* A thread that moves leaves the other threads where they are.
LEMMA ThreadMoves ==
  ASSUME NqTypeOK, NEW t \in Thread, NEW pc \in Pc, NEW i \in Nat, NEW n \in Nal \cup {NoNal},
         Moved(t, pc, i, n)
  PROVE  /\ th' \in [Thread -> [pc : Pc, idx : Nat, nal : Nal \cup {NoNal}]]
         /\ th'[t].pc = pc /\ th'[t].idx = i /\ th'[t].nal = n
         /\ \A u \in Thread : u # t => th'[u] = th[u]
BY Zenon DEF NqTypeOK, Pc, Moved

\* What the shape says of the variables' types.
LEMMA Typed ==
  ASSUME NqShape
  PROVE  /\ NqTypeOK
         /\ \A t \in Thread : th[t] \in [pc : Pc, idx : Nat, nal : Nal \cup {NoNal}]
         /\ ring.r \in Nat /\ ring.w \in Nat /\ freeRing.r \in Nat /\ freeRing.w \in Nat
         /\ calls \in Nat /\ "packet" \in Thread /\ "worker" \in Thread /\ "tx" \in Thread
<1>1. "packet" \in Thread /\ "worker" \in Thread /\ "tx" \in Thread
  BY Zenon DEF Thread
<1>2. NqTypeOK
  BY Zenon DEF NqShape
<1>3. \A t \in Thread : th[t] \in [pc : Pc, idx : Nat, nal : Nal \cup {NoNal}]
  BY Zenon, <1>2 DEF NqTypeOK, Pc
<1>4. ring.r \in Nat /\ ring.w \in Nat /\ freeRing.r \in Nat /\ freeRing.w \in Nat /\ calls \in Nat
  BY <1>2 DEF NqTypeOK, RingOf
<1> QED BY Zenon, <1>1, <1>2, <1>3, <1>4

\* The steps of release_nalu.
LEMMA FreeKeeps == RingsFit /\ NqInv /\ Free("worker") => NqInv'
<1> SUFFICES ASSUME RingsFit, NqInv, Free("worker") PROVE NqInv'
  OBVIOUS
<1>0. Cap \in Nat \ {0} /\ 2 * Cap \in Nat \ {0}
  BY Zenon DEF RingsFit
<1> USE <1>0, QueueAssumption DEF NqInv
<1> DEFINE P == th["packet"]
           W == th["worker"]
<1>1. /\ W \in [pc : Pc, idx : Nat, nal : Nal \cup {NoNal}] /\ NqTypeOK
      /\ ring.r \in Nat /\ ring.w \in Nat /\ freeRing.r \in Nat /\ freeRing.w \in Nat
      /\ calls \in Nat /\ "packet" \in Thread /\ "worker" \in Thread /\ "tx" \in Thread
  BY Zenon, Typed DEF NqInv
<1>2. W.nal \in Nal \cup {NoNal} /\ 0 \in Nat /\ NoNal \in Nal \cup {NoNal} /\ own \in Nal \cup {NoNal}
  BY Zenon, <1>1 DEF NqTypeOK
<1>3. ring.r <= ring.w /\ freeRing.r <= freeRing.w /\ ring.w - ring.r <= Cap
  BY Zenon DEF NqShape, RingOK
<1>4. \A c \in {"idle", "workPop", "decode", "release", "drain", "drainPop", "drainFree", "freed", "drainFreed"} : c \in Pc
  BY Zenon DEF Pc
<1>5. \A n \in Nal : data[n] \in Nat /\ decoded \in Nat
  BY <1>1 DEF NqTypeOK
<1>6. CASE FreePush("worker")
  <2>1. W.pc \in {"release", "drainFree"} /\ WHas = {W.nal} /\ W.nal \in Nal
    BY Zenon, <1>6 DEF FreePush, NqShape, NqOnce, WHas, WHolds
  <2>2. freeRing.w - freeRing.r < 2 * Cap
    <3>1. freeRing.w - freeRing.r <= Cap
      BY Zenon DEF RingsFit
    <3> QED BY <1>1, <3>1
  <2>R. freeRing' = Put(freeRing, 2 * Cap, W.nal)
    BY <1>1, <1>6, <2>2 DEF FreePush, Full
  <2>D. data' = [data EXCEPT ![W.nal] = 0] \/ data' = data
    BY Zenon, <1>6 DEF FreePush
  <2>3. PICK c \in {"freed", "drainFreed"} :
        /\ UNCHANGED <<ring, own, codecMu, calls, decoded, foreign>>
        /\ c = "freed" => W.pc = "release"
        /\ c = "drainFreed" => W.pc = "drainFree"
        /\ Moved("worker", c, freeRing.w, W.nal)
    BY <1>1, <1>6, <2>1, <2>2 DEF FreePush, Full, GotoWith, Moved
  <2>4. /\ th' \in [Thread -> [pc : Pc, idx : Nat, nal : Nal \cup {NoNal}]]
        /\ th'["worker"].pc = c /\ th'["worker"].idx = freeRing.w /\ th'["worker"].nal = W.nal
        /\ \A u \in Thread : u # "worker" => th'[u] = th[u]
    <3>1. c \in Pc
      BY Zenon, <1>4
    <3> QED BY Zenon, <1>1, <1>2, <2>3, <3>1, ThreadMoves
  <2>5. /\ freeRing'.r = freeRing.r /\ freeRing'.w = freeRing.w /\ Cell(freeRing', 2 * Cap, freeRing.w) = W.nal
        /\ \A i \in Idx(freeRing) : Cell(freeRing', 2 * Cap, i) = Cell(freeRing, 2 * Cap, i)
        /\ InFree' = InFree /\ RingOK(freeRing', 2 * Cap)
    BY <2>1, <2>2, <2>R, RingPut DEF NqShape, InFree
  <2>6. data' \in [Nal -> 0 .. MaxFeed] /\ data'[W.nal] \in {0, data[W.nal]} /\ \A n \in Nal : n # W.nal => data'[n] = data[n]
    <3>1. data \in [Nal -> 0 .. MaxFeed] /\ 0 \in 0 .. MaxFeed
      BY <1>1, QueueAssumption DEF NqTypeOK
    <3> QED BY <2>1, <2>D, <3>1
  <2>7. NqShape'
    <3>1. NqTypeOK'
      BY Zenon, <1>1, <2>3, <2>4, <2>5, <2>6 DEF NqTypeOK, Pc, RingOK
    <3>2. P.pc = "feedPop" => Cell(freeRing', 2 * Cap, freeRing.r) = Cell(freeRing, 2 * Cap, freeRing.r)
      BY <1>1, <1>3, <2>5 DEF NqShape, Idx
    <3>3. /\ th'["tx"] = th["tx"] /\ th'["packet"] = P
          /\ th'["worker"].pc \in {"freed", "drainFreed"}
      BY Zenon, <1>1, <2>4
    <3> QED BY <2>2, <2>3, <2>4, <2>5, <3>1, <3>2, <3>3 DEF NqShape
  <2>8. WHas' = {W.nal} /\ PHas' = PHas /\ OHas' = OHas /\ InRing' = InRing /\ own' = own
    BY Zenon, <1>1, <2>3, <2>4 DEF PHas, WHas, OHas, PHolds, WHolds, InRing
  <2>9. NqOnce'
    BY Zenon, <2>1, <2>5, <2>8 DEF NqOnce
  <2>10. NqOrder'
    <3>1. \A i \in Idx(ring) : Cell(ring, Cap, i) \in Nal /\ Cell(ring, Cap, i) # W.nal
      BY <2>1 DEF NqShape, RingOK, NqOnce, InRing, Elems
    <3>2. P.pc = "feedPush" => P.nal \in Nal /\ P.nal # W.nal
      BY Zenon, <2>1 DEF NqOnce, PHas, PHolds
    <3>3. th'["packet"] = P /\ th'["worker"].pc # "decode"
      BY Zenon, <1>1, <2>4
    <3>4. \A n \in Nal : data'[n] <= calls
      BY <1>1, <1>5, <2>1, <2>6 DEF NqOrder
    <3> QED BY <2>3, <2>6, <3>1, <3>2, <3>3, <3>4 DEF NqOrder
  <2> QED BY Zenon, <2>7, <2>9, <2>10
<1>7. CASE FreePushEnd("worker")
  <2>1. PICK c \in {"idle", "drain"} :
        /\ UNCHANGED <<ring, data, own, codecMu, calls, decoded, foreign>>
        /\ W.pc = (IF c = "idle" THEN "freed" ELSE "drainFreed")
        /\ freeRing' = [freeRing EXCEPT !.w = freeRing.w + 1]
        /\ freeRing.w - freeRing.r < 2 * Cap /\ W.nal = Cell(freeRing, 2 * Cap, freeRing.w)
        /\ Moved("worker", c, 0, NoNal)
    BY Zenon, <1>7 DEF FreePushEnd, PushEnd, Goto, AfterFree, NqShape, Moved
  <2>2. WHas = {W.nal} /\ W.nal \in Nal /\ W.nal \notin InFree
    BY Zenon, <2>1 DEF WHas, WHolds, NqOnce
  <2>3. /\ th' \in [Thread -> [pc : Pc, idx : Nat, nal : Nal \cup {NoNal}]]
        /\ th'["worker"].pc = c /\ \A u \in Thread : u # "worker" => th'[u] = th[u]
    <3>1. c \in Pc
      BY Zenon, <1>4
    <3> QED BY Zenon, <1>1, <1>2, <2>1, <3>1, ThreadMoves
  <2>4. /\ freeRing'.r = freeRing.r /\ freeRing'.w = freeRing.w + 1
        /\ \A i \in Nat : Cell(freeRing', 2 * Cap, i) = Cell(freeRing, 2 * Cap, i)
        /\ InFree' = InFree \cup {W.nal} /\ RingOK(freeRing', 2 * Cap)
    BY <2>1, <2>2, RingPush DEF NqShape, InFree
  <2>5. NqShape'
    <3>1. NqTypeOK'
      BY Zenon, <1>1, <2>1, <2>3, <2>4 DEF NqTypeOK, Pc, RingOK
    <3>2. Cell(freeRing', 2 * Cap, freeRing.r) = Cell(freeRing, 2 * Cap, freeRing.r) /\ freeRing'.r # freeRing'.w
      BY <1>1, <1>3, <2>4
    <3> QED BY Zenon, <1>1, <2>1, <2>3, <2>4, <3>1, <3>2 DEF NqShape
  <2>6. WHas' = {} /\ PHas' = PHas /\ OHas' = OHas /\ InRing' = InRing /\ own' = own
    BY Zenon, <1>1, <2>1, <2>3 DEF PHas, WHas, OHas, PHolds, WHolds, InRing
  <2>7. NqOnce'
    BY Zenon, <2>2, <2>4, <2>6 DEF NqOnce
  <2>8. NqOrder'
    BY Zenon, <1>1, <2>1, <2>3 DEF NqOrder
  <2> QED BY Zenon, <2>5, <2>7, <2>8
<1> QED BY Zenon, <1>6, <1>7 DEF Free

\* The steps of feed_nalu.
LEMMA FeederKeeps == RingsFit /\ NqInv /\ Feeder => NqInv'
<1> SUFFICES ASSUME RingsFit, NqInv, Feeder PROVE NqInv'
  OBVIOUS
<1>0. Cap \in Nat \ {0} /\ 2 * Cap \in Nat \ {0}
  BY Zenon DEF RingsFit
<1> USE <1>0, QueueAssumption DEF NqInv
<1> DEFINE P == th["packet"]
           W == th["worker"]
<1>T. /\ P \in [pc : Pc, idx : Nat, nal : Nal \cup {NoNal}] /\ NqTypeOK
      /\ ring.r \in Nat /\ ring.w \in Nat /\ freeRing.r \in Nat /\ freeRing.w \in Nat
      /\ calls \in Nat /\ "packet" \in Thread /\ "worker" \in Thread /\ "tx" \in Thread
  BY Zenon, Typed DEF NqInv
<1>C. P.nal \in Nal \cup {NoNal} /\ 0 \in Nat
  BY Zenon, <1>T
<1>A. ring.r <= ring.w /\ freeRing.r <= freeRing.w
  BY Zenon DEF NqShape, RingOK
<1>B. "feedPop" \in Pc /\ "fill" \in Pc /\ "feedPush" \in Pc /\ "idle" \in Pc
  BY Zenon DEF Pc
<1>1. CASE FeedDrop
  <2>1. UNCHANGED <<ring, freeRing, data, th, own, codecMu, decoded, foreign>> /\ calls' = calls + 1 /\ calls < MaxFeed /\ P.pc = "idle"
    BY Zenon, <1>1 DEF FeedDrop
  <2>2. NqShape'
    BY <2>1 DEF NqShape, NqTypeOK, Cell
  <2>3. NqOnce'
    BY Zenon, <2>1 DEF NqOnce, InRing, InFree, PHas, WHas, OHas, PHolds, WHolds
  <2>4. NqOrder'
    BY <1>T, <2>1 DEF NqOrder, NqTypeOK, NqShape
  <2> QED BY Zenon, <2>2, <2>3, <2>4
<1>2. CASE FeedPop
  <2>1. /\ UNCHANGED <<ring, freeRing, data, own, codecMu, calls, decoded, foreign>>
        /\ P.pc = "idle" /\ calls < MaxFeed /\ freeRing.r # freeRing.w
        /\ Moved("packet", "feedPop", freeRing.r, Cell(freeRing, 2 * Cap, freeRing.r))
    BY Zenon, <1>2 DEF FeedPop, PopBegin, GotoWith, Peek, Cell, Empty, Moved
  <2>2. Cell(freeRing, 2 * Cap, freeRing.r) \in Nal \cup {NoNal}
    <3>1. freeRing.r \in Idx(freeRing)
      BY Zenon, <2>1, RingPop DEF NqShape
    <3> QED BY Zenon, <3>1 DEF NqShape, RingOK
  <2>3. /\ th' \in [Thread -> [pc : Pc, idx : Nat, nal : Nal \cup {NoNal}]]
        /\ th'["packet"].pc = "feedPop" /\ th'["packet"].idx = freeRing.r
        /\ th'["packet"].nal = Cell(freeRing, 2 * Cap, freeRing.r)
        /\ \A u \in Thread : u # "packet" => th'[u] = th[u]
    BY <1>T, <1>B, <1>C, <2>1, <2>2, ThreadMoves
  <2>M. th'["tx"] = th["tx"] /\ th'["worker"] = W
    BY Zenon, <1>T, <2>3
  <2>4. NqShape'
    <3>1. NqTypeOK'
      BY Zenon, <1>T, <2>1, <2>3 DEF NqTypeOK, Pc
    <3> QED BY Zenon, <2>1, <2>3, <2>M, <3>1 DEF NqShape
  <2>5. NqOnce'
    <3>1. PHas' = PHas /\ WHas' = WHas /\ OHas' = OHas /\ InRing' = InRing /\ InFree' = InFree /\ own' = own
      BY Zenon, <2>1, <2>3, <2>M DEF InRing, InFree, PHas, WHas, OHas, PHolds, WHolds
    <3> QED BY Zenon, <3>1 DEF NqOnce
  <2>6. NqOrder'
    BY Zenon, <2>1, <2>3, <2>M DEF NqOrder
  <2> QED BY Zenon, <2>4, <2>5, <2>6
<1>3. CASE FeedPopEnd
  <2>1. /\ UNCHANGED <<ring, data, own, codecMu, calls, decoded, foreign>>
        /\ P.pc = "feedPop" /\ freeRing' = [freeRing EXCEPT !.r = freeRing.r + 1]
        /\ freeRing.r # freeRing.w /\ P.nal = Cell(freeRing, 2 * Cap, freeRing.r)
        /\ Moved("packet", "fill", 0, P.nal)
    BY Zenon, <1>3 DEF FeedPopEnd, PopEnd, Goto, NqShape, Moved
  <2>2. /\ th' \in [Thread -> [pc : Pc, idx : Nat, nal : Nal \cup {NoNal}]]
        /\ th'["packet"].pc = "fill" /\ th'["packet"].idx = 0 /\ th'["packet"].nal = P.nal
        /\ \A u \in Thread : u # "packet" => th'[u] = th[u]
    BY Zenon, <1>T, <1>B, <1>C, <2>1, ThreadMoves
  <2>3. /\ freeRing'.r = freeRing.r + 1 /\ freeRing'.w = freeRing.w
        /\ \A i \in Nat : Cell(freeRing', 2 * Cap, i) = Cell(freeRing, 2 * Cap, i)
        /\ P.nal \in InFree /\ InFree' = InFree \ {P.nal}
        /\ RingOK(freeRing', 2 * Cap)
    BY <2>1, RingPop DEF NqShape, InFree
  <2>4. NqShape'
    <3>1. NqTypeOK'
      BY Zenon, <1>T, <2>1, <2>2, <2>3 DEF NqTypeOK, Pc, RingOK
    <3>2. th'["tx"] = th["tx"] /\ th'["worker"] = W
      BY Zenon, <1>T, <2>2
    <3>3. W.pc \in {"freed", "drainFreed"} =>
            /\ freeRing'.w - freeRing'.r < 2 * Cap /\ W.idx = freeRing'.w
            /\ W.nal = Cell(freeRing', 2 * Cap, freeRing'.w)
      BY <1>T, <2>3 DEF NqShape
    <3>4. calls' < MaxFeed /\ ring' = ring
      BY Zenon, <2>1 DEF NqShape
    <3> QED BY Zenon, <2>2, <2>3, <3>1, <3>2, <3>3, <3>4 DEF NqShape
  <2>5. NqOnce'
    <3>1. PHas = {} /\ PHas' = {P.nal} /\ WHas' = WHas /\ OHas' = OHas /\ InRing' = InRing /\ own' = own
      BY Zenon, <1>T, <2>1, <2>2 DEF PHas, WHas, OHas, PHolds, WHolds, InRing
    <3> QED BY <2>3, <3>1 DEF NqOnce
  <2>6. NqOrder'
    BY Zenon, <1>T, <2>1, <2>2 DEF NqOrder
  <2> QED BY Zenon, <2>4, <2>5, <2>6
<1>4. CASE FeedFill
  <2>1. P.pc = "fill" /\ calls < MaxFeed /\ P.nal \in Nal /\ P.nal \notin InRing /\ PHas = {P.nal}
    BY Zenon, <1>4 DEF FeedFill, NqShape, NqOnce, PHas, PHolds
  <2>2. ring.w - ring.r < Cap
    BY Zenon, <2>1 DEF RingsFit
  <2>3. /\ UNCHANGED <<freeRing, own, codecMu, decoded, foreign>>
        /\ data' = [data EXCEPT ![P.nal] = calls + 1] /\ calls' = calls + 1
        /\ ring' = Put(ring, Cap, P.nal)
        /\ Moved("packet", "feedPush", ring.w, P.nal)
    BY <1>T, <1>4, <2>2 DEF FeedFill, Full, GotoWith, Moved
  <2>4. /\ th' \in [Thread -> [pc : Pc, idx : Nat, nal : Nal \cup {NoNal}]]
        /\ th'["packet"].pc = "feedPush" /\ th'["packet"].idx = ring.w /\ th'["packet"].nal = P.nal
        /\ \A u \in Thread : u # "packet" => th'[u] = th[u]
    BY <1>T, <1>B, <1>C, <2>3, ThreadMoves
  <2>5. /\ ring'.r = ring.r /\ ring'.w = ring.w /\ Cell(ring', Cap, ring.w) = P.nal
        /\ \A i \in Idx(ring) : Cell(ring', Cap, i) = Cell(ring, Cap, i)
        /\ InRing' = InRing /\ RingOK(ring', Cap)
    BY <2>1, <2>2, <2>3, RingPut DEF NqShape, InRing
  <2>6. data' \in [Nal -> 0 .. MaxFeed] /\ data'[P.nal] = calls + 1 /\ \A n \in Nal : n # P.nal => data'[n] = data[n]
    BY <1>T, <2>1, <2>3 DEF NqTypeOK
  <2>7. NqShape'
    <3>1. NqTypeOK'
      BY <1>T, <2>1, <2>3, <2>4, <2>5, <2>6 DEF NqTypeOK, Pc, RingOK
    <3>2. W.pc \in {"workPop", "drainPop"} => Cell(ring', Cap, ring.r) = Cell(ring, Cap, ring.r)
      BY <1>T, <1>A, <2>5 DEF NqShape, Idx
    <3>3. th'["tx"] = th["tx"] /\ th'["worker"] = W
      BY Zenon, <1>T, <2>4
    <3> QED BY <2>2, <2>3, <2>4, <2>5, <3>1, <3>2, <3>3 DEF NqShape
  <2>8. PHas' = {P.nal} /\ WHas' = WHas /\ OHas' = OHas /\ InFree' = InFree /\ own' = own
    BY Zenon, <1>T, <2>1, <2>3, <2>4 DEF PHas, WHas, OHas, PHolds, WHolds, InFree
  <2>9. NqOnce'
    BY Zenon, <2>1, <2>5, <2>8 DEF NqOnce
  <2>10. NqOrder'
    <3>1. Idx(ring') = Idx(ring)
      BY Zenon, <2>5 DEF Idx
    <3>2. \A i \in Idx(ring) : Cell(ring, Cap, i) \in Nal /\ Cell(ring, Cap, i) # P.nal
      BY <2>1 DEF NqShape, RingOK, InRing, Elems
    <3>3. \A i \in Idx(ring) : data'[Cell(ring', Cap, i)] = data[Cell(ring, Cap, i)]
      BY Zenon, <2>5, <2>6, <3>2
    <3>4. W.pc = "decode" => W.nal \in Nal /\ W.nal # P.nal
      BY Zenon, <2>1 DEF NqOnce, WHas, WHolds
    <3>5. \A n \in Nal : data[n] \in Nat /\ data[n] <= calls
      BY <1>T DEF NqTypeOK, NqOrder
    <3>6. decoded \in Nat /\ decoded' = decoded
      BY <1>T, <2>3 DEF NqTypeOK
    <3> QED BY <1>T, <2>1, <2>3, <2>4, <2>6, <3>1, <3>2, <3>3, <3>4, <3>5, <3>6 DEF NqOrder
  <2> QED BY Zenon, <2>7, <2>9, <2>10
<1>5. CASE FeedPushEnd
  <2>1. /\ UNCHANGED <<freeRing, data, own, codecMu, calls, decoded, foreign>>
        /\ P.pc = "feedPush" /\ ring' = [ring EXCEPT !.w = ring.w + 1]
        /\ ring.w - ring.r < Cap /\ P.nal = Cell(ring, Cap, ring.w)
        /\ Moved("packet", "idle", 0, NoNal)
    BY Zenon, <1>5 DEF FeedPushEnd, PushEnd, Goto, NqShape, Moved
  <2>2. PHas = {P.nal} /\ P.nal \in Nal /\ P.nal \notin InRing
    BY Zenon, <2>1 DEF PHas, PHolds, NqOnce
  <2>3. /\ th' \in [Thread -> [pc : Pc, idx : Nat, nal : Nal \cup {NoNal}]]
        /\ th'["packet"].pc = "idle" /\ \A u \in Thread : u # "packet" => th'[u] = th[u]
    BY Zenon, <1>T, <1>B, <1>C, <2>1, ThreadMoves
  <2>4. /\ ring'.r = ring.r /\ ring'.w = ring.w + 1
        /\ \A i \in Nat : Cell(ring', Cap, i) = Cell(ring, Cap, i)
        /\ InRing' = InRing \cup {P.nal} /\ RingOK(ring', Cap)
    BY <2>1, <2>2, RingPush DEF NqShape, InRing
  <2>5. NqShape'
    <3>1. NqTypeOK'
      BY Zenon, <1>T, <2>1, <2>3, <2>4 DEF NqTypeOK, Pc, RingOK
    <3>2. Cell(ring', Cap, ring.r) = Cell(ring, Cap, ring.r) /\ ring'.r # ring'.w
      BY <1>T, <1>A, <2>4
    <3> QED BY <1>T, <2>1, <2>3, <2>4, <3>1, <3>2 DEF NqShape
  <2>6. PHas' = {} /\ WHas' = WHas /\ OHas' = OHas /\ InFree' = InFree /\ own' = own
    BY Zenon, <1>T, <2>1, <2>3 DEF PHas, WHas, OHas, PHolds, WHolds, InFree
  <2>7. NqOnce'
    BY Zenon, <2>2, <2>4, <2>6 DEF NqOnce
  <2>8. NqOrder'
    <3>1. \A i : i \in Idx(ring') <=> i \in Idx(ring) \/ i = ring.w
      BY <1>T, <1>A, <2>4 DEF Idx
    <3>2. \A i \in Idx(ring) : i \in Nat /\ i < ring.w
      BY <1>T DEF Idx
    <3>3. \A i \in Idx(ring') : Cell(ring', Cap, i) = IF i = ring.w THEN P.nal ELSE Cell(ring, Cap, i)
      BY Zenon, <1>T, <2>1, <2>4, <3>1, <3>2
    <3>4. data' = data /\ decoded' = decoded /\ calls' = calls /\ th'["worker"] = W
      BY Zenon, <1>T, <2>1, <2>3
    <3> QED BY <1>T, <2>1, <2>3, <3>1, <3>2, <3>3, <3>4 DEF NqOrder
  <2> QED BY Zenon, <2>5, <2>7, <2>8
<1> QED BY Zenon, <1>1, <1>2, <1>3, <1>4, <1>5 DEF Feeder

\* The steps of worker_loop and decode_one, with their drain_queue and release_nalu.
LEMMA WorkerKeeps == RingsFit /\ NqInv /\ (NqWorker \/ Drain("worker") \/ Free("worker")) => NqInv'
<1> SUFFICES ASSUME RingsFit, NqInv, NqWorker \/ Drain("worker") \/ Free("worker") PROVE NqInv'
  OBVIOUS
<1>0. Cap \in Nat \ {0} /\ 2 * Cap \in Nat \ {0}
  BY Zenon DEF RingsFit
<1> USE <1>0, QueueAssumption DEF NqInv
<1> DEFINE P == th["packet"]
           W == th["worker"]
<1>1. /\ W \in [pc : Pc, idx : Nat, nal : Nal \cup {NoNal}] /\ NqTypeOK
      /\ ring.r \in Nat /\ ring.w \in Nat /\ freeRing.r \in Nat /\ freeRing.w \in Nat
      /\ calls \in Nat /\ "packet" \in Thread /\ "worker" \in Thread /\ "tx" \in Thread
  BY Zenon, Typed DEF NqInv
<1>2. W.nal \in Nal \cup {NoNal} /\ 0 \in Nat /\ NoNal \in Nal \cup {NoNal} /\ own \in Nal \cup {NoNal}
  BY Zenon, <1>1 DEF NqTypeOK
<1>3. ring.r <= ring.w /\ freeRing.r <= freeRing.w /\ ring.w - ring.r <= Cap
  BY Zenon DEF NqShape, RingOK
<1>4. \A c \in {"idle", "workPop", "decode", "release", "drain", "drainPop", "drainFree", "freed", "drainFreed"} : c \in Pc
  BY Zenon DEF Pc
<1>5. \A n \in Nal : data[n] \in Nat /\ decoded \in Nat
  BY <1>1 DEF NqTypeOK
<1>6. CASE NqWorkerPop \/ DrainPop("worker")
  <2>1. PICK c \in {"workPop", "drainPop"} :
        /\ UNCHANGED <<ring, freeRing, data, own, codecMu, calls, decoded, foreign>>
        /\ W.pc = (IF c = "workPop" THEN "idle" ELSE "drain") /\ ring.r # ring.w
        /\ Moved("worker", c, ring.r, Cell(ring, Cap, ring.r))
    BY Zenon, <1>6 DEF NqWorkerPop, DrainPop, PopBegin, GotoWith, Peek, Cell, Empty, Moved
  <2>2. Cell(ring, Cap, ring.r) \in Nal \cup {NoNal}
    <3>1. ring.r \in Idx(ring)
      BY Zenon, <2>1, RingPop DEF NqShape
    <3> QED BY Zenon, <3>1 DEF NqShape, RingOK
  <2>3. /\ th' \in [Thread -> [pc : Pc, idx : Nat, nal : Nal \cup {NoNal}]]
        /\ th'["worker"].pc = c /\ th'["worker"].idx = ring.r
        /\ th'["worker"].nal = Cell(ring, Cap, ring.r)
        /\ \A u \in Thread : u # "worker" => th'[u] = th[u]
    BY <1>1, <1>4, <2>1, <2>2, ThreadMoves
  <2>4. NqShape'
    BY Zenon, <1>1, <2>1, <2>3 DEF NqShape, NqTypeOK, Pc
  <2>5. NqOnce'
    <3>1. WHas' = WHas /\ PHas' = PHas /\ OHas' = OHas /\ InRing' = InRing /\ InFree' = InFree /\ own' = own
      BY Zenon, <1>1, <2>1, <2>3 DEF InRing, InFree, PHas, WHas, OHas, PHolds, WHolds
    <3> QED BY Zenon, <3>1 DEF NqOnce
  <2>6. NqOrder'
    BY Zenon, <1>1, <2>1, <2>3 DEF NqOrder
  <2> QED BY Zenon, <2>4, <2>5, <2>6
<1>7. CASE WorkerPopEnd \/ DrainPopEnd("worker")
  <2>1. PICK c \in {"decode", "drainFree"} :
        /\ UNCHANGED <<freeRing, own, codecMu, calls, decoded, foreign>>
        /\ W.pc = (IF c = "decode" THEN "workPop" ELSE "drainPop")
        /\ ring' = [ring EXCEPT !.r = ring.r + 1]
        /\ ring.r # ring.w /\ W.nal = Cell(ring, Cap, ring.r)
        /\ data' = IF c = "decode" THEN data ELSE [data EXCEPT ![W.nal] = 0]
        /\ Moved("worker", c, 0, W.nal)
    BY Zenon, <1>7 DEF WorkerPopEnd, DrainPopEnd, PopEnd, Goto, NqShape, Moved
  <2>2. /\ th' \in [Thread -> [pc : Pc, idx : Nat, nal : Nal \cup {NoNal}]]
        /\ th'["worker"].pc = c /\ th'["worker"].idx = 0 /\ th'["worker"].nal = W.nal
        /\ \A u \in Thread : u # "worker" => th'[u] = th[u]
    <3>1. c \in Pc
      BY Zenon, <1>4
    <3> QED BY Zenon, <1>1, <1>2, <2>1, <3>1, ThreadMoves
  <2>3. /\ ring'.r = ring.r + 1 /\ ring'.w = ring.w
        /\ \A i \in Nat : Cell(ring', Cap, i) = Cell(ring, Cap, i)
        /\ W.nal \in InRing /\ InRing' = InRing \ {W.nal} /\ ring.r \in Idx(ring)
        /\ RingOK(ring', Cap)
    BY <2>1, RingPop DEF NqShape, InRing
  <2>4. data' \in [Nal -> 0 .. MaxFeed] /\ W.nal \in Nal /\ \A n \in Nal : n # W.nal => data'[n] = data[n]
    BY <1>1, <2>1, <2>3 DEF NqTypeOK, NqShape, RingOK
  <2>5. NqShape'
    <3>1. NqTypeOK'
      BY Zenon, <1>1, <2>1, <2>2, <2>3, <2>4 DEF NqTypeOK, Pc, RingOK
    <3>2. P.pc = "feedPush" => ring'.w - ring'.r < Cap /\ Cell(ring', Cap, ring.w) = Cell(ring, Cap, ring.w)
      BY <1>1, <1>3, <2>3
    <3> QED BY <1>1, <2>1, <2>2, <2>3, <3>1, <3>2 DEF NqShape
  <2>6. WHas = {} /\ WHas' = {W.nal} /\ PHas' = PHas /\ OHas' = OHas /\ InFree' = InFree /\ own' = own
    BY Zenon, <1>1, <2>1, <2>2 DEF PHas, WHas, OHas, PHolds, WHolds, InFree
  <2>7. NqOnce'
    BY <2>3, <2>6 DEF NqOnce
  <2>8. NqOrder'
    <3>1. \A i : i \in Idx(ring') <=> i \in Idx(ring) /\ i # ring.r
      BY <1>1, <1>3, <2>3 DEF Idx
    <3>2. \A i \in Idx(ring) : i \in Nat /\ (i # ring.r => ring.r < i)
      BY <1>1 DEF Idx
    <3>3. \A i \in Idx(ring') : /\ Cell(ring', Cap, i) = Cell(ring, Cap, i)
                              /\ Cell(ring, Cap, i) \in Nal
                              /\ Cell(ring, Cap, i) # W.nal
      BY Zenon, <2>1, <2>3, <3>1, <3>2 DEF NqShape, RingOK
    <3>4. P.pc = "feedPush" => P.nal \in Nal /\ P.nal # W.nal
      BY Zenon, <2>3 DEF NqOnce, PHas, PHolds
    <3>5. data'[W.nal] = IF c = "decode" THEN data[W.nal] ELSE 0
      BY Zenon, <1>1, <2>1, <2>4 DEF NqTypeOK
    <3>6. th'["packet"] = P /\ decoded' = decoded /\ calls' = calls
      BY Zenon, <1>1, <2>1, <2>2
    <3>7. \A n \in Nal : data'[n] <= calls
      BY <1>1, <1>5, <2>4, <3>5 DEF NqOrder
    <3>8. \A i \in Idx(ring') : data'[Cell(ring', Cap, i)] = data[Cell(ring, Cap, i)]
      BY Zenon, <2>4, <3>3
    <3> QED BY <1>5, <2>1, <2>2, <2>3, <2>4, <3>1, <3>2, <3>4, <3>5, <3>6, <3>7, <3>8 DEF NqOrder
  <2> QED BY Zenon, <2>5, <2>7, <2>8
<1>8. CASE Decode
  <2>1. W.pc = "decode" /\ WHas = {W.nal} /\ W.nal \in Nal /\ data[W.nal] # 0
    BY <1>5, <1>8 DEF Decode, NqOnce, NqOrder, WHas, WHolds
  <2>2. /\ UNCHANGED <<ring, freeRing, data, own, codecMu, calls, foreign>> /\ decoded' = data[W.nal]
        /\ Moved("worker", "release", 0, W.nal)
    BY Zenon, <1>8, <2>1 DEF Decode, SendPacket, Goto, Moved
  <2>3. /\ th' \in [Thread -> [pc : Pc, idx : Nat, nal : Nal \cup {NoNal}]]
        /\ th'["worker"].pc = "release" /\ th'["worker"].nal = W.nal
        /\ \A u \in Thread : u # "worker" => th'[u] = th[u]
    <3>1. "release" \in Pc
      BY Zenon, <1>4
    <3> QED BY Zenon, <1>1, <1>2, <2>2, <3>1, ThreadMoves
  <2>4. NqShape'
    <3>1. decoded' \in 0 .. MaxFeed
      BY Zenon, <1>1, <2>1, <2>2 DEF NqTypeOK
    <3>2. NqTypeOK'
      BY Zenon, <1>1, <2>2, <2>3, <3>1 DEF NqTypeOK, Pc
    <3>3. th'["tx"] = th["tx"] /\ th'["packet"] = P
      BY Zenon, <1>1, <2>3
    <3> QED BY Zenon, <2>2, <2>3, <3>2, <3>3 DEF NqShape
  <2>5. NqOnce'
    <3>1. WHas' = WHas /\ PHas' = PHas /\ OHas' = OHas /\ InRing' = InRing /\ InFree' = InFree /\ own' = own
      BY Zenon, <1>1, <2>1, <2>2, <2>3 DEF InRing, InFree, PHas, WHas, OHas, PHolds, WHolds
    <3> QED BY Zenon, <3>1 DEF NqOnce
  <2>6. NqOrder'
    <3>1. th'["packet"] = P /\ th'["worker"].pc # "decode"
      BY Zenon, <1>1, <2>3
    <3>2. decoded' <= calls
      BY Zenon, <2>1, <2>2 DEF NqOrder
    <3> QED BY Zenon, <2>1, <2>2, <3>1, <3>2 DEF NqOrder
  <2> QED BY Zenon, <2>4, <2>5, <2>6
<1>9. CASE DecodeAndRecover
  <2>1. W.pc = "decode" /\ WHas = {W.nal} /\ W.nal \in Nal /\ data[W.nal] # 0
    BY Zenon, <1>5, <1>9 DEF DecodeAndRecover, NqOnce, NqOrder, WHas, WHolds
  <2>2. /\ UNCHANGED <<ring, freeRing, data, calls, foreign>> /\ decoded' = data[W.nal]
        /\ own' = W.nal /\ codecMu' = "worker"
        /\ Moved("worker", "drain", 0, NoNal)
    BY Zenon, <1>9, <2>1 DEF DecodeAndRecover, SendPacket, Goto, Moved
  <2>3. /\ th' \in [Thread -> [pc : Pc, idx : Nat, nal : Nal \cup {NoNal}]]
        /\ th'["worker"].pc = "drain"
        /\ \A u \in Thread : u # "worker" => th'[u] = th[u]
    BY Zenon, <1>1, <1>2, <1>4, <2>2, ThreadMoves
  <2>4. NqShape'
    BY SMTT(30), <1>1, <2>1, <2>2, <2>3 DEF NqShape, NqTypeOK, Pc
  <2>5. OHas = {} /\ WHas' = {} /\ OHas' = {W.nal} /\ PHas' = PHas /\ InFree' = InFree /\ InRing' = InRing
    BY Zenon, <1>1, <2>1, <2>2, <2>3 DEF InRing, InFree, PHas, WHas, OHas, PHolds, WHolds
  <2>6. NqOnce'
    BY Zenon, <2>1, <2>5 DEF NqOnce
  <2>7. NqOrder'
    BY SMTT(30), <1>1, <1>5, <2>1, <2>2, <2>3 DEF NqOrder
  <2> QED BY Zenon, <2>4, <2>6, <2>7
<1>10. CASE DrainEnd("worker")
  <2>1. W.pc = "drain" /\ OHas = {own} /\ WHas = {}
    BY Zenon, <1>10 DEF DrainEnd, OHas, WHas, WHolds
  <2>2. /\ UNCHANGED <<ring, freeRing, data, calls, decoded, foreign>>
        /\ own' = NoNal /\ codecMu' = "none"
        /\ Moved("worker", "release", 0, own)
    BY Zenon, <1>10 DEF DrainEnd, GotoWith, Moved
  <2>3. /\ th' \in [Thread -> [pc : Pc, idx : Nat, nal : Nal \cup {NoNal}]]
        /\ th'["worker"].pc = "release" /\ th'["worker"].nal = own
        /\ \A u \in Thread : u # "worker" => th'[u] = th[u]
    BY SMTT(30), <1>1, <1>2, <1>4, <2>2, ThreadMoves
  <2>4. NqShape'
    BY SMTT(30), <1>1, <2>1, <2>2, <2>3 DEF NqShape, NqTypeOK, Pc
  <2>5. OHas' = {} /\ WHas' = {own} /\ PHas' = PHas /\ InFree' = InFree /\ InRing' = InRing
    BY Zenon, <1>1, <2>1, <2>2, <2>3 DEF InRing, InFree, PHas, WHas, OHas, PHolds, WHolds
  <2>6. NqOnce'
    BY Zenon, <2>1, <2>2, <2>5 DEF NqOnce
  <2>7. NqOrder'
    BY Zenon, <1>1, <2>1, <2>2, <2>3 DEF NqOrder
  <2> QED BY Zenon, <2>4, <2>6, <2>7
<1> QED BY Zenon, <1>6, <1>7, <1>8, <1>9, <1>10, FreeKeeps DEF NqWorker, Drain

-----------------------------------------------------------------------------
(* The steps put together.                                                 *)

\* The sizes of the two rings.
LEMMA CapPositive == Cap \in Nat \ {0} /\ 2 * Cap \in Nat \ {0}
<1>1. Cap \in Nat /\ Cap # 0
  BY Zenon, QueueAssumption, FS_CardinalityType, FS_EmptySet DEF Cap
<1> QED BY <1>1

\* A ring holds at most the QueuedNals there are, and fewer if one is elsewhere.
LEMMA RingCount ==
  ASSUME NEW sz \in Nat \ {0}, NEW q, RingOK(q, sz)
  PROVE  /\ q.w - q.r <= Cap
         /\ Elems(q, sz) # Nal => q.w - q.r < Cap
<1> DEFINE f == [i \in Idx(q) |-> Cell(q, sz, i)]
<1>1. q.w \in Nat /\ q.r \in Nat /\ q.r <= q.w
  BY Zenon DEF RingOK, RingOf
<1>2. IsFiniteSet(Idx(q)) /\ Cardinality(Idx(q)) = q.w - q.r
  <2>1. q.r \in Int /\ q.w - 1 \in Int
    BY <1>1
  <2>2. Cardinality(Idx(q)) = IF q.r > q.w - 1 THEN 0 ELSE (q.w - 1) - q.r + 1
    BY Zenon, <2>1, FS_Interval DEF Idx
  <2>3. IsFiniteSet(Idx(q))
    BY Zenon, <2>1, FS_Interval DEF Idx
  <2> QED BY <1>1, <2>2, <2>3
<1>3. f \in Surjection(Idx(q), Elems(q, sz)) /\ f \in Injection(Idx(q), Elems(q, sz))
  BY Zenon DEF Elems, RingOK, Surjection, Injection, IsInjective
<1>4. IsFiniteSet(Elems(q, sz)) /\ Cardinality(Elems(q, sz)) = Cardinality(Idx(q))
  BY Zenon, <1>2, <1>3, FS_Surjection
<1>5. Elems(q, sz) \subseteq Nal
  BY Zenon DEF Elems, RingOK
<1>6. Cardinality(Elems(q, sz)) <= Cap /\ (Cap = Cardinality(Elems(q, sz)) => Nal = Elems(q, sz))
  BY Zenon, <1>5, QueueAssumption, FS_Subset DEF Cap
<1>7. Cap \in Nat
  BY Zenon, QueueAssumption, FS_CardinalityType DEF Cap
<1> QED BY <1>1, <1>2, <1>4, <1>6, <1>7

\* NqOnce: the packet thread's QueuedNal is not in ring_.
LEMMA RingsAreCounted == NqInv => RingsFit
  BY Zenon, CapPositive, RingCount DEF NqInv, NqShape, InRing, RingsFit

\* The constructor: the pool is in free_ring_.
LEMMA NqInitially == NqInit => NqInv
<1> SUFFICES ASSUME NqInit PROVE NqInv
  OBVIOUS
<1> USE CapPositive, QueueAssumption
<1>1. PoolOrder \in Bijection(0 .. Cap - 1, Nal)
  <2>1. PICK f \in Bijection(1 .. Cap, Nal) : TRUE
    BY Zenon, FS_CardinalityType DEF Cap, ExistsBijection
  <2> DEFINE g == [i \in 0 .. Cap - 1 |-> f[i + 1]]
  <2>2. /\ f \in [1 .. Cap -> Nal] /\ \A n \in Nal : \E i \in 1 .. Cap : f[i] = n
        /\ \A i, j \in 1 .. Cap : f[i] = f[j] => i = j
    BY Zenon, <2>1 DEF Bijection, Injection, Surjection, IsInjective
  <2>3. g \in [0 .. Cap - 1 -> Nal] /\ \A i, j \in 0 .. Cap - 1 : g[i] = g[j] => i = j
    BY <2>2
  <2>4. \A n \in Nal : \E i \in 0 .. Cap - 1 : g[i] = n
    <3> SUFFICES ASSUME NEW n \in Nal PROVE \E i \in 0 .. Cap - 1 : g[i] = n
      OBVIOUS
    <3>1. PICK i \in 1 .. Cap : f[i] = n
      BY Zenon, <2>2
    <3>2. i - 1 \in 0 .. Cap - 1 /\ g[i - 1] = n
      BY <3>1
    <3> QED BY Zenon, <3>2
  <2>5. g \in Bijection(0 .. Cap - 1, Nal)
    BY Zenon, <2>3, <2>4 DEF Bijection, Injection, Surjection, IsInjective
  <2> QED BY Zenon, <2>5 DEF PoolOrder
<1>2. /\ PoolOrder \in [0 .. Cap - 1 -> Nal] /\ \A n \in Nal : \E i \in 0 .. Cap - 1 : PoolOrder[i] = n
      /\ \A i, j \in 0 .. Cap - 1 : PoolOrder[i] = PoolOrder[j] => i = j
  BY Zenon, <1>1 DEF Bijection, Injection, Surjection, IsInjective
<1>3. ring.r = 0 /\ ring.w = 0 /\ ring \in RingOf(Cap) /\ Idx(ring) = {} /\ RingOK(ring, Cap) /\ InRing = {}
  <2>1. ring.r = 0 /\ ring.w = 0 /\ ring \in RingOf(Cap)
    BY Zenon DEF NqInit, RingOf
  <2>2. Idx(ring) = {}
    BY <2>1 DEF Idx
  <2> QED BY <2>1, <2>2 DEF RingOK, InRing, Elems
<1>4. freeRing.r = 0 /\ freeRing.w = Cap /\ freeRing \in RingOf(2 * Cap) /\ Idx(freeRing) = 0 .. Cap - 1
  BY <1>2 DEF NqInit, RingOf, Idx
<1>5. \A i \in 0 .. Cap - 1 : Cell(freeRing, 2 * Cap, i) = PoolOrder[i]
  <2> SUFFICES ASSUME NEW i \in 0 .. Cap - 1 PROVE Cell(freeRing, 2 * Cap, i) = PoolOrder[i]
    OBVIOUS
  <2>1. i % (2 * Cap) = i
    OBVIOUS
  <2> QED BY <2>1 DEF Cell, NqInit
<1>6. RingOK(freeRing, 2 * Cap) /\ InFree = Nal
  BY <1>2, <1>4, <1>5 DEF RingOK, InFree, Elems
<1>7. /\ th \in [Thread -> [pc : Pc, idx : Nat, nal : Nal \cup {NoNal}]]
      /\ th["packet"].pc = "idle" /\ th["worker"].pc = "idle" /\ th["tx"].pc = "idle"
  BY Zenon DEF NqInit, Pc, Thread
<1>8. NqShape
  <2>1. NqTypeOK
    <3>1. data \in [Nal -> 0 .. MaxFeed] /\ calls \in 0 .. MaxFeed /\ decoded \in 0 .. MaxFeed
      BY DEF NqInit
    <3>2. own \in Nal \cup {NoNal} /\ codecMu \in Thread \cup {"none"} /\ foreign \in BOOLEAN
      BY Zenon DEF NqInit
    <3> QED BY Zenon, <1>3, <1>4, <1>7, <3>1, <3>2 DEF NqTypeOK, Pc
  <2> QED BY Zenon, <1>3, <1>6, <1>7, <2>1 DEF NqShape
<1>9. NqOnce
  BY Zenon, <1>3, <1>6, <1>7 DEF NqOnce, PHas, WHas, OHas, PHolds, WHolds, NqInit
<1>10. NqOrder
  BY <1>3, <1>7 DEF NqOrder, NqInit
<1> QED BY Zenon, <1>8, <1>9, <1>10 DEF NqInv

\* A QueuedNal is in one cell of a ring or in none.
LEMMA CellsCounted ==
  ASSUME NEW sz \in Nat \ {0}, NEW q, RingOK(q, sz), NEW n
  PROVE  Cardinality(CellsOf(q, sz, n)) = IF n \in Elems(q, sz) THEN 1 ELSE 0
<1>1. CellsOf(q, sz, n) = {i \in Idx(q) : Cell(q, sz, i) = n}
  BY Zenon DEF CellsOf, Idx, Cell
<1>2. CASE n \in Elems(q, sz)
  <2>1. PICK i \in Idx(q) : Cell(q, sz, i) = n
    BY Zenon, <1>2 DEF Elems
  <2>2. CellsOf(q, sz, n) = {i}
    BY Zenon, <1>1, <2>1 DEF RingOK
  <2> QED BY Zenon, <1>2, <2>2, FS_Singleton
<1>3. CASE n \notin Elems(q, sz)
  <2>1. CellsOf(q, sz, n) = {}
    BY Zenon, <1>1, <1>3 DEF Elems
  <2> QED BY Zenon, <1>3, <2>1, FS_EmptySet
<1> QED BY Zenon, <1>2, <1>3

\* The five places of NqInv, counted as HeldOnce does.
LEMMA OnceIsHeldOnce == NqInv => HeldOnce
<1> SUFFICES ASSUME NqInv, NEW n \in Nal
             PROVE  Cardinality(CellsOf(ring, Cap, n)) + Cardinality(CellsOf(freeRing, 2 * Cap, n))
                      + Cardinality(HandsOf(n)) + (IF own = n THEN 1 ELSE 0) = 1
  BY Zenon DEF HeldOnce
<1> USE CapPositive, QueueAssumption DEF NqInv
<1>1. Cardinality(CellsOf(ring, Cap, n)) = IF n \in InRing THEN 1 ELSE 0
  BY CellsCounted DEF NqShape, InRing
<1>2. Cardinality(CellsOf(freeRing, 2 * Cap, n)) = IF n \in InFree THEN 1 ELSE 0
  BY CellsCounted DEF NqShape, InFree
<1>3. HandsOf(n) = (IF n \in PHas THEN {"packet"} ELSE {}) \cup (IF n \in WHas THEN {"worker"} ELSE {})
  BY DEF HandsOf, PHas, WHas, PHolds, WHolds, NqShape, Thread
<1>4. ~(n \in PHas /\ n \in WHas)
  BY Zenon DEF NqOnce
<1>5. Cardinality(HandsOf(n)) = IF n \in PHas \cup WHas THEN 1 ELSE 0
  <2>1. Cardinality({"packet"}) = 1 /\ Cardinality({"worker"}) = 1 /\ Cardinality({}) = 0
    BY Zenon, FS_Singleton, FS_EmptySet
  <2>2. HandsOf(n) = IF n \in PHas THEN {"packet"} ELSE IF n \in WHas THEN {"worker"} ELSE {}
    BY Zenon, <1>3, <1>4
  <2> QED BY Zenon, <2>1, <2>2
<1>6. (IF own = n THEN 1 ELSE 0) = IF n \in OHas THEN 1 ELSE 0
  BY Zenon DEF OHas, NqOnce
<1> QED BY <1>1, <1>2, <1>5, <1>6 DEF NqOnce

\* Until another thread drains ring_, the invariant is kept.
LEMMA NqInductive == (~foreign => NqInv) /\ [NqNext]_nqVars => (~foreign => NqInv)'
<1> SUFFICES ASSUME ~foreign => NqInv, [NqNext]_nqVars, ~foreign' PROVE NqInv'
  OBVIOUS
<1>1. ~foreign /\ NqInv
  BY Zenon, ForeignStays
<1>2. ASSUME NEW t \in Thread, Restart(t) \/ Drain(t) \/ Free(t) PROVE t = "worker" /\ ~Restart(t)
  BY Zenon, <1>1, <1>2, WorkerDrains DEF NqInv
<1>3. CASE UNCHANGED nqVars
  <2>1. NqShape'
    BY Zenon, <1>1, <1>3 DEF nqVars, NqInv, NqShape, NqTypeOK
  <2>2. NqOnce'
    BY Zenon, <1>1, <1>3 DEF nqVars, NqInv, NqOnce, InRing, InFree, PHas, WHas, OHas, PHolds, WHolds
  <2>3. NqOrder'
    BY Zenon, <1>1, <1>3 DEF nqVars, NqInv, NqOrder
  <2> QED BY Zenon, <2>1, <2>2, <2>3 DEF NqInv
<1> QED BY Zenon, <1>1, <1>2, <1>3, RingsAreCounted, FeederKeeps, WorkerKeeps DEF NqNext

\* For every number of QueuedNals, and every interleaving of the loads and stores of the two
\* rings: until a thread other than the worker drains ring_, every QueuedNal is in one place, and
\* libav gets the NALs in the order of the feed_nalu calls.
THEOREM QueueStaysFifo == NqSpec => QueueIsFifo
<1>1. (~foreign => NqInv) /\ (~foreign => NqInv)' /\ [NqNext]_nqVars
        => [(~foreign' => NqTypeOK') /\ HeldOnceByWorker' /\ DecodedInOrder]_nqVars
  <2> SUFFICES ASSUME ~foreign => NqInv, (~foreign => NqInv)', NqNext
               PROVE  (~foreign' => NqTypeOK') /\ HeldOnceByWorker' /\ DecodedInOrder
    OBVIOUS
  <2>1. ~foreign' => NqTypeOK'
    BY Zenon DEF NqInv, NqShape
  <2>2. HeldOnceByWorker'
    <3>1. (NqInv => HeldOnce)'
      BY OnceIsHeldOnce, PTL
    <3> QED BY Zenon, <3>1 DEF HeldOnceByWorker
  <2>3. DecodedInOrder
    <3> SUFFICES ASSUME decoded' # decoded, ~foreign PROVE decoded' > decoded
      BY Zenon DEF DecodedInOrder
    <3>1. th["worker"].pc = "decode" /\ decoded' = SendPacket(th["worker"].nal)
      BY Zenon DEF NqNext, Feeder, FeedDrop, FeedPop, FeedPopEnd, FeedFill, FeedPushEnd, NqWorker, NqWorkerPop, WorkerPopEnd,
             Decode, DecodeAndRecover, Drain, DrainPop, DrainPopEnd, DrainEnd, Free, FreePush, FreePushEnd, Restart
    <3>2. th["worker"].nal \in Nal
      BY Zenon, <3>1 DEF NqInv, NqOnce, WHas, WHolds
    <3> QED BY Zenon, <3>1, <3>2 DEF SendPacket, NqInv, NqOrder, NqShape, NqTypeOK
  <2> QED BY Zenon, <2>1, <2>2, <2>3
<1>2. NqInit => (~foreign => NqInv)
  BY Zenon, NqInitially
<1> QED BY <1>1, <1>2, NqInductive, PTL DEF NqSpec, QueueIsFifo

=============================================================================
