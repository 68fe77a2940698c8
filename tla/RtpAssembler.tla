---------------------------- MODULE RtpAssembler ----------------------------
(***************************************************************************)
(* The RTP access-unit assembler of the video path (media/rtp_assembler),  *)
(* run by the packet thread over a lossy, duplicating, reordering network. *)
(*                                                                         *)
(* The Mac sends, on every SSRC, the packets 0 .. NumPkts-1.  Packet i has *)
(* sequence number SeqOf(i), the RTP timestamp TsOf[i] of its access unit  *)
(* (named here by the index of the unit's last packet) and the marker bit  *)
(* exactly when it is that last packet.  An access unit being assembled is *)
(* a group, and every packet in a group occupies a slot of the PacketPool. *)
(*                                                                         *)
(* packet_thread runs the assembler alone, so one call of it is a chain of *)
(* steps driven by pc that nothing else can cut: each step ends with at    *)
(* most one callback (a group flushed to the decoder, or dropped).         *)
(***************************************************************************)
EXTENDS Integers, FiniteSets, FiniteSetsExt

CONSTANTS
  Ssrc,         \* RTP sources (one per tile)
  Slot,         \* PacketPool slots
  Codec,        \* "Hevc" or "Avc"
  SeqMod,       \* size of the sequence space (65536 in the code)
  SeqBase,      \* sequence number of packet 0
  NumPkts,      \* packets the source sends
  TsOf,         \* packet index -> its access unit
  NackSpan,     \* a jump of the sequence number NACKs fewer than this (32)
  RepairWait,   \* avc_repair_wait_ns
  PendingTtl,   \* pending_group_ttl_ns
  DedupTtl,     \* flushed_dedup_ttl_ns
  EvictPeriod,  \* packet_thread evicts once per 20 ms
  MaxTime,      \* bound on the clock
  MaxDup        \* bound on packets the network duplicates

Idx   == 0 .. NumPkts - 1
SeqNo == 0 .. SeqMod - 1
Half  == SeqMod \div 2

ASSUME SeqAssumption ==
  /\ SeqMod \in Nat /\ SeqMod > 1
  /\ SeqBase \in SeqNo
  /\ NumPkts \in Nat /\ 2 * NumPkts <= SeqMod
ASSUME StreamAssumption ==
  /\ TsOf \in [Idx -> Idx]
  /\ \A i \in Idx : i <= TsOf[i] /\ TsOf[TsOf[i]] = TsOf[i]
  /\ \A i, j \in Idx : i <= j => TsOf[i] <= TsOf[j]
ASSUME TimerAssumption ==
  /\ RepairWait \in Nat \ {0}
  /\ EvictPeriod \in Nat \ {0}
  /\ PendingTtl \in Nat /\ DedupTtl \in Nat /\ MaxTime \in Nat
  /\ NackSpan \in Nat /\ MaxDup \in Nat
ASSUME CodecAssumption == Codec \in {"Hevc", "Avc"}
ASSUME SsrcAssumption == IsFiniteSet(Ssrc)

-----------------------------------------------------------------------------
(* uint16_t arithmetic. *)

(* Mutant: no wrap at 65535. *)
PlusNoWrap(q, n) == q + n
Plus(q, n)  == IF q + n < SeqMod THEN q + n ELSE q + n - SeqMod
Minus(a, b) == IF a >= b THEN a - b ELSE a - b + SeqMod
SeqOf(i)    == Plus(SeqBase, i)
IdxOf(q)    == Minus(q, SeqBase)

Never == -1
Resync   == -1
Key   == Ssrc \X Idx
Entry == [seq : SeqNo, marker : BOOLEAN, slot : Slot]
Group == [pkts : SUBSET Entry, arrival : Nat, deadline : Nat, no : Nat, armNo : Nat]

VARIABLES
  free,        \* PacketPool::free_, as the number of times a slot is listed
  groups,      \* groups_, with each one's place in group_order_ (no) and
               \* in deadline_order_ (armNo, 0 when its deadline is not armed)
  flushedAt,   \* recently_flushed_
  lastMarker,  \* last_marker_seq_
  maxSeq, roc, \* seq_
  nack,        \* nack_pending_
  now, lastEvict,
  pc, doomed, unblocked,      \* where in queue_packet / evict_stale
  out,                        \* the callback of the last step
  got, dups,                  \* packets received; packets received again
  expect, doneAt              \* history: see FlushOf and DropGroup

netVars  == <<got, dups>>
seqVars  == <<maxSeq, roc, nack>>
asmVars  == <<free, groups, flushedAt, lastMarker, pc, doomed, unblocked, expect, doneAt>>
vars     == <<asmVars, seqVars, netVars, now, lastEvict, out>>

NoGroup == [pkts |-> {}, arrival |-> 0, deadline |-> 0, no |-> 0, armNo |-> 0]
NoOut   == [kind |-> "none"]

Live(G)        == {k \in Key : G[k].pkts # {}}
LiveOf(G, src) == {k \in Live(G) : k[1] = src}
Seqs(g)        == {e.seq : e \in g.pkts}
HasMarker(g)   == \E e \in g.pkts : e.marker

-----------------------------------------------------------------------------
(* sorted_packets: the plain order of the sequence numbers, unless they    *)
(* span more than half the circle; then the order that starts after the    *)
(* widest circular gap (the last such gap in plain order).                 *)

NextSeq(S, q) == CHOOSE r \in S \ {q} : \A t \in S \ {q} : Minus(r, q) <= Minus(t, q)

FrontSeq(S) ==
  IF Cardinality(S) < 2 \/ Max(S) - Min(S) <= Half
  THEN Min(S)
  ELSE LET gap(q) == Minus(NextSeq(S, q), q)
           widest == {q \in S : \A t \in S : gap(t) <= gap(q)}
       IN  NextSeq(S, Max(widest))

Offset(S, q) == Minus(q, FrontSeq(S))
IsBack(S, q) == \A t \in S : Offset(S, t) <= Offset(S, q)
(* Mutant: gaps are not looked for. *)
GapFreeAlways(S) == TRUE
GapFree(S)   == \A q \in S : IsBack(S, q) \/ Plus(q, 1) \in S

(* The last marker of the group in sorted order. *)
MarkerSeq(g) ==
  LET marked == {e \in g.pkts : e.marker}
  IN  (CHOOSE e \in marked : \A f \in marked : Offset(Seqs(g), f.seq) <= Offset(Seqs(g), e.seq)).seq

(* group_complete *)
Complete(g, last) ==
  /\ \E e \in g.pkts : e.marker /\ IsBack(Seqs(g), e.seq)
  /\ GapFree(Seqs(g))
  /\ \E e \in g.pkts : /\ e.seq = FrontSeq(Seqs(g))
                       /\ last = Never \/ e.seq = Plus(last, 1)

(* ordered_keys: groups of one SSRC by distance from the sequence number   *)
(* expected next, then by arrival, then by insertion.                      *)
Dist(g, last) == IF last = Never THEN 0 ELSE Minus(FrontSeq(Seqs(g)), Plus(last, 1))

Before(G, j, k) ==
  LET dj == Dist(G[j], lastMarker[j[1]])
      dk == Dist(G[k], lastMarker[k[1]])
  IN  \/ dj < dk
      \/ dj = dk /\ G[j].arrival < G[k].arrival
      \/ dj = dk /\ G[j].arrival = G[k].arrival /\ G[j].no < G[k].no

EarlierThan(G, k) == {j \in LiveOf(G, k[1]) : Before(G, j, k)}

(* Arm the repair deadline of the groups in S, in that order. *)
Arm(G, S) ==
  LET armed == Cardinality({k \in Key : G[k].armNo # 0})
  IN  [k \in Key |-> IF k \in S
                     THEN [G[k] EXCEPT !.deadline = now + RepairWait,
                                       !.armNo = armed + 1 + Cardinality({j \in S : Before(G, j, k)})]
                     ELSE G[k]]

(* Mutant: the flushed group stays. *)
EraseNothing(G, k) == G

(* Erase the group of key k from groups_, group_order_ and deadline_order_. *)
Erase(G, k) ==
  [j \in Key |-> IF j = k THEN NoGroup
                 ELSE [G[j] EXCEPT !.no = IF @ > G[k].no THEN @ - 1 ELSE @,
                                   !.armNo = IF G[k].armNo # 0 /\ @ > G[k].armNo THEN @ - 1 ELSE @]]

-----------------------------------------------------------------------------
(* PacketPool *)

Acquire(pool, s)  == [pool EXCEPT ![s] = @ - 1]
Release(pool, es) == [s \in Slot |-> pool[s] + Cardinality({e \in es : e.slot = s})]

-----------------------------------------------------------------------------
(* Mutant: the packet that has just arrived is asked for too. *)
SkippedAndNew(src, q) ==
  LET diff == Minus(q, maxSeq[src])
  IN  {Plus(maxSeq[src], m) : m \in 1 .. (IF diff < NackSpan THEN diff ELSE NackSpan)}

Skipped(src, q) ==
  LET diff == Minus(q, maxSeq[src])
  IN  {Plus(maxSeq[src], m) : m \in 1 .. (IF diff < NackSpan THEN diff ELSE NackSpan) - 1}

(* Mutant: the roll-over is only seen when packet 0 arrives. *)
RocStepAtZero(src, q) == IF q = 0 THEN 1 ELSE 0

RocStep(src, q) == IF q < maxSeq[src] THEN 1 ELSE 0

(* track_seq: first packet of the SSRC, repeat of the newest, late packet, *)
(* or a packet ahead of every other.                                       *)
TrackSeq(src, q) ==
  LET diff == Minus(q, maxSeq[src])
  IN  \/ /\ maxSeq[src] = Never
         /\ maxSeq' = [maxSeq EXCEPT ![src] = q]
         /\ UNCHANGED <<roc, nack>>
      \/ /\ maxSeq[src] # Never /\ diff = 0
         /\ UNCHANGED seqVars
      \/ /\ maxSeq[src] # Never /\ diff > Half
         /\ nack' = [nack EXCEPT ![src] = @ \ {q}]
         /\ UNCHANGED <<maxSeq, roc>>
      \/ /\ maxSeq[src] # Never /\ diff \in 1 .. Half
         /\ nack' = [nack EXCEPT ![src] = @ \cup Skipped(src, q)]
         /\ roc' = [roc EXCEPT ![src] = @ + RocStep(src, q)]
         /\ maxSeq' = [maxSeq EXCEPT ![src] = q]

(* flush_group: hand the group of key k, as it is in table G, to on_flush. *)
(* History: expect is the packet that follows the flushed access unit on   *)
(* this SSRC (Resync after a drop), doneAt when the group last ended.         *)
FlushGroup(G, pool, k) ==
  LET g == G[k]
  IN  /\ groups' = Erase(G, k)
      /\ free' = Release(pool, g.pkts)
      /\ flushedAt' = [flushedAt EXCEPT ![k] = now]
      /\ lastMarker' = [lastMarker EXCEPT ![k[1]] = MarkerSeq(g)]
      /\ out' = [kind |-> "flush", key |-> k, seqs |-> Seqs(g), expected |-> expect[k[1]],
                 incomplete |-> ~GapFree(Seqs(g))]
      /\ expect' = [expect EXCEPT ![k[1]] = IdxOf(MarkerSeq(g)) + 1]
      /\ doneAt' = [doneAt EXCEPT ![k] = now]

(* drop_group *)
DropGroup(k) ==
  LET g == groups[k]
  IN  /\ groups' = Erase(groups, k)
      /\ free' = Release(free, g.pkts)
      /\ flushedAt' = [flushedAt EXCEPT ![k] = now]
      /\ lastMarker' = [lastMarker EXCEPT ![k[1]] = IF HasMarker(g) THEN MarkerSeq(g) ELSE Never]
      /\ out' = [kind |-> "drop", key |-> k]
      /\ expect' = [expect EXCEPT ![k[1]] = Resync]
      /\ doneAt' = [doneAt EXCEPT ![k] = now]

NoCallback == out' = NoOut /\ UNCHANGED <<lastMarker, flushedAt, expect, doneAt>>

-----------------------------------------------------------------------------
(* queue_packet(e) for the group k; pool is the PacketPool with e's slot taken. *)

(* Mutant: a flush is forgotten at once. *)
FlushedJustNow(k) == flushedAt[k] = now

RecentlyFlushed(k) == flushedAt[k] # Never

IsDup(k, e) == \E f \in groups[k].pkts : f.seq = e.seq

WithEntry(k, e) ==
  LET g == groups[k]
  IN  [groups EXCEPT ![k] =
         IF g.pkts = {} THEN [NoGroup EXCEPT !.pkts = {e}, !.arrival = now, !.no = Cardinality(Live(groups)) + 1]
         ELSE IF IsDup(k, e) THEN g
         ELSE [g EXCEPT !.pkts = g.pkts \cup {e}]]

(* Mutant: a late packet's slot is not returned. *)
QueueStaleLeaks(k, e, pool) ==
  /\ RecentlyFlushed(k)
  /\ free' = pool
  /\ UNCHANGED <<groups, pc, unblocked>>
  /\ NoCallback

QueueStale(k, e, pool) ==
  /\ RecentlyFlushed(k)
  /\ free' = Release(pool, {e})
  /\ UNCHANGED <<groups, pc, unblocked>>
  /\ NoCallback

QueueWait(k, e, pool) ==
  LET G       == WithEntry(k, e)
      earlier == EarlierThan(G, k)
      A       == Arm(G, {j \in earlier : ~HasMarker(G[j]) /\ G[j].deadline = 0})
      blocked == \E j \in earlier : A[j].deadline # 0
  IN  /\ ~RecentlyFlushed(k)
      /\ free' = IF IsDup(k, e) THEN Release(pool, {e}) ELSE pool
      /\ \/ /\ ~HasMarker(G[k])
            /\ groups' = G
         \/ /\ HasMarker(G[k]) /\ Codec = "Avc" /\ blocked
            /\ groups' = A
         \/ /\ HasMarker(G[k]) /\ Codec = "Avc" /\ ~blocked
            /\ ~Complete(G[k], lastMarker[k[1]])
            /\ groups' = Arm(A, {j \in {k} : G[j].deadline = 0})
      /\ UNCHANGED <<pc, unblocked>>
      /\ NoCallback

QueueFlush(k, e, pool) ==
  LET G == WithEntry(k, e)
  IN  /\ ~RecentlyFlushed(k)
      /\ HasMarker(G[k])
      /\ Codec = "Avc" => /\ \A j \in EarlierThan(G, k) : HasMarker(G[j]) /\ G[j].deadline = 0
                          /\ Complete(G[k], lastMarker[k[1]])
      /\ FlushGroup(G, IF IsDup(k, e) THEN Release(pool, {e}) ELSE pool, k)
      /\ IF Codec = "Avc" THEN pc' = "queueReady" /\ unblocked' = {k[1]}
                          ELSE UNCHANGED <<pc, unblocked>>

(* packet_thread, one datagram, received into slot s.  The network loses   *)
(* packets (one never received), reorders them (any one may be next) and   *)
(* duplicates up to MaxDup of them.                                        *)
Receive(src, i, s) ==
  LET e    == [seq |-> SeqOf(i), marker |-> TsOf[i] = i, slot |-> s]
      k    == <<src, TsOf[i]>>
      pool == Acquire(free, s)
  IN  /\ pc = "poll"
      /\ free[s] > 0
      /\ IF <<src, i>> \in got THEN dups < MaxDup /\ dups' = dups + 1 ELSE UNCHANGED dups
      /\ got' = got \cup {<<src, i>>}
      /\ TrackSeq(src, SeqOf(i))
      /\ QueueStale(k, e, pool) \/ QueueWait(k, e, pool) \/ QueueFlush(k, e, pool)
      /\ UNCHANGED <<now, lastEvict, doomed>>

-----------------------------------------------------------------------------
(* flush_ready, one round of its loop: the first group in order is flushed *)
(* while it is complete; the first that is not gets its repair deadline.   *)
FlushReady(src) ==
  /\ pc \in {"queueReady", "evictReady"}
  /\ src \in unblocked
  /\ \/ /\ LiveOf(groups, src) = {}
        /\ unblocked' = unblocked \ {src}
        /\ UNCHANGED <<groups, free>>
        /\ NoCallback
     \/ \E k \in LiveOf(groups, src) :
          /\ EarlierThan(groups, k) = {}
          /\ IF Complete(groups[k], lastMarker[src])
             THEN FlushGroup(groups, free, k) /\ UNCHANGED unblocked
             ELSE /\ groups' = Arm(groups, {j \in {k} : groups[j].deadline = 0})
                  /\ unblocked' = unblocked \ {src}
                  /\ UNCHANGED free
                  /\ NoCallback
  /\ UNCHANGED <<pc, doomed, seqVars, netVars, now, lastEvict>>

QueueDone ==
  /\ pc = "queueReady" /\ unblocked = {}
  /\ pc' = "poll"
  /\ NoCallback
  /\ UNCHANGED <<free, groups, doomed, unblocked, seqVars, netVars, now, lastEvict>>

-----------------------------------------------------------------------------
(* evict_stale, called by packet_thread every EvictPeriod. *)

(* Mutant: groups without a deadline are never evicted. *)
ForgottenNone == {}

Expired   == {k \in Live(groups) : groups[k].deadline # 0 /\ now >= groups[k].deadline}
Forgotten == {k \in Live(groups) : groups[k].deadline = 0 /\ now - groups[k].arrival > PendingTtl}

EvictStart ==
  /\ pc = "poll"
  /\ now - lastEvict >= EvictPeriod
  /\ lastEvict' = now
  /\ pc' = "dropExpired" /\ doomed' = Expired /\ unblocked' = {}
  /\ NoCallback
  /\ UNCHANGED <<free, groups, seqVars, netVars, now>>

(* Drop the next doomed group: expired ones in the order their deadlines   *)
(* were armed, forgotten ones in the order the groups were created.        *)
EvictDrop ==
  /\ pc \in {"dropExpired", "dropTtl"}
  /\ \E k \in doomed :
       /\ \A j \in doomed : IF pc = "dropExpired" THEN groups[k].armNo <= groups[j].armNo
                                                 ELSE groups[k].no <= groups[j].no
       /\ DropGroup(k)
       /\ doomed' = doomed \ {k}
       /\ unblocked' = unblocked \cup {k[1]}
  /\ UNCHANGED <<pc, seqVars, netVars, now, lastEvict>>

EvictTtl ==
  /\ pc = "dropExpired" /\ doomed = {}
  /\ pc' = "dropTtl" /\ doomed' = Forgotten
  /\ NoCallback
  /\ UNCHANGED <<free, groups, unblocked, seqVars, netVars, now, lastEvict>>

EvictUnblock ==
  /\ pc = "dropTtl" /\ doomed = {}
  /\ pc' = "evictReady"
  /\ NoCallback
  /\ UNCHANGED <<free, groups, doomed, unblocked, seqVars, netVars, now, lastEvict>>

(* Mutant: off by one in the dedup window. *)
DedupOverEarly(k) == now - flushedAt[k] >= DedupTtl

DedupOver(k) == now - flushedAt[k] > DedupTtl

EvictDone ==
  /\ pc = "evictReady" /\ unblocked = {}
  /\ pc' = "poll"
  /\ flushedAt' = [k \in Key |-> IF DedupOver(k) THEN Never ELSE flushedAt[k]]
  /\ out' = NoOut
  /\ UNCHANGED <<free, groups, lastMarker, doomed, unblocked, expect, doneAt, seqVars, netVars, now, lastEvict>>

-----------------------------------------------------------------------------
(* drain_pending_nack of the tx thread.  What it asks for again is a packet *)
(* the network may deliver anyway.                                         *)

DrainPendingNack(src) ==
  /\ nack[src] # {}
  /\ nack' = [nack EXCEPT ![src] = {}]
  /\ out' = NoOut
  /\ UNCHANGED <<asmVars, maxSeq, roc, netVars, now, lastEvict>>

(* Time passes, but the packet thread evicts once per EvictPeriod. *)
Tick ==
  /\ pc = "poll"
  /\ now < MaxTime /\ now - lastEvict < EvictPeriod
  /\ now' = now + 1
  /\ out' = NoOut
  /\ UNCHANGED <<asmVars, seqVars, netVars, lastEvict>>

Init ==
  /\ free = [s \in Slot |-> 1]
  /\ groups = [k \in Key |-> NoGroup]
  /\ flushedAt = [k \in Key |-> Never]
  /\ lastMarker = [src \in Ssrc |-> Never]
  /\ maxSeq = [src \in Ssrc |-> Never]
  /\ roc = [src \in Ssrc |-> 0]
  /\ nack = [src \in Ssrc |-> {}]
  /\ now = 0 /\ lastEvict = 0
  /\ pc = "poll" /\ doomed = {} /\ unblocked = {}
  /\ out = NoOut
  /\ got = {} /\ dups = 0
  /\ expect = [src \in Ssrc |-> Resync]
  /\ doneAt = [k \in Key |-> Never]

Next ==
  \/ \E src \in Ssrc, i \in Idx, s \in Slot : Receive(src, i, s)
  \/ \E src \in Ssrc : FlushReady(src) \/ DrainPendingNack(src)
  \/ QueueDone
  \/ EvictStart \/ EvictDrop \/ EvictTtl \/ EvictUnblock \/ EvictDone
  \/ Tick

Spec == Init /\ [][Next]_vars

-----------------------------------------------------------------------------
(* Every variable has its type. *)
TypeOK ==
  /\ free \in [Slot -> Int]
  /\ groups \in [Key -> Group]
  /\ flushedAt \in [Key -> Nat \cup {Never}]
  /\ lastMarker \in [Ssrc -> SeqNo \cup {Never}]
  /\ maxSeq \in [Ssrc -> SeqNo \cup {Never}]
  /\ roc \in [Ssrc -> Nat]
  /\ nack \in [Ssrc -> SUBSET SeqNo]
  /\ now \in Nat /\ lastEvict \in Nat
  /\ pc \in {"poll", "queueReady", "dropExpired", "dropTtl", "evictReady"}
  /\ doomed \subseteq Key /\ unblocked \subseteq Ssrc
  /\ dups \in 0 .. MaxDup
  /\ got \subseteq Ssrc \X Idx
  /\ expect \in [Ssrc -> Idx \cup {NumPkts, Resync}]
  /\ doneAt \in [Key -> Nat \cup {Never}]

Accounted(pool, G) ==
  /\ \A s \in Slot : pool[s] \in {0, 1}
  /\ \A s \in Slot : pool[s] = 0 <=> \E k \in Key : \E e \in G[k].pkts : e.slot = s
  /\ \A k, l \in Key : \A e \in G[k].pkts, f \in G[l].pkts : e.slot = f.slot => k = l /\ e = f

(* Every slot is in exactly one place at any time: free, or in one packet  *)
(* of one pending group.  queue_packet, flush_group and drop_group release *)
(* slots at five sites; a missed one leaks receive buffers until the pool  *)
(* runs dry, a doubled one lets a datagram overwrite a pending payload.    *)
SlotsConserved == Accounted(free, groups)

AuSeqs(ts) == {SeqOf(i) : i \in {j \in Idx : TsOf[j] = ts}}

(* AVC: as long as no group of an SSRC was dropped, the access units handed *)
(* to the decoder are whole and consecutive.  A gap in the reference chain *)
(* is therefore always announced by on_drop (which breaks the chain and    *)
(* asks for an intra frame) before anything behind the gap is decoded.     *)
GapsAreAnnounced ==
  (Codec = "Avc" /\ out.kind = "flush" /\ out.expected # Resync) =>
     /\ out.seqs = AuSeqs(out.key[2])
     /\ SeqOf(out.expected) \in out.seqs

(* Once an access unit was flushed or dropped, late and repeated packets   *)
(* do not make a second group of it for DedupTtl.                          *)
EndsOnce ==
  \A k \in Live(groups) : doneAt[k] # Never => groups[k].arrival - doneAt[k] > DedupTtl

(* No group outlives its marker timeout and one repair window, whatever is *)
(* lost or blocked: pending packets cannot fill the pool for good.         *)
BoundedAge ==
  \A k \in Live(groups) : now - groups[k].arrival <= PendingTtl + RepairWait + 2 * EvictPeriod - 1

(* track_seq never asks the source for a packet that has arrived.          *)
NackOnlyMissing ==
  \A src \in Ssrc : \A q \in nack[src] : <<src, IdxOf(q)>> \notin got

MaxGot(src, g) == Max({i \in Idx : <<src, i>> \in g})

(* The extended sequence number the receiver reports, roc * 65536 +        *)
(* max_seq, advances by exactly what the source advanced, over a wrap and  *)
(* whatever arrives late or twice.                                         *)
ExtendedSeqAdvances ==
  \A src \in Ssrc : maxSeq[src] # Never =>
    (roc'[src] - roc[src]) * SeqMod + maxSeq'[src] - maxSeq[src] = MaxGot(src, got') - MaxGot(src, got)

(* session.cpp:419: "never feed a partial access unit".  What is fed is a  *)
(* flushed group that is not marked incomplete; the units before it were   *)
(* whole, so nothing is known to be missing.                               *)
NeverFeedsPartial ==
  (out.kind = "flush" /\ ~out.incomplete /\ out.expected # Resync) => out.seqs = AuSeqs(out.key[2])

(* A unit that was handed on or given up is not begun again by a late or   *)
(* repeated packet, and no unit stays for longer than its timers allow:    *)
(* each ends once, and in time (queue_packet, evict_stale).                *)
EndsOnceInTime == EndsOnce /\ BoundedAge

(* What track_seq keeps of a source is what the source sent: packets asked *)
(* for again have not arrived, and each step moves the extended number by  *)
(* what the source has moved.                                              *)
TracksSequence == [][NackOnlyMissing' /\ ExtendedSeqAdvances]_vars

=============================================================================
