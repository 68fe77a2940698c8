------------------------- MODULE RtpAssemblerProofs -------------------------
(***************************************************************************)
(* Proofs about RtpAssembler: its type invariant, the conservation of      *)
(* PacketPool slots, and that an AVC stream is handed on gap-free between  *)
(* two drops.  All hold for any number of SSRCs, slots and packets, any    *)
(* split of the packets into access units and any timer values.            *)
(***************************************************************************)
EXTENDS RtpTableProofs

-----------------------------------------------------------------------------
(* The inductive invariant.  Between two drops, last_marker_seq_ is the     *)
(* marker of the access unit flushed last: that is what makes group_complete *)
(* compare a group with the unit the decoder was given before it.           *)

ChainOK ==
  \A src \in Ssrc : expect[src] # Resync =>
    /\ expect[src] - 1 \in Idx /\ TsOf[expect[src] - 1] = expect[src] - 1
    /\ lastMarker[src] = SeqOf(expect[src] - 1)

IInv == TypeOK /\ SlotsConserved /\ StreamOK(groups) /\ ChainOK /\ GapsAreAnnounced

(* The part of the invariant that flushing, dropping and arming touch. *)
CoreTypes ==
  /\ free \in [Slot -> Int]
  /\ groups \in Table
  /\ flushedAt \in [Key -> Nat \cup {Never}]
  /\ lastMarker \in [Ssrc -> SeqNo \cup {Never}]
  /\ expect \in [Ssrc -> Idx \cup {NumPkts, Resync}]
  /\ doneAt \in [Key -> Nat \cup {Never}]

Core == CoreTypes /\ SlotsConserved /\ StreamOK(groups) /\ ChainOK /\ GapsAreAnnounced

(* Everything else that has a type. *)
RestTypes ==
  /\ maxSeq \in [Ssrc -> SeqNo \cup {Never}]
  /\ roc \in [Ssrc -> Nat]
  /\ nack \in [Ssrc -> SUBSET SeqNo]
  /\ now \in Nat /\ lastEvict \in Nat
  /\ pc \in {"poll", "queueReady", "dropExpired", "dropTtl", "evictReady"}
  /\ doomed \subseteq Key /\ unblocked \subseteq Ssrc
  /\ dups \in 0 .. MaxDup
  /\ got \subseteq Ssrc \X Idx

\* The invariant, in halves.
LEMMA Split == IInv <=> Core /\ RestTypes
BY Zenon DEF IInv, Core, CoreTypes, RestTypes, TypeOK, Table

\* The same, after a step.
LEMMA SplitNext == IInv' <=> Core' /\ RestTypes'
BY Zenon DEF IInv, Core, CoreTypes, RestTypes, TypeOK, Table

\* Flushing a group keeps the core of the invariant.
LEMMA FlushKeepsCore ==
  ASSUME Core, now \in Nat,
         NEW G \in Table, NEW pool \in [Slot -> Int], NEW k \in Key,
         Accounted(pool, G), StreamOK(G), HasMarker(G[k]),
         Codec = "Avc" => Complete(G[k], lastMarker[k[1]]),
         FlushGroup(G, pool, k)
  PROVE  Core'
<1> DEFINE src == k[1]
<1>1. src \in Ssrc /\ k[2] \in Idx
  BY Zenon DEF Key
<1>2. MarkerSeq(G[k]) = SeqOf(k[2]) /\ IdxOf(MarkerSeq(G[k])) = k[2] /\ MarkerSeq(G[k]) \in SeqNo
  BY <1>1, MarkerOfUnit, StreamSeqs
<1>3. k[2] + 1 \in Idx \cup {NumPkts}
  BY Zenon, <1>1, StreamSeqs
<1>4. CoreTypes'
  <2>1. groups' \in Table
    BY Zenon, EraseTable DEF FlushGroup
  <2>2. free' \in [Slot -> Int]
    BY SMTT(30), ReleaseAccounted DEF FlushGroup
  <2>3. flushedAt' \in [Key -> Nat \cup {Never}] /\ doneAt' \in [Key -> Nat \cup {Never}]
    BY Zenon DEF FlushGroup, Core, CoreTypes
  <2>4. lastMarker' \in [Ssrc -> SeqNo \cup {Never}]
    BY Zenon, <1>2 DEF FlushGroup, Core, CoreTypes
  <2>5. expect' \in [Ssrc -> Idx \cup {NumPkts, Resync}]
    BY Zenon, <1>2, <1>3 DEF FlushGroup, Core, CoreTypes
  <2> QED
    BY Zenon, <2>1, <2>2, <2>3, <2>4, <2>5 DEF CoreTypes
<1>5. SlotsConserved'
  BY Zenon, ReleaseAccounted DEF FlushGroup, SlotsConserved
<1>6. StreamOK(groups)'
  BY Zenon, EraseStream DEF FlushGroup, StreamOK
<1>7. ChainOK'
  <2> SUFFICES ASSUME NEW t \in Ssrc, expect'[t] # Resync
               PROVE  /\ expect'[t] - 1 \in Idx /\ TsOf[expect'[t] - 1] = expect'[t] - 1
                      /\ lastMarker'[t] = SeqOf(expect'[t] - 1)
    BY Zenon DEF ChainOK
  <2>1. CASE t = src
    <3>1. expect'[t] = k[2] + 1 /\ lastMarker'[t] = SeqOf(k[2])
      BY Zenon, <2>1, <1>1, <1>2 DEF FlushGroup, Core, CoreTypes
    <3>2. TsOf[k[2]] = k[2]
      <4>1. PICK e \in G[k].pkts : e.marker
        BY SMTT(30) DEF HasMarker
      <4>2. PICK i \in Idx : TsOf[i] = k[2] /\ e.marker = (TsOf[i] = i)
        BY Zenon, <4>1 DEF StreamOK
      <4>3. TsOf[i] = i
        BY Zenon, <4>1, <4>2
      <4> QED
        BY Zenon, <4>2, <4>3
    <3>3. expect'[t] - 1 = k[2]
      BY <3>1, <1>1, SeqAssumption DEF Idx
    <3> QED
      BY SMTT(30), <3>1, <3>2, <3>3, <1>1
  <2>2. CASE t # src
    BY Zenon, <2>2, <1>1 DEF FlushGroup, Core, CoreTypes, ChainOK
  <2> QED
    BY Zenon, <2>1, <2>2
<1>8. GapsAreAnnounced'
  <2>1. out' = [kind |-> "flush", key |-> k, seqs |-> Seqs(G[k]), expected |-> expect[src],
                incomplete |-> ~GapFree(Seqs(G[k]))]
    BY Zenon DEF FlushGroup
  <2> SUFFICES ASSUME Codec = "Avc", expect[src] # Resync
               PROVE  Seqs(G[k]) = AuSeqs(k[2]) /\ SeqOf(expect[src]) \in Seqs(G[k])
    BY Zenon, <2>1 DEF GapsAreAnnounced
  <2> DEFINE m == expect[src] - 1
  <2>2. m \in Idx /\ TsOf[m] = m /\ lastMarker[src] = SeqOf(m)
    BY Zenon, <1>1 DEF Core, ChainOK
  <2>3. m + 1 = expect[src]
    BY <1>1, SeqAssumption DEF Core, CoreTypes, Idx, Resync
  <2>4. Complete(G[k], SeqOf(m))
    BY Zenon, <2>2
  <2> HIDE DEF m
  <2>5. Seqs(G[k]) = AuSeqs(k[2]) /\ SeqOf(m + 1) \in Seqs(G[k])
    BY Zenon, <2>2, <2>4, CompleteIsWhole
  <2> QED
    BY Zenon, <2>3, <2>5
<1> QED
  BY Zenon, <1>4, <1>5, <1>6, <1>7, <1>8 DEF Core

\* Dropping a group keeps the core of the invariant.
LEMMA DropKeepsCore ==
  ASSUME Core, now \in Nat, NEW k \in Key, DropGroup(k)
  PROVE  Core'
<1>1. k[1] \in Ssrc /\ k[2] \in Idx
  BY Zenon DEF Key
<1>2. groups \in Table /\ free \in [Slot -> Int] /\ StreamOK(groups) /\ Accounted(free, groups)
  BY Zenon DEF Core, CoreTypes, SlotsConserved
<1>3. (IF HasMarker(groups[k]) THEN MarkerSeq(groups[k]) ELSE Never) \in SeqNo \cup {Never}
  BY <1>1, <1>2, MarkerOfUnit, StreamSeqs
<1>4. CoreTypes'
  <2>1. groups' \in Table
    BY Zenon, <1>2, EraseTable DEF DropGroup
  <2>2. free' \in [Slot -> Int]
    BY Zenon, <1>2, ReleaseAccounted DEF DropGroup
  <2>3. flushedAt' \in [Key -> Nat \cup {Never}] /\ doneAt' \in [Key -> Nat \cup {Never}]
    BY Zenon DEF DropGroup, Core, CoreTypes
  <2>4. lastMarker' \in [Ssrc -> SeqNo \cup {Never}] /\ expect' \in [Ssrc -> Idx \cup {NumPkts, Resync}]
    BY Zenon, <1>3 DEF DropGroup, Core, CoreTypes
  <2> QED
    BY Zenon, <2>1, <2>2, <2>3, <2>4 DEF CoreTypes
<1>5. SlotsConserved'
  BY Zenon, <1>2, ReleaseAccounted DEF DropGroup, SlotsConserved
<1>6. StreamOK(groups)'
  BY SMTT(30), <1>2, EraseStream DEF DropGroup, StreamOK
<1>7. ChainOK'
  BY Zenon, <1>1 DEF DropGroup, Core, CoreTypes, ChainOK
<1>8. GapsAreAnnounced'
  BY Zenon DEF DropGroup, GapsAreAnnounced
<1> QED
  BY Zenon, <1>4, <1>5, <1>6, <1>7, <1>8 DEF Core

(* A step with no callback that keeps slots and stream keeps the invariant. *)
LEMMA QuietKeepsCore ==
  ASSUME Core, NoCallback, groups' \in Table, free' \in [Slot -> Int],
         Accounted(free', groups'), StreamOK(groups')
  PROVE  Core'
<1>1. CoreTypes'
  BY Zenon DEF NoCallback, Core, CoreTypes
<1>2. SlotsConserved' /\ StreamOK(groups)'
  BY Zenon DEF SlotsConserved, StreamOK
<1>3. ChainOK'
  BY Zenon DEF NoCallback, Core, ChainOK
<1>4. GapsAreAnnounced'
  BY Zenon DEF NoCallback, NoOut, GapsAreAnnounced
<1> QED
  BY Zenon, <1>1, <1>2, <1>3, <1>4 DEF Core

-----------------------------------------------------------------------------

\* The invariant holds at the start.
LEMMA InitInv == ASSUME Init PROVE IInv
<1>1. CoreTypes
  BY NoGroupType, SeqAssumption DEF Init, CoreTypes, Table, Never, Resync
<1>2. RestTypes
  BY TimerAssumption DEF Init, RestTypes, Never
<1>3. \A k \in Key : groups[k].pkts = {}
  BY Zenon, NoGroupType DEF Init
<1>4. SlotsConserved /\ StreamOK(groups)
  BY <1>3 DEF Init, SlotsConserved, Accounted, StreamOK
<1>5. ChainOK /\ GapsAreAnnounced
  BY Zenon DEF Init, ChainOK, GapsAreAnnounced, NoOut
<1> QED
  BY Zenon, <1>1, <1>2, <1>4, <1>5, Split DEF Core

\* track_seq keeps types.
LEMMA TrackSeqTypes ==
  ASSUME RestTypes, NEW src \in Ssrc, NEW q \in SeqNo, TrackSeq(src, q)
  PROVE  /\ maxSeq' \in [Ssrc -> SeqNo \cup {Never}]
         /\ roc' \in [Ssrc -> Nat]
         /\ nack' \in [Ssrc -> SUBSET SeqNo]
<1> DEFINE diff == Minus(q, maxSeq[src])
<1>1. CASE maxSeq[src] = Never
  BY Zenon, <1>1 DEF TrackSeq, RestTypes, seqVars
<1>2. CASE maxSeq[src] # Never
  <2>1. maxSeq[src] \in SeqNo /\ diff \in SeqNo
    BY Zenon, <1>2, SeqArithmetic DEF RestTypes
  <2>2. Skipped(src, q) \in SUBSET SeqNo
    <3>1. \A m \in 1 .. (IF diff < NackSpan THEN diff ELSE NackSpan) - 1 : m \in 0 .. SeqMod
      <4> HIDE DEF diff
      <4> QED
        BY <2>1, SeqAssumption, TimerAssumption DEF SeqNo
    <3>2. \A m \in 0 .. SeqMod : Plus(maxSeq[src], m) \in SeqNo
      BY Zenon, <2>1, SeqArithmetic
    <3> QED
      BY Zenon, <3>1, <3>2 DEF Skipped
  <2>3. \/ UNCHANGED seqVars
        \/ /\ nack' = [nack EXCEPT ![src] = @ \ {q}]
           /\ UNCHANGED <<maxSeq, roc>>
        \/ /\ nack' = [nack EXCEPT ![src] = @ \cup Skipped(src, q)]
           /\ roc' = [roc EXCEPT ![src] = @ + RocStep(src, q)]
           /\ maxSeq' = [maxSeq EXCEPT ![src] = q]
    BY Zenon, <1>2 DEF TrackSeq
  <2>4. RocStep(src, q) \in {0, 1}
    BY Zenon DEF RocStep
  <2> QED
    BY <2>2, <2>3, <2>4 DEF RestTypes, seqVars
<1> QED
  BY Zenon, <1>1, <1>2

\* A packet that is received keeps the invariant.
LEMMA ReceiveInv ==
  ASSUME IInv, NEW src \in Ssrc, NEW i \in Idx, NEW s \in Slot, Receive(src, i, s)
  PROVE  IInv'
<1> DEFINE e == EntryOf(i, s)
           k == <<src, TsOf[i]>>
           W == WithEntry(k, e)
<1>1. Core /\ RestTypes
  BY Zenon, Split
<1>2. /\ k \in Key /\ e \in Entry /\ k[1] = src /\ e.slot = s
      /\ W \in Table
      /\ PoolAfter(k, e) \in [Slot -> Int]
      /\ Accounted(PoolAfter(k, e), W)
      /\ StreamOK(W)
  <2>1. free[s] > 0
    BY Zenon DEF Receive
  <2>2. k[1] = src /\ e.slot = s
    BY Zenon DEF EntryOf
  <2> QED
    BY Zenon, <2>1, <2>2, Enqueue DEF IInv
<1>3. SeqOf(i) \in SeqNo
  BY SMTT(30), StreamSeqs
<1>4. TrackSeq(src, SeqOf(i))
  BY Zenon DEF Receive
<1>5. /\ maxSeq' \in [Ssrc -> SeqNo \cup {Never}]
      /\ roc' \in [Ssrc -> Nat]
      /\ nack' \in [Ssrc -> SUBSET SeqNo]
  BY Zenon, <1>1, <1>3, <1>4, TrackSeqTypes
<1>6. dups' \in 0 .. MaxDup /\ got' \subseteq Ssrc \X Idx /\ UNCHANGED <<now, lastEvict, doomed>> /\ pc = "poll"
  <2>1. /\ IF <<src, i>> \in got THEN dups < MaxDup /\ dups' = dups + 1 ELSE UNCHANGED dups
        /\ got' = got \cup {<<src, i>>}
        /\ UNCHANGED <<now, lastEvict, doomed>>
        /\ pc = "poll"
    BY Zenon DEF Receive
  <2>2. dups \in 0 .. MaxDup /\ got \subseteq Ssrc \X Idx
    BY Zenon, <1>1 DEF RestTypes
  <2>3. MaxDup \in Nat
    BY Zenon, TimerAssumption
  <2>4. dups' \in 0 .. MaxDup
    BY <2>1, <2>2, <2>3
  <2>5. got' \subseteq Ssrc \X Idx
    BY SMTT(30), <2>1, <2>2
  <2> QED
    BY SMTT(30), <2>1, <2>4, <2>5
<1>7. \/ QueueStale(k, e, Acquire(free, s))
      \/ QueueWait(k, e, Acquire(free, s))
      \/ QueueFlush(k, e, Acquire(free, s))
  BY Zenon DEF Receive, EntryOf
<1> HIDE DEF e, k
<1>8. CASE QueueStale(k, e, Acquire(free, s))
  <2>1. free' = free /\ groups' = groups /\ NoCallback /\ UNCHANGED <<pc, unblocked>>
    BY Zenon, <1>8, <1>1, <1>2, TakeAndReturn DEF QueueStale, Core, CoreTypes
  <2>2. Core'
    BY Zenon, <2>1, <1>1, QuietKeepsCore DEF Core, CoreTypes, SlotsConserved
  <2>3. RestTypes'
    BY Zenon, <2>1, <1>1, <1>5, <1>6 DEF RestTypes
  <2> QED
    BY Zenon, <2>2, <2>3, SplitNext
<1>9. CASE QueueWait(k, e, Acquire(free, s))
  <2> DEFINE late == {j \in EarlierThan(W, k) : ~HasMarker(W[j]) /\ W[j].deadline = 0}
             A == Arm(W, late)
             mine == {j \in {k} : W[j].deadline = 0}
  <2>1. /\ free' = PoolAfter(k, e)
        /\ groups' = W \/ groups' = A \/ groups' = Arm(A, mine)
        /\ NoCallback /\ UNCHANGED <<pc, unblocked>>
    BY Zenon, <1>9, <1>2 DEF QueueWait, PoolAfter
  <2>2. now \in Nat /\ late \in SUBSET Key /\ mine \in SUBSET Key
    BY Zenon, <1>1, <1>2 DEF RestTypes, EarlierThan, LiveOf, Live
  <2> HIDE DEF late, mine, W
  <2>3. A \in Table /\ \A j \in Key : A[j].pkts = W[j].pkts
    BY Zenon, <1>2, <2>2, ArmTable
  <2> HIDE DEF A
  <2>4. Arm(A, mine) \in Table /\ \A j \in Key : Arm(A, mine)[j].pkts = W[j].pkts
    BY Zenon, <2>2, <2>3, ArmTable
  <2>5. groups' \in Table /\ \A j \in Key : groups'[j].pkts = W[j].pkts
    BY Zenon, <1>2, <2>1, <2>3, <2>4
  <2>6. Accounted(free', groups') /\ StreamOK(groups')
    BY Zenon, <1>2, <2>1, <2>5, SamePackets
  <2>7. Core'
    BY Zenon, <1>1, <1>2, <2>1, <2>5, <2>6, QuietKeepsCore
  <2>8. RestTypes'
    BY SMTT(30), <2>1, <1>1, <1>5, <1>6 DEF RestTypes
  <2> QED
    BY Zenon, <2>7, <2>8, SplitNext
<1>10. CASE QueueFlush(k, e, Acquire(free, s))
  <2>1. /\ HasMarker(W[k])
        /\ Codec = "Avc" => Complete(W[k], lastMarker[k[1]])
        /\ FlushGroup(W, PoolAfter(k, e), k)
        /\ pc' \in {"poll", "queueReady"} /\ unblocked' \subseteq Ssrc
    BY Zenon, <1>10, <1>1, <1>2, <1>6 DEF QueueFlush, PoolAfter, RestTypes
  <2>2. now \in Nat
    BY SMTT(30), <1>1 DEF RestTypes
  <2>3. Core'
    BY Zenon, <1>1, <1>2, <2>1, <2>2, FlushKeepsCore
  <2>4. RestTypes'
    BY SMTT(30), <2>1, <1>1, <1>5, <1>6 DEF RestTypes
  <2> QED
    BY Zenon, <2>3, <2>4, SplitNext
<1> QED
  BY Zenon, <1>7, <1>8, <1>9, <1>10

\* flush_ready keeps the invariant.
LEMMA FlushReadyInv ==
  ASSUME IInv, NEW src \in Ssrc, FlushReady(src)
  PROVE  IInv'
<1>1. Core /\ RestTypes
  BY Zenon, Split
<1>2. /\ groups \in Table /\ free \in [Slot -> Int] /\ now \in Nat
      /\ Accounted(free, groups) /\ StreamOK(groups)
  BY Zenon, <1>1 DEF Core, CoreTypes, RestTypes, SlotsConserved
<1>3. RestTypes'
  BY Zenon, <1>1 DEF FlushReady, RestTypes, seqVars, netVars
<1>4. CASE UNCHANGED <<groups, free>> /\ NoCallback
  BY Zenon, <1>1, <1>2, <1>3, <1>4, QuietKeepsCore, SplitNext
<1>5. ASSUME NEW k \in LiveOf(groups, src),
             IF Complete(groups[k], lastMarker[src])
             THEN FlushGroup(groups, free, k) /\ UNCHANGED unblocked
             ELSE /\ groups' = Arm(groups, {j \in {k} : groups[j].deadline = 0})
                  /\ unblocked' = unblocked \ {src}
                  /\ UNCHANGED free
                  /\ NoCallback
      PROVE  IInv'
  <2>1. k \in Key /\ k[1] = src
    BY Zenon DEF LiveOf, Live
  <2>2. CASE Complete(groups[k], lastMarker[src])
    <3>1. HasMarker(groups[k]) /\ Complete(groups[k], lastMarker[k[1]]) /\ FlushGroup(groups, free, k)
      BY Zenon, <1>5, <2>1, <2>2 DEF Complete, HasMarker
    <3>2. Core'
      BY Zenon, <1>1, <1>2, <2>1, <3>1, FlushKeepsCore
    <3> QED
      BY SMTT(30), <3>2, <1>3, SplitNext
  <2>3. CASE ~Complete(groups[k], lastMarker[src])
    <3> DEFINE S == {j \in {k} : groups[j].deadline = 0}
    <3>1. groups' = Arm(groups, S) /\ UNCHANGED free /\ NoCallback
      BY Zenon, <1>5, <2>3
    <3>2. S \in SUBSET Key
      BY Zenon, <2>1
    <3> HIDE DEF S
    <3>3. groups' \in Table /\ \A j \in Key : groups'[j].pkts = groups[j].pkts
      BY Zenon, <1>2, <3>1, <3>2, ArmTable
    <3>4. Accounted(free', groups') /\ StreamOK(groups')
      BY Zenon, <1>2, <3>1, <3>3, SamePackets
    <3> QED
      BY SMTT(30), <1>1, <1>2, <1>3, <3>1, <3>3, <3>4, QuietKeepsCore, SplitNext
  <2> QED
    BY Zenon, <2>2, <2>3
<1> QED
  BY Zenon, <1>4, <1>5 DEF FlushReady

\* A drop of evict_stale keeps the invariant.
LEMMA EvictDropInv ==
  ASSUME IInv, EvictDrop
  PROVE  IInv'
<1>1. Core /\ RestTypes
  BY Zenon, Split
<1>2. PICK k \in doomed : DropGroup(k) /\ doomed' = doomed \ {k} /\ unblocked' = unblocked \cup {k[1]}
  BY Zenon DEF EvictDrop
<1>3. k \in Key /\ k[1] \in Ssrc /\ now \in Nat
  BY Zenon, <1>1 DEF RestTypes, Key
<1>4. Core'
  BY SMTT(30), <1>1, <1>2, <1>3, DropKeepsCore
<1>5. RestTypes'
  BY Zenon, <1>1, <1>2, <1>3 DEF EvictDrop, RestTypes, seqVars, netVars
<1> QED
  BY Zenon, <1>4, <1>5, SplitNext

(* The steps that leave groups and slots alone. *)
LEMMA OtherInv ==
  ASSUME IInv,
         \/ QueueDone \/ EvictStart \/ EvictTtl \/ EvictUnblock \/ EvictDone \/ Tick
         \/ \E src \in Ssrc : DrainPendingNack(src)
         \/ UNCHANGED vars
  PROVE  IInv'
<1>1. Core /\ RestTypes
  BY SMTT(30), Split
<1>2. UNCHANGED <<groups, free, lastMarker, expect, doneAt>>
  BY Zenon DEF QueueDone, EvictStart, EvictTtl, EvictUnblock, EvictDone, Tick, DrainPendingNack, NoCallback, vars, asmVars
<1>3. flushedAt' \in [Key -> Nat \cup {Never}]
  BY Zenon, <1>1 DEF QueueDone, EvictStart, EvictTtl, EvictUnblock, EvictDone, Tick, DrainPendingNack, NoCallback,
              vars, asmVars, Core, CoreTypes
<1>4. CoreTypes'
  BY SMTT(30), <1>1, <1>2, <1>3 DEF Core, CoreTypes
<1>5. SlotsConserved' /\ StreamOK(groups)' /\ ChainOK'
  BY Zenon, <1>1, <1>2 DEF Core, SlotsConserved, StreamOK, ChainOK
<1>6. out' \in {out, NoOut}
  BY Zenon DEF QueueDone, EvictStart, EvictTtl, EvictUnblock, EvictDone, Tick, DrainPendingNack, NoCallback, vars
<1>7. GapsAreAnnounced'
  <2>1. CASE out' = out
    BY Zenon, <1>1, <2>1 DEF Core, GapsAreAnnounced
  <2>2. CASE out' = NoOut
    <3>1. out'.kind = "none"
      BY Zenon, <2>2 DEF NoOut
    <3> QED BY Zenon, <3>1 DEF GapsAreAnnounced
  <2> QED BY Zenon, <1>6, <2>1, <2>2
<1>8. RestTypes'
  <2>1. Expired \subseteq Key /\ Forgotten \subseteq Key
    BY Zenon DEF Expired, Forgotten, Live
  <2>2. CASE QueueDone
    BY Zenon, <1>1, <2>1, <2>2 DEF RestTypes, QueueDone, NoCallback, asmVars, seqVars, netVars
  <2>3. CASE EvictStart
    BY Zenon, <1>1, <2>1, <2>3 DEF RestTypes, EvictStart, NoCallback, asmVars, seqVars, netVars
  <2>4. CASE EvictTtl
    BY Zenon, <1>1, <2>1, <2>4 DEF RestTypes, EvictTtl, NoCallback, asmVars, seqVars, netVars
  <2>5. CASE EvictUnblock
    BY Zenon, <1>1, <2>1, <2>5 DEF RestTypes, EvictUnblock, NoCallback, asmVars, seqVars, netVars
  <2>6. CASE EvictDone
    BY Zenon, <1>1, <2>1, <2>6 DEF RestTypes, EvictDone, NoCallback, asmVars, seqVars, netVars
  <2>7. CASE Tick
    BY <1>1, <2>1, <2>7 DEF RestTypes, Tick, NoCallback, asmVars, seqVars, netVars
  <2>8. CASE \E src \in Ssrc : DrainPendingNack(src)
    BY Zenon, <1>1, <2>8 DEF RestTypes, DrainPendingNack, asmVars, seqVars, netVars
  <2>9. CASE UNCHANGED vars
    BY Zenon, <1>1, <2>9 DEF RestTypes, vars, asmVars, seqVars, netVars
  <2> QED
    BY Zenon, <2>2, <2>3, <2>4, <2>5, <2>6, <2>7, <2>8, <2>9
<1> QED
  BY Zenon, <1>4, <1>5, <1>7, <1>8, SplitNext DEF Core

\* The invariant holds throughout.
LEMMA InductiveInv == Spec => []IInv
<1>1. Init => IInv
  BY Zenon, InitInv
<1>2. IInv /\ [Next]_vars => IInv'
  <2> SUFFICES ASSUME IInv, [Next]_vars PROVE IInv'
    OBVIOUS
  <2>1. ASSUME NEW src \in Ssrc, NEW i \in Idx, NEW s \in Slot, Receive(src, i, s) PROVE IInv'
    BY Zenon, <2>1, ReceiveInv
  <2>2. ASSUME NEW src \in Ssrc, FlushReady(src) PROVE IInv'
    BY Zenon, <2>2, FlushReadyInv
  <2>3. CASE EvictDrop
    BY Zenon, <2>3, EvictDropInv
  <2>4. CASE \/ QueueDone \/ EvictStart \/ EvictTtl \/ EvictUnblock \/ EvictDone \/ Tick
             \/ \E src \in Ssrc : DrainPendingNack(src)
             \/ UNCHANGED vars
    BY Zenon, <2>4, OtherInv
  <2> QED
    BY Zenon, <2>1, <2>2, <2>3, <2>4 DEF Next
<1> QED
  BY <1>1, <1>2, PTL DEF Spec

(* Every reachable state of the assembler is well typed. *)
THEOREM TypeCorrect == Spec => []TypeOK
BY InductiveInv, PTL DEF IInv

(* For any pool, any number of tiles and any loss pattern, the assembler   *)
(* (queue_packet, flush_group, drop_group) neither leaks a slot nor        *)
(* releases one twice.                                                     *)
THEOREM SlotsAreConserved == Spec => []SlotsConserved
BY InductiveInv, PTL DEF IInv

(* For any stream and any loss, reordering and duplication, an AVC gap     *)
(* never reaches the decoder unannounced.                                  *)
THEOREM AvcGapsAreAnnounced == Spec => []GapsAreAnnounced
BY InductiveInv, PTL DEF IInv

\* track_seq never asks for a packet that has arrived, and the extended number
\* moves with the source, over any wrap and whatever comes late or twice.
THEOREM SequenceTracked == Spec => TracksSequence
<1>1. Init => SeqInv
  BY Zenon DEF Init, SeqInv, Silent
<1>2. SeqInv' => NackOnlyMissing'
  BY Zenon DEF SeqInv, Silent, Newest, NackOnlyMissing
<1>3. TypeOK /\ SeqInv /\ [Next]_vars => SeqInv' /\ ExtendedSeqAdvances
  BY Zenon, SourceStep DEF SeqInv, ExtendedSeqAdvances
<1>4. TypeOK /\ SeqInv /\ [Next]_vars => [NackOnlyMissing' /\ ExtendedSeqAdvances]_vars
  BY Zenon, <1>2, <1>3
<1> QED BY <1>1, <1>3, <1>4, TypeCorrect, PTL DEF Spec, TracksSequence

-----------------------------------------------------------------------------
(* The ends of groups.  What the argument needs of a group is when its     *)
(* first packet came and its repair deadline; evict_stale sees every group *)
(* once per EvictPeriod, and a key it has ended stays in recently_flushed_ *)
(* for DedupTtl.                                                           *)

\* The deadline of an armed group is counted from now; nothing else about time changes.
LEMMA ArmTimes ==
  ASSUME NEW G \in Table, NEW S \in SUBSET Key, NEW k \in Key
  PROVE  /\ Arm(G, S)[k].arrival = G[k].arrival /\ Arm(G, S)[k].pkts = G[k].pkts
         /\ Arm(G, S)[k].deadline = IF k \in S THEN now + RepairWait ELSE G[k].deadline
<1> DEFINE r == Cardinality({l \in Key : G[l].armNo # 0}) + 1 + Cardinality({j \in S : Before(G, j, k)})
<1>1. Arm(G, S)[k] = IF k \in S THEN [G[k] EXCEPT !.deadline = now + RepairWait, !.armNo = r] ELSE G[k]
  BY Zenon DEF Arm
<1>2. G[k] \in Group
  BY Zenon DEF Table
<1> HIDE DEF r
<1> QED BY Zenon, <1>1, <1>2 DEF Group

\* Erasing a group leaves the times of the others alone.
LEMMA EraseTimes ==
  ASSUME NEW G \in Table, NEW k \in Key, NEW j \in Key, j # k
  PROVE  /\ Erase(G, k)[j].arrival = G[j].arrival /\ Erase(G, k)[j].deadline = G[j].deadline
         /\ Erase(G, k)[j].pkts = G[j].pkts
<1> DEFINE n == IF G[j].no > G[k].no THEN G[j].no - 1 ELSE G[j].no
           a == IF G[k].armNo # 0 /\ G[j].armNo > G[k].armNo THEN G[j].armNo - 1 ELSE G[j].armNo
<1>1. Erase(G, k)[j] = [G[j] EXCEPT !.no = n, !.armNo = a]
  BY Zenon DEF Erase
<1>2. G[j] \in Group
  BY Zenon DEF Table
<1> HIDE DEF n, a
<1> QED BY Zenon, <1>1, <1>2 DEF Group

\* A packet begins its group now or leaves its times alone.
LEMMA EntryTimes ==
  ASSUME groups \in Table, NEW k \in Key, NEW e \in Entry
  PROVE  /\ \A j \in Key : j # k => WithEntry(k, e)[j] = groups[j]
         /\ LET g == WithEntry(k, e)[k]
            IN  IF groups[k].pkts = {}
                THEN g.arrival = now /\ g.deadline = 0
                ELSE g.arrival = groups[k].arrival /\ g.deadline = groups[k].deadline
<1> DEFINE n == Cardinality(Live(groups)) + 1
           fresh == [NoGroup EXCEPT !.pkts = {e}, !.arrival = now, !.no = n]
           more == [groups[k] EXCEPT !.pkts = groups[k].pkts \cup {e}]
           g == IF groups[k].pkts = {} THEN fresh ELSE IF IsDup(k, e) THEN groups[k] ELSE more
<1>1. WithEntry(k, e) = [groups EXCEPT ![k] = g] /\ groups[k] \in Group
  BY Zenon DEF WithEntry, Table
<1>2. fresh.arrival = now /\ fresh.deadline = 0
  <2> HIDE DEF n
  <2> QED BY Zenon DEF NoGroup
<1>3. more.arrival = groups[k].arrival /\ more.deadline = groups[k].deadline
  BY Zenon, <1>1 DEF Group
<1> HIDE DEF fresh, more
<1>4. IF groups[k].pkts = {}
      THEN g.arrival = now /\ g.deadline = 0
      ELSE g.arrival = groups[k].arrival /\ g.deadline = groups[k].deadline
  BY Zenon, <1>2, <1>3
<1> HIDE DEF g
<1> QED BY Zenon, <1>1, <1>4 DEF Table

-----------------------------------------------------------------------------
(* BoundedAge. *)

\* Neither the marker timeout nor the repair window has been over for longer than it takes
\* evict_stale to come round.
InTime(g) ==
  /\ g.deadline = 0 => now - g.arrival <= PendingTtl + EvictPeriod
  /\ g.deadline # 0 => /\ g.deadline <= g.arrival + PendingTtl + EvictPeriod + RepairWait
                       /\ now < g.deadline + EvictPeriod

\* The last evict_stale left the group alone: its deadline had not come,
\* or without one it was young enough.
Unexpired(g) == g.deadline # 0 => g.deadline > lastEvict
Unforgotten(g) == g.deadline = 0 => lastEvict - g.arrival <= PendingTtl

Timely(G) == \A k \in Live(G) : InTime(G[k]) /\ Unexpired(G[k]) /\ Unforgotten(G[k])

AgeInv ==
  /\ now - lastEvict \in 0 .. EvictPeriod
  /\ \A k \in Live(groups) :
       /\ InTime(groups[k])
       /\ Unexpired(groups[k]) \/ (pc = "dropExpired" /\ k \in doomed)
       /\ Unforgotten(groups[k]) \/ pc = "dropExpired" \/ (pc = "dropTtl" /\ k \in doomed)

\* When evict_stale does not drop, no group is overdue.
LEMMA AgeTimely ==
  /\ AgeInv /\ pc \notin {"dropExpired", "dropTtl"} => Timely(groups)
  /\ Timely(groups)' /\ (now - lastEvict \in 0 .. EvictPeriod)' => AgeInv'
BY Zenon DEF AgeInv, Timely

\* What is used of the clock.
Clock == now \in Nat /\ lastEvict \in Nat /\ now - lastEvict \in 0 .. EvictPeriod

\* Arming groups that have no deadline yet.
LEMMA ArmTimely ==
  ASSUME Clock, NEW G \in Table, Timely(G), NEW S \in SUBSET Key,
         \A k \in S : k \in Live(G) => now - G[k].arrival <= PendingTtl + EvictPeriod
  PROVE  Timely(Arm(G, S))
<1> SUFFICES ASSUME NEW k \in Live(Arm(G, S))
             PROVE  InTime(Arm(G, S)[k]) /\ Unexpired(Arm(G, S)[k]) /\ Unforgotten(Arm(G, S)[k])
  BY Zenon DEF Timely
<1> DEFINE g == G[k]
           h == Arm(G, S)[k]
<1>1. /\ k \in Key /\ h.arrival = g.arrival /\ h.pkts = g.pkts
      /\ h.deadline = IF k \in S THEN now + RepairWait ELSE g.deadline
  BY ArmTimes DEF Live
<1>2. k \in Live(G) /\ g.arrival \in Nat /\ g.deadline \in Nat
  BY Zenon, <1>1 DEF Live, Table, Group
<1>3. InTime(g) /\ Unexpired(g) /\ Unforgotten(g) /\ (k \in S => now - g.arrival <= PendingTtl + EvictPeriod)
  BY Zenon, <1>2 DEF Timely
<1> HIDE DEF g, h
<1> QED BY <1>1, <1>2, <1>3, TimerAssumption DEF InTime, Unexpired, Unforgotten, Clock, h

\* Erasing a group.
LEMMA EraseTimely ==
  ASSUME NEW G \in Table, Timely(G), NEW k \in Key
  PROVE  Timely(Erase(G, k))
<1> SUFFICES ASSUME NEW j \in Live(Erase(G, k))
             PROVE  InTime(Erase(G, k)[j]) /\ Unexpired(Erase(G, k)[j]) /\ Unforgotten(Erase(G, k)[j])
  BY Zenon DEF Timely
<1>1. j \in Key /\ j # k
  BY Zenon, EraseTable DEF Live
<1>2. /\ Erase(G, k)[j].arrival = G[j].arrival /\ Erase(G, k)[j].deadline = G[j].deadline
      /\ Erase(G, k)[j].pkts = G[j].pkts
  BY Zenon, <1>1, EraseTimes
<1>3. j \in Live(G)
  BY Zenon, <1>1, <1>2 DEF Live
<1> QED BY Zenon, <1>2, <1>3 DEF Timely, InTime, Unexpired, Unforgotten

\* A packet that joins a group or begins one.
LEMMA EntryTimely ==
  ASSUME Clock, groups \in Table, Timely(groups), NEW k \in Key, NEW e \in Entry
  PROVE  Timely(WithEntry(k, e))
<1> SUFFICES ASSUME NEW j \in Live(WithEntry(k, e))
             PROVE  LET g == WithEntry(k, e)[j] IN InTime(g) /\ Unexpired(g) /\ Unforgotten(g)
  BY Zenon DEF Timely
<1>1. j \in Key
  BY Zenon DEF Live
<1>2. CASE j # k
  <2>1. WithEntry(k, e)[j] = groups[j] /\ j \in Live(groups)
    BY Zenon, <1>1, <1>2, EntryTimes DEF Live
  <2> QED BY Zenon, <2>1 DEF Timely
<1>3. CASE j = k
  <2> DEFINE g == WithEntry(k, e)[k]
  <2>1. CASE groups[k].pkts = {}
    <3>1. g.arrival = now /\ g.deadline = 0
      BY Zenon, <2>1, EntryTimes
    <3> HIDE DEF g
    <3>2. InTime(g) /\ Unexpired(g) /\ Unforgotten(g)
      BY <3>1, TimerAssumption DEF InTime, Unexpired, Unforgotten, Clock
    <3> QED BY Zenon, <1>3, <3>2 DEF g
  <2>2. CASE groups[k].pkts # {}
    <3>1. g.arrival = groups[k].arrival /\ g.deadline = groups[k].deadline /\ k \in Live(groups)
      BY Zenon, <2>2, EntryTimes DEF Live
    <3> HIDE DEF g
    <3>2. InTime(g) /\ Unexpired(g) /\ Unforgotten(g)
      BY Zenon, <3>1 DEF InTime, Unexpired, Unforgotten, Timely
    <3> QED BY Zenon, <1>3, <3>2 DEF g
  <2> QED BY Zenon, <2>1, <2>2
<1> QED BY Zenon, <1>2, <1>3

-----------------------------------------------------------------------------
(* EndsOnce. *)

\* No group of a key in recently_flushed_, and none begun too soon after the last one ended.
Apart(G) ==
  \A k \in Key : /\ flushedAt[k] # Never => G[k].pkts = {}
                 /\ G[k].pkts # {} /\ doneAt[k] # Never => G[k].arrival - doneAt[k] > DedupTtl

\* recently_flushed_ remembers every end for DedupTtl.
Remembered ==
  \A k \in Key : /\ flushedAt[k] # Never => doneAt[k] = flushedAt[k]
                 /\ doneAt[k] # Never /\ flushedAt[k] = Never => now - doneAt[k] > DedupTtl

\* Arming leaves groups and ends alone.
LEMMA ArmApart ==
  ASSUME NEW G \in Table, Apart(G), NEW S \in SUBSET Key
  PROVE  Apart(Arm(G, S))
<1>1. \A k \in Key : Arm(G, S)[k].arrival = G[k].arrival /\ Arm(G, S)[k].pkts = G[k].pkts
  BY ArmTimes
<1> QED BY Zenon, <1>1 DEF Apart

\* A packet begins a group only of a key that has left recently_flushed_.
LEMMA EntryApart ==
  ASSUME groups \in Table, Apart(groups), Remembered, NEW k \in Key, NEW e \in Entry, ~RecentlyFlushed(k)
  PROVE  Apart(WithEntry(k, e))
<1> SUFFICES ASSUME NEW j \in Key
             PROVE  LET g == WithEntry(k, e)[j]
                    IN  /\ flushedAt[j] # Never => g.pkts = {}
                        /\ g.pkts # {} /\ doneAt[j] # Never => g.arrival - doneAt[j] > DedupTtl
  BY Zenon DEF Apart
<1>1. CASE j # k
  <2>1. WithEntry(k, e)[j] = groups[j]
    BY Zenon, <1>1, EntryTimes
  <2> QED BY Zenon, <2>1 DEF Apart
<1>2. CASE j = k
  <2>1. flushedAt[j] = Never
    BY Zenon, <1>2 DEF RecentlyFlushed
  <2>2. CASE groups[k].pkts = {}
    <3>1. WithEntry(k, e)[k].arrival = now
      BY Zenon, <2>2, EntryTimes
    <3> QED BY Zenon, <1>2, <2>1, <3>1 DEF Remembered
  <2>3. CASE groups[k].pkts # {}
    <3>1. WithEntry(k, e)[k].arrival = groups[k].arrival
      BY Zenon, <2>3, EntryTimes
    <3> QED BY Zenon, <1>2, <2>1, <2>3, <3>1 DEF Apart
  <2> QED BY Zenon, <2>2, <2>3
<1> QED BY Zenon, <1>1, <1>2

\* flush_group and drop_group, as far as time is concerned.
Ended(G, k) ==
  /\ groups' = Erase(G, k)
  /\ flushedAt' = [flushedAt EXCEPT ![k] = now]
  /\ doneAt' = [doneAt EXCEPT ![k] = now]

\* A group that ends is remembered.
LEMMA EndApart ==
  ASSUME TypeOK, NEW G \in Table, Apart(G), Remembered, NEW k \in Key, Ended(G, k), now' = now
  PROVE  Apart(groups)' /\ Remembered'
<1>0. now \in Nat /\ now # Never
  BY DEF TypeOK, Never
<1>1. \A j \in Key : IF j = k THEN flushedAt'[j] = now /\ doneAt'[j] = now
                              ELSE flushedAt'[j] = flushedAt[j] /\ doneAt'[j] = doneAt[j]
  BY Zenon DEF Ended, TypeOK
<1>2. /\ groups'[k].pkts = {}
      /\ \A j \in Key : j # k => groups'[j].arrival = G[j].arrival /\ groups'[j].pkts = G[j].pkts
  BY Zenon, EraseTable, EraseTimes DEF Ended
<1>3. Apart(groups)'
  BY Zenon, <1>1, <1>2 DEF Apart
<1>4. Remembered'
  BY Zenon, <1>0, <1>1 DEF Remembered
<1> QED BY Zenon, <1>3, <1>4

\* A step without a callback.
LEMMA QuietApart ==
  ASSUME Remembered, UNCHANGED <<flushedAt, doneAt, now>>, Apart(groups')
  PROVE  Apart(groups)' /\ Remembered'
BY Zenon DEF Remembered, Apart

-----------------------------------------------------------------------------
(* The steps. *)

TimeInv == AgeInv /\ Apart(groups) /\ Remembered

\* queue_packet.
LEMMA ReceiveTimes ==
  ASSUME TypeOK, TimeInv, NEW src \in Ssrc, NEW i \in Idx, NEW s \in Slot, Receive(src, i, s)
  PROVE  TimeInv'
<1> DEFINE e == EntryOf(i, s)
           k == <<src, TsOf[i]>>
           W == WithEntry(k, e)
<1>1. k \in Key /\ e \in Entry
  BY Zenon, StreamAssumption, StreamSeqs DEF Key, Entry, EntryOf
<1>2. groups \in Table /\ Clock /\ Timely(groups) /\ Apart(groups) /\ Remembered
  <2>1. pc = "poll"
    BY Zenon DEF Receive
  <2> QED BY Zenon, <2>1, AgeTimely DEF TimeInv, AgeInv, Clock, TypeOK, Table
<1>3. UNCHANGED <<now, lastEvict>>
  BY Zenon DEF Receive
<1>4. \/ QueueStale(k, e, Acquire(free, s))
      \/ QueueWait(k, e, Acquire(free, s))
      \/ QueueFlush(k, e, Acquire(free, s))
  BY Zenon DEF Receive, EntryOf
<1> HIDE DEF e, k
<1>5. W \in Table /\ Timely(W)
  <2>1. now \in Nat
    BY Zenon, <1>2 DEF Clock
  <2> QED BY Zenon, <1>1, <1>2, <2>1, EnqueueTable, EntryTimely
<1>6. ~RecentlyFlushed(k) => Apart(W)
  BY Zenon, <1>1, <1>2, EntryApart
<1>7. Timely(groups') => AgeInv'
  <2>1. (now - lastEvict \in 0 .. EvictPeriod)'
    BY Zenon, <1>2, <1>3 DEF Clock
  <2>2. Timely(groups') => Timely(groups)'
    BY Zenon, <1>3 DEF Timely, InTime, Unexpired, Unforgotten
  <2> QED BY Zenon, <2>1, <2>2, AgeTimely
<1>8. CASE QueueStale(k, e, Acquire(free, s))
  <2>1. groups' = groups /\ UNCHANGED <<flushedAt, doneAt>>
    BY Zenon, <1>8 DEF QueueStale, NoCallback
  <2> QED BY Zenon, <1>2, <1>3, <1>7, <2>1, QuietApart DEF TimeInv
<1>9. CASE QueueWait(k, e, Acquire(free, s))
  <2> DEFINE late == {j \in EarlierThan(W, k) : ~HasMarker(W[j]) /\ W[j].deadline = 0}
             A == Arm(W, late)
             mine == {j \in {k} : W[j].deadline = 0}
  <2>1. /\ ~RecentlyFlushed(k) /\ UNCHANGED <<flushedAt, doneAt>>
        /\ groups' = W \/ groups' = A \/ groups' = Arm(A, mine)
    BY Zenon, <1>9 DEF QueueWait, NoCallback
  <2>2. /\ now \in Nat /\ late \in SUBSET Key /\ mine \in SUBSET Key
        /\ \A j \in late \cup mine : j \in Live(W) => now - W[j].arrival <= PendingTtl + EvictPeriod
    <3>1. now \in Nat /\ late \in SUBSET Key /\ mine \in SUBSET Key
      BY Zenon, <1>1, <1>2 DEF Clock, EarlierThan, LiveOf, Live
    <3>2. \A j \in Live(W) : W[j].deadline = 0 => now - W[j].arrival <= PendingTtl + EvictPeriod
      BY Zenon, <1>5 DEF Timely, InTime
    <3> QED BY Zenon, <3>1, <3>2
  <2> HIDE DEF late, mine, W
  <2>3. A \in Table /\ Timely(A) /\ Apart(A)
    <3>1. \A j \in late : j \in Live(W) => now - W[j].arrival <= PendingTtl + EvictPeriod
      BY Zenon, <2>2
    <3> QED BY Zenon, <1>2, <1>5, <1>6, <2>1, <2>2, <3>1, ArmTable, ArmTimely, ArmApart
  <2>4. \A j \in mine : j \in Live(A) => now - A[j].arrival <= PendingTtl + EvictPeriod
    <3> SUFFICES ASSUME NEW j \in mine, j \in Live(A) PROVE now - A[j].arrival <= PendingTtl + EvictPeriod
      OBVIOUS
    <3>1. j \in Key /\ W \in Table /\ late \in SUBSET Key
      BY Zenon, <1>5, <2>2
    <3>2. A[j].arrival = W[j].arrival /\ A[j].pkts = W[j].pkts
      BY <3>1, ArmTimes
    <3>3. j \in Live(W)
      BY Zenon, <3>1, <3>2 DEF Live
    <3> QED BY Zenon, <2>2, <3>2, <3>3
  <2> HIDE DEF A
  <2>5. Timely(Arm(A, mine)) /\ Apart(Arm(A, mine))
    BY Zenon, <1>2, <2>2, <2>3, <2>4, ArmTimely, ArmApart
  <2>6. Timely(groups') /\ Apart(groups')
    BY Zenon, <1>5, <1>6, <2>1, <2>3, <2>5
  <2> QED BY Zenon, <1>2, <1>3, <1>7, <2>1, <2>6, QuietApart DEF TimeInv
<1>10. CASE QueueFlush(k, e, Acquire(free, s))
  <2>1. ~RecentlyFlushed(k) /\ Ended(W, k)
    BY Zenon, <1>10 DEF QueueFlush, FlushGroup, Ended
  <2>2. Timely(groups')
    BY Zenon, <1>1, <1>5, <2>1, EraseTimely DEF Ended
  <2> QED BY Zenon, <1>1, <1>2, <1>3, <1>5, <1>6, <1>7, <2>1, <2>2, EndApart DEF TimeInv
<1> QED BY Zenon, <1>4, <1>8, <1>9, <1>10

\* flush_ready.
LEMMA FlushReadyTimes ==
  ASSUME TypeOK, TimeInv, NEW src \in Ssrc, FlushReady(src)
  PROVE  TimeInv'
<1>1. groups \in Table /\ Clock /\ Timely(groups) /\ Apart(groups) /\ Remembered
  <2>1. pc \in {"queueReady", "evictReady"}
    BY Zenon DEF FlushReady
  <2> QED BY Zenon, <2>1, AgeTimely DEF TimeInv, AgeInv, Clock, TypeOK, Table
<1>2. UNCHANGED <<now, lastEvict>>
  BY Zenon DEF FlushReady
<1>3. Timely(groups') => AgeInv'
  <2>1. (now - lastEvict \in 0 .. EvictPeriod)'
    BY Zenon, <1>1, <1>2 DEF Clock
  <2>2. Timely(groups') => Timely(groups)'
    BY Zenon, <1>2 DEF Timely, InTime, Unexpired, Unforgotten
  <2> QED BY Zenon, <2>1, <2>2, AgeTimely
<1>4. CASE UNCHANGED groups /\ NoCallback
  BY Zenon, <1>1, <1>2, <1>3, <1>4, QuietApart DEF TimeInv, NoCallback
<1>5. ASSUME NEW k \in LiveOf(groups, src), FlushGroup(groups, free, k)
      PROVE  TimeInv'
  <2>1. k \in Key /\ Ended(groups, k)
    BY Zenon, <1>5 DEF LiveOf, Live, FlushGroup, Ended
  <2>2. Timely(groups')
    BY Zenon, <1>1, <2>1, EraseTimely DEF Ended
  <2> QED BY Zenon, <1>1, <1>2, <1>3, <2>1, <2>2, EndApart DEF TimeInv
<1>6. ASSUME NEW k \in LiveOf(groups, src), NoCallback,
             groups' = Arm(groups, {j \in {k} : groups[j].deadline = 0})
      PROVE  TimeInv'
  <2> DEFINE S == {j \in {k} : groups[j].deadline = 0}
  <2>1. S \in SUBSET Key
    BY Zenon, <1>6 DEF LiveOf, Live
  <2>2. \A j \in S : j \in Live(groups) => now - groups[j].arrival <= PendingTtl + EvictPeriod
    BY Zenon, <1>1 DEF Timely, InTime
  <2> HIDE DEF S
  <2>3. Timely(Arm(groups, S)) /\ Apart(Arm(groups, S))
    BY Zenon, <1>1, <2>1, <2>2, ArmTimely, ArmApart
  <2>4. groups' = Arm(groups, S) /\ UNCHANGED <<flushedAt, doneAt>>
    BY Zenon, <1>6 DEF S, NoCallback
  <2> QED BY Zenon, <1>1, <1>2, <1>3, <2>3, <2>4, QuietApart DEF TimeInv
<1> QED BY Zenon, <1>4, <1>5, <1>6 DEF FlushReady

\* evict_stale drops what is overdue and leaves the others alone.
LEMMA EvictDropTimes ==
  ASSUME TypeOK, TimeInv, EvictDrop
  PROVE  TimeInv'
<1>1. PICK k \in doomed : DropGroup(k) /\ doomed' = doomed \ {k}
  BY Zenon DEF EvictDrop
<1>2. k \in Key /\ Ended(groups, k) /\ groups \in Table /\ Clock /\ UNCHANGED <<now, lastEvict, pc>>
  BY Zenon, <1>1 DEF DropGroup, Ended, TypeOK, Table, EvictDrop, TimeInv, AgeInv, Clock
<1>3. Apart(groups)' /\ Remembered'
  BY Zenon, <1>2, EndApart DEF TimeInv
<1>4. \A j \in Live(groups') :
        /\ j # k /\ j \in Live(groups)
        /\ groups'[j].arrival = groups[j].arrival /\ groups'[j].deadline = groups[j].deadline
  <2> SUFFICES ASSUME NEW j \in Live(groups')
               PROVE  /\ j # k /\ j \in Live(groups)
                      /\ groups'[j].arrival = groups[j].arrival /\ groups'[j].deadline = groups[j].deadline
    OBVIOUS
  <2>1. j \in Key /\ j # k
    BY Zenon, <1>2, EraseTable DEF Live, Ended
  <2>2. /\ groups'[j].arrival = groups[j].arrival /\ groups'[j].deadline = groups[j].deadline
        /\ groups'[j].pkts = groups[j].pkts
    BY Zenon, <1>2, <2>1, EraseTimes DEF Ended
  <2> QED BY Zenon, <2>1, <2>2 DEF Live
<1>5. AgeInv'
  <2> SUFFICES ASSUME NEW j \in Live(groups')
               PROVE  /\ InTime(groups[j])'
                      /\ Unexpired(groups[j])' \/ (pc' = "dropExpired" /\ j \in doomed')
                      /\ Unforgotten(groups[j])' \/ pc' = "dropExpired" \/ (pc' = "dropTtl" /\ j \in doomed')
    BY Zenon, <1>2 DEF AgeInv, Clock, Live
  <2>1. j # k /\ j \in Live(groups) /\ groups'[j].arrival = groups[j].arrival
        /\ groups'[j].deadline = groups[j].deadline
    BY Zenon, <1>4
  <2>2. /\ InTime(groups[j])
        /\ Unexpired(groups[j]) \/ (pc = "dropExpired" /\ j \in doomed)
        /\ Unforgotten(groups[j]) \/ pc = "dropExpired" \/ (pc = "dropTtl" /\ j \in doomed)
    BY Zenon, <2>1 DEF TimeInv, AgeInv
  <2>3. (InTime(groups[j]) => InTime(groups[j])') /\ (Unexpired(groups[j]) => Unexpired(groups[j])')
        /\ (Unforgotten(groups[j]) => Unforgotten(groups[j])')
    BY Zenon, <1>2, <2>1 DEF InTime, Unexpired, Unforgotten
  <2> QED BY Zenon, <1>1, <1>2, <2>1, <2>2, <2>3
<1> QED BY Zenon, <1>3, <1>5 DEF TimeInv

\* The other steps of evict_stale, the clock, and what does not touch groups.
LEMMA OtherTimes ==
  ASSUME TypeOK, TimeInv,
         \/ QueueDone \/ EvictStart \/ EvictTtl \/ EvictUnblock \/ EvictDone \/ Tick \/ UNCHANGED vars
         \/ \E src \in Ssrc : DrainPendingNack(src)
  PROVE  TimeInv'
<1>0. /\ now \in Nat /\ lastEvict \in Nat /\ now - lastEvict \in 0 .. EvictPeriod /\ groups' = groups
      /\ \A k \in Live(groups) : groups[k].arrival \in Nat /\ groups[k].deadline \in Nat
      /\ flushedAt \in [Key -> Nat \cup {Never}] /\ doneAt \in [Key -> Nat \cup {Never}]
  <2>1. groups' = groups
    BY Zenon DEF QueueDone, EvictStart, EvictTtl, EvictUnblock, EvictDone, Tick, vars, asmVars, DrainPendingNack
  <2> QED BY Zenon, <2>1 DEF TimeInv, AgeInv, TypeOK, Live, Group
<1>1. ASSUME UNCHANGED <<now, lastEvict, pc, doomed, flushedAt, doneAt>> PROVE TimeInv'
  BY Zenon, <1>0, <1>1 DEF TimeInv, AgeInv, Apart, Remembered, InTime, Unexpired, Unforgotten, Live
<1>2. CASE UNCHANGED vars \/ \E src \in Ssrc : DrainPendingNack(src)
  BY Zenon, <1>1, <1>2 DEF vars, asmVars, DrainPendingNack
<1>3. ASSUME UNCHANGED <<now, flushedAt, doneAt>> PROVE Apart(groups)' /\ Remembered'
  BY Zenon, <1>0, <1>3 DEF TimeInv, Apart, Remembered
<1>4. CASE QueueDone
  <2>1. UNCHANGED <<now, flushedAt, doneAt, lastEvict>> /\ pc = "queueReady"
    BY Zenon, <1>4 DEF QueueDone, NoCallback
  <2>2. AgeInv'
    BY Zenon, <1>0, <2>1 DEF TimeInv, AgeInv, InTime, Unexpired, Unforgotten, Live
  <2> QED BY Zenon, <1>3, <2>1, <2>2 DEF TimeInv
<1>5. CASE EvictStart
  <2>1. UNCHANGED <<now, flushedAt, doneAt>> /\ lastEvict' = now /\ pc' = "dropExpired" /\ doomed' = Expired
    BY Zenon, <1>5 DEF EvictStart, NoCallback
  <2>2. \A k \in Live(groups) : k \in Expired \/ (groups[k].deadline # 0 => groups[k].deadline > now)
    BY <1>0 DEF Expired
  <2>3. AgeInv'
    BY <1>0, <2>1, <2>2, TimerAssumption DEF TimeInv, AgeInv, InTime, Unexpired, Live
  <2> QED BY Zenon, <1>3, <2>1, <2>3 DEF TimeInv
<1>6. CASE EvictTtl
  <2>1. /\ UNCHANGED <<now, flushedAt, doneAt, lastEvict>> /\ pc' = "dropTtl" /\ doomed' = Forgotten
        /\ doomed = {}
    BY Zenon, <1>6 DEF EvictTtl, NoCallback
  <2>2. \A k \in Live(groups) :
          k \in Forgotten \/ (groups[k].deadline = 0 => lastEvict - groups[k].arrival <= PendingTtl)
    BY <1>0, TimerAssumption DEF Forgotten
  <2>3. AgeInv'
    BY Zenon, <1>0, <2>1, <2>2 DEF TimeInv, AgeInv, InTime, Unexpired, Unforgotten, Live
  <2> QED BY Zenon, <1>3, <2>1, <2>3 DEF TimeInv
<1>7. CASE EvictUnblock
  <2>1. UNCHANGED <<now, flushedAt, doneAt, lastEvict>> /\ pc = "dropTtl" /\ doomed = {}
    BY Zenon, <1>7 DEF EvictUnblock, NoCallback
  <2>2. AgeInv'
    BY Zenon, <1>0, <2>1 DEF TimeInv, AgeInv, InTime, Unexpired, Unforgotten, Live
  <2> QED BY Zenon, <1>3, <2>1, <2>2 DEF TimeInv
<1>8. CASE EvictDone
  <2>1. /\ UNCHANGED <<now, doneAt, lastEvict>> /\ pc = "evictReady"
        /\ flushedAt' = [k \in Key |-> IF DedupOver(k) THEN Never ELSE flushedAt[k]]
    BY Zenon, <1>8 DEF EvictDone
  <2>2. AgeInv'
    BY Zenon, <1>0, <2>1 DEF TimeInv, AgeInv, InTime, Unexpired, Unforgotten, Live
  <2>3. \A k \in Key : flushedAt'[k] = flushedAt[k] \/ (flushedAt'[k] = Never /\ now - flushedAt[k] > DedupTtl)
    BY Zenon, <2>1 DEF DedupOver
  <2>4. Apart(groups)'
    BY Zenon, <1>0, <2>1, <2>3 DEF TimeInv, Apart
  <2>5. Remembered'
    BY Zenon, <2>1, <2>3 DEF TimeInv, Remembered
  <2> QED BY Zenon, <2>2, <2>4, <2>5 DEF TimeInv
<1>9. CASE Tick
  <2>1. /\ UNCHANGED <<flushedAt, doneAt, lastEvict, pc>> /\ pc = "poll"
        /\ now' = now + 1 /\ now - lastEvict < EvictPeriod
    BY Zenon, <1>9 DEF Tick, asmVars
  <2>2. AgeInv'
    BY <1>0, <2>1, TimerAssumption DEF TimeInv, AgeInv, InTime, Unexpired, Unforgotten, Live
  <2>3. Apart(groups)'
    BY Zenon, <1>0, <2>1 DEF TimeInv, Apart
  <2>4. Remembered'
    BY <1>0, <2>1, TimerAssumption DEF TimeInv, Remembered
  <2> QED BY Zenon, <2>2, <2>3, <2>4 DEF TimeInv
<1> QED BY Zenon, <1>2, <1>4, <1>5, <1>6, <1>7, <1>8, <1>9

\* A unit that was flushed or dropped is not begun again by late or repeated packets within
\* DedupTtl, and no group outlives its timers by more than it takes evict_stale to come round.
THEOREM UnitsEnd == Spec => []EndsOnceInTime
<1>1. Init => TimeInv
  <2> SUFFICES ASSUME Init PROVE TimeInv
    OBVIOUS
  <2>1. Live(groups) = {} /\ now = 0 /\ lastEvict = 0
    BY Zenon DEF Init, Live, NoGroup
  <2>2. AgeInv
    BY <2>1, TimerAssumption DEF AgeInv
  <2>3. Apart(groups) /\ Remembered
    BY Zenon DEF Init, Apart, Remembered, NoGroup
  <2> QED BY Zenon, <2>2, <2>3 DEF TimeInv
<1>2. TypeOK /\ TimeInv /\ [Next]_vars => TimeInv'
  BY Zenon, ReceiveTimes, FlushReadyTimes, EvictDropTimes, OtherTimes DEF Next
<1>3. TypeOK /\ TimeInv => EndsOnceInTime
  <2> SUFFICES ASSUME TypeOK, TimeInv, NEW k \in Live(groups)
               PROVE  /\ doneAt[k] # Never => groups[k].arrival - doneAt[k] > DedupTtl
                      /\ now - groups[k].arrival <= PendingTtl + RepairWait + 2 * EvictPeriod - 1
    BY Zenon DEF EndsOnceInTime, EndsOnce, BoundedAge
  <2>1. k \in Key /\ groups[k].pkts # {} /\ groups[k].arrival \in Nat /\ groups[k].deadline \in Nat /\ now \in Nat
    BY Zenon DEF Live, TypeOK, Group
  <2>2. InTime(groups[k])
    BY Zenon DEF TimeInv, AgeInv
  <2>3. now - groups[k].arrival <= PendingTtl + RepairWait + 2 * EvictPeriod - 1
    BY <2>1, <2>2, TimerAssumption DEF InTime
  <2> QED BY Zenon, <2>1, <2>3 DEF TimeInv, Apart
<1> QED BY <1>1, <1>2, <1>3, TypeCorrect, PTL DEF Spec

=============================================================================
