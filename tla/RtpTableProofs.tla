--------------------------- MODULE RtpTableProofs ----------------------------
(***************************************************************************)
(* Lemmas about the operators RtpAssembler is built from, for any number   *)
(* of SSRCs, slots and packets: uint16_t sequence numbers, the table of    *)
(* groups, the slots of the PacketPool, queue_packet and group_complete.   *)
(* RtpAssemblerProofs builds on them.                                      *)
(***************************************************************************)
EXTENDS RtpAssembler, FiniteSetTheorems, TLAPS

(* A set of naturals that is not empty has a least element. *)
LEMMA LeastElement ==
  ASSUME NEW T \in SUBSET Nat, T # {}
  PROVE  \E m \in T : \A t \in T : m <= t
<1> DEFINE R == {ss \in Nat \X Nat : ss[1] < ss[2]}
<1>1. IsWellFoundedOn(R, Nat)
  BY Zenon, NatLessThanWellFounded DEF OpToRel
<1>2. PICK m \in T : \A t \in T : ~(<<t, m>> \in R)
  <2> HIDE DEF R
  <2> QED
    BY Zenon, <1>1, WFMin
<1>3. \A t \in T : m <= t
  <2> SUFFICES ASSUME NEW t \in T PROVE m <= t
    OBVIOUS
  <2>1. <<t, m>> \in Nat \X Nat
    OBVIOUS
  <2>2. ~(t < m)
    BY Zenon, <2>1, <1>2
  <2> QED
    BY <2>2
<1> QED
  BY Zenon, <1>3

(* uint16_t arithmetic stays in range. *)
LEMMA SeqArithmetic ==
  /\ \A q \in SeqNo, n \in 0 .. SeqMod : Plus(q, n) \in SeqNo
  /\ \A a, b \in SeqNo : Minus(a, b) \in SeqNo
  /\ \A a, b \in SeqNo : Minus(a, b) = 0 <=> a = b
BY SeqAssumption DEF SeqNo, Plus, Minus

(* Sequence numbers of the stream: each index has one of its own, and the  *)
(* successor of a packet's number is the next packet's.                    *)
LEMMA StreamSeqs ==
  /\ \A i \in Idx \cup {NumPkts} : SeqOf(i) \in SeqNo /\ IdxOf(SeqOf(i)) = i
  /\ \A i, j \in Idx \cup {NumPkts} : SeqOf(i) = SeqOf(j) => i = j
  /\ \A i \in Idx : Plus(SeqOf(i), 1) = SeqOf(i + 1) /\ i + 1 \in Idx \cup {NumPkts}
BY SeqAssumption DEF SeqNo, Idx, SeqOf, IdxOf, Plus, Minus

\* The least and the greatest sequence number of a set are of the set.
LEMMA MinMaxIn ==
  ASSUME NEW S \in SUBSET SeqNo, S # {}
  PROVE  Min(S) \in S /\ Max(S) \in S
<1>1. S \in SUBSET Nat
  BY SeqAssumption DEF SeqNo
<1>2. \E m \in S : \A t \in S : m <= t
  BY Zenon, <1>1, LeastElement
<1> DEFINE T == {SeqMod - q : q \in S}
<1>3. T \in SUBSET Nat /\ T # {}
  <2>1. \A q \in S : SeqMod - q \in Nat
    BY SeqAssumption DEF SeqNo
  <2> QED
    BY Zenon, <2>1
<1>4. PICK m \in T : \A t \in T : m <= t
  BY Zenon, <1>3, LeastElement
<1>5. PICK q \in S : m = SeqMod - q
  BY Zenon, <1>4
<1>6. \A t \in S : q >= t
  <2> SUFFICES ASSUME NEW t \in S PROVE q >= t
    OBVIOUS
  <2>1. SeqMod - q <= SeqMod - t
    BY Zenon, <1>4, <1>5
  <2> QED
    BY <2>1, SeqAssumption DEF SeqNo
<1>7. \E x \in S : \A y \in S : x >= y
  BY Zenon, <1>6
<1> QED
  BY Zenon, <1>2, <1>7 DEF Min, Max

\* The number that follows q among those of S is another one of S.
LEMMA NextSeqIn ==
  ASSUME NEW S \in SUBSET SeqNo, NEW q \in SeqNo, S \ {q} # {}
  PROVE  NextSeq(S, q) \in S \ {q}
<1> DEFINE T == {Minus(r, q) : r \in S \ {q}}
<1>1. T \in SUBSET Nat /\ T # {}
  <2>1. \A r \in S : Minus(r, q) \in Nat
    BY SeqAssumption DEF SeqNo, Minus
  <2> QED
    BY Zenon, <2>1
<1>2. PICK m \in T : \A t \in T : m <= t
  BY Zenon, <1>1, LeastElement
<1>3. PICK r \in S \ {q} : m = Minus(r, q)
  BY Zenon, <1>2
<1>4. \A t \in S \ {q} : Minus(r, q) <= Minus(t, q)
  BY Zenon, <1>2, <1>3
<1> QED
  BY Zenon, <1>4 DEF NextSeq

(* The front of a group is one of its packets. *)
LEMMA FrontSeqIn ==
  ASSUME NEW S \in SUBSET SeqNo, S # {}
  PROVE  FrontSeq(S) \in S
<1> DEFINE gap(q) == Minus(NextSeq(S, q), q)
           widest == {q \in S : \A t \in S : gap(t) <= gap(q)}
<1>1. CASE Cardinality(S) < 2 \/ Max(S) - Min(S) <= Half
  BY Zenon, <1>1, MinMaxIn DEF FrontSeq
<1>2. CASE ~(Cardinality(S) < 2 \/ Max(S) - Min(S) <= Half)
  <2>1. \A q \in S : S \ {q} # {}
    <3>1. SUFFICES ASSUME NEW q \in S, S = {q} PROVE FALSE
      OBVIOUS
    <3>2. Cardinality(S) = 1
      BY Zenon, <3>1, FS_Singleton
    <3> QED
      BY <1>2, <3>2
  <2>2. \A q \in S : NextSeq(S, q) \in S
    BY Zenon, <2>1, NextSeqIn
  <2>3. \A q \in S : gap(q) \in SeqNo
    BY Zenon, <2>2, SeqArithmetic
  <2> DEFINE T == {SeqMod - gap(q) : q \in S}
  <2>4. T \in SUBSET Nat /\ T # {}
    <3>1. ASSUME NEW g \in SeqNo PROVE SeqMod - g \in Nat
      BY SeqAssumption DEF SeqNo
    <3> QED BY Zenon, <2>3, <3>1
  <2>5. PICK m \in T : \A t \in T : m <= t
    BY Zenon, <2>4, LeastElement
  <2>6. PICK q \in S : m = SeqMod - gap(q)
    BY Zenon, <2>5
  <2>7. \A t \in S : gap(t) <= gap(q)
    <3> SUFFICES ASSUME NEW t \in S PROVE gap(t) <= gap(q)
      OBVIOUS
    <3>1. SeqMod - gap(q) <= SeqMod - gap(t)
      BY Zenon, <2>5, <2>6
    <3>2. gap(q) \in Int /\ gap(t) \in Int /\ SeqMod \in Int
      BY <2>3, SeqAssumption DEF SeqNo
    <3> HIDE DEF gap
    <3> QED
      BY <3>1, <3>2
  <2>8. widest \in SUBSET SeqNo /\ widest # {}
    BY Zenon, <2>7
  <2>9. Max(widest) \in S
    BY Zenon, <2>8, MinMaxIn
  <2> QED
    BY Zenon, <1>2, <2>2, <2>9 DEF FrontSeq
<1> QED
  BY Zenon, <1>1, <1>2

\* The place of a packet in its group, counted from the front, is a uint16_t.
LEMMA OffsetType ==
  ASSUME NEW S \in SUBSET SeqNo, S # {}, NEW q \in SeqNo
  PROVE  Offset(S, q) \in SeqNo
BY Zenon, FrontSeqIn, SeqArithmetic DEF Offset

-----------------------------------------------------------------------------
(* The group table. *)

Table == [Key -> Group]

(* The packets of a group are packets of its access unit, each once. *)
StreamOK(G) ==
  \A k \in Key : \A e \in G[k].pkts :
    /\ \E i \in Idx : TsOf[i] = k[2] /\ e.seq = SeqOf(i) /\ e.marker = (TsOf[i] = i)
    /\ \A f \in G[k].pkts : e.seq = f.seq => e = f

\* There are finitely many groups.
LEMMA KeyFinite ==
  /\ IsFiniteSet(Key)
  /\ \A S \in SUBSET Key : IsFiniteSet(S) /\ Cardinality(S) \in Nat
<1>1. IsFiniteSet(Idx)
  BY FS_Interval, SeqAssumption DEF Idx
<1>2. IsFiniteSet(Key)
  BY Zenon, <1>1, SsrcAssumption, FS_Product DEF Key
<1> QED
  BY Zenon, <1>2, FS_Subset, FS_CardinalityType

\* A group that does not exist has no packets.
LEMMA NoGroupType == NoGroup \in Group /\ NoGroup.pkts = {}
BY Zenon DEF NoGroup, Group

(* Arming a deadline leaves every group's packets alone. *)
LEMMA ArmTable ==
  ASSUME NEW G \in Table, NEW S \in SUBSET Key, now \in Nat
  PROVE  Arm(G, S) \in Table /\ \A k \in Key : Arm(G, S)[k].pkts = G[k].pkts
<1> DEFINE armed == Cardinality({k \in Key : G[k].armNo # 0})
           rank(k) == armed + 1 + Cardinality({j \in S : Before(G, j, k)})
           A(k) == IF k \in S THEN [G[k] EXCEPT !.deadline = now + RepairWait, !.armNo = rank(k)] ELSE G[k]
<1>1. \A k \in Key : rank(k) \in Nat
  <2> SUFFICES ASSUME NEW k \in Key PROVE rank(k) \in Nat
    OBVIOUS
  <2>1. armed \in Nat
    BY Zenon, KeyFinite
  <2>2. {j \in S : Before(G, j, k)} \in SUBSET Key
    OBVIOUS
  <2>3. Cardinality({j \in S : Before(G, j, k)}) \in Nat
    BY Zenon, <2>2, KeyFinite
  <2> QED
    BY <2>1, <2>3
<1>2. Arm(G, S) = [k \in Key |-> A(k)]
  BY Zenon DEF Arm
<1>3. \A k \in Key : A(k) \in Group /\ A(k).pkts = G[k].pkts
  <2> SUFFICES ASSUME NEW k \in Key PROVE A(k) \in Group /\ A(k).pkts = G[k].pkts
    BY Zenon
  <2>1. G[k] \in Group
    BY Zenon DEF Table
  <2>2. rank(k) \in Nat /\ now + RepairWait \in Nat
    BY <1>1, TimerAssumption
  <2> HIDE DEF rank
  <2> QED
    BY Zenon, <2>1, <2>2 DEF Group
<1> HIDE DEF A
<1> QED
  BY Zenon, <1>2, <1>3 DEF Table

(* Erasing a group leaves the packets of all others alone. *)
LEMMA EraseTable ==
  ASSUME NEW G \in Table, NEW k \in Key
  PROVE  /\ Erase(G, k) \in Table
         /\ Erase(G, k)[k].pkts = {}
         /\ \A j \in Key : j # k => Erase(G, k)[j].pkts = G[j].pkts
<1> DEFINE n(j) == IF G[j].no > G[k].no THEN G[j].no - 1 ELSE G[j].no
           a(j) == IF G[k].armNo # 0 /\ G[j].armNo > G[k].armNo THEN G[j].armNo - 1 ELSE G[j].armNo
           E(j) == [G[j] EXCEPT !.no = n(j), !.armNo = a(j)]
<1>1. \A j \in Key : E(j) \in Group /\ E(j).pkts = G[j].pkts
  <2> SUFFICES ASSUME NEW j \in Key PROVE E(j) \in Group /\ E(j).pkts = G[j].pkts
    BY Zenon
  <2>1. G[j] \in Group /\ G[k] \in Group
    BY Zenon DEF Table
  <2>2. n(j) \in Nat /\ a(j) \in Nat
    BY <2>1 DEF Group
  <2> HIDE DEF n, a
  <2> QED
    BY Zenon, <2>1, <2>2 DEF Group
<1>2. Erase(G, k) = [j \in Key |-> IF j = k THEN NoGroup ELSE E(j)]
  BY Zenon DEF Erase
<1> HIDE DEF E
<1> QED
  BY Zenon, <1>1, <1>2, NoGroupType DEF Table

(* The marker of a group is the last packet of its access unit. *)
LEMMA MarkerOfUnit ==
  ASSUME NEW G \in Table, StreamOK(G), NEW k \in Key, HasMarker(G[k])
  PROVE  k[2] \in Idx /\ MarkerSeq(G[k]) = SeqOf(k[2])
<1> DEFINE marked == {e \in G[k].pkts : e.marker}
           S == Seqs(G[k])
<1>1. k[2] \in Idx
  BY Zenon DEF Key
<1>2. \A e \in marked : e.seq = SeqOf(k[2])
  <2> SUFFICES ASSUME NEW e \in marked PROVE e.seq = SeqOf(k[2])
    OBVIOUS
  <2>1. PICK i \in Idx : TsOf[i] = k[2] /\ e.seq = SeqOf(i) /\ e.marker = (TsOf[i] = i)
    BY Zenon DEF StreamOK
  <2>2. e.marker
    OBVIOUS
  <2>3. TsOf[i] = i
    BY Zenon, <2>1, <2>2
  <2> QED
    BY Zenon, <2>1, <2>3
<1>3. marked # {}
  BY Zenon DEF HasMarker
<1>4. G[k].pkts \in SUBSET Entry
  BY Zenon DEF Table, Group
<1>5. S \in SUBSET SeqNo /\ S # {}
  BY <1>3, <1>4 DEF Seqs, Entry
<1>6. \A e \in marked : Offset(S, e.seq) \in Int
  <2> SUFFICES ASSUME NEW e \in marked PROVE Offset(S, e.seq) \in Int
    OBVIOUS
  <2>1. e.seq \in SeqNo
    BY Zenon, <1>4 DEF Entry
  <2> HIDE DEF S
  <2> QED
    BY <1>5, <2>1, OffsetType, SeqAssumption DEF SeqNo
<1>7. \A e, f \in marked : Offset(S, f.seq) <= Offset(S, e.seq)
  BY <1>2, <1>6
<1> DEFINE P(e) == \A f \in marked : Offset(S, f.seq) <= Offset(S, e.seq)
<1>8. (CHOOSE e \in marked : P(e)) \in marked
  BY Zenon, <1>3, <1>7
<1>9. MarkerSeq(G[k]) = (CHOOSE e \in marked : P(e)).seq
  BY Zenon DEF MarkerSeq
<1> HIDE DEF P
<1> QED
  BY Zenon, <1>1, <1>2, <1>8, <1>9

-----------------------------------------------------------------------------
(* Slots. *)

(* Only the packets of the groups matter to slots and stream. *)
LEMMA SamePackets ==
  ASSUME NEW G \in Table, NEW H \in Table, NEW pool, \A k \in Key : H[k].pkts = G[k].pkts
  PROVE  /\ Accounted(pool, G) => Accounted(pool, H)
         /\ StreamOK(G) => StreamOK(H)
BY DEF Accounted, StreamOK

(* A slot taken for a packet that is not kept goes back. *)
LEMMA TakeAndReturn ==
  ASSUME NEW pool \in [Slot -> Int], NEW e \in Entry
  PROVE  Release(Acquire(pool, e.slot), {e}) = pool
<1> DEFINE own(s) == {f \in {e} : f.slot = s}
<1>1. e.slot \in Slot
  BY Zenon DEF Entry
<1>2. \A s \in Slot : Cardinality(own(s)) = IF s = e.slot THEN 1 ELSE 0
  <2> SUFFICES ASSUME NEW s \in Slot PROVE Cardinality(own(s)) = IF s = e.slot THEN 1 ELSE 0
    OBVIOUS
  <2>1. CASE s = e.slot
    <3>1. own(s) = {e}
      BY Zenon, <2>1
    <3> QED
      BY Zenon, <2>1, <3>1, FS_Singleton
  <2>2. CASE s # e.slot
    <3>1. own(s) = {}
      BY Zenon, <2>2
    <3> QED
      BY Zenon, <2>2, <3>1, FS_EmptySet
  <2> QED
    BY Zenon, <2>1, <2>2
<1>3. Release(Acquire(pool, e.slot), {e}) = [s \in Slot |-> Acquire(pool, e.slot)[s] + Cardinality(own(s))]
  BY Zenon DEF Release
<1> HIDE DEF own
<1>4. \A s \in Slot : Acquire(pool, e.slot)[s] + Cardinality(own(s)) = pool[s]
  BY <1>1, <1>2 DEF Acquire
<1> QED
  BY Zenon, <1>3, <1>4

(* A packet put into a group takes its slot out of the pool. *)
LEMMA InsertAccounted ==
  ASSUME NEW pool \in [Slot -> Int], NEW G \in Table, NEW H \in Table, NEW k \in Key, NEW e \in Entry,
         Accounted(pool, G), pool[e.slot] > 0,
         H[k].pkts = G[k].pkts \cup {e},
         \A j \in Key : j # k => H[j].pkts = G[j].pkts
  PROVE  Accounted(Acquire(pool, e.slot), H)
<1> DEFINE p == Acquire(pool, e.slot)
<1>1. e.slot \in Slot /\ pool[e.slot] = 1
  BY DEF Entry, Accounted
<1>2. \A s \in Slot : p[s] = IF s = e.slot THEN 0 ELSE pool[s]
  BY <1>1 DEF Acquire
<1>3. \A j \in Key : \A f \in G[j].pkts : f.slot # e.slot
  BY <1>1 DEF Accounted
<1>4. \A j \in Key : \A f \in H[j].pkts : f \in G[j].pkts \/ (j = k /\ f = e)
  OBVIOUS
<1>5. \A j \in Key : \A f \in G[j].pkts : f \in H[j].pkts
  OBVIOUS
<1>6. e \in H[k].pkts
  OBVIOUS
<1> HIDE DEF p
<1>7. \A s \in Slot : p[s] \in {0, 1}
  BY Zenon, <1>2 DEF Accounted
<1>8. \A s \in Slot : p[s] = 0 <=> \E j \in Key : \E f \in H[j].pkts : f.slot = s
  <2> SUFFICES ASSUME NEW s \in Slot PROVE p[s] = 0 <=> \E j \in Key : \E f \in H[j].pkts : f.slot = s
    OBVIOUS
  <2>1. CASE s = e.slot
    BY Zenon, <2>1, <1>2, <1>6
  <2>2. CASE s # e.slot
    BY <2>2, <1>2, <1>4, <1>5 DEF Accounted
  <2> QED
    BY Zenon, <2>1, <2>2
<1>9. \A j, l \in Key : \A f \in H[j].pkts, g \in H[l].pkts : f.slot = g.slot => j = l /\ f = g
  BY <1>3, <1>4 DEF Accounted
<1> QED
  BY Zenon, <1>7, <1>8, <1>9 DEF Accounted, p

(* Releasing and erasing a group keeps every slot accounted for. *)
LEMMA ReleaseAccounted ==
  ASSUME NEW pool \in [Slot -> Int], NEW G \in Table, NEW k \in Key, Accounted(pool, G)
  PROVE  /\ Release(pool, G[k].pkts) \in [Slot -> Int]
         /\ Accounted(Release(pool, G[k].pkts), Erase(G, k))
<1> DEFINE own(s) == {e \in G[k].pkts : e.slot = s}
           r == Release(pool, G[k].pkts)
           H == Erase(G, k)
<1>1. \A s \in Slot : IF own(s) = {} THEN Cardinality(own(s)) = 0 ELSE Cardinality(own(s)) = 1
  <2> SUFFICES ASSUME NEW s \in Slot, NEW e \in own(s) PROVE Cardinality(own(s)) = 1
    BY Zenon, FS_EmptySet
  <2>1. own(s) = {e}
    BY DEF Accounted
  <2> QED
    BY Zenon, <2>1, FS_Singleton
<1>2. r = [s \in Slot |-> pool[s] + Cardinality(own(s))]
  BY Zenon DEF Release
<1>3. \A s \in Slot : own(s) # {} => pool[s] = 0
  BY DEF Accounted
<1>4. \A s \in Slot : pool[s] \in {0, 1}
  BY Zenon DEF Accounted
<1> HIDE DEF own
<1>5. r \in [Slot -> Int] /\ \A s \in Slot : r[s] = IF own(s) # {} THEN 1 ELSE pool[s]
  BY <1>1, <1>2, <1>3
<1>6. H[k].pkts = {} /\ \A j \in Key : j # k => H[j].pkts = G[j].pkts
  BY Zenon, EraseTable
<1> HIDE DEF r, H
<1>7. \A s \in Slot : r[s] \in {0, 1}
  BY Zenon, <1>4, <1>5
<1>8. \A s \in Slot : r[s] = 0 <=> \E j \in Key : \E f \in H[j].pkts : f.slot = s
  <2> SUFFICES ASSUME NEW s \in Slot PROVE r[s] = 0 <=> \E j \in Key : \E f \in H[j].pkts : f.slot = s
    OBVIOUS
  <2>1. CASE own(s) # {}
    <3>1. PICK e \in G[k].pkts : e.slot = s
      BY Zenon, <2>1 DEF own
    <3>2. \A j \in Key : \A f \in H[j].pkts : f.slot # s
      BY <3>1, <1>6 DEF Accounted
    <3> QED
      BY <2>1, <3>2, <1>5
  <2>2. CASE own(s) = {}
    <3>1. \A f \in G[k].pkts : f.slot # s
      BY Zenon, <2>2 DEF own
    <3>2. (\E j \in Key : \E f \in H[j].pkts : f.slot = s) <=> (\E j \in Key : \E f \in G[j].pkts : f.slot = s)
      BY Zenon, <3>1, <1>6
    <3> QED
      BY Zenon, <2>2, <3>2, <1>5 DEF Accounted
  <2> QED
    BY Zenon, <2>1, <2>2
<1>9. \A j, l \in Key : \A f \in H[j].pkts, g \in H[l].pkts : f.slot = g.slot => j = l /\ f = g
  BY <1>6 DEF Accounted
<1> QED
  BY Zenon, <1>5, <1>7, <1>8, <1>9 DEF Accounted, r, H

\* Erasing a group leaves every other packet the one of the stream it was.
LEMMA EraseStream ==
  ASSUME NEW G \in Table, NEW k \in Key, StreamOK(G)
  PROVE  StreamOK(Erase(G, k))
<1>1. \A j \in Key : \A e \in Erase(G, k)[j].pkts : e \in G[j].pkts
  BY EraseTable
<1> QED
  BY Zenon, <1>1 DEF StreamOK

-----------------------------------------------------------------------------
(* queue_packet and group_complete. *)

(* What packet i of src looks like in slot s. *)
EntryOf(i, s) == [seq |-> SeqOf(i), marker |-> TsOf[i] = i, slot |-> s]

PoolAfter(k, e) == IF IsDup(k, e) THEN Release(Acquire(free, e.slot), {e}) ELSE Acquire(free, e.slot)

\* enqueue puts the packet into its group and leaves the others alone.
LEMMA EnqueueTable ==
  ASSUME groups \in Table, now \in Nat, NEW k \in Key, NEW e \in Entry
  PROVE  /\ WithEntry(k, e) \in Table
         /\ \A j \in Key : j # k => WithEntry(k, e)[j].pkts = groups[j].pkts
         /\ WithEntry(k, e)[k].pkts = IF IsDup(k, e) THEN groups[k].pkts ELSE groups[k].pkts \cup {e}
<1> DEFINE n == Cardinality(Live(groups)) + 1
           fresh == [NoGroup EXCEPT !.pkts = {e}, !.arrival = now, !.no = n]
           more == [groups[k] EXCEPT !.pkts = groups[k].pkts \cup {e}]
           g == IF groups[k].pkts = {} THEN fresh ELSE IF IsDup(k, e) THEN groups[k] ELSE more
<1>1. n \in Nat
  BY KeyFinite DEF Live
<1>2. groups[k] \in Group
  BY Zenon DEF Table
<1>3. fresh \in Group /\ fresh.pkts = {e}
  <2> HIDE DEF n
  <2> QED
    BY Zenon, <1>1 DEF Group, NoGroup
<1>4. more \in Group /\ more.pkts = groups[k].pkts \cup {e}
  BY Zenon, <1>2 DEF Group
<1>5. WithEntry(k, e) = [groups EXCEPT ![k] = g]
  BY Zenon DEF WithEntry
<1>6. groups[k].pkts = {} => ~IsDup(k, e)
  BY Zenon DEF IsDup
<1> HIDE DEF fresh, more
<1>7. g \in Group /\ g.pkts = IF IsDup(k, e) THEN groups[k].pkts ELSE groups[k].pkts \cup {e}
  BY Zenon, <1>2, <1>3, <1>4, <1>6
<1> HIDE DEF g
<1> QED
  BY Zenon, <1>5, <1>7 DEF Table

\* enqueue keeps slots and packets accounted for.
LEMMA Enqueue ==
  ASSUME TypeOK, SlotsConserved, StreamOK(groups),
         NEW src \in Ssrc, NEW i \in Idx, NEW s \in Slot, free[s] > 0,
         NEW k, k = <<src, TsOf[i]>>, NEW e, e = EntryOf(i, s)
  PROVE  /\ k \in Key /\ e \in Entry
         /\ WithEntry(k, e) \in Table
         /\ PoolAfter(k, e) \in [Slot -> Int]
         /\ Accounted(PoolAfter(k, e), WithEntry(k, e))
         /\ StreamOK(WithEntry(k, e))
<1> DEFINE W == WithEntry(k, e)
<1>1. k \in Key /\ k[2] = TsOf[i]
  BY Zenon, StreamAssumption DEF Key
<1>2. e \in Entry /\ e.slot = s /\ e.seq = SeqOf(i) /\ e.marker = (TsOf[i] = i)
  BY Zenon, StreamSeqs DEF EntryOf, Entry
<1>3. groups \in Table /\ free \in [Slot -> Int] /\ now \in Nat
  BY Zenon DEF TypeOK, Table
<1>4. /\ W \in Table
      /\ \A j \in Key : j # k => W[j].pkts = groups[j].pkts
      /\ W[k].pkts = IF IsDup(k, e) THEN groups[k].pkts ELSE groups[k].pkts \cup {e}
  BY Zenon, <1>1, <1>2, <1>3, EnqueueTable
<1> HIDE DEF W
<1>5. CASE IsDup(k, e)
  <2>1. \A j \in Key : W[j].pkts = groups[j].pkts
    BY Zenon, <1>4, <1>5
  <2>2. PoolAfter(k, e) = free
    BY Zenon, <1>2, <1>3, <1>5, TakeAndReturn DEF PoolAfter
  <2>3. Accounted(free, W) /\ StreamOK(W)
    BY Zenon, <1>3, <1>4, <2>1, SamePackets DEF SlotsConserved
  <2> QED
    BY Zenon, <1>1, <1>2, <1>3, <1>4, <2>2, <2>3 DEF W
<1>6. CASE ~IsDup(k, e)
  <2>1. PoolAfter(k, e) = Acquire(free, e.slot)
    BY Zenon, <1>6 DEF PoolAfter
  <2>2. Accounted(Acquire(free, e.slot), W)
    BY <1>1, <1>2, <1>3, <1>4, <1>6, InsertAccounted DEF SlotsConserved
  <2>3. Acquire(free, e.slot) \in [Slot -> Int]
    BY <1>2, <1>3 DEF Acquire
  <2>4. \A f \in groups[k].pkts : f.seq # e.seq
    BY Zenon, <1>6 DEF IsDup
  <2>5. StreamOK(W)
    BY <1>1, <1>2, <1>4, <1>6, <2>4 DEF StreamOK
  <2> QED
    BY Zenon, <1>1, <1>2, <1>4, <2>1, <2>2, <2>3, <2>5 DEF W
<1> QED
  BY Zenon, <1>5, <1>6

(* A complete group that continues after packet m is its whole unit. *)
LEMMA CompleteIsWhole ==
  ASSUME NEW G \in Table, StreamOK(G), NEW k \in Key, NEW m \in Idx,
         TsOf[m] = m, Complete(G[k], SeqOf(m))
  PROVE  Seqs(G[k]) = AuSeqs(k[2]) /\ SeqOf(m + 1) \in Seqs(G[k])
<1> DEFINE S == Seqs(G[k])
           U == {i \in Idx : TsOf[i] = k[2]}
<1>1. \A e \in G[k].pkts : \E i \in U : e.seq = SeqOf(i) /\ e.marker = (TsOf[i] = i)
  BY DEF StreamOK
<1>2. S \subseteq AuSeqs(k[2])
  BY Zenon, <1>1 DEF Seqs, AuSeqs
<1>3. PICK f \in G[k].pkts : f.seq = Plus(SeqOf(m), 1)
  BY StreamSeqs, SeqAssumption DEF Complete, SeqNo, Never
<1>4. PICK a \in U : f.seq = SeqOf(a)
  BY Zenon, <1>1, <1>3
<1>5. a = m + 1 /\ SeqOf(a) \in S
  BY <1>3, <1>4, StreamSeqs DEF Seqs
<1>6. PICK b \in G[k].pkts : b.marker /\ IsBack(S, b.seq)
  BY Zenon DEF Complete
<1>7. b.seq = SeqOf(k[2]) /\ k[2] \in U
  <2>1. PICK i \in U : b.seq = SeqOf(i) /\ b.marker = (TsOf[i] = i)
    BY Zenon, <1>1
  <2>2. TsOf[i] = i
    BY Zenon, <1>6, <2>1
  <2> QED
    BY Zenon, <2>1, <2>2
<1>8. G[k].pkts \in SUBSET Entry
  BY Zenon DEF Table, Group
<1>9. S \in SUBSET SeqNo /\ S # {}
  BY <1>5, <1>8 DEF Seqs, Entry
<1>10. \A q \in S : IsBack(S, q) => q = SeqOf(k[2])
  <2> SUFFICES ASSUME NEW q \in S, IsBack(S, q) PROVE q = b.seq
    BY Zenon, <1>7
  <2>1. b.seq \in S
    BY Zenon DEF Seqs
  <2> HIDE DEF S
  <2>2. q \in SeqNo /\ b.seq \in SeqNo /\ FrontSeq(S) \in SeqNo
    BY Zenon, <2>1, <1>9, FrontSeqIn
  <2>3. Offset(S, q) \in Int /\ Offset(S, b.seq) \in Int
    BY <2>2, <1>9, OffsetType, SeqAssumption DEF SeqNo
  <2>4. Offset(S, q) = Offset(S, b.seq)
    BY <1>6, <2>1, <2>3 DEF IsBack
  <2> QED
    BY <2>2, <2>4, SeqAssumption DEF Offset, Minus, SeqNo
<1>11. \A i \in U : SeqOf(i) \in S => i = k[2] \/ SeqOf(i + 1) \in S
  <2> SUFFICES ASSUME NEW i \in U, SeqOf(i) \in S, i # k[2] PROVE SeqOf(i + 1) \in S
    OBVIOUS
  <2>1. SeqOf(i) # SeqOf(k[2])
    BY Zenon, <1>7, StreamSeqs
  <2>2. Plus(SeqOf(i), 1) \in S
    BY Zenon, <1>10, <2>1 DEF Complete, GapFree
  <2> QED
    BY Zenon, <2>2, StreamSeqs
<1>12. \A i \in U : a <= i /\ i <= k[2]
  <2> SUFFICES ASSUME NEW i \in U PROVE a <= i /\ i <= k[2]
    OBVIOUS
  <2>1. i \in Int /\ a \in Int /\ m \in Int /\ k[2] \in Int
    BY SeqAssumption, <1>7 DEF Idx
  <2>2. i <= k[2] /\ a <= k[2]
    BY Zenon, StreamAssumption
  <2>3. i <= m => k[2] <= m
    BY Zenon, StreamAssumption
  <2> QED
    BY <1>5, <2>1, <2>2, <2>3
<1>13. \A i \in U : SeqOf(i) \in S
  <2> DEFINE T == {i \in U : SeqOf(i) \notin S}
  <2> SUFFICES ASSUME T # {} PROVE FALSE
    OBVIOUS
  <2>1. T \in SUBSET Nat
    BY SeqAssumption DEF Idx
  <2>2. PICK t \in T : \A u \in T : t <= u
    BY Zenon, <2>1, LeastElement
  <2>3. t \in U /\ SeqOf(t) \notin S
    OBVIOUS
  <2>4. a < t /\ t <= k[2] /\ t - 1 \in Idx /\ t \in Int
    BY <1>4, <1>5, <1>12, <2>3, SeqAssumption DEF Idx
  <2>5. TsOf[t - 1] = k[2]
    <3>1. TsOf[a] <= TsOf[t - 1] /\ TsOf[t - 1] <= TsOf[t]
      BY <2>3, <2>4, <1>4, StreamAssumption DEF Idx
    <3>2. TsOf[a] = k[2] /\ TsOf[t] = k[2] /\ TsOf[t - 1] \in Int /\ k[2] \in Int
      BY <2>3, <2>4, <1>4, <1>7, StreamAssumption, SeqAssumption DEF Idx
    <3> QED
      BY <3>1, <3>2
  <2>6. SeqOf(t - 1) \in S
    BY <2>2, <2>4, <2>5
  <2>7. SeqOf(t) \in S
    BY <2>4, <2>5, <2>6, <1>11
  <2> QED
    BY Zenon, <2>3, <2>7
<1>14. AuSeqs(k[2]) \subseteq S
  BY Zenon, <1>13 DEF AuSeqs
<1> QED
  BY Zenon, <1>2, <1>5, <1>14

-----------------------------------------------------------------------------
(* track_seq.  Per source: nothing has arrived yet, or max_seq is the number *)
(* of the newest packet that has, and every packet to ask for again is older *)
(* and has not.                                                            *)

Newest(src, m) ==
  /\ maxSeq[src] = SeqOf(m)
  /\ <<src, m>> \in got
  /\ \A i \in Idx : <<src, i>> \in got => i <= m
  /\ \A q \in nack[src] : IdxOf(q) < m /\ <<src, IdxOf(q)>> \notin got

Silent(src) ==
  /\ maxSeq[src] = Never
  /\ nack[src] = {}
  /\ \A i \in Idx : <<src, i>> \notin got

SeqInv == \A src \in Ssrc : Silent(src) \/ \E m \in Idx : Newest(src, m)

\* The greatest index of a set, once one is known.
LEMMA MaxIs ==
  ASSUME NEW S \in SUBSET Idx, NEW m \in S, \A i \in S : i <= m
  PROVE  Max(S) = m
<1>1. S \in SUBSET Int
  BY SeqAssumption DEF Idx
<1>2. \A x \in S : (\A y \in S : x >= y) => x = m
  BY <1>1
<1>3. m \in S /\ \A y \in S : m >= y
  BY Zenon, <1>1
<1> QED BY Zenon, <1>2, <1>3 DEF Max

\* A packet is newer than another exactly if its number is up to half the
\* circle ahead, and the roll-over makes good what the number lost.
LEMMA Ahead ==
  ASSUME NEW i \in Idx, NEW m \in Idx, NEW d, d = Minus(SeqOf(i), SeqOf(m))
  PROVE  /\ d = 0 <=> i = m
         /\ d > Half <=> i < m
         /\ d \in 1 .. Half <=> i > m
         /\ i > m => /\ d = i - m
                     /\ SeqOf(i) - SeqOf(m) = IF SeqOf(i) < SeqOf(m) THEN i - m - SeqMod ELSE i - m
<1>1. /\ SeqMod \in Nat /\ SeqMod > 1 /\ SeqBase \in Nat /\ SeqBase < SeqMod
      /\ NumPkts \in Nat /\ 2 * NumPkts <= SeqMod
      /\ i \in Nat /\ i < NumPkts /\ m \in Nat /\ m < NumPkts
  BY SeqAssumption DEF SeqNo, Idx
<1>2. Half \in Nat /\ NumPkts <= Half /\ 2 * Half <= SeqMod
  BY <1>1 DEF Half
<1> QED BY <1>1, <1>2 DEF SeqOf, Plus, Minus

\* What a jump of the number skips are the packets between the two.
LEMMA SkippedAreOlder ==
  ASSUME NEW src \in Ssrc, NEW i \in Idx, NEW m \in Idx, i > m, maxSeq[src] = SeqOf(m)
  PROVE  \A q \in Skipped(src, SeqOf(i)) : q \in SeqNo /\ IdxOf(q) \in Idx /\ IdxOf(q) > m /\ IdxOf(q) < i
<1> DEFINE d == IF i - m < NackSpan THEN i - m ELSE NackSpan
<1>1. Minus(SeqOf(i), SeqOf(m)) = i - m
  BY Zenon, Ahead
<1>2. Skipped(src, SeqOf(i)) = {Plus(SeqOf(m), n) : n \in 1 .. d - 1}
  BY Zenon, <1>1 DEF Skipped
<1>3. SUFFICES ASSUME NEW n \in 1 .. d - 1
               PROVE  LET q == Plus(SeqOf(m), n)
                      IN  q \in SeqNo /\ IdxOf(q) \in Idx /\ IdxOf(q) > m /\ IdxOf(q) < i
  BY Zenon, <1>2
<1>4. n \in Nat /\ n >= 1 /\ m + n < i /\ m \in Nat /\ i \in Nat /\ m + n \in Idx
  BY SeqAssumption, TimerAssumption DEF Idx
<1>5. Plus(SeqOf(m), n) = SeqOf(m + n)
  BY <1>4, SeqAssumption DEF SeqNo, Idx, SeqOf, Plus
<1>6. SeqOf(m + n) \in SeqNo /\ IdxOf(SeqOf(m + n)) = m + n
  BY Zenon, <1>4, StreamSeqs
<1> QED BY <1>4, <1>5, <1>6

\* Two numbers are of one packet only if they are equal.
LEMMA IdxApart == \A p, q \in SeqNo : IdxOf(p) = IdxOf(q) => p = q
BY SeqAssumption DEF SeqNo, IdxOf, Minus

\* The first packet of a source.
LEMMA FirstPacket ==
  ASSUME TypeOK, NEW src \in Ssrc, NEW i \in Idx, Silent(src),
         TrackSeq(src, SeqOf(i)), got' = got \cup {<<src, i>>}
  PROVE  Newest(src, i)'
<1>1. maxSeq' = [maxSeq EXCEPT ![src] = SeqOf(i)] /\ nack' = nack
  BY Zenon DEF TrackSeq, Silent
<1>2. maxSeq'[src] = SeqOf(i) /\ nack'[src] = {}
  BY Zenon, <1>1 DEF TypeOK, Silent
<1>3. \A j \in Idx : <<src, j>> \in got' => j = i
  BY Zenon DEF Silent
<1> QED BY <1>2, <1>3, SeqAssumption DEF Newest, Idx

\* How far the source moves with packet i, if its newest was m.
Now(i, m) == IF i > m THEN i ELSE m

\* Every other packet.
LEMMA LaterPacket ==
  ASSUME TypeOK, NEW src \in Ssrc, NEW i \in Idx, NEW m \in Idx, Newest(src, m),
         TrackSeq(src, SeqOf(i)), got' = got \cup {<<src, i>>}
  PROVE  /\ Newest(src, Now(i, m))'
         /\ (roc'[src] - roc[src]) * SeqMod + maxSeq'[src] - maxSeq[src] = Now(i, m) - m
<1> DEFINE q == SeqOf(i)
           d == Minus(q, maxSeq[src])
           Goal == /\ Newest(src, Now(i, m))'
                   /\ (roc'[src] - roc[src]) * SeqMod + maxSeq'[src] - maxSeq[src] = Now(i, m) - m
<1>0. /\ maxSeq[src] = SeqOf(m) /\ maxSeq[src] # Never /\ i \in Nat /\ m \in Nat
      /\ SeqMod \in Nat /\ SeqOf(m) \in Int /\ q \in SeqNo /\ q \in Int /\ roc[src] \in Nat
  BY StreamSeqs, SeqAssumption DEF Newest, Never, Idx, SeqNo, TypeOK
<1>1. CASE d = 0
  <2>1. i = m /\ UNCHANGED seqVars
    BY <1>0, <1>1, Ahead DEF TrackSeq, Half
  <2>2. got' = got
    BY Zenon, <2>1 DEF Newest
  <2>3. Newest(src, m)'
    BY Zenon, <2>1, <2>2 DEF Newest, seqVars
  <2> QED BY <1>0, <2>1, <2>3 DEF Now, seqVars
<1>2. CASE d > Half
  <2>1. i < m /\ nack' = [nack EXCEPT ![src] = @ \ {q}] /\ UNCHANGED <<maxSeq, roc>>
    BY <1>0, <1>2, Ahead DEF TrackSeq, Half
  <2>2. nack'[src] = nack[src] \ {q} /\ nack[src] \subseteq SeqNo
    BY Zenon, <2>1 DEF TypeOK
  <2>3. \A p \in nack'[src] : IdxOf(p) < m /\ IdxOf(p) # i /\ <<src, IdxOf(p)>> \notin got
    BY Zenon, <1>0, <2>2, IdxApart, StreamSeqs DEF Newest
  <2>4. \A j \in Idx : <<src, j>> \in got' => j <= m
    BY <1>0, <2>1 DEF Newest, Idx
  <2>5. \A p \in nack'[src] : IdxOf(p) < m /\ <<src, IdxOf(p)>> \notin got'
    BY Zenon, <2>3
  <2>6. Newest(src, m)'
    BY Zenon, <2>1, <2>4, <2>5 DEF Newest
  <2> QED BY <1>0, <2>1, <2>6 DEF Now
<1>3. CASE d \in 1 .. Half
  <2>1. /\ i > m /\ nack' = [nack EXCEPT ![src] = @ \cup Skipped(src, q)]
        /\ roc' = [roc EXCEPT ![src] = @ + RocStep(src, q)] /\ maxSeq' = [maxSeq EXCEPT ![src] = q]
    BY <1>0, <1>3, Ahead DEF TrackSeq, Half
  <2>2. /\ nack'[src] = nack[src] \cup Skipped(src, q) /\ maxSeq'[src] = q
        /\ roc'[src] = roc[src] + RocStep(src, q)
    BY Zenon, <2>1 DEF TypeOK
  <2>3. \A p \in Skipped(src, q) : IdxOf(p) \in Idx /\ IdxOf(p) > m /\ IdxOf(p) < i
    BY Zenon, <1>0, <2>1, SkippedAreOlder
  <2>4. \A p \in nack'[src] : IdxOf(p) < i /\ <<src, IdxOf(p)>> \notin got'
    <3>1. ASSUME NEW p \in nack[src] PROVE IdxOf(p) < i /\ <<src, IdxOf(p)>> \notin got'
      <4>1. p \in SeqNo /\ IdxOf(p) \in Int /\ IdxOf(p) < m /\ <<src, IdxOf(p)>> \notin got
        BY SeqAssumption DEF TypeOK, SeqNo, IdxOf, Minus, Newest
      <4> HIDE DEF q
      <4> QED BY <1>0, <2>1, <4>1
    <3>2. ASSUME NEW p \in Skipped(src, q) PROVE IdxOf(p) < i /\ <<src, IdxOf(p)>> \notin got'
      <4>1. IdxOf(p) \in Idx /\ IdxOf(p) > m /\ IdxOf(p) < i
        BY Zenon, <2>3
      <4>2. <<src, IdxOf(p)>> \notin got
        BY <1>0, <4>1 DEF Newest, Idx
      <4>3. <<src, IdxOf(p)>> # <<src, i>>
        BY <1>0, <4>1 DEF Idx
      <4> QED BY Zenon, <4>1, <4>2, <4>3
    <3> QED BY Zenon, <2>2, <3>1, <3>2
  <2>5. Newest(src, i)'
    BY <1>0, <2>1, <2>2, <2>4 DEF Newest, Idx
  <2>6. (roc'[src] - roc[src]) * SeqMod + maxSeq'[src] - maxSeq[src] = i - m
    <3>1. SeqOf(i) - SeqOf(m) = IF SeqOf(i) < SeqOf(m) THEN i - m - SeqMod ELSE i - m
      BY Zenon, <2>1, Ahead
    <3>2. CASE q < maxSeq[src]
      <4>1. roc'[src] - roc[src] = 1
        BY <1>0, <2>2, <3>2 DEF RocStep
      <4> QED BY <1>0, <2>2, <3>1, <3>2, <4>1
    <3>3. CASE ~(q < maxSeq[src])
      <4>1. roc'[src] - roc[src] = 0
        BY <1>0, <2>2, <3>3 DEF RocStep
      <4> QED BY <1>0, <2>2, <3>1, <3>3, <4>1
    <3> QED BY Zenon, <3>2, <3>3
  <2> QED BY Zenon, <2>1, <2>5, <2>6 DEF Now
<1> QED BY Zenon, <1>0, <1>1, <1>2, <1>3, Ahead DEF TrackSeq

\* No packet of src is tracked; the tx thread may have taken its NACKs.
Kept(src) ==
  /\ maxSeq'[src] = maxSeq[src] /\ roc'[src] = roc[src] /\ nack'[src] \subseteq nack[src]
  /\ \A i : <<src, i>> \in got' <=> <<src, i>> \in got

\* A step tracks one packet of one source, or none.
LEMMA TracksOne ==
  ASSUME TypeOK, [Next]_vars, NEW src \in Ssrc
  PROVE  Kept(src) \/ \E i \in Idx : TrackSeq(src, SeqOf(i)) /\ got' = got \cup {<<src, i>>}
<1>1. ASSUME NEW t \in Ssrc, NEW i \in Idx, NEW s \in Slot, Receive(t, i, s)
      PROVE  Kept(src) \/ (t = src /\ TrackSeq(src, SeqOf(i)) /\ got' = got \cup {<<src, i>>})
  <2>1. TrackSeq(t, SeqOf(i)) /\ got' = got \cup {<<t, i>>}
    BY Zenon, <1>1 DEF Receive
  <2>2. CASE t # src
    <3>1. maxSeq'[src] = maxSeq[src] /\ roc'[src] = roc[src] /\ nack'[src] = nack[src]
      BY Zenon, <2>1, <2>2 DEF TrackSeq, seqVars, TypeOK
    <3> QED BY Zenon, <2>1, <2>2, <3>1 DEF Kept
  <2> QED BY Zenon, <2>1, <2>2
<1>2. ASSUME UNCHANGED <<maxSeq, roc, nack, got>> PROVE Kept(src)
  BY Zenon, <1>2 DEF Kept
<1>3. ASSUME NEW t \in Ssrc, DrainPendingNack(t) PROVE Kept(src)
  <2>1. nack' = [nack EXCEPT ![t] = {}] /\ UNCHANGED <<maxSeq, roc, got>>
    BY Zenon, <1>3 DEF DrainPendingNack, netVars
  <2>2. nack'[src] \subseteq nack[src]
    BY Zenon, <2>1 DEF TypeOK
  <2> QED BY Zenon, <2>1, <2>2 DEF Kept
<1>4. ASSUME NEW t \in Ssrc, FlushReady(t) PROVE UNCHANGED <<maxSeq, roc, nack, got>>
  BY Zenon, <1>4 DEF FlushReady, seqVars, netVars
<1>5. CASE QueueDone \/ EvictStart \/ EvictDrop \/ EvictTtl
  BY Zenon, <1>2, <1>5 DEF QueueDone, EvictStart, EvictDrop, EvictTtl, seqVars, netVars
<1>6. CASE EvictUnblock \/ EvictDone \/ Tick \/ UNCHANGED vars
  BY Zenon, <1>2, <1>6 DEF EvictUnblock, EvictDone, Tick, vars, seqVars, netVars
<1> QED BY Zenon, <1>1, <1>2, <1>3, <1>4, <1>5, <1>6 DEF Next

\* The newest packet is the greatest index received.
LEMMA NewestIsMax ==
  /\ \A src \in Ssrc, m \in Idx : Newest(src, m) => MaxGot(src, got) = m
  /\ \A src \in Ssrc, m \in Idx : Newest(src, m)' => MaxGot(src, got') = m
<1>1. ASSUME NEW src \in Ssrc, NEW m \in Idx, NEW g, <<src, m>> \in g,
             \A i \in Idx : <<src, i>> \in g => i <= m
      PROVE  MaxGot(src, g) = m
  <2> DEFINE S == {i \in Idx : <<src, i>> \in g}
  <2>1. S \in SUBSET Idx /\ m \in S /\ \A i \in S : i <= m
    BY Zenon, <1>1
  <2> HIDE DEF S
  <2>2. Max(S) = m
    BY Zenon, <2>1, MaxIs
  <2> QED BY Zenon, <2>2 DEF MaxGot, S
<1> QED BY Zenon, <1>1 DEF Newest

\* Every source moves as its packets do.
LEMMA SourceStep ==
  ASSUME TypeOK, SeqInv, [Next]_vars, NEW src \in Ssrc
  PROVE  /\ (Silent(src) \/ \E m \in Idx : Newest(src, m))'
         /\ maxSeq[src] # Never =>
              (roc'[src] - roc[src]) * SeqMod + maxSeq'[src] - maxSeq[src]
                = MaxGot(src, got') - MaxGot(src, got)
<1>0. SeqMod \in Nat /\ roc[src] \in Nat
  BY Zenon, SeqAssumption DEF TypeOK
<1>1. CASE Silent(src)
  <2>1. ASSUME NEW i \in Idx, TrackSeq(src, SeqOf(i)), got' = got \cup {<<src, i>>}
        PROVE  Newest(src, i)'
    BY Zenon, <1>1, <2>1, FirstPacket
  <2>2. Kept(src) => Silent(src)'
    BY Zenon, <1>1 DEF Kept, Silent
  <2>3. maxSeq[src] = Never
    BY Zenon, <1>1 DEF Silent
  <2> QED BY Zenon, <2>1, <2>2, <2>3, TracksOne
<1>2. ASSUME NEW m \in Idx, Newest(src, m)
      PROVE  \E n \in Idx : /\ Newest(src, n)'
                            /\ (roc'[src] - roc[src]) * SeqMod + maxSeq'[src] - maxSeq[src] = n - m
  <2>0. Newest(src, m) /\ m \in Int /\ maxSeq[src] \in Int
    <3>1. maxSeq[src] \in SeqNo
      BY Zenon, <1>2, StreamSeqs DEF Newest
    <3> QED BY <1>2, <3>1 DEF Idx, SeqNo
  <2>1. CASE Kept(src)
    <3>1. Newest(src, m)'
      BY Zenon, <2>0, <2>1 DEF Kept, Newest
    <3>2. (roc'[src] - roc[src]) * SeqMod + maxSeq'[src] - maxSeq[src] = m - m
      BY <1>0, <2>0, <2>1 DEF Kept
    <3> QED BY Zenon, <3>1, <3>2
  <2>2. ASSUME NEW i \in Idx, TrackSeq(src, SeqOf(i)), got' = got \cup {<<src, i>>}
        PROVE  /\ Newest(src, Now(i, m))' /\ Now(i, m) \in Idx
               /\ (roc'[src] - roc[src]) * SeqMod + maxSeq'[src] - maxSeq[src] = Now(i, m) - m
    <3>1. Now(i, m) \in Idx
      BY Zenon DEF Now
    <3> QED BY Zenon, <2>0, <2>2, <3>1, LaterPacket
  <2> QED BY Zenon, <2>1, <2>2, TracksOne
<1>3. ASSUME NEW m \in Idx, Newest(src, m)
      PROVE  /\ \E n \in Idx : Newest(src, n)'
             /\ (roc'[src] - roc[src]) * SeqMod + maxSeq'[src] - maxSeq[src]
                  = MaxGot(src, got') - MaxGot(src, got)
  <2>1. PICK n \in Idx : /\ Newest(src, n)'
                         /\ (roc'[src] - roc[src]) * SeqMod + maxSeq'[src] - maxSeq[src] = n - m
    BY Zenon, <1>2, <1>3
  <2>2. MaxGot(src, got) = m /\ MaxGot(src, got') = n
    BY Zenon, <1>3, <2>1, NewestIsMax
  <2> QED BY Zenon, <2>1, <2>2
<1> QED BY Zenon, <1>1, <1>3 DEF SeqInv

=============================================================================
