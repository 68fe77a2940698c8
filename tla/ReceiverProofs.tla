--------------------------- MODULE ReceiverProofs ---------------------------
(***************************************************************************)
(* Theorems about what arrives from the Mac: UdpReceiver, the slots that   *)
(* go round between the receive operations and the packets; SrtpDecryptor, *)
(* the packets that decrypt() opens; and ControlChannel, the records of    *)
(* the encrypted control connection, both ways.                            *)
(***************************************************************************)
EXTENDS UdpReceiver, SrtpDecryptor, ControlChannel, FiniteSetTheorems, TLAPS

-----------------------------------------------------------------------------
(* UdpReceiver.                                                            *)

\* What post() does to an operation that has the slot s or none, when s is neither free, nor
\* held, nor another operation's: afterwards every slot still has one owner.
LEMMA PostKeepsOwners ==
  ASSUME NEW o \in Op, NEW s \in Slot \cup {NoSlot}, NEW h, RxTypeOK, OneOwner, Post(o, s),
         h \subseteq Slot, held \subseteq h, s \notin h, h \subseteq held \cup {slot[o]},
         \A p \in Op : p # o /\ slot[p] # NoSlot => slot[p] # s,
         s # NoSlot => s = slot[o],
         NoSlot # slot[o] => slot[o] \in h \cup {s}
  PROVE  /\ free' \subseteq Slot /\ slot' \in [Op -> Slot \cup {NoSlot}] /\ st' \in [Op -> OpState]
         /\ free' \cap h = {} /\ free' \cap Posted' = {} /\ h \cap Posted' = {}
         /\ Slot = free' \cup h \cup Posted'
         /\ \A p, q \in Op : slot'[p] = slot'[q] /\ slot'[p] # NoSlot => p = q
         /\ \A p \in Op : st'[p] \in {"pending", "ready", "batch"} =>
              slot'[p] \in Slot \/ (p # o /\ st[p] = st'[p] /\ slot[p] = slot'[p])
<1> USE RxAssumption
<1>1. PICK n \in Slot \cup {NoSlot}, to \in OpState :
        /\ slot' = [slot EXCEPT ![o] = n] /\ st' = [st EXCEPT ![o] = to]
        /\ free' = free \ {n}
        /\ n = s \/ (s = NoSlot /\ n \in free)
        /\ to = "pending" => n \in Slot
        /\ to \in {"pending", "unposted", "idle"}
  <2>1. CASE stop # "no" /\ st' = [st EXCEPT ![o] = "idle"] /\ slot' = [slot EXCEPT ![o] = s] /\ UNCHANGED free
    <3>1. free = free \ {s}
      BY DEF RxTypeOK, OneOwner, Posted
    <3> QED BY Zenon, <2>1, <3>1 DEF OpState
  <2>2. CASE s = NoSlot /\ free = {} /\ st' = [st EXCEPT ![o] = "unposted"] /\ slot' = [slot EXCEPT ![o] = s] /\ UNCHANGED free
    <3>1. free = free \ {s}
      BY Zenon, <2>2
    <3> QED BY Zenon, <2>2, <3>1 DEF OpState
  <2>3. ASSUME NEW n \in IF s = NoSlot THEN free ELSE {s}, NEW to \in {"pending", "unposted"},
               slot' = [slot EXCEPT ![o] = n], free' = free \ {n}, st' = [st EXCEPT ![o] = to]
        PROVE  /\ n \in Slot /\ to \in OpState
               /\ n = s \/ (s = NoSlot /\ n \in free)
    BY Zenon, <2>3 DEF OpState, RxTypeOK
  <2> QED BY Zenon, <2>1, <2>2, <2>3 DEF Post
<1>2. /\ free' \subseteq Slot /\ slot' \in [Op -> Slot \cup {NoSlot}] /\ st' \in [Op -> OpState]
      /\ slot'[o] = n /\ \A p \in Op : p # o => slot'[p] = slot[p] /\ st'[p] = st[p]
      /\ st'[o] = to
  BY Zenon, <1>1 DEF RxTypeOK
<1>3. \A x : x \in Posted' <=> x # NoSlot /\ (x = n \/ \E p \in Op : p # o /\ x = slot[p])
  BY Zenon, <1>2 DEF Posted
<1>4. \A x : x \in Posted <=> x # NoSlot /\ (x = slot[o] \/ \E p \in Op : p # o /\ x = slot[p])
  BY Zenon DEF Posted
<1>5. free' \cap h = {}
  BY <1>1, <1>4 DEF OneOwner, RxTypeOK
<1>6. free' \cap Posted' = {}
  BY Zenon, <1>1, <1>3, <1>4 DEF OneOwner
<1>7. h \cap Posted' = {}
  BY <1>1, <1>3, <1>4 DEF OneOwner, RxTypeOK
<1>8. Slot = free' \cup h \cup Posted'
  BY <1>1, <1>3, <1>4 DEF OneOwner, RxTypeOK
<1>9. \A p, q \in Op : slot'[p] = slot'[q] /\ slot'[p] # NoSlot => p = q
  <2> SUFFICES ASSUME NEW p \in Op, NEW q \in Op, slot'[p] = slot'[q], slot'[p] # NoSlot, p # q
               PROVE  FALSE
    OBVIOUS
  <2>1. \A r \in Op : r # o /\ slot[r] # NoSlot => slot[r] # n
    BY Zenon, <1>1, <1>4 DEF OneOwner
  <2> QED BY <1>2, <2>1 DEF OneOwner
<1>10. \A p \in Op : st'[p] \in {"pending", "ready", "batch"} =>
         slot'[p] \in Slot \/ (p # o /\ st[p] = st'[p] /\ slot[p] = slot'[p])
  BY Zenon, <1>1, <1>2
<1> QED BY Zenon, <1>2, <1>5, <1>6, <1>7, <1>8, <1>9, <1>10

\* SlotsGoRound is inductive: no call of wait(), no completion and no release leaves a slot with
\* two owners or none, and only stop() lets an operation drop out.
LEMMA SlotsInductive == SlotsGoRound /\ [RxNext]_rxVars => SlotsGoRound'
<1> SUFFICES ASSUME SlotsGoRound, [RxNext]_rxVars PROVE SlotsGoRound'
  OBVIOUS
<1> USE RxAssumption DEF SlotsGoRound
<1>1. ASSUME NEW o \in Op, RxRetry(o) PROVE SlotsGoRound'
  <2>1. /\ Post(o, slot[o]) /\ held' = held /\ rx' = rx /\ stop' = stop
        /\ slot[o] \in Slot \cup {NoSlot} /\ slot[o] \notin held
    BY <1>1 DEF RxRetry, RxTypeOK, OneOwner, Posted
  <2>2. RxTypeOK' /\ OneOwner'
    BY <2>1, PostKeepsOwners DEF RxTypeOK, OneOwner
  <2>3. NeverDeaf'
    BY Zenon, <2>1 DEF Post, NeverDeaf, RxTypeOK
  <2> QED BY Zenon, <2>2, <2>3
<1>2. ASSUME NEW o \in Op, RxEntry(o) PROVE SlotsGoRound'
  <2>1. rx' = rx /\ stop' = stop /\ slot[o] \in Slot /\ slot[o] \notin held /\ slot[o] # NoSlot
    BY <1>2 DEF RxEntry, OneOwner, Posted, RxTypeOK
  <2>2. CASE held' = held \cup {slot[o]} /\ Post(o, NoSlot)
    <3>1. RxTypeOK' /\ OneOwner'
      BY <2>1, <2>2, PostKeepsOwners DEF RxTypeOK, OneOwner
    <3>2. NeverDeaf'
      BY Zenon, <2>1, <2>2 DEF Post, NeverDeaf, RxTypeOK
    <3> QED BY Zenon, <3>1, <3>2
  <2>3. CASE held' = held /\ Post(o, slot[o])
    <3>1. RxTypeOK' /\ OneOwner'
      BY <2>1, <2>3, PostKeepsOwners DEF RxTypeOK, OneOwner
    <3>2. NeverDeaf'
      BY Zenon, <2>1, <2>3 DEF Post, NeverDeaf, RxTypeOK
    <3> QED BY Zenon, <3>1, <3>2
  <2> QED BY Zenon, <1>2, <2>2, <2>3 DEF RxEntry
<1>3. CASE RxGet
  <2>1. /\ free' = free /\ held' = held /\ slot' = slot /\ Posted' = Posted
        /\ rx' = "batch" /\ stop' \in {"no", "asked", "port", "batch"}
        /\ stop' = "no" => stop = "no"
    BY Zenon, <1>3 DEF RxGet, Posted, RxTypeOK
  <2>2. /\ st' \in [Op -> OpState]
        /\ \A o \in Op : st'[o] # st[o] => st[o] = "ready" /\ st'[o] = "batch"
    BY Zenon, <1>3 DEF RxGet, RxTypeOK, OpState
  <2> QED BY Zenon, <2>1, <2>2 DEF RxTypeOK, OneOwner, NeverDeaf
<1>4. CASE RxWake \/ RxReturn
  BY <1>4 DEF RxWake, RxReturn, RxTypeOK, OneOwner, NeverDeaf, Posted
<1>5. CASE RxCall
  <2>1. /\ free' = free /\ held' = held /\ slot' = slot /\ Posted' = Posted
        /\ rx' = "retry" /\ stop' = stop
    BY Zenon, <1>5 DEF RxCall, Posted
  <2>2. /\ st' \in [Op -> OpState]
        /\ \A o \in Op : st'[o] # st[o] => st'[o] = "retry"
    BY Zenon, <1>5 DEF RxCall, RxTypeOK, OpState
  <2> QED BY Zenon, <2>1, <2>2 DEF RxTypeOK, OneOwner, NeverDeaf
<1>6. ASSUME NEW o \in Op, RxComplete(o) PROVE SlotsGoRound'
  BY <1>6 DEF RxComplete, RxTypeOK, OneOwner, NeverDeaf, Posted, OpState
<1>7. ASSUME NEW s \in Slot, RxRelease(s) PROVE SlotsGoRound'
  BY <1>7 DEF RxRelease, RxTypeOK, OneOwner, NeverDeaf, Posted
<1>8. CASE RxStop \/ RxDestroy
  BY <1>8 DEF RxStop, RxDestroy, RxTypeOK, OneOwner, NeverDeaf, Posted
<1>9. CASE UNCHANGED rxVars
  BY <1>9 DEF rxVars, RxTypeOK, OneOwner, NeverDeaf, Posted
<1> QED BY Zenon, <1>1, <1>2, <1>3, <1>4, <1>5, <1>6, <1>7, <1>8, <1>9 DEF RxNext, RxThread

\* For every pool and depth, each slot is free, or in one operation, or with the caller; what the
\* kernel may write to belongs to the operation, and until stop() no operation drops out.
THEOREM SlotsAreKept == RxSpec => []SlotsGoRound
<1>1. RxInit => SlotsGoRound
  BY Zenon, RxAssumption DEF RxInit, SlotsGoRound, RxTypeOK, OneOwner, NeverDeaf, Posted, OpState
<1> QED BY <1>1, SlotsInductive, PTL DEF RxSpec

\* The slots of the kernel are those of the operations, so there are no more than operations.
LEMMA KernelWithinDepth ==
  SlotsGoRound => Cardinality({s \in Slot : Owner(s) = "kernel"}) <= Cardinality(Op)
<1> SUFFICES ASSUME SlotsGoRound
             PROVE  Cardinality({s \in Slot : Owner(s) = "kernel"}) <= Cardinality(Op)
  OBVIOUS
<1> DEFINE all == {slot[o] : o \in Op}
<1>1. IsFiniteSet(all) /\ Cardinality(all) <= Cardinality(Op)
  <2>1. slot \in Surjection(Op, all)
    BY Zenon DEF SlotsGoRound, RxTypeOK, Surjection
  <2> QED BY Zenon, <2>1, RxAssumption, FS_Surjection
<1>2. {s \in Slot : Owner(s) = "kernel"} \subseteq all
  BY Zenon DEF Owner, SlotsGoRound, OneOwner, Posted
<1> HIDE DEF all
<1>3. Cardinality({s \in Slot : Owner(s) = "kernel"}) <= Cardinality(all)
  BY Zenon, <1>1, <1>2, FS_Subset
<1> QED BY <1>1, <1>2, <1>3, FS_Subset, FS_CardinalityType, RxAssumption

\* For every pool and depth the receiver implements the ring of packet_pool.h: a slot changes
\* hands only from the free list to the kernel, to the reader, and back, and the kernel never has
\* more slots than there are operations.
THEOREM ReceiverImplementsRing == RxSpec => ImplementsRing
<1> DEFINE owner == [s \in Slot |-> Owner(s)]
<1>1. RxInit => Ring!Init
  BY Zenon DEF RxInit, Ring!Init, Owner
<1>2. SlotsGoRound /\ SlotsGoRound' /\ [RxNext]_rxVars => [Ring!Move]_owner
  <2> SUFFICES ASSUME SlotsGoRound, SlotsGoRound', [RxNext]_rxVars PROVE Ring!Move \/ UNCHANGED owner
    OBVIOUS
  <2>1. \A s \in Slot : Owner(s)' # Owner(s) => <<Owner(s), Owner(s)'>> \in Ring!Hops
    <3> SUFFICES ASSUME NEW s \in Slot, Owner(s)' # Owner(s)
                 PROVE  \/ Owner(s) = "free" /\ Owner(s)' = "kernel"
                        \/ Owner(s) = "kernel" /\ Owner(s)' = "reader"
                        \/ Owner(s) = "reader" /\ Owner(s)' = "free"
      BY Zenon DEF Ring!Hops
    <3>1. ASSUME NEW o \in Op, RxRetry(o) PROVE Owner(s) = "free" /\ Owner(s)' = "kernel"
      BY <3>1, RxAssumption DEF RxRetry, Post, Owner, SlotsGoRound, RxTypeOK, OneOwner, Posted
    <3>2. ASSUME NEW o \in Op, RxEntry(o)
          PROVE  \/ Owner(s) = "free" /\ Owner(s)' = "kernel"
                 \/ Owner(s) = "kernel" /\ Owner(s)' = "reader"
      <4>1. slot[o] \in Slot /\ slot[o] \notin free /\ slot[o] \notin held
        BY <3>2, RxAssumption DEF RxEntry, SlotsGoRound, RxTypeOK, OneOwner, Posted
      <4>2. CASE held' = held \cup {slot[o]} /\ Post(o, NoSlot)
        BY <4>1, <4>2, RxAssumption DEF Post, Owner, SlotsGoRound, OneOwner
      <4>3. CASE held' = held /\ Post(o, slot[o])
        BY Zenon, <4>1, <4>3, RxAssumption DEF Post, Owner
      <4> QED BY Zenon, <3>2, <4>2, <4>3 DEF RxEntry
    <3>3. ASSUME NEW r \in Slot, RxRelease(r) PROVE Owner(s) = "reader" /\ Owner(s)' = "free"
      BY <3>3 DEF RxRelease, Owner, SlotsGoRound, OneOwner
    <3>4. ASSUME free' = free, held' = held PROVE FALSE
      BY Zenon, <3>4 DEF Owner
    <3> QED BY Zenon, <3>1, <3>2, <3>3, <3>4
            DEF RxNext, RxThread, RxGet, RxWake, RxReturn, RxCall, RxStop, RxDestroy, RxComplete, rxVars
  <2>2. Cardinality({s \in Slot : owner'[s] = "kernel"}) <= Cardinality(Op)
    <3>1. (Cardinality({s \in Slot : Owner(s) = "kernel"}) <= Cardinality(Op))'
      BY KernelWithinDepth, PTL
    <3>2. {s \in Slot : owner'[s] = "kernel"} = {s \in Slot : Owner(s) = "kernel"}'
      OBVIOUS
    <3> QED BY Zenon, <3>1, <3>2
  <2>3. owner' \in [Slot -> {"free", "kernel", "reader"}]
    BY Zenon DEF Owner
  <2>4. Ring!Cardinality(Ring!KernelHas(owner')) = Cardinality({s \in Slot : owner'[s] = "kernel"})
    BY Zenon DEF Ring!KernelHas, Ring!Cardinality, Cardinality
  <2> QED BY Zenon, <2>1, <2>2, <2>3, <2>4 DEF Ring!Move
<1> QED BY <1>1, <1>2, SlotsAreKept, PTL DEF RxSpec, ImplementsRing, Ring!Spec

-----------------------------------------------------------------------------
(* Numbers. *)

\* A number lies between the multiples of m next to it.
LEMMA Quotient ==
  ASSUME NEW m \in Int, m > 0, NEW a \in Int
  PROVE  /\ a \div m \in Int /\ m * (a \div m) \in Int
         /\ m * (a \div m) <= a /\ a < m * (a \div m) + m
<1>1. a \div m \in Int /\ m * (a \div m) <= a /\ a < m * (a \div m + 1)
  OBVIOUS
<1>2. m * (a \div m + 1) = m * (a \div m) + m /\ m * (a \div m) \in Int
  BY <1>1
<1> QED BY <1>1, <1>2

\* The remainder is what is left after a multiple of m.
LEMMA Remainder ==
  ASSUME NEW m \in Int, m > 0, NEW a \in Int, NEW q \in Int, NEW r \in Int,
         0 <= r, r < m, a = m * q + r
  PROVE  a % m = r
OBVIOUS

\* A set of naturals that is not empty has a least element.
LEMMA LeastElement ==
  ASSUME NEW T \in SUBSET Nat, T # {}
  PROVE  \E m \in T : \A t \in T : m <= t
<1> DEFINE R == {ss \in Nat \X Nat : ss[1] < ss[2]}
<1>1. IsWellFoundedOn(R, Nat)
  BY NatLessThanWellFounded DEF OpToRel
<1>2. PICK m \in T : \A t \in T : ~(<<t, m>> \in R)
  <2> HIDE DEF R
  <2> QED
    BY Zenon, <1>1, WFMin
<1>3. \A t \in T : m <= t
  <2> SUFFICES ASSUME NEW t \in T PROVE m <= t
    OBVIOUS
  <2>1. <<t, m>> \in Nat \X Nat
    OBVIOUS
  <2>2. ~(t < m)
    BY <2>1, <1>2
  <2> QED
    BY <2>2
<1> QED
  BY <1>3

-----------------------------------------------------------------------------
(* SrtpDecryptor, for any range of the sequence number, any                *)
(* first index and any gap within the reach of the roll-over guess.        *)

\* Half a turn, less one.
LEMMA HalfTurn == SeqSpace \in Nat /\ SeqSpace > 1 /\ Half \in Int /\ 2 * Half + 2 = SeqSpace
BY SrtpAssumption DEF Half

\* An index is its roll-over count, in turns, and its sequence number.
LEMMA IndexParts ==
  ASSUME NEW i \in Int
  PROVE  /\ Roc(i) \in Int /\ i % SeqSpace \in 0 .. SeqSpace - 1
         /\ SeqSpace * Roc(i) \in Int /\ i = SeqSpace * Roc(i) + (i % SeqSpace)
         /\ i >= 0 => Roc(i) >= 0
<1> DEFINE q == i \div SeqSpace
           m == SeqSpace * q
<1>1. q \in Int /\ m \in Int /\ m <= i /\ i < m + SeqSpace
  BY HalfTurn, Quotient
<1>2. i - m \in Int /\ 0 <= i - m /\ i - m < SeqSpace /\ i = m + (i - m)
  <2> HIDE DEF m
  <2> QED BY <1>1, HalfTurn
<1>3. i % SeqSpace = i - m
  <2>1. SeqSpace \in Int /\ SeqSpace > 0
    BY HalfTurn
  <2> QED BY Zenon, <1>1, <1>2, <2>1, Remainder
<1>4. i >= 0 => q >= 0
  BY HalfTurn
<1>5. Roc(i) = q /\ SeqSpace * Roc(i) = m
  BY Zenon DEF Roc
<1> HIDE DEF m, q
<1>6. i - m \in 0 .. SeqSpace - 1
  BY <1>1, <1>2, HalfTurn
<1> QED BY Zenon, <1>1, <1>2, <1>3, <1>4, <1>5, <1>6

\* Counts that differ by three or more are more than two turns apart.
LEMMA TurnsApart ==
  ASSUME NEW a \in Int, NEW b \in Int, NEW m \in Int, m > 0
  PROVE  /\ a = b => m * a - m * b = 0
         /\ a = b + 1 => m * a - m * b = m
         /\ a = b + 2 => m * a - m * b = 2 * m
         /\ a >= b + 3 => m * a - m * b >= 3 * m
<1>1. m * (b + 1) = m * b + m /\ m * (b + 2) = m * b + 2 * m /\ m * (b + 3) = m * b + 3 * m
  OBVIOUS
<1>2. a >= b + 3 => m * a >= m * (b + 3)
  OBVIOUS
<1>3. m * a \in Int /\ m * b \in Int
  OBVIOUS
<1> QED BY <1>1, <1>2, <1>3

\* decrypt() finds the count of every packet at most one and a half turns of the sequence number
\* away from the newest one of its stream.
LEMMA CountIsFound ==
  ASSUME NEW p, p.ssrc \in Ssrc, p.index \in Nat, ssrcState[p.ssrc] \in Nat \cup {-1},
         ssrcState[p.ssrc] = -1 => p.index < 2 * SeqSpace,
         ssrcState[p.ssrc] # -1 =>
           /\ p.index - ssrcState[p.ssrc] <= SeqSpace + Half
           /\ ssrcState[p.ssrc] - p.index <= SeqSpace + Half
  PROVE  Roc(p.index) \in Candidates(p)
<1> DEFINE i == p.index
           n == ssrcState[p.ssrc]
           di == Seq16(p)
           dn == n % SeqSpace
<1>1. /\ Roc(i) \in Int /\ di \in 0 .. SeqSpace - 1 /\ i = SeqSpace * Roc(i) + di
      /\ SeqSpace * Roc(i) \in Int /\ Roc(i) >= 0
  <2>1. i \in Int /\ i >= 0
    OBVIOUS
  <2> QED BY Zenon, <2>1, IndexParts DEF Seq16
<1>2. /\ Roc(n) \in Int /\ dn \in 0 .. SeqSpace - 1 /\ n = SeqSpace * Roc(n) + dn
      /\ SeqSpace * Roc(n) \in Int /\ (n >= 0 => Roc(n) >= 0) /\ n \in Int
  <2>1. n \in Int
    OBVIOUS
  <2> QED BY Zenon, <2>1, IndexParts
<1>3. RocGuess(p) = IF n < 0 THEN 0
                    ELSE IF di - dn > Half THEN AtLeastZero(Roc(n) - 1)
                    ELSE IF di - dn < -Half THEN Roc(n) + 1
                    ELSE Roc(n)
  BY Zenon DEF RocGuess
<1>4. CASE n = -1
  <2>1. Roc(i) \in {0, 1}
    BY <1>1, <1>4, HalfTurn
  <2>2. RocGuess(p) = 0
    BY <1>3, <1>4
  <2> QED BY <2>1, <2>2 DEF Candidates
<1>5. CASE n # -1
  <2> DEFINE x == SeqSpace * Roc(i)
             y == SeqSpace * Roc(n)
             ri == Roc(i)
             rn == Roc(n)
             h == Half
             s == SeqSpace
  <2>1. /\ s \in Int /\ h \in Int /\ 2 * h + 2 = s /\ s > 1
        /\ ri \in Int /\ rn \in Int /\ ri >= 0 /\ rn >= 0
        /\ di \in 0 .. s - 1 /\ dn \in 0 .. s - 1 /\ x \in Int /\ y \in Int
        /\ (x + di) - (y + dn) <= s + h /\ (y + dn) - (x + di) <= s + h
    BY <1>1, <1>2, <1>5, HalfTurn
  <2>2. /\ ri - rn = 0 => x - y = 0
        /\ ri - rn = 1 => x - y = s
        /\ ri - rn = 2 => x - y = 2 * s
        /\ ri - rn = -1 => y - x = s
        /\ ri - rn = -2 => y - x = 2 * s
        /\ ri - rn >= 3 => x - y >= 3 * s
        /\ ri - rn <= -3 => y - x >= 3 * s
    <3>0. s \in Int /\ s > 0 /\ ri \in Int /\ rn \in Int
      BY <2>1
    <3>1. /\ ri = rn => x - y = 0
          /\ ri = rn + 1 => x - y = s
          /\ ri = rn + 2 => x - y = 2 * s
          /\ ri >= rn + 3 => x - y >= 3 * s
      BY Zenon, <3>0, TurnsApart
    <3>2. /\ rn = ri + 1 => y - x = s
          /\ rn = ri + 2 => y - x = 2 * s
          /\ rn >= ri + 3 => y - x >= 3 * s
      BY Zenon, <3>0, TurnsApart
    <3> HIDE DEF x, y, ri, rn, s
    <3> QED BY <2>1, <3>1, <3>2
  <2>3. RocGuess(p) = IF di - dn > h THEN (IF rn - 1 < 0 THEN 0 ELSE rn - 1)
                      ELSE IF di - dn < -h THEN rn + 1 ELSE rn
    BY <1>2, <1>3, <1>5 DEF AtLeastZero
  <2>4. Candidates(p) = {RocGuess(p), IF rn < 0 THEN 0 ELSE rn, RocGuess(p) + 1,
                         IF RocGuess(p) - 1 < 0 THEN 0 ELSE RocGuess(p) - 1}
    BY Zenon DEF Candidates, AtLeastZero
  <2> HIDE DEF x, y, ri, rn, h, s, di, dn
  <2>5. ri \in Candidates(p)
    BY <2>1, <2>2, <2>3, <2>4
  <2> QED BY Zenon, <2>5 DEF ri
<1> QED BY Zenon, <1>4, <1>5

\* The indices the streams use, and the packets that may be on their way.
Reach == first .. first + gap + 3
Frag == {"config", "aggregate", "single", "start", "middle", "end"}
Nal == {"params", "slice", "key"}
Packet == [ssrc : Ssrc, ts : 1 .. 3, index : Reach, frag : Frag, nal : Nal, marker : BOOLEAN]

\* Every packet on its way and the newest one of each stream are in reach of each other.
SrInv ==
    /\ first \in FirstIndex /\ gap \in Gaps
    /\ coming \in Seq(Packet)
    /\ ssrcState \in [Ssrc -> Reach \cup {-1}]
    /\ EveryPacketOpens

\* What the Mac sends are packets.
LEMMA SentArePackets == ASSUME first \in FirstIndex, gap \in Gaps PROVE Sent \in Seq(Packet)
<1>1. \A s \in Ssrc, ts \in 1 .. 3, n \in 0 .. 3, frag \in Frag, nal \in Nal, marker \in BOOLEAN :
        P(s, ts, n, frag, nal, marker) \in Packet
  <2> SUFFICES ASSUME NEW s \in Ssrc, NEW ts \in 1 .. 3, NEW n \in 0 .. 3, NEW frag \in Frag,
                      NEW nal \in Nal, NEW marker \in BOOLEAN
               PROVE  P(s, ts, n, frag, nal, marker) \in Packet
    OBVIOUS
  <2>1. first + n + (IF ts > 1 THEN gap ELSE 0) \in Reach
    BY SrtpAssumption DEF Reach
  <2> QED BY Zenon, <2>1 DEF P, Packet
<1> DEFINE a == P(1, 1, 0, IF isAvc THEN "config" ELSE "aggregate", "params", TRUE)
           b == P(2, 1, 0, "single", "slice", TRUE)
           c == P(1, 2, 1, "start", "key", FALSE)
           d == P(2, 2, 1, "start", "key", FALSE)
           e == P(1, 2, 2, "end", "key", TRUE)
           f == P(2, 2, 2, "middle", "key", FALSE)
           g == P(3, 2, 0, "single", "slice", TRUE)
           h == P(2, 2, 3, "end", "key", TRUE)
           k == P(1, 3, 3, "single", "slice", TRUE)
<1>2. 1 \in Ssrc /\ 2 \in Ssrc /\ 3 \in Ssrc /\ 1 \in 1 .. 3 /\ 2 \in 1 .. 3 /\ 3 \in 1 .. 3
  BY DEF Ssrc
<1>3. 0 \in 0 .. 3 /\ 1 \in 0 .. 3 /\ 2 \in 0 .. 3 /\ 3 \in 0 .. 3
  OBVIOUS
<1>4. (IF isAvc THEN "config" ELSE "aggregate") \in Frag
  BY Zenon DEF Frag
<1>5. a \in Packet
  BY Zenon, <1>1, <1>2, <1>3, <1>4 DEF Nal
<1>6. /\ b \in Packet /\ c \in Packet /\ d \in Packet /\ e \in Packet
      /\ f \in Packet /\ g \in Packet /\ h \in Packet /\ k \in Packet
  BY Zenon, <1>1, <1>2, <1>3 DEF Frag, Nal
<1>7. Sent = <<a, b, c, d, e, f, g, h, k>>
  BY Zenon DEF Sent
<1> HIDE DEF a, b, c, d, e, f, g, h, k
<1> QED BY <1>5, <1>6, <1>7

\* The count of a packet on its way is found.
LEMMA OpensAny ==
  ASSUME SrInv, NEW p \in Packet
  PROVE  Roc(p.index) \in Candidates(p)
<1>1. p.ssrc \in Ssrc /\ p.index \in Reach
  BY Zenon DEF Packet
<1>2. /\ first \in Nat /\ gap \in Nat /\ first + gap + 4 < 2 * SeqSpace
      /\ gap + 3 <= SeqSpace + Half /\ SeqSpace \in Nat /\ Half \in Int
  BY Zenon, SrtpAssumption, HalfTurn DEF SrInv, Half
<1>3. ssrcState[p.ssrc] \in Reach \cup {-1}
  BY Zenon, <1>1 DEF SrInv
<1>4. p.index \in Nat /\ ssrcState[p.ssrc] \in Nat \cup {-1}
  BY <1>1, <1>2, <1>3 DEF Reach
<1>5. /\ ssrcState[p.ssrc] = -1 => p.index < 2 * SeqSpace
      /\ ssrcState[p.ssrc] # -1 =>
           /\ p.index - ssrcState[p.ssrc] <= SeqSpace + Half
           /\ ssrcState[p.ssrc] - p.index <= SeqSpace + Half
  BY <1>1, <1>2, <1>3 DEF Reach
<1> QED BY Zenon, <1>1, <1>4, <1>5, CountIsFound

\* However the first packets overtake each other or get lost, and wherever the sequence number
\* wraps: decrypt() opens every one that comes, for any range of the sequence number.
THEOREM PacketsOpen == SrSpec => []EveryPacketOpens
<1>1. SrInit => SrInv
  <2> SUFFICES ASSUME SrInit PROVE SrInv
    OBVIOUS
  <2>1. first \in FirstIndex /\ gap \in Gaps
    BY Zenon DEF SrInit
  <2> QED BY Zenon, <2>1, SentArePackets DEF SrInit, SrInv, EveryPacketOpens
<1>2. SrInv /\ [SrNext]_srVars => SrInv'
  <2> SUFFICES ASSUME SrInv, [SrNext]_srVars PROVE SrInv'
    OBVIOUS
  <2>1. ASSUME NEW i \in 1 .. Late + 1, Arrive(i) PROVE SrInv'
    <3> DEFINE p == coming[i]
               Newest == IF p.index > ssrcState[p.ssrc] THEN p.index ELSE ssrcState[p.ssrc]
    <3>1. i \in DOMAIN coming /\ p \in Packet /\ first' = first /\ gap' = gap /\ raw' = Append(raw, p)
      BY <2>1 DEF Arrive, SrInv
    <3>2. coming' \in Seq(Packet)
      BY <2>1 DEF Arrive, SrInv
    <3>3. /\ opened' = Append(opened, p)
          /\ ssrcState' = [ssrcState EXCEPT ![p.ssrc] = Newest]
      BY Zenon, <2>1, <3>1, OpensAny DEF Arrive, Decrypt
    <3>4. Newest \in {ssrcState[p.ssrc], p.index}
      OBVIOUS
    <3>5. ssrcState' \in [Ssrc -> Reach \cup {-1}]
      BY Zenon, <3>1, <3>3, <3>4 DEF SrInv, Packet
    <3> QED BY Zenon, <3>1, <3>2, <3>3, <3>5 DEF SrInv, EveryPacketOpens, Packet, Reach
  <2>2. CASE Lose
    BY <2>2 DEF Lose, SrInv, EveryPacketOpens, Packet, Reach
  <2>3. CASE UNCHANGED srVars
    BY Zenon, <2>3 DEF srVars, SrInv, EveryPacketOpens, Packet, Reach
  <2> QED BY Zenon, <2>1, <2>2, <2>3 DEF SrNext
<1>3. SrInv => EveryPacketOpens
  BY Zenon DEF SrInv
<1> QED BY <1>1, <1>2, <1>3, PTL DEF SrSpec

-----------------------------------------------------------------------------
(* ControlChannel, sending: who holds the lock has the greatest counter.   *)

SendInv ==
    /\ sender \in [Sender -> [at : {"idle", "locked", "sealed"}, ctr : Nat]]
    /\ encCtr \in Nat /\ wrote \in Seq(Nat)
    /\ \A t \in Sender : sender[t].at # "idle" => sendMu = t
    /\ \A i \in 1 .. Len(wrote) : wrote[i] < encCtr
    /\ \A t \in Sender : sender[t].at = "sealed" =>
          sender[t].ctr < encCtr /\ \A i \in 1 .. Len(wrote) : wrote[i] < sender[t].ctr
    /\ WireOrder

\* Every step of a sender keeps the send invariant: the counter of a record is taken and the
\* record written under one lock.
LEMMA SendStep == ASSUME SendInv, SendNext PROVE SendInv'
<1> USE DEF SendInv
<1>1. ASSUME NEW t \in Sender, LockSend(t) PROVE SendInv'
  <2>1. /\ sender' \in [Sender -> [at : {"idle", "locked", "sealed"}, ctr : Nat]]
        /\ sender'[t].at = "locked" /\ sendMu' = t
        /\ \A u \in Sender : u # t => sender'[u] = sender[u]
        /\ encCtr' = encCtr /\ wrote' = wrote
    BY Zenon, <1>1 DEF LockSend
  <2>2. \A u \in Sender : sender[u].at = "idle"
    BY Zenon, <1>1, ChannelAssumption DEF LockSend
  <2> QED BY Zenon, <2>1, <2>2 DEF WireOrder, Rising
<1>2. ASSUME NEW t \in Sender, Seal(t) PROVE SendInv'
  BY <1>2, ChannelAssumption DEF Seal, WireOrder, Rising
<1>3. ASSUME NEW t \in Sender, Write(t) PROVE SendInv'
  <2>1. sender[t].at = "sealed" /\ sendMu = t
    BY Zenon, <1>3 DEF Write
  <2>2. \A u \in Sender : u # t => sender[u].at = "idle"
    BY Zenon, <2>1
  <2>3. /\ sender' \in [Sender -> [at : {"idle", "locked", "sealed"}, ctr : Nat]]
        /\ \A u \in Sender : sender'[u].at = "idle"
        /\ encCtr' = encCtr
    BY Zenon, <1>3, <2>2 DEF Write
  <2>4. wrote' \in Seq(Nat) /\ (\A i \in 1 .. Len(wrote') : wrote'[i] < encCtr) /\ WireOrder'
    <3>1. CASE wrote' = wrote
      BY Zenon, <3>1 DEF WireOrder
    <3>2. CASE wrote' = Append(wrote, sender[t].ctr)
      BY <2>1, <3>2 DEF WireOrder, Rising
    <3> QED BY Zenon, <1>3, <3>1, <3>2 DEF Write
  <2> QED BY Zenon, <2>3, <2>4
<1> QED BY Zenon, <1>1, <1>2, <1>3 DEF SendNext

-----------------------------------------------------------------------------
(* ControlChannel, reading.  Cell x of everything the Mac has sent.         *)

CellAt(x) == <<(x + 1) \div 2, 2 - (x % 2)>>
Cell == Nat \X {1, 2}

\* The cells of s are the ones that follow cell x.
Follow(s, x) == \A i \in 1 .. Len(s) : s[i] = CellAt(x + i)

\* The cipher of a reader that has opened j records, after[j] its counter.
Reader(after, j) == [ctr |-> after[j], chain |-> j]

\* The cells hold the records j + 1 .. j + n, and these are handed on.
Whole(cells, j, n) == \A i \in 1 .. n : cells[2 * i][1] = j + i
Handed(j, n) == [x \in 1 .. n |-> j + x]

\* The first j records were handed on.
HandedOn(after, j) == got = Handed(0, j) /\ dec = Reader(after, j)

\* after[r] is the counter of a reader that has opened r records.
CountsOK(after) ==
    /\ after \in [0 .. Len(recs) -> Nat] /\ after[0] = 0
    /\ after[Len(recs)] = IF ahead THEN macCtr + 1 ELSE macCtr
    /\ \A r \in 1 .. Len(recs) :
          IF recs[r].short THEN after[r] = after[r - 1] + 1
          ELSE after[r] = recs[r].ctr + 1 /\ recs[r].ctr \in Counters(after[r - 1])

\* While nothing was cut, j records are through, and the buffer and the wire hold the cells of the
\* others in order.
InStep(after, j) ==
    /\ HandedOn(after, j)
    /\ 2 * j + Len(buf) + Len(wire) = 2 * Len(recs)
    /\ Follow(buf, 2 * j) /\ Follow(wire, 2 * j + Len(buf))

ReadInv ==
    /\ recs \in Seq([short : BOOLEAN, ctr : Nat]) /\ macCtr \in Nat /\ ahead \in BOOLEAN
    /\ wire \in Seq(Cell) /\ buf \in Seq(Cell) /\ phase \in {"neg", "run"}
    /\ phase = "run" /\ ~cut => Len(buf) < 2
    /\ \E after : CountsOK(after) /\ (~cut => \E j \in 0 .. Len(recs) : InStep(after, j))

\* The cells of a record are its head and its rest.
LEMMA CellIs ==
  ASSUME NEW j \in Nat, NEW i \in Nat
  PROVE  /\ CellAt(2 * j + 2 * i)[1] = j + i
         /\ CellAt(2 * j + 1)[2] = 1
         /\ CellAt(2 * j + 1) = <<j + 1, 1>> /\ CellAt(2 * j + 2) = <<j + 1, 2>>
         /\ CellAt(i) \in Cell
BY DEF CellAt, Cell

\* One more record is handed on.
LEMMA Longer ==
  ASSUME NEW j \in Nat, NEW i \in Nat
  PROVE  Append([x \in 1 .. i |-> j + x], j + (i + 1)) = [x \in 1 .. i + 1 |-> j + x]
OBVIOUS

\* decrypt_stream hands on n whole records in order and counts each of them.
LEMMA ReadsWhole ==
  ASSUME ReadInv, NEW after, CountsOK(after),
         NEW j \in Nat, NEW n \in Nat, j + n <= Len(recs),
         HandedOn(after, j),
         NEW cells, Whole(cells, j, n)
  PROVE  ReadRecords(cells, n) =
            [ctr |-> after[j + n], chain |-> j + n, out |-> Handed(j, n)]
<1> DEFINE g == [i \in 0 .. n |->
                   [ctr |-> after[j + i], chain |-> j + i, out |-> [x \in 1 .. i |-> j + x]]]
           Body(f) == [i \in 0 .. n |->
                   IF i = 0 THEN [ctr |-> dec.ctr, chain |-> dec.chain, out |-> <<>>]
                   ELSE DecryptMessage(f[i - 1], cells[2 * i][1])]
           f == CHOOSE h : h = Body(h)
<1>1. g[0] = [ctr |-> dec.ctr, chain |-> dec.chain, out |-> <<>>]
  BY DEF Reader, HandedOn
<1>2. ASSUME NEW i \in 1 .. n PROVE g[i] = DecryptMessage(g[i - 1], cells[2 * i][1])
  <2>1. /\ cells[2 * i][1] = j + i /\ j + i \in 1 .. Len(recs) /\ i - 1 \in 0 .. n /\ i - 1 \in Nat
        /\ j + (i - 1) = (j + i) - 1 /\ (i - 1) + 1 = i
    BY DEF Whole
  <2>2. Append([x \in 1 .. i - 1 |-> j + x], j + i) = [x \in 1 .. i |-> j + x]
    BY Zenon, <2>1, Longer
  <2> DEFINE r == j + i
             o == [x \in 1 .. i - 1 |-> j + x]
             p == [x \in 1 .. i |-> j + x]
  <2>3. g[i] = [ctr |-> after[r], chain |-> r, out |-> p]
    OBVIOUS
  <2>4. g[i - 1] = [ctr |-> after[r - 1], chain |-> r - 1, out |-> o]
    BY Zenon, <2>1
  <2>5. Append(o, r) = p
    BY Zenon, <2>2
  <2>6. r \in 1 .. Len(recs) /\ cells[2 * i][1] = r
    BY Zenon, <2>1
  <2> HIDE DEF o, p, g, r
  <2>7. IF recs[r].short THEN after[r] = after[r - 1] + 1
        ELSE after[r] = recs[r].ctr + 1 /\ recs[r].ctr \in Counters(after[r - 1])
    BY Zenon, <2>6 DEF CountsOK
  <2>8. /\ g[i - 1].chain = r - 1 /\ g[i - 1].ctr = after[r - 1] /\ g[i - 1].out = o
    BY <2>4
  <2> DEFINE s == g[i - 1]
  <2> HIDE DEF s
  <2>9. CASE recs[r].short
    BY Zenon, <2>3, <2>5, <2>6, <2>7, <2>8, <2>9 DEF DecryptMessage, s
  <2>10. CASE ~recs[r].short
    <3>1. s.chain = r - 1 /\ recs[r].ctr \in Counters(s.ctr)
      BY Zenon, <2>7, <2>8, <2>10 DEF s
    <3>2. DecryptMessage(s, r) = [ctr |-> recs[r].ctr + 1, chain |-> r, out |-> Append(s.out, r)]
      BY Zenon, <2>10, <3>1 DEF DecryptMessage
    <3> QED BY Zenon, <2>3, <2>5, <2>6, <2>7, <2>8, <2>10, <3>2 DEF s
  <2> QED BY Zenon, <2>9, <2>10
<1>3. g = Body(g)
  <2> HIDE DEF g
  <2>1. g = [i \in 0 .. n |-> g[i]]
    BY Zenon DEF g
  <2>2. \A i \in 0 .. n : g[i] = Body(g)[i]
    BY <1>1, <1>2
  <2> QED BY Zenon, <2>1, <2>2
<1>4. f = Body(f)
  <2> HIDE DEF g, Body
  <2> QED BY Zenon, <1>3
<1>9. \A h : \A i \in 1 .. n : Body(h)[i] = DecryptMessage(h[i - 1], cells[2 * i][1])
  OBVIOUS
<1>5. ReadRecords(cells, n) = f[n]
  BY Zenon DEF ReadRecords
<1>6. ASSUME NEW i \in 0 .. n, f[i] # g[i] PROVE FALSE
  <2> DEFINE T == {x \in 0 .. n : f[x] # g[x]}
  <2> HIDE DEF f, g
  <2>0. 0 .. n \in SUBSET Nat
    OBVIOUS
  <2>1. T \in SUBSET Nat /\ T # {}
    BY Zenon, <1>6, <2>0
  <2>2. PICK m \in T : \A t \in T : m <= t
    BY Zenon, <2>1, LeastElement
  <2>3. m # 0
    BY Zenon, <1>1, <1>4
  <2>4. m - 1 \in 0 .. n /\ m \in 1 .. n
    BY <2>3
  <2>5. f[m - 1] = g[m - 1]
    BY <2>2, <2>4
  <2>6. f[m] = DecryptMessage(f[m - 1], cells[2 * m][1])
    <3> HIDE DEF Body
    <3> QED BY Zenon, <1>4, <1>9, <2>4
  <2> QED BY Zenon, <1>2, <2>4, <2>5, <2>6
<1>7. f[n] = g[n]
  <2> HIDE DEF f, g
  <2> QED BY <1>6
<1>8. g[n] = [ctr |-> after[j + n], chain |-> j + n, out |-> Handed(j, n)]
  BY DEF Handed
<1> QED BY Zenon, <1>5, <1>7, <1>8

\* A record is two cells.
LEMMA HalfIs ==
  ASSUME NEW l \in Nat, NEW n \in Nat, 2 * n <= l, l < 2 * n + 2
  PROVE  l \div 2 = n
OBVIOUS

\* The Mac has sent the cells.
Fits(cells, j) == 2 * j + Len(cells) <= 2 * Len(recs)

\* The cells after record j hold n whole records, and so end in the one after record m.
EndsAt(cells, j, n, m) == m = j + n /\ 2 * n <= Len(cells) /\ Len(cells) < 2 * n + 2

\* What decrypt_stream makes of the cells after record j when n records are whole.
Decrypts(after, cells, k, j, n, m) ==
    /\ DecryptStream(cells, k).rest = SubSeq(cells, 2 * n + 1, Len(cells))
    /\ DecryptStream(cells, k).out = Handed(j, n)
    /\ DecryptStream(cells, k).dec = Reader(after, m)

\* decrypt_stream on the cells after record j: the whole records are handed on, and the rest of
\* the last one is kept.
LEMMA DecryptsWhole ==
  ASSUME ReadInv, NEW after, CountsOK(after),
         NEW j \in Nat, NEW cells \in Seq(Cell), Fits(cells, j),
         HandedOn(after, j), Follow(cells, 2 * j), NEW k,
         NEW n \in Nat, NEW m \in Nat, EndsAt(cells, j, n, m)
  PROVE  Decrypts(after, cells, k, j, n, m)
<1>0. m = j + n /\ 2 * n <= Len(cells) /\ Len(cells) < 2 * n + 2
  BY Zenon DEF EndsAt
<1>1. n \in Nat /\ j + n <= Len(recs) /\ 2 * n <= Len(cells)
  BY <1>0 DEF ReadInv, Fits
<1>2. Whole(cells, j, n)
  <2> SUFFICES ASSUME NEW i \in 1 .. n PROVE cells[2 * i][1] = j + i
    BY Zenon DEF Whole
  <2>1. 2 * i \in 1 .. Len(cells) /\ i \in Nat
    BY <1>1
  <2> QED BY Zenon, <2>1, CellIs DEF Follow
<1>3. cells # <<>> => cells[1][2] = 1
  <2>1. cells # <<>> => 1 \in 1 .. Len(cells)
    OBVIOUS
  <2> QED BY Zenon, <2>1, CellIs DEF Follow
<1>4. ReadRecords(cells, n) =
            [ctr |-> after[j + n], chain |-> j + n, out |-> Handed(j, n)]
  BY Zenon, <1>1, <1>2, ReadsWhole
<1>5. (IF cells # <<>> /\ cells[1][2] = 1 THEN Len(cells) \div 2 ELSE 0) = n
  <2>1. Len(cells) \in Nat /\ (cells = <<>> => n = 0)
    BY <1>0
  <2>2. Len(cells) \div 2 = n
    BY Zenon, <1>0, <2>1, HalfIs
  <2> QED BY Zenon, <1>3, <2>1, <2>2
<1>6. ~(cells # <<>> /\ cells[1][2] = 2)
  BY <1>3
<1>7. DecryptStream(cells, k) =
        [rest |-> SubSeq(cells, 2 * n + 0 + 1, Len(cells)), out |-> ReadRecords(cells, n).out,
         dec  |-> [ctr |-> ReadRecords(cells, n).ctr, chain |-> ReadRecords(cells, n).chain]]
  <2>1. ~(0 > 0)
    OBVIOUS
  <2> QED BY Zenon, <1>5, <1>6, <2>1 DEF DecryptStream
<1>8. 2 * n + 0 + 1 = 2 * n + 1
  BY <1>1
<1>9. /\ DecryptStream(cells, k).rest = SubSeq(cells, 2 * n + 1, Len(cells))
      /\ DecryptStream(cells, k).out = ReadRecords(cells, n).out
      /\ DecryptStream(cells, k).dec =
            [ctr |-> ReadRecords(cells, n).ctr, chain |-> ReadRecords(cells, n).chain]
  <2> DEFINE d == [ctr |-> ReadRecords(cells, n).ctr, chain |-> ReadRecords(cells, n).chain]
             t == SubSeq(cells, 2 * n + 1, Len(cells))
  <2>1. DecryptStream(cells, k) = [rest |-> t, out |-> ReadRecords(cells, n).out, dec |-> d]
    BY Zenon, <1>7, <1>8
  <2> HIDE DEF d, t
  <2>2. /\ DecryptStream(cells, k).rest = t /\ DecryptStream(cells, k).dec = d
        /\ DecryptStream(cells, k).out = ReadRecords(cells, n).out
    BY <2>1
  <2> QED BY Zenon, <2>2 DEF d, t
<1>10. /\ ReadRecords(cells, n).out = Handed(j, n) /\ ReadRecords(cells, n).ctr = after[j + n]
       /\ ReadRecords(cells, n).chain = j + n
  BY <1>4
<1> QED BY Zenon, <1>0, <1>9, <1>10 DEF Reader, Decrypts

\* What was kept, and what TCP delivers next, are the cells after record j together.
LEMMA FollowHead ==
  ASSUME NEW w \in Seq(Cell), NEW b \in Seq(Cell), NEW n \in 0 .. Len(w), NEW x \in Nat,
         Follow(b, x), Follow(w, x + Len(b))
  PROVE  /\ b \o SubSeq(w, 1, n) \in Seq(Cell) /\ Len(b \o SubSeq(w, 1, n)) = Len(b) + n
         /\ Follow(b \o SubSeq(w, 1, n), x)
<1> DEFINE p == SubSeq(w, 1, n)
<1>1. p \in Seq(Cell) /\ Len(p) = n /\ \A i \in 1 .. n : p[i] = w[i]
  OBVIOUS
<1> HIDE DEF p
<1>2. /\ b \o p \in Seq(Cell) /\ Len(b \o p) = Len(b) + n /\ Len(b) \in Nat
      /\ \A i \in 1 .. Len(b) + n : (b \o p)[i] = IF i <= Len(b) THEN b[i] ELSE p[i - Len(b)]
  BY <1>1 DEF p
<1>3. ASSUME NEW i \in 1 .. Len(b) + n PROVE (b \o p)[i] = CellAt(x + i)
  <2>1. CASE i <= Len(b)
    BY <1>2, <2>1 DEF Follow
  <2>2. CASE ~(i <= Len(b))
    <3>1. /\ i - Len(b) \in 1 .. Len(w) /\ i - Len(b) \in 1 .. n
          /\ (x + Len(b)) + (i - Len(b)) = x + i
      BY <1>2, <2>2
    <3>2. (b \o p)[i] = w[i - Len(b)]
      BY Zenon, <1>1, <1>2, <2>2, <3>1
    <3> QED BY Zenon, <3>1, <3>2 DEF Follow
  <2> QED BY Zenon, <2>1, <2>2
<1>4. Follow(b \o p, x)
  BY Zenon, <1>2, <1>3 DEF Follow
<1> QED BY Zenon, <1>2, <1>4 DEF p

\* What TCP has not delivered yet follows what it has.
LEMMA FollowRest ==
  ASSUME NEW w \in Seq(Cell), NEW n \in 0 .. Len(w), NEW x \in Nat, Follow(w, x)
  PROVE  Follow(SubSeq(w, n + 1, Len(w)), x + n)
<1> DEFINE t == SubSeq(w, n + 1, Len(w))
<1>1. t \in Seq(Cell) /\ Len(t) = Len(w) - n /\ \A i \in 1 .. Len(w) - n : t[i] = w[n + i]
  OBVIOUS
<1> HIDE DEF t
<1>2. ASSUME NEW i \in 1 .. Len(t) PROVE t[i] = CellAt((x + n) + i)
  <2>1. n + i \in 1 .. Len(w) /\ x + (n + i) = (x + n) + i /\ i \in 1 .. Len(w) - n
    BY <1>1
  <2> QED BY Zenon, <1>1, <2>1 DEF Follow
<1> QED BY Zenon, <1>2 DEF Follow, t

\* What TCP has not delivered yet are cells.
LEMMA RestIs ==
  ASSUME NEW w \in Seq(Cell), NEW n \in 0 .. Len(w)
  PROVE  SubSeq(w, n + 1, Len(w)) \in Seq(Cell) /\ Len(SubSeq(w, n + 1, Len(w))) = Len(w) - n
OBVIOUS

\* The cells of a record the Mac sends follow the ones it has sent.
LEMMA FollowMore ==
  ASSUME NEW w \in Seq(Cell), NEW r \in Nat, NEW x \in Nat, x + Len(w) = 2 * r, Follow(w, x)
  PROVE  /\ w \o <<<<r + 1, 1>>, <<r + 1, 2>>>> \in Seq(Cell)
         /\ Len(w \o <<<<r + 1, 1>>, <<r + 1, 2>>>>) = Len(w) + 2
         /\ Follow(w \o <<<<r + 1, 1>>, <<r + 1, 2>>>>, x)
<1> DEFINE a == <<r + 1, 1>>
           b == <<r + 1, 2>>
           v == w \o <<a, b>>
<1>1. a \in Cell /\ b \in Cell
  BY DEF Cell
<1>2. a = CellAt(x + (Len(w) + 1)) /\ b = CellAt(x + (Len(w) + 2))
  <2>1. x + (Len(w) + 1) = 2 * r + 1 /\ x + (Len(w) + 2) = 2 * r + 2
    OBVIOUS
  <2> QED BY Zenon, <2>1, CellIs
<1> HIDE DEF a, b
<1>3. /\ v \in Seq(Cell) /\ Len(v) = Len(w) + 2
      /\ (\A i \in 1 .. Len(w) : v[i] = w[i])
      /\ v[Len(w) + 1] = a /\ v[Len(w) + 2] = b
  BY <1>1
<1> HIDE DEF v
<1>4. ASSUME NEW i \in 1 .. Len(v) PROVE v[i] = CellAt(x + i)
  <2>1. i \in 1 .. Len(w) \/ i = Len(w) + 1 \/ i = Len(w) + 2
    BY <1>3
  <2> QED BY Zenon, <1>2, <1>3, <2>1 DEF Follow
<1>5. Follow(v, x)
  BY Zenon, <1>4 DEF Follow
<1> QED BY Zenon, <1>3, <1>5 DEF v, a, b

\* Handing on the next n records keeps what was handed on whole and in order.
LEMMA HandsOn ==
  ASSUME NEW j \in Nat, NEW n \in Nat
  PROVE  Handed(0, j) \o Handed(j, n) = Handed(0, j + n)
BY DEF Handed

\* The Mac sends a record, and leaves some counters out.
LEMMA MacStep == ASSUME ReadInv, NEW short \in BOOLEAN, NEW skip \in 0 .. CtrWindow - 1,
                        MacSends(short, skip)
                 PROVE  ReadInv'
<1>1. PICK after : CountsOK(after) /\ (~cut => \E j \in 0 .. Len(recs) : InStep(after, j))
  BY Zenon DEF ReadInv
<1>2. /\ Len(recs) \in Nat /\ macCtr \in Nat /\ macCtr + skip \in Nat
      /\ recs \in Seq([short : BOOLEAN, ctr : Nat]) /\ after[Len(recs)] \in Nat
  BY <1>1, ChannelAssumption DEF ReadInv, CountsOK
<1>9. PICK L \in Nat : L = Len(recs)
  BY Zenon, <1>2
<1>10. PICK new \in Nat : new = IF short THEN after[L] + 1 ELSE macCtr + skip + 1
  <2>1. CASE short
    BY <1>2, <1>9, <2>1
  <2>2. CASE ~short
    BY <1>2, <1>9, <2>2
  <2> QED BY Zenon, <2>1, <2>2
<1>11. PICK next : next = [r \in 0 .. L + 1 |-> IF r = L + 1 THEN new ELSE after[r]]
  BY Zenon
<1>3. /\ recs' \in Seq([short : BOOLEAN, ctr : Nat]) /\ Len(recs') = L + 1
      /\ recs'[L + 1].short = short /\ recs'[L + 1].ctr = macCtr + skip
      /\ \A r \in 1 .. L : recs'[r] = recs[r]
  <2> DEFINE rec == [short |-> short, ctr |-> macCtr + skip]
  <2>1. rec \in [short : BOOLEAN, ctr : Nat] /\ rec.short = short /\ rec.ctr = macCtr + skip
    BY Zenon, <1>2
  <2>2. recs' = Append(recs, rec)
    BY Zenon DEF MacSends
  <2> HIDE DEF rec
  <2>3. /\ recs' \in Seq([short : BOOLEAN, ctr : Nat]) /\ Len(recs') = L + 1
        /\ recs'[L + 1] = rec /\ \A r \in 1 .. L : recs'[r] = recs[r]
    BY <1>2, <1>9, <2>1, <2>2
  <2> QED BY Zenon, <2>1, <2>3
<1>4. /\ macCtr' \in Nat /\ ahead' \in BOOLEAN
      /\ new = IF ahead' THEN macCtr' + 1 ELSE macCtr'
  <2>0. /\ \/ macCtr' = macCtr + skip + 1 /\ ahead' = (ahead /\ short)
           \/ short /\ ~ahead /\ macCtr' = macCtr /\ ahead' = TRUE
        /\ short => skip = 0
        /\ ahead \in BOOLEAN
        /\ after[L] = IF ahead THEN macCtr + 1 ELSE macCtr
    BY Zenon, <1>1, <1>9 DEF ReadInv, MacSends, CountsOK
  <2>1. CASE ~short
    <3>1. macCtr' = macCtr + skip + 1 /\ ~ahead' /\ ahead' \in BOOLEAN
      BY Zenon, <2>0, <2>1
    <3> QED BY Zenon, <1>2, <1>10, <2>1, <3>1
  <2>2. CASE short /\ macCtr' = macCtr + skip + 1 /\ ahead' = (ahead /\ short)
    <3>1. ahead' \in BOOLEAN /\ (ahead' <=> ahead) /\ skip = 0
      BY Zenon, <2>0, <2>2
    <3> QED BY <1>2, <1>10, <2>0, <2>2, <3>1
  <2>3. CASE short /\ ~ahead /\ macCtr' = macCtr /\ ahead' = TRUE
    BY Zenon, <1>2, <1>10, <2>0, <2>3
  <2> QED BY Zenon, <2>0, <2>1, <2>2, <2>3
<1>5. ~short => macCtr + skip \in Counters(after[L])
  BY <1>1, <1>2, <1>9, ChannelAssumption DEF ReadInv, CountsOK, Counters
<1>6. CountsOK(next)'
  <2>1. next \in [0 .. L + 1 -> Nat] /\ next[L + 1] = new /\ \A r \in 0 .. L : next[r] = after[r]
    <3>1. \A r \in 0 .. L : r \in 0 .. L + 1 /\ r # L + 1 /\ after[r] \in Nat
      BY <1>1, <1>9 DEF CountsOK
    <3>2. \A r \in 0 .. L + 1 : r = L + 1 \/ r \in 0 .. L
      OBVIOUS
    <3>3. L + 1 \in 0 .. L + 1
      OBVIOUS
    <3> QED BY Zenon, <1>11, <3>1, <3>2, <3>3
  <2>2. \A r \in 1 .. L : IF recs'[r].short THEN next[r] = next[r - 1] + 1
          ELSE next[r] = recs'[r].ctr + 1 /\ recs'[r].ctr \in Counters(next[r - 1])
    <3> SUFFICES ASSUME NEW r \in 1 .. L
                 PROVE  IF recs'[r].short THEN next[r] = next[r - 1] + 1
                        ELSE next[r] = recs'[r].ctr + 1 /\ recs'[r].ctr \in Counters(next[r - 1])
      OBVIOUS
    <3>1. recs'[r] = recs[r] /\ next[r] = after[r] /\ next[r - 1] = after[r - 1]
      BY <1>3, <2>1
    <3> QED BY Zenon, <1>1, <1>9, <3>1 DEF CountsOK
  <2>3. IF recs'[L + 1].short THEN next[L + 1] = next[L] + 1
          ELSE next[L + 1] = recs'[L + 1].ctr + 1 /\ recs'[L + 1].ctr \in Counters(next[L])
    BY <1>3, <1>5, <1>10, <2>1
  <2>4. next[0] = 0
    BY <1>1, <2>1 DEF CountsOK
  <2>5. (L + 1) - 1 = L /\ 1 .. L + 1 = 1 .. L \cup {L + 1}
    OBVIOUS
  <2>6. \A r \in 1 .. L + 1 : IF recs'[r].short THEN next[r] = next[r - 1] + 1
          ELSE next[r] = recs'[r].ctr + 1 /\ recs'[r].ctr \in Counters(next[r - 1])
    BY Zenon, <2>2, <2>3, <2>5
  <2> QED BY Zenon, <1>3, <1>4, <2>1, <2>4, <2>6 DEF CountsOK
<1>7. ~cut => \E j \in 0 .. Len(recs') : InStep(next, j)'
  <2> SUFFICES ASSUME ~cut PROVE \E j \in 0 .. Len(recs') : InStep(next, j)'
    OBVIOUS
  <2>0. PICK j \in 0 .. L : InStep(after, j)
    BY Zenon, <1>1, <1>9
  <2>1. j \in Nat /\ Len(buf) \in Nat /\ Len(wire) \in Nat /\ wire \in Seq(Cell)
        /\ 2 * j + Len(buf) + Len(wire) = 2 * L /\ 2 * j + Len(buf) \in Nat
    <3>1. j \in Nat /\ Len(buf) \in Nat /\ Len(wire) \in Nat
      BY DEF ReadInv
    <3>2. 2 * j + Len(buf) + Len(wire) = 2 * L /\ wire \in Seq(Cell)
      BY Zenon, <2>0, <1>9 DEF InStep, ReadInv
    <3> QED BY <3>1, <3>2
  <2>2. next[j] = after[j]
    <3>1. j \in 0 .. L + 1 /\ j # L + 1
      OBVIOUS
    <3> QED BY Zenon, <1>11, <3>1
  <2>3. wire' = wire \o <<<<L + 1, 1>>, <<L + 1, 2>>>> /\ got' = got /\ dec' = dec /\ buf' = buf
    BY Zenon, <1>9 DEF MacSends
  <2>4. Len(wire') = Len(wire) + 2 /\ Follow(wire, 2 * j + Len(buf))'
    BY Zenon, <2>0, <2>1, <2>3, FollowMore DEF InStep
  <2>5. got' = Handed(0, j) /\ dec' = Reader(next, j) /\ Follow(buf, 2 * j)'
    BY Zenon, <2>0, <2>2, <2>3 DEF InStep, HandedOn, Reader, Follow
  <2>6. 2 * j + Len(buf') + Len(wire') = 2 * Len(recs') /\ j \in 0 .. Len(recs')
    <3>1. Len(buf') = Len(buf) /\ Len(wire') = Len(wire) + 2 /\ Len(recs') = L + 1
      BY Zenon, <1>3, <2>3, <2>4
    <3>2. j \in 0 .. L + 1
      OBVIOUS
    <3> QED BY <2>1, <3>1, <3>2
  <2> QED BY Zenon, <2>4, <2>5, <2>6 DEF InStep, HandedOn
<1>8. wire' \in Seq(Cell) /\ buf' = buf /\ phase' = phase /\ cut' = cut
  BY <1>2 DEF ReadInv, MacSends, Cell
<1> QED BY Zenon, <1>3, <1>4, <1>6, <1>7, <1>8 DEF ReadInv

\* The negotiation reads from the connection.
LEMMA NegReadStep == ASSUME ReadInv, NEW n \in 1 .. Len(wire), NegRead(n) PROVE ReadInv'
<1>1. PICK after : CountsOK(after) /\ (~cut => \E j \in 0 .. Len(recs) : InStep(after, j))
  BY Zenon DEF ReadInv
<1>2. /\ wire' = SubSeq(wire, n + 1, Len(wire)) /\ buf' = buf \o SubSeq(wire, 1, n)
      /\ recs' = recs /\ macCtr' = macCtr /\ ahead' = ahead /\ cut' = cut /\ dec' = dec
      /\ got' = got /\ phase' = "neg"
      /\ wire \in Seq(Cell) /\ buf \in Seq(Cell)
  BY Zenon DEF NegRead, Receive, Piece, ReadInv
<1>3. wire' \in Seq(Cell) /\ Len(wire') = Len(wire) - n /\ buf' \in Seq(Cell) /\ n \in 0 .. Len(wire)
  BY <1>2
<1>4. CountsOK(after)'
  BY Zenon, <1>1, <1>2 DEF CountsOK
<1>5. ASSUME ~cut, NEW j \in 0 .. Len(recs), InStep(after, j) PROVE InStep(after, j)'
  <2>1. /\ Len(buf) \in Nat /\ Len(wire) \in Nat /\ j \in Nat /\ Len(recs) \in Nat
    BY DEF ReadInv
  <2>5. 2 * j + Len(buf) + Len(wire) = 2 * Len(recs) /\ 2 * j \in Nat /\ 2 * j + Len(buf) \in Nat
    <3>1. 2 * j + Len(buf) + Len(wire) = 2 * Len(recs)
      BY Zenon, <1>5 DEF InStep
    <3> QED BY <2>1, <3>1
  <2>2. Len(buf') = Len(buf) + n /\ Follow(buf', 2 * j)
    BY Zenon, <1>2, <1>3, <1>5, <2>5, FollowHead DEF InStep
  <2>3. Follow(wire', (2 * j + Len(buf)) + n)
    BY Zenon, <1>2, <1>3, <1>5, <2>5, FollowRest DEF InStep
  <2>4. (2 * j + Len(buf)) + n = 2 * j + Len(buf') /\ 2 * j + Len(buf') + Len(wire') = 2 * Len(recs)
    <3>1. Len(buf') = Len(buf) + n /\ Len(wire') = Len(wire) - n
      BY Zenon, <1>3, <2>2
    <3> QED BY <2>1, <2>5, <3>1
  <2> QED BY Zenon, <1>2, <1>5, <2>2, <2>3, <2>4 DEF InStep, HandedOn, Follow
<1>6. cut' \/ \E j \in 0 .. Len(recs') : InStep(after, j)'
  BY Zenon, <1>1, <1>2, <1>5
<1>7. phase' # "run"
  BY Zenon, <1>2
<1> QED BY Zenon, <1>2, <1>3, <1>4, <1>6, <1>7 DEF ReadInv

\* What decrypt_stream makes of the cells after record j: the records up to m are handed on, and less
\* than one record is left.
Opens(after, j, cells, k, m) ==
    /\ got \o DecryptStream(cells, k).out = Handed(0, m)
    /\ DecryptStream(cells, k).dec = Reader(after, m)
    /\ DecryptStream(cells, k).rest \in Seq(Cell)
    /\ Len(DecryptStream(cells, k).rest) = 2 * j + Len(cells) - 2 * m
    /\ Len(DecryptStream(cells, k).rest) < 2
    /\ Follow(DecryptStream(cells, k).rest, 2 * m)

\* Opening cells from the start of a record on hands on the records that are whole, and leaves less
\* than one.
LEMMA OpenStep ==
  ASSUME ReadInv, NEW after, CountsOK(after), NEW j \in 0 .. Len(recs),
         NEW cells \in Seq(Cell), Fits(cells, j), HandedOn(after, j), Follow(cells, 2 * j), NEW k
  PROVE  \E m \in 0 .. Len(recs) : Opens(after, j, cells, k, m)
<1>1. PICK n \in Nat : n = Len(cells) \div 2
  OBVIOUS
<1>2. PICK m \in Nat : m = j + n
  BY DEF ReadInv
<1>3. /\ m \in 0 .. Len(recs) /\ 2 * n \in 0 .. Len(cells) /\ j \in Nat /\ 2 * j \in Nat
      /\ 2 * j + 2 * n = 2 * m /\ 2 * j + Len(cells) - 2 * m = Len(cells) - 2 * n
      /\ Len(cells) - 2 * n < 2
  BY <1>1, <1>2 DEF ReadInv, Fits
<1>4. EndsAt(cells, j, n, m) /\ j \in Nat
  BY <1>1, <1>2, <1>3 DEF EndsAt
<1>5. /\ DecryptStream(cells, k).rest = SubSeq(cells, 2 * n + 1, Len(cells))
      /\ DecryptStream(cells, k).out = Handed(j, n)
      /\ DecryptStream(cells, k).dec = Reader(after, m)
  <2>1. Decrypts(after, cells, k, j, n, m)
    BY Zenon, <1>4, DecryptsWhole
  <2> QED BY Zenon, <2>1 DEF Decrypts
<1>6. got \o DecryptStream(cells, k).out = Handed(0, m)
  <2>1. Handed(0, j) \o Handed(j, n) = Handed(0, j + n)
    BY Zenon, <1>3, HandsOn
  <2> QED BY Zenon, <1>2, <1>5, <2>1 DEF HandedOn
<1>7. Follow(SubSeq(cells, 2 * n + 1, Len(cells)), 2 * j + 2 * n)
  BY Zenon, <1>3, FollowRest
<1>8. /\ SubSeq(cells, 2 * n + 1, Len(cells)) \in Seq(Cell)
      /\ Len(SubSeq(cells, 2 * n + 1, Len(cells))) = Len(cells) - 2 * n
  BY Zenon, <1>3, RestIs
<1> QED BY Zenon, <1>3, <1>5, <1>6, <1>7, <1>8 DEF Opens

\* The negotiation has its answer; what it kept of a record it throws away.
LEMMA NegAnswerStep == ASSUME ReadInv, NegAnswer PROVE ReadInv'
<1>1. PICK after : CountsOK(after) /\ (~cut => \E j \in 0 .. Len(recs) : InStep(after, j))
  BY Zenon DEF ReadInv
<1>2. PICK k \in 0 .. Len(buf) :
         /\ dec' = DecryptStream(buf, k).dec /\ got' = got \o DecryptStream(buf, k).out
         /\ cut' = (cut \/ DecryptStream(buf, k).rest # <<>>)
  BY Zenon DEF NegAnswer
<1>3. /\ buf' = <<>> /\ phase' \in {"neg", "run"} /\ recs' = recs /\ macCtr' = macCtr
      /\ ahead' = ahead /\ wire' = wire /\ wire \in Seq(Cell) /\ buf \in Seq(Cell)
  BY Zenon DEF NegAnswer, ReadInv
<1>4. CountsOK(after)'
  BY Zenon, <1>1, <1>3 DEF CountsOK
<1>5. ASSUME ~cut, DecryptStream(buf, k).rest = <<>>
      PROVE  \E j \in 0 .. Len(recs') : InStep(after, j)'
  <2>1. PICK j \in 0 .. Len(recs) : InStep(after, j)
    BY Zenon, <1>1, <1>5
  <2>2. 2 * j + Len(buf) + Len(wire) = 2 * Len(recs) /\ HandedOn(after, j) /\ Follow(buf, 2 * j)
        /\ Follow(wire, 2 * j + Len(buf))
    BY Zenon, <2>1 DEF InStep
  <2>3. Fits(buf, j) /\ Len(buf) \in Nat /\ Len(wire) \in Nat
        /\ j \in Nat /\ Len(recs) \in Nat
    BY <1>3, <2>2 DEF ReadInv, Fits
  <2>4. PICK m \in 0 .. Len(recs) : Opens(after, j, buf, k, m)
    BY Zenon, <1>1, <1>3, <2>2, <2>3, OpenStep
  <2>5. 2 * j + Len(buf) = 2 * m /\ 2 * m + 0 = 2 * j + Len(buf) /\ Len(<<>>) = 0
    <3>1. Len(<<>>) = 2 * j + Len(buf) - 2 * m
      BY Zenon, <1>5, <2>4 DEF Opens
    <3> QED BY <2>3, <3>1
  <2>6. HandedOn(after, m)'
    BY Zenon, <1>2, <2>4 DEF HandedOn, Reader, Opens
  <2>7. Follow(buf, 2 * m)' /\ Follow(wire, 2 * m + Len(buf))'
    <3>1. Follow(<<>>, 2 * m)
      BY DEF Follow
    <3> QED BY Zenon, <1>3, <2>2, <2>5, <3>1 DEF Follow
  <2>8. 2 * m + Len(buf') + Len(wire') = 2 * Len(recs')
    <3>1. Len(buf') = 0 /\ Len(wire') = Len(wire) /\ Len(recs') = Len(recs)
      BY Zenon, <1>3
    <3> QED BY Zenon, <2>2, <2>3, <2>5, <3>1
  <2> QED BY Zenon, <1>3, <2>6, <2>7, <2>8 DEF InStep
<1>6. cut' \/ \E j \in 0 .. Len(recs') : InStep(after, j)'
  BY Zenon, <1>2, <1>5
<1>7. buf' \in Seq(Cell) /\ Len(buf') < 2
  BY <1>3
<1> QED BY Zenon, <1>3, <1>4, <1>6, <1>7 DEF ReadInv

\* Whatever decrypt_stream leaves is cells.
LEMMA RestTyped ==
  ASSUME NEW cells \in Seq(Cell), NEW k \in 0 .. Len(cells)
  PROVE  DecryptStream(cells, k).rest \in Seq(Cell)
<1> DEFINE n == IF cells # <<>> /\ cells[1][2] = 1 THEN Len(cells) \div 2 ELSE 0
           e == IF cells # <<>> /\ cells[1][2] = 2 THEN k ELSE 0
<1>1. n \in Nat /\ e \in Nat
  OBVIOUS
<1> HIDE DEF n, e
<1>2. SubSeq(cells, 2 * n + e + 1, Len(cells)) \in Seq(Cell)
  BY <1>1
<1>3. DecryptStream(cells, k).rest = SubSeq(cells, 2 * n + e + 1, Len(cells))
  BY Zenon DEF DecryptStream, n, e
<1> QED BY Zenon, <1>2, <1>3

\* tcp_thread reads from the connection and hands on what is whole.
LEMMA TcpReadStep == ASSUME ReadInv, NEW n \in 1 .. Len(wire), TcpRead(n) PROVE ReadInv'
<1>1. PICK after : CountsOK(after) /\ (~cut => \E j \in 0 .. Len(recs) : InStep(after, j))
  BY Zenon DEF ReadInv
<1>2. PICK k \in 0 .. Len(buf) + n :
         /\ dec' = DecryptStream(buf \o SubSeq(wire, 1, n), k).dec
         /\ got' = got \o DecryptStream(buf \o SubSeq(wire, 1, n), k).out
         /\ buf' = DecryptStream(buf \o SubSeq(wire, 1, n), k).rest
  BY Zenon DEF TcpRead, Piece
<1>3. /\ wire' = SubSeq(wire, n + 1, Len(wire)) /\ recs' = recs /\ macCtr' = macCtr
      /\ ahead' = ahead /\ phase' = phase /\ cut' = cut /\ wire \in Seq(Cell) /\ buf \in Seq(Cell)
  BY Zenon DEF TcpRead, Receive, ReadInv
<1>4. CountsOK(after)'
  BY Zenon, <1>1, <1>3 DEF CountsOK
<1>5. wire' \in Seq(Cell) /\ Len(wire') = Len(wire) - n /\ n \in 0 .. Len(wire)
      /\ buf \o SubSeq(wire, 1, n) \in Seq(Cell) /\ Len(buf \o SubSeq(wire, 1, n)) = Len(buf) + n
  BY <1>3
<1>6. buf' \in Seq(Cell)
  BY Zenon, <1>2, <1>5, RestTyped
<1>7. ASSUME ~cut PROVE Len(buf') < 2 /\ \E j \in 0 .. Len(recs') : InStep(after, j)'
  <2>1. PICK j \in 0 .. Len(recs) : InStep(after, j)
    BY Zenon, <1>1, <1>7
  <2>2. 2 * j + Len(buf) + Len(wire) = 2 * Len(recs) /\ HandedOn(after, j) /\ Follow(buf, 2 * j)
        /\ Follow(wire, 2 * j + Len(buf))
    BY Zenon, <2>1 DEF InStep
  <2>3. Len(buf) \in Nat /\ Len(wire) \in Nat /\ j \in Nat /\ Len(recs) \in Nat /\ 2 * j \in Nat
        /\ 2 * j + Len(buf) \in Nat
    BY <1>3, <2>2 DEF ReadInv
  <2>4. PICK cells : cells = buf \o SubSeq(wire, 1, n)
    BY Zenon
  <2>5. cells \in Seq(Cell) /\ Len(cells) = Len(buf) + n /\ Follow(cells, 2 * j)
    BY Zenon, <1>3, <1>5, <2>2, <2>3, <2>4, FollowHead
  <2>6. Fits(cells, j)
    <3>1. Len(cells) = Len(buf) + n
      BY Zenon, <2>5
    <3> QED BY <2>2, <2>3, <3>1 DEF Fits
  <2>7. PICK m \in 0 .. Len(recs) : Opens(after, j, cells, k, m)
    BY Zenon, <1>1, <2>2, <2>5, <2>6, OpenStep
  <2>8. /\ HandedOn(after, m)' /\ Follow(buf, 2 * m)' /\ Len(buf') < 2
        /\ Len(buf') = 2 * j + Len(cells) - 2 * m
    BY Zenon, <1>2, <2>4, <2>7 DEF HandedOn, Reader, Opens, Follow
  <2>9. 2 * m + Len(buf') = (2 * j + Len(buf)) + n /\ 2 * m + Len(buf') + Len(wire') = 2 * Len(recs)
    <3>1. /\ Len(buf') = 2 * j + Len(cells) - 2 * m /\ Len(cells) = Len(buf) + n
          /\ Len(wire') = Len(wire) - n /\ 2 * j + Len(buf) + Len(wire) = 2 * Len(recs)
      BY Zenon, <1>5, <2>2, <2>5, <2>8
    <3>2. m \in Nat
      OBVIOUS
    <3>3. /\ Len(buf') = 2 * j + (Len(buf) + n) - 2 * m /\ n \in Nat
          /\ 2 * j + Len(buf) + Len(wire) = 2 * Len(recs) /\ Len(wire') = Len(wire) - n
      BY <2>3, <3>1
    <3>4. 2 * m + Len(buf') = (2 * j + Len(buf)) + n
      BY <2>3, <3>2, <3>3
    <3>5. (2 * j + Len(buf)) + n + Len(wire') = 2 * Len(recs)
      <4>1. Len(buf) \in Nat /\ Len(wire) \in Nat /\ j \in Nat /\ Len(recs) \in Nat /\ n \in Nat
        BY <2>3
      <4>2. 2 * j + Len(buf) + Len(wire) = 2 * Len(recs) /\ Len(wire') = Len(wire) - n
        BY Zenon, <3>3
      <4> QED BY <4>1, <4>2
    <3> QED BY Zenon, <3>4, <3>5
  <2>10. Follow(wire', (2 * j + Len(buf)) + n)
    <3>1. Follow(SubSeq(wire, n + 1, Len(wire)), (2 * j + Len(buf)) + n)
      BY Zenon, <1>3, <1>5, <2>2, <2>3, FollowRest
    <3> QED BY Zenon, <1>3, <3>1
  <2> QED BY Zenon, <1>3, <2>8, <2>9, <2>10 DEF InStep, Follow
<1>8. cut' \/ (Len(buf') < 2 /\ \E j \in 0 .. Len(recs') : InStep(after, j)')
  BY Zenon, <1>3, <1>7
<1> QED BY Zenon, <1>3, <1>4, <1>5, <1>6, <1>8 DEF ReadInv

\* However TCP cuts the stream, whichever counters the Mac leaves out and whichever threads send: the
\* records on the wire carry rising counters (send_ctrl), and a reader the negotiation left at the start
\* of a record has handed on every whole record once and in order (decrypt_stream, tcp_thread).
THEOREM RecordsStayInOrder == ChSpec => []RecordsInOrder
<1> DEFINE Inv == SendInv /\ ReadInv
<1>1. ChInit => Inv
  <2> SUFFICES ASSUME ChInit PROVE Inv
    OBVIOUS
  <2>1. SendInv
    BY DEF ChInit, SendInv, WireOrder, Rising
  <2>2. CountsOK([r \in {0} |-> 0])
    BY DEF ChInit, CountsOK
  <2>3. InStep([r \in {0} |-> 0], 0)
    BY DEF ChInit, InStep, HandedOn, Handed, Reader, Follow
  <2>4. 0 \in 0 .. Len(recs) /\ recs \in Seq([short : BOOLEAN, ctr : Nat]) /\ wire \in Seq(Cell)
        /\ buf \in Seq(Cell) /\ Len(buf) < 2
    BY DEF ChInit
  <2>5. macCtr \in Nat /\ ahead \in BOOLEAN /\ phase \in {"neg", "run"}
    BY Zenon DEF ChInit
  <2> QED BY Zenon, <2>1, <2>2, <2>3, <2>4, <2>5 DEF ReadInv
<1>2. Inv /\ [\/ SendNext /\ UNCHANGED readVars
              \/ ReadNext /\ UNCHANGED sendVars]_<<sendVars, readVars>> => Inv'
  <2>1. ASSUME SendInv, UNCHANGED sendVars PROVE SendInv'
    BY Zenon, <2>1 DEF SendInv, sendVars, WireOrder, Rising
  <2>2. ASSUME ReadInv, UNCHANGED readVars PROVE ReadInv'
    BY Zenon, <2>2 DEF ReadInv, readVars, CountsOK, InStep, HandedOn, Reader, Follow
  <2>3. ASSUME ReadInv, ReadNext PROVE ReadInv'
    BY Zenon, <2>3, MacStep, NegReadStep, TcpReadStep, NegAnswerStep DEF ReadNext
  <2> QED BY Zenon, <2>1, <2>2, <2>3, SendStep DEF sendVars, readVars
<1>3. Inv => RecordsInOrder
  <2> SUFFICES ASSUME SendInv, ReadInv, phase = "run", ~cut
               PROVE  /\ Len(buf) < 2
                      /\ got = [i \in 1 .. (2 * Len(recs) - Len(wire) - Len(buf)) \div 2 |-> i]
    BY Zenon DEF RecordsInOrder, EveryRecordRead, SendInv
  <2>1. PICK after : \E j \in 0 .. Len(recs) : InStep(after, j)
    BY Zenon DEF ReadInv
  <2>2. PICK j \in 0 .. Len(recs) : InStep(after, j)
    BY Zenon, <2>1
  <2>3. /\ 2 * j + Len(buf) + Len(wire) = 2 * Len(recs) /\ got = Handed(0, j)
    BY Zenon, <2>2 DEF InStep, HandedOn
  <2>4. Len(buf) \in Nat /\ Len(wire) \in Nat /\ j \in Nat /\ Len(recs) \in Nat
    BY DEF ReadInv
  <2>5. (2 * Len(recs) - Len(wire) - Len(buf)) \div 2 = j
    BY <2>3, <2>4
  <2>6. Handed(0, j) = [i \in 1 .. j |-> i]
    BY <2>4 DEF Handed
  <2> QED BY Zenon, <2>3, <2>5, <2>6 DEF ReadInv
<1> QED BY <1>1, <1>2, <1>3, PTL DEF ChSpec

=============================================================================
