--------------------------- MODULE PictureProofs ----------------------------
(***************************************************************************)
(* Proofs about the pictures, from the decoders to the render loop:        *)
(* HevcRps, the pictures a slice may refer to; AvcRecovery, the way back   *)
(* from a broken reference; HwFallback, the way from the card to software; *)
(* and FrameHandoff, the frames that are published and taken.              *)
(***************************************************************************)
EXTENDS AvcRecovery, HwFallback, HevcRps, FrameHandoff, TLAPS

-----------------------------------------------------------------------------
(* HevcRps, for any number of low bits and any length of a sequence.       *)

\* A number lies between the multiples of m next to it.
LEMMA Quotient ==
  ASSUME NEW m \in Int, m > 0, NEW a \in Int
  PROVE  /\ a \div m \in Int /\ m * (a \div m) \in Int
         /\ m * (a \div m) <= a /\ a < m * (a \div m) + m
<1>1. a \div m \in Int /\ m * (a \div m) <= a /\ a < m * (a \div m + 1)
  OBVIOUS
<1>2. m * (a \div m + 1) = m * (a \div m) + m /\ m * (a \div m) \in Int
  BY <1>1
<1> QED BY Zenon, <1>1, <1>2

\* The remainder is what is left after a multiple of m.
LEMMA Remainder ==
  ASSUME NEW m \in Int, m > 0, NEW a \in Int, NEW q \in Int, NEW r \in Int,
         0 <= r, r < m, a = m * q + r
  PROVE  a % m = r
OBVIOUS

\* A picture's number in its low bits and the wraps of their range.
Lsb(a) == a % MaxLsb
Wraps(a) == MaxLsb * (a \div MaxLsb)

\* A picture order count is its wraps and its low bits.
LEMMA LowBits ==
  ASSUME NEW a \in Int
  PROVE  Lsb(a) \in 0 .. MaxLsb - 1 /\ Wraps(a) \in Int /\ a = Wraps(a) + Lsb(a)
<1> DEFINE q == a \div MaxLsb
           r == a - Wraps(a)
<1>0. MaxLsb \in Int /\ MaxLsb > 0
  BY RpsAssumption
<1>1. q \in Int /\ Wraps(a) \in Int /\ Wraps(a) <= a /\ a < Wraps(a) + MaxLsb
  BY Zenon, <1>0, Quotient DEF Wraps
<1>2. r \in 0 .. MaxLsb - 1 /\ a = Wraps(a) + r
  BY <1>0, <1>1
<1>3. a = MaxLsb * q + r
  BY Zenon, <1>2 DEF Wraps
<1>4. Lsb(a) = r
  <2> HIDE DEF q, r
  <2>1. r \in Int /\ 0 <= r /\ r < MaxLsb
    BY <1>0, <1>2
  <2> QED BY Zenon, <1>0, <1>1, <1>3, <2>1, Remainder DEF Lsb
<1> QED BY Zenon, <1>1, <1>2, <1>4

\* The range of the low bits has a middle.
LEMMA HalfOfEven == HalfLsb \in Nat /\ MaxLsb = 2 * HalfLsb /\ HalfLsb > 0
BY RpsAssumption DEF HalfLsb

\* Less than two wraps apart are at most one wrap.
LEMMA WrapsApart ==
  ASSUME NEW a \in Int, NEW p \in Int,
         Wraps(p) - Wraps(a) < 2 * MaxLsb, Wraps(p) - Wraps(a) > -(2 * MaxLsb)
  PROVE  Wraps(p) - Wraps(a) \in {-MaxLsb, 0, MaxLsb}
<1> DEFINE d == p \div MaxLsb - a \div MaxLsb
<1>0. MaxLsb \in Int /\ MaxLsb > 0
  BY RpsAssumption
<1>1. d \in Int /\ Wraps(p) - Wraps(a) = MaxLsb * d
  BY <1>0, Quotient DEF Wraps
<1> HIDE DEF d
<1>2. ASSUME d >= 2 PROVE FALSE
  <2>1. MaxLsb * d >= MaxLsb * 2
    BY <1>0, <1>1, <1>2
  <2> QED BY <1>0, <1>1, <2>1
<1>3. ASSUME d <= -2 PROVE FALSE
  <2>1. MaxLsb * d <= MaxLsb * (-2)
    BY <1>0, <1>1, <1>3
  <2> QED BY <1>0, <1>1, <2>1
<1>4. d \in {-1, 0, 1}
  BY <1>1, <1>2, <1>3
<1> QED BY <1>0, <1>1, <1>4

\* The high bits derived from the low ones are those of the picture, as long as
\* it is less than half the range away from the one before.
LEMMA MsbIsRight ==
  ASSUME NEW a \in Int, NEW p \in Int, p - a \in (1 - HalfLsb) .. HalfLsb,
         prev.lsb = Lsb(a), prev.msb = Wraps(a)
  PROVE  Msb(Lsb(p)) = Wraps(p)
<1>1. /\ Lsb(a) \in 0 .. MaxLsb - 1 /\ Wraps(a) \in Int /\ a = Wraps(a) + Lsb(a)
      /\ Lsb(p) \in 0 .. MaxLsb - 1 /\ Wraps(p) \in Int /\ p = Wraps(p) + Lsb(p)
  BY Zenon, LowBits
<1>2. Wraps(p) - Wraps(a) < 2 * MaxLsb /\ Wraps(p) - Wraps(a) > -(2 * MaxLsb)
  BY <1>1, HalfOfEven
<1>3. Wraps(p) - Wraps(a) \in {-MaxLsb, 0, MaxLsb}
  BY Zenon, <1>2, WrapsApart
<1> QED BY <1>1, <1>3, HalfOfEven DEF Msb

\* In the first sequence the tracker has what the decoder has.
Tracks ==
    /\ idrs \in Nat
    /\ idrs = 0 => /\ seen = given
                   /\ latest \in Int
                   /\ prev.lsb = Lsb(latest) /\ prev.msb = Wraps(latest)
                   /\ ConcealmentForetold

\* The IDR that starts the tracker is picture 0.
LEMMA TracksInit == RpsInit => Tracks
<1>1. Lsb(0) = 0 /\ Wraps(0) = 0
  BY RpsAssumption, LowBits DEF Lsb
<1> QED BY <1>1 DEF RpsInit, Tracks, ConcealmentForetold

\* check_slice and note_decoded keep up with the decoder until the next IDR.
LEMMA TracksStep == ASSUME Tracks, [RpsNext]_rpsVars PROVE Tracks'
<1>1. CASE FeedIdr \/ RpsReset
  BY <1>1 DEF FeedIdr, RpsReset, Tracks
<1>2. ASSUME NEW q \in 1 .. MaxPic, NEW d \in {1, 2}, FeedSlice(q, d) PROVE Tracks'
  <2>1. idrs' = idrs /\ latest' = q /\ q \in Int
    BY <1>2 DEF FeedSlice
  <2>2. CASE idrs = 0
    <3>1. Msb(Lsb(q)) = Wraps(q) /\ Msb(Lsb(q)) + Lsb(q) = q
      <4>1. /\ latest \in Int /\ q - latest \in (1 - HalfLsb) .. HalfLsb
            /\ prev.lsb = Lsb(latest) /\ prev.msb = Wraps(latest)
        BY Zenon, <1>2, <2>2 DEF FeedSlice, Tracks
      <4>2. Msb(Lsb(q)) = Wraps(q)
        BY Zenon, <2>1, <4>1, MsbIsRight
      <4>3. Wraps(q) + Lsb(q) = q
        BY Zenon, <2>1, LowBits
      <4> QED BY Zenon, <4>2, <4>3
    <3>2. /\ prev' = [msb |-> Msb(Lsb(q)), lsb |-> Lsb(q)]
          /\ seen' = seen \cup {Msb(Lsb(q)) + Lsb(q)} /\ given' = given \cup {q}
      BY Zenon, <1>2 DEF FeedSlice, Lsb
    <3>3. verdict' = [missing |-> (Msb(Lsb(q)) + Lsb(q)) - d \notin seen, absent |-> q - d \notin given]
      BY Zenon, <1>2 DEF FeedSlice, Lsb
    <3>4. prev' = [msb |-> Wraps(q), lsb |-> Lsb(q)] /\ seen' = given'
      BY Zenon, <2>2, <3>1, <3>2 DEF Tracks
    <3>5. verdict' = [missing |-> q - d \notin seen, absent |-> q - d \notin given]
      BY Zenon, <3>1, <3>3
    <3>6. ConcealmentForetold'
      BY Zenon, <2>2, <3>5 DEF ConcealmentForetold, Tracks
    <3> QED BY Zenon, <2>1, <3>4, <3>6 DEF Tracks
  <2> QED BY Zenon, <2>1, <2>2 DEF Tracks
<1>3. CASE UNCHANGED rpsVars
  BY Zenon, <1>3 DEF rpsVars, Tracks, ConcealmentForetold
<1> QED BY Zenon, <1>1, <1>2, <1>3 DEF RpsNext

\* Before the first IDR of the stream check_slice reports a slice exactly if its
\* reference was not given to the decoder, whatever was lost or reordered.
THEOREM TrackerForetells == RpsSpec => []ForetoldInFirstSequence
<1>1. Tracks => ForetoldInFirstSequence
  BY Zenon DEF Tracks, ForetoldInFirstSequence
<1> QED BY <1>1, TracksInit, TracksStep, PTL DEF RpsSpec

-----------------------------------------------------------------------------
(* AvcRecovery, for streams of any length and queues of any size.  The     *)
(* argument: while decode_one holds codec_mu_ only the worker itself can   *)
(* lower reference_reset_pending_, and it does so before the decode call,  *)
(* so that a break logged inside the call is still marked when publish()   *)
(* looks.                                                                  *)

\* codec_mu_ is held by whoever is inside decode_one or restart().
LockHeld ==
    /\ wpc \in {"filter", "reset", "accept", "send", "publish"} => lock = "worker"
    /\ rst # "idle" => lock = "watchdog"

\* A concealed frame that publish() is about to see belongs to a marked break.
ConcealedIsMarked ==
    wpc = "publish" /\ ~clean => resetPending

AvInv ==
    /\ AvTypeOK
    /\ LockHeld
    /\ LibavReports => ConcealedIsMarked /\ ConcealedNeverShown

\* TypeOK in two halves: the flags and program counters, and the units.
FlagTypes ==
    /\ awaitKey \in BOOLEAN /\ resetPending \in BOOLEAN /\ hasCtx \in BOOLEAN
    /\ ppc \in {"idle", "push", "mark"}
    /\ wpc \in {"idle", "enter", "filter", "reset", "accept", "send", "publish"}
    /\ clean \in BOOLEAN
    /\ rst \in {"idle", "flags", "drain"}
    /\ lock \in {"none", "worker", "watchdog"}
    /\ armed \in BOOLEAN
    /\ publishedBad \in BOOLEAN

UnitTypes ==
    /\ au \in Au /\ chain \in Au /\ published \in Au /\ lost \in Au
    /\ dropped \in Au /\ sentKey \in Au /\ hope \in Au
    /\ fed \in Unit /\ cur \in Unit
    /\ queue \in Seq(Unit) /\ Len(queue) <= QueueCap

\* The type invariant, in halves.
LEMMA TypeHalves == (AvTypeOK <=> FlagTypes /\ UnitTypes) /\ (AvTypeOK' <=> FlagTypes' /\ UnitTypes')
  BY Zenon DEF AvTypeOK, FlagTypes, UnitTypes

\* The flags keep their types.
LEMMA FlagStep == ASSUME AvTypeOK, AvNext PROVE FlagTypes'
<1> USE DEF FlagTypes, packetVars, workerVars
<1>0. FlagTypes
  BY Zenon, TypeHalves
<1>1. CASE Packet
  <2>1. CASE \E key \in BOOLEAN : FeedFilter(key)
    BY <1>0, <2>1 DEF FeedFilter
  <2>2. CASE FeedPush
    <3>1. armed \in BOOLEAN
      BY Zenon, <1>0
    <3>2. ppc' = "idle" /\ armed' \in BOOLEAN
      BY ONLY <2>2, <3>1, Zenon DEF FeedPush
    <3>3. UNCHANGED <<awaitKey, resetPending, hasCtx, rst, lock, wpc, clean, publishedBad>>
      BY ONLY <2>2, Zenon DEF FeedPush, workerVars
    <3> QED BY Zenon, <1>0, <3>2, <3>3
  <2>3. CASE LoseUnit \/ MarkAwait
    BY Zenon, <1>0, <2>3 DEF LoseUnit, MarkAwait
  <2> QED BY Zenon, <1>1, <2>1, <2>2, <2>3 DEF Packet
<1>2. CASE WorkerPop \/ EnterDecode \/ DecodeFilter \/ NoReset \/ Accept
  BY Zenon, <1>0, <1>2 DEF WorkerPop, EnterDecode, DecodeFilter, NoReset, Accept
<1>3. ASSUME NEW ok \in BOOLEAN, ResetContext(ok) PROVE FlagTypes'
  BY Zenon, <1>0, <1>3 DEF ResetContext
<1>4. CASE Send
  BY Zenon, <1>0, <1>4 DEF Send, HasReferences
<1>5. ASSUME NEW recover \in BOOLEAN, SendError(recover) \/ SendSilent(recover)
      PROVE  FlagTypes'
  BY Zenon, <1>0, <1>5 DEF SendError, SendSilent
<1>6. CASE Publish
  BY Zenon, <1>0, <1>6 DEF Publish
<1>7. CASE Watchdog
  BY Zenon, <1>0, <1>7 DEF Watchdog, RestartBegin, RestartFlags, RestartDrain
<1> QED BY Zenon, <1>1, <1>2, <1>3, <1>4, <1>5, <1>6, <1>7 DEF AvNext, Worker

\* The units, and the queue within its bound.
LEMMA UnitStep == ASSUME AvTypeOK, AvNext PROVE UnitTypes'
<1> USE DEF UnitTypes, packetVars, workerVars
<1>0. UnitTypes
  BY Zenon, TypeHalves
<1>1. 0 \in Au /\ (au < MaxAu => au + 1 \in Au)
  BY <1>0, RecoveryAssumption DEF Au
<1>2. fed.no \in Au /\ cur.no \in Au
  BY Zenon, <1>0 DEF Unit
<1>3. <<>> \in Seq(Unit) /\ Len(<<>>) <= QueueCap
  BY RecoveryAssumption
<1>4. ASSUME NEW key \in BOOLEAN, FeedFilter(key) PROVE UnitTypes'
  <2>1. fed' \in Unit
    BY <1>0, <1>1, <1>4 DEF FeedFilter, Unit
  <2> QED BY Zenon, <1>0, <1>1, <1>4, <2>1 DEF FeedFilter
<1>5. CASE FeedPush
  <2>1. queue' \in Seq(Unit) /\ Len(queue') <= QueueCap
    BY <1>0, <1>5, RecoveryAssumption DEF FeedPush
  <2> QED BY Zenon, <1>0, <1>2, <1>5, <2>1 DEF FeedPush
<1>6. CASE LoseUnit \/ MarkAwait
  BY Zenon, <1>0, <1>1, <1>6 DEF LoseUnit, MarkAwait
<1>7. CASE WorkerPop
  <2>1. cur' \in Unit /\ queue' \in Seq(Unit) /\ Len(queue') <= QueueCap
    BY <1>0, <1>7, RecoveryAssumption DEF WorkerPop
  <2> QED BY Zenon, <1>0, <1>7, <2>1 DEF WorkerPop
<1>8. CASE EnterDecode \/ DecodeFilter \/ NoReset \/ Accept
  BY Zenon, <1>0, <1>1, <1>8 DEF EnterDecode, DecodeFilter, NoReset, Accept
<1>9. ASSUME NEW ok \in BOOLEAN, ResetContext(ok) PROVE UnitTypes'
  BY Zenon, <1>0, <1>1, <1>9 DEF ResetContext
<1>10. CASE Send
  BY Zenon, <1>0, <1>1, <1>2, <1>10 DEF Send
<1>11. ASSUME NEW recover \in BOOLEAN, SendError(recover) \/ SendSilent(recover)
       PROVE  UnitTypes'
  <2>1. queue' = queue \/ queue' = <<>>
    BY Zenon, <1>11 DEF SendError, SendSilent, QueueAfter
  <2>2. queue' \in Seq(Unit) /\ Len(queue') <= QueueCap
    BY Zenon, <1>0, <1>3, <2>1
  <2> QED BY Zenon, <1>0, <1>1, <1>2, <1>11, <2>2 DEF SendError, SendSilent
<1>12. CASE Publish
  BY Zenon, <1>0, <1>2, <1>12 DEF Publish
<1>13. CASE RestartBegin \/ RestartFlags
  BY Zenon, <1>0, <1>1, <1>13 DEF RestartBegin, RestartFlags
<1>14. ASSUME NEW ok \in BOOLEAN, RestartDrain(ok) PROVE UnitTypes'
  <2>1. queue' \in Seq(Unit) /\ Len(queue') <= QueueCap
    BY Zenon, <1>3, <1>14 DEF RestartDrain
  <2> QED BY Zenon, <1>0, <1>1, <1>14, <2>1 DEF RestartDrain
<1> QED BY Zenon, <1>4, <1>5, <1>6, <1>7, <1>8, <1>9, <1>10, <1>11, <1>12, <1>13, <1>14
        DEF AvNext, Packet, Worker, Watchdog

\* The types are kept by every step.
LEMMA TypeStep == AvTypeOK /\ [AvNext]_avVars => AvTypeOK'
<1>1. AvTypeOK /\ AvNext => AvTypeOK'
  BY Zenon, FlagStep, UnitStep, TypeHalves
<1>2. AvTypeOK /\ UNCHANGED avVars => AvTypeOK'
  <2> SUFFICES ASSUME AvTypeOK, UNCHANGED avVars PROVE FlagTypes' /\ UnitTypes'
    BY Zenon, TypeHalves
  <2>1. FlagTypes'
    BY TypeHalves DEF avVars, FlagTypes
  <2>2. UnitTypes'
    BY Zenon, TypeHalves DEF avVars, UnitTypes
  <2> QED BY Zenon, <2>1, <2>2
<1> QED BY Zenon, <1>1, <1>2

\* codec_mu_ excludes decode_one and restart() from one another.
LEMMA LockStep == AvTypeOK /\ LockHeld /\ [AvNext]_avVars => LockHeld'
  BY Zenon DEF AvTypeOK, LockHeld, AvNext, Packet, Worker, Watchdog, avVars, packetVars, workerVars,
         FeedFilter, FeedPush, LoseUnit, MarkAwait, WorkerPop, EnterDecode, DecodeFilter,
         ResetContext, NoReset, Accept, Send, SendError, SendSilent, Publish, RestartBegin,
         RestartFlags, RestartDrain

\* With libav reporting, a concealed frame meets a marked break in publish().
LEMMA ConcealedStep ==
    ASSUME AvTypeOK, LockHeld, LibavReports, ConcealedIsMarked, ConcealedNeverShown, [AvNext]_avVars
    PROVE  ConcealedIsMarked' /\ ConcealedNeverShown'
<1>0. ASSUME wpc' # "publish", publishedBad' = publishedBad
      PROVE  ConcealedIsMarked' /\ ConcealedNeverShown'
  BY Zenon, <1>0 DEF ConcealedIsMarked, ConcealedNeverShown
<1>1. CASE Packet
  <2>1. /\ wpc' = wpc /\ clean' = clean /\ publishedBad' = publishedBad
        /\ resetPending' = resetPending \/ resetPending' = TRUE
    BY Zenon, <1>1 DEF Packet, FeedFilter, FeedPush, LoseUnit, MarkAwait, workerVars
  <2> QED BY Zenon, <2>1 DEF ConcealedIsMarked, ConcealedNeverShown
<1>2. CASE Send
  BY Zenon, <1>2 DEF Send, ConcealedIsMarked, ConcealedNeverShown
<1>3. CASE Publish
  BY Zenon, <1>3 DEF Publish, Freed, ConcealedIsMarked, ConcealedNeverShown
<1>4. CASE WorkerPop \/ EnterDecode \/ DecodeFilter \/ NoReset \/ Accept
  <2>1. wpc' # "publish" /\ publishedBad' = publishedBad
    BY Zenon, <1>4 DEF WorkerPop, EnterDecode, DecodeFilter, NoReset, Accept
  <2> QED BY Zenon, <1>0, <2>1
<1>5. CASE \/ \E recover \in BOOLEAN : SendError(recover) \/ SendSilent(recover)
           \/ \E ok \in BOOLEAN : ResetContext(ok)
  <2>1. wpc' # "publish" /\ publishedBad' = publishedBad
    BY Zenon, <1>5 DEF SendError, SendSilent, ResetContext
  <2> QED BY Zenon, <1>0, <2>1
<1>6. CASE Watchdog
  <2>1. wpc # "publish" /\ wpc' = wpc /\ publishedBad' = publishedBad
    BY Zenon, <1>6 DEF LockHeld, Watchdog, RestartBegin, RestartFlags, RestartDrain, workerVars
  <2> QED BY Zenon, <1>0, <2>1
<1>7. CASE UNCHANGED avVars
  BY Zenon, <1>7 DEF avVars, ConcealedIsMarked, ConcealedNeverShown
<1> QED BY Zenon, <1>1, <1>2, <1>3, <1>4, <1>5, <1>6, <1>7 DEF AvNext, Worker

\* Inv is an invariant of every behaviour.
LEMMA AvInductive == AvSpec => []AvInv
<1>1. AvInit => AvInv
  <2> SUFFICES ASSUME AvInit PROVE AvInv
    OBVIOUS
  <2>1. 0 \in Au /\ NoUnit \in Unit
    BY RecoveryAssumption DEF Au, Unit, NoUnit
  <2>2. AvTypeOK
    <3>1. queue \in Seq(Unit) /\ Len(queue) <= QueueCap
      BY RecoveryAssumption DEF AvInit
    <3> QED BY Zenon, <2>1, <3>1 DEF AvInit, AvTypeOK
  <2> QED BY Zenon, <2>2 DEF AvInit, AvInv, LockHeld, ConcealedIsMarked, ConcealedNeverShown
<1>2. AvInv /\ [AvNext]_avVars => AvInv'
  BY Zenon, TypeStep, LockStep, ConcealedStep DEF AvInv
<1> QED BY <1>1, <1>2, PTL DEF AvSpec

\* The flags, the queue and the threads' places keep their types.
THEOREM AvTypeCorrect == AvSpec => []AvTypeOK
<1>1. AvInv => AvTypeOK
  BY Zenon DEF AvInv
<1> QED BY <1>1, AvInductive, PTL

\* If libav logs every missing reference, no concealed picture is ever
\* published, whatever breaks, losses and restarts run into one another.
THEOREM ConcealedStaysHidden ==
    LibavReports => (AvSpec => []ConcealedNeverShown)
<1> SUFFICES ASSUME LibavReports PROVE AvSpec => []ConcealedNeverShown
  OBVIOUS
<1>1. AvInv => ConcealedNeverShown
  BY Zenon DEF AvInv
<1> QED BY <1>1, AvInductive, PTL

-----------------------------------------------------------------------------
(* AvcRecovery: the picture does not stay frozen.                          *)

\* The queue holds newer units than the worker, the worker newer ones than
\* the screen, and the packet thread newer ones than the queue.
UnitsOrdered ==
    /\ published <= au
    /\ ppc = "push" => fed.no = au /\ published < au
    /\ \A i \in 1 .. Len(queue) : published < queue[i].no /\ queue[i].no <= au
    /\ ppc = "push" => \A i \in 1 .. Len(queue) : queue[i].no < au
    /\ \A i, j \in 1 .. Len(queue) : i < j => queue[i].no < queue[j].no
    /\ wpc # "idle" => /\ published < cur.no /\ cur.no <= au
                       /\ ppc = "push" => cur.no < au
                       /\ \A i \in 1 .. Len(queue) : cur.no < queue[i].no

\* Where the intra unit is that will unfreeze the picture: past the screen, in
\* the queue, or with the worker, where no reset is pending past its check.
Hoped ==
    hope # 0 =>
       \/ published >= hope
       \/ \E i \in 1 .. Len(queue) : queue[i].no = hope /\ queue[i].key
       \/ /\ wpc # "idle" /\ cur.no = hope /\ cur.key
          /\ wpc \in {"accept", "send", "publish"} => ~resetPending

\* Units stay in the order of the stream.
LEMMA OrderStep == ASSUME AvTypeOK, UnitsOrdered, AvNext PROVE UnitsOrdered'
<1> USE DEF packetVars, workerVars
<1>0. /\ au \in Nat /\ published \in Nat /\ cur.no \in Nat /\ fed.no \in Nat
      /\ queue \in Seq(Unit) /\ \A i \in 1 .. Len(queue) : queue[i].no \in Nat
  <2>1. Au \subseteq Nat /\ \A u \in Unit : u.no \in Nat
    BY RecoveryAssumption DEF Au, Unit
  <2>2. au \in Au /\ published \in Au /\ cur \in Unit /\ fed \in Unit /\ queue \in Seq(Unit)
    BY Zenon DEF AvTypeOK
  <2>3. \A i \in 1 .. Len(queue) : queue[i] \in Unit
    BY <2>2
  <2> QED BY Zenon, <2>1, <2>2, <2>3
<1>1. ASSUME NEW key \in BOOLEAN, FeedFilter(key) PROVE UnitsOrdered'
  BY <1>0, <1>1 DEF FeedFilter, UnitsOrdered
<1>2. CASE FeedPush
  <2>1. CASE Len(queue) < QueueCap
    <3>1. /\ Len(queue') = Len(queue) + 1 /\ queue'[Len(queue) + 1] = fed
          /\ \A i \in 1 .. Len(queue) : queue'[i] = queue[i]
      BY <1>0, <1>2, <2>1 DEF FeedPush, AvTypeOK
    <3>2. UNCHANGED <<au, published, wpc, cur, fed>> /\ ppc = "push" /\ ppc' = "idle"
      BY Zenon, <1>2 DEF FeedPush
    <3>3. \A i \in 1 .. Len(queue') : i \in 1 .. Len(queue) \/ i = Len(queue) + 1
      BY <1>0, <3>1
    <3>4. /\ \A i \in 1 .. Len(queue') : published < queue'[i].no /\ queue'[i].no <= au
          /\ wpc # "idle" => \A i \in 1 .. Len(queue') : cur.no < queue'[i].no
      <4>1. fed.no = au /\ published < fed.no /\ fed.no <= au /\ (wpc # "idle" => cur.no < fed.no)
        BY <1>0, <3>2 DEF UnitsOrdered
      <4> QED BY Zenon, <3>1, <3>3, <4>1 DEF UnitsOrdered
    <3>5. \A i, j \in 1 .. Len(queue') : i < j => queue'[i].no < queue'[j].no
      BY <1>0, <3>1, <3>2, <3>3 DEF UnitsOrdered
    <3> QED BY Zenon, <3>2, <3>4, <3>5 DEF UnitsOrdered
  <2>2. CASE ~(Len(queue) < QueueCap)
    BY Zenon, <1>2, <2>2 DEF FeedPush, UnitsOrdered
  <2> QED BY Zenon, <2>1, <2>2
<1>3. CASE LoseUnit \/ MarkAwait
  BY <1>0, <1>3 DEF LoseUnit, MarkAwait, UnitsOrdered
<1>4. CASE WorkerPop
  <2>1. /\ Len(queue') = Len(queue) - 1 /\ cur' = queue[1]
        /\ \A i \in 1 .. Len(queue') : queue'[i] = queue[i + 1] /\ i + 1 \in 1 .. Len(queue)
        /\ 1 \in 1 .. Len(queue)
    BY <1>0, <1>4 DEF WorkerPop
  <2>2. UNCHANGED <<au, published, ppc, fed>>
    BY Zenon, <1>4 DEF WorkerPop
  <2>3. /\ published < cur'.no /\ cur'.no <= au /\ (ppc = "push" => cur'.no < au)
        /\ \A i \in 1 .. Len(queue') : cur'.no < queue'[i].no
    <3>1. published < queue[1].no /\ queue[1].no <= au /\ (ppc = "push" => queue[1].no < au)
      BY Zenon, <2>1 DEF UnitsOrdered
    <3>2. \A i \in 1 .. Len(queue') : 1 < i + 1
      OBVIOUS
    <3>3. \A i \in 1 .. Len(queue') : queue[1].no < queue[i + 1].no
      BY Zenon, <2>1, <3>2 DEF UnitsOrdered
    <3> QED BY Zenon, <2>1, <3>1, <3>3
  <2>4. /\ \A i \in 1 .. Len(queue') : published < queue'[i].no /\ queue'[i].no <= au
        /\ ppc = "push" => \A i \in 1 .. Len(queue') : queue'[i].no < au
    BY Zenon, <2>1 DEF UnitsOrdered
  <2>5. \A i, j \in 1 .. Len(queue') : i < j => queue'[i].no < queue'[j].no
    <3>1. \A i, j \in 1 .. Len(queue') : i < j => i + 1 < j + 1
      OBVIOUS
    <3> QED BY Zenon, <2>1, <3>1 DEF UnitsOrdered
  <2> QED BY Zenon, <2>2, <2>3, <2>4, <2>5 DEF UnitsOrdered
<1>5. CASE EnterDecode \/ DecodeFilter \/ NoReset \/ Accept \/ Send
  <2>1. CASE EnterDecode
    BY Zenon, <2>1 DEF EnterDecode, UnitsOrdered
  <2>2. CASE DecodeFilter
    BY Zenon, <2>2 DEF DecodeFilter, UnitsOrdered
  <2>3. CASE NoReset
    BY Zenon, <2>3 DEF NoReset, UnitsOrdered
  <2>4. CASE Accept
    BY Zenon, <2>4 DEF Accept, UnitsOrdered
  <2>5. CASE Send
    BY Zenon, <2>5 DEF Send, UnitsOrdered
  <2> QED BY Zenon, <1>5, <2>1, <2>2, <2>3, <2>4, <2>5
<1>6. ASSUME NEW ok \in BOOLEAN, ResetContext(ok) PROVE UnitsOrdered'
  BY Zenon, <1>6 DEF ResetContext, UnitsOrdered
<1>7. ASSUME NEW recover \in BOOLEAN, SendError(recover) \/ SendSilent(recover) PROVE UnitsOrdered'
  <2>1. (queue' = queue \/ queue' = <<>>) /\ wpc' = "idle" /\ UNCHANGED <<au, published, ppc, fed>>
    BY Zenon, <1>7 DEF SendError, SendSilent, QueueAfter
  <2> QED BY <2>1 DEF UnitsOrdered
<1>8. CASE Publish
  BY Zenon, <1>0, <1>8 DEF Publish, UnitsOrdered
<1>9. CASE RestartBegin \/ RestartFlags
  BY Zenon, <1>9 DEF RestartBegin, RestartFlags, UnitsOrdered
<1>10. ASSUME NEW ok \in BOOLEAN, RestartDrain(ok) PROVE UnitsOrdered'
  BY <1>10 DEF RestartDrain, UnitsOrdered
<1> QED BY Zenon, <1>1, <1>2, <1>3, <1>4, <1>5, <1>6, <1>7, <1>8, <1>9, <1>10 DEF AvNext, Packet, Worker, Watchdog

\* No step loses the intra unit that is to come through.
LEMMA HopeStep == ASSUME AvTypeOK, UnitsOrdered, Hoped, AvNext PROVE Hoped'
<1> USE DEF packetVars, workerVars
<1>0. /\ published \in Nat /\ cur.no \in Nat /\ hope \in Nat
      /\ queue \in Seq(Unit)
  BY RecoveryAssumption DEF AvTypeOK, Au, Unit
<1>1. ASSUME NEW key \in BOOLEAN, FeedFilter(key) PROVE Hoped'
  BY Zenon, <1>1 DEF FeedFilter, Hoped
<1>2. CASE FeedPush
  <2>1. CASE Len(queue) < QueueCap
    <3>1. /\ Len(queue') = Len(queue) + 1 /\ queue'[Len(queue) + 1] = fed
          /\ \A i \in 1 .. Len(queue) : queue'[i] = queue[i] /\ i \in 1 .. Len(queue')
          /\ Len(queue) + 1 \in 1 .. Len(queue')
      BY <1>0, <1>2, <2>1 DEF FeedPush, AvTypeOK
    <3>2. UNCHANGED <<published, wpc, cur, resetPending>> /\ hope' = IF fed.key THEN fed.no ELSE hope
      BY Zenon, <1>2, <2>1 DEF FeedPush
    <3> QED BY Zenon, <3>1, <3>2 DEF Hoped
  <2>2. CASE ~(Len(queue) < QueueCap)
    BY Zenon, <1>2, <2>2 DEF FeedPush, Hoped
  <2> QED BY Zenon, <2>1, <2>2
<1>3. CASE LoseUnit \/ MarkAwait
  BY Zenon, <1>3 DEF LoseUnit, MarkAwait, Hoped
<1>4. CASE WorkerPop
  <2>1. /\ Len(queue') = Len(queue) - 1 /\ cur' = queue[1] /\ Len(queue) \in Nat
        /\ \A i \in 1 .. Len(queue') : queue'[i] = queue[i + 1]
    BY <1>0, <1>4 DEF WorkerPop
  <2>2. UNCHANGED <<published, hope, resetPending>> /\ wpc = "idle" /\ wpc' = "enter"
    BY Zenon, <1>4 DEF WorkerPop
  <2>3. ASSUME NEW i \in 1 .. Len(queue), queue[i].no = hope /\ queue[i].key PROVE Hoped'
    <3>1. CASE i = 1
      BY Zenon, <2>1, <2>2, <2>3, <3>1 DEF Hoped
    <3>2. CASE i # 1
      <4>1. i - 1 \in 1 .. Len(queue') /\ queue'[i - 1] = queue[i]
        BY <2>1, <3>2
      <4> QED BY Zenon, <2>2, <2>3, <4>1 DEF Hoped
    <3> QED BY Zenon, <3>1, <3>2
  <2> QED BY Zenon, <2>2, <2>3 DEF Hoped
<1>5. CASE EnterDecode \/ DecodeFilter \/ NoReset \/ Accept
  <2>1. CASE EnterDecode
    BY Zenon, <2>1 DEF EnterDecode, Hoped
  <2>2. CASE DecodeFilter
    BY Zenon, <2>2 DEF DecodeFilter, Hoped
  <2>3. CASE NoReset
    BY Zenon, <2>3 DEF NoReset, Hoped
  <2>4. CASE Accept
    BY Zenon, <2>4 DEF Accept, Hoped
  <2> QED BY Zenon, <1>5, <2>1, <2>2, <2>3, <2>4
<1>6. ASSUME NEW ok \in BOOLEAN, ResetContext(ok) PROVE Hoped'
  BY Zenon, <1>6 DEF ResetContext, Hoped
<1>7. CASE Send
  BY Zenon, <1>7 DEF Send, HasReferences, Hoped
<1>8. ASSUME NEW recover \in BOOLEAN, SendError(recover) \/ SendSilent(recover) PROVE Hoped'
  BY Zenon, <1>8 DEF SendError, SendSilent, QueueAfter, Hoped
<1>9. CASE Publish
  <2>1. UNCHANGED <<queue, hope>> /\ published' = (IF resetPending THEN published ELSE cur.no) /\ wpc = "publish"
    BY Zenon, <1>9 DEF Publish, Freed
  <2>2. published' >= published /\ published' \in Nat
    BY <1>0, <2>1 DEF UnitsOrdered
  <2> QED BY <1>0, <2>1, <2>2 DEF Hoped
<1>10. CASE RestartBegin \/ RestartFlags
  BY Zenon, <1>10 DEF RestartBegin, RestartFlags, Hoped
<1>11. ASSUME NEW ok \in BOOLEAN, RestartDrain(ok) PROVE Hoped'
  BY Zenon, <1>11 DEF RestartDrain, Hoped
<1> QED BY Zenon, <1>1, <1>2, <1>3, <1>4, <1>5, <1>6, <1>7, <1>8, <1>9, <1>10, <1>11
        DEF AvNext, Packet, Worker, Watchdog

\* An intra unit that was queued after the last break or reset has come to the
\* screen, or something newer has, once the worker has caught up: no flag that
\* a break left behind freezes the picture, for any stream and any queue.
THEOREM IntraComesThrough == AvSpec => []IntraUnfreezes
<1>1. AvInit => UnitsOrdered /\ Hoped
  BY DEF AvInit, UnitsOrdered, Hoped
<1>2. AvTypeOK /\ UnitsOrdered /\ Hoped /\ [AvNext]_avVars => (UnitsOrdered /\ Hoped)'
  <2>1. UnitsOrdered /\ Hoped /\ UNCHANGED avVars => (UnitsOrdered /\ Hoped)'
    BY DEF avVars, UnitsOrdered, Hoped
  <2> QED BY Zenon, <2>1, OrderStep, HopeStep
<1>3. Hoped => IntraUnfreezes
  BY DEF Hoped, IntraUnfreezes
<1> QED BY <1>1, <1>2, <1>3, AvTypeCorrect, PTL DEF AvSpec

-----------------------------------------------------------------------------
(* HwFallback.                                                             *)

\* The units the context has had are those feed_burst has passed, and the name of the card is
\* there before the first frame only if the context is the card's.
HwInv ==
    /\ size \in Nat /\ burst \in 0 .. size + 2
    /\ had = IF burst = 0 THEN {} ELSE IF Live THEN 1 .. size ELSE 1 .. burst - 1
    /\ ctx \in {"none", "undecided", "d3d11", "software"}
    /\ hw \in [failed : BOOLEAN, name : BOOLEAN, bound : BOOLEAN, verified : BOOLEAN]
    /\ ctx = "undecided" => ~hw.verified
    /\ BoundIsTrue

\* What decode_one leaves of hw: verified only with a frame, and then the truth about it.
LEMMA DecodedIsTrue ==
  ASSUME HwInv, NEW u, DecodeUnit(u)
  PROVE  /\ ctx' \in {"none", "d3d11", "software"}
         /\ hw' \in [failed : BOOLEAN, name : BOOLEAN, bound : BOOLEAN, verified : BOOLEAN]
         /\ had' = had \cup u
         /\ hw'.verified => (hw'.bound <=> ctx' = "d3d11")
<1>1. Chosen \in {"none", "d3d11", "software"}
  BY Zenon DEF HwInv, Chosen
<1>2. /\ HwChosen \in [failed : BOOLEAN, name : BOOLEAN, bound : BOOLEAN, verified : BOOLEAN]
      /\ HwChosen.verified => (HwChosen.bound <=> Chosen = "d3d11")
  <2>1. CASE ctx = "undecided"
    BY Zenon, <2>1 DEF HwInv, HwChosen, Bound
  <2>2. CASE ctx # "undecided"
    BY Zenon, <2>2 DEF HwInv, HwChosen, Chosen, BoundIsTrue
  <2> QED BY Zenon, <2>1, <2>2
<1>3. /\ HwPublished(HwChosen, Chosen) \in [failed : BOOLEAN, name : BOOLEAN, bound : BOOLEAN, verified : BOOLEAN]
      /\ HwPublished(HwChosen, Chosen).bound <=> Chosen = "d3d11"
  BY Zenon, <1>1, <1>2 DEF HwPublished
<1> QED BY Zenon, <1>1, <1>2, <1>3 DEF DecodeUnit

\* create_codec forgets what the old context's frames said.
LEMMA CreatedIsTrue ==
  ASSUME HwInv, NEW force \in BOOLEAN, CreateCodec(force)
  PROVE  /\ ctx' \in {"undecided", "software"}
         /\ hw' \in [failed : BOOLEAN, name : BOOLEAN, bound : BOOLEAN, verified : BOOLEAN]
         /\ ~hw'.verified
BY Zenon DEF HwInv, CreateCodec, Opened, HwOpened, WantHw

\* HwInv is inductive.
LEMMA HwInductive == HwInv /\ [HwNext]_hwVars => HwInv'
<1> SUFFICES ASSUME HwInv, [HwNext]_hwVars PROVE HwInv'
  OBVIOUS
<1>1. CASE HwStart
  <2>1. HwStart /\ size' = size /\ had' = had /\ burst = 0 /\ burst' = 1
    BY Zenon, <1>1 DEF HwStart
  <2>2. had' = {} /\ size \in Nat
    BY Zenon, <2>1 DEF HwInv
  <2>3. had' = IF burst' = size' + 2 THEN 1 .. size' ELSE 1 .. burst' - 1
    BY <2>1, <2>2
  <2>4. /\ ctx' \in {"undecided", "software"} /\ ~hw'.verified
        /\ hw' \in [failed : BOOLEAN, name : BOOLEAN, bound : BOOLEAN, verified : BOOLEAN]
    BY Zenon, <2>1, CreatedIsTrue DEF HwStart
  <2> QED BY <2>1, <2>2, <2>3, <2>4 DEF HwInv, BoundIsTrue, Live
<1>2. CASE FeedUnit
  <2>1. burst \in 1 .. size /\ size \in Nat /\ size' = size /\ burst' = burst + 1 /\ DecodeUnit({burst})
    BY Zenon, <1>2 DEF FeedUnit, HwInv
  <2>2. had' = 1 .. burst' - 1 /\ burst' # size' + 2 /\ burst' # 0
    <3>1. had' = had \cup {burst} /\ had = 1 .. burst - 1
      BY <2>1, DecodedIsTrue DEF HwInv, Live
    <3> QED BY <2>1, <3>1
  <2> QED BY <2>1, <2>2, DecodedIsTrue DEF HwInv, BoundIsTrue, Live
<1>3. CASE Fallback
  BY <1>3 DEF Fallback, HwInv, BoundIsTrue, Live, Refed, LeftCard
<1>4. CASE BurstDone
  BY <1>4 DEF BurstDone, HwInv, BoundIsTrue, Live
<1>5. CASE ReferenceMissing
  BY Zenon, <1>5 DEF ReferenceMissing, HwInv, BoundIsTrue, Live
<1>6. CASE Intra \/ HwRestart
  <2>1. hw.failed \in BOOLEAN /\ CreateCodec(hw.failed) /\ UNCHANGED <<size, had, burst>>
    BY Zenon, <1>6 DEF Intra, HwRestart, HwInv
  <2> QED BY Zenon, <2>1, CreatedIsTrue DEF HwInv, BoundIsTrue, Live
<1>7. CASE LiveUnit
  <2>1. Live /\ DecodeUnit({}) /\ UNCHANGED <<size, burst>>
    BY Zenon, <1>7 DEF LiveUnit
  <2>2. had' = had
    BY <2>1, DecodedIsTrue
  <2> QED BY Zenon, <2>1, <2>2, DecodedIsTrue DEF HwInv, BoundIsTrue, Live
<1>8. CASE UNCHANGED hwVars
  BY Zenon, <1>8 DEF hwVars, HwInv, BoundIsTrue, Live
<1> QED BY Zenon, <1>1, <1>2, <1>3, <1>4, <1>5, <1>6, <1>7, <1>8 DEF HwNext

\* Whatever the card does and however long the burst is, the context that decodes the stream has
\* had the whole burst, and hw_bound_ says from the first frame on whether the card is in use.
THEOREM FallbackKeepsBurst == HwSpec => []FallbackIsSound
<1>1. HwInit => HwInv
  BY HwAssumption DEF HwInit, HwInv, BoundIsTrue, Live
<1>2. HwInv => FallbackIsSound
  BY DEF HwInv, FallbackIsSound, BurstComplete, Live
<1> QED BY <1>1, <1>2, HwInductive, PTL DEF HwSpec

\* No restart and no recovery asks a card again that has failed.
THEOREM CardNotAskedAgain == HwSpec => NeverBackToCard
<1>1. HwInv /\ [HwNext]_hwVars => [hw.failed /\ ctx' = "undecided" => ctx = "undecided"]_hwVars
  <2> SUFFICES ASSUME HwInv, HwNext, hw.failed, ctx' = "undecided" PROVE ctx = "undecided"
    OBVIOUS
  <2>1. \A force \in BOOLEAN : ~CreateCodec(force)
    BY Zenon DEF CreateCodec, Opened, WantHw
  <2>2. \A u : ~DecodeUnit(u)
    BY Zenon, DecodedIsTrue
  <2> QED BY Zenon, <2>1, <2>2
          DEF HwNext, HwStart, FeedUnit, Fallback, BurstDone, ReferenceMissing, Intra, HwRestart, LiveUnit, HwInv
<1>2. HwInit => HwInv
  BY HwAssumption DEF HwInit, HwInv, BoundIsTrue, Live
<1> QED BY <1>1, <1>2, HwInductive, PTL DEF HwSpec, NeverBackToCard

-----------------------------------------------------------------------------
(* FrameHandoff, for any number of tiles and frames, either codec and      *)
(* either kind of recovery.  One inductive invariant, FhInv, gives all of  *)
(* it: it orders the frame numbers a tile can have in the slot, in the     *)
(* renderer and on screen, and says where an announced frame is while the  *)
(* render loop is between its wait and its take.                           *)

\* A tile's frame on screen is no newer than the renderer's, which is older
\* than the one in the slot; no number is ahead of next_index_.
Ordered ==
    \A t \in Tile :
        /\ drawn[t] <= submitted[t]
        /\ submitted[t] <= index
        /\ frame[t] <= index
        /\ frame[t] # NoFrame => submitted[t] < frame[t]

\* An announced frame that take_latest has not been asked for is known to the
\* flag, or the loop is on its way to the tile, or it is back at its wait
\* without having asked.
Reported ==
    ~pending /\ ~(rpc = "wait" /\ stalled) =>
        \A t \in untaken : \/ rpc = "gate"
                           \/ rpc = "take" /\ ti <= t

\* Until the loop comes to a tile, the frame it saw announced, or a newer
\* one, is in the slot for the taking; after that the renderer has it.
FloorKept ==
    \A t \in Tile :
        /\ floor[t] # NoFrame /\ (rpc = "gate" \/ (rpc = "take" /\ ti <= t))
              => ~Blocked(t) /\ floor[t] <= frame[t] /\ dpc # "wiped"
        /\ floor[t] # NoFrame /\ rpc = "take" /\ t < ti => floor[t] <= submitted[t]

\* A reset that has emptied the slots has not yet blocked the tiles.
WipedEmpty ==
    dpc = "wiped" => \A t \in Tile : frame[t] = NoFrame

FhInv ==
    /\ FhTypeOK
    /\ Ordered
    /\ Reported
    /\ FloorKept
    /\ WipedEmpty

\* The initial state satisfies the invariant: no frame exists yet.
LEMMA FhInitInv == FhInit => FhInv
<1> SUFFICES ASSUME FhInit PROVE FhInv
  OBVIOUS
<1> USE HandoffAssumption DEF FhInit, Tile, Frame, NoFrame
<1>1. FhTypeOK
  <2>1. 0 \in Tile /\ 0 \in Frame /\ 0 \in 0 .. NumTiles
    OBVIOUS
  <2> HIDE DEF Tile, Frame
  <2> QED BY Zenon, <2>1 DEF FhTypeOK
<1>2. Ordered /\ Reported
  BY DEF Ordered, Reported
<1>3. FloorKept /\ WipedEmpty
  BY DEF FloorKept, WipedEmpty
<1> QED BY <1>1, <1>2, <1>3 DEF FhInv

\* A step of the decoder side keeps it: the newest frame only ever replaces
\* an older one, and whatever withdraws a frame lowers the floor.
LEMMA DecoderInv == FhInv /\ Decoder => FhInv'
<1> SUFFICES ASSUME FhInv, Decoder PROVE FhInv'
  OBVIOUS
<1>0. FhTypeOK /\ Ordered /\ Reported /\ FloorKept /\ WipedEmpty
  BY DEF FhInv
<1>n. /\ index \in Nat
      /\ \A s \in Tile : /\ frame[s] \in Nat /\ submitted[s] \in Nat
                          /\ drawn[s] \in Nat /\ floor[s] \in Nat
  BY <1>0, HandoffAssumption DEF FhTypeOK, Frame
<1>1. ASSUME NEW t \in Tile, PublishStore(t) PROVE FhInv'
  <2>0. /\ index + 1 \in Frame
        /\ frame' = [frame EXCEPT ![t] = index + 1]
        /\ index' = index + 1
    BY <1>1, <1>n, HandoffAssumption DEF Frame, PublishStore, Store
  <2>1. FhTypeOK'
    BY Zenon, <1>0, <1>1, <2>0 DEF PublishStore, FhTypeOK, renderVars
  <2>2. Ordered'
    <3> SUFFICES ASSUME NEW s \in Tile
                 PROVE  /\ drawn'[s] <= submitted'[s]
                        /\ submitted'[s] <= index'
                        /\ frame'[s] <= index'
                        /\ frame'[s] # NoFrame => submitted'[s] < frame'[s]
      BY Zenon DEF Ordered
    <3>1. submitted' = submitted /\ drawn' = drawn
      BY Zenon, <1>1 DEF PublishStore, renderVars
    <3>2. drawn[s] <= submitted[s] /\ submitted[s] <= index /\ frame[s] <= index
      BY Zenon, <1>0 DEF Ordered
    <3>3. frame'[s] = IF s = t THEN index + 1 ELSE frame[s]
      BY <1>0, <2>0 DEF FhTypeOK
    <3>4. frame[s] # NoFrame => submitted[s] < frame[s]
      BY Zenon, <1>0 DEF Ordered
    <3> QED BY <1>n, <2>0, <3>1, <3>2, <3>3, <3>4 DEF NoFrame
  <2>3. Reported'
    BY Zenon, <1>0, <1>1 DEF PublishStore, Store, Reported, renderVars
  <2>4. FloorKept'
    <3>1. \A s \in Tile : Blocked(s)' <=> Blocked(s)
      BY Zenon, <1>1 DEF PublishStore, Blocked
    <3>2. \A s \in Tile : frame'[s] = IF s = t THEN index + 1 ELSE frame[s]
      BY <1>0, <2>0 DEF FhTypeOK
    <3>3. ASSUME NEW s \in Tile
          PROVE  frame[s] <= frame'[s] /\ frame'[s] \in Nat
      <4>1. frame[s] <= index /\ frame'[s] = IF s = t THEN index + 1 ELSE frame[s]
        BY Zenon, <1>0, <3>2 DEF Ordered
      <4>2. index \in Nat /\ frame[s] \in Nat
        BY Zenon, <1>n
      <4> QED BY <4>1, <4>2
    <3>4. /\ dpc # "wiped" /\ dpc' # "wiped"
          /\ rpc' = rpc /\ ti' = ti /\ floor' = floor /\ submitted' = submitted
      BY <1>1 DEF PublishStore, renderVars
    <3> QED BY <1>0, <1>n, <3>1, <3>3, <3>4 DEF FloorKept, NoFrame
  <2>5. WipedEmpty'
    BY Zenon, <1>0, <1>1 DEF PublishStore, Store, WipedEmpty, renderVars
  <2> QED BY Zenon, <2>1, <2>2, <2>3, <2>4, <2>5 DEF FhInv
<1>2. CASE PublishRoot
  <2>1. FhTypeOK'
    BY Zenon, <1>0, <1>2 DEF PublishRoot, FhTypeOK, renderVars
  <2>2. Ordered'
    BY Zenon, <1>0, <1>2 DEF PublishRoot, Ordered, renderVars
  <2>3. Reported'
    BY Zenon, <1>0, <1>2 DEF PublishRoot, Reported, renderVars
  <2>4. FloorKept'
    BY Zenon, <1>0, <1>2 DEF PublishRoot, FloorKept, Blocked, renderVars
  <2>5. WipedEmpty'
    BY Zenon, <1>0, <1>2 DEF PublishRoot, WipedEmpty, renderVars
  <2> QED BY Zenon, <2>1, <2>2, <2>3, <2>4, <2>5 DEF FhInv
<1>3. CASE PublishSignal
  <2>1. FhTypeOK'
    <3>1. 0 \in Tile
      BY HandoffAssumption DEF Tile, Frame
    <3> QED BY <1>0, <1>3, <3>1 DEF PublishSignal, FhTypeOK, renderVars
  <2>2. Ordered'
    BY Zenon, <1>0, <1>3 DEF PublishSignal, Ordered, renderVars
  <2>3. Reported'
    BY Zenon, <1>0, <1>3 DEF PublishSignal, Reported, renderVars
  <2>4. FloorKept'
    BY Zenon, <1>0, <1>3 DEF PublishSignal, FloorKept, Blocked, renderVars
  <2>5. WipedEmpty'
    BY Zenon, <1>0, <1>3 DEF PublishSignal, WipedEmpty, renderVars
  <2> QED BY Zenon, <2>1, <2>2, <2>3, <2>4, <2>5 DEF FhInv
<1>4. CASE KeyFrame
  <2>1. FhTypeOK'
    BY Zenon, <1>0, <1>4 DEF KeyFrame, FhTypeOK, renderVars
  <2>2. Ordered'
    BY Zenon, <1>0, <1>4 DEF KeyFrame, Ordered, renderVars
  <2>3. Reported'
    BY Zenon, <1>0, <1>4 DEF KeyFrame, Reported, renderVars
  <2>4. FloorKept'
    BY Zenon, <1>0, <1>4 DEF KeyFrame, FloorKept, Blocked, renderVars
  <2>5. WipedEmpty'
    BY Zenon, <1>0, <1>4 DEF KeyFrame, WipedEmpty, renderVars
  <2> QED BY Zenon, <2>1, <2>2, <2>3, <2>4, <2>5 DEF FhInv
<1>5. ASSUME NEW gone \in (SUBSET Tile) \ {{}}, TryRecovery(gone) PROVE FhInv'
  <2>1. FhTypeOK'
    <3>1. 0 \in Frame
      BY HandoffAssumption DEF Tile, Frame
    <3>2. floor' \in [Tile -> Frame]
      BY <1>0, <1>5, <3>1 DEF TryRecovery, FhTypeOK, NoFrame
    <3> QED BY Zenon, <1>0, <1>5, <3>2 DEF TryRecovery, FhTypeOK, renderVars
  <2>2. Ordered'
    BY Zenon, <1>0, <1>5 DEF TryRecovery, Ordered, renderVars
  <2>3. Reported'
    BY Zenon, <1>0, <1>5 DEF TryRecovery, Reported, renderVars
  <2>4. FloorKept'
    BY Zenon, <1>0, <1>5 DEF TryRecovery, FloorKept, Blocked, renderVars
  <2>5. WipedEmpty'
    BY Zenon, <1>0, <1>5 DEF TryRecovery, WipedEmpty, renderVars
  <2> QED BY Zenon, <2>1, <2>2, <2>3, <2>4, <2>5 DEF FhInv
<1>6. CASE ResetSlots
  <2>1. FhTypeOK'
    <3>1. frame' \in [Tile -> Frame] /\ floor' \in [Tile -> Frame]
      <4>1. 0 \in 0 .. MaxFrame
        BY HandoffAssumption
      <4> QED BY <1>6, <4>1 DEF ResetSlots, Frame, NoFrame
    <3>2. /\ dpc' \in {"idle", "stored", "rooted", "wiped"}
          /\ wiped' = index
          /\ UNCHANGED <<pending, dpb, await, index, dtile, untaken, renderVars>>
      BY Zenon, <1>6 DEF ResetSlots
    <3> QED BY Zenon, <1>0, <3>1, <3>2 DEF FhTypeOK, renderVars
  <2>2. Ordered'
    <3>1. \A s \in Tile : frame'[s] = NoFrame
      BY Zenon, <1>6 DEF ResetSlots
    <3>2. NoFrame <= index
      BY <1>n DEF NoFrame
    <3> QED BY Zenon, <1>0, <1>6, <3>1, <3>2 DEF ResetSlots, Ordered, renderVars
  <2>3. Reported'
    BY Zenon, <1>0, <1>6 DEF ResetSlots, Reported, renderVars
  <2>4. FloorKept'
    BY Zenon, <1>0, <1>6 DEF ResetSlots, FloorKept, Blocked, renderVars
  <2>5. WipedEmpty'
    BY Zenon, <1>0, <1>6 DEF ResetSlots, WipedEmpty, renderVars
  <2> QED BY Zenon, <2>1, <2>2, <2>3, <2>4, <2>5 DEF FhInv
<1>7. CASE ResetFlags
  <2>1. FhTypeOK'
    BY Zenon, <1>0, <1>7 DEF ResetFlags, FhTypeOK, renderVars
  <2>2. Ordered'
    BY Zenon, <1>0, <1>7 DEF ResetFlags, Ordered, renderVars
  <2>3. Reported'
    BY Zenon, <1>0, <1>7 DEF ResetFlags, Reported, renderVars
  <2>4. FloorKept'
    BY Zenon, <1>0, <1>7 DEF ResetFlags, FloorKept, Blocked, renderVars
  <2>5. WipedEmpty'
    BY Zenon, <1>0, <1>7 DEF ResetFlags, WipedEmpty, renderVars
  <2> QED BY Zenon, <2>1, <2>2, <2>3, <2>4, <2>5 DEF FhInv
<1> QED BY Zenon, <1>1, <1>2, <1>3, <1>4, <1>5, <1>6, <1>7 DEF Decoder

\* A step of the render loop keeps it: take_latest moves a frame from the
\* slot to the renderer, and the flag is lowered before, not after.
LEMMA RenderInv == FhInv /\ Render => FhInv'
<1> SUFFICES ASSUME FhInv, Render PROVE FhInv'
  OBVIOUS
<1>0. FhTypeOK /\ Ordered /\ Reported /\ FloorKept /\ WipedEmpty
  BY DEF FhInv
<1>n. /\ index \in Nat
      /\ \A s \in Tile : /\ frame[s] \in Nat /\ submitted[s] \in Nat
                          /\ drawn[s] \in Nat /\ floor[s] \in Nat
  BY <1>0, HandoffAssumption DEF FhTypeOK, Frame
<1>1. ASSUME NEW m \in BOOLEAN, WaitFrame(m) PROVE FhInv'
  <2>1. FhTypeOK'
    <3>1. 0 \in Frame
      BY HandoffAssumption DEF Tile, Frame
    <3>2. Announced \in [Tile -> Frame]
      BY <1>0, <3>1 DEF Announced, FhTypeOK, NoFrame
    <3> QED BY Zenon, <1>0, <1>1, <3>2 DEF WaitFrame, FhTypeOK, decoderVars
  <2>2. Ordered'
    BY Zenon, <1>0, <1>1 DEF WaitFrame, Ordered, decoderVars
  <2>3. Reported'
    BY Zenon, <1>0, <1>1 DEF WaitFrame, Reported, decoderVars
  <2>4. FloorKept'
    <3> SUFFICES ASSUME NEW s \in Tile, Announced[s] # NoFrame
                 PROVE  ~Blocked(s)' /\ Announced[s] <= frame'[s] /\ dpc' # "wiped"
      BY Zenon, <1>1 DEF WaitFrame, FloorKept
    <3>1. ~Blocked(s) /\ Announced[s] = frame[s] /\ frame[s] # NoFrame
      BY DEF Announced
    <3>2. frame[s] <= frame[s]
      BY <1>n
    <3> QED BY Zenon, <1>0, <1>1, <3>1, <3>2 DEF WaitFrame, Blocked, WipedEmpty, decoderVars
  <2>5. WipedEmpty'
    BY Zenon, <1>0, <1>1 DEF WaitFrame, WipedEmpty, decoderVars
  <2> QED BY Zenon, <2>1, <2>2, <2>3, <2>4, <2>5 DEF FhInv
<1>2. CASE WaitTimeout
  <2>1. FhTypeOK'
    <3>1. 0 \in Frame
      BY HandoffAssumption DEF Tile, Frame
    <3>2. Announced \in [Tile -> Frame]
      BY <1>0, <3>1 DEF Announced, FhTypeOK, NoFrame
    <3> QED BY Zenon, <1>0, <1>2, <3>2 DEF WaitTimeout, FhTypeOK, decoderVars
  <2>2. Ordered'
    BY Zenon, <1>0, <1>2 DEF WaitTimeout, Ordered, decoderVars
  <2>3. Reported'
    BY Zenon, <1>0, <1>2 DEF WaitTimeout, Reported, decoderVars
  <2>4. FloorKept'
    <3> SUFFICES ASSUME NEW s \in Tile, Announced[s] # NoFrame
                 PROVE  ~Blocked(s)' /\ Announced[s] <= frame'[s] /\ dpc' # "wiped"
      BY Zenon, <1>2 DEF WaitTimeout, FloorKept
    <3>1. ~Blocked(s) /\ Announced[s] = frame[s] /\ frame[s] # NoFrame
      BY DEF Announced
    <3>2. frame[s] <= frame[s]
      BY <1>n
    <3> QED BY Zenon, <1>0, <1>2, <3>1, <3>2 DEF WaitTimeout, Blocked, WipedEmpty, decoderVars
  <2>5. WipedEmpty'
    BY Zenon, <1>0, <1>2 DEF WaitTimeout, WipedEmpty, decoderVars
  <2> QED BY Zenon, <2>1, <2>2, <2>3, <2>4, <2>5 DEF FhInv
<1>3. CASE CanPresent
  <2>1. FhTypeOK'
    <3>1. 0 \in 0 .. NumTiles
      BY HandoffAssumption DEF Tile, Frame
    <3> QED BY Zenon, <1>0, <1>3, <3>1 DEF CanPresent, FhTypeOK, decoderVars
  <2>2. Ordered'
    BY Zenon, <1>0, <1>3 DEF CanPresent, Ordered, decoderVars
  <2>3. Reported'
    <3>1. \A t \in untaken : 0 <= t
      BY <1>0, HandoffAssumption DEF FhTypeOK, Tile
    <3> QED BY Zenon, <1>3, <3>1 DEF CanPresent, Reported
  <2>4. FloorKept'
    <3>1. \A t \in Tile : ~(t < 0)
      BY HandoffAssumption DEF Tile
    <3> QED BY Zenon, <1>0, <1>3, <3>1 DEF CanPresent, FloorKept, Blocked, decoderVars
  <2>5. WipedEmpty'
    BY Zenon, <1>0, <1>3 DEF CanPresent, WipedEmpty, decoderVars
  <2> QED BY Zenon, <2>1, <2>2, <2>3, <2>4, <2>5 DEF FhInv
<1>4. CASE CannotPresent
  <2>1. FhTypeOK'
    <3>1. 0 \in 0 .. NumTiles /\ 0 \in Frame
      BY HandoffAssumption DEF Tile, Frame
    <3> QED BY Zenon, <1>0, <1>4, <3>1 DEF CannotPresent, NoFrame, IterationEnds, FhTypeOK, decoderVars
  <2>2. Ordered'
    BY Zenon, <1>0, <1>4 DEF CannotPresent, IterationEnds, Ordered, decoderVars
  <2>3. Reported'
    BY Zenon, <1>0, <1>4 DEF CannotPresent, IterationEnds, Reported, decoderVars
  <2>4. FloorKept'
    BY Zenon, <1>0, <1>4 DEF CannotPresent, IterationEnds, FloorKept, Blocked, decoderVars
  <2>5. WipedEmpty'
    BY Zenon, <1>0, <1>4 DEF CannotPresent, IterationEnds, WipedEmpty, decoderVars
  <2> QED BY Zenon, <2>1, <2>2, <2>3, <2>4, <2>5 DEF FhInv
<1>5. CASE TakeLatest
  <2>0. /\ ti \in Tile
        /\ ti + 1 \in 0 .. NumTiles
        /\ 0 \in Frame
    BY <1>0, <1>5, HandoffAssumption DEF TakeLatest, FhTypeOK, Tile, Frame
  <2>1. FhTypeOK'
    BY Zenon, <1>0, <1>5, <2>0 DEF TakeLatest, NoFrame, FhTypeOK, decoderVars
  <2>a. \A s \in Tile :
          /\ drawn'[s] = drawn[s]
          /\ \/ submitted'[s] = submitted[s] /\ frame'[s] = frame[s]
             \/ s = ti /\ submitted'[s] = frame[s] /\ frame'[s] = NoFrame /\ frame[s] # NoFrame
    BY Zenon, <1>0, <1>5, <2>0 DEF TakeLatest, FhTypeOK
  <2>2. Ordered'
    <3>1. index' = index
      BY Zenon, <1>5 DEF TakeLatest
    <3> QED BY <1>0, <1>n, <2>a, <3>1 DEF Ordered, NoFrame
  <2>3. Reported'
    BY <1>0, <1>5, HandoffAssumption DEF TakeLatest, Reported, FhTypeOK, Tile, Frame, NoFrame, decoderVars
  <2>b. \A s \in Tile : Blocked(s)' <=> Blocked(s)
    BY Zenon, <1>5 DEF TakeLatest, Blocked, decoderVars
  <2>c. \A s \in Tile : s # ti => submitted'[s] = submitted[s] /\ frame'[s] = frame[s]
    BY Zenon, <2>a
  <2>d. ~Blocked(ti) /\ frame[ti] # NoFrame => submitted'[ti] = frame[ti]
    BY <1>0, <1>5, <2>0 DEF TakeLatest, FhTypeOK
  <2>4. FloorKept'
    <3> SUFFICES ASSUME NEW s \in Tile, floor[s] # NoFrame
                 PROVE  /\ ti + 1 <= s => ~Blocked(s)' /\ floor[s] <= frame'[s] /\ dpc # "wiped"
                        /\ s < ti + 1 => floor[s] <= submitted'[s]
      BY Zenon, <1>5 DEF TakeLatest, FloorKept, decoderVars
    <3>1. rpc = "take"
      BY Zenon, <1>5 DEF TakeLatest
    <3>2. CASE s = ti
      BY <1>0, <1>n, <2>0, <2>d, <3>1, <3>2 DEF FloorKept, Tile, NoFrame
    <3>3. CASE s # ti
      BY <1>0, <1>n, <2>0, <2>b, <2>c, <3>1, <3>3 DEF FloorKept, Tile
    <3> QED BY <3>2, <3>3
  <2>5. WipedEmpty'
    <3>1. dpc' = dpc /\ (dpc = "wiped" => \A s \in Tile : frame[s] = NoFrame)
      BY Zenon, <1>0, <1>5 DEF TakeLatest, WipedEmpty, decoderVars
    <3> QED BY Zenon, <2>a, <3>1 DEF WipedEmpty
  <2> QED BY Zenon, <2>1, <2>2, <2>3, <2>4, <2>5 DEF FhInv
<1>6. CASE Draw
  <2>1. FhTypeOK'
    <3>1. 0 \in 0 .. NumTiles /\ 0 \in Frame
      BY HandoffAssumption DEF Tile, Frame
    <3> QED BY Zenon, <1>0, <1>6, <3>1 DEF Draw, NoFrame, IterationEnds, FhTypeOK, decoderVars
  <2>2. Ordered'
    <3>1. \A s \in Tile : drawn'[s] = drawn[s] \/ drawn'[s] = submitted[s]
      BY <1>0, <1>6 DEF Draw, FhTypeOK, IterationEnds
    <3>2. submitted' = submitted /\ index' = index /\ frame' = frame
      BY Zenon, <1>6 DEF Draw, decoderVars
    <3>3. \A s \in Tile : drawn'[s] <= submitted[s]
      <4>1. \A s \in Tile : drawn[s] <= submitted[s] /\ submitted[s] <= submitted[s]
        BY <1>0, <1>n DEF Ordered
      <4> QED BY Zenon, <3>1, <4>1
    <3> QED BY Zenon, <1>0, <3>2, <3>3 DEF Ordered
  <2>3. Reported'
    <3>1. \A t \in untaken : ~(ti <= t)
      BY <1>0, <1>6, HandoffAssumption DEF Draw, FhTypeOK, Tile
    <3> QED BY Zenon, <1>0, <1>6, <3>1 DEF Draw, Reported
  <2>4. FloorKept'
    BY Zenon, <1>0, <1>6 DEF Draw, IterationEnds, FloorKept, Blocked, decoderVars
  <2>5. WipedEmpty'
    BY Zenon, <1>0, <1>6 DEF Draw, IterationEnds, WipedEmpty, decoderVars
  <2> QED BY Zenon, <2>1, <2>2, <2>3, <2>4, <2>5 DEF FhInv
<1> QED BY <1>1, <1>2, <1>3, <1>4, <1>5, <1>6 DEF Render

\* FhInv is an invariant of every behaviour.
LEMMA FhInductive == FhSpec => []FhInv
<1>1. FhInv /\ [FhNext]_fhVars => FhInv'
  <2> SUFFICES ASSUME FhInv, [FhNext]_fhVars PROVE FhInv'
    OBVIOUS
  <2>1. CASE UNCHANGED fhVars
    <3>1. FhTypeOK' /\ Ordered'
      BY Zenon, <2>1 DEF fhVars, FhInv, FhTypeOK, Ordered
    <3>2. Reported' /\ WipedEmpty'
      BY Zenon, <2>1 DEF fhVars, FhInv, Reported, WipedEmpty
    <3>3. FloorKept'
      BY Zenon, <2>1 DEF fhVars, FhInv, FloorKept, Blocked
    <3> QED BY Zenon, <3>1, <3>2, <3>3 DEF FhInv
  <2> QED BY Zenon, <2>1, DecoderInv, RenderInv DEF FhNext
<1> QED BY <1>1, FhInitInv, PTL DEF FhSpec

\* The variables of the hand-over keep their types.
THEOREM FhTypeCorrect == FhSpec => []FhTypeOK
<1>1. FhInv => FhTypeOK
  BY DEF FhInv
<1> QED BY <1>1, FhInductive, PTL

\* Unless the swapchain was not free in time, wait_for_frame never times out
\* on a frame that take_latest has not been asked for: the order of the two
\* critical sections in publish() loses no announcement.
THEOREM UntakenIsReported == FhSpec => []WaitReportsUnlessStalled
<1>1. FhInv => WaitReportsUnlessStalled
  BY DEF FhInv, Reported, WaitReportsUnlessStalled, FhTypeOK
<1> QED BY <1>1, FhInductive, PTL

\* Whatever the swapchain does, the loop never presents a frame older than
\* the newest one announced when its wait returned.
THEOREM DrawsFresh == FhSpec => []FreshAtDraw
<1>1. FhInv => FreshAtDraw
  BY HandoffAssumption DEF FhInv, FloorKept, FreshAtDraw, FhTypeOK, Tile, Frame, NoFrame
<1> QED BY <1>1, FhInductive, PTL

\* No tile's picture is ever replaced by an older one.
THEOREM DrawsInOrder == FhSpec => [][ShownInOrder]_fhVars
<1>1. FhInv /\ [FhNext]_fhVars => [ShownInOrder]_fhVars
  <2> SUFFICES ASSUME FhInv, FhNext PROVE \A t \in Tile : drawn'[t] >= drawn[t]
    BY DEF ShownInOrder
  <2>0. \A t \in Tile : submitted[t] >= drawn[t] /\ drawn[t] >= drawn[t]
    <3>1. \A t \in Tile : submitted[t] \in Nat /\ drawn[t] \in Nat
      BY HandoffAssumption DEF FhInv, FhTypeOK, Frame
    <3> QED BY <3>1 DEF FhInv, Ordered
  <2>1. CASE Decoder
    <3>1. drawn' = drawn
      BY Zenon, <2>1 DEF Decoder, PublishStore, PublishRoot, PublishSignal, KeyFrame, TryRecovery,
                         ResetSlots, ResetFlags, renderVars
    <3> QED BY Zenon, <2>0, <3>1
  <2>2. CASE Render
    <3>1. drawn' = drawn \/ drawn' = submitted
      BY Zenon, <2>2 DEF Render, WaitFrame, WaitTimeout, CanPresent, CannotPresent, TakeLatest, Draw
    <3> QED BY Zenon, <2>0, <3>1
  <2> QED BY Zenon, <2>1, <2>2 DEF FhNext
<1> QED BY <1>1, FhInductive, PTL DEF FhSpec

\* The three together, the property of the handoff run: what take_latest can
\* take is announced, what is drawn is fresh, and no tile goes back.
THEOREM PicturesFlow == FhSpec => DrawsFreshInOrder
<1> QED BY UntakenIsReported, DrawsFresh, DrawsInOrder, PTL DEF DrawsFreshInOrder

=============================================================================
