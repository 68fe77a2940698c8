---------------------------- MODULE SrtpDecryptor ----------------------------
(***************************************************************************)
(* SrtpDecryptor (src/src/crypto/srtp.cpp): the packets of the video come  *)
(* with the lower 16 bits of their index, and the roll-over count above    *)
(* them is guessed from the newest packet of the stream.                   *)
(*                                                                         *)
(* The tag of a packet fits exactly the count it was sent with, so that    *)
(* opening it is finding that count.  The network loses and reorders.      *)
(***************************************************************************)
EXTENDS Integers, Sequences

CONSTANTS
    SeqSpace,   \* 2^16
    FirstIndex, \* index of the first packet of a stream
    Gaps,       \* packets that all got lost before the second unit
    Late,       \* how many packets in flight a packet may overtake
    MaxLost     \* bound: packets that get lost one by one

\* A receiver that has opened nothing yet tries the counts 0 and 1, and one that has finds a
\* packet up to one and a half turns of the sequence number away.
ASSUME SrtpAssumption ==
    /\ SeqSpace \in Nat \ {0} /\ SeqSpace % 2 = 0 /\ FirstIndex \subseteq Nat /\ Gaps \subseteq Nat
    /\ \A g \in Gaps, f \in FirstIndex : f + g + 4 < 2 * SeqSpace
    /\ \A g \in Gaps : g + 3 <= SeqSpace + SeqSpace \div 2 - 1

VARIABLES
    isAvc,      \* the codec
    first, gap, \* where the streams begin
    coming,     \* packets on their way, in sending order
    missing,    \* packets lost one by one
    raw,        \* packets received, in order of arrival
    opened,     \* those that decrypt() opened, in the same order
    ssrcState   \* states_: the newest index opened of each stream, -1 before the first

srVars == <<isAvc, first, gap, coming, missing, raw, opened, ssrcState>>

\* What the Mac sends: two tiles with neighbouring SSRCs, and one packet of another quality
\* tier on the SSRC next to them.
Ssrc == {1, 2, 3}

P(s, ts, n, frag, nal, marker) ==
    [ssrc |-> s, ts |-> ts, index |-> first + n + (IF ts > 1 THEN gap ELSE 0),
     frag |-> frag, nal |-> nal, marker |-> marker]
Sent ==
    << P(1, 1, 0, IF isAvc THEN "config" ELSE "aggregate", "params", TRUE),
       P(2, 1, 0, "single", "slice", TRUE),
       P(1, 2, 1, "start", "key", FALSE), P(2, 2, 1, "start", "key", FALSE),
       P(1, 2, 2, "end", "key", TRUE), P(2, 2, 2, "middle", "key", FALSE),
       P(3, 2, 0, "single", "slice", TRUE), P(2, 2, 3, "end", "key", TRUE),
       P(1, 3, 3, "single", "slice", TRUE) >>

SrInit ==
    /\ isAvc \in BOOLEAN /\ first \in FirstIndex /\ gap \in Gaps
    /\ coming = Sent
    /\ missing = 0 /\ raw = <<>> /\ opened = <<>>
    /\ ssrcState = [s \in Ssrc |-> -1]

-----------------------------------------------------------------------------
Seq16(p) == p.index % SeqSpace
Roc(i) == i \div SeqSpace
Half == SeqSpace \div 2 - 1
AtLeastZero(n) == IF n < 0 THEN 0 ELSE n

RocGuess(p) ==
    LET newest == ssrcState[p.ssrc]
        diff == Seq16(p) - (newest % SeqSpace)
    IN  IF newest < 0 THEN 0
        ELSE IF diff > Half THEN AtLeastZero(Roc(newest) - 1)
        ELSE IF diff < -Half THEN Roc(newest) + 1
        ELSE Roc(newest)

\* Mutant: the count after the guess is not tried.
CandidatesBelow(p) == {RocGuess(p), AtLeastZero(Roc(ssrcState[p.ssrc])), AtLeastZero(RocGuess(p) - 1)}

Candidates(p) ==
    {RocGuess(p), AtLeastZero(Roc(ssrcState[p.ssrc])), RocGuess(p) + 1, AtLeastZero(RocGuess(p) - 1)}

Decrypt(p) ==
    IF Roc(p.index) \in Candidates(p)
    THEN /\ opened' = Append(opened, p)
         /\ ssrcState' = [ssrcState EXCEPT ![p.ssrc] = IF p.index > @ THEN p.index ELSE @]
    ELSE UNCHANGED <<opened, ssrcState>>

\* A datagram arrives, perhaps before some that were sent earlier.
Arrive(i) ==
    /\ i \in DOMAIN coming
    /\ raw' = Append(raw, coming[i])
    /\ coming' = SubSeq(coming, 1, i - 1) \o SubSeq(coming, i + 1, Len(coming))
    /\ Decrypt(coming[i])
    /\ UNCHANGED <<isAvc, first, gap, missing>>

Lose ==
    /\ coming # <<>> /\ missing < MaxLost
    /\ coming' = Tail(coming)
    /\ missing' = missing + 1
    /\ UNCHANGED <<isAvc, first, gap, raw, opened, ssrcState>>

SrNext == Lose \/ \E i \in 1 .. Late + 1 : Arrive(i)

SrSpec == SrInit /\ [][SrNext]_srVars

-----------------------------------------------------------------------------
\* Every genuine packet opens, across the wrap of the sequence number, a loss of more packets
\* than half its range, and packets that overtake each other (srtp.cpp 77-97).
EveryPacketOpens == opened = raw

=============================================================================
