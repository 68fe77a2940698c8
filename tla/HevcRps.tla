------------------------------- MODULE HevcRps -------------------------------
(***************************************************************************)
(* The shadow of the decoder's reference pictures that tells before        *)
(* decoding whether a slice will be concealed (src/src/media/hevc_rps.cpp, *)
(* as VideoDecoder::feed_burst and feed_nalu drive it).                    *)
(*                                                                         *)
(* Pictures of a coded sequence are numbered from its IDR, which is 0; a   *)
(* slice carries the low bits of its number.  The code's set is cut to     *)
(* half at 8192 pictures, which no bounded run reaches.                    *)
(***************************************************************************)
EXTENDS Integers

CONSTANTS
    MaxLsb,     \* 2^log2_max_pic_order_cnt_lsb
    MaxPic,     \* bound: pictures of a sequence
    MaxIdr      \* bound: IDRs after the one of the burst

ASSUME RpsAssumption == MaxLsb \in Nat /\ MaxLsb > 1 /\ MaxLsb % 2 = 0

VARIABLES
    given,      \* pictures of this sequence the decoder was given
    latest,     \* the one given last
    seen,       \* seen_pocs_
    prev,       \* prev_poc_msb_ and prev_poc_lsb_
    idrs,       \* IDRs since the burst
    verdict     \* of the last slice: was it reported, and was its reference there

rpsVars == <<given, latest, seen, prev, idrs, verdict>>

HalfLsb == MaxLsb \div 2

\* The burst's IDR went through the tracker.
RpsInit ==
    /\ given = {0} /\ latest = 0 /\ seen = {0} /\ prev = [msb |-> 0, lsb |-> 0] /\ idrs = 0
    /\ verdict = [missing |-> FALSE, absent |-> FALSE]

\* Mutant: a jump of exactly half the range is not taken for a wrap.
MsbStrict(lsb) ==
    IF lsb < prev.lsb /\ prev.lsb - lsb > HalfLsb THEN prev.msb + MaxLsb
    ELSE IF lsb > prev.lsb /\ lsb - prev.lsb > HalfLsb THEN prev.msb - MaxLsb
    ELSE prev.msb

Msb(lsb) ==
    IF lsb < prev.lsb /\ prev.lsb - lsb >= HalfLsb THEN prev.msb + MaxLsb
    ELSE IF lsb > prev.lsb /\ lsb - prev.lsb > HalfLsb THEN prev.msb - MaxLsb
    ELSE prev.msb

\* feed_nalu of picture p, which refers to p - d: check_slice, then commit_decoded, whatever
\* was missing.  Pictures before it may be lost or come later, fewer than the low bits can tell.
FeedSlice(p, d) ==
    /\ p \notin given /\ p - latest \in (1 - HalfLsb) .. HalfLsb
    /\ LET lsb == p % MaxLsb
           poc == Msb(lsb) + lsb
       IN  /\ prev' = [msb |-> Msb(lsb), lsb |-> lsb]
           /\ verdict' = [missing |-> poc - d \notin seen, absent |-> p - d \notin given]
           /\ seen' = seen \cup {poc}
    /\ given' = given \cup {p} /\ latest' = p
    /\ UNCHANGED idrs

\* feed_nalu of an IDR: it goes to the decoder, and not to the tracker.
FeedIdr ==
    /\ idrs < MaxIdr
    /\ idrs' = idrs + 1
    /\ given' = {0} /\ latest' = 0
    /\ verdict' = [missing |-> FALSE, absent |-> FALSE]
    /\ UNCHANGED <<seen, prev>>

\* reset_state: the decoder starts anew and waits for an IDR.
RpsReset ==
    /\ idrs < MaxIdr
    /\ idrs' = idrs + 1
    /\ given' = {0} /\ latest' = 0
    /\ seen' = {} /\ prev' = [msb |-> 0, lsb |-> 0]
    /\ verdict' = [missing |-> FALSE, absent |-> FALSE]

RpsNext == FeedIdr \/ RpsReset \/ \E p \in 1 .. MaxPic, d \in {1, 2} : d <= p /\ FeedSlice(p, d)

RpsSpec == RpsInit /\ [][RpsNext]_rpsVars

-----------------------------------------------------------------------------
\* "Will this slice conceal?" (hevc_rps.h 2): the tracker reports a slice exactly if the picture
\* it refers to was not given to the decoder in this coded sequence.
ConcealmentForetold == verdict.missing <=> verdict.absent

\* It does until the first IDR after the burst, across wraps of the low bits, losses and
\* reordering of up to half their range.
ForetoldInFirstSequence == idrs = 0 => ConcealmentForetold
=============================================================================
