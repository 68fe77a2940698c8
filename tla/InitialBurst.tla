----------------------------- MODULE InitialBurst -----------------------------
(***************************************************************************)
(* The first packets of the video, once SrtpDecryptor opened them:         *)
(* gather_initial_burst sorts them into units, tiles and what is left for  *)
(* the assembler (src/src/media/burst.cpp), and reassemble_hevc or         *)
(* reassemble_h264 joins the fragments of a unit (src/src/media/nalu.cpp). *)
(* A NAL is the list of the packets it was joined from.                    *)
(***************************************************************************)
EXTENDS SrtpDecryptor, SequencesExt, FiniteSetsExt

CONSTANT QualityTier

VARIABLE burst  \* what gather_initial_burst returned, or NoBurst

ibVars == <<srVars, burst>>

TilesPerFrame == 2
NoBurst == [at |-> "none"]
UnitOf(s, ts) == SelectSeq(Sent, LAMBDA p : p.ssrc = s /\ p.ts = ts)

IbInit == SrInit /\ burst = NoBurst

-----------------------------------------------------------------------------
\* reassemble_hevc: fragments are joined from a start to the next end; a start drops what was
\* begun before it, and a rest without end is dropped too.
JoinFragment(acc, p) ==
    CASE p.frag = "start" -> [acc EXCEPT !.fu = <<p>>]
      [] p.frag = "middle" /\ acc.fu # <<>> -> [acc EXCEPT !.fu = Append(@, p)]
      [] p.frag = "end" /\ acc.fu # <<>> -> [fu |-> <<>>, nals |-> Append(acc.nals, Append(acc.fu, p))]
      [] p.frag \in {"single", "aggregate"} -> [acc EXCEPT !.nals = Append(@, <<p>>)]
      [] OTHER -> acc

ReassembleHevc(ps) == FoldLeft(JoinFragment, [fu |-> <<>>, nals |-> <<>>], ps).nals

\* reassemble_h264 passes over Apple's configuration packets; else it differs in offsets only.
ReassembleH264(ps) == ReassembleHevc(SelectSeq(ps, LAMBDA p : p.frag # "config"))

\* primary_ssrc_group: runs of neighbouring SSRCs, the heaviest first.
Weight(g) == Len(SelectSeq(opened, LAMBDA p : p.ssrc \in ToSet(g)))

\* Mutant: a run may be longer than a frame has tiles.
RunsUnlimited(gs, s) ==
    IF gs # <<>> /\ s - Last(Last(gs)) <= 1
    THEN Front(gs) \o << Append(Last(gs), s) >>
    ELSE Append(gs, <<s>>)

Runs(gs, s) ==
    IF gs # <<>> /\ s - Last(Last(gs)) <= 1 /\ Len(Last(gs)) < TilesPerFrame
    THEN Front(gs) \o << Append(Last(gs), s) >>
    ELSE Append(gs, <<s>>)

PrimarySsrcGroup ==
    LET heard == SetToSortSeq({p.ssrc : p \in ToSet(opened)}, <)
        gs == FoldLeft(Runs, <<>>, heard)
        Before(i, j) == Weight(gs[i]) > Weight(gs[j]) \/ (Weight(gs[i]) = Weight(gs[j]) /\ i < j)
        Rank(i) == Cardinality({j \in DOMAIN gs : Before(j, i)})
    IN  IF gs = <<>> THEN <<>>
        ELSE gs[CHOOSE i \in DOMAIN gs : Rank(i) = Min({QualityTier, Len(gs) - 1})]

\* The packets of a unit by sequence number.
SortKey(ps, p) ==
    LET seqs == {Seq16(q) : q \in ToSet(ps)}
    IN  IF Max(seqs) - Min(seqs) > SeqSpace \div 2 THEN (Seq16(p) - Min(seqs)) % SeqSpace ELSE Seq16(p)

\* Mutant: as they arrived.
InArrivalOrder(ps) == ps

InSeqOrder(ps) == SetToSortSeq(ToSet(ps), LAMBDA p, q : SortKey(ps, p) < SortKey(ps, q))

\* A NAL of tile t is added to what the burst has of it: a key frame starts anew.
\* Mutant: a key frame is added like any other.
AddNalBehind(b, t, n) ==
    CASE n[1].nal = "params" -> [b EXCEPT !.params = TRUE]
      [] OTHER -> [b EXCEPT !.nalus[t] = Append(@, n)]

AddNal(b, t, n) ==
    CASE n[1].nal = "params" -> [b EXCEPT !.params = TRUE]
      [] n[1].nal = "key" -> [b EXCEPT !.nalus[t] = <<n>>]
      [] n[1].nal = "slice" -> [b EXCEPT !.nalus[t] = Append(@, n)]

Key(p) == <<p.ssrc, p.ts>>
Group(k) == SelectSeq(opened, LAMBDA p : Key(p) = k)

\* Mutant: a unit is complete with any of its packets.
HasAny(k) == Group(k) # <<>>

HasMarker(k) == \E p \in ToSet(Group(k)) : p.marker

\* One unit: without its marker it is left for the assembler, and on another SSRC it is dropped.
GatherUnit(tile, b, k) ==
    IF ~HasMarker(k) THEN [b EXCEPT !.pending = @ \o Group(k)]
    ELSE IF k[1] \notin DOMAIN tile THEN b
    ELSE LET ps == InSeqOrder(Group(k))
             c == [b EXCEPT !.params = @ \/ (isAvc /\ \E p \in ToSet(ps) : p.frag = "config")]
         IN  FoldLeft(LAMBDA d, n : AddNal(d, tile[k[1]], n), c,
                      IF isAvc THEN ReassembleH264(ps) ELSE ReassembleHevc(ps))

Gather ==
    /\ burst = NoBurst
    /\ LET primary == PrimarySsrcGroup
           tile == [s \in ToSet(primary) |-> CHOOSE i \in DOMAIN primary : primary[i] = s]
           order == FoldLeft(LAMBDA ks, p : IF Contains(ks, Key(p)) THEN ks ELSE Append(ks, Key(p)), <<>>, opened)
           nothing == [at |-> "done", tile |-> tile, params |-> FALSE, pending |-> <<>>,
                       nalus |-> [t \in DOMAIN primary |-> <<>>]]
           b == FoldLeft(LAMBDA d, k : GatherUnit(tile, d, k), nothing, order)
       IN  burst' = IF b.params THEN b ELSE [at |-> "starved"]
    /\ UNCHANGED srVars

IbNext == Gather \/ (burst = NoBurst /\ SrNext /\ UNCHANGED burst)

IbSpec == IbInit /\ [][IbNext]_ibVars

-----------------------------------------------------------------------------
\* The packets of a tile's NALs, in the order they are joined in.
Joined(t) == FoldLeft(LAMBDA ps, n : ps \o n, <<>>, burst.nalus[t])
Done == burst.at = "done"
Arrived(u) == ToSet(u) \subseteq ToSet(opened)
Wraps(u) == Roc(u[1].index) # Roc(Last(u).index)

\* A key frame all of whose packets came is joined in the order it was sent, however the packets
\* came (burst.cpp 50-54).
KeyFrameWhole ==
    Done => \A s \in DOMAIN burst.tile \cap {1, 2} :
               Arrived(UnitOf(s, 2)) => UnitOf(s, 2) \in ToSet(burst.nalus[burst.tile[s]])

\* So far as the sequence number does not wrap within it.
KeyFrameWholeUnlessWrap ==
    Done => \A s \in DOMAIN burst.tile \cap {1, 2} :
               Arrived(UnitOf(s, 2)) /\ ~Wraps(UnitOf(s, 2))
                  => UnitOf(s, 2) \in ToSet(burst.nalus[burst.tile[s]])

\* "NALs in arrival order (IDR first)" (burst.h 26), although slices of pictures before the key
\* frame may be in the burst and units are taken in the order their first packets came.
IdrFirst ==
    Done => \A t \in DOMAIN burst.nalus :
               \A i \in DOMAIN burst.nalus[t] \ {1} : burst.nalus[t][i][1].nal # "key"

\* A unit that is cut off by the end of the burst goes to the assembler with all its packets, and
\* no packet goes both ways (burst.cpp 39-48, 87-90).
NoneTwiceNoneForgotten ==
    Done => /\ \A t \in DOMAIN burst.nalus : ToSet(Joined(t)) \cap ToSet(burst.pending) = {}
            /\ \A p \in ToSet(opened) :
                  (\A q \in ToSet(opened) : Key(q) = Key(p) => ~q.marker) => p \in ToSet(burst.pending)

\* When both tiles were heard the SSRCs are matched to them by rank, and a neighbouring SSRC of
\* another quality tier is left out (srtp.cpp 141-157, burst.cpp 32-34).
TilesBySsrc ==
    Done /\ {1, 2} \subseteq {p.ssrc : p \in ToSet(opened)} => burst.tile = (1 :> 1 @@ 2 :> 2)

\* gather_initial_burst keeps what it was given: key frames are whole and
\* first on their tile, tiles are told apart by SSRC, and a packet goes to a
\* tile or to the assembler.
BurstIsKept == KeyFrameWholeUnlessWrap /\ IdrFirst /\ NoneTwiceNoneForgotten /\ TilesBySsrc

=============================================================================
