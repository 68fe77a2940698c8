---------------------------- MODULE ControlChannel ----------------------------
(***************************************************************************)
(* The encrypted control connection: RecordLayer seals and opens records   *)
(* (src/src/protocol/record_layer.cpp), send_ctrl sends them from any      *)
(* thread, and the negotiation and then tcp_thread read them               *)
(* (src/src/protocol/negotiation.cpp, src/src/session/session.cpp).        *)
(*                                                                         *)
(* TCP cuts records anywhere, so a record is two cells <<record, 1>> and   *)
(* <<record, 2>>.  CBC chains: a record opens only when the one before it  *)
(* went through the cipher.  The two directions share nothing.             *)
(***************************************************************************)
EXTENDS Integers, Sequences

CONSTANTS
    Sender,     \* threads that call send_ctrl
    CtrWindow,  \* DECRYPT_COUNTER_WINDOW
    MaxSeal,    \* bound: records we seal
    MaxRecord   \* bound: records of the Mac

ASSUME ChannelAssumption ==
    CtrWindow \in Nat \ {0} /\ MaxSeal \in Nat /\ MaxRecord \in Nat /\ "none" \notin Sender

VARIABLES
    sender,     \* what each sending thread is about: [at, ctr]
    sendMu,     \* who holds send_mutex(), or "none"
    encCtr,     \* enc_ctr_
    wrote,      \* the counters of the records on our side of the wire

    recs,        \* the records of the Mac: [short, ctr]
    macCtr,     \* its counter
    ahead,      \* we have counted a record it has not
    wire,       \* cells on their way to us
    phase,      \* "neg" while the negotiation reads, then "run"
    buf,        \* answer, or tcp_buf_
    cut,        \* history: the negotiation dropped part of a record
    dec,        \* [ctr: dec_ctr_, chain: the last record through the cipher]
    got         \* the records handed on

sendVars == <<sender, sendMu, encCtr, wrote>>
readVars == <<recs, macCtr, ahead, wire, phase, buf, cut, dec, got>>

ChInit ==
    /\ sender = [t \in Sender |-> [at |-> "idle", ctr |-> 0]]
    /\ sendMu = "none" /\ encCtr = 0 /\ wrote = <<>>
    /\ recs = <<>> /\ macCtr = 0 /\ ahead = FALSE /\ wire = <<>>
    /\ phase = "neg" /\ buf = <<>> /\ cut = FALSE
    /\ dec = [ctr |-> 0, chain |-> 0] /\ got = <<>>

-----------------------------------------------------------------------------
(* Sending.                                                                *)

\* Mutant: the lock is taken in encrypt_message, and given back there.
SealUnlocks(t) ==
    /\ sender[t].at = "locked"
    /\ sender' = [sender EXCEPT ![t] = [at |-> "sealed", ctr |-> encCtr]]
    /\ encCtr' = encCtr + 1
    /\ sendMu' = "none"
    /\ UNCHANGED wrote

\* send_ctrl takes the lock, ...
LockSend(t) ==
    /\ sender[t].at = "idle" /\ sendMu = "none" /\ encCtr < MaxSeal
    /\ sendMu' = t
    /\ sender' = [sender EXCEPT ![t].at = "locked"]
    /\ UNCHANGED <<encCtr, wrote>>

\* ... seals the message, ...
Seal(t) ==
    /\ sender[t].at = "locked"
    /\ sender' = [sender EXCEPT ![t] = [at |-> "sealed", ctr |-> encCtr]]
    /\ encCtr' = encCtr + 1
    /\ UNCHANGED <<sendMu, wrote>>

\* ... and writes it; a write that fails is swallowed, and its counter used.
Write(t) ==
    /\ sender[t].at = "sealed"
    /\ wrote' \in {wrote, Append(wrote, sender[t].ctr)}
    /\ sender' = [sender EXCEPT ![t].at = "idle"]
    /\ sendMu' = IF sendMu = t THEN "none" ELSE sendMu
    /\ UNCHANGED encCtr

SendNext == \E t \in Sender : LockSend(t) \/ Seal(t) \/ Write(t)

-----------------------------------------------------------------------------
(* Receiving.                                                              *)

\* Mutant: only the counter that is due, and later ones.
CountersFromDue(ctr) == ctr .. ctr + CtrWindow - 1

\* The counters decrypt_message tries for a tag.
Counters(ctr) == (IF ctr > 0 THEN ctr - 1 ELSE 0) .. ctr + CtrWindow - 1

\* decrypt_message: a record too short for a tag is taken as it is; a tag
\* that fits sets the counter anew, and one that does not loses the record.
DecryptMessage(s, r) ==
    LET opens == s.chain = r - 1 /\ recs[r].ctr \in Counters(s.ctr)
    IN  IF recs[r].short
          THEN [ctr |-> s.ctr + 1, chain |-> r, out |-> Append(s.out, r)]
        ELSE IF opens
          THEN [ctr |-> recs[r].ctr + 1, chain |-> r, out |-> Append(s.out, r)]
        ELSE [s EXCEPT !.ctr = @ + 1, !.chain = r]

\* What the first n records of the cells make of the cipher.
ReadRecords(cells, n) ==
    LET after[i \in 0 .. n] ==
            IF i = 0 THEN [ctr |-> dec.ctr, chain |-> dec.chain, out |-> <<>>]
            ELSE DecryptMessage(after[i - 1], cells[2 * i][1])
    IN  after[n]

\* decrypt_stream: the whole records in front.  In the middle of a record it
\* takes ciphertext for a length: it stops there, or eats k cells.
DecryptStream(cells, k) ==
    LET n     == IF cells # <<>> /\ cells[1][2] = 1 THEN Len(cells) \div 2 ELSE 0
        lost  == cells # <<>> /\ cells[1][2] = 2
        read  == ReadRecords(cells, n)
        eaten == IF lost THEN k ELSE 0
        tail  == cells[eaten]
    IN  [rest |-> SubSeq(cells, 2 * n + eaten + 1, Len(cells)),
         out  |-> read.out,
         dec  |-> IF eaten > 0
                    THEN [ctr |-> dec.ctr + 1, chain |-> IF tail[2] = 2 THEN tail[1] ELSE -1]
                    ELSE [ctr |-> read.ctr, chain |-> read.chain]]

\* The Mac counts its records, leaves a few counters out, and may not count
\* a record without a tag, once before the next one with a tag.
MacSends(short, skip) ==
    /\ Len(recs) < MaxRecord
    /\ recs' = Append(recs, [short |-> short, ctr |-> macCtr + skip])
    /\ wire' = wire \o <<<<Len(recs) + 1, 1>>, <<Len(recs) + 1, 2>>>>
    /\ \/ macCtr' = macCtr + skip + 1 /\ ahead' = (ahead /\ short)
       \/ short /\ ~ahead /\ macCtr' = macCtr /\ ahead' = TRUE
    /\ short => skip = 0
    /\ UNCHANGED <<phase, buf, cut, dec, got>>

\* recv_some of n cells.
Receive(n) == wire' = SubSeq(wire, n + 1, Len(wire))
Piece(n) == SubSeq(wire, 1, n)

\* The negotiation collects an answer ...
NegRead(n) ==
    /\ phase = "neg"
    /\ Receive(n)
    /\ buf' = buf \o Piece(n)
    /\ UNCHANGED <<recs, macCtr, ahead, phase, cut, dec, got>>

\* ... until it has enough or waited long enough, opens what is whole and
\* drops the rest (drain_through_cipher, read_video_answer); it reads again,
\* or is done.
NegAnswer ==
    /\ phase = "neg"
    /\ \E k \in 0 .. Len(buf) :
          LET s == DecryptStream(buf, k)
          IN  dec' = s.dec /\ got' = got \o s.out /\ cut' = (cut \/ s.rest # <<>>)
    /\ buf' = <<>>
    /\ phase' \in {"neg", "run"}
    /\ UNCHANGED <<recs, macCtr, ahead, wire>>

\* tcp_thread keeps what is not whole for the next chunk.
TcpRead(n) ==
    /\ phase = "run"
    /\ Receive(n)
    /\ \E k \in 0 .. Len(buf) + n :
          LET s == DecryptStream(buf \o Piece(n), k)
          IN  dec' = s.dec /\ got' = got \o s.out /\ buf' = s.rest
    /\ UNCHANGED <<recs, macCtr, ahead, phase, cut>>

ReadNext ==
    \/ \E short \in BOOLEAN, skip \in 0 .. CtrWindow - 1 : MacSends(short, skip)
    \/ \E n \in 1 .. Len(wire) : NegRead(n) \/ TcpRead(n)
    \/ NegAnswer

ChSpec ==
    ChInit /\ [][\/ SendNext /\ UNCHANGED readVars
                 \/ ReadNext /\ UNCHANGED sendVars]_<<sendVars, readVars>>

-----------------------------------------------------------------------------
(* Properties.                                                             *)

Rising(s) == \A i \in 1 .. Len(s) - 1 : s[i] < s[i + 1]

\* "the record counter order equals the wire order" (record_layer.h 24):
\* whichever threads send, and whichever writes fail.
WireOrder == Rising(wrote)

\* However TCP cuts the records, whichever counters the Mac leaves out and
\* whichever short records it does not count: a reader the negotiation left
\* at the start of a record has handed on every record it has received whole,
\* once and in order.
EveryRecordRead ==
    phase = "run" /\ ~cut =>
        /\ Len(buf) < 2
        /\ got = [i \in 1 .. (2 * Len(recs) - Len(wire) - Len(buf)) \div 2 |-> i]

\* "CBC must consume every received block" (record_layer.cpp 48): no part of
\* a record is dropped unread.
NothingCut == ~cut

\* The control channel is a stream of records in order, both ways.
RecordsInOrder == WireOrder /\ EveryRecordRead

=============================================================================
