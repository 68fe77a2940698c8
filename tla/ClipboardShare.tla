--------------------------- MODULE ClipboardShare ---------------------------
(***************************************************************************)
(* Text copied on one side and pasted on the other                         *)
(* (src/src/session/session.cpp: handle_tcp_msg, handle_clipboard_send,    *)
(* clipboard_thread; src/src/protocol/clipboard.cpp: Reassembler).         *)
(*                                                                         *)
(* The Mac announces a change of its clipboard, the TCP thread asks for    *)
(* the text, puts the answer together from several records and writes it   *)
(* to the clipboard of the PC.  A thread of its own polls that clipboard   *)
(* and sends what it finds there, unless it is what the Mac sent last.     *)
(***************************************************************************)
EXTENDS Naturals, Sequences

CONSTANTS
  Body,      \* texts up to line endings and trailing white space
  MaxCopies  \* bound: copies made by the users of the two sides

Nothing == "nothing"

\* A text as a clipboard holds it; norm() leaves its body.
Text == [body : Body, crlf : BOOLEAN]

Norm(t) == t.body

Empty == [body |-> Nothing, crlf |-> FALSE]

VARIABLES
  local,     \* clipboard of the PC
  last,      \* where the last copy was made: "pc" or "mac"
  remote,    \* clipboard of the Mac: body and who wrote it
  copies,    \* copies made so far
  wire,      \* records on their way to the PC
  asked,     \* the request 0x0b is on its way to the Mac
  sent,      \* texts on their way to the Mac
  buf,       \* the Reassembler holds part of a text
  received,  \* last_received_clipboard_
  tcp,       \* text the TCP thread is about to write, or Nothing
  poll       \* clipboard_thread: last_seen, and the text read and not yet checked

csVars == <<local, last, remote, copies, wire, asked, sent, buf, received, tcp, poll>>

CsInit ==
  /\ local = Empty /\ last = "pc"
  /\ remote = [body |-> Nothing, by |-> "pc"] /\ copies = 0
  /\ wire = <<>> /\ asked = FALSE /\ sent = <<>>
  /\ buf = FALSE /\ received = Empty /\ tcp = Nothing
  /\ poll = [seen |-> Nothing, read |-> Nothing]

-----------------------------------------------------------------------------
Changed == [kind |-> "changed", body |-> Nothing]

\* The two users, and Screen Sharing on the Mac.
CopyHere(t) ==
  /\ copies < MaxCopies
  /\ copies' = copies + 1 /\ local' = t /\ last' = "pc"
  /\ UNCHANGED <<remote, wire, asked, sent, buf, received, tcp, poll>>

CopyThere(b) ==
  /\ copies < MaxCopies
  /\ copies' = copies + 1 /\ remote' = [body |-> b, by |-> "mac"]
  /\ last' = "mac" /\ wire' = Append(wire, Changed)
  /\ UNCHANGED <<local, asked, sent, buf, received, tcp, poll>>

MacAnswers ==
  /\ asked
  /\ asked' = FALSE
  /\ wire' = wire \o <<[kind |-> "first", body |-> remote.body], [kind |-> "rest", body |-> remote.body]>>
  /\ UNCHANGED <<local, last, remote, copies, sent, buf, received, tcp, poll>>

\* It does not announce a text it was sent.
MacPastes ==
  /\ sent # <<>>
  /\ remote' = [body |-> Head(sent), by |-> "pc"] /\ sent' = Tail(sent)
  /\ UNCHANGED <<local, last, copies, wire, asked, buf, received, tcp, poll>>

-----------------------------------------------------------------------------
\* Mutant: the Reassembler is not reset.
ReassembledKeeps == UNCHANGED buf

Reassembled == buf' = FALSE

\* handle_tcp_msg: a record belongs to the text in progress if there is one;
\* 0x14 command 2 asks for the text, 0x1f starts one.
TcpMessage ==
  /\ tcp = Nothing /\ wire # <<>>
  /\ wire' = Tail(wire)
  /\ LET m == Head(wire) IN
       \/ /\ buf /\ m.kind = "rest"
          /\ Reassembled
          /\ received' = [body |-> m.body, crlf |-> FALSE] /\ tcp' = m.body
          /\ UNCHANGED asked
       \/ /\ buf /\ m.kind # "rest"
          /\ UNCHANGED <<asked, buf, received, tcp>>
       \/ /\ ~buf
          /\ asked' = (asked \/ m.kind = "changed")
          /\ buf' = (m.kind = "first")
          /\ UNCHANGED <<received, tcp>>
  /\ UNCHANGED <<local, last, remote, copies, sent, poll>>

\* write_local_clipboard turns line ends into CR LF; it gives up silently when
\* another program has the clipboard open.
TcpWrites ==
  /\ tcp # Nothing
  /\ tcp' = Nothing
  /\ local' \in {local, [body |-> tcp, crlf |-> TRUE]}
  /\ UNCHANGED <<last, remote, copies, wire, asked, sent, buf, received, poll>>

\* Mutant: last_seen is not compared.
NewTextAnyPoll(b) == b # Nothing

NewText(b) == b \notin {Nothing, poll.seen}

\* clipboard_thread after its sleep; a read that fails is tried again.
PollReads ==
  /\ poll.read = Nothing
  /\ NewText(Norm(local))
  /\ poll' = [seen |-> Norm(local), read |-> Norm(local)]
  /\ UNCHANGED <<local, last, remote, copies, wire, asked, sent, buf, received, tcp>>

NotReceived(b) == b # Norm(received)

\* cut_text(c), unless it is what the Mac sent last.
PollSends ==
  /\ poll.read # Nothing
  /\ sent' = IF NotReceived(poll.read) THEN Append(sent, poll.read) ELSE sent
  /\ poll' = [poll EXCEPT !.read = Nothing]
  /\ UNCHANGED <<local, last, remote, copies, wire, asked, buf, received, tcp>>

CsNext ==
  \/ \E t \in Text : CopyHere(t)
  \/ \E b \in Body : CopyThere(b)
  \/ MacAnswers \/ MacPastes
  \/ TcpMessage \/ TcpWrites
  \/ PollReads \/ PollSends

\* Both threads run as long as the session does, and the Mac answers.
CsFairness ==
  /\ WF_csVars(TcpMessage \/ TcpWrites) /\ WF_csVars(PollReads \/ PollSends)
  /\ WF_csVars(MacAnswers) /\ WF_csVars(MacPastes)

CsSpec == CsInit /\ [][CsNext]_csVars /\ CsFairness

-----------------------------------------------------------------------------
(* Text copied on the Mac reaches the viewer: it is the text received last *)
(* unless the Mac's clipboard has changed again (handle_tcp_msg asks for   *)
(* every announced change and the Reassembler is free for the next one).   *)
MacCopyArrives ==
  \A b \in Body : remote = [body |-> b, by |-> "mac"]
                    ~> (Norm(received) = b \/ remote # [body |-> b, by |-> "mac"])

(* Copies come to rest: however the two threads and the Mac interleave,   *)
(* the two sides stop sending each other texts once nobody copies (the     *)
(* comparisons with last_seen and last_received_clipboard_,                *)
(* session.cpp:759-761).                                                   *)
ExchangeSettles == <>[](wire = <<>> /\ sent = <<>> /\ ~asked /\ tcp = Nothing)

(* "Text you copy on one side can be pasted on the other"                  *)
(* (docs/USER-GUIDE.md:82): when the last copy was made on the PC, the     *)
(* Mac's clipboard ends up with it.                                        *)
CopyCanBePasted == <>[](last = "pc" => remote.body = Norm(local))

(* Text from the Mac arrives, and is not sent to and fro for ever.         *)
ClipboardSettles == MacCopyArrives /\ ExchangeSettles

=============================================================================
