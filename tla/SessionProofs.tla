--------------------------- MODULE SessionProofs ----------------------------
(***************************************************************************)
(* Proofs about a session: SessionLife, for any number of connection       *)
(* attempts and of queries for the canvas, and TunnelGate, what it reads   *)
(* of the tunnel before it begins.  The inductive invariant of SessionLife *)
(* has four parts: what the handshake has said on which connection, by     *)
(* place (HInv); which threads can run and which members exist, by the     *)
(* places of the helper thread, of the UI thread and of teardown() (LInv); *)
(* why connect() fails (RInv); and the types of the rest (TInv).           *)
(***************************************************************************)
EXTENDS SessionLife, TunnelGate, TLAPS

-----------------------------------------------------------------------------
(* SessionLife: the handshake.                                             *)

\* Places of connect() before a connection is in use, while it is the one
\* that was authenticated on, before the offer, and before the selection.
Undialled == {"idle", "bind", "warmup", "check", "dial", "redial"}
Keyed == {"init", "prompt", "select", "plain", "enc"}
Unasked == Undialled \cup {"dwell", "auth", "fallback", "init", "prompt", "select"}
Unoffered == Unasked \cup {"plain", "enc"}
Answering == {"answer", "canvas"}

HFields == {"n", "open", "sock", "key", "alt", "cmd", "cipher", "sent", "flags", "dims", "second"}

HShaped(g) ==
    /\ g = [x \in HFields |-> g[x]]
    /\ g.n \in Nat /\ g.sent \in 0 .. Queries

\* The connection that is open is the one in use, and what was agreed on it
\* is its own.
OnOneSocket(p, g) ==
    /\ (g.sock = 0 /\ g.open = {}) \/ (g.sock # 0 /\ g.open = {g.sock})
    /\ p \in Undialled => g.sock = 0
    /\ p \in Keyed => g.key = g.sock
    /\ p \in Unoffered => g.cipher = 0
    /\ g.cipher # 0 => g.cipher = g.sock

\* What is offered is what was selected, and what the Mac has to offer.
OfferedAsAsked(p, g) ==
    /\ p \in Unasked => g.cmd = "none"
    /\ p \in Unoffered => g.sent = 0
    /\ p \in Answering => g.sent > 0
    /\ p = "prompt" => ~g.second
    /\ g.cmd # "none" => g.cmd = IF g.alt THEN "own" ELSE "share"
    /\ g.second => g.alt /\ cfg.mask # {0}
    /\ p = "select" \/ g.cmd # "none" => (g.alt => cfg.mask # {0})
    /\ g.sent > 0 => g.flags \in IF g.alt THEN {5} ELSE {3, 7}

HInv(p, g) == HShaped(g) /\ OnOneSocket(p, g) /\ OfferedAsAsked(p, g)

USE DEF HFields, Undialled, Keyed, Unasked, Unoffered, Answering

\* A handshake that has not begun.
LEMMA FreshH == ASSUME NEW p, p \notin Answering PROVE HInv(p, NoHandshake)
BY LifeAssumption DEF HInv, HShaped, OnOneSocket, OfferedAsAsked, NoHandshake

\* A handshake that starts over.
LEMMA FreshAltH == ASSUME NEW alt PROVE \A p \in {"dial"} : HInv(p, [NoHandshake EXCEPT !.alt = alt])
BY LifeAssumption DEF HInv, HShaped, OnOneSocket, OfferedAsAsked, NoHandshake

\* Past the offer nothing new is said.
LEMMA LaterH ==
  ASSUME NEW p, NEW q, NEW g, HInv(p, g), q \notin Unoffered \cup Answering
  PROVE  HInv(q, g)
BY Zenon DEF HInv, HShaped, OnOneSocket, OfferedAsAsked

\* Dialling.
LEMMA DialH ==
  ASSUME NEW p, NEW q, NEW g, HInv(p, g), <<p, q>> \in {<<"warmup", "dwell">>, <<"dial", "auth">>, <<"redial", "fallback">>}
  PROVE  HInv(q, Dialled(g))
<1>0. g.open = {} /\ g.n \in Nat
  BY Zenon DEF HInv, HShaped, OnOneSocket
<1>1. HShaped(Dialled(g)) /\ Dialled(g).sock = g.n + 1 /\ Dialled(g).open = {g.n + 1}
  <2>1. Dialled(g) = [x \in HFields |-> Dialled(g)[x]]
    <3> HIDE DEF HFields
    <3> QED BY Zenon DEF HInv, HShaped, Dialled
  <2>2. Dialled(g).n = g.n + 1 /\ Dialled(g).sock = g.n + 1 /\ Dialled(g).sent = g.sent
    BY Zenon DEF HInv, HShaped, Dialled
  <2>3. Dialled(g).open = g.open \cup {g.n + 1}
    BY Zenon DEF HInv, HShaped, Dialled
  <2> QED BY <1>0, <2>1, <2>2, <2>3 DEF HInv, HShaped
<1>2. /\ Dialled(g).cipher = g.cipher /\ Dialled(g).key = g.key /\ Dialled(g).cmd = g.cmd
      /\ Dialled(g).alt = g.alt /\ Dialled(g).sent = g.sent /\ Dialled(g).flags = g.flags
      /\ Dialled(g).second = g.second
  BY Zenon DEF HInv, HShaped, Dialled
<1>3. OnOneSocket(q, Dialled(g))
  BY <1>1, <1>2 DEF HInv, HShaped, OnOneSocket
<1>4. OfferedAsAsked(q, Dialled(g))
  BY Zenon, <1>1, <1>2 DEF HInv, HShaped, OfferedAsAsked
<1> QED BY Zenon, <1>1, <1>3, <1>4 DEF HInv

\* Giving a connection up.
LEMMA HangUpH ==
  ASSUME NEW p, NEW q, NEW g, HInv(p, g), <<p, q>> \in {<<"dwell", "check">>, <<"auth", "redial">>, <<"prompt", "dial">>}
  PROVE  HInv(q, HangUp(g))
<1>1. HShaped(HangUp(g)) /\ HangUp(g).sock = 0 /\ HangUp(g).open = {}
  BY Zenon DEF HInv, HShaped, OnOneSocket, HangUp
<1>2. /\ HangUp(g).cipher = g.cipher /\ HangUp(g).key = g.key /\ HangUp(g).cmd = g.cmd
      /\ HangUp(g).alt = g.alt /\ HangUp(g).sent = g.sent /\ HangUp(g).flags = g.flags
      /\ HangUp(g).second = g.second
  BY Zenon DEF HInv, HShaped, HangUp
<1>3. OnOneSocket(q, HangUp(g))
  BY Zenon, <1>1, <1>2 DEF HInv, HShaped, OnOneSocket
<1>4. OfferedAsAsked(q, HangUp(g))
  BY Zenon, <1>1, <1>2 DEF HInv, HShaped, OfferedAsAsked
<1> QED BY Zenon, <1>1, <1>3, <1>4 DEF HInv

\* phase_auth keys the connection it ran on.
LEMMA KeyH ==
  ASSUME NEW p \in {"auth", "fallback"}, NEW g, HInv(p, g)
  PROVE  HInv("init", [g EXCEPT !.key = g.sock])
BY Zenon DEF HInv, HShaped, OnOneSocket, OfferedAsAsked

\* The two answers to the prompt, and the command.
LEMMA SecondH ==
  ASSUME NEW g, HInv("dial", g), g.alt, cfg.mask # {0}
  PROVE  HInv("dial", [g EXCEPT !.second = TRUE])
BY Zenon DEF HInv, HShaped, OnOneSocket, OfferedAsAsked

\* Sharing the own session.
LEMMA ShareH ==
  ASSUME NEW g, HInv("prompt", g)
  PROVE  HInv("select", [g EXCEPT !.alt = FALSE])
BY DEF HInv, HShaped, OnOneSocket, OfferedAsAsked

\* Choosing a session.
LEMMA SelectH ==
  ASSUME NEW g, HInv("select", g)
  PROVE  HInv("plain", [g EXCEPT !.cmd = IF g.alt THEN "own" ELSE "share"])
BY Zenon DEF HInv, HShaped, OnOneSocket, OfferedAsAsked

\* From place to place with nothing said.
LEMMA SilentH ==
  ASSUME NEW p, NEW q, NEW g, HInv(p, g),
         \/ <<p, q>> \in {<<"warmup", "check">>, <<"prompt", "plain">>,
                          <<"select", "plain">>, <<"plain", "enc">>, <<"bind", "warmup">>, <<"idle", "bind">>}
         \/ p = "init" /\ q = IF g.second THEN "select" ELSE "prompt"
  PROVE  HInv(q, g)
BY Zenon DEF HInv, HShaped, OnOneSocket, OfferedAsAsked

\* read_until_enc1103, the offer and its answers.
LEMMA CipherH ==
  ASSUME NEW g, HInv("enc", g)
  PROVE  HInv("drain", [g EXCEPT !.cipher = g.key])
BY Zenon DEF HInv, HShaped, OnOneSocket, OfferedAsAsked

\* Sending the offer.
LEMMA OfferH ==
  ASSUME NEW g, HInv("offer", g), NEW legacy \in BOOLEAN
  PROVE  HInv("answer", [g EXCEPT !.sent = 1, !.flags = Build0x1c(g.alt, legacy)])
<1> DEFINE k == [g EXCEPT !.sent = 1, !.flags = Build0x1c(g.alt, legacy)]
<1>1. k = [x \in HFields |-> k[x]]
  <2> HIDE DEF HFields
  <2> QED BY Zenon DEF HInv, HShaped
<1>2. /\ k.n = g.n /\ k.open = g.open /\ k.sock = g.sock /\ k.cipher = g.cipher
      /\ k.alt = g.alt /\ k.cmd = g.cmd /\ k.second = g.second
      /\ k.sent = 1 /\ k.flags = Build0x1c(g.alt, legacy)
  BY Zenon DEF HInv, HShaped
<1>3. HShaped(k)
  BY <1>1, <1>2, LifeAssumption DEF HInv, HShaped
<1> HIDE DEF k
<1>4. OnOneSocket("answer", k)
  BY Zenon, <1>2 DEF HInv, OnOneSocket
<1>5. OfferedAsAsked("answer", k)
  BY <1>2 DEF HInv, OfferedAsAsked, Build0x1c
<1> QED BY Zenon, <1>3, <1>4, <1>5 DEF HInv, k

\* The answer to the offer.
LEMMA AnswerH ==
  ASSUME NEW g, HInv("answer", g), NEW d \in BOOLEAN
  PROVE  HInv("canvas", [g EXCEPT !.dims = d])
BY Zenon DEF HInv, HShaped, OnOneSocket, OfferedAsAsked

\* Asking for the canvas again.
LEMMA AskAgainH ==
  ASSUME NEW g, HInv("canvas", g), g.sent < Queries
  PROVE  HInv("answer", [g EXCEPT !.sent = @ + 1])
BY LifeAssumption DEF HInv, HShaped, OnOneSocket, OfferedAsAsked

\* connect() keeps of a handshake its socket and its cipher.
LEMMA ResultH ==
  ASSUME NEW g, HInv("canvas", g)
  PROVE  HInv("store", [NoHandshake EXCEPT !.open = g.open, !.sock = g.sock, !.cipher = g.cipher])
<1> DEFINE k == [NoHandshake EXCEPT !.open = g.open, !.sock = g.sock, !.cipher = g.cipher]
<1>0. NoHandshake = [x \in HFields |-> NoHandshake[x]]
  BY Zenon DEF NoHandshake
<1>1. k = [x \in HFields |-> k[x]]
  <2> HIDE DEF HFields
  <2> QED BY Zenon, <1>0
<1>2. /\ k.n = 0 /\ k.open = g.open /\ k.sock = g.sock /\ k.cipher = g.cipher
      /\ k.cmd = "none" /\ k.second = FALSE /\ k.sent = 0
  BY Zenon DEF NoHandshake
<1>3. HShaped(k)
  BY <1>1, <1>2, LifeAssumption DEF HShaped
<1> HIDE DEF k
<1>4. OnOneSocket("store", k)
  BY Zenon, <1>2 DEF HInv, OnOneSocket
<1>5. OfferedAsAsked("store", k)
  BY <1>2 DEF OfferedAsAsked
<1> QED BY Zenon, <1>3, <1>4, <1>5 DEF HInv, k

\* The handshake as a whole: whatever fails or is refused, and whenever.
LEMMA HandshakeH ==
  ASSUME HInv(c, h), Handshake
  PROVE  HInv(c', h') /\ UNCHANGED cfg
<1>0. UNCHANGED cfg
  BY Zenon DEF Handshake, BindUdp, WarmupTcp, SkipWarmup, StartPunch, OpenAndHandshake, PhaseAuth,
     PhaseClientInit, PeekPrompt, PhaseSessionSelect, PhasePlaintext, ReadCipher,
     DrainThroughCipher, SendOffer, ReadVideoAnswer, ReQuery, MakeResult, StoreResult, DrainBurst,
     Reconnect, GiveUp, Phase, Fails, Throws, viewerVars
<1>1. ASSUME Throws PROVE HInv(c', h')
  <2>1. c' = "throw" /\ h' = NoHandshake
    BY Zenon, <1>1 DEF Throws
  <2> QED BY Zenon, <2>1, FreshH
<1>2. ASSUME Fails PROVE HInv(c', h')
  BY Zenon, <1>1, <1>2 DEF Fails
<1> HIDE DEF Undialled, Keyed, Unasked, Unoffered, Answering, HFields
<1>3. ASSUME BindUdp PROVE HInv(c', h')
  BY Zenon, <1>2, <1>3, SilentH DEF BindUdp, At
<1>4. ASSUME WarmupTcp PROVE HInv(c', h')
  BY Zenon, <1>4, DialH, HangUpH DEF WarmupTcp, At, Phase
<1>5. ASSUME SkipWarmup PROVE HInv(c', h')
  BY Zenon, <1>5, SilentH DEF SkipWarmup, At, Phase
<1>6. ASSUME StartPunch PROVE HInv(c', h')
  BY Zenon, <1>1, <1>6, FreshAltH DEF StartPunch
<1>7. ASSUME OpenAndHandshake PROVE HInv(c', h')
  BY Zenon, <1>2, <1>7, DialH DEF OpenAndHandshake, Phase
<1>8. ASSUME PhaseAuth PROVE HInv(c', h')
  BY <1>1, <1>2, <1>8, KeyH, HangUpH DEF PhaseAuth, Phase
<1>9. ASSUME PhaseClientInit PROVE HInv(c', h')
  BY Zenon, <1>2, <1>9, SilentH DEF PhaseClientInit, At, Phase
<1>10. ASSUME PeekPrompt PROVE HInv(c', h')
  <2>1. CASE Fails
    BY Zenon, <1>2, <2>1
  <2>2. CASE At("prompt") /\ Phase("plain", h)
    BY Zenon, <2>2, SilentH DEF At, Phase
  <2>3. CASE At("prompt") /\ Phase("select", [h EXCEPT !.alt = FALSE])
    BY Zenon, <2>3, ShareH DEF At, Phase
  <2>4. CASE At("prompt") /\ h.alt /\ ~OnlyConsole /\ Phase("dial", [HangUp(h) EXCEPT !.second = TRUE])
    <3>1. HInv("dial", HangUp(h))
      BY Zenon, <2>4, HangUpH DEF At
    <3>2. HangUp(h).alt = h.alt
      BY Zenon DEF HInv, HShaped, HangUp, HFields
    <3> QED BY Zenon, <2>4, <3>1, <3>2, SecondH DEF Phase, OnlyConsole
  <2> QED BY Zenon, <1>10, <2>1, <2>2, <2>3, <2>4 DEF PeekPrompt
<1>11. ASSUME PhaseSessionSelect PROVE HInv(c', h')
  BY Zenon, <1>2, <1>11, SilentH, SelectH DEF PhaseSessionSelect, At, Phase
<1>12. ASSUME PhasePlaintext PROVE HInv(c', h')
  BY Zenon, <1>2, <1>12, SilentH DEF PhasePlaintext, At, Phase
<1>13. ASSUME ReadCipher PROVE HInv(c', h')
  BY Zenon, <1>2, <1>13, CipherH DEF ReadCipher, At, Phase
<1>14. ASSUME SendOffer PROVE HInv(c', h')
  BY Zenon, <1>2, <1>14, OfferH DEF SendOffer, At, Phase
<1>15. ASSUME ReadVideoAnswer PROVE HInv(c', h')
  BY <1>15, AnswerH DEF ReadVideoAnswer, At, Phase
<1>16. ASSUME ReQuery PROVE HInv(c', h')
  BY Zenon, <1>1, <1>2, <1>16, AskAgainH DEF ReQuery, At, Phase
<1>17. ASSUME MakeResult PROVE HInv(c', h')
  BY Zenon, <1>17, ResultH DEF MakeResult, At, Phase
<1>18. ASSUME DrainThroughCipher \/ StoreResult PROVE HInv(c', h')
  <2>1. h' = h /\ c' \in {"offer", "burst"}
    BY Zenon, <1>18 DEF DrainThroughCipher, StoreResult, Phase
  <2> QED BY Zenon, <2>1, LaterH DEF Undialled, Unasked, Unoffered, Answering
<1>19. ASSUME DrainBurst PROVE HInv(c', h')
  <2>1. CASE Reconnect
    BY Zenon, <2>1, FreshAltH DEF Reconnect
  <2>2. CASE ~Reconnect
    <3>1. h' = h /\ c' \in {"punched", "starved", "throw"}
      BY Zenon, <1>19, <2>2 DEF DrainBurst, GiveUp, Phase
    <3> QED BY Zenon, <3>1, LaterH DEF Undialled, Unasked, Unoffered, Answering
  <2> QED BY Zenon, <2>1, <2>2
<1> QED BY Zenon, <1>0, <1>3, <1>4, <1>5, <1>6, <1>7, <1>8, <1>9, <1>10, <1>11, <1>12, <1>13, <1>14, <1>15,
        <1>16, <1>17, <1>18, <1>19 DEF Handshake

-----------------------------------------------------------------------------
(* SessionLife: threads, parts and the viewer.                             *)

Prep == {"warmup", "dwell", "check"}
Talking == {"dial", "redial", "auth", "fallback", "init", "prompt", "select", "plain", "enc",
            "drain", "offer", "answer", "canvas", "store"}
Drained == {"burst", "starved", "punched"}
Building == {"decoder", "hook", "pool", "check2"}
Spawning == {"spawn", "return"}
Failing == {"throw", "catch", "failed"}

\* The session is connected and nobody has begun to take it down.
Up == c = "ok" /\ (v \in {"pump", "join", "render"} \/ (v = "close" /\ td \in {1, 2}))

\* Where the helper thread and the UI thread can be, together.
Placed ==
    /\ c \in {"idle", "bind", "ok"} \cup Prep \cup Talking \cup Drained \cup Building \cup Spawning \cup Failing
    /\ v \in {"start", "pump", "join", "render", "close", "done"}
    /\ v = "start" => c = "idle"
    /\ c = "idle" => v \in {"start", "done"}
    /\ v = "render" => c = "ok"
    /\ v = "close" => c \in {"ok", "failed"}
    /\ v = "done" => c \in {"idle", "ok", "failed"}
    /\ td \in 0 .. 8
    /\ c = "catch" => td # 0
    /\ td # 0 => c = "catch" \/ v = "close"

\* The members the session has at each place.
Built ==
    /\ try \in 0 .. Tries /\ neg \in 0 .. Tries
    /\ res \subseteq {"hook", "decoder", "rx", "udp", "pool"}
    /\ c \in Talking \cup Drained => try # 0
    /\ c \in Prep \cup Talking \cup Drained \cup Building \cup Spawning \/ Up => "udp" \in res
    /\ c \in Drained \cup Building \cup Spawning \/ Up => neg # 0
    /\ c \in {"hook", "pool", "check2"} \cup Spawning \/ Up => "decoder" \in res
    /\ c \in {"check2"} \cup Spawning \/ Up => "pool" \in res

\* When a thread can be running.
ThreadsPlaced ==
    /\ thr \in [Threads -> {"none", "run", "ended"}]
    /\ thr["punch"] = "run" => c \in Talking \cup Drained \cup {"throw"} /\ "udp" \in res
    /\ \A t \in Threads \ {"punch"} : thr[t] = "run" => c \in Spawning \/ Up

\* What teardown() has released by now.
TakenDown ==
    /\ td >= 4 => "hook" \notin res
    /\ td >= 5 => "decoder" \notin res
    /\ td >= 6 => "rx" \notin res
    /\ td >= 7 => "udp" \notin res
    /\ td >= 8 => neg = 0 /\ h = NoHandshake
    /\ c = "idle" \/ (td = 0 /\ (c = "failed" \/ v \in {"close", "done"}))
         => res = {} /\ neg = 0 /\ h = NoHandshake

FlagsKept ==
    /\ flags = [x \in {"cancel", "stop", "connected"} |-> flags[x]]
    /\ flags.connected => c = "ok" /\ v # "done"

LInv == Placed /\ Built /\ ThreadsPlaced /\ TakenDown /\ FlagsKept

HsFrame == UNCHANGED <<cfg, v, exit, closed, ui, lost, td, flags>>

\* A step of the handshake, as the rest of the session sees it.
HsMove ==
    \/ c = "bind" /\ c' = "warmup" /\ res' = res \cup {"udp"} /\ UNCHANGED <<thr, neg, try>>
    \/ c' = "throw" /\ UNCHANGED <<thr, res, neg, try>>
    \/ c \in Prep /\ c' \in Prep /\ UNCHANGED <<thr, res, neg, try>>
    \/ /\ c = "check" /\ c' = "dial" /\ try' = 1 /\ thr' = [thr EXCEPT !["punch"] = "run"]
       /\ UNCHANGED <<res, neg>>
    \/ c \in Talking /\ c' \in Talking /\ UNCHANGED <<thr, res, neg, try>>
    \/ c = "store" /\ c' = "burst" /\ neg' = try /\ UNCHANGED <<thr, res, try>>
    \/ c \in Drained /\ c' \in Drained /\ UNCHANGED <<thr, res, neg, try>>
    \/ /\ c = "starved" /\ c' = "dial" /\ neg' = 0 /\ try < Tries /\ try' = try + 1
       /\ UNCHANGED <<thr, res>>

\* What a step of the handshake leaves alone.
LEMMA HandshakeMoves ==
  ASSUME Handshake
  PROVE  HsMove /\ HsFrame /\ td = 0 /\ c \notin {"idle", "ok", "throw", "catch", "failed"} \cup Building \cup Spawning
<1> USE DEF Prep, Talking, Drained, Building, Spawning, viewerVars, sharedVars, HsFrame
<1>1. ASSUME Fails PROVE HsMove /\ HsFrame
  BY Zenon, <1>1 DEF Fails, Throws, HsMove
<1>2. ASSUME Throws PROVE HsMove /\ HsFrame
  BY Zenon, <1>2 DEF Throws, HsMove
<1> DEFINE Quiet == UNCHANGED <<try, td, cfg, v, exit, closed, ui, lost, flags, thr, res, neg>>
<1>3. ASSUME Quiet, \/ c \in Prep /\ c' \in Prep
                    \/ c \in Talking /\ c' \in Talking
                    \/ c \in Drained /\ c' \in Drained
                    \/ c' = "throw"
      PROVE HsMove /\ HsFrame
  BY Zenon, <1>3 DEF HsMove
<1>4. CASE BindUdp
  BY Zenon, <1>1, <1>4 DEF BindUdp, At, HsMove
<1>5. CASE WarmupTcp \/ SkipWarmup
  <2>1. td = 0 /\ c \in Prep /\ c' \in Prep /\ Quiet
    BY Zenon, <1>5 DEF WarmupTcp, SkipWarmup, At, Phase
  <2> QED BY Zenon, <1>3, <2>1
<1>6. CASE StartPunch
  BY Zenon, <1>2, <1>6 DEF StartPunch, At, HsMove
<1>7. CASE OpenAndHandshake \/ PhaseAuth
  <2>1. td = 0 /\ c \in Talking /\ (Fails \/ Throws \/ (c' \in Talking /\ Quiet))
    BY Zenon, <1>7 DEF OpenAndHandshake, PhaseAuth, Phase
  <2> QED BY Zenon, <1>1, <1>2, <1>3, <2>1
<1>8. CASE PhaseClientInit \/ PeekPrompt \/ PhaseSessionSelect \/ PhasePlaintext
  <2>1. td = 0 /\ c \in Talking /\ (Fails \/ (c' \in Talking /\ Quiet))
    BY Zenon, <1>8 DEF PhaseClientInit, PeekPrompt, PhaseSessionSelect, PhasePlaintext, At, Phase
  <2> QED BY Zenon, <1>1, <1>3, <2>1
<1>9. CASE ReadCipher \/ DrainThroughCipher \/ SendOffer \/ ReadVideoAnswer
  <2>1. td = 0 /\ c \in Talking /\ (Fails \/ (c' \in Talking /\ Quiet))
    BY Zenon, <1>9 DEF ReadCipher, DrainThroughCipher, SendOffer, ReadVideoAnswer, At, Phase
  <2> QED BY Zenon, <1>1, <1>3, <2>1
<1>10. CASE ReQuery \/ MakeResult
  <2>1. td = 0 /\ c \in Talking /\ (Fails \/ Throws \/ (c' \in Talking /\ Quiet))
    BY Zenon, <1>10 DEF ReQuery, MakeResult, At, Phase
  <2> QED BY Zenon, <1>1, <1>2, <1>3, <2>1
<1>11. CASE StoreResult \/ Reconnect
  BY Zenon, <1>11 DEF StoreResult, Reconnect, At, HsMove
<1>12. CASE DrainBurst /\ ~Reconnect
  <2>1. td = 0 /\ c \in Drained /\ (c' \in Drained \cup {"throw"} /\ Quiet)
    BY Zenon, <1>12 DEF DrainBurst, GiveUp, At, Phase
  <2> QED BY Zenon, <1>3, <2>1
<1> QED BY Zenon, <1>4, <1>5, <1>6, <1>7, <1>8, <1>9, <1>10, <1>11, <1>12 DEF Handshake

\* A step of the handshake keeps LInv.
LEMMA HsKeepsL ==
  ASSUME LInv, Handshake
  PROVE  LInv'
<1> USE DEF Prep, Talking, Drained, Building, Spawning, Failing
<1>1. HsMove /\ HsFrame /\ td = 0 /\ c \notin {"idle", "ok", "throw", "catch", "failed"} \cup Building \cup Spawning
  BY Zenon, HandshakeMoves
<1>2. /\ v \in {"pump", "join"} /\ c \in {"bind"} \cup Prep \cup Talking \cup Drained
      /\ v' = v /\ td' = 0 /\ flags' = flags
  BY Zenon, <1>1 DEF LInv, Placed, HsFrame
<1>3. c' \in {"throw"} \cup Prep \cup Talking \cup Drained
  BY Zenon, <1>1 DEF HsMove
<1>4. Placed'
  BY <1>2, <1>3 DEF Placed
<1>5. Built'
  <2>1. ~Up'
    BY Zenon, <1>2, <1>3 DEF Up
  <2>2. try' \in 0 .. Tries /\ neg' \in 0 .. Tries /\ (c' \in Talking \cup Drained => try' # 0)
    BY <1>1, LifeAssumption DEF HsMove, LInv, Built
  <2>3. /\ res' \subseteq {"hook", "decoder", "rx", "udp", "pool"}
        /\ c' \in Prep \cup Talking \cup Drained => "udp" \in res'
        /\ c' \in Drained => neg' # 0
    BY Zenon, <1>1 DEF HsMove, LInv, Built
  <2> QED BY Zenon, <1>3, <2>1, <2>2, <2>3 DEF Built
<1>6. ThreadsPlaced'
  <2>1. thr' \in [Threads -> {"none", "run", "ended"}] /\ \A t \in Threads \ {"punch"} : thr'[t] = thr[t]
    BY Zenon, <1>1 DEF HsMove, LInv, ThreadsPlaced
  <2>2. \A t \in Threads \ {"punch"} : thr[t] # "run"
    BY Zenon, <1>1, <1>2 DEF LInv, ThreadsPlaced, Up
  <2>3. thr'["punch"] = "run" => c' \in Talking \cup Drained \cup {"throw"} /\ "udp" \in res'
    BY Zenon, <1>1 DEF HsMove, LInv, ThreadsPlaced, Built, Threads
  <2> QED BY Zenon, <2>1, <2>2, <2>3 DEF ThreadsPlaced
<1>7. TakenDown'
  BY <1>2, <1>3 DEF TakenDown
<1>8. FlagsKept'
  <2>1. ~flags.connected
    BY Zenon, <1>1 DEF LInv, FlagsKept
  <2> QED BY Zenon, <1>2, <2>1 DEF LInv, FlagsKept
<1> QED BY Zenon, <1>4, <1>5, <1>6, <1>7, <1>8 DEF LInv

\* The order of teardown().
LEMMA TeardownAt ==
  /\ Teardown[1] = "stop" /\ Teardown[2] = "join" /\ Teardown[3] = "hook" /\ Teardown[4] = "decoder"
  /\ Teardown[5] = "rx" /\ Teardown[6] = "udp" /\ Teardown[7] = "neg" /\ Teardown[8] = "pool"
  /\ Len(Teardown) = 8
BY Zenon DEF Teardown

\* One step of it: what is gone stays gone, the threads first.
LEMMA TeardownKeeps ==
  ASSUME LInv, TeardownStep,
         \/ c = "catch" /\ UNCHANGED <<v, exit>> /\ c' = IF td' = 0 THEN "failed" ELSE c
         \/ v = "close" /\ UNCHANGED <<v, exit, c>>
  PROVE  LInv'
<1> USE DEF Prep, Talking, Drained, Building, Spawning, Failing
<1>1. td \in 1 .. 8 /\ v' = v /\ (c = "catch" \/ v = "close")
  BY DEF LInv, Placed, TeardownStep
<1>2. td' = IF td = 8 THEN 0 ELSE td + 1
  BY <1>1, TeardownAt DEF TeardownStep
<1>3. /\ thr' = thr /\ try' = try /\ flags' = [flags EXCEPT !.stop = TRUE]
      /\ res' = res \ {Teardown[td]}
      /\ neg' = IF td = 7 THEN 0 ELSE neg
      /\ h' = IF td = 7 THEN NoHandshake ELSE h
  BY <1>1, TeardownAt DEF TeardownStep, Released
<1>4. \/ c = "catch" /\ c' \in {"catch", "failed"} /\ (c' = "failed" <=> td = 8) /\ v \in {"pump", "join"}
      \/ v = "close" /\ c' = c /\ c \in {"ok", "failed"}
  BY <1>1, <1>2 DEF LInv, Placed
<1>5. Placed'
  BY <1>1, <1>2, <1>4 DEF LInv, Placed
<1>6. td >= 2 => ~Up'
  BY <1>1, <1>2, <1>4 DEF Up
<1>7. Up' => Up /\ td = 1
  BY <1>1, <1>2, <1>4, <1>6 DEF Up
<1>8. Built'
  <2>1. try' \in 0 .. Tries /\ neg' \in 0 .. Tries /\ res' \subseteq {"hook", "decoder", "rx", "udp", "pool"}
    BY <1>3, LifeAssumption DEF LInv, Built
  <2>2. td = 1 => res' = res /\ neg' = neg
    BY Zenon, <1>3, TeardownAt DEF LInv, Built
  <2> QED BY Zenon, <1>4, <1>7, <2>1, <2>2 DEF LInv, Built
<1>9. ThreadsPlaced'
  <2>1. td >= 2 => \A t \in Threads : thr[t] # "run"
    <3>1. CASE td = 2
      BY Zenon, <3>1, TeardownAt DEF TeardownStep, SlJoined
    <3>2. CASE td > 2
      BY <1>1, <1>4, <3>2 DEF LInv, ThreadsPlaced, Up, Threads
    <3> QED BY <1>1, <3>1, <3>2
  <2>2. CASE td >= 2
    <3>1. "punch" \in Threads
      BY Zenon DEF Threads
    <3>2. \A t \in Threads : thr'[t] # "run"
      BY Zenon, <1>3, <2>1, <2>2
    <3>3. thr' \in [Threads -> {"none", "run", "ended"}]
      BY Zenon, <1>3 DEF LInv, ThreadsPlaced
    <3> QED BY Zenon, <3>1, <3>2, <3>3 DEF ThreadsPlaced
  <2>3. CASE td = 1
    BY <1>2, <1>3, <1>4, <2>3 DEF LInv, ThreadsPlaced, Up
  <2> QED BY <1>1, <2>2, <2>3
<1>10. TakenDown'
  <2>1. td = 8 => res' = {} /\ neg' = 0 /\ h' = NoHandshake
    BY <1>3, TeardownAt DEF LInv, TakenDown, Built
  <2>2. CASE td = 8
    BY Zenon, <1>2, <2>1, <2>2 DEF TakenDown
  <2>3. CASE td # 8
    <3>1. td' = td + 1 /\ td' # 0 /\ c' # "idle"
      BY <1>1, <1>2, <1>4, <2>3
    <3>2. /\ td' >= 4 => "hook" \notin res'
          /\ td' >= 5 => "decoder" \notin res'
          /\ td' >= 6 => "rx" \notin res'
          /\ td' >= 7 => "udp" \notin res'
      BY <1>1, <1>3, <3>1, TeardownAt DEF LInv, TakenDown
    <3>3. td' >= 8 => neg' = 0 /\ h' = NoHandshake
      BY <1>1, <1>3, <2>3, <3>1
    <3> QED BY Zenon, <3>1, <3>2, <3>3 DEF TakenDown
  <2> QED BY Zenon, <2>2, <2>3
<1>11. FlagsKept'
  BY Zenon, <1>3, <1>4, <1>1 DEF LInv, FlagsKept
<1> QED BY Zenon, <1>5, <1>8, <1>9, <1>10, <1>11 DEF LInv

\* What spawn starts are threads of the session.
LEMMA SpawnedAt == \A i \in DOMAIN Spawned : Spawned[i] \in Threads \ {"punch"}
BY DEF Spawned, Threads

\* connect() after the handshake, up to its return or to its catch block.
LEMMA ConnectKeepsL ==
  ASSUME LInv, Connect
  PROVE  LInv'
<1> USE DEF Prep, Talking, Drained, Building, Spawning, Failing, viewerVars, sharedVars
<1>1. CASE Handshake
  BY Zenon, <1>1, HsKeepsL
<1>2. CASE c = "catch" /\ TeardownStep /\ c' = (IF td' = 0 THEN "failed" ELSE c) /\ UNCHANGED <<v, exit>>
  BY Zenon, <1>2, TeardownKeeps
<1> DEFINE Late == {"punched"} \cup Building \cup Spawning \cup {"throw"}
<1>3. ASSUME c \in Late, td = 0, v' = v,
             (td' = 0 /\ c' \in Late \cup {"ok"}) \/ (td' = 1 /\ c' = "catch")
      PROVE  Placed' /\ TakenDown' /\ v \in {"pump", "join"}
  <2>1. v \in {"pump", "join"}
    BY Zenon, <1>3 DEF LInv, Placed
  <2>2. Placed'
    BY <1>3, <2>1 DEF Placed
  <2>3. TakenDown'
    BY <1>3, <2>1 DEF TakenDown
  <2> QED BY Zenon, <2>1, <2>2, <2>3
<1>4. ASSUME c # "ok", flags' = flags, c' # "ok", v' = v PROVE FlagsKept'
  <2>1. ~flags.connected
    BY Zenon, <1>4 DEF LInv, FlagsKept
  <2> QED BY Zenon, <1>4, <2>1 DEF LInv, FlagsKept
<1>5. ASSUME NEW to, (At("punched") /\ to = "decoder") \/ (At("throw") /\ to = "throw"), JoinPunch(to)
      PROVE  LInv'
  <2>1. /\ c \in {"punched", "throw"} /\ c' = to /\ td = 0 /\ v' = v /\ td' = 0 /\ flags' = flags
        /\ thr' = [thr EXCEPT !["punch"] = "none"] /\ UNCHANGED <<res, neg, try>>
    BY Zenon, <1>5 DEF At, JoinPunch
  <2>2. Placed' /\ TakenDown' /\ v \in {"pump", "join"}
    BY Zenon, <1>3, <1>5, <2>1 DEF At
  <2>3. FlagsKept'
    BY Zenon, <1>4, <1>5, <2>1 DEF At
  <2>4. Built'
    BY Zenon, <1>5, <2>1 DEF At, LInv, Built, Up
  <2>5. ThreadsPlaced'
    BY Zenon, <1>5, <2>1 DEF At, LInv, ThreadsPlaced, Up, Threads
  <2> QED BY Zenon, <2>2, <2>3, <2>4, <2>5 DEF LInv
<1>6. CASE At("throw") /\ thr["punch"] # "run" /\ c' = "catch" /\ td' = 1 /\ UNCHANGED <<h, try, fault, viewerVars, sharedVars>>
  <2>1. Placed' /\ TakenDown' /\ v \in {"pump", "join"}
    BY Zenon, <1>3, <1>6 DEF At
  <2>2. FlagsKept'
    BY Zenon, <1>4, <1>6 DEF At
  <2>3. Built'
    BY Zenon, <1>6 DEF At, LInv, Built, Up
  <2>4. ThreadsPlaced'
    BY Zenon, <1>6 DEF At, LInv, ThreadsPlaced, Up
  <2> QED BY Zenon, <2>1, <2>2, <2>3, <2>4 DEF LInv
<1>7. ASSUME NEW from, NEW r, NEW to, Acquire(from, r, to),
             <<from, r, to>> \in {<<"decoder", "decoder", "hook">>, <<"hook", "hook", "pool">>, <<"pool", "pool", "check2">>}
      PROVE  LInv'
  <2>1. /\ c = from /\ td = 0 /\ v' = v /\ td' = 0 /\ UNCHANGED <<flags, thr, neg, try>>
        /\ (c' = to /\ res' = res \cup {r}) \/ (c' = "throw" /\ res' = res)
    BY Zenon, <1>7 DEF At, Acquire
  <2>2. Placed' /\ TakenDown' /\ v \in {"pump", "join"}
    BY Zenon, <1>3, <1>7, <2>1
  <2>3. FlagsKept'
    BY Zenon, <1>4, <1>7, <2>1
  <2>4. Built'
    BY Zenon, <1>7, <2>1, <2>2 DEF LInv, Built, Up
  <2>5. ThreadsPlaced'
    BY Zenon, <1>7, <2>1, <2>2 DEF LInv, ThreadsPlaced, Up
  <2> QED BY Zenon, <2>2, <2>3, <2>4, <2>5 DEF LInv
<1>8. CASE ClearStop
  <2>1. /\ c = "check2" /\ td = 0 /\ v' = v /\ td' = 0 /\ UNCHANGED <<res, thr, neg, try>>
        /\ c' \in {"throw", "spawn"}
        /\ flags' = flags \/ flags' = [flags EXCEPT !.stop = FALSE]
    BY Zenon, <1>8 DEF At, ClearStop, Phase
  <2>2. Placed' /\ TakenDown' /\ v \in {"pump", "join"}
    BY Zenon, <1>3, <2>1
  <2>3. FlagsKept'
    BY Zenon, <2>1 DEF LInv, FlagsKept
  <2>4. Built'
    BY Zenon, <2>1, <2>2 DEF LInv, Built, Up
  <2>5. ThreadsPlaced'
    BY Zenon, <2>1, <2>2 DEF LInv, ThreadsPlaced, Up
  <2> QED BY Zenon, <2>2, <2>3, <2>4, <2>5 DEF LInv
<1>9. CASE SpawnThread
  <2>1. PICK t \in Threads \ {"punch"} :
          /\ c = "spawn" /\ td = 0 /\ v' = v /\ td' = 0 /\ UNCHANGED <<flags, res, neg, try>>
          /\ thr' = [thr EXCEPT ![t] = "run"] /\ c' \in Spawning
    BY Zenon, <1>9, SpawnedAt DEF At, SpawnThread
  <2>2. Placed' /\ TakenDown' /\ v \in {"pump", "join"}
    BY Zenon, <1>3, <2>1
  <2>3. FlagsKept'
    BY Zenon, <1>4, <2>1
  <2>4. Built'
    BY Zenon, <2>1, <2>2 DEF LInv, Built, Up
  <2>5. ThreadsPlaced'
    BY <2>1, <2>2 DEF LInv, ThreadsPlaced
  <2> QED BY Zenon, <2>2, <2>3, <2>4, <2>5 DEF LInv
<1>10. CASE ConnectReturns
  <2>1. /\ c = "return" /\ td = 0 /\ v' = v /\ td' = 0 /\ UNCHANGED <<res, thr, neg, try>>
        /\ c' = "ok" /\ flags' = [flags EXCEPT !.connected = TRUE]
    BY Zenon, <1>10 DEF At, ConnectReturns
  <2>2. Placed' /\ TakenDown' /\ v \in {"pump", "join"}
    BY Zenon, <1>3, <2>1
  <2>3. FlagsKept'
    BY Zenon, <2>1, <2>2 DEF LInv, FlagsKept
  <2>4. Built'
    BY Zenon, <2>1, <2>2 DEF LInv, Built, Up
  <2>5. Up'
    BY Zenon, <2>1, <2>2 DEF Up
  <2>6. ThreadsPlaced'
    BY Zenon, <2>1, <2>5 DEF LInv, ThreadsPlaced
  <2> QED BY Zenon, <2>2, <2>3, <2>4, <2>6 DEF LInv
<1> QED BY Zenon, <1>1, <1>2, <1>5, <1>6, <1>7, <1>8, <1>9, <1>10 DEF Connect, ConnectCatches

\* The session's threads.
LEMMA ThreadsKeepL ==
  ASSUME LInv, PacketStart \/ TcpFails \/ \E t \in Threads : ThreadEnds(t)
  PROVE  LInv'
<1> USE DEF Prep, Talking, Drained, Building, Spawning, Failing
<1>1. UNCHANGED <<c, v, td, h, try, neg>>
  BY Zenon DEF PacketStart, TcpFails, ThreadEnds, threadFrame
<1>2. Placed' /\ (Up' <=> Up)
  BY <1>1 DEF LInv, Placed, Up
<1>3. CASE PacketStart
  <2>1. thr["packet"] = "run" /\ res' = res \cup {"rx"} /\ UNCHANGED <<thr, flags>>
    BY Zenon, <1>3 DEF PacketStart
  <2>2. c \in Spawning \/ Up
    BY Zenon, <2>1 DEF LInv, ThreadsPlaced, Threads
  <2>3. td <= 2 /\ ~(c = "idle" \/ (td = 0 /\ (c = "failed" \/ v \in {"close", "done"})))
    BY <2>2 DEF LInv, Placed, Up
  <2>4. TakenDown'
    BY <1>1, <2>3 DEF LInv, Placed, TakenDown
  <2>5. Built'
    BY Zenon, <1>1, <1>2, <2>1 DEF LInv, Built
  <2>6. ThreadsPlaced'
    BY Zenon, <1>1, <1>2, <2>1 DEF LInv, ThreadsPlaced
  <2>7. FlagsKept'
    BY Zenon, <1>1, <2>1 DEF LInv, FlagsKept
  <2> QED BY Zenon, <1>2, <2>4, <2>5, <2>6, <2>7 DEF LInv
<1>4. CASE TcpFails \/ \E t \in Threads : ThreadEnds(t)
  <2>1. PICK t \in Threads : thr' = [thr EXCEPT ![t] = "ended"] /\ res' = res
    BY Zenon, <1>4 DEF TcpFails, ThreadEnds, Threads
  <2>2. flags' = flags \/ flags' = [flags EXCEPT !.connected = FALSE]
    BY Zenon, <1>4 DEF TcpFails, ThreadEnds
  <2>3. TakenDown'
    BY Zenon, <1>1, <2>1 DEF LInv, TakenDown
  <2>4. Built'
    BY Zenon, <1>1, <1>2, <2>1 DEF LInv, Built
  <2>5. ThreadsPlaced'
    BY <1>1, <1>2, <2>1 DEF LInv, ThreadsPlaced
  <2>6. FlagsKept'
    BY Zenon, <1>1, <2>2 DEF LInv, FlagsKept
  <2> QED BY Zenon, <1>2, <2>3, <2>4, <2>5, <2>6 DEF LInv
<1> QED BY Zenon, <1>3, <1>4

\* The UI thread.
LEMMA ViewerKeepsL ==
  ASSUME LInv, Viewer \/ LeaveLoop \/ CloseWindow \/ KeyStart \/ StartFails \/ LeaveRenderQuietly
  PROVE  LInv'
<1> USE DEF Prep, Talking, Drained, Building, Spawning, Failing
<1>1. CASE v = "close" /\ td # 0 /\ TeardownStep /\ UNCHANGED <<v, exit, c>>
  BY Zenon, <1>1, TeardownKeeps
<1>2. ASSUME UNCHANGED <<c, v, td, h, try, neg, thr, res, flags>> PROVE LInv'
  <2>1. Placed' /\ (Up' <=> Up)
    BY <1>2 DEF LInv, Placed, Up
  <2>2. Built' /\ TakenDown'
    BY <1>2, <2>1 DEF LInv, Built, TakenDown
  <2>3. ThreadsPlaced' /\ FlagsKept'
    BY Zenon, <1>2, <2>1 DEF LInv, ThreadsPlaced, FlagsKept
  <2> QED BY Zenon, <2>1, <2>2, <2>3 DEF LInv
<1>3. CASE CloseWindow \/ KeyStart \/ KeyDone
  BY Zenon, <1>2, <1>3 DEF CloseWindow, KeyStart, KeyDone, viewFrame

\* The steps that move only the viewer on: from place to place, with or
\* without the beginning of teardown().
<1>4. ASSUME UNCHANGED <<h, try, neg, thr, res>>,
             \/ v = "start" /\ v' = "done" /\ UNCHANGED <<c, td, flags>>
             \/ v = "start" /\ v' = "pump" /\ c' = "bind" /\ UNCHANGED <<td, flags>>
             \/ /\ v = "pump" /\ v' = "join" /\ UNCHANGED <<c, td>>
                /\ flags' = [flags EXCEPT !.cancel = closed]
             \/ v = "join" /\ c = "ok" /\ v' = "render" /\ UNCHANGED <<c, td, flags>>
             \/ /\ v \in {"join", "render"} /\ c \in {"ok", "failed"} /\ v' = "close" /\ td' = 1
                /\ UNCHANGED <<c, flags>>
             \/ /\ v = "close" /\ td = 0 /\ v' = "done" /\ UNCHANGED <<c, td>>
                /\ flags' = [flags EXCEPT !.connected = FALSE]
      PROVE  LInv'
  <2>1. Placed'
    BY <1>4 DEF LInv, Placed
  <2>2. Up' <=> Up
    BY <1>4 DEF LInv, Placed, Up
  <2>3. Built'
    BY <1>4, <2>2 DEF LInv, Placed, Built
  <2>4. ThreadsPlaced'
    BY <1>4, <2>2 DEF LInv, Placed, ThreadsPlaced
  <2>5. TakenDown'
    BY <1>4 DEF LInv, Placed, TakenDown
  <2>6. FlagsKept'
    BY <1>4 DEF LInv, Placed, FlagsKept
  <2> QED BY <2>1, <2>3, <2>4, <2>5, <2>6 DEF LInv
<1>5. CASE StartFails \/ StartConnect
  BY <1>4, <1>5 DEF StartFails, StartConnect, View, viewFrame
<1>6. CASE LeavePump
  BY <1>4, <1>6 DEF LeavePump, View, viewFrame
<1>7. CASE JoinConnect
  BY <1>4, <1>7 DEF JoinConnect, View, viewFrame
<1>8. CASE LeaveRender \/ LeaveRenderQuietly
  BY <1>4, <1>8 DEF LeaveRender, LeaveRenderQuietly, View, viewFrame, LInv, Placed
<1>9. CASE td = 0 /\ View("close", "done") /\ flags' = [flags EXCEPT !.connected = FALSE] /\ UNCHANGED <<viewFrame, exit, closed, c, td>>
  BY <1>4, <1>9 DEF View, viewFrame
<1> QED BY <1>1, <1>3, <1>5, <1>6, <1>7, <1>8, <1>9 DEF Viewer, LeaveLoop, CloseSession

\* Every step keeps LInv.
LEMMA StepKeepsL == LInv /\ [SlNext]_lifeVars => LInv'
<1> SUFFICES ASSUME LInv, [SlNext]_lifeVars PROVE LInv'
  OBVIOUS
<1>1. CASE UNCHANGED lifeVars
  <2>1. UNCHANGED <<c, v, td, h, try, neg, thr, res, flags>>
    BY Zenon, <1>1 DEF lifeVars
  <2> QED BY <2>1 DEF LInv, Placed, Built, ThreadsPlaced, TakenDown, FlagsKept, Up
<1> QED BY Zenon, <1>1, ConnectKeepsL, ThreadsKeepL, ViewerKeepsL DEF SlNext, Done

-----------------------------------------------------------------------------
(* SessionLife: why connect() fails, and the values of the other variables. *)

Reason == fault \/ flags.cancel \/ cfg.accepts = {}

\* The method that was tried first is not one the Mac takes.
FirstRefused == (IF SrpFirst THEN "srp" ELSE "nonsrp") \notin cfg.accepts

RInv ==
    /\ c \in {"redial", "fallback"} => FirstRefused
    /\ c = "starved" => fault
    /\ c \in Failing => Reason

TInv ==
    /\ cfg \in Config /\ closed \in BOOLEAN /\ fault \in BOOLEAN
    /\ exit \in {"none", "Closed", "ConnectFailed", "ConnectionLost", "Error"}
    /\ ui \in 0 .. Tries
    /\ lost \in {"no", "early", "late"}
    /\ v \in {"start", "pump"} => ~flags.cancel

SlInv == LInv /\ HInv(c, h) /\ RInv /\ TInv

\* A step of the handshake gives a reason before it throws.
LEMMA HandshakeR ==
  ASSUME SlInv, Handshake
  PROVE  RInv' /\ fault' \in BOOLEAN
<1> USE DEF Failing
<1>0. UNCHANGED <<cfg, flags>>
  BY Zenon, HandshakeMoves DEF HsFrame
<1>1. ASSUME Fails PROVE RInv' /\ fault' \in BOOLEAN
  BY Zenon, <1>1 DEF Fails, Throws, RInv, Reason
<1>2. ASSUME Throws, UNCHANGED fault, Reason PROVE RInv' /\ fault' \in BOOLEAN
  BY Zenon, <1>0, <1>2 DEF Throws, RInv, Reason, SlInv, TInv
<1>3. ASSUME UNCHANGED fault, c' \notin {"redial", "fallback", "starved"} \cup Failing
      PROVE RInv' /\ fault' \in BOOLEAN
  BY Zenon, <1>3 DEF RInv, SlInv, TInv
<1>4. CASE BindUdp \/ WarmupTcp \/ SkipWarmup
  BY Zenon, <1>1, <1>3, <1>4 DEF BindUdp, WarmupTcp, SkipWarmup, Phase
<1>5. CASE StartPunch
  BY Zenon, <1>2, <1>3, <1>5 DEF StartPunch, Reason
<1>6. CASE OpenAndHandshake
  <2>1. CASE Fails
    BY Zenon, <1>1, <2>1
  <2>2. CASE ~Fails
    <3>1. UNCHANGED fault /\ c' = IF c = "dial" THEN "auth" ELSE "fallback"
      BY Zenon, <1>6, <2>2 DEF OpenAndHandshake, Phase
    <3>2. c' = "fallback" => c = "redial"
      BY Zenon, <1>6, <3>1 DEF OpenAndHandshake
    <3> QED BY Zenon, <1>0, <3>1, <3>2 DEF SlInv, RInv, FirstRefused, TInv
  <2> QED BY Zenon, <2>1, <2>2
<1>7. CASE PhaseAuth
  <2> DEFINE r == IF SrpFirst = (c = "auth") THEN DoSrpAuth ELSE DoNonSrpAuth
  <2>1. CASE Fails
    BY Zenon, <1>1, <2>1
  <2>2. CASE r = "ok" /\ Phase("init", [h EXCEPT !.key = h.sock])
    BY Zenon, <1>3, <2>2 DEF Phase
  <2>3. CASE r = "AuthError" /\ c = "auth" /\ Phase("redial", HangUp(h))
    <3>1. FirstRefused
      BY Zenon, <2>3, LifeAssumption DEF DoSrpAuth, DoNonSrpAuth, FirstRefused
    <3> QED BY Zenon, <1>0, <2>3, <3>1 DEF Phase, RInv, FirstRefused, SlInv, TInv
  <2>4. CASE r = "AuthError" /\ c = "fallback" /\ Throws /\ UNCHANGED fault
    <3>1. FirstRefused
      BY Zenon, <2>4 DEF SlInv, RInv
    <3>2. (IF SrpFirst THEN "nonsrp" ELSE "srp") \notin cfg.accepts
      BY Zenon, <2>4, LifeAssumption DEF DoSrpAuth, DoNonSrpAuth
    <3>3. cfg.accepts \subseteq Method
      BY Zenon DEF SlInv, TInv, Config
    <3>4. cfg.accepts = {}
      BY Zenon, <3>1, <3>2, <3>3, LifeAssumption DEF FirstRefused, Method
    <3> QED BY Zenon, <1>2, <2>4, <3>4 DEF Reason
  <2> QED BY Zenon, <1>7, <2>1, <2>2, <2>3, <2>4 DEF PhaseAuth
<1>8. CASE PhaseClientInit \/ PeekPrompt \/ PhaseSessionSelect \/ PhasePlaintext
  <2>1. Fails \/ (UNCHANGED fault /\ c' \in {"select", "prompt", "plain", "dial", "enc"})
    BY Zenon, <1>8 DEF PhaseClientInit, PeekPrompt, PhaseSessionSelect, PhasePlaintext, Phase
  <2> QED BY Zenon, <1>1, <1>3, <2>1
<1>9. CASE ReadCipher \/ DrainThroughCipher \/ SendOffer \/ ReadVideoAnswer \/ MakeResult \/ StoreResult
  <2>1. Fails \/ (UNCHANGED fault /\ c' \in {"drain", "offer", "answer", "canvas", "store", "burst"})
    BY Zenon, <1>9 DEF ReadCipher, DrainThroughCipher, SendOffer, ReadVideoAnswer, MakeResult, StoreResult, Phase
  <2> QED BY Zenon, <1>1, <1>3, <2>1
<1>10. CASE ReQuery
  <2>1. Fails \/ (flags.cancel /\ Throws /\ UNCHANGED fault) \/ (UNCHANGED fault /\ c' = "answer")
    BY Zenon, <1>10 DEF ReQuery, Phase
  <2> QED BY Zenon, <1>1, <1>2, <1>3, <2>1 DEF Reason
<1>11. CASE DrainBurst
  <2>1. \/ UNCHANGED fault /\ c' \in {"punched", "dial"}
        \/ c' = "starved" /\ fault' = TRUE
        \/ c = "starved" /\ c' = "throw" /\ UNCHANGED fault
    BY Zenon, <1>11 DEF DrainBurst, Reconnect, GiveUp, At, Phase
  <2>2. c = "starved" => fault
    BY Zenon DEF SlInv, RInv
  <2> QED BY Zenon, <1>0, <1>3, <2>1, <2>2 DEF RInv, Reason, SlInv, TInv
<1> QED BY Zenon, <1>4, <1>5, <1>6, <1>7, <1>8, <1>9, <1>10, <1>11 DEF Handshake

\* After the handshake nothing is said any more, and the reasons stay.
LEMMA LateKeeps ==
  ASSUME SlInv, UNCHANGED cfg, h' \in {h, NoHandshake}, flags'.cancel = flags.cancel,
         fault' \in BOOLEAN, fault => fault',
         \/ c' = c /\ c \notin Answering
         \/ c' \in {"decoder"} \cup Building \cup Spawning \cup {"ok"}
         \/ c' \in Failing /\ (c \in Failing \/ fault' \/ flags.cancel)
  PROVE  HInv(c, h)' /\ RInv'
<1> USE DEF Building, Spawning, Failing
<1>1. HInv(c', h')
  <2>1. CASE h' = NoHandshake
    <3>1. c' \notin Answering
      OBVIOUS
    <3> QED BY Zenon, <2>1, <3>1, FreshH
  <2>2. CASE h' = h /\ c' = c
    BY Zenon, <2>2 DEF SlInv
  <2>3. CASE h' = h /\ c' # c
    <3>1. c' \notin Unoffered \cup Answering
      BY Zenon, <2>3
    <3> QED BY Zenon, <2>3, <3>1, LaterH DEF SlInv
  <2> QED BY Zenon, <2>1, <2>2, <2>3
<1>2. HInv(c, h)'
  BY Zenon, <1>1 DEF HInv, HShaped, OnOneSocket, OfferedAsAsked
<1>3. Reason => Reason'
  BY Zenon DEF Reason, SlInv, TInv
<1>4. RInv'
  BY Zenon, <1>3 DEF SlInv, RInv, FirstRefused, Reason
<1> QED BY Zenon, <1>2, <1>4

\* The rest of connect().
LEMMA ConnectKeeps ==
  ASSUME SlInv, Connect
  PROVE  HInv(c, h)' /\ RInv' /\ TInv'
<1>0. CASE Handshake
  <2>1. HInv(c', h') /\ UNCHANGED <<cfg, v, exit, closed, ui, lost, flags>>
    BY Zenon, <1>0, HandshakeH, HandshakeMoves DEF HsFrame, SlInv
  <2>2. HInv(c, h)'
    BY Zenon, <2>1 DEF HInv, HShaped, OnOneSocket, OfferedAsAsked
  <2>3. RInv' /\ fault' \in BOOLEAN
    BY Zenon, <1>0, HandshakeR
  <2> QED BY Zenon, <2>1, <2>2, <2>3 DEF SlInv, TInv
<1>1. CASE ~Handshake
  <2> USE DEF Building, Spawning, Failing, viewerVars, sharedVars
  <2>1. UNCHANGED <<cfg, v, exit, closed, ui, lost>> /\ h' \in {h, NoHandshake}
    BY Zenon, <1>1 DEF Connect, ConnectCatches, JoinPunch, Acquire, ClearStop, SpawnThread, ConnectReturns, TeardownStep, Phase
  <2>2. flags'.cancel = flags.cancel
    <3>1. \/ flags' = flags \/ flags' = [flags EXCEPT !.stop = TRUE] \/ flags' = [flags EXCEPT !.stop = FALSE]
          \/ flags' = [flags EXCEPT !.connected = TRUE]
      BY Zenon, <1>1 DEF Connect, ConnectCatches, JoinPunch, Acquire, ClearStop, SpawnThread, ConnectReturns, TeardownStep, Phase
    <3> QED BY Zenon, <3>1 DEF SlInv, LInv, FlagsKept
  <2>3. fault' \in {fault, TRUE}
    BY Zenon, <1>1 DEF Connect, ConnectCatches, JoinPunch, Acquire, ClearStop, SpawnThread, ConnectReturns, TeardownStep, Phase
  <2>4. \/ c' \in {"decoder"} \cup Building \cup Spawning \cup {"ok"}
        \/ c' \in Failing /\ (c \in Failing \/ fault' \/ flags.cancel)
    BY Zenon, <1>1 DEF Connect, ConnectCatches, JoinPunch, Acquire, ClearStop, SpawnThread, ConnectReturns, Phase, At
  <2>5. fault' \in BOOLEAN /\ (fault => fault')
    BY Zenon, <2>3 DEF SlInv, TInv
  <2>6. HInv(c, h)' /\ RInv'
    BY Zenon, <2>1, <2>2, <2>4, <2>5, LateKeeps
  <2> QED BY Zenon, <2>1, <2>2, <2>5, <2>6 DEF SlInv, TInv
<1> QED BY Zenon, <1>0, <1>1

\* The threads and the UI thread.
LEMMA OthersKeep ==
  ASSUME SlInv, \/ PacketStart \/ TcpFails \/ \E t \in Threads : ThreadEnds(t)
                \/ Viewer \/ LeaveLoop \/ CloseWindow \/ KeyStart \/ StartFails \/ LeaveRenderQuietly
  PROVE  HInv(c, h)' /\ RInv' /\ TInv'
<1>1. CASE StartConnect
  <2>1. c = "idle" /\ c' = "bind" /\ UNCHANGED <<cfg, h, exit, closed, ui, fault, lost, flags>> /\ v = "start" /\ v' = "pump"
    BY Zenon, <1>1 DEF StartConnect, View, viewFrame, SlInv, LInv, Placed
  <2>2. HInv(c', h')
    BY Zenon, <2>1, SilentH DEF SlInv
  <2>3. HInv(c, h)'
    BY Zenon, <2>1, <2>2 DEF HInv, HShaped, OnOneSocket, OfferedAsAsked
  <2>4. RInv'
    BY Zenon, <2>1 DEF RInv, Failing
  <2> QED BY Zenon, <2>1, <2>3, <2>4 DEF SlInv, TInv
<1>2. CASE LeavePump
  <2>1. /\ UNCHANGED <<cfg, c, h, exit, closed, ui, fault, lost>> /\ v = "pump" /\ v' = "join"
        /\ flags' = [flags EXCEPT !.cancel = closed]
    BY Zenon, <1>2 DEF LeavePump, View, viewFrame
  <2>2. HInv(c, h)'
    BY Zenon, <2>1 DEF SlInv, HInv, HShaped, OnOneSocket, OfferedAsAsked
  <2>3. ~flags.cancel
    BY Zenon, <2>1 DEF SlInv, TInv
  <2>4. RInv'
    BY Zenon, <2>1, <2>3 DEF SlInv, RInv, Reason, FirstRefused
  <2> QED BY Zenon, <2>1, <2>2, <2>4 DEF SlInv, TInv
<1>3. CASE PacketStart \/ TcpFails \/ \E t \in Threads : ThreadEnds(t)
  <2>1. UNCHANGED <<cfg, v, exit, closed, c, h, ui, fault>> /\ lost' \in {lost, "late", "early"}
    BY Zenon, <1>3 DEF PacketStart, TcpFails, ThreadEnds, threadFrame
  <2>2. flags' = flags \/ flags' = [flags EXCEPT !.connected = FALSE]
    BY Zenon, <1>3 DEF PacketStart, TcpFails, ThreadEnds
  <2>3. flags'.cancel = flags.cancel
    BY Zenon, <2>2 DEF SlInv, LInv, FlagsKept
  <2>4. HInv(c, h)'
    BY Zenon, <2>1 DEF SlInv, HInv, HShaped, OnOneSocket, OfferedAsAsked
  <2>5. RInv'
    BY Zenon, <2>1, <2>3 DEF SlInv, RInv, Reason, FirstRefused
  <2> QED BY Zenon, <2>1, <2>3, <2>4, <2>5 DEF SlInv, TInv
<1>4. CASE CloseWindow \/ KeyStart \/ KeyDone \/ StartFails \/ JoinConnect \/ LeaveRender \/ LeaveRenderQuietly
  <2>1. /\ UNCHANGED <<cfg, c, h, fault, lost, flags>>
        /\ closed' \in {closed, TRUE} /\ ui' \in {ui, neg, 0}
        /\ exit' \in {exit, "Closed", "ConnectFailed", "ConnectionLost", "Error"}
        /\ v' \in {"start", "pump"} => v' = v
    BY Zenon, <1>4 DEF CloseWindow, KeyStart, KeyDone, StartFails, JoinConnect, LeaveRender, LeaveRenderQuietly, View, viewFrame
  <2>2. HInv(c, h)'
    BY Zenon, <2>1 DEF SlInv, HInv, HShaped, OnOneSocket, OfferedAsAsked
  <2>3. RInv'
    BY Zenon, <2>1 DEF SlInv, RInv, Reason, FirstRefused
  <2>4. ui' \in 0 .. Tries
    BY <2>1, LifeAssumption DEF SlInv, TInv, LInv, Built
  <2> QED BY Zenon, <2>1, <2>2, <2>3, <2>4 DEF SlInv, TInv
<1>5. CASE CloseSession
  <2>1. v = "close" /\ c \in {"ok", "failed"}
    BY Zenon, <1>5 DEF CloseSession, View, SlInv, LInv, Placed
  <2>2. /\ UNCHANGED <<cfg, c, fault, lost, closed, ui, exit>> /\ h' \in {h, NoHandshake}
        /\ v' \in {"close", "done"}
    BY Zenon, <1>5, <2>1 DEF CloseSession, TeardownStep, View, viewFrame
  <2>3. flags' = [flags EXCEPT !.stop = TRUE] \/ flags' = [flags EXCEPT !.connected = FALSE]
    BY Zenon, <1>5 DEF CloseSession, TeardownStep
  <2>4. flags'.cancel = flags.cancel
    BY Zenon, <2>3 DEF SlInv, LInv, FlagsKept
  <2>5. HInv(c, h)' /\ RInv'
    <3>1. c' = c /\ c \notin Answering
      BY Zenon, <2>1, <2>2
    <3>2. fault' \in BOOLEAN /\ (fault => fault')
      BY Zenon, <2>2 DEF SlInv, TInv
    <3> QED BY Zenon, <2>2, <2>4, <3>1, <3>2, LateKeeps
  <2> QED BY Zenon, <2>2, <2>5 DEF SlInv, TInv
<1> QED BY Zenon, <1>1, <1>2, <1>3, <1>4, <1>5 DEF Viewer, LeaveLoop

\* Every step keeps the invariant.
LEMMA SlStep == SlInv /\ [SlNext]_lifeVars => SlInv'
<1> SUFFICES ASSUME SlInv, [SlNext]_lifeVars PROVE SlInv'
  OBVIOUS
<1>1. LInv'
  BY Zenon, StepKeepsL DEF SlInv
<1>2. CASE UNCHANGED lifeVars
  <2>1. UNCHANGED <<cfg, v, exit, closed, c, h, flags, ui, fault, lost>>
    BY Zenon, <1>2 DEF lifeVars
  <2>2. HInv(c, h)'
    BY <2>1 DEF SlInv, HInv, HShaped, OnOneSocket, OfferedAsAsked
  <2>3. RInv' /\ TInv'
    BY Zenon, <2>1 DEF SlInv, RInv, TInv, Reason, FirstRefused
  <2> QED BY Zenon, <1>1, <2>2, <2>3 DEF SlInv
<1>3. CASE SlNext
  BY Zenon, <1>1, <1>2, <1>3, ConnectKeeps, OthersKeep DEF SlNext, Done, SlInv
<1> QED BY Zenon, <1>2, <1>3

\* The invariant holds at the start.
LEMMA SlStart == SlInit => SlInv
<1> SUFFICES ASSUME SlInit PROVE SlInv
  OBVIOUS
<1> USE DEF SlInit
<1>1. LInv
  <2>1. Placed /\ FlagsKept
    BY DEF Placed, FlagsKept
  <2>2. Built /\ TakenDown
    BY LifeAssumption DEF Built, TakenDown, Up, Prep, Talking, Drained, Building, Spawning
  <2>3. ThreadsPlaced
    BY Zenon DEF ThreadsPlaced, Threads
  <2> QED BY Zenon, <2>1, <2>2, <2>3 DEF LInv
<1>2. HInv(c, h)
  BY Zenon, FreshH
<1>3. RInv
  BY Zenon DEF RInv, Failing
<1>4. TInv
  <2>1. ~flags.cancel
    OBVIOUS
  <2>2. ui \in 0 .. Tries
    BY LifeAssumption
  <2> QED BY Zenon, <2>1, <2>2 DEF TInv
<1> QED BY Zenon, <1>1, <1>2, <1>3, <1>4 DEF SlInv

\* The invariant holds throughout.
LEMMA SlInductive == SlSpec => []SlInv
BY SlStart, SlStep, PTL DEF SlSpec

\* No thread of the session works on a member that connect() has not made yet
\* or teardown() has released, and nothing is left when run_viewer returns,
\* for any number of attempts and of queries.
THEOREM ThreadsWithinParts == SlSpec => []PartsOutliveThreads
<1> SUFFICES ASSUME SlInv PROVE PartsOutliveThreads
  BY SlInductive, PTL
<1>1. SlTypeOK
  <2>1. h.sock \in {0} \cup h.open /\ h.sent \in 0 .. Queries
    BY Zenon DEF SlInv, HInv, HShaped, OnOneSocket
  <2>2. td \in 0 .. Len(Teardown)
    BY Zenon, TeardownAt DEF SlInv, LInv, Placed
  <2> QED BY Zenon, <2>1, <2>2 DEF SlTypeOK, SlInv, LInv, Placed, Built, ThreadsPlaced, TInv
<1>2. ThreadsHaveTheirParts
  <2> SUFFICES ASSUME NEW t \in Threads, thr[t] = "run", NEW r \in Uses[t]
               PROVE  IF r = "neg" THEN neg # 0 ELSE r \in res
    BY Zenon DEF ThreadsHaveTheirParts
  <2>1. CASE t = "punch"
    BY Zenon, <2>1 DEF Uses, SlInv, LInv, ThreadsPlaced
  <2>2. CASE t # "punch"
    <3>1. c \in Spawning \/ Up
      BY Zenon, <2>2 DEF SlInv, LInv, ThreadsPlaced
    <3>2. {"udp", "pool", "decoder"} \subseteq res /\ neg # 0
      BY Zenon, <3>1 DEF SlInv, LInv, Built
    <3>3. Uses[t] \subseteq {"udp", "pool", "decoder", "neg"}
      BY <2>2 DEF Uses, Threads
    <3> QED BY Zenon, <3>2, <3>3
  <2> QED BY Zenon, <2>1, <2>2
<1>3. NothingOutlivesViewer
  <2> SUFFICES ASSUME v = "done" PROVE /\ \A t \in Threads : thr[t] # "run"
                                       /\ res = {} /\ neg = 0 /\ h.open = {} /\ ~flags.connected
    BY Zenon DEF NothingOutlivesViewer
  <2>1. td = 0 /\ ~Up /\ c \in {"idle", "ok", "failed"}
    BY Zenon DEF SlInv, LInv, Placed, Up
  <2>2. res = {} /\ neg = 0 /\ h = NoHandshake
    BY Zenon, <2>1 DEF SlInv, LInv, TakenDown
  <2>3. \A t \in Threads : thr[t] # "run"
    BY Zenon, <2>1 DEF SlInv, LInv, ThreadsPlaced, Spawning, Talking, Drained
  <2>4. ~flags.connected
    BY Zenon DEF SlInv, LInv, FlagsKept
  <2> QED BY Zenon, <2>2, <2>3, <2>4 DEF NoHandshake
<1> QED BY Zenon, <1>1, <1>2, <1>3 DEF PartsOutliveThreads

\* The two sizes that occur.
LEMMA SizeOfOne == ASSUME NEW x PROVE Cardinality({x}) = 1
<1> DEFINE Rest(T) == T \ {CHOOSE y : y \in T}
           Counts(F) == F = [T \in SUBSET {x} |-> IF T = {} THEN 0 ELSE 1 + F[Rest(T)]]
           W == [T \in SUBSET {x} |-> IF T = {} THEN 0 ELSE 1]
           CS == CHOOSE F : Counts(F)
<1>1. \A T \in SUBSET {x} : T = {} \/ T = {x}
  OBVIOUS
<1>2. Rest({x}) = {}
  <2>1. (CHOOSE y : y \in {x}) = x
    OBVIOUS
  <2> QED BY Zenon, <2>1
<1> HIDE DEF Rest
<1>3. W[{}] = 0 /\ W[{x}] = 1
  OBVIOUS
<1>4. Counts(W)
  <2>1. \A T \in SUBSET {x} : W[T] = IF T = {} THEN 0 ELSE 1 + W[Rest(T)]
    <3> HIDE DEF W
    <3> QED BY <1>1, <1>2, <1>3
  <2> QED BY Zenon, <2>1
<1>5. Counts(CS)
  <2> HIDE DEF Counts, W
  <2> QED BY Zenon, <1>4
<1>6. CS[{}] = 0 /\ CS[{x}] = 1 + CS[Rest({x})]
  <2> HIDE DEF CS
  <2> QED BY Zenon, <1>5
<1>7. Cardinality({x}) = CS[{x}]
  BY Zenon DEF Cardinality, Rest
<1> QED
  <2> HIDE DEF CS
  <2> QED BY <1>2, <1>6, <1>7

\* The empty set has no elements.
LEMMA SizeOfNone == Cardinality({}) = 0
<1> DEFINE Rest(T) == T \ {CHOOSE y : y \in T}
           Counts(F) == F = [T \in SUBSET {} |-> IF T = {} THEN 0 ELSE 1 + F[Rest(T)]]
           W == [T \in SUBSET {} |-> 0]
           CS == CHOOSE F : Counts(F)
<1> HIDE DEF Rest
<1>1. Counts(W)
  OBVIOUS
<1>2. Counts(CS)
  <2> HIDE DEF Counts, W
  <2> QED BY Zenon, <1>1
<1>3. CS[{}] = 0
  <2> HIDE DEF CS
  <2> QED BY Zenon, <1>2
<1>4. Cardinality({}) = CS[{}]
  BY Zenon DEF Cardinality, Rest
<1> QED BY Zenon, <1>3, <1>4

\* Over warm-up, fallback, second connection and reconnects, the client is on
\* one connection, whose key, selection and offer belong together.
THEOREM HandshakeCoheres == SlSpec => []HandshakeIsCoherent
<1> SUFFICES ASSUME SlInv PROVE HandshakeIsCoherent
  BY SlInductive, PTL
<1>1. OneConnection
  <2>1. h.open = {} \/ h.open = {h.sock}
    BY Zenon DEF SlInv, HInv, OnOneSocket
  <2>2. Cardinality(h.open) \in {0, 1}
    BY Zenon, <2>1, SizeOfNone, SizeOfOne
  <2> QED BY <2>2 DEF OneConnection
<1>2. CipherOfThisConnection
  BY Zenon DEF SlInv, HInv, OnOneSocket, CipherOfThisConnection
<1>3. OfferMatchesSelection
  <2>1. (5 \div 2) % 2 = 0 /\ (3 \div 2) % 2 = 1 /\ (7 \div 2) % 2 = 1
    OBVIOUS
  <2>2. h.cmd # "none" => h.cmd = IF h.alt THEN "own" ELSE "share"
    BY Zenon DEF SlInv, HInv, OfferedAsAsked
  <2>3. h.sent > 0 => h.flags \in IF h.alt THEN {5} ELSE {3, 7}
    BY Zenon DEF SlInv, HInv, OfferedAsAsked
  <2>4. h.sent > 0 /\ h.cmd # "none" => ((h.flags \div 2) % 2 = 0) = (h.cmd = "own")
    BY <2>1, <2>2, <2>3
  <2>5. cfg.mask = {0} => h.cmd # "own"
    BY Zenon DEF SlInv, HInv, OfferedAsAsked
  <2> QED BY Zenon, <2>4, <2>5 DEF OfferMatchesSelection
<1>4. FailsForAReason
  BY Zenon DEF SlInv, RInv, Reason, Failing, FailsForAReason
<1> QED BY Zenon, <1>1, <1>2, <1>3, <1>4 DEF HandshakeIsCoherent

-----------------------------------------------------------------------------
(* TunnelGate: what a reading command knows, as long as nothing moved.     *)

\* The local variables of a reading command.
CmdShaped ==
    /\ cmd = [at |-> cmd.at, kind |-> cmd.kind, host |-> cmd.host, state |-> cmd.state,
              svc |-> cmd.svc, calm |-> cmd.calm]
    /\ cmd.calm \in BOOLEAN

\* The state file that was read is the one on disk; a session that has come to
\* query_status has passed the audit; `status` remembers how the service is.
CmdKnows ==
    /\ cmd.at \in {"service", "query", "audit"} => cmd.state = store
    /\ cmd.at = "query" /\ cmd.kind = "session" => AuditOk(IpOf(cmd.state))
    /\ cmd.at \in {"query", "audit"} /\ cmd.kind # "session" => cmd.svc = (live # NoPairing)

TgInv == extra \subseteq Extra /\ CmdShaped /\ (cmd.calm => CmdKnows)

\* The commands that read do not change the tunnel.
LEMMA DisturbKeeps ==
  ASSUME TgInv, Disturb, extra' \subseteq Extra
  PROVE  TgInv' /\ ~Ends
<1>1. cmd'.at = cmd.at /\ cmd'.calm = FALSE
  BY Zenon DEF TgInv, CmdShaped, Disturb
<1>2. CmdShaped'
  BY Zenon DEF TgInv, CmdShaped, Disturb
<1> QED BY Zenon, <1>1, <1>2 DEF TgInv, Ends

\* Whoever changes what a command reads disturbs it.
LEMMA WritersKeep ==
  ASSUME TgInv,
         \/ \E p \in Pairing : CmdInit(p)
         \/ StopForInit \/ StartForInit \/ RollbackInit \/ StateForInit
         \/ CmdUninstall \/ RemoveConf \/ RemoveState
         \/ ServiceMoves \/ RoutesMove
  PROVE  TgInv' /\ ~Ends
<1>1. Disturb
  BY Zenon DEF CmdInit, StopForInit, StartForInit, RollbackInit, StateForInit, CmdUninstall, RemoveConf,
         RemoveState, ServiceMoves, RoutesMove
<1>2. extra' \subseteq Extra
  <2>1. CASE RoutesMove
    BY Zenon, <2>1 DEF RoutesMove, Extra
  <2>2. CASE UNCHANGED extra
    BY Zenon, <2>2 DEF TgInv
  <2> QED BY Zenon, <2>1, <2>2 DEF CmdInit, StopForInit, StartForInit, RollbackInit, StateForInit,
         CmdUninstall, RemoveConf, RemoveState, ServiceMoves
<1> QED BY Zenon, <1>1, <1>2, DisturbKeeps

\* A step that leaves the command and what it reads alone.
LEMMA QuietKeeps ==
  ASSUME TgInv, UNCHANGED <<store, live, extra, cmd>>
  PROVE  TgInv' /\ ~Ends
BY Zenon DEF TgInv, CmdShaped, CmdKnows, AuditOk, Ends

\* A command that has ended, or has just been given.
LEMMA FreshKeeps ==
  ASSUME TgInv, UNCHANGED extra, cmd'.at \in {"none", "state"}, CmdShaped'
  PROVE  TgInv'
BY Zenon DEF TgInv, CmdKnows

\* load_state, service_state, audit_routes and query_status.
LEMMA ReadersKeep ==
  ASSUME TgInv, LoadState \/ Service \/ Audit \/ Query
  PROVE  TgInv' /\ SessionOnItsPairing /\ HealthyIsAdmitted
<1> USE DEF TgInv
<1>0. UNCHANGED <<store, live, extra>>
  BY Zenon DEF LoadState, Service, Audit, Query
<1>1. ASSUME NEW r, End(r) PROVE TgInv'
  <2>1. CmdShaped' /\ cmd'.at = "none"
    BY Zenon, <1>1 DEF End, NoCmd, CmdShaped
  <2> QED BY Zenon, <1>0, <2>1, FreshKeeps
<1>3. CASE LoadState
  <2>1. CASE store = NoPairing \/ (cmd.kind = "session" /\ cmd.host \notin {NoPairing, IpOf(store)})
    <3>1. End("refused")
      BY Zenon, <1>3, <2>1 DEF LoadState
    <3>2. shown' = "refused"
      BY Zenon, <3>1 DEF End
    <3>3. ~Healthy \/ cmd.host \notin {NoPairing, IpOf(store)}
      BY Zenon, <2>1 DEF Healthy
    <3> QED BY Zenon, <1>1, <3>1, <3>2, <3>3 DEF SessionOnItsPairing, HealthyIsAdmitted
  <2>2. CASE ~(store = NoPairing \/ (cmd.kind = "session" /\ cmd.host \notin {NoPairing, IpOf(store)}))
    <3>1. cmd' = [cmd EXCEPT !.at = "service", !.state = store]
      BY Zenon, <1>3, <2>2 DEF LoadState, Go
    <3>2. CmdShaped' /\ cmd'.at = "service" /\ cmd'.state = store /\ cmd'.calm = cmd.calm
      BY Zenon, <3>1 DEF CmdShaped
    <3>3. ~Ends
      BY Zenon, <3>2 DEF Ends
    <3>4. CmdKnows'
      BY Zenon, <3>2, <1>0 DEF CmdKnows
    <3> QED BY Zenon, <1>0, <3>2, <3>3, <3>4 DEF SessionOnItsPairing, HealthyIsAdmitted
  <2> QED BY Zenon, <2>1, <2>2
<1>4. CASE Service
  <2>1. CASE cmd.kind = "session" /\ live = NoPairing
    <3>1. End("refused")
      BY Zenon, <1>4, <2>1 DEF Service
    <3>2. shown' = "refused"
      BY Zenon, <3>1 DEF End
    <3>3. ~Healthy
      BY Zenon, <2>1 DEF Healthy
    <3> QED BY Zenon, <1>1, <3>1, <3>2, <3>3 DEF SessionOnItsPairing, HealthyIsAdmitted
  <2>2. CASE cmd.kind = "session" /\ live # NoPairing
    <3>1. cmd.at = "service" /\ Go([cmd EXCEPT !.at = "audit"])
      BY Zenon, <1>4, <2>2 DEF Service
    <3>2. CmdShaped' /\ cmd' = [cmd EXCEPT !.at = "audit"]
      BY Zenon, <3>1 DEF Go, CmdShaped
    <3>3. cmd'.at = "audit" /\ cmd'.state = cmd.state /\ cmd'.calm = cmd.calm /\ cmd'.kind = "session"
      BY Zenon, <3>2, <2>2 DEF CmdShaped
    <3>4. ~Ends
      BY Zenon, <3>3 DEF Ends
    <3>5. cmd.calm => CmdKnows'
      BY Zenon, <3>1, <3>3, <1>0 DEF CmdKnows
    <3> QED BY Zenon, <1>0, <3>2, <3>3, <3>4, <3>5 DEF SessionOnItsPairing, HealthyIsAdmitted
  <2>3. CASE cmd.kind # "session"
    <3>1. cmd.at = "service" /\ Go([cmd EXCEPT !.at = "query", !.svc = live # NoPairing])
      BY Zenon, <1>4, <2>3 DEF Service
    <3>2. CmdShaped' /\ cmd' = [cmd EXCEPT !.at = "query", !.svc = live # NoPairing]
      BY Zenon, <3>1 DEF Go, CmdShaped
    <3>3. /\ cmd'.at = "query" /\ cmd'.state = cmd.state /\ cmd'.calm = cmd.calm
          /\ cmd'.kind # "session" /\ cmd'.svc = (live # NoPairing)
      BY Zenon, <3>2, <2>3 DEF CmdShaped
    <3>4. ~Ends
      BY Zenon, <3>3 DEF Ends
    <3>5. cmd.calm => CmdKnows'
      BY Zenon, <3>1, <3>3, <1>0 DEF CmdKnows
    <3> QED BY Zenon, <1>0, <3>2, <3>3, <3>4, <3>5 DEF SessionOnItsPairing, HealthyIsAdmitted
  <2> QED BY Zenon, <2>1, <2>2, <2>3
<1>5. CASE Audit
  <2> DEFINE ok == AuditOk(IpOf(cmd.state))
  <2>0. cmd.calm => (Healthy => ok)
    BY Zenon, <1>5 DEF Audit, CmdKnows, Healthy, AuditOk
  <2>1. CASE cmd.kind = "session" /\ ok
    <3>1. cmd.at = "audit" /\ Go([cmd EXCEPT !.at = "query"])
      BY Zenon, <1>5, <2>1 DEF Audit
    <3>2. CmdShaped' /\ cmd' = [cmd EXCEPT !.at = "query"]
      BY Zenon, <3>1 DEF Go, CmdShaped
    <3>3. cmd'.at = "query" /\ cmd'.state = cmd.state /\ cmd'.calm = cmd.calm /\ cmd'.kind = "session"
      BY Zenon, <3>2, <2>1 DEF CmdShaped
    <3>4. ~Ends
      BY Zenon, <3>3 DEF Ends
    <3>5. AuditOk(IpOf(cmd.state))'
      BY Zenon, <2>1, <3>3, <1>0 DEF AuditOk
    <3>6. cmd.calm => CmdKnows'
      BY Zenon, <3>1, <3>3, <3>5, <1>0 DEF CmdKnows
    <3> QED BY Zenon, <1>0, <3>2, <3>3, <3>4, <3>6 DEF SessionOnItsPairing, HealthyIsAdmitted
  <2>2. CASE cmd.kind = "session" /\ ~ok
    <3>1. End("refused")
      BY Zenon, <1>5, <2>2 DEF Audit
    <3>2. shown' = "refused"
      BY Zenon, <3>1 DEF End
    <3> QED BY Zenon, <1>1, <2>0, <2>2, <3>1, <3>2 DEF SessionOnItsPairing, HealthyIsAdmitted
  <2>3. CASE cmd.kind # "session"
    <3>1. cmd.at = "audit" /\ End(IF ok /\ cmd.svc THEN "admitted" ELSE "refused")
      BY Zenon, <1>5, <2>3 DEF Audit
    <3>2. shown' = IF ok /\ cmd.svc THEN "admitted" ELSE "refused"
      BY Zenon, <3>1 DEF End
    <3>3. cmd.calm /\ Healthy => cmd.svc
      BY Zenon, <2>3, <3>1 DEF CmdKnows, Healthy
    <3>4. TgInv'
      BY Zenon, <1>1, <3>1
    <3> QED BY Zenon, <2>0, <2>3, <3>2, <3>3, <3>4 DEF SessionOnItsPairing, HealthyIsAdmitted
  <2> QED BY Zenon, <2>1, <2>2, <2>3
<1>6. CASE Query
  <2>1. CASE cmd.kind = "session"
    <3>1. cmd.at = "query" /\ End(IF GateOpens(cmd.state) THEN "admitted" ELSE "refused")
      BY Zenon, <1>6, <2>1 DEF Query
    <3>2. shown' = IF GateOpens(cmd.state) THEN "admitted" ELSE "refused"
      BY Zenon, <3>1 DEF End
    <3>3. cmd.calm => cmd.state = store /\ AuditOk(IpOf(cmd.state))
      BY Zenon, <2>1, <3>1 DEF CmdKnows
    <3>4. cmd.calm => extra = {}
      BY Zenon, <3>3 DEF AuditOk, Extra
    <3>5. SessionOnItsPairing
      BY Zenon, <3>2, <3>4 DEF SessionOnItsPairing, GateOpens
    <3>6. HealthyIsAdmitted
      BY Zenon, <3>2, <3>3 DEF HealthyIsAdmitted, GateOpens, Healthy
    <3>7. TgInv'
      BY Zenon, <1>1, <3>1
    <3> QED BY Zenon, <3>5, <3>6, <3>7
  <2>2. CASE cmd.kind # "session"
    <3>1. cmd.at = "query" /\ Go([cmd EXCEPT !.at = "audit"])
      BY Zenon, <1>6, <2>2 DEF Query
    <3>2. CmdShaped' /\ cmd' = [cmd EXCEPT !.at = "audit"]
      BY Zenon, <3>1 DEF Go, CmdShaped
    <3>3. /\ cmd'.at = "audit" /\ cmd'.state = cmd.state /\ cmd'.calm = cmd.calm
          /\ cmd'.kind # "session" /\ cmd'.svc = cmd.svc
      BY Zenon, <3>2, <2>2 DEF CmdShaped
    <3>4. ~Ends
      BY Zenon, <3>3 DEF Ends
    <3>5. cmd.calm => CmdKnows'
      BY Zenon, <2>2, <3>1, <3>3, <1>0 DEF CmdKnows
    <3> QED BY Zenon, <1>0, <3>2, <3>3, <3>4, <3>5 DEF SessionOnItsPairing, HealthyIsAdmitted
  <2> QED BY Zenon, <2>1, <2>2
<1> QED BY Zenon, <1>3, <1>4, <1>5, <1>6

\* Whatever a step does, the command knows what it knows, and ends rightly.
LEMMA GateStep ==
  TgInv /\ [TgNext]_tgVars => TgInv' /\ [SessionOnItsPairing /\ HealthyIsAdmitted]_tgVars
<1> SUFFICES ASSUME TgInv, [TgNext]_tgVars
             PROVE  TgInv' /\ [SessionOnItsPairing /\ HealthyIsAdmitted]_tgVars
  OBVIOUS
<1>1. TgInv /\ ~Ends => SessionOnItsPairing /\ HealthyIsAdmitted
  BY Zenon DEF SessionOnItsPairing, HealthyIsAdmitted
<1>2. CASE \/ \E p \in Pairing : CmdInit(p)
           \/ StopForInit \/ StartForInit \/ RollbackInit \/ StateForInit
           \/ CmdUninstall \/ RemoveConf \/ RemoveState
           \/ ServiceMoves \/ RoutesMove
  BY Zenon, <1>1, <1>2, WritersKeep
<1>3. CASE AuditForInit \/ InitDies \/ Direct
  <2>1. UNCHANGED <<store, live, extra, cmd>>
    BY Zenon, <1>3 DEF AuditForInit, InitDies, Direct
  <2> QED BY Zenon, <1>1, <2>1, QuietKeeps
<1>4. ASSUME NEW kind, NEW host, Ask(kind, host)
      PROVE  TgInv' /\ ~Ends
  <2>1. CmdShaped' /\ cmd'.at = "state" /\ UNCHANGED extra
    BY Zenon, <1>4 DEF Ask, NoCmd, CmdShaped
  <2>2. ~Ends
    BY Zenon, <2>1 DEF Ends
  <2> QED BY Zenon, <2>1, <2>2, FreshKeeps
<1>5. CASE LoadState \/ Service \/ Audit \/ Query
  BY Zenon, <1>5, ReadersKeep
<1>6. CASE UNCHANGED tgVars
  <2>1. UNCHANGED <<store, live, extra, cmd>>
    BY Zenon, <1>6 DEF tgVars
  <2> QED BY Zenon, <1>6, <2>1, QuietKeeps
<1> QED BY Zenon, <1>1, <1>2, <1>3, <1>4, <1>5, <1>6 DEF TgNext

\* resolve_session_host hands the address out only while the tunnel that runs
\* is the paired Mac's, and a healthy PC is never refused, however init,
\* uninstall, the service and the routes move between its four looks.
THEOREM GateStaysRight == TgSpec => GateIsRight
<1>1. TgInit => TgInv
  BY DEF TgInit, TgInv, NoCmd, CmdShaped, CmdKnows
<1> QED BY <1>1, GateStep, PTL DEF TgSpec, GateIsRight

=============================================================================
