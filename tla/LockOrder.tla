------------------------------ MODULE LockOrder ------------------------------
(***************************************************************************)
(* The mutexes of the video path and the order in which its threads take   *)
(* them: the decoder worker, the packet thread, the tx thread and the      *)
(* render thread (src/src/media/decoder.cpp, src/src/session/session.cpp,  *)
(* src/src/gfx/d3d11_renderer.cpp).                                        *)
(*                                                                         *)
(* A handler is the sequence of what it does to the mutexes on its longest *)
(* path; a shorter path stops at fewer of them.  libav calls the log hook, *)
(* and with it the session, from inside a decode, holding what the worker  *)
(* holds and at times the lock of the GPU device it was given.             *)
(***************************************************************************)
EXTENDS Sequences, FiniteSets, Naturals

VARIABLES
    todo,    \* what is left of each thread's handler
    owner,   \* the thread that has each mutex, or "none"
    depth    \* how often it has locked it

loVars == <<todo, owner, depth>>

Thread == {"worker", "packet", "tx", "render"}
Recursive == {"codec", "gpu", "policy"}
Plain == {"gate", "tiles", "await", "rps", "frame", "work", "tx"}
Mutex == Recursive \cup Plain

\* A scope that holds m while body runs.
Hold(m, body) == <<<<"lock", m>>>> \o body \o <<<<"unlock", m>>>>
\* Scopes that hold one mutex after the other and call nothing: no step is lost by passing through.
Pass(ms) == [i \in DOMAIN ms |-> <<"pass", ms[i]>>]

-----------------------------------------------------------------------------
\* The session's side.

SendFir == Pass(<<"policy", "policy">>)
RequestFir == Pass(<<"gate">>) \o SendFir

\* The log hook during a decode.
OnLibavConcealment == Hold("policy", RequestFir \o Pass(<<"gate", "gate">>))

-----------------------------------------------------------------------------
\* The decoder.

DestroyCodec == Hold("codec", Pass(<<"gpu">>))
ResetState == Pass(<<"tiles", "gate", "await", "rps">>)
\* The context is opened on the shared device, which libav locks around its own calls.
OpenCodec == Hold("gpu", <<>>)
Restart == Hold("codec", DestroyCodec \o ResetState \o OpenCodec)
PublishFrame == Pass(<<"tiles", "gate", "frame">>)
TryRecovery == Pass(<<"gate", "await", "tiles">>)

\* One NAL unit: a key frame, with an AVC reset; libav, which complains; the frames; a silence.
DecodeOne ==
    Hold("codec", Pass(<<"gate", "tiles", "await">>) \o DestroyCodec \o OpenCodec
                  \o Hold("gpu", OnLibavConcealment) \o OnLibavConcealment
                  \o PublishFrame \o Pass(<<"gate">>) \o TryRecovery)

WorkerLoop == Pass(<<"work">>) \o DecodeOne
FeedNalu == Pass(<<"rps", "gate", "work">>)

-----------------------------------------------------------------------------
\* The packet thread.

\* Mutant: the decoder is restarted under policy_mu_.
NoteUnknownHoldsPolicy == Hold("policy", Restart) \o RequestFir

\* An adopted SSRC group: decide under policy_mu_, act after releasing it.
NoteUnknownSsrc == Hold("policy", <<>>) \o Restart \o RequestFir
OnDroppedGroup == Pass(<<"gate", "tx">>)
\* set_params, restart and the request, in harvest_param_sets and maybe_reharvest_avc_config.
Reconfigure == Pass(<<"rps">>) \o Restart \o RequestFir

-----------------------------------------------------------------------------
\* The tx thread.

DrainPendingFir == Hold("policy", Pass(<<"gate">>) \o RequestFir \o Pass(<<"gate">>) \o SendFir)

\* Mutant: the verdict and the restart are one scope.
CheckStallHoldsPolicy == Hold("policy", Pass(<<"gate", "gate">>) \o Restart) \o RequestFir

CheckStall == Hold("policy", Pass(<<"gate", "gate">>)) \o Restart \o RequestFir
Snapshot == Pass(<<"tiles", "tiles", "gate">>)

-----------------------------------------------------------------------------
\* The render thread: frames, windows and cursor under the lock of the device; a request when the
\* window is resized.

TakeLatest == Pass(<<"frame", "await", "tiles", "gate">>)
SubmitFrame == Hold("gpu", <<>>)
Draw == Hold("gpu", <<>>)

Handlers == [
    worker |-> {WorkerLoop},
    packet |-> {FeedNalu, NoteUnknownSsrc, OnDroppedGroup, Reconfigure},
    tx |-> {Pass(<<"tx">>) \o RequestFir \o DrainPendingFir \o SendFir, CheckStall, Snapshot},
    render |-> {TakeLatest \o SubmitFrame \o Draw, RequestFir}]

LoInit ==
    /\ todo = [t \in Thread |-> <<>>]
    /\ owner = [m \in Mutex |-> "none"]
    /\ depth = [m \in Mutex |-> 0]

Begin(t) ==
    /\ todo[t] = <<>>
    /\ \E h \in Handlers[t] : todo' = [todo EXCEPT ![t] = h]
    /\ UNCHANGED <<owner, depth>>

\* std::mutex deadlocks a thread that locks it twice; std::recursive_mutex counts.
MayLock(t, m) == owner[m] = "none" \/ (owner[m] = t /\ m \in Recursive)

Lock(t, m) ==
    /\ MayLock(t, m)
    /\ owner' = [owner EXCEPT ![m] = t]
    /\ depth' = [depth EXCEPT ![m] = @ + 1]

Unlock(t, m) ==
    /\ depth' = [depth EXCEPT ![m] = @ - 1]
    /\ owner' = IF depth[m] = 1 THEN [owner EXCEPT ![m] = "none"] ELSE owner

Do(t) ==
    /\ todo[t] # <<>>
    /\ LET op == Head(todo[t])[1]
           m == Head(todo[t])[2]
       IN  \/ op = "lock" /\ Lock(t, m)
           \/ op = "unlock" /\ Unlock(t, m)
           \/ op = "pass" /\ MayLock(t, m) /\ UNCHANGED <<owner, depth>>
    /\ todo' = [todo EXCEPT ![t] = Tail(@)]

LoNext == \E t \in Thread : Begin(t) \/ Do(t)

LoSpec == LoInit /\ [][LoNext]_loVars

-----------------------------------------------------------------------------
\* The mutex a thread asks for next and does not have yet.
Asks(t) ==
    IF todo[t] = <<>> \/ Head(todo[t])[1] = "unlock" THEN {}
    ELSE {m \in {Head(todo[t])[2]} : ~(owner[m] = t /\ m \in Recursive)}

\* No set of threads of the video path waits for each other in a ring, whatever libav logs while
\* it decodes and whoever restarts the decoder (session.cpp 470-472, 897).
NoDeadlock ==
    \A ts \in SUBSET Thread \ {{}} :
       \E t \in ts : \A m \in Asks(t) : owner[m] = "none" \/ owner[m] \in Thread \ ts

\* The order that makes it so: codec_mu_, the device's lock, policy_mu_, and then one of the others,
\* which are held across no call.
Rank(m) == CASE m = "codec" -> 1 [] m = "gpu" -> 2 [] m = "policy" -> 3 [] OTHER -> 4

\* A thread asks only for a mutex that ranks above all it holds.
OrderKept ==
    \A t \in Thread : \A m \in Asks(t) : \A h \in Mutex : owner[h] = t => Rank(h) < Rank(m)

\* The threads of the video path never wait for each other in a ring, as they
\* take the mutexes in one order.
LocksInOrder == NoDeadlock /\ OrderKept

=============================================================================
