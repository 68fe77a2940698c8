----------------------------- MODULE UdpReceiver -----------------------------
(***************************************************************************)
(* The overlapped UDP receiver (IocpReceiver, src/src/net/udp.cpp) over    *)
(* the packet pool (src/src/media/packet_pool.h).                          *)
(*                                                                         *)
(* The packet thread loops over wait(): it retries the operations that     *)
(* could not be posted, takes a batch of completions, hands each datagram  *)
(* to its caller in the slot it arrived in, and posts the operation again. *)
(* The kernel completes receives, and teardown calls stop(), at any time;  *)
(* the order of completions within the port is not told apart.             *)
(***************************************************************************)
EXTENDS FiniteSets, Naturals

CONSTANTS
    Slot,   \* slots of the pool
    Op,     \* the depth overlapped operations
    NoSlot  \* UINT32_MAX

ASSUME RxAssumption == NoSlot \notin Slot /\ IsFiniteSet(Op)

VARIABLES
    free,       \* free_ of the pool
    held,       \* slots the packet thread holds (its batch, the assembler)
    slot,       \* each operation's slot
    st,         \* where each operation is
    rx,         \* where wait() is: "retry", "batch", "caller", "left", or "gone"
    stop        \* stopping_ and the wake-up entry: "no", "asked", "port", "batch"

rxVars == <<free, held, slot, st, rx, stop>>

\* new: in ops_, not yet posted by the constructor;  unposted: in unposted_;  idle: post()
\* returned without posting it.
OpState == {"new", "retry", "unposted", "pending", "ready", "batch", "idle"}

\* Leftover groups of the burst hold slots before the receiver exists.
RxInit ==
    /\ held \in SUBSET Slot
    /\ free = Slot \ held
    /\ slot = [o \in Op |-> NoSlot]
    /\ st = [o \in Op |-> "new"]
    /\ rx = "retry"
    /\ stop = "no"

\* Mutant: an operation that finds no slot is forgotten.
PostForgets(o, s) ==
    \/ /\ s = NoSlot /\ free = {}
       /\ slot' = slot /\ st' = [st EXCEPT ![o] = "idle"] /\ UNCHANGED free
    \/ \E n \in IF s = NoSlot THEN free ELSE {s} :
          /\ slot' = [slot EXCEPT ![o] = n] /\ free' = free \ {n}
          /\ st' = [st EXCEPT ![o] = "pending"]

\* post(), for an operation that has slot s or none.  stopping_ is not atomic: a post on the
\* way may still miss it.
Post(o, s) ==
    \/ /\ stop # "no"
       /\ st' = [st EXCEPT ![o] = "idle"]
       /\ slot' = [slot EXCEPT ![o] = s] /\ UNCHANGED free
    \/ /\ s = NoSlot /\ free = {}
       /\ st' = [st EXCEPT ![o] = "unposted"]
       /\ slot' = [slot EXCEPT ![o] = s] /\ UNCHANGED free
    \/ \E n \in IF s = NoSlot THEN free ELSE {s} :
          /\ slot' = [slot EXCEPT ![o] = n] /\ free' = free \ {n}
          /\ \E to \in {"pending", "unposted"} : st' = [st EXCEPT ![o] = to]

\* The constructor's loop and the one at the head of wait().
RxRetry(o) ==
    /\ rx = "retry"
    /\ st[o] \in {"new", "retry"}
    /\ Post(o, slot[o])
    /\ UNCHANGED <<held, rx, stop>>

\* GetQueuedCompletionStatusEx takes some of the entries, or times out.
RxGet ==
    /\ rx = "retry" /\ \A o \in Op : st[o] \notin {"new", "retry"}
    /\ \E b \in SUBSET {o \in Op : st[o] = "ready"} :
          st' = [o \in Op |-> IF o \in b THEN "batch" ELSE st[o]]
    /\ stop' \in IF stop = "port" THEN {"port", "batch"} ELSE {stop}
    /\ rx' = "batch"
    /\ UNCHANGED <<free, held, slot>>

\* Mutant: the operation keeps the slot it has just handed over.
RxEntryKeepsSlot(o) ==
    /\ rx = "batch" /\ st[o] = "batch"
    /\ held' = held \cup {slot[o]}
    /\ Post(o, slot[o])
    /\ UNCHANGED <<rx, stop>>

\* One entry: the slot goes to the caller unless the receive failed or was empty.
RxEntry(o) ==
    /\ rx = "batch" /\ st[o] = "batch"
    /\ \/ held' = held \cup {slot[o]} /\ Post(o, NoSlot)
       \/ held' = held /\ Post(o, slot[o])
    /\ UNCHANGED <<rx, stop>>

\* The wake-up entry: wait() returns false with the rest of the batch where it is.
RxWake ==
    /\ rx = "batch" /\ stop = "batch"
    /\ rx' = "left"
    /\ UNCHANGED <<free, held, slot, st, stop>>

\* Mutant: only the wake-up entry ends the loop.
RxReturnAnyway ==
    /\ rx = "batch" /\ stop # "batch"
    /\ \A o \in Op : st[o] # "batch"
    /\ rx' = "caller"
    /\ UNCHANGED <<free, held, slot, st, stop>>

RxReturn ==
    /\ rx = "batch" /\ stop # "batch"
    /\ \A o \in Op : st[o] # "batch"
    /\ rx' = IF stop = "no" THEN "caller" ELSE "left"
    /\ UNCHANGED <<free, held, slot, st, stop>>

\* Mutant: a slot is given back while an operation has it.
RxReleaseAny(s) ==
    /\ rx = "caller" /\ s \notin free
    /\ held' = held \ {s}
    /\ free' = free \cup {s}
    /\ UNCHANGED <<slot, st, rx, stop>>

\* A packet is refused, its group is flushed or evicted, ...
RxRelease(s) ==
    /\ rx = "caller" /\ s \in held
    /\ held' = held \ {s}
    /\ free' = free \cup {s}
    /\ UNCHANGED <<slot, st, rx, stop>>

\* Mutant: the parked operations stay where they are.
RxCallOnly ==
    /\ rx = "caller" /\ rx' = "retry"
    /\ UNCHANGED <<free, held, slot, st, stop>>

\* ... and packet_thread comes back to wait(), which swaps unposted_ out.
RxCall ==
    /\ rx = "caller"
    /\ rx' = "retry"
    /\ st' = [o \in Op |-> IF st[o] = "unposted" THEN "retry" ELSE st[o]]
    /\ UNCHANGED <<free, held, slot, stop>>

\* A datagram arrives, or the receive fails.
RxComplete(o) ==
    /\ st[o] = "pending"
    /\ st' = [st EXCEPT ![o] = "ready"]
    /\ UNCHANGED <<free, held, slot, rx, stop>>

\* stop(), from teardown: the flag, then the wake-up entry.
RxStop ==
    /\ \/ stop = "no" /\ stop' = "asked"
       \/ stop = "asked" /\ stop' = "port"
    /\ UNCHANGED <<free, held, slot, st, rx>>

\* The thread has been joined: the destructor, and with it every operation.
RxDestroy ==
    /\ rx = "left" /\ stop \in {"port", "batch"}
    /\ rx' = "gone"
    /\ UNCHANGED <<free, held, slot, st, stop>>

RxThread ==
    \/ \E o \in Op : RxRetry(o) \/ RxEntry(o)
    \/ RxGet \/ RxWake \/ RxReturn \/ RxCall

RxNext ==
    \/ RxThread \/ RxStop \/ RxDestroy
    \/ \E o \in Op : RxComplete(o)
    \/ \E s \in Slot : RxRelease(s)

RxFairness ==
    /\ WF_rxVars(RxThread)
    /\ WF_rxVars(stop = "asked" /\ RxStop)
    /\ \A s \in Slot : SF_rxVars(RxRelease(s))

RxSpec == RxInit /\ [][RxNext]_rxVars /\ RxFairness

-----------------------------------------------------------------------------

\* The slots that operations have.
Posted == {slot[o] : o \in Op} \ {NoSlot}

\* The values each variable takes.
RxTypeOK ==
    /\ free \subseteq Slot /\ held \subseteq Slot
    /\ slot \in [Op -> Slot \cup {NoSlot}]
    /\ st \in [Op -> OpState]
    /\ rx \in {"retry", "batch", "caller", "left", "gone"}
    /\ stop \in {"no", "asked", "port", "batch"}

\* Every slot has exactly one owner, so a datagram is never written into a buffer the assembler
\* still reads, and none is lost from the pool: it is free, or one operation has it, or the
\* caller holds it; what the kernel writes to has one (udp.cpp 83-134; the hand-over is line 127).
OneOwner ==
    /\ free \cap held = {} /\ free \cap Posted = {} /\ held \cap Posted = {}
    /\ Slot = free \cup held \cup Posted
    /\ \A o, p \in Op : slot[o] = slot[p] /\ slot[o] # NoSlot => o = p
    /\ \A o \in Op : st[o] \in {"pending", "ready", "batch"} => slot[o] \in Slot

\* Until stop() every operation is posted, ready, or on its way to be posted again, however
\* often the pool ran dry or a receive failed (udp.cpp 87, 100): the receiver never goes deaf.
NeverDeaf == stop = "no" => \A o \in Op : st[o] # "idle"

\* An operation parked for want of a slot is tried again, for as long as nobody stops the
\* receiver (udp.cpp 107-110).
ParkedIsRetried == \A o \in Op : st[o] = "unposted" ~> st[o] # "unposted" \/ stop # "no"

\* wait() lets the packet thread go once stop() was called (session.cpp 308-309 joins it).
StopReleasesThread == stop # "no" ~> rx \in {"left", "gone"}

\* Who owns a slot, in the terms of SlotRing.
Owner(s) == IF s \in free THEN "free" ELSE IF s \in held THEN "reader" ELSE "kernel"

Ring == INSTANCE SlotRing WITH owner <- [s \in Slot |-> Owner(s)], Depth <- Cardinality(Op)

\* The receiver implements the ring: a slot changes hands only from the free list to the kernel,
\* to the reader, and back (packet_pool.h 2-4).
ImplementsRing == Ring!Spec

\* Slots go round, each with one owner, and no operation drops out.
SlotsGoRound == RxTypeOK /\ OneOwner /\ NeverDeaf

\* The receiver goes on receiving until it is told to stop, and then stops.
ReceivesUntilStopped == ParkedIsRetried /\ StopReleasesThread

=============================================================================
