------------------------------ MODULE SlotRing -------------------------------
(***************************************************************************)
(* What the packet path promises about its preallocated buffers            *)
(* (src/src/media/packet_pool.h): each slot has one owner, and ownership   *)
(* goes round in one direction, from the free list to the kernel, from the *)
(* kernel to the reader with a datagram in it, and back to the free list.  *)
(***************************************************************************)
EXTENDS FiniteSets, Naturals

CONSTANTS Slot, Depth    \* the pool; receives that may be posted at once

VARIABLE owner

Hops == {<<"free", "kernel">>, <<"kernel", "reader">>, <<"reader", "free">>}

KernelHas(f) == {s \in Slot : f[s] = "kernel"}

Init == owner \in [Slot -> {"free", "reader"}]

Move ==
    /\ owner' \in [Slot -> {"free", "kernel", "reader"}]
    /\ \A s \in Slot : owner'[s] # owner[s] => <<owner[s], owner'[s]>> \in Hops
    /\ Cardinality(KernelHas(owner')) <= Depth

Spec == Init /\ [][Move]_owner
=============================================================================
