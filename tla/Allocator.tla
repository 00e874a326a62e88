----------------------------- MODULE Allocator ------------------------------
(***************************************************************************)
(* What an arena promises to the threads that share it: a thread that asks *)
(* for some bytes gets, at one instant before its call ends, exactly so    *)
(* many of one slab, and nobody has had any of them before.  Slabs are     *)
(* made when the allocator likes, and stay as they are.                    *)
(*                                                                         *)
(* Nothing is said of where the bytes come from.  ConcurrentArena, which   *)
(* implements this, has the shards, the active slab and the locks.         *)
(***************************************************************************)
EXTENDS Integers, Sequences

CONSTANTS
    Threads,
    Sizes    \* the sizes asked for, none of them 0

VARIABLES
    asked,   \* what each thread is waiting for, 0 outside a call
    memory,  \* the sizes of the slabs
    given    \* history: the regions returned, in order

vars == <<asked, memory, given>>

Apart(r, q) == r.slab # q.slab \/ r.to <= q.from \/ q.to <= r.from

\* The slabs there are stay as they are; others may follow.
Kept == \A k \in DOMAIN memory : k \in DOMAIN memory' /\ memory'[k] = memory[k]

\* A region of n bytes that are nobody's, in a slab there is at the end.
Fresh(r, n) ==
    /\ r.to - r.from = n
    /\ r.slab \in DOMAIN memory' /\ 0 <= r.from /\ r.to <= memory'[r.slab]
    /\ \A i \in DOMAIN given : Apart(r, given[i])

Init ==
    /\ asked = [t \in Threads |-> 0]
    /\ memory = <<>>
    /\ given = <<>>

Ask(t) ==
    /\ asked[t] = 0
    /\ \E n \in Sizes : asked' = [asked EXCEPT ![t] = n]
    /\ UNCHANGED <<memory, given>>

Grow == Kept /\ UNCHANGED <<asked, given>>

Give(t) ==
    /\ asked[t] # 0
    /\ Kept
    /\ Len(given') = Len(given) + 1
    /\ \A i \in DOMAIN given : given'[i] = given[i]
    /\ Fresh(given'[Len(given')], asked[t])
    /\ asked' = [asked EXCEPT ![t] = 0]

Next == Grow \/ \E t \in Threads : Ask(t) \/ Give(t)

Spec == Init /\ [][Next]_vars
=============================================================================
