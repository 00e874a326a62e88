-------------------------- MODULE ConcurrentArena ---------------------------
(***************************************************************************)
(* The allocator under a mousedb memtable (lib_database/src/arena.cpp).    *)
(* An Arena hands out the bytes of its active slab in order, and makes a   *)
(* slab of its own for a large request.  A ConcurrentArena puts a spin     *)
(* lock around one, and shards in front of it: a small request is served   *)
(* from the slice of a shard, under the shard's own lock, and the arena is *)
(* asked only when the slice is too short.  Which shard a thread uses is   *)
(* the cpu it last ran on; a thread that has never met contention has      *)
(* cpu_id_ 0 and asks the arena itself while shard 0 is empty and the      *)
(* arena's lock happens to be free.                                        *)
(*                                                                         *)
(* Memory is a numbered slab and an offset in it.  A region is a slab and  *)
(* the offsets from "from" up to, and without, "to".                       *)
(***************************************************************************)
EXTENDS Integers, Sequences, FiniteSets

CONSTANTS
    Threads,
    Nobody,     \* holds a lock that is free
    NumShards,  \* a power of two, at least the number of cpus
    SlabSize,   \* slab_size_ of the arena, after optimize_slab_size
    SliceSize,  \* slab_slice_size_
    Sizes,      \* the sizes asked for
    MaxAllocs   \* bound: requests in one behaviour

ASSUME ArenaAssumption ==
    /\ NumShards \in Nat \ {0}
    /\ SlabSize \in Nat /\ SliceSize \in Nat
    /\ 8 * SliceSize <= SlabSize
    /\ Sizes \subseteq Nat \ {0}
    /\ MaxAllocs \in Nat
    /\ Nobody \notin Threads

Shards == 0 .. NumShards - 1

VARIABLES
    slabs,       \* the sizes of the slabs made so far, in order
    active,      \* active_slab_, 0 before the first
    activeFree,  \* active_slab_unused_
    used,        \* used_ of the arena, which update() publishes
    unused,      \* unused_, likewise
    total,       \* size_, likewise
    arenaLock,   \* who holds arena_mutex_
    shardLock,   \* who holds each shard's mutex
    begin,       \* where each shard's slice goes on
    left,        \* Shard::unused
    pc,          \* where each thread is in allocate
    want,        \* the size it asks for
    home,        \* cpu_id_: its shard, NoHome before any contention; one
                 \* for all arenas, so a thread may have met it in another
    mine,        \* the shard it has locked or waits for
    avail,       \* its shard_unused
    given        \* history: the regions returned, in order

arenaVars == <<slabs, active, activeFree, used, unused, total>>
lockVars == <<arenaLock, shardLock>>
shardVars == <<begin, left>>
threadVars == <<pc, want, home, mine, avail>>
vars == <<arenaVars, lockVars, shardVars, threadVars, given>>

Region(s, a, b) == [slab |-> s, from |-> a, to |-> b]

\* cpu_id_ is 0 until reset_shard or's the number of shards into it.
NoHome == NumShards

-----------------------------------------------------------------------------
Init ==
    /\ slabs = <<>> /\ active = 0 /\ activeFree = 0 /\ used = 0 /\ unused = 0
    /\ total = 0
    /\ arenaLock = Nobody /\ shardLock = [s \in Shards |-> Nobody]
    /\ begin = [s \in Shards |-> Region(0, 0, 0)]
    /\ left = [s \in Shards |-> 0]
    /\ pc = [t \in Threads |-> "idle"]
    /\ want = [t \in Threads |-> 0]
    /\ home \in [Threads -> Shards \cup {NoHome}]
    /\ mine = [t \in Threads |-> 0]
    /\ avail = [t \in Threads |-> 0]
    /\ given = <<>>

Goto(t, step) == pc' = [pc EXCEPT ![t] = step]

(* Arena::allocate, by the three places a request may be served from.      *)

\* A large request gets a slab, and the active one stays.
OwnSlab(n) ==
    /\ n >= SlabSize
    /\ slabs' = Append(slabs, n)
    /\ total' = total + n
    /\ UNCHANGED <<active, activeFree, unused>>

\* A mutant: the bytes of the new slab are not counted as unused.
NewSlabUncounted(n) ==
    /\ n < SlabSize /\ n > activeFree
    /\ slabs' = Append(slabs, SlabSize)
    /\ total' = total + SlabSize
    /\ active' = Len(slabs')
    /\ activeFree' = SlabSize - n
    /\ UNCHANGED unused

\* The active slab is too short: another takes its place.  What was left of
\* it is in unused_ already and is added once more.
NewSlab(n) ==
    /\ n < SlabSize /\ n > activeFree
    /\ slabs' = Append(slabs, SlabSize)
    /\ total' = total + SlabSize
    /\ active' = Len(slabs')
    /\ activeFree' = SlabSize - n
    /\ unused' = unused + activeFree + SlabSize - n

ActiveSlab(n) ==
    /\ n < SlabSize /\ n <= activeFree
    /\ activeFree' = activeFree - n
    /\ unused' = unused - n
    /\ UNCHANGED <<slabs, active, total>>

\* The region that allocate(n) returns now.
NextRegion(n) ==
    IF n >= SlabSize \/ n > activeFree
    THEN Region(Len(slabs) + 1, 0, n)
    ELSE Region(active, SlabSize - activeFree, SlabSize - activeFree + n)

ArenaAllocate(n) ==
    /\ used' = used + n
    /\ OwnSlab(n) \/ NewSlab(n) \/ ActiveSlab(n)

-----------------------------------------------------------------------------
(* ConcurrentArena::allocate.                                              *)

\* A request above a quarter of a slice goes to the arena, and so may one of
\* a thread that still has cpu_id_ 0, if shard 0 is empty.
Begin(t, n) ==
    /\ pc[t] = "idle" /\ Len(given) < MaxAllocs
    /\ want' = [want EXCEPT ![t] = n]
    /\ Goto(t, CASE n > SliceSize \div 4 -> "lockArena"
                 [] n <= SliceSize \div 4 /\ home[t] = NoHome -> "peek"
                 [] OTHER -> "tryShard")
    /\ UNCHANGED <<arenaVars, lockVars, shardVars, home, mine, avail, given>>

\* Shard 0's counter is read without its lock.
Peek(t) ==
    /\ pc[t] = "peek"
    /\ Goto(t, IF left[0] = 0 THEN "tryArena" ELSE "tryShard")
    /\ UNCHANGED <<arenaVars, lockVars, shardVars, want, home, mine, avail, given>>

TryArena(t) ==
    /\ pc[t] = "tryArena"
    /\ IF arenaLock = Nobody
       THEN arenaLock' = t /\ Goto(t, "arena")
       ELSE UNCHANGED arenaLock /\ Goto(t, "tryShard")
    /\ UNCHANGED <<arenaVars, shardLock, shardVars, want, home, mine, avail, given>>

\* The thread spins until the arena is free.
LockArena(t) ==
    /\ pc[t] = "lockArena" /\ arenaLock = Nobody
    /\ arenaLock' = t
    /\ Goto(t, "arena")
    /\ UNCHANGED <<arenaVars, shardLock, shardVars, want, home, mine, avail, given>>

FromArena(t) ==
    /\ pc[t] = "arena"
    /\ ArenaAllocate(want[t])
    /\ given' = Append(given, NextRegion(want[t]))
    /\ arenaLock' = Nobody
    /\ Goto(t, "idle")
    /\ UNCHANGED <<shardLock, shardVars, want, home, mine, avail>>

\* try_lock on the shard of cpu_id_; when it is held, reset_shard picks the
\* shard of the cpu the thread is on, for this request and the next ones.
TryShard(t) ==
    /\ pc[t] = "tryShard"
    /\ LET s == IF home[t] = NoHome THEN 0 ELSE home[t]
       IN  \/ /\ shardLock[s] = Nobody
              /\ shardLock' = [shardLock EXCEPT ![s] = t]
              /\ mine' = [mine EXCEPT ![t] = s]
              /\ Goto(t, "shard")
              /\ UNCHANGED home
           \/ /\ shardLock[s] # Nobody
              /\ \E r \in Shards : /\ home' = [home EXCEPT ![t] = r]
                                   /\ mine' = [mine EXCEPT ![t] = r]
              /\ Goto(t, "lockShard")
              /\ UNCHANGED shardLock
    /\ UNCHANGED <<arenaVars, arenaLock, shardVars, want, avail, given>>

LockShard(t) ==
    /\ pc[t] = "lockShard" /\ shardLock[mine[t]] = Nobody
    /\ shardLock' = [shardLock EXCEPT ![mine[t]] = t]
    /\ Goto(t, "shard")
    /\ UNCHANGED <<arenaVars, arenaLock, shardVars, want, home, mine, avail, given>>

CheckShard(t) ==
    /\ pc[t] = "shard"
    /\ avail' = [avail EXCEPT ![t] = left[mine[t]]]
    /\ Goto(t, IF left[mine[t]] < want[t] THEN "lockRefill" ELSE "bump")
    /\ UNCHANGED <<arenaVars, lockVars, shardVars, want, home, mine, given>>

\* The arena's lock is taken under the shard's.
LockRefill(t) ==
    /\ pc[t] = "lockRefill" /\ arenaLock = Nobody
    /\ arenaLock' = t
    /\ Goto(t, "refill")
    /\ UNCHANGED <<arenaVars, shardLock, shardVars, want, home, mine, avail, given>>

\* All that is left of the slabs when it is about a slice, or else a slice.
SliceTaken ==
    IF unused >= SliceSize \div 2 /\ unused < SliceSize * 2 THEN unused ELSE SliceSize

\* A mutant: the arena stays locked while the shard goes on.
RefillKeepsArena(t) ==
    /\ pc[t] = "refill"
    /\ ArenaAllocate(SliceTaken)
    /\ begin' = [begin EXCEPT ![mine[t]] = NextRegion(SliceTaken)]
    /\ avail' = [avail EXCEPT ![t] = SliceTaken]
    /\ Goto(t, "bump")
    /\ UNCHANGED <<lockVars, left, want, home, mine, given>>

\* The shard's old remainder is given up; its counter is set only by Bump.
Refill(t) ==
    /\ pc[t] = "refill"
    /\ ArenaAllocate(SliceTaken)
    /\ begin' = [begin EXCEPT ![mine[t]] = NextRegion(SliceTaken)]
    /\ avail' = [avail EXCEPT ![t] = SliceTaken]
    /\ arenaLock' = Nobody
    /\ Goto(t, "bump")
    /\ UNCHANGED <<shardLock, left, want, home, mine, given>>

\* A mutant: begin is not moved.
BumpInPlace(t) ==
    /\ pc[t] = "bump"
    /\ left' = [left EXCEPT ![mine[t]] = avail[t] - want[t]]
    /\ given' = Append(given, Region(begin[mine[t]].slab, begin[mine[t]].from,
                                     begin[mine[t]].from + want[t]))
    /\ shardLock' = [shardLock EXCEPT ![mine[t]] = Nobody]
    /\ Goto(t, "idle")
    /\ UNCHANGED <<arenaVars, arenaLock, begin, want, home, mine, avail>>

Bump(t) ==
    /\ pc[t] = "bump"
    /\ left' = [left EXCEPT ![mine[t]] = avail[t] - want[t]]
    /\ given' = Append(given, Region(begin[mine[t]].slab, begin[mine[t]].from,
                                     begin[mine[t]].from + want[t]))
    /\ begin' = [begin EXCEPT ![mine[t]].from = @ + want[t]]
    /\ shardLock' = [shardLock EXCEPT ![mine[t]] = Nobody]
    /\ Goto(t, "idle")
    /\ UNCHANGED <<arenaVars, arenaLock, want, home, mine, avail>>

Step(t) ==
    \/ Peek(t) \/ TryArena(t) \/ LockArena(t) \/ FromArena(t)
    \/ TryShard(t) \/ LockShard(t) \/ CheckShard(t)
    \/ LockRefill(t) \/ Refill(t) \/ Bump(t)

Next == \E t \in Threads : Step(t) \/ \E n \in Sizes : Begin(t, n)

Spec == Init /\ [][Next]_vars

\* A thread inside allocate runs on.  The locks are not fair: what is claimed
\* of a thread that spins holds because requests, and so contention, end.
FairSpec == Spec /\ \A t \in Threads : WF_vars(Step(t))

-----------------------------------------------------------------------------
(* Properties.                                                             *)

Regions == [slab : Nat, from : Nat, to : Nat]

Steps == {"idle", "peek", "tryArena", "lockArena", "arena", "tryShard",
          "lockShard", "shard", "lockRefill", "refill", "bump"}

\* Every variable keeps its range, and a lock belongs to the thread inside.
TypeOK ==
    /\ slabs \in Seq(Nat) /\ active \in 0 .. Len(slabs)
    /\ activeFree \in 0 .. SlabSize
    /\ used \in Nat /\ unused \in Nat /\ total \in Nat
    /\ arenaLock \in Threads \cup {Nobody}
    /\ shardLock \in [Shards -> Threads \cup {Nobody}]
    /\ begin \in [Shards -> Regions] /\ left \in [Shards -> Nat]
    /\ pc \in [Threads -> Steps]
    /\ want \in [Threads -> Nat] /\ avail \in [Threads -> Nat]
    /\ home \in [Threads -> Shards \cup {NoHome}]
    /\ mine \in [Threads -> Shards]
    /\ given \in Seq(Regions)

Disjoint(r, q) == r.slab # q.slab \/ r.to <= q.from \/ q.to <= r.from

InSlab(r) == r.slab \in DOMAIN slabs /\ r.to <= slabs[r.slab]

\* What a shard may still hand out.
ShardFree(s) ==
    LET n == IF shardLock[s] # Nobody /\ pc[shardLock[s]] = "bump"
             THEN avail[shardLock[s]] ELSE left[s]
    IN  Region(begin[s].slab, begin[s].from, begin[s].from + n)

\* What the active slab may still hand out.
ActiveRegion == Region(active, SlabSize - activeFree, SlabSize)

\* No byte is handed out twice nor promised to two owners, whichever way each
\* request took: regions returned never overlap (arena.test.cpp asks only for
\* distinct first bytes) and lie in their slabs, and what a shard or the active
\* slab has left overlaps none of them and nothing that another owner has.
NoOverlap ==
    /\ \A i, j \in DOMAIN given : i # j => Disjoint(given[i], given[j])
    /\ \A i \in DOMAIN given : InSlab(given[i]) /\ Disjoint(ActiveRegion, given[i])
    /\ \A s \in Shards : Disjoint(ShardFree(s), ActiveRegion)
    /\ \A s \in Shards, i \in DOMAIN given : Disjoint(ShardFree(s), given[i])
    /\ \A s, r \in Shards : s # r => Disjoint(ShardFree(s), ShardFree(r))

\* The arena is an allocator: each call gets, at one instant before it ends,
\* exactly the bytes it asked for, in one slab and nobody's before, whether a
\* shard, the active slab or a slab of its own serves it (arena.cpp:26-41, 99-133).
Abstract == INSTANCE Allocator
    WITH asked <- [t \in Threads |-> IF pc[t] = "idle" THEN 0 ELSE want[t]],
         memory <- slabs

Allocates == Abstract!Spec

\* A request returns: the shard's lock and the arena's are never waited for
\* in a circle, nor left held.
AllocateReturns == \A t \in Threads : (pc[t] # "idle") ~> (pc[t] = "idle")

\* arena.hpp:20-26 says that unused() counts the memory that is not used,
\* inactive slabs included, and size() all of it.
UnusedIsTheRest == used + unused = total
=============================================================================
