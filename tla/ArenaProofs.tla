---------------------------- MODULE ArenaProofs ------------------------------
(***************************************************************************)
(* Proofs about ConcurrentArena, for any number of threads, shards and     *)
(* requests and for all sizes.  The argument: whoever is past a lock holds *)
(* it (Locked), so at most one thread at a time changes the arena, and one *)
(* at a time a shard; a shard's counter covers what it hands out (Covered);*)
(* and every allocation of the arena takes its region from the active slab *)
(* or from a slab that nobody has anything of yet (Placed).                *)
(***************************************************************************)
EXTENDS ConcurrentArena, TLAPS

InArena == {"arena", "refill"}
InShard == {"shard", "lockRefill", "refill", "bump"}
ToShard == {"peek", "tryArena", "tryShard", "lockShard"} \cup InShard

\* A lock is held by the thread that is past it, and by no other.
Locked ==
    /\ \A t \in Threads : pc[t] \in InArena <=> arenaLock = t
    /\ \A t \in Threads : pc[t] \in InShard => shardLock[mine[t]] = t
    /\ \A t \in Threads, s \in Shards :
           shardLock[s] = t => pc[t] \in InShard /\ mine[t] = s

\* A request at a shard is a small one, and what the shard has suffices once
\* the thread takes it; unused_ is at least what the active slab has left.
Covered ==
    /\ \A t \in Threads : pc[t] \in ToShard => want[t] <= SliceSize \div 4
    /\ \A t \in Threads : pc[t] # "idle" => want[t] # 0
    /\ \A t \in Threads : pc[t] = "bump" => want[t] <= avail[t]
    /\ activeFree <= unused

\* Nothing is of a slab that was not made yet.
Placed ==
    /\ \A s \in Shards : begin[s].slab <= Len(slabs)
    /\ active # 0 => slabs[active] = SlabSize
    /\ active = 0 => activeFree = 0

\* How much a shard may still hand out, which is in a slab.
FreeOf(s) ==
    IF shardLock[s] # Nobody /\ pc[shardLock[s]] = "bump"
    THEN avail[shardLock[s]] ELSE left[s]

Inside == \A s \in Shards : FreeOf(s) # 0 => InSlab(ShardFree(s))

IInv == TypeOK /\ Locked /\ Covered /\ Placed /\ Inside /\ NoOverlap

-----------------------------------------------------------------------------
\* A slice is at least as long as a request that a shard serves.
LEMMA SliceSuffices ==
    ASSUME TypeOK
    PROVE  /\ SliceTaken \in Nat
           /\ SliceSize \div 4 <= SliceTaken
  BY ArenaAssumption DEF SliceTaken, TypeOK

\* What the arena returns is nobody's, is in a slab, and the arena keeps
\* nothing of it; what it keeps was its own or nobody's.
LEMMA Allocation ==
    ASSUME TypeOK, Covered, Placed, NEW n \in Nat, ArenaAllocate(n),
           NEW q \in Regions, q.slab <= Len(slabs), Disjoint(q, ActiveRegion)
    PROVE  /\ Disjoint(q, NextRegion(n))
           /\ Disjoint(q, ActiveRegion')
  <1>1. CASE OwnSlab(n)
    BY <1>1, ArenaAssumption DEF OwnSlab, Disjoint, NextRegion, ActiveRegion,
       Region, Regions, TypeOK
  <1>2. CASE NewSlab(n)
    BY <1>2, ArenaAssumption DEF NewSlab, Disjoint, NextRegion, ActiveRegion,
       Region, Regions, TypeOK
  <1>3. CASE ActiveSlab(n)
    BY <1>3, ArenaAssumption DEF ActiveSlab, Disjoint, NextRegion, ActiveRegion,
       Region, Regions, TypeOK
  <1> QED BY <1>1, <1>2, <1>3 DEF ArenaAllocate

\* The arena's own part of the types.
ArenaTyped ==
    /\ slabs \in Seq(Nat) /\ active \in 0 .. Len(slabs)
    /\ activeFree \in 0 .. SlabSize
    /\ used \in Nat /\ unused \in Nat /\ total \in Nat
    /\ activeFree <= unused
    /\ active # 0 => slabs[active] = SlabSize
    /\ active = 0 => activeFree = 0

LEMMA AppendKeeps ==
    ASSUME NEW q \in Seq(Nat), NEW n \in Nat
    PROVE  /\ Append(q, n) \in Seq(Nat)
           /\ Len(Append(q, n)) = Len(q) + 1
           /\ Append(q, n)[Len(q) + 1] = n
           /\ \A k \in 1 .. Len(q) : Append(q, n)[k] = q[k]
  OBVIOUS

\* The slabs only grow.
Grown ==
    /\ Len(slabs) <= Len(slabs')
    /\ \A k \in 1 .. Len(slabs) : slabs'[k] = slabs[k]

LEMMA AllocationPlaced ==
    ASSUME ArenaTyped, NEW n \in Nat \ {0}, ArenaAllocate(n)
    PROVE  /\ NextRegion(n) \in Regions
           /\ NextRegion(n).to = NextRegion(n).from + n
           /\ NextRegion(n).slab \in 1 .. Len(slabs')
           /\ NextRegion(n).to <= slabs'[NextRegion(n).slab]
           /\ Disjoint(NextRegion(n), ActiveRegion')
           /\ ArenaTyped'
           /\ Grown
  <1> USE ArenaAssumption DEF NextRegion, Region, Regions, ArenaTyped
  <1>0. used' \in Nat
    BY DEF ArenaAllocate
  <1>1. CASE OwnSlab(n)
    <2>1. slabs' = Append(slabs, n) /\ NextRegion(n) = Region(Len(slabs) + 1, 0, n)
      BY <1>1 DEF OwnSlab
    <2>2. slabs' \in Seq(Nat) /\ Len(slabs') = Len(slabs) + 1 /\ Grown
          /\ slabs'[Len(slabs) + 1] = n
      BY <2>1, AppendKeeps DEF Grown
    <2>3. ArenaTyped'
      BY <1>0, <1>1, <2>2 DEF OwnSlab, Grown
    <2>4. Disjoint(NextRegion(n), ActiveRegion')
      BY <1>1, <2>1 DEF OwnSlab, Disjoint, ActiveRegion
    <2> QED BY <1>1, <2>1, <2>2, <2>3, <2>4 DEF OwnSlab
  <1>2. CASE NewSlab(n)
    <2>1. slabs' = Append(slabs, SlabSize) /\ NextRegion(n) = Region(Len(slabs) + 1, 0, n)
      BY <1>2 DEF NewSlab
    <2>2. slabs' \in Seq(Nat) /\ Len(slabs') = Len(slabs) + 1 /\ Grown
          /\ slabs'[Len(slabs) + 1] = SlabSize
      BY <2>1, AppendKeeps DEF Grown
    <2>3. ArenaTyped'
      BY <1>0, <1>2, <2>2 DEF NewSlab, Grown
    <2>4. Disjoint(NextRegion(n), ActiveRegion')
      BY <1>2, <2>1, <2>2 DEF NewSlab, Disjoint, ActiveRegion
    <2> QED BY <1>2, <2>1, <2>2, <2>3, <2>4 DEF NewSlab
  <1>3. CASE ActiveSlab(n)
    <2>1. UNCHANGED slabs /\ UNCHANGED active /\ activeFree' = activeFree - n
          /\ n <= activeFree
      BY <1>3 DEF ActiveSlab
    <2>2. NextRegion(n) = Region(active, SlabSize - activeFree, SlabSize - activeFree + n)
      BY <1>3 DEF ActiveSlab
    <2>3. ArenaTyped' /\ Grown
      BY <1>0, <1>3, <2>1 DEF ActiveSlab, Grown
    <2>4. Disjoint(NextRegion(n), ActiveRegion')
      BY <2>1, <2>2 DEF Disjoint, ActiveRegion
    <2>5. CASE active # 0
      BY <2>1, <2>2, <2>3, <2>4, <2>5
    <2>6. CASE active = 0
      BY <2>1, <2>2, <2>3, <2>4, <2>6
    <2> QED BY <2>5, <2>6
  <1> QED BY <1>1, <1>2, <1>3 DEF ArenaAllocate

LEMMA Typed ==
    ASSUME TypeOK, Covered, Placed
    PROVE  ArenaTyped
  BY DEF TypeOK, Covered, Placed, ArenaTyped

-----------------------------------------------------------------------------
(* The conjuncts of the invariant, step by step.                           *)

LEMMA LockedStep ==
    ASSUME TypeOK, Locked, [Next]_vars
    PROVE  Locked'
  <1> USE ArenaAssumption DEF Locked, TypeOK, InArena, InShard, Goto, Steps
  <1>1. CASE UNCHANGED vars
    BY <1>1 DEF vars, lockVars, threadVars
  <1>2. ASSUME NEW t \in Threads, NEW n \in Sizes, Begin(t, n)
        PROVE  Locked'
    <2> DEFINE step == CASE n > SliceSize \div 4 -> "lockArena"
                         [] n <= SliceSize \div 4 /\ home[t] = NoHome -> "peek"
                         [] OTHER -> "tryShard"
    <2>1. step \in {"lockArena", "peek", "tryShard"}
      OBVIOUS
    <2>2. /\ pc[t] = "idle" /\ pc' = [pc EXCEPT ![t] = step]
          /\ UNCHANGED <<arenaLock, shardLock, mine>>
      BY <1>2 DEF Begin, lockVars
    <2> HIDE DEF step
    <2> QED BY <2>1, <2>2
  <1>3. ASSUME NEW t \in Threads, Peek(t)
        PROVE  Locked'
    BY <1>3 DEF Peek, lockVars
  <1>4. ASSUME NEW t \in Threads, TryArena(t)
        PROVE  Locked'
    <2>1. pc[t] = "tryArena" /\ UNCHANGED <<shardLock, mine>>
      BY <1>4 DEF TryArena
    <2>2. CASE arenaLock = Nobody /\ arenaLock' = t /\ pc' = [pc EXCEPT ![t] = "arena"]
      BY <2>1, <2>2
    <2>3. CASE UNCHANGED arenaLock /\ pc' = [pc EXCEPT ![t] = "tryShard"]
      BY <2>1, <2>3
    <2> QED BY <1>4, <2>2, <2>3 DEF TryArena
  <1>5. ASSUME NEW t \in Threads, LockArena(t)
        PROVE  Locked'
    BY <1>5 DEF LockArena
  <1>6. ASSUME NEW t \in Threads, FromArena(t)
        PROVE  Locked'
    BY <1>6 DEF FromArena
  <1>7. ASSUME NEW t \in Threads, TryShard(t)
        PROVE  Locked'
    <2> DEFINE s == IF home[t] = NoHome THEN 0 ELSE home[t]
    <2>1. s \in Shards /\ pc[t] = "tryShard" /\ UNCHANGED arenaLock
      BY <1>7 DEF TryShard, Shards, NoHome
    <2>2. CASE /\ shardLock[s] = Nobody
               /\ shardLock' = [shardLock EXCEPT ![s] = t]
               /\ mine' = [mine EXCEPT ![t] = s]
               /\ pc' = [pc EXCEPT ![t] = "shard"]
      <3> HIDE DEF s
      <3> QED BY <2>1, <2>2
    <2>3. CASE \E r \in Shards : /\ mine' = [mine EXCEPT ![t] = r]
                                /\ pc' = [pc EXCEPT ![t] = "lockShard"]
                                /\ UNCHANGED shardLock
      <3> HIDE DEF s
      <3> QED BY <2>1, <2>3
    <2> QED BY <1>7, <2>2, <2>3 DEF TryShard
  <1>8. ASSUME NEW t \in Threads, LockShard(t)
        PROVE  Locked'
    BY <1>8 DEF LockShard
  <1>9. ASSUME NEW t \in Threads, CheckShard(t)
        PROVE  Locked'
    BY <1>9 DEF CheckShard, lockVars
  <1>10. ASSUME NEW t \in Threads, LockRefill(t)
         PROVE  Locked'
    BY <1>10 DEF LockRefill
  <1>11. ASSUME NEW t \in Threads, Refill(t)
         PROVE  Locked'
    BY <1>11 DEF Refill
  <1>12. ASSUME NEW t \in Threads, Bump(t)
         PROVE  Locked'
    <2>1. /\ pc[t] = "bump" /\ pc' = [pc EXCEPT ![t] = "idle"]
          /\ shardLock' = [shardLock EXCEPT ![mine[t]] = Nobody]
          /\ UNCHANGED <<arenaLock, mine>>
      BY <1>12 DEF Bump
    <2> QED BY <2>1
  <1> QED
    BY <1>1, <1>2, <1>3, <1>4, <1>5, <1>6, <1>7, <1>8, <1>9, <1>10, <1>11, <1>12
    DEF Next, Step

\* Where a request goes that a thread begins.
FirstStep(t, n) == CASE n > SliceSize \div 4 -> "lockArena"
                     [] n <= SliceSize \div 4 /\ home[t] = NoHome -> "peek"
                     [] OTHER -> "tryShard"

LEMMA FirstStepType ==
    ASSUME NEW t, NEW n \in Nat
    PROVE  /\ FirstStep(t, n) \in {"lockArena", "peek", "tryShard"}
           /\ FirstStep(t, n) # "lockArena" => n <= SliceSize \div 4
  BY ArenaAssumption DEF FirstStep

\* The two steps that change the arena leave it typed.
LEMMA ArenaStep ==
    ASSUME TypeOK, Covered, Placed, NEW t \in Threads, FromArena(t) \/ Refill(t)
    PROVE  \E n \in Nat \ {0} :
               /\ ArenaAllocate(n)
               /\ n = IF pc[t] = "arena" THEN want[t] ELSE SliceTaken
               /\ pc[t] = "refill" => want[t] <= n
  <1>1. CASE FromArena(t)
    <2>1. pc[t] = "arena" /\ ArenaAllocate(want[t])
      BY <1>1 DEF FromArena
    <2>2. want[t] \in Nat \ {0}
      BY <2>1 DEF TypeOK, Covered
    <2> QED BY <2>1, <2>2
  <1>2. CASE Refill(t)
    <2>1. pc[t] = "refill" /\ ArenaAllocate(SliceTaken)
      BY <1>2 DEF Refill
    <2>2. want[t] \in Nat \ {0} /\ want[t] <= SliceSize \div 4
      BY <2>1 DEF TypeOK, Covered, ToShard, InShard
    <2>3. SliceTaken \in Nat /\ SliceSize \div 4 <= SliceTaken
      BY SliceSuffices
    <2>4. SliceSize \div 4 \in Nat
      BY ArenaAssumption
    <2>5. SliceTaken \in Nat \ {0} /\ want[t] <= SliceTaken
      BY <2>2, <2>3, <2>4
    <2> QED BY <2>1, <2>5
  <1> QED BY <1>1, <1>2

LEMMA CoveredStep ==
    ASSUME TypeOK, Covered, Placed, [Next]_vars
    PROVE  Covered'
  <1> USE ArenaAssumption DEF TypeOK, Covered, ToShard, InShard, Goto, arenaVars
  <1>1. CASE UNCHANGED vars
    BY <1>1 DEF vars, threadVars
  <1>2. ASSUME NEW t \in Threads, NEW n \in Sizes, Begin(t, n)
        PROVE  Covered'
    <2>1. /\ n \in Nat \ {0}
          /\ pc' = [pc EXCEPT ![t] = FirstStep(t, n)]
          /\ want' = [want EXCEPT ![t] = n]
          /\ UNCHANGED <<avail, activeFree, unused>>
      BY <1>2 DEF Begin, FirstStep
    <2>2. /\ FirstStep(t, n) \in {"lockArena", "peek", "tryShard"}
          /\ FirstStep(t, n) # "lockArena" => n <= SliceSize \div 4
      BY <2>1, FirstStepType
    <2> QED BY <2>1, <2>2
  <1>3. ASSUME NEW t \in Threads, Peek(t)
        PROVE  Covered'
    BY <1>3 DEF Peek
  <1>4. ASSUME NEW t \in Threads, TryArena(t)
        PROVE  Covered'
    <2>1. /\ pc[t] = "tryArena" /\ UNCHANGED <<want, avail, activeFree, unused>>
          /\ pc' = [pc EXCEPT ![t] = "arena"] \/ pc' = [pc EXCEPT ![t] = "tryShard"]
      BY <1>4 DEF TryArena
    <2> QED BY <2>1
  <1>5. ASSUME NEW t \in Threads, LockArena(t)
        PROVE  Covered'
    BY <1>5 DEF LockArena
  <1>6. ASSUME NEW t \in Threads, FromArena(t)
        PROVE  Covered'
    <2>1. /\ pc' = [pc EXCEPT ![t] = "idle"] /\ UNCHANGED <<want, avail>>
      BY <1>6 DEF FromArena
    <2>2. activeFree' <= unused'
      BY <1>6, ArenaStep, Typed, AllocationPlaced DEF ArenaTyped
    <2> QED BY <2>1, <2>2
  <1>7. ASSUME NEW t \in Threads, TryShard(t)
        PROVE  Covered'
    <2>1. /\ pc[t] = "tryShard" /\ UNCHANGED <<want, avail, activeFree, unused>>
          /\ pc' = [pc EXCEPT ![t] = "shard"] \/ pc' = [pc EXCEPT ![t] = "lockShard"]
      BY <1>7 DEF TryShard
    <2> QED BY <2>1
  <1>8. ASSUME NEW t \in Threads, LockShard(t)
        PROVE  Covered'
    BY <1>8 DEF LockShard
  <1>9. ASSUME NEW t \in Threads, CheckShard(t)
        PROVE  Covered'
    <2>1. /\ pc[t] = "shard" /\ UNCHANGED <<want, activeFree, unused>>
          /\ left[mine[t]] \in Nat
          /\ avail' = [avail EXCEPT ![t] = left[mine[t]]]
          /\ pc' = [pc EXCEPT ![t] = IF left[mine[t]] < want[t] THEN "lockRefill" ELSE "bump"]
      BY <1>9 DEF CheckShard
    <2> QED BY <2>1
  <1>10. ASSUME NEW t \in Threads, LockRefill(t)
         PROVE  Covered'
    BY <1>10 DEF LockRefill
  <1>11. ASSUME NEW t \in Threads, Refill(t)
         PROVE  Covered'
    <2>1. /\ pc[t] = "refill" /\ UNCHANGED want
          /\ pc' = [pc EXCEPT ![t] = "bump"] /\ avail' = [avail EXCEPT ![t] = SliceTaken]
      BY <1>11 DEF Refill
    <2>2. PICK n \in Nat \ {0} : ArenaAllocate(n) /\ n = SliceTaken /\ want[t] <= n
      <3>1. pc[t] # "arena"
        BY <2>1
      <3> HIDE DEF TypeOK, Covered
      <3> QED BY <1>11, <2>1, <3>1, ArenaStep
    <2>3. ArenaTyped'
      BY <2>2, Typed, AllocationPlaced
    <2>4. activeFree' <= unused' /\ want[t] <= SliceTaken
      BY <2>2, <2>3 DEF ArenaTyped
    <2> QED BY <2>1, <2>4
  <1>12. ASSUME NEW t \in Threads, Bump(t)
         PROVE  Covered'
    BY <1>12 DEF Bump
  <1> QED
    BY <1>1, <1>2, <1>3, <1>4, <1>5, <1>6, <1>7, <1>8, <1>9, <1>10, <1>11, <1>12
    DEF Next, Step

LEMMA LenTypes ==
  /\ ArenaTyped => Len(slabs) \in Nat
  /\ ArenaTyped' => Len(slabs') \in Nat
  BY DEF ArenaTyped

LEMMA PlacedStep ==
    ASSUME TypeOK, Covered, Placed, [Next]_vars
    PROVE  Placed'
  <1>1. ASSUME UNCHANGED <<slabs, active, activeFree>>,
               \A s \in Shards : begin'[s].slab = begin[s].slab
        PROVE  Placed'
    BY <1>1 DEF Placed
  <1>2. ASSUME NEW t \in Threads, FromArena(t)
        PROVE  Placed'
    <2>1. UNCHANGED begin
      BY <1>2 DEF FromArena, shardVars
    <2>2. ArenaTyped' /\ Len(slabs) <= Len(slabs')
      BY <1>2, ArenaStep, Typed, AllocationPlaced DEF Grown
    <2>3. ASSUME NEW s \in Shards
          PROVE  begin'[s].slab <= Len(slabs')
      <3>1. begin[s].slab <= Len(slabs)
        BY DEF Placed
      <3>2. begin[s].slab \in Nat /\ Len(slabs) \in Nat /\ Len(slabs') \in Nat
        BY <2>2, Typed, LenTypes DEF TypeOK, Regions
      <3> QED BY <2>1, <2>2, <3>1, <3>2
    <2> QED BY <2>2, <2>3 DEF Placed, ArenaTyped
  <1>3. ASSUME NEW t \in Threads, Refill(t)
        PROVE  Placed'
    <2>1. /\ begin' = [begin EXCEPT ![mine[t]] = NextRegion(SliceTaken)]
          /\ pc[t] = "refill"
      BY <1>3 DEF Refill
    <2>2. /\ ArenaTyped' /\ Len(slabs) <= Len(slabs')
          /\ NextRegion(SliceTaken).slab \in 1 .. Len(slabs')
      BY <1>3, <2>1, ArenaStep, Typed, AllocationPlaced DEF Grown
    <2>3. ASSUME NEW s \in Shards
          PROVE  begin'[s].slab <= Len(slabs')
      <3>1. begin[s].slab \in Nat /\ begin[s].slab <= Len(slabs) /\ Len(slabs) \in Nat
            /\ Len(slabs') \in Nat
        BY <2>2, Typed, LenTypes DEF Placed, TypeOK, Regions
      <3>2. begin'[s] = IF s = mine[t] THEN NextRegion(SliceTaken) ELSE begin[s]
        BY <2>1 DEF TypeOK
      <3> QED BY <2>2, <3>1, <3>2
    <2> QED BY <2>2, <2>3 DEF Placed, ArenaTyped
  <1>4. ASSUME NEW t \in Threads, Bump(t)
        PROVE  Placed'
    <2>1. \A s \in Shards : begin'[s].slab = begin[s].slab
      BY <1>4 DEF Bump, TypeOK, Regions
    <2>2. UNCHANGED <<slabs, active, activeFree>>
      BY <1>4 DEF Bump, arenaVars
    <2> QED BY <1>1, <2>1, <2>2
  <1>5. ASSUME UNCHANGED <<arenaVars, shardVars>>
        PROVE  Placed'
    BY <1>5, <1>1 DEF arenaVars, shardVars
  <1> QED
    BY <1>2, <1>3, <1>4, <1>5
    DEF Next, Step, vars, Begin, Peek, TryArena, LockArena, TryShard, LockShard,
        CheckShard, LockRefill

LEMMA TypeStep ==
    ASSUME TypeOK, Covered, Placed, [Next]_vars
    PROVE  TypeOK'
  <1> USE ArenaAssumption DEF TypeOK, Goto, Steps, Region, Regions
  <1>1. CASE UNCHANGED vars
    BY <1>1 DEF vars, arenaVars, lockVars, shardVars, threadVars
  <1>2. ASSUME NEW t \in Threads, NEW n \in Sizes, Begin(t, n)
        PROVE  TypeOK'
    <2>1. /\ n \in Nat /\ pc' = [pc EXCEPT ![t] = FirstStep(t, n)]
          /\ want' = [want EXCEPT ![t] = n]
          /\ UNCHANGED <<arenaVars, lockVars, shardVars, home, mine, avail, given>>
      BY <1>2 DEF Begin, FirstStep
    <2>2. FirstStep(t, n) \in Steps
      BY <2>1, FirstStepType
    <2> QED BY <2>1, <2>2 DEF arenaVars, lockVars, shardVars
  <1>3. ASSUME NEW t \in Threads, Peek(t)
        PROVE  TypeOK'
    BY <1>3 DEF Peek, arenaVars, lockVars, shardVars
  <1>4. ASSUME NEW t \in Threads, TryArena(t)
        PROVE  TypeOK'
    BY <1>4 DEF TryArena, arenaVars, shardVars
  <1>5. ASSUME NEW t \in Threads, LockArena(t)
        PROVE  TypeOK'
    BY <1>5 DEF LockArena, arenaVars, shardVars
  <1>6. ASSUME NEW t \in Threads, FromArena(t)
        PROVE  TypeOK'
    <2>1. PICK n \in Nat \ {0} : ArenaAllocate(n) /\ n = want[t]
      BY <1>6, ArenaStep DEF FromArena
    <2>2. ArenaTyped' /\ NextRegion(want[t]) \in Regions
      BY <2>1, Typed, AllocationPlaced
    <2>3. /\ given' = Append(given, NextRegion(want[t])) /\ arenaLock' = Nobody
          /\ pc' = [pc EXCEPT ![t] = "idle"]
          /\ UNCHANGED <<shardLock, shardVars, want, home, mine, avail>>
      BY <1>6 DEF FromArena
    <2>4. given' \in Seq(Regions)
      BY <2>2, <2>3
    <2> QED BY <2>2, <2>3, <2>4 DEF ArenaTyped, shardVars
  <1>7. ASSUME NEW t \in Threads, TryShard(t)
        PROVE  TypeOK'
    <2>1. UNCHANGED <<arenaVars, arenaLock, shardVars, want, avail, given>>
      BY <1>7 DEF TryShard
    <2> DEFINE s == IF home[t] = NoHome THEN 0 ELSE home[t]
    <2>2. s \in Shards
      <3>1. 0 \in Shards
        BY DEF Shards
      <3>2. home[t] \in Shards \cup {NoHome}
        OBVIOUS
      <3> QED BY <3>1, <3>2
    <2>3. CASE /\ shardLock' = [shardLock EXCEPT ![s] = t]
               /\ mine' = [mine EXCEPT ![t] = s]
               /\ pc' = [pc EXCEPT ![t] = "shard"] /\ UNCHANGED home
      <3>1. /\ shardLock' \in [Shards -> Threads \cup {Nobody}]
            /\ mine' \in [Threads -> Shards] /\ pc' \in [Threads -> Steps]
        BY <2>2, <2>3
      <3>2. UNCHANGED <<arenaVars, arenaLock, shardVars, want, home, avail, given>>
        BY <2>1, <2>3
      <3> HIDE DEF s, Steps, Regions
      <3> QED BY <3>1, <3>2 DEF arenaVars, shardVars
    <2>4. CASE \E r \in Shards : /\ home' = [home EXCEPT ![t] = r]
                                /\ mine' = [mine EXCEPT ![t] = r]
                                /\ pc' = [pc EXCEPT ![t] = "lockShard"]
                                /\ UNCHANGED shardLock
      <3>1. /\ home' \in [Threads -> Shards \cup {NoHome}]
            /\ mine' \in [Threads -> Shards] /\ pc' \in [Threads -> Steps]
        BY <2>4
      <3>2. UNCHANGED <<arenaVars, lockVars, shardVars, want, avail, given>>
        BY <2>1, <2>4 DEF lockVars
      <3> HIDE DEF s, Steps, Regions
      <3> QED BY <3>1, <3>2 DEF arenaVars, lockVars, shardVars
    <2> QED BY <1>7, <2>3, <2>4 DEF TryShard
  <1>8. ASSUME NEW t \in Threads, LockShard(t)
        PROVE  TypeOK'
    BY <1>8 DEF LockShard, arenaVars, shardVars
  <1>9. ASSUME NEW t \in Threads, CheckShard(t)
        PROVE  TypeOK'
    BY <1>9 DEF CheckShard, arenaVars, lockVars, shardVars
  <1>10. ASSUME NEW t \in Threads, LockRefill(t)
         PROVE  TypeOK'
    BY <1>10 DEF LockRefill, arenaVars, shardVars
  <1>11. ASSUME NEW t \in Threads, Refill(t)
         PROVE  TypeOK'
    <2>1. PICK n \in Nat \ {0} : ArenaAllocate(n) /\ n = SliceTaken
      BY <1>11, ArenaStep DEF Refill
    <2>2. ArenaTyped' /\ NextRegion(SliceTaken) \in Regions
      BY <2>1, Typed, AllocationPlaced
    <2>3. /\ begin' = [begin EXCEPT ![mine[t]] = NextRegion(SliceTaken)]
          /\ avail' = [avail EXCEPT ![t] = SliceTaken] /\ arenaLock' = Nobody
          /\ pc' = [pc EXCEPT ![t] = "bump"]
          /\ UNCHANGED <<shardLock, left, want, home, mine, given>>
      BY <1>11 DEF Refill
    <2>4. SliceTaken \in Nat
      BY <2>1
    <2> QED BY <2>2, <2>3, <2>4 DEF ArenaTyped
  <1>12. ASSUME NEW t \in Threads, Bump(t)
         PROVE  TypeOK'
    <2> DEFINE b == begin[mine[t]]
               r == [slab |-> b.slab, from |-> b.from, to |-> b.from + want[t]]
    <2>1. /\ pc[t] = "bump" /\ pc' = [pc EXCEPT ![t] = "idle"]
          /\ left' = [left EXCEPT ![mine[t]] = avail[t] - want[t]]
          /\ begin' = [begin EXCEPT ![mine[t]].from = @ + want[t]]
          /\ shardLock' = [shardLock EXCEPT ![mine[t]] = Nobody]
          /\ given' = Append(given, r)
          /\ UNCHANGED <<arenaVars, arenaLock, want, home, mine, avail>>
      BY <1>12 DEF Bump
    <2>2. avail[t] - want[t] \in Nat
      <3>1. want[t] <= avail[t]
        BY <2>1 DEF Covered
      <3> QED BY <3>1
    <2>3. b.from + want[t] \in Nat /\ r \in Regions /\ mine[t] \in Shards
      <3>1. want[t] \in Nat /\ mine[t] \in Shards
        OBVIOUS
      <3>2. b.slab \in Nat /\ b.from \in Nat
        BY <3>1
      <3> HIDE DEF TypeOK, b
      <3> QED BY <3>1, <3>2
    <2>4. given' \in Seq(Regions)
      BY <2>1, <2>3
    <2>5. begin' \in [Shards -> Regions] /\ left' \in [Shards -> Nat]
      BY <2>1, <2>2, <2>3
    <2> QED BY <2>1, <2>4, <2>5 DEF arenaVars
  <1> QED
    BY <1>1, <1>2, <1>3, <1>4, <1>5, <1>6, <1>7, <1>8, <1>9, <1>10, <1>11, <1>12
    DEF Next, Step

-----------------------------------------------------------------------------
(* NoOverlap.                                                              *)

LEMMA ShardFreeIs ==
    ASSUME TypeOK, NEW s \in Shards
    PROVE  /\ FreeOf(s) \in Nat
           /\ ShardFree(s) = [slab |-> begin[s].slab, from |-> begin[s].from,
                              to |-> begin[s].from + FreeOf(s)]
           /\ ShardFree(s) \in Regions
  <1>1. FreeOf(s) \in Nat
    BY DEF FreeOf, TypeOK
  <1>2. ShardFree(s) = [slab |-> begin[s].slab, from |-> begin[s].from,
                        to |-> begin[s].from + FreeOf(s)]
    BY DEF ShardFree, FreeOf, Region
  <1>3. begin[s] \in Regions
    BY DEF TypeOK
  <1>4. begin[s].slab \in Nat /\ begin[s].from \in Nat
    BY <1>3 DEF Regions
  <1> HIDE DEF TypeOK
  <1> QED BY <1>1, <1>2, <1>4 DEF Regions

\* The same of the next state.
LEMMA ShardFreeNext ==
    ASSUME TypeOK', NEW s \in Shards
    PROVE  /\ FreeOf(s)' \in Nat
           /\ ShardFree(s)' = [slab |-> begin'[s].slab, from |-> begin'[s].from,
                               to |-> begin'[s].from + FreeOf(s)']
           /\ ShardFree(s)' \in Regions
  <1>1. FreeOf(s)' \in Nat
    BY DEF FreeOf, TypeOK
  <1>2. ShardFree(s)' = [slab |-> begin'[s].slab, from |-> begin'[s].from,
                         to |-> begin'[s].from + FreeOf(s)']
    BY DEF ShardFree, FreeOf, Region
  <1>3. begin'[s].slab \in Nat /\ begin'[s].from \in Nat
    BY DEF TypeOK, Regions
  <1> QED BY <1>1, <1>2, <1>3 DEF Regions

\* A step of a thread leaves alone what every shard has, but its own shard's
\* when it refills that or takes from it.
LEMMA FreeSame ==
    ASSUME TypeOK, Locked, NEW t \in Threads, NEW s \in Shards,
           Step(t) \/ \E n \in Sizes : Begin(t, n),
           ~((Refill(t) \/ Bump(t)) /\ s = mine[t])
    PROVE  FreeOf(s)' = FreeOf(s) /\ begin'[s] = begin[s]
  <1> USE ArenaAssumption DEF TypeOK, Locked, Goto, InShard, InArena
  <1>1. ASSUME UNCHANGED <<shardLock, begin, left, avail>>, pc[t] \notin InShard,
               NEW step, pc' = [pc EXCEPT ![t] = step]
        PROVE  FreeOf(s)' = FreeOf(s) /\ begin'[s] = begin[s]
    <2>1. shardLock[s] # t
      BY <1>1
    <2> QED BY <1>1, <2>1 DEF FreeOf
  <1>2. ASSUME NEW n \in Sizes, Begin(t, n)
        PROVE  FreeOf(s)' = FreeOf(s) /\ begin'[s] = begin[s]
    <2>1. /\ pc[t] = "idle" /\ pc' = [pc EXCEPT ![t] = FirstStep(t, n)]
          /\ UNCHANGED <<shardLock, begin, left, avail>>
      BY <1>2 DEF Begin, FirstStep, lockVars, shardVars
    <2>2. pc[t] \notin InShard
      BY <2>1
    <2> HIDE DEF TypeOK, Locked
    <2> QED BY <1>1, <2>1, <2>2
  <1>3. CASE Peek(t) \/ TryArena(t) \/ LockArena(t) \/ FromArena(t)
    <2>1. /\ \E step \in {"tryArena", "tryShard", "arena", "idle"} :
                 pc' = [pc EXCEPT ![t] = step]
          /\ pc[t] \in {"peek", "tryArena", "lockArena", "arena"}
          /\ UNCHANGED <<shardLock, begin, left, avail>>
      BY <1>3 DEF Peek, TryArena, LockArena, FromArena, lockVars, shardVars
    <2>2. pc[t] \notin InShard
      BY <2>1
    <2> HIDE DEF TypeOK, Locked
    <2> QED BY <1>1, <2>1, <2>2
  <1>7. CASE TryShard(t)
    <2>1. /\ pc[t] = "tryShard" /\ UNCHANGED <<begin, left, avail>>
          /\ \E step \in {"shard", "lockShard"} : pc' = [pc EXCEPT ![t] = step]
      BY <1>7 DEF TryShard, shardVars
    <2>2. CASE UNCHANGED shardLock
      <3>1. pc[t] \notin InShard
        BY <2>1
      <3> HIDE DEF TypeOK, Locked
      <3> QED BY <1>1, <2>1, <2>2, <3>1
    <2>3. CASE \E r \in Shards : /\ shardLock[r] = Nobody
                                /\ shardLock' = [shardLock EXCEPT ![r] = t]
                                /\ pc' = [pc EXCEPT ![t] = "shard"]
      BY <2>1, <2>3 DEF FreeOf
    <2>4. (IF home[t] = NoHome THEN 0 ELSE home[t]) \in Shards
      <3>1. 0 \in Shards
        BY DEF Shards
      <3>2. home[t] \in Shards \cup {NoHome}
        OBVIOUS
      <3> QED BY <3>1, <3>2
    <2> QED BY <1>7, <2>2, <2>3, <2>4 DEF TryShard
  <1>8. CASE LockShard(t)
    BY <1>8 DEF LockShard, FreeOf, shardVars
  <1>9. CASE CheckShard(t)
    BY <1>9 DEF CheckShard, FreeOf, shardVars, lockVars
  <1>10. CASE LockRefill(t)
    BY <1>10 DEF LockRefill, FreeOf, shardVars
  <1>11. CASE Refill(t)
    BY <1>11 DEF Refill, FreeOf
  <1>12. CASE Bump(t)
    <2>1. /\ pc[t] = "bump" /\ mine[t] # s
          /\ pc' = [pc EXCEPT ![t] = "idle"]
          /\ left' = [left EXCEPT ![mine[t]] = avail[t] - want[t]]
          /\ begin' = [begin EXCEPT ![mine[t]].from = @ + want[t]]
          /\ shardLock' = [shardLock EXCEPT ![mine[t]] = Nobody]
          /\ UNCHANGED avail
      BY <1>12 DEF Bump
    <2>2. shardLock[s] # t
      BY <2>1
    <2>3. /\ shardLock'[s] = shardLock[s] /\ left'[s] = left[s] /\ begin'[s] = begin[s]
          /\ shardLock[s] # Nobody => pc'[shardLock[s]] = pc[shardLock[s]]
      BY <2>1, <2>2
    <2>4. UNCHANGED avail
      BY <2>1
    <2> HIDE DEF TypeOK, Locked
    <2> QED BY <2>3, <2>4 DEF FreeOf
  <1> QED
    BY <1>2, <1>3, <1>7, <1>8, <1>9, <1>10, <1>11, <1>12 DEF Step

LEMMA DisjointSwap ==
    ASSUME NEW r, NEW q
    PROVE  Disjoint(r, q) <=> Disjoint(q, r)
  BY DEF Disjoint

LEMMA ActiveIs ==
    ASSUME ArenaTyped
    PROVE  ActiveRegion = [slab |-> active, from |-> SlabSize - activeFree, to |-> SlabSize]
  BY DEF ActiveRegion, Region

\* What is known of a region when the arena allocates another.
LEMMA StaysApart ==
    ASSUME TypeOK, Covered, Placed, NoOverlap, NEW n \in Nat \ {0}, ArenaAllocate(n)
    PROVE  /\ \A i \in DOMAIN given : /\ Disjoint(given[i], NextRegion(n))
                                      /\ Disjoint(ActiveRegion', given[i])
           /\ \A s \in Shards : /\ Disjoint(ShardFree(s), NextRegion(n))
                                /\ Disjoint(ShardFree(s), ActiveRegion')
  <1>1. ASSUME NEW i \in DOMAIN given
        PROVE  /\ Disjoint(given[i], NextRegion(n))
               /\ Disjoint(ActiveRegion', given[i])
    <2>1. given[i] \in Regions
      BY DEF TypeOK
    <2>2. given[i].slab <= Len(slabs) /\ Disjoint(given[i], ActiveRegion)
      BY DisjointSwap, Typed DEF NoOverlap, InSlab, ArenaTyped
    <2> QED BY <2>1, <2>2, Allocation, DisjointSwap
  <1>2. ASSUME NEW s \in Shards
        PROVE  /\ Disjoint(ShardFree(s), NextRegion(n))
               /\ Disjoint(ShardFree(s), ActiveRegion')
    <2>1. ShardFree(s) \in Regions /\ ShardFree(s).slab <= Len(slabs)
      BY ShardFreeIs DEF Placed
    <2>2. Disjoint(ShardFree(s), ActiveRegion)
      BY DEF NoOverlap
    <2> QED BY <2>1, <2>2, Allocation
  <1> QED BY <1>1, <1>2

LEMMA QuietStep ==
    ASSUME TypeOK, TypeOK', NoOverlap, Inside,
           UNCHANGED <<slabs, active, activeFree, given>>,
           \A s \in Shards : FreeOf(s)' = FreeOf(s) /\ begin'[s] = begin[s]
    PROVE  NoOverlap' /\ Inside'
  <1>1. ASSUME NEW s \in Shards
        PROVE  ShardFree(s)' = ShardFree(s)
    BY ShardFreeIs, ShardFreeNext
  <1>2. ActiveRegion' = ActiveRegion
    BY DEF ActiveRegion, Region
  <1> QED BY <1>1, <1>2 DEF NoOverlap, Inside, InSlab

\* A region within one that has a property of these has it.
LEMMA Within ==
    ASSUME NEW r \in Regions, NEW q \in Regions, NEW x \in Regions,
           r.slab = q.slab, q.from <= r.from, r.to <= q.to, Disjoint(q, x)
    PROVE  Disjoint(r, x)
  BY DEF Disjoint, Regions

LEMMA InSlabIs ==
    ASSUME NEW q \in Seq(Nat), NEW x
    PROVE  x \in DOMAIN q <=> x \in 1 .. Len(q)
  OBVIOUS

LEMMA InSlabGrown ==
    ASSUME ArenaTyped, ArenaTyped', Grown, NEW x, InSlab(x)
    PROVE  x.slab \in DOMAIN slabs' /\ x.to <= slabs'[x.slab]
  <1>1. x.slab \in 1 .. Len(slabs) /\ x.to <= slabs[x.slab]
    BY InSlabIs DEF ArenaTyped, InSlab
  <1>2. x.slab \in 1 .. Len(slabs') /\ slabs'[x.slab] = slabs[x.slab]
    BY <1>1, LenTypes DEF Grown
  <1>3. slabs' \in Seq(Nat)
    BY DEF ArenaTyped
  <1> QED BY <1>1, <1>2, <1>3, InSlabIs

LEMMA FromArenaStep ==
    ASSUME IInv, TypeOK', NEW t \in Threads, FromArena(t)
    PROVE  NoOverlap' /\ Inside'
  <1> USE DEF IInv
  <1> DEFINE r == NextRegion(want[t])
  <1>1. want[t] \in Nat \ {0} /\ ArenaAllocate(want[t])
    BY ArenaStep DEF FromArena
  <1>2. /\ r \in Regions /\ r.slab \in 1 .. Len(slabs') /\ r.to <= slabs'[r.slab]
        /\ Disjoint(r, ActiveRegion') /\ ArenaTyped' /\ Grown
    BY <1>1, Typed, AllocationPlaced
  <1>3. /\ \A i \in DOMAIN given : Disjoint(given[i], r) /\ Disjoint(ActiveRegion', given[i])
        /\ \A s \in Shards : Disjoint(ShardFree(s), r) /\ Disjoint(ShardFree(s), ActiveRegion')
    BY <1>1, StaysApart
  <1>4. ASSUME NEW s \in Shards
        PROVE  ShardFree(s)' = ShardFree(s) /\ FreeOf(s)' = FreeOf(s)
    <2>1. pc[t] = "arena"
      BY DEF FromArena
    <2>2. ~Refill(t) /\ ~Bump(t)
      BY <2>1 DEF Refill, Bump
    <2>3. FreeOf(s)' = FreeOf(s) /\ begin'[s] = begin[s]
      BY <2>2, FreeSame DEF Step
    <2> QED BY <2>3, ShardFreeIs, ShardFreeNext
  <1>5. given' = Append(given, r) /\ given \in Seq(Regions)
    BY DEF FromArena, TypeOK
  <1> HIDE DEF r, IInv
  <1>6. /\ DOMAIN given' = DOMAIN given \cup {Len(given) + 1}
        /\ \A i \in DOMAIN given : i # Len(given) + 1 /\ given'[i] = given[i]
        /\ given'[Len(given) + 1] = r
    BY <1>2, <1>5
  <1>7. ASSUME NEW x, InSlab(x)
        PROVE  InSlab(x)'
    <2>1. ArenaTyped
      BY Typed DEF IInv
    <2> QED BY <1>2, <1>7, <2>1, InSlabGrown DEF InSlab
  <1>8. r.slab \in DOMAIN slabs' /\ r.to <= slabs'[r.slab]
    <2>1. slabs' \in Seq(Nat)
      BY <1>2 DEF ArenaTyped
    <2> QED BY <1>2, <2>1, InSlabIs
  <1>9. NoOverlap /\ Inside
    BY DEF IInv
  <1>10. Inside'
    BY <1>4, <1>7, <1>9 DEF Inside, InSlab
  <1>11. \A i, j \in DOMAIN given' : i # j => Disjoint(given'[i], given'[j])
    BY <1>3, <1>6, <1>9, DisjointSwap DEF NoOverlap
  <1>12. \A i \in DOMAIN given' :
             InSlab(given[i])' /\ Disjoint(ActiveRegion', given'[i])
    BY <1>2, <1>3, <1>6, <1>7, <1>8, <1>9, DisjointSwap DEF NoOverlap, InSlab
  <1>13. \A s \in Shards : Disjoint(ShardFree(s)', ActiveRegion')
    BY <1>3, <1>4
  <1>14. \A s \in Shards, i \in DOMAIN given' : Disjoint(ShardFree(s)', given'[i])
    BY <1>3, <1>4, <1>6, <1>9 DEF NoOverlap
  <1>15. \A s, u \in Shards : s # u => Disjoint(ShardFree(s)', ShardFree(u)')
    BY <1>4, <1>9 DEF NoOverlap
  <1> QED BY <1>10, <1>11, <1>12, <1>13, <1>14, <1>15 DEF NoOverlap, Disjoint

LEMMA RefillStep ==
    ASSUME IInv, TypeOK', Locked', NEW t \in Threads, Refill(t)
    PROVE  NoOverlap' /\ Inside'
  <1> USE DEF IInv
  <1>1. SliceTaken \in Nat \ {0} /\ ArenaAllocate(SliceTaken)
    BY ArenaStep DEF Refill
  <1>m. PICK m \in Shards : m = mine[t]
    BY DEF TypeOK
  <1>r. PICK r \in Regions : r = NextRegion(SliceTaken)
    BY <1>1, Typed, AllocationPlaced
  <1>2. /\ r.slab \in 1 .. Len(slabs') /\ r.to <= slabs'[r.slab]
        /\ r.to = r.from + SliceTaken
        /\ Disjoint(r, ActiveRegion') /\ ArenaTyped' /\ Grown
    BY <1>1, <1>r, Typed, AllocationPlaced
  <1>3. /\ \A i \in DOMAIN given : Disjoint(given[i], r) /\ Disjoint(ActiveRegion', given[i])
        /\ \A s \in Shards : Disjoint(ShardFree(s), r) /\ Disjoint(ShardFree(s), ActiveRegion')
    BY <1>1, <1>r, StaysApart
  <1>4. ASSUME NEW s \in Shards, s # m
        PROVE  ShardFree(s)' = ShardFree(s) /\ FreeOf(s)' = FreeOf(s)
    <2>1. FreeOf(s)' = FreeOf(s) /\ begin'[s] = begin[s]
      BY <1>4, <1>m, FreeSame DEF Step
    <2> QED BY <2>1, ShardFreeIs, ShardFreeNext
  <1>5. pc[t] = "refill" /\ UNCHANGED given /\ shardLock[m] = t
    BY <1>m DEF Refill, TypeOK, Locked, InShard
  <1>6. ShardFree(m)' = r
    <2>1. /\ pc' = [pc EXCEPT ![t] = "bump"] /\ avail' = [avail EXCEPT ![t] = SliceTaken]
          /\ begin' = [begin EXCEPT ![m] = r] /\ UNCHANGED shardLock
      BY <1>m, <1>r DEF Refill, Goto
    <2>2. begin'[m] = r
      BY <1>5, <2>1 DEF TypeOK
    <2>3. pc'[t] = "bump" /\ avail'[t] = SliceTaken /\ shardLock'[m] = t
      BY <1>5, <2>1 DEF TypeOK
    <2>4. t # Nobody
      BY ArenaAssumption
    <2> HIDE DEF IInv
    <2>5. FreeOf(m)' = SliceTaken
      BY <1>5, <2>1, <2>3, <2>4 DEF FreeOf
    <2> QED BY <1>2, <1>5, <2>1, <2>2, <2>5, ShardFreeNext DEF Regions
  <1> HIDE DEF IInv
  <1>7. ASSUME NEW x, InSlab(x)
        PROVE  InSlab(x)'
    <2>1. ArenaTyped
      BY Typed DEF IInv
    <2> QED BY <1>2, <1>7, <2>1, InSlabGrown DEF InSlab
  <1>8. r.slab \in DOMAIN slabs' /\ r.to <= slabs'[r.slab]
    <2>1. slabs' \in Seq(Nat)
      BY <1>2 DEF ArenaTyped
    <2> QED BY <1>2, <2>1, InSlabIs
  <1>9. NoOverlap /\ Inside
    BY DEF IInv
  <1>10. Inside'
    <2>1. ASSUME NEW s \in Shards, s # m, FreeOf(s)' # 0
          PROVE  InSlab(ShardFree(s))'
      BY <1>4, <1>7, <1>9, <2>1 DEF Inside, InSlab
    <2>2. InSlab(ShardFree(m))'
      BY <1>6, <1>8 DEF InSlab
    <2> QED BY <2>1, <2>2 DEF Inside, InSlab
  <1>11. \A i, j \in DOMAIN given' : i # j => Disjoint(given'[i], given'[j])
    BY <1>5, <1>9 DEF NoOverlap
  <1>12. \A i \in DOMAIN given' :
             InSlab(given[i])' /\ Disjoint(ActiveRegion', given'[i])
    BY <1>3, <1>5, <1>7, <1>9 DEF NoOverlap, InSlab
  <1>13. \A s \in Shards : Disjoint(ShardFree(s)', ActiveRegion')
    BY <1>2, <1>3, <1>4, <1>6
  <1>14. \A s \in Shards, i \in DOMAIN given' : Disjoint(ShardFree(s)', given'[i])
    BY <1>3, <1>4, <1>5, <1>6, <1>9, DisjointSwap DEF NoOverlap
  <1>15. \A s, u \in Shards : s # u => Disjoint(ShardFree(s)', ShardFree(u)')
    BY <1>3, <1>4, <1>5, <1>6, <1>9, DisjointSwap DEF NoOverlap
  <1> QED BY <1>10, <1>11, <1>12, <1>13, <1>14, <1>15 DEF NoOverlap, Disjoint

LEMMA BumpStep ==
    ASSUME IInv, TypeOK', NEW t \in Threads, Bump(t)
    PROVE  NoOverlap' /\ Inside'
  <1> USE DEF IInv
  <1>m. PICK m \in Shards : m = mine[t]
    BY DEF TypeOK
  <1>1. /\ pc[t] = "bump" /\ shardLock[m] = t /\ t # Nobody
        /\ want[t] \in Nat \ {0} /\ avail[t] \in Nat /\ want[t] <= avail[t]
        /\ begin[m] \in Regions
    <2>1. pc[t] = "bump"
      BY DEF Bump
    <2>2. shardLock[m] = t
      BY <1>m, <2>1 DEF Locked, InShard
    <2>3. t # Nobody
      BY ArenaAssumption
    <2>4. want[t] # 0 /\ want[t] <= avail[t]
      BY <2>1 DEF Covered
    <2>5. want[t] \in Nat /\ avail[t] \in Nat /\ begin[m] \in Regions
      BY DEF TypeOK
    <2> QED BY <2>1, <2>2, <2>3, <2>4, <2>5
  <1>2. FreeOf(m) = avail[t]
    BY <1>1 DEF FreeOf
  <1>q. PICK q \in Regions : q = ShardFree(m)
    BY ShardFreeIs
  <1>3. q = [slab |-> begin[m].slab, from |-> begin[m].from, to |-> begin[m].from + avail[t]]
    BY <1>2, <1>q, ShardFreeIs
  <1>r. PICK r \in Regions : r = [slab |-> begin[m].slab, from |-> begin[m].from,
                                 to |-> begin[m].from + want[t]]
    <2>1. /\ begin[m].slab \in Nat /\ begin[m].from \in Nat
          /\ begin[m].from + want[t] \in Nat
      BY <1>1 DEF Regions
    <2> HIDE DEF IInv
    <2> QED BY <2>1 DEF Regions
  <1>4. /\ given' = Append(given, r) /\ UNCHANGED <<slabs, active, activeFree>>
        /\ left' = [left EXCEPT ![m] = avail[t] - want[t]]
        /\ begin' = [begin EXCEPT ![m].from = @ + want[t]]
        /\ shardLock' = [shardLock EXCEPT ![m] = Nobody]
    BY <1>m, <1>r DEF Bump, Region, arenaVars
  <1>5. /\ begin'[m].slab = begin[m].slab /\ begin'[m].from = begin[m].from + want[t]
        /\ shardLock'[m] = Nobody /\ left'[m] = avail[t] - want[t]
    BY <1>4 DEF TypeOK, Regions
  <1>6. FreeOf(m)' = avail[t] - want[t]
    BY <1>5 DEF FreeOf
  <1>7. ShardFree(m)' = [slab |-> begin[m].slab, from |-> begin[m].from + want[t],
                         to |-> begin[m].from + want[t] + (avail[t] - want[t])]
    BY <1>5, <1>6, ShardFreeNext
  <1>8. ASSUME NEW s \in Shards, s # m
        PROVE  ShardFree(s)' = ShardFree(s) /\ FreeOf(s)' = FreeOf(s)
    <2>1. FreeOf(s)' = FreeOf(s) /\ begin'[s] = begin[s]
      BY <1>8, <1>m, FreeSame DEF Step
    <2> QED BY <2>1, ShardFreeIs, ShardFreeNext
  <1>9. ActiveRegion' = ActiveRegion /\ ActiveRegion \in Regions
    <2>1. active \in Nat /\ SlabSize - activeFree \in Nat /\ SlabSize \in Nat
      <3>1. active \in 0 .. Len(slabs) /\ activeFree \in 0 .. SlabSize
        BY DEF TypeOK
      <3> QED BY <3>1, ArenaAssumption
    <2>2. ActiveRegion' = ActiveRegion
      BY <1>4 DEF ActiveRegion, Region
    <2> HIDE DEF IInv
    <2> QED BY <2>1, <2>2 DEF ActiveRegion, Region, Regions
  <1>10. InSlab(q) /\ NoOverlap /\ Inside /\ given \in Seq(Regions)
    <2>1. given \in Seq(Regions)
      BY <1>1 DEF TypeOK
    <2>2. InSlab(q)
      BY <1>1, <1>2, <1>q DEF Inside
    <2> QED BY <1>1, <2>1, <2>2
  <1>p. PICK p \in Regions : p = ShardFree(m)'
    BY ShardFreeNext
  <1> HIDE DEF IInv
  <1>11. /\ r.slab = q.slab /\ q.from <= r.from /\ r.to <= q.to
         /\ p.slab = q.slab /\ q.from <= p.from /\ p.to <= q.to /\ r.to <= p.from
    BY <1>1, <1>3, <1>r, <1>7, <1>p DEF Regions
  <1>12. Disjoint(r, p)
    BY <1>11 DEF Disjoint
  <1>13. InSlab(r) /\ InSlab(p)
    <2>1. slabs \in Seq(Nat)
      BY DEF IInv, TypeOK
    <2> QED BY <1>10, <1>11, <2>1 DEF InSlab, Regions
  <1>14. ASSUME NEW x \in Regions, Disjoint(q, x)
         PROVE  Disjoint(r, x) /\ Disjoint(p, x)
    BY <1>11, <1>14, Within
  <1>15. /\ DOMAIN given' = DOMAIN given \cup {Len(given) + 1}
         /\ \A i \in DOMAIN given : /\ i # Len(given) + 1 /\ given'[i] = given[i]
                                   /\ given[i] \in Regions
         /\ given'[Len(given) + 1] = r
    BY <1>4, <1>10
  <1>16. \A i \in DOMAIN given : Disjoint(r, given[i]) /\ Disjoint(p, given[i])
    BY <1>10, <1>14, <1>15, <1>q DEF NoOverlap
  <1>17. Disjoint(r, ActiveRegion) /\ Disjoint(p, ActiveRegion)
    BY <1>9, <1>10, <1>14, <1>q DEF NoOverlap
  <1>18. \A s \in Shards : s # m => /\ Disjoint(r, ShardFree(s)) /\ Disjoint(p, ShardFree(s))
                                  /\ ShardFree(s)' = ShardFree(s)
    <2>1. ASSUME NEW s \in Shards, s # m
          PROVE  Disjoint(r, ShardFree(s)) /\ Disjoint(p, ShardFree(s))
      <3>1. ShardFree(s) \in Regions
        BY ShardFreeIs DEF IInv
      <3>2. Disjoint(q, ShardFree(s))
        BY <1>10, <1>q, <2>1 DEF NoOverlap
      <3> QED BY <1>14, <3>1, <3>2
    <2> QED BY <1>8, <2>1
  <1>19. Inside'
    <2>1. ASSUME NEW s \in Shards, s # m, FreeOf(s)' # 0
          PROVE  InSlab(ShardFree(s))'
      BY <1>4, <1>8, <1>10, <2>1 DEF Inside, InSlab
    <2>2. InSlab(ShardFree(m))'
      BY <1>4, <1>13, <1>p DEF InSlab
    <2> QED BY <2>1, <2>2 DEF Inside, InSlab
  <1>20. \A i, j \in DOMAIN given' : i # j => Disjoint(given'[i], given'[j])
    BY <1>10, <1>15, <1>16, DisjointSwap DEF NoOverlap
  <1>21. \A i \in DOMAIN given' :
             InSlab(given[i])' /\ Disjoint(ActiveRegion', given'[i])
    BY <1>4, <1>9, <1>10, <1>13, <1>15, <1>17, DisjointSwap DEF NoOverlap, InSlab
  <1>22. \A s \in Shards : Disjoint(ShardFree(s)', ActiveRegion')
    BY <1>9, <1>10, <1>17, <1>18, <1>p DEF NoOverlap
  <1>23. \A s \in Shards, i \in DOMAIN given' : Disjoint(ShardFree(s)', given'[i])
    <2>1. ASSUME NEW s \in Shards, NEW i \in DOMAIN given, s # m
          PROVE  Disjoint(ShardFree(s)', given'[i])
      BY <1>10, <1>15, <1>18, <2>1 DEF NoOverlap
    <2>2. ASSUME NEW s \in Shards, s # m
          PROVE  Disjoint(ShardFree(s)', r)
      BY <1>18, <2>2, DisjointSwap
    <2>3. ASSUME NEW i \in DOMAIN given
          PROVE  Disjoint(ShardFree(m)', given'[i])
      BY <1>15, <1>16, <1>p, <2>3
    <2>4. Disjoint(ShardFree(m)', r)
      BY <1>12, <1>p, DisjointSwap
    <2> QED BY <1>15, <2>1, <2>2, <2>3, <2>4
  <1>24. \A s, u \in Shards : s # u => Disjoint(ShardFree(s)', ShardFree(u)')
    BY <1>10, <1>18, <1>p, DisjointSwap DEF NoOverlap
  <1> QED BY <1>19, <1>20, <1>21, <1>22, <1>23, <1>24 DEF NoOverlap, Disjoint

-----------------------------------------------------------------------------
LEMMA InvInit ==
    ASSUME Init
    PROVE  IInv
  <1> USE ArenaAssumption DEF Init, Region, Regions
  <1>1. TypeOK
    BY DEF TypeOK, Shards, Steps
  <1>2. Locked /\ Covered /\ Placed
    BY DEF Locked, Covered, Placed, InArena, InShard, ToShard
  <1>3. \A s \in Shards : FreeOf(s) = 0 /\ ShardFree(s) = Region(0, 0, 0)
    BY DEF FreeOf, ShardFree
  <1>4. Inside
    BY <1>3 DEF Inside
  <1>5. NoOverlap
    BY <1>3 DEF NoOverlap, Disjoint, ActiveRegion
  <1> QED BY <1>1, <1>2, <1>4, <1>5 DEF IInv

LEMMA InvNext ==
    ASSUME IInv, [Next]_vars
    PROVE  IInv'
  <1>1. TypeOK' /\ Locked' /\ Covered' /\ Placed'
    BY TypeStep, LockedStep, CoveredStep, PlacedStep DEF IInv
  <1>2. NoOverlap' /\ Inside'
    <2>1. CASE UNCHANGED vars
      <3>1. UNCHANGED <<slabs, active, activeFree, given>>
        BY <2>1 DEF vars, arenaVars
      <3>2. \A s \in Shards : FreeOf(s)' = FreeOf(s) /\ begin'[s] = begin[s]
        BY <2>1 DEF vars, lockVars, shardVars, threadVars, FreeOf
      <3> QED BY <1>1, <3>1, <3>2, QuietStep DEF IInv
    <2>2. CASE Next
      <3>1. PICK t \in Threads : Step(t) \/ \E n \in Sizes : Begin(t, n)
        BY <2>2 DEF Next
      <3>2. CASE FromArena(t)
        BY <1>1, <3>2, FromArenaStep
      <3>3. CASE Refill(t)
        BY <1>1, <3>3, RefillStep
      <3>4. CASE Bump(t)
        BY <1>1, <3>4, BumpStep
      <3>5. CASE ~FromArena(t) /\ ~Refill(t) /\ ~Bump(t)
        <4>1. \A s \in Shards : FreeOf(s)' = FreeOf(s) /\ begin'[s] = begin[s]
          BY <3>1, <3>5, FreeSame DEF IInv
        <4>2. UNCHANGED <<slabs, active, activeFree, given>>
          BY <3>1, <3>5 DEF Step, Begin, Peek, TryArena, LockArena, TryShard,
             LockShard, CheckShard, LockRefill, arenaVars
        <4> QED BY <1>1, <4>1, <4>2, QuietStep DEF IInv
      <3> QED BY <3>2, <3>3, <3>4, <3>5
    <2> QED BY <2>1, <2>2
  <1> QED BY <1>1, <1>2 DEF IInv

\* The variables keep their ranges; in particular unused_, a counter that
\* ActiveSlab takes from, and what Bump leaves a shard are never negative.
THEOREM TypeCorrect == Spec => []TypeOK
  <1>1. IInv => TypeOK
    BY DEF IInv
  <1> QED BY <1>1, InvInit, InvNext, PTL DEF Spec

\* No byte is given to two requests, nor promised to two owners, for any number
\* of threads, shards and requests and all sizes (arena.cpp:26-41, 99-133).
THEOREM RegionsApart == Spec => []NoOverlap
  <1>1. IInv => NoOverlap
    BY DEF IInv
  <1> QED BY <1>1, InvInit, InvNext, PTL DEF Spec
-----------------------------------------------------------------------------
(* The arena implements Allocator.                                         *)

\* What Allocator knows of a thread.
Asked == [t \in Threads |-> IF pc[t] = "idle" THEN 0 ELSE want[t]]

LEMMA AskedIs ==
    ASSUME NEW t \in Threads
    PROVE  /\ pc[t] # "idle" => Asked[t] = want[t]
           /\ pc[t] = "idle" => Asked[t] = 0
  BY DEF Asked

\* A step that neither begins a call nor ends one is none of the allocator's,
\* but for the slabs it may make.
LEMMA InsideIsGrow ==
    ASSUME TypeOK, NEW t \in Threads, pc[t] # "idle", pc'[t] # "idle",
           \A u \in Threads : u # t => pc'[u] = pc[u],
           UNCHANGED <<want, given>>, Abstract!Kept
    PROVE  Abstract!Grow
  <1>1. ASSUME NEW u \in Threads
        PROVE  (IF pc'[u] = "idle" THEN 0 ELSE want'[u])
                   = (IF pc[u] = "idle" THEN 0 ELSE want[u])
    BY <1>1
  <1>2. UNCHANGED [u \in Threads |-> IF pc[u] = "idle" THEN 0 ELSE want[u]]
    BY <1>1
  <1> QED BY <1>2 DEF Abstract!Grow

LEMMA GrownIsKept ==
    ASSUME ArenaTyped, ArenaTyped', Grown
    PROVE  Abstract!Kept
  <1>1. slabs \in Seq(Nat) /\ slabs' \in Seq(Nat)
    BY DEF ArenaTyped
  <1>2. DOMAIN slabs = 1 .. Len(slabs) /\ DOMAIN slabs' = 1 .. Len(slabs')
        /\ Len(slabs) \in Nat /\ Len(slabs') \in Nat
    BY <1>1
  <1> QED BY <1>2 DEF Abstract!Kept, Grown

\* A call that ends with a region that is inside and apart.
LEMMA EndIsGive ==
    ASSUME TypeOK, NEW t \in Threads, pc[t] # "idle", want[t] # 0,
           pc' = [pc EXCEPT ![t] = "idle"], UNCHANGED want,
           Abstract!Kept,
           NEW r \in Regions, given' = Append(given, r), r.to = r.from + want[t],
           r.slab \in DOMAIN slabs', r.to <= slabs'[r.slab],
           \A i \in DOMAIN given : Disjoint(r, given[i])
    PROVE  Abstract!Give(t)
  <1>1. given \in Seq(Regions) /\ want[t] \in Nat
    BY DEF TypeOK
  <1>2. /\ Len(given') = Len(given) + 1
        /\ \A i \in DOMAIN given : given'[i] = given[i]
        /\ given'[Len(given')] = r
    BY <1>1
  <1>3. r.from \in Nat /\ r.to \in Nat
    BY DEF Regions
  <1>4. r.to - r.from = want[t] /\ 0 <= r.from
    BY <1>1, <1>3
  <1>5. \A i \in DOMAIN given : Abstract!Apart(r, given[i])
    BY DEF Disjoint, Abstract!Apart
  <1>6. Abstract!Fresh(r, want[t])
    BY <1>4, <1>5 DEF Abstract!Fresh
  <1>7. [u \in Threads |-> IF pc'[u] = "idle" THEN 0 ELSE want'[u]]
          = [[u \in Threads |-> IF pc[u] = "idle" THEN 0 ELSE want[u]] EXCEPT ![t] = 0]
    BY DEF TypeOK
  <1>8. [u \in Threads |-> IF pc[u] = "idle" THEN 0 ELSE want[u]][t] = want[t]
    OBVIOUS
  <1> QED BY <1>2, <1>6, <1>7, <1>8 DEF Abstract!Give

LEMMA AllocateStep ==
    ASSUME IInv, TypeOK', [Next]_vars
    PROVE  [Abstract!Next]_(Abstract!vars)
  <1>0. TypeOK /\ Locked /\ Covered /\ Placed /\ Inside /\ NoOverlap
    BY DEF IInv
  <1>1. CASE UNCHANGED vars
    BY <1>1 DEF vars, arenaVars, threadVars, Abstract!vars
  <1>2. ASSUME NEW t \in Threads, NEW n \in Sizes, Begin(t, n)
        PROVE  Abstract!Ask(t)
    <2>1. /\ pc[t] = "idle" /\ pc' = [pc EXCEPT ![t] = FirstStep(t, n)]
          /\ want' = [want EXCEPT ![t] = n]
          /\ UNCHANGED <<slabs, given>>
      BY <1>2 DEF Begin, FirstStep, Goto, arenaVars
    <2>2. FirstStep(t, n) # "idle"
      BY FirstStepType, ArenaAssumption
    <2>3. [u \in Threads |-> IF pc'[u] = "idle" THEN 0 ELSE want'[u]]
            = [[u \in Threads |-> IF pc[u] = "idle" THEN 0 ELSE want[u]] EXCEPT ![t] = n]
      BY <1>0, <2>1, <2>2 DEF TypeOK
    <2> QED BY <2>1, <2>3 DEF Abstract!Ask
  <1>3. ASSUME NEW t \in Threads,
               \/ Peek(t) \/ TryArena(t) \/ LockArena(t) \/ TryShard(t)
               \/ LockShard(t) \/ CheckShard(t) \/ LockRefill(t)
        PROVE  Abstract!Grow
    <2>1. UNCHANGED <<slabs, want, given>> /\ pc[t] # "idle"
      BY <1>3 DEF Peek, TryArena, LockArena, TryShard, LockShard, CheckShard,
         LockRefill, arenaVars
    <2>2. PICK step \in Steps \ {"idle"} : pc' = [pc EXCEPT ![t] = step]
      BY <1>3 DEF Peek, TryArena, LockArena, TryShard, LockShard, CheckShard,
         LockRefill, Goto, Steps
    <2>3. pc'[t] # "idle" /\ \A u \in Threads : u # t => pc'[u] = pc[u]
      BY <1>0, <2>2 DEF TypeOK
    <2>4. Abstract!Kept
      BY <2>1 DEF Abstract!Kept
    <2> QED BY <1>0, <2>1, <2>3, <2>4, InsideIsGrow
  <1>4. ASSUME NEW t \in Threads, Refill(t)
        PROVE  Abstract!Grow
    <2>1. /\ UNCHANGED <<want, given>> /\ pc[t] = "refill"
          /\ pc' = [pc EXCEPT ![t] = "bump"]
      BY <1>4 DEF Refill, Goto
    <2>2. pc'[t] # "idle" /\ \A u \in Threads : u # t => pc'[u] = pc[u]
      BY <1>0, <2>1 DEF TypeOK
    <2>3. ArenaTyped /\ ArenaTyped' /\ Grown
      BY <1>0, <1>4, ArenaStep, Typed, AllocationPlaced
    <2> QED BY <1>0, <2>1, <2>2, <2>3, GrownIsKept, InsideIsGrow
  <1>5. ASSUME NEW t \in Threads, FromArena(t)
        PROVE  Abstract!Give(t)
    <2>1. /\ pc[t] = "arena" /\ pc' = [pc EXCEPT ![t] = "idle"]
          /\ UNCHANGED want /\ given' = Append(given, NextRegion(want[t]))
          /\ ArenaAllocate(want[t])
      BY <1>5 DEF FromArena, Goto
    <2>2. want[t] \in Nat \ {0}
      BY <1>0, <2>1 DEF TypeOK, Covered
    <2>3. PICK r \in Regions : r = NextRegion(want[t])
      BY <1>0, <2>1, <2>2, Typed, AllocationPlaced
    <2>4. /\ r.to = r.from + want[t] /\ r.slab \in 1 .. Len(slabs')
          /\ r.to <= slabs'[r.slab] /\ ArenaTyped /\ ArenaTyped' /\ Grown
      BY <1>0, <2>1, <2>2, <2>3, Typed, AllocationPlaced
    <2>5. r.slab \in DOMAIN slabs'
      BY <2>4, InSlabIs DEF ArenaTyped
    <2>6. \A i \in DOMAIN given : Disjoint(r, given[i])
      BY <1>0, <2>1, <2>2, <2>3, StaysApart, DisjointSwap
    <2> QED BY <1>0, <2>1, <2>2, <2>3, <2>4, <2>5, <2>6, GrownIsKept, EndIsGive
  <1>6. ASSUME NEW t \in Threads, Bump(t)
        PROVE  Abstract!Give(t)
    <2>m. PICK m \in Shards : m = mine[t]
      BY <1>0 DEF TypeOK
    <2>1. /\ pc[t] = "bump" /\ pc' = [pc EXCEPT ![t] = "idle"]
          /\ UNCHANGED <<want, slabs>>
          /\ given' = Append(given, Region(begin[m].slab, begin[m].from,
                                           begin[m].from + want[t]))
      BY <1>6, <2>m DEF Bump, Goto, arenaVars
    <2>2. /\ want[t] \in Nat \ {0} /\ avail[t] \in Nat /\ want[t] <= avail[t]
          /\ begin[m].slab \in Nat /\ begin[m].from \in Nat
      BY <1>0, <2>1 DEF TypeOK, Covered, Regions
    <2>3. shardLock[m] = t /\ t # Nobody
      BY <1>0, <2>m, <2>1, ArenaAssumption DEF Locked, InShard
    <2>4. FreeOf(m) = avail[t]
      BY <2>1, <2>3 DEF FreeOf
    <2>5. PICK q \in Regions : q = ShardFree(m)
      BY <1>0, ShardFreeIs
    <2>6. q = [slab |-> begin[m].slab, from |-> begin[m].from,
               to |-> begin[m].from + avail[t]]
      BY <1>0, <2>4, <2>5, ShardFreeIs
    <2>7. PICK r \in Regions : r = [slab |-> begin[m].slab, from |-> begin[m].from,
                                   to |-> begin[m].from + want[t]]
      <3>1. begin[m].from + want[t] \in Nat
        BY <2>2
      <3> QED BY <2>2, <3>1 DEF Regions
    <2>8. /\ r.slab = q.slab /\ q.from <= r.from /\ r.to <= q.to
          /\ r.to = r.from + want[t]
      BY <2>2, <2>6, <2>7
    <2>9. InSlab(q)
      BY <1>0, <2>2, <2>4, <2>5 DEF Inside
    <2>10. r.slab \in DOMAIN slabs' /\ r.to <= slabs'[r.slab]
      <3>1. slabs \in Seq(Nat)
        BY <1>0 DEF TypeOK
      <3> QED BY <2>1, <2>8, <2>9, <3>1 DEF InSlab, Regions
    <2>11. ASSUME NEW i \in DOMAIN given
           PROVE  Disjoint(r, given[i])
      <3>1. given[i] \in Regions
        <4>1. given \in Seq(Regions)
          BY <1>0 DEF TypeOK
        <4> QED BY <4>1
      <3>2. Disjoint(q, given[i])
        BY <1>0, <2>5 DEF NoOverlap
      <3> QED BY <2>8, <3>1, <3>2, Within
    <2>12. given' = Append(given, r)
      BY <2>1, <2>7 DEF Region
    <2>13. Abstract!Kept
      BY <2>1 DEF Abstract!Kept
    <2> QED BY <1>0, <2>1, <2>2, <2>8, <2>10, <2>11, <2>12, <2>13, EndIsGive
  <1> QED
    BY <1>1, <1>2, <1>3, <1>4, <1>5, <1>6 DEF Next, Step, Abstract!Next

\* The arena implements Allocator, for any number of threads, shards and requests
\* and all sizes: a call gets exactly its bytes, all at one instant, out of memory
\* that nobody has had, by whichever way it goes (arena.cpp:26-41, 99-133).
THEOREM AllocatesCorrect == Spec => Allocates
  <1>1. Init => Abstract!Init
    BY DEF Init, Abstract!Init
  <1>2. IInv /\ [Next]_vars => [Abstract!Next]_(Abstract!vars)
    BY AllocateStep, InvNext DEF IInv
  <1> QED BY <1>1, <1>2, InvInit, InvNext, PTL DEF Spec, Allocates, Abstract!Spec
=============================================================================
