-------------------------- MODULE DatabaseProofs ---------------------------
(***************************************************************************)
(* The flush pipeline, for any clients, workers, writes and thresholds,    *)
(* and whatever the interleaving: a table is on level 0 only with its      *)
(* filter.  The iterators of the workers may go astray (EraseWorking), and *)
(* then a table is flushed twice or never, but what is listed was written. *)
(*                                                                         *)
(* Until an erase moves elements under another worker's iterator the       *)
(* pipeline does what it is for, with any number of workers: no table is   *)
(* lost, a find follows the records down the pipeline, and the destructor  *)
(* leaves no queued table behind.  After one, the variables keep their     *)
(* types and no wake-up is lost; with one or two workers there is none.    *)
(*                                                                         *)
(* What FlattenSeq and the last writer are for sequences of any length is  *)
(* proved by induction, in the form that a set of numbers with a member    *)
(* has a least one.                                                        *)
(***************************************************************************)
EXTENDS Database, FiniteSetTheorems, SequenceTheorems, WellFoundedInduction, TLAPS

\* A worker lists the table under the id that it wrote its filter under.
FilterInv ==
    /\ sst \in [next : Nat, of : [Workers -> Nat]]
    /\ DOMAIN wpc = Workers
    /\ level0 \in Seq(Nat)
    /\ \A w \in Workers : wpc[w] = "list" => sst.of[w] \in DOMAIN filters
    /\ ListedHasFilter

LEMMA InitFilter == Init => FilterInv
  <1> SUFFICES ASSUME Init PROVE FilterInv
    OBVIOUS
  <1>1. /\ sst = [next |-> 1, of |-> [w \in Workers |-> 0]] /\ level0 = <<>>
        /\ wpc = [w \in Workers |-> "check"]
    BY DEF Init
  <1>2. level0 \in Seq(Nat) /\ DOMAIN level0 = {}
    BY <1>1
  <1> QED BY <1>1, <1>2 DEF FilterInv, ListedHasFilter

\* A worker that moves on, but not to list a table, keeps the invariant while
\* the tables' ids and filters are left alone.
LEMMA MoveStep ==
    ASSUME FilterInv, UNCHANGED sstVars, DOMAIN wpc' = Workers,
           \A v \in Workers : wpc'[v] = "list" => wpc[v] = "list"
    PROVE  FilterInv'
  BY DEF FilterInv, ListedHasFilter, sstVars

LEMMA GotoMoves ==
    ASSUME FilterInv, NEW w \in Workers, NEW step, step # "list", WGoto(w, step)
    PROVE  /\ DOMAIN wpc' = Workers
           /\ \A v \in Workers : wpc'[v] = "list" => wpc[v] = "list"
  BY DEF FilterInv, WGoto

LEMMA PickUpStep ==
    ASSUME FilterInv, NEW w \in Workers, PickUp(w)
    PROVE  FilterInv'
  <1>1. /\ wpc' = [wpc EXCEPT ![w] = "write"] /\ filters' = filters /\ level0' = level0
        /\ sst' = [next |-> sst.next + 1, of |-> [sst.of EXCEPT ![w] = sst.next]]
    BY DEF PickUp, WGoto
  <1>2. /\ sst' \in [next : Nat, of : [Workers -> Nat]]
        /\ \A v \in Workers : v # w => sst'.of[v] = sst.of[v]
    BY <1>1 DEF FilterInv
  <1> QED BY <1>1, <1>2 DEF FilterInv, ListedHasFilter

LEMMA WriteSstStep ==
    ASSUME FilterInv, NEW w \in Workers, WriteSst(w)
    PROVE  FilterInv'
  <1>1. /\ wpc' = [wpc EXCEPT ![w] = "list"] /\ sst' = sst /\ level0' = level0
        /\ DOMAIN filters' = DOMAIN filters \cup {sst.of[w]}
    BY DEF WriteSst, WithFilter, WGoto
  <1> QED BY <1>1 DEF FilterInv, ListedHasFilter

LEMMA ListSstStep ==
    ASSUME FilterInv, NEW w \in Workers, ListSst(w)
    PROVE  FilterInv'
  <1>1. filters' = filters /\ sst' = sst /\ wpc[w] = "list"
    BY DEF ListSst
  <1>2. \E step \in {"compacting", "retire"} : WGoto(w, step)
    BY DEF ListSst
  <1>3. /\ DOMAIN wpc' = Workers
        /\ \A v \in Workers : wpc'[v] = "list" => wpc[v] = "list"
    BY <1>2, GotoMoves
  <1>4. level0' = level0 \/ level0' = Append(level0, sst.of[w])
    BY DEF ListSst
  <1>5. level0 \in Seq(Nat) /\ sst.of[w] \in Nat /\ sst.of[w] \in DOMAIN filters
    BY <1>1 DEF FilterInv
  <1>6. level0' \in Seq(Nat)
        /\ \A i \in DOMAIN level0' : \/ i \in DOMAIN level0 /\ level0'[i] = level0[i]
                                     \/ level0'[i] = sst.of[w]
    <2>1. CASE level0' = level0
      BY <1>5, <2>1
    <2>2. CASE level0' = Append(level0, sst.of[w])
      <3>1. /\ level0' \in Seq(Nat) /\ Len(level0') = Len(level0) + 1 /\ Len(level0) \in Nat
            /\ DOMAIN level0' = 1 .. Len(level0) + 1 /\ DOMAIN level0 = 1 .. Len(level0)
            /\ \A i \in 1 .. Len(level0) : level0'[i] = level0[i]
            /\ level0'[Len(level0) + 1] = sst.of[w]
        BY <1>5, <2>2
      <3> QED BY <3>1
    <2> QED BY <1>4, <2>1, <2>2
  <1> QED BY <1>1, <1>3, <1>5, <1>6 DEF FilterInv, ListedHasFilter

LEMMA RetireStep ==
    ASSUME FilterInv, NEW w \in Workers, Retire(w)
    PROVE  FilterInv'
  <1>1. /\ wpc' = [wpc EXCEPT ![w] = "check"] /\ filters' = filters /\ level0' = level0
        /\ sst' = [sst EXCEPT !.of = [sst.of EXCEPT ![w] = 0]]
    BY DEF Retire, WGoto
  <1>2. /\ sst' \in [next : Nat, of : [Workers -> Nat]]
        /\ \A v \in Workers : v # w => sst'.of[v] = sst.of[v]
    BY <1>1 DEF FilterInv
  <1> QED BY <1>1, <1>2 DEF FilterInv, ListedHasFilter

LEMMA NextFilter == FilterInv /\ [Next]_vars => FilterInv'
  <1> SUFFICES ASSUME FilterInv, [Next]_vars PROVE FilterInv'
    OBVIOUS
  <1>1. CASE UNCHANGED <<sstVars, wpc>>
    BY <1>1, MoveStep DEF FilterInv
  <1>2. ASSUME NEW c \in Clients, NEW k \in Keys, Write(c, k)
        PROVE  UNCHANGED <<sstVars, wpc>>
    BY <1>2 DEF Write, workerVars
  <1>3. ASSUME NEW c \in Clients, NEW k \in Keys, FindMemtable(c, k)
        PROVE  UNCHANGED <<sstVars, wpc>>
    BY <1>3 DEF FindMemtable, workerVars
  <1>4. ASSUME NEW c \in Clients, HandOver(c) PROVE FilterInv'
    <2>1. UNCHANGED sstVars /\ NotifyOne
      BY <1>4 DEF HandOver
    <2>2. CASE UNCHANGED wpc
      BY <1>1, <2>1, <2>2
    <2>3. ASSUME NEW w \in Asleep, WGoto(w, "check") PROVE FilterInv'
      BY <2>1, <2>3, GotoMoves, MoveStep DEF Asleep
    <2> QED BY <2>1, <2>2, <2>3 DEF NotifyOne
  <1>5. ASSUME NEW c \in Clients, ClientStep(c), ~HandOver(c)
        PROVE  UNCHANGED <<sstVars, wpc>>
    BY <1>5 DEF ClientStep, AppendRecord, CheckSize, Replace, FindQueue, Select, Return,
                workerVars
  <1>6. ASSUME NEW w \in Workers, Take(w) \/ Exit(w) \/ Block(w) \/ Sleep(w)
        PROVE  FilterInv'
    <2>1. UNCHANGED sstVars
      BY <1>6 DEF Take, Exit, Block, Sleep, sstVars
    <2>2. \E step \in {"pick", "exited", "blocking", "asleep"} : WGoto(w, step)
      BY <1>6 DEF Take, Exit, Block, Sleep
    <2> QED BY <2>1, <2>2, GotoMoves, MoveStep
  <1>7. CASE NotifyAll
    <2>1. /\ UNCHANGED sstVars
          /\ wpc' = [w \in Workers |-> IF w \in Asleep THEN "check" ELSE wpc[w]]
      BY <1>7 DEF NotifyAll
    <2> QED BY <2>1, MoveStep
  <1>8. CASE DestroyMembers \/ SetStop \/ Join
    BY <1>1, <1>8 DEF DestroyMembers, SetStop, Join, workerVars
  <1>9. CASE UNCHANGED vars
    BY <1>1, <1>9 DEF vars, workerVars
  <1> QED BY <1>1, <1>2, <1>3, <1>4, <1>5, <1>6, <1>7, <1>8, <1>9,
             PickUpStep, WriteSstStep, ListSstStep, RetireStep DEF Next, WorkerStep

\* Whatever the workers do to each other's iterators, a table that level 0
\* lists has a filter: core.cpp:595 stores it before :602 and :604
\* list the table.
THEOREM FiltersCorrect == Spec => []ListedHasFilter
  <1>1. FilterInv => ListedHasFilter
    BY DEF FilterInv
  <1> QED BY <1>1, InitFilter, NextFilter, PTL DEF Spec

\* Pairs of numbers in order, the relation that induction descends.
Below == {ss \in Nat \X Nat : ss[1] < ss[2]}

\* A set of numbers has a least element.
LEMMA LeastElement ==
    ASSUME NEW T, T \subseteq Nat, T # {}
    PROVE  \E x \in T : \A y \in T : x <= y
  <1>1. IsWellFoundedOn(Below, Nat)
    BY NatLessThanWellFounded, Zenon DEF OpToRel, Below
  <1>2. T \subseteq Nat /\ T # {}
    OBVIOUS
  <1>3. PICK x \in T : \A y \in T : <<y, x>> \notin Below
    BY ONLY WFMin, <1>1, <1>2, Zenon
  <1>4. ASSUME NEW y \in T PROVE x <= y
    <2>1. x \in Nat /\ y \in Nat
      BY <1>2
    <2>2. ~(y < x)
      BY <1>3, <2>1 DEF Below
    <2> QED BY <2>1, <2>2
  <1> QED BY <1>4

\* What holds of 0, and of the next number whenever it holds of a number, holds
\* of all: induction for a set of numbers.
LEMMA SetInduction ==
    ASSUME NEW T, T \subseteq Nat, 0 \in T, \A n \in T : n + 1 \in T
    PROVE  T = Nat
  <1> SUFFICES ASSUME Nat \ T # {} PROVE FALSE
    OBVIOUS
  <1>1. PICK x \in Nat \ T : \A y \in Nat \ T : x <= y
    <2>1. Nat \ T \subseteq Nat
      OBVIOUS
    <2> QED BY <2>1, LeastElement
  <1>2. x # 0 /\ x - 1 \in Nat
    BY <1>1
  <1>3. x - 1 \in T
    BY <1>1, <1>2
  <1>4. (x - 1) + 1 = x
    BY <1>1
  <1> QED BY <1>1, <1>3, <1>4

\* f is the function that FlattenSeq builds: the concatenation of the first
\* elements of q, for each number of them.
IsFlatten(f, q, n) ==
    f = [i \in 1 .. n |-> IF i = 1 THEN q[i] ELSE f[i - 1] \o q[i]]

\* Each step of the concatenation adds one element.
LEMMA FlattenSteps ==
    ASSUME NEW f, NEW q, NEW n \in Nat, IsFlatten(f, q, n), NEW i \in 1 .. n
    PROVE  (i = 1 => f[i] = q[i]) /\ (i # 1 => f[i] = f[i - 1] \o q[i])
  BY DEF IsFlatten

\* x is an element of q.
Among(x, q) == \E i \in 1 .. Len(q) : q[i] = x

\* A concatenation holds what its parts hold.
LEMMA ConcatHolds ==
    ASSUME NEW S, NEW p \in Seq(S), NEW q \in Seq(S), NEW x
    PROVE  p \o q \in Seq(S) /\ (Among(x, p \o q) <=> Among(x, p) \/ Among(x, q))
  <1>1. /\ p \o q \in Seq(S) /\ Len(p \o q) = Len(p) + Len(q)
        /\ Len(p) \in Nat /\ Len(q) \in Nat
        /\ \A i \in 1 .. Len(p) : (p \o q)[i] = p[i]
        /\ \A i \in 1 .. Len(q) : (p \o q)[Len(p) + i] = q[i]
    BY ConcatProperties
  <1>2. ASSUME Among(x, p \o q) PROVE Among(x, p) \/ Among(x, q)
    <2>1. PICK i \in 1 .. Len(p) + Len(q) : (p \o q)[i] = x
      BY <1>1, <1>2 DEF Among
    <2>2. CASE i \in 1 .. Len(p)
      BY <1>1, <2>1, <2>2 DEF Among
    <2>3. CASE i \notin 1 .. Len(p)
      <3>1. i - Len(p) \in 1 .. Len(q) /\ Len(p) + (i - Len(p)) = i
        BY <1>1, <2>3
      <3> QED BY <1>1, <2>1, <3>1 DEF Among
    <2> QED BY <2>2, <2>3
  <1>3. ASSUME Among(x, p) PROVE Among(x, p \o q)
    <2>1. PICK i \in 1 .. Len(p) : p[i] = x
      BY <1>3 DEF Among
    <2>2. i \in 1 .. Len(p \o q)
      BY <1>1
    <2> QED BY <1>1, <2>1, <2>2 DEF Among
  <1>4. ASSUME Among(x, q) PROVE Among(x, p \o q)
    <2>1. PICK i \in 1 .. Len(q) : q[i] = x
      BY <1>4 DEF Among
    <2>2. Len(p) + i \in 1 .. Len(p \o q)
      BY <1>1
    <2> QED BY <1>1, <2>1, <2>2 DEF Among
  <1> QED BY <1>1, <1>2, <1>3, <1>4

\* There is such a function for each number of elements, by induction on it.
LEMMA FlattenExists ==
    ASSUME NEW q, NEW n \in Nat
    PROVE  \E f : IsFlatten(f, q, n)
  <1> DEFINE T == {m \in Nat : \E f : IsFlatten(f, q, m)}
  <1>1. 0 \in T
    <2>1. IsFlatten([i \in {} |-> 0], q, 0)
      BY DEF IsFlatten
    <2> QED BY <2>1
  <1>2. ASSUME NEW m \in T PROVE m + 1 \in T
    <2>1. PICK f : IsFlatten(f, q, m)
      OBVIOUS
    <2> DEFINE g == [i \in 1 .. m + 1 |-> IF i <= m THEN f[i]
                                          ELSE IF i = 1 THEN q[i] ELSE f[i - 1] \o q[i]]
    <2>2. m \in Nat
      OBVIOUS
    <2>3. ASSUME NEW i \in 1 .. m + 1
          PROVE  g[i] = IF i = 1 THEN q[i] ELSE g[i - 1] \o q[i]
      <3>1. i # 1 => i - 1 \in 1 .. m + 1 /\ i - 1 <= m
        BY <2>2
      <3>2. i # 1 => g[i - 1] = f[i - 1]
        BY <3>1
      <3>3. CASE i <= m
        <4>1. g[i] = f[i] /\ i \in 1 .. m
          BY <2>2, <3>3
        <4>2. (i = 1 => f[i] = q[i]) /\ (i # 1 => f[i] = f[i - 1] \o q[i])
          BY <2>1, <2>2, <4>1, FlattenSteps
        <4> HIDE DEF g
        <4> QED BY <3>2, <4>1, <4>2
      <3>4. CASE ~(i <= m)
        <4>1. g[i] = IF i = 1 THEN q[i] ELSE f[i - 1] \o q[i]
          BY <3>4
        <4> HIDE DEF g
        <4> QED BY <3>2, <4>1
      <3> QED BY <3>3, <3>4
    <2>4. IsFlatten(g, q, m + 1)
      <3>1. g = [i \in 1 .. m + 1 |-> g[i]]
        OBVIOUS
      <3> HIDE DEF g
      <3>2. [i \in 1 .. m + 1 |-> g[i]]
              = [i \in 1 .. m + 1 |-> IF i = 1 THEN q[i] ELSE g[i - 1] \o q[i]]
        BY <2>3
      <3> QED BY <3>1, <3>2 DEF IsFlatten
    <2> QED BY <2>2, <2>4
  <1> HIDE DEF T
  <1>3. T \subseteq Nat
    BY DEF T
  <1>4. T = Nat
    BY <1>1, <1>2, <1>3, SetInduction
  <1> QED BY <1>4 DEF T

\* FlattenSeq is its last value.
LEMMA FlattenIs ==
    ASSUME NEW q, Len(q) \in Nat \ {0}
    PROVE  \E f : IsFlatten(f, q, Len(q)) /\ FlattenSeq(q) = f[Len(q)]
  <1> DEFINE c == CHOOSE f : IsFlatten(f, q, Len(q))
  <1>1. FlattenSeq(q) = c[Len(q)]
    BY DEF FlattenSeq, IsFlatten
  <1>2. IsFlatten(c, q, Len(q))
    BY FlattenExists
  <1> QED BY <1>1, <1>2

\* FlattenSeq holds what the elements hold, by induction on their number.
LEMMA FlattenHolds ==
    ASSUME NEW S, NEW q \in Seq(Seq(S))
    PROVE  /\ FlattenSeq(q) \in Seq(S)
           /\ \A x : Among(x, FlattenSeq(q)) <=> \E j \in 1 .. Len(q) : Among(x, q[j])
  <1>1. Len(q) \in Nat /\ \A j \in 1 .. Len(q) : q[j] \in Seq(S)
    OBVIOUS
  <1>2. CASE Len(q) = 0
    <2>1. q = <<>> /\ FlattenSeq(q) = <<>>
      BY <1>2 DEF FlattenSeq
    <2>2. Len(<<>>) = 0 /\ <<>> \in Seq(S) /\ 1 .. 0 = {}
      OBVIOUS
    <2>3. \A x : ~Among(x, <<>>)
      BY <2>2 DEF Among
    <2> QED BY <1>2, <2>1, <2>2, <2>3
  <1>3. CASE Len(q) # 0
    <2>1. PICK f : IsFlatten(f, q, Len(q)) /\ FlattenSeq(q) = f[Len(q)]
      BY <1>1, <1>3, FlattenIs
    <2>s. \A i \in 1 .. Len(q) : (i = 1 => f[i] = q[i]) /\ (i # 1 => f[i] = f[i - 1] \o q[i])
      BY ONLY <1>1, <2>1, FlattenSteps
    <2> DEFINE Good(m) == /\ f[m] \in Seq(S)
                          /\ \A x : Among(x, f[m]) <=> \E j \in 1 .. m : Among(x, q[j])
               T == {m \in Nat : m + 1 <= Len(q) => Good(m + 1)}
    <2>2. 0 \in T
      <3>0. 1 \in 1 .. Len(q)
        BY <1>1, <1>3
      <3>1. f[1] = q[1]
        BY <2>s, <3>0
      <3>2. 1 \in 1 .. Len(q) /\ \A j \in 1 .. 1 : j = 1
        BY <1>1, <1>3
      <3>3. Good(1)
        BY <1>1, <3>1, <3>2
      <3> QED BY <3>3
    <2>3. ASSUME NEW m \in T, m + 2 <= Len(q) PROVE Good(m + 2)
      <3>1. m \in Nat /\ Good(m + 1)
        BY <1>1, <2>3
      <3>2. f[m + 2] = f[m + 1] \o q[m + 2]
        <4>1. m + 2 \in 1 .. Len(q) /\ m + 2 # 1 /\ (m + 2) - 1 = m + 1
          BY <1>1, <2>3, <3>1
        <4>2. f[m + 2] = f[(m + 2) - 1] \o q[m + 2]
          BY <2>s, <4>1
        <4> QED BY <4>1, <4>2
      <3>3. q[m + 2] \in Seq(S)
        BY <1>1, <2>3, <3>1
      <3>4. f[m + 2] \in Seq(S)
        BY <3>1, <3>2, <3>3, ConcatHolds
      <3>5. ASSUME NEW x
            PROVE  Among(x, f[m + 2]) <=> \E j \in 1 .. m + 2 : Among(x, q[j])
        <4>1. Among(x, f[m + 2]) <=> Among(x, f[m + 1]) \/ Among(x, q[m + 2])
          BY <3>1, <3>2, <3>3, ConcatHolds
        <4>2. Among(x, f[m + 1]) <=> \E j \in 1 .. m + 1 : Among(x, q[j])
          BY <3>1
        <4>3. \A j : j \in 1 .. m + 2 <=> j \in 1 .. m + 1 \/ j = m + 2
          BY <3>1
        <4> QED BY <4>1, <4>2, <4>3
      <3> QED BY <3>4, <3>5
    <2>4. ASSUME NEW m \in T PROVE m + 1 \in T
      <3>1. m \in Nat /\ (m + 1) + 1 = m + 2 /\ m + 1 \in Nat
        OBVIOUS
      <3>2. (m + 1) + 1 <= Len(q) => Good((m + 1) + 1)
        BY <2>3, <3>1
      <3> HIDE DEF Good
      <3> QED BY <3>1, <3>2
    <2> HIDE DEF T, Good
    <2>5. T \subseteq Nat
      BY DEF T
    <2>6. T = Nat
      BY <2>2, <2>4, <2>5, SetInduction
    <2>7. Len(q) - 1 \in T /\ (Len(q) - 1) + 1 = Len(q)
      BY <1>1, <1>3, <2>6
    <2>8. Good(Len(q))
      BY <1>1, <2>7 DEF T
    <2> QED BY <2>1, <2>8 DEF Good
  <1> QED BY <1>2, <1>3

\* The worker has an iterator into working_.
Holding(w) == wpc[w] \in {"pick", "write", "list", "compacting", "retire"}

\* The index in working_ of the element that its iterator names.
Place(w) == slot[w] - base + 1

\* Iterators and elements of working_ are one to one, and the table that a
\* worker flushes is the element its iterator names.
WorkerInv ==
    /\ \A w \in Workers : Holding(w) => Place(w) \in 1 .. Len(working)
    /\ \A v, w \in Workers : Holding(v) /\ Holding(w) /\ slot[v] = slot[w] => v = w
    /\ \A i \in 1 .. Len(working) : \E w \in Workers : Holding(w) /\ Place(w) = i
    /\ \A w \in Workers : Holding(w) /\ wpc[w] # "pick" => taken[w] = working[Place(w)]

\* What the queue, working_ and the workers hold was made and handed out, even by
\* iterators gone astray: one that names no element has killed the process.
RangeInv ==
    /\ \A i \in 1 .. Len(queue) : queue[i] \in 1 .. Len(tables)
    /\ \A i \in 1 .. Len(working) : working[i] \in 1 .. Len(tables)
    /\ \A w \in Workers : Holding(w) /\ wpc[w] # "pick" =>
         /\ aborted \/ taken[w] \in 1 .. Len(tables)
         /\ sst.of[w] \in 1 .. sst.next - 1

\* The places of the pipeline hold the tables, each of them once.
PlaceInv ==
    /\ \A i \in 1 .. Len(queue) :
          queue[i] \in 1 .. Len(tables) /\ queue[i] \notin retired /\ queue[i] # memtable
    /\ \A i \in 1 .. Len(working) :
          working[i] \in 1 .. Len(tables) /\ working[i] \notin retired /\ working[i] # memtable
    /\ \A i, j \in 1 .. Len(queue) : queue[i] = queue[j] => i = j
    /\ \A i, j \in 1 .. Len(working) : working[i] = working[j] => i = j
    /\ \A i \in 1 .. Len(queue), j \in 1 .. Len(working) : queue[i] # working[j]
    /\ memtable \notin retired
    /\ \A t \in 1 .. Len(tables) :
          \/ t = memtable \/ t \in retired
          \/ \E i \in 1 .. Len(queue) : queue[i] = t
          \/ \E i \in 1 .. Len(working) : working[i] = t

\* memtable_ is null exactly while a client holds memtable_mutex_.
LockInv ==
    /\ memtable = 0 <=> MemtableLocked
    /\ \A c, d \in Clients : cpc[c] = "replace" /\ cpc[d] = "replace" => c = d

\* The destructor runs when no client calls, and workers leave an empty queue.
EndInv ==
    /\ life # "open" => \A c \in Clients : cpc[c] = "idle"
    /\ \A w \in Workers : wpc[w] = "exited" =>
          queue = <<>> /\ life \in {"stopped", "notified", "closed"}

\* A worker that is not asleep, about to sleep or gone.
Awake(w) == wpc[w] \notin {"blocking", "asleep", "exited"}

AwakeInv == queue # <<>> => \E w \in Workers : Awake(w)

\* The client is inside insert or erase.
Storing(c) == cpc[c] \in {"append", "size", "rotate", "replace"}

\* A record that was logged is on its way to one table, and then in that table
\* and no other.
RecordInv ==
    /\ \A c \in Clients : Storing(c) => rec[c] \in 1 .. Len(wal)
    /\ \A c, d \in Clients : Storing(c) /\ Storing(d) /\ rec[c] = rec[d] => c = d
    /\ \A c \in Clients : cpc[c] = "append" =>
         /\ aborted \/ ptr[c] \in 1 .. Len(tables)
         /\ \A t \in 1 .. Len(tables) : ~Among(rec[c], tables[t])
    /\ \A c \in Clients : Storing(c) /\ cpc[c] # "append" =>
         \E t \in 1 .. Len(tables) : Among(rec[c], tables[t])
    /\ \A o \in acked : \E t \in 1 .. Len(tables) : Among(o, tables[t])
    /\ \A t \in 1 .. Len(tables) : \A i \in 1 .. Len(tables[t]) : tables[t][i] \in 1 .. Len(wal)
    /\ \A t, u \in 1 .. Len(tables) : \A o \in 1 .. Len(wal) :
         Among(o, tables[t]) /\ Among(o, tables[u]) => t = u

\* What a find has seen: each record it owes is among what it found, or its
\* table is still ahead of the search (queued or being flushed), or flushed.
Follows(c) ==
    /\ owed[c] \subseteq {o \in acked : wal[o].key = seek[c]}
    /\ \A i \in 1 .. Len(found[c]) : found[c][i] \in 1 .. Len(wal)
    /\ \A o \in owed[c] :
        /\ cpc[c] = "queue" => Among(o, found[c]) \/ TableOf(o) # memtable
        /\ cpc[c] = "select" => moved \/ Among(o, found[c]) \/ TableOf(o) \in retired
        /\ cpc[c] = "done" =>
              \/ moved \/ TableOf(o) \in retired
              \/ /\ Among(o, found[c])
                 /\ \/ got[c] = Torn
                    \/ got[c] \in 1 .. Len(wal) /\ wal[o].ts <= wal[got[c]].ts
    /\ cpc[c] = "select" => found[c] # <<>>

FindInv == \A c \in Clients : Finding(c) => Follows(c)

\* Erasing an element moves the ones after it by one.
LEMMA RemoveHolds ==
    ASSUME NEW q \in Seq(Nat), NEW g \in 1 .. Len(q)
    PROVE  /\ RemoveAt(q, g) \in Seq(Nat) /\ Len(RemoveAt(q, g)) = Len(q) - 1
           /\ \A i \in 1 .. Len(q) - 1 :
                 RemoveAt(q, g)[i] = IF i < g THEN q[i] ELSE q[i + 1]
  <1> DEFINE n == Len(q)
             a == SubSeq(q, 1, g - 1)
             b == SubSeq(q, g + 1, n)
             r == RemoveAt(q, g)
  <1>1. n \in Nat /\ g \in 1 .. n /\ \A i \in 1 .. n : q[i] \in Nat
    OBVIOUS
  <1>2. r = a \o b
    BY DEF RemoveAt
  <1> HIDE DEF n, r
  <1>3. a \in Seq(Nat) /\ Len(a) = g - 1 /\ \A i \in 1 .. g - 1 : a[i] = q[i]
    <2>1. 1 \in Int /\ g - 1 \in Int /\ \A i \in 1 .. g - 1 : q[i] \in Nat
      BY <1>1
    <2>2. /\ a \in Seq(Nat) /\ Len(a) = IF 1 <= g - 1 THEN (g - 1) - 1 + 1 ELSE 0
          /\ \A i \in 1 .. (g - 1) - 1 + 1 : a[i] = q[1 + i - 1]
      BY ONLY <2>1, SubSeqProperties
    <2> HIDE DEF a
    <2>3. (g - 1) - 1 + 1 = g - 1 /\ \A i \in 1 .. g - 1 : 1 + i - 1 = i
      BY <1>1
    <2>4. Len(a) = g - 1
      BY <1>1, <2>2
    <2> QED BY <2>2, <2>3, <2>4
  <1>4. b \in Seq(Nat) /\ Len(b) = n - g /\ \A i \in 1 .. n - g : b[i] = q[g + i]
    <2>1. g + 1 \in Int /\ n \in Int /\ \A i \in g + 1 .. n : q[i] \in Nat
      BY <1>1
    <2>2. /\ b \in Seq(Nat) /\ Len(b) = IF g + 1 <= n THEN n - (g + 1) + 1 ELSE 0
          /\ \A i \in 1 .. n - (g + 1) + 1 : b[i] = q[(g + 1) + i - 1]
      BY ONLY <2>1, SubSeqProperties
    <2> HIDE DEF b
    <2>3. n - (g + 1) + 1 = n - g /\ \A i \in 1 .. n - g : (g + 1) + i - 1 = g + i
      BY <1>1
    <2>4. Len(b) = n - g
      BY <1>1, <2>2
    <2> QED BY <2>2, <2>3, <2>4
  <1> HIDE DEF a, b
  <1>5. /\ r \in Seq(Nat) /\ Len(r) = (g - 1) + (n - g)
        /\ \A i \in 1 .. (g - 1) + (n - g) : r[i] = IF i <= g - 1 THEN a[i] ELSE b[i - (g - 1)]
    <2>1. a \in Seq(Nat) /\ b \in Seq(Nat)
      BY <1>3, <1>4
    <2>2. /\ r \in Seq(Nat) /\ Len(r) = Len(a) + Len(b)
          /\ \A i \in 1 .. Len(a) + Len(b) :
                r[i] = IF i <= Len(a) THEN a[i] ELSE b[i - Len(a)]
      BY ONLY <1>2, <2>1, ConcatProperties
    <2>3. Len(a) = g - 1 /\ Len(b) = n - g
      BY <1>3, <1>4
    <2> QED BY ONLY <2>2, <2>3
  <1>6. (g - 1) + (n - g) = n - 1
    BY <1>1
  <1>7. ASSUME NEW i \in 1 .. n - 1 PROVE r[i] = IF i < g THEN q[i] ELSE q[i + 1]
    <2>1. r[i] = IF i <= g - 1 THEN a[i] ELSE b[i - (g - 1)]
      BY <1>5, <1>6
    <2>2. CASE i < g
      <3>1. i <= g - 1 /\ i \in 1 .. g - 1
        BY <1>1, <2>2
      <3> QED BY <1>3, <2>1, <2>2, <3>1
    <2>3. CASE ~(i < g)
      <3>1. ~(i <= g - 1) /\ i - (g - 1) \in 1 .. n - g /\ g + (i - (g - 1)) = i + 1
        BY <1>1, <2>3
      <3>2. b[i - (g - 1)] = q[g + (i - (g - 1))]
        BY <1>4, <3>1
      <3> QED BY <2>1, <2>3, <3>1, <3>2
    <2> QED BY <2>2, <2>3
  <1> QED BY <1>5, <1>6, <1>7 DEF n, r

\* Wherever its iterator points, a worker that retires takes one element out.
LEMMA RetireKeeps ==
    ASSUME TypeOK, NEW w \in Workers, Retire(w)
    PROVE  /\ working' \in Seq(Nat) /\ base' \in Nat /\ moved' \in BOOLEAN
           /\ \A i \in 1 .. Len(working') : Among(working'[i], working)
  <1> DEFINE n == Len(working)
             g == Erased(Place(w), n)
  <1>1. /\ working \in Seq(Nat) /\ base \in Nat /\ moved \in BOOLEAN /\ slot \in [Workers -> Nat]
        /\ n \in Nat
    BY DEF TypeOK
  <1>2. /\ working' = RemoveAt(working, g)
        /\ base' \in {base, base + 1}
        /\ moved' \in BOOLEAN
    BY DEF Retire, EraseWorking, Place
  <1>3. base' \in Nat
    BY <1>1, <1>2
  <1>p. Place(w) \in Int
    BY <1>1 DEF Place
  <1>4. CASE n = 0
    <2>1. working = <<>> /\ g \in {0, 1}
      BY <1>1, <1>4, <1>p DEF Erased
    <2>2. SubSeq(working, 1, g - 1) = <<>> /\ SubSeq(working, g + 1, n) = <<>>
      BY <1>4, <2>1, SubSeqEmpty
    <2>3. working' = <<>> \o <<>>
      BY <1>2, <2>2 DEF RemoveAt
    <2>4. working' = <<>> /\ Len(<<>>) = 0 /\ 1 .. 0 = {}
      BY <2>3
    <2> QED BY <1>1, <1>2, <1>3, <2>4
  <1>5. CASE n # 0
    <2>1. g \in 1 .. n
      BY <1>1, <1>5, <1>p DEF Erased
    <2> HIDE DEF g
    <2>2. /\ working' \in Seq(Nat) /\ Len(working') = n - 1
          /\ \A i \in 1 .. n - 1 : working'[i] = IF i < g THEN working[i] ELSE working[i + 1]
      BY <1>1, <1>2, <2>1, RemoveHolds
    <2>3. ASSUME NEW i \in 1 .. Len(working') PROVE Among(working'[i], working)
      <3> HIDE DEF n
      <3>1. i \in 1 .. n /\ i + 1 \in 1 .. n
        BY <1>1, <2>2
      <3>2. working'[i] = working[i] \/ working'[i] = working[i + 1]
        BY <2>2
      <3> QED BY <3>1, <3>2 DEF Among, n
    <2> QED BY <1>2, <1>3, <2>2, <2>3
  <1> QED BY <1>4, <1>5

\* As long as erases take the first or the last element, one that a worker took
\* is removed and the iterators of the others still name their own.
LEMMA RetireErases ==
    ASSUME TypeOK, WorkerInv, NEW w \in Workers, Retire(w), ~moved'
    PROVE  /\ working' \in Seq(Nat) /\ base' \in Nat
           /\ \A i \in 1 .. Len(working') : \E j \in 1 .. Len(working) :
                 j # Place(w) /\ working'[i] = working[j] /\ base' + i = base + j
           /\ \A j \in 1 .. Len(working) : j # Place(w) =>
                 \E i \in 1 .. Len(working') :
                    working'[i] = working[j] /\ base' + i = base + j
  <1> DEFINE n == Len(working)
             p == Place(w)
  <1>1. working \in Seq(Nat) /\ base \in Nat /\ slot \in [Workers -> Nat] /\ n \in Nat
    BY DEF TypeOK
  <1>2. p \in 1 .. n
    BY DEF WorkerInv, Retire, Holding
  <1>3. /\ working' = RemoveAt(working, Erased(p, n))
        /\ base' = IF p \in 1 .. n /\ p - 1 < n \div 2 THEN base + 1 ELSE base
        /\ ~(1 < p /\ p < n)
    BY DEF Retire, EraseWorking, Place
  <1> HIDE DEF n, p
  <1>4. Erased(p, n) = p /\ n # 0 /\ (p = 1 \/ p = n)
    BY <1>1, <1>2, <1>3 DEF Erased
  <1>5. /\ working' \in Seq(Nat) /\ Len(working') = n - 1
        /\ \A i \in 1 .. n - 1 : working'[i] = IF i < p THEN working[i] ELSE working[i + 1]
    BY <1>1, <1>2, <1>3, <1>4, RemoveHolds DEF n
  <1>6. base' \in Nat
    BY <1>1, <1>3
  <1>d. n = 1 \/ (n >= 2 /\ n \div 2 >= 1 /\ n \div 2 <= n - 1)
    BY <1>1, <1>4
  <1>7. CASE n = 1
    <2>1. 1 .. n - 1 = {} /\ \A j \in 1 .. n : j = p
      BY <1>2, <1>7
    <2> QED BY <1>5, <1>6, <2>1 DEF n, p
  <1>8. CASE n >= 2 /\ p = 1
    <2>1. base' = base + 1
      BY <1>1, <1>2, <1>3, <1>d, <1>8
    <2>2. ASSUME NEW i \in 1 .. n - 1
          PROVE  i + 1 \in 1 .. n /\ i + 1 # p /\ working'[i] = working[i + 1]
                   /\ base' + i = base + (i + 1)
      <3>1. i + 1 \in 1 .. n /\ i + 1 # p /\ ~(i < p)
        BY <1>1, <1>8
      <3>2. working'[i] = working[i + 1]
        BY <1>5, <3>1
      <3>3. base' + i = base + (i + 1)
        BY <1>1, <2>1
      <3> QED BY <3>1, <3>2, <3>3
    <2>3. ASSUME NEW j \in 1 .. n, j # p PROVE j - 1 \in 1 .. n - 1 /\ (j - 1) + 1 = j
      BY <1>1, <1>8, <2>3
    <2>4. \A i \in 1 .. n - 1 : \E j \in 1 .. n :
             j # p /\ working'[i] = working[j] /\ base' + i = base + j
      BY ONLY <2>2
    <2>5. \A j \in 1 .. n : j # p =>
             \E i \in 1 .. n - 1 : working'[i] = working[j] /\ base' + i = base + j
      BY ONLY <2>2, <2>3
    <2> QED BY <1>5, <1>6, <2>4, <2>5 DEF n, p
  <1>9. CASE n >= 2 /\ p = n
    <2>1. base' = base
      BY <1>1, <1>2, <1>3, <1>d, <1>9
    <2>2. ASSUME NEW i \in 1 .. n - 1 PROVE i \in 1 .. n /\ i # p /\ working'[i] = working[i]
      BY <1>1, <1>5, <1>9
    <2>3. ASSUME NEW j \in 1 .. n, j # p PROVE j \in 1 .. n - 1
      BY <1>1, <1>9, <2>3
    <2> QED BY <1>5, <1>6, <2>1, <2>2, <2>3 DEF n, p
  <1> QED BY <1>4, <1>d, <1>7, <1>8, <1>9

\* The records that a find collects from one table.
LEMMA MatchingHolds ==
    ASSUME NEW t, tables[t] \in Seq(Nat), NEW k
    PROVE  /\ Matching(t, k) \in Seq(Nat)
           /\ \A o : Among(o, Matching(t, k)) <=> Among(o, tables[t]) /\ wal[o].key = k
  <1> DEFINE s == tables[t]
             P(o) == wal[o].key = k
             q == [i \in 1 .. Len(s) |-> IF P(s[i]) THEN <<s[i]>> ELSE <<>>]
  <1>1. s \in Seq(Nat) /\ Len(s) \in Nat /\ DOMAIN s = 1 .. Len(s)
    OBVIOUS
  <1>2. Matching(t, k) = FlattenSeq(q)
    BY <1>1 DEF Matching
  <1> HIDE DEF s, P
  <1>3. ASSUME NEW i \in 1 .. Len(s)
        PROVE  /\ (IF P(s[i]) THEN <<s[i]>> ELSE <<>>) \in Seq(Nat)
               /\ \A o : Among(o, IF P(s[i]) THEN <<s[i]>> ELSE <<>>) <=> P(s[i]) /\ o = s[i]
    <2>1. s[i] \in Nat
      BY <1>1
    <2>2. <<s[i]>> \in Seq(Nat) /\ Len(<<s[i]>>) = 1 /\ <<s[i]>>[1] = s[i]
      BY <2>1
    <2>3. <<>> \in Seq(Nat) /\ Len(<<>>) = 0
      OBVIOUS
    <2>4. \A o : Among(o, <<s[i]>>) <=> o = s[i]
      <3>1. \A j : j \in 1 .. 1 <=> j = 1
        OBVIOUS
      <3> QED BY <2>2, <3>1 DEF Among
    <2>5. \A o : ~Among(o, <<>>)
      <3>1. 1 .. 0 = {}
        OBVIOUS
      <3> QED BY <2>3, <3>1 DEF Among
    <2> QED BY <2>2, <2>3, <2>4, <2>5
  <1>4. q \in Seq(Seq(Nat)) /\ Len(q) = Len(s)
    <2>1. \A i \in 1 .. Len(s) : (IF P(s[i]) THEN <<s[i]>> ELSE <<>>) \in Seq(Nat)
      BY <1>3
    <2>2. q \in [1 .. Len(s) -> Seq(Nat)]
      BY <2>1
    <2> QED BY <1>1, <2>2
  <1>5. \A i \in 1 .. Len(s) : \A o : Among(o, q[i]) <=> P(s[i]) /\ o = s[i]
    BY <1>3
  <1> HIDE DEF q
  <1>6. /\ FlattenSeq(q) \in Seq(Nat)
        /\ \A o : Among(o, FlattenSeq(q)) <=> \E i \in 1 .. Len(q) : Among(o, q[i])
    BY <1>4, FlattenHolds
  <1>7. \A o : Among(o, FlattenSeq(q)) <=> Among(o, s) /\ P(o)
    <2>1. \A o : Among(o, FlattenSeq(q)) <=> \E i \in 1 .. Len(s) : P(s[i]) /\ o = s[i]
      BY <1>4, <1>5, <1>6
    <2>2. \A o : Among(o, s) <=> \E i \in 1 .. Len(s) : s[i] = o
      BY DEF Among
    <2> QED BY ONLY <2>1, <2>2
  <1> QED BY <1>2, <1>6, <1>7 DEF s, P

\* The records that it collects from several.
LEMMA MatchingInHolds ==
    ASSUME tables \in Seq(Seq(Nat)), NEW ts \in Seq(Nat),
           \A i \in 1 .. Len(ts) : ts[i] \in 1 .. Len(tables), NEW k
    PROVE  /\ MatchingIn(ts, k) \in Seq(Nat)
           /\ \A o : Among(o, MatchingIn(ts, k)) <=>
                 \E i \in 1 .. Len(ts) : Among(o, tables[ts[i]]) /\ wal[o].key = k
  <1> DEFINE q == [i \in 1 .. Len(ts) |-> Matching(ts[i], k)]
  <1>1. Len(ts) \in Nat /\ DOMAIN ts = 1 .. Len(ts)
    OBVIOUS
  <1>2. MatchingIn(ts, k) = FlattenSeq(q)
    BY <1>1 DEF MatchingIn
  <1>3. ASSUME NEW i \in 1 .. Len(ts)
        PROVE  /\ Matching(ts[i], k) \in Seq(Nat)
               /\ \A o : Among(o, Matching(ts[i], k)) <=>
                            Among(o, tables[ts[i]]) /\ wal[o].key = k
    <2>1. tables[ts[i]] \in Seq(Nat)
      BY <1>3
    <2> QED BY <2>1, MatchingHolds
  <1>4. q \in Seq(Seq(Nat)) /\ Len(q) = Len(ts)
    <2>1. q \in [1 .. Len(ts) -> Seq(Nat)]
      BY <1>3
    <2> QED BY ONLY <1>1, <2>1
  <1>5. \A i \in 1 .. Len(ts) : q[i] = Matching(ts[i], k)
    OBVIOUS
  <1> HIDE DEF q
  <1>6. /\ FlattenSeq(q) \in Seq(Nat)
        /\ \A o : Among(o, FlattenSeq(q)) <=> \E i \in 1 .. Len(q) : Among(o, q[i])
    BY <1>4, FlattenHolds
  <1>7. \A o : Among(o, FlattenSeq(q)) <=>
                 \E i \in 1 .. Len(ts) : Among(o, tables[ts[i]]) /\ wal[o].key = k
    <2>1. \A o : Among(o, FlattenSeq(q)) <=> \E i \in 1 .. Len(ts) : Among(o, q[i])
      BY <1>4, <1>6
    <2>2. \A i \in 1 .. Len(ts) : \A o :
             Among(o, q[i]) <=> Among(o, tables[ts[i]]) /\ wal[o].key = k
      BY <1>3, <1>5
    <2> QED BY ONLY <2>1, <2>2
  <1> QED BY <1>2, <1>6, <1>7

\* Reversing keeps the elements.
LEMMA ReverseHolds ==
    ASSUME NEW S, NEW q \in Seq(S)
    PROVE  Reverse(q) \in Seq(S) /\ \A x : Among(x, Reverse(q)) <=> Among(x, q)
  <1>1. Len(q) \in Nat /\ \A i \in 1 .. Len(q) : q[i] \in S
    OBVIOUS
  <1> DEFINE r == [i \in 1 .. Len(q) |-> q[(Len(q) - i) + 1]]
             n == Len(q)
  <1>2. Reverse(q) = r
    BY DEF Reverse
  <1>3. \A i \in 1 .. n : (n - i) + 1 \in 1 .. n /\ (n - ((n - i) + 1)) + 1 = i
    BY <1>1
  <1>4. r \in Seq(S) /\ Len(r) = n
    <2>1. r \in [1 .. n -> S]
      BY <1>1, <1>3
    <2> QED BY <1>1, <2>1
  <1>5. \A i \in 1 .. n : r[i] = q[(n - i) + 1]
    OBVIOUS
  <1> HIDE DEF r, n
  <1>6. ASSUME NEW x, Among(x, r) PROVE Among(x, q)
    BY <1>3, <1>4, <1>5, <1>6 DEF Among, n
  <1>7. ASSUME NEW x, Among(x, q) PROVE Among(x, r)
    <2>1. PICK i \in 1 .. n : q[i] = x
      BY <1>7 DEF Among, n
    <2>2. (n - i) + 1 \in 1 .. n /\ r[(n - i) + 1] = x
      BY <1>3, <1>5, <2>1
    <2> QED BY <1>4, <2>2 DEF Among
  <1> QED BY <1>2, <1>4, <1>6, <1>7

\* The tables that Queue::find visits.
LEMMA UnflushedHolds ==
    ASSUME queue \in Seq(Nat), working \in Seq(Nat)
    PROVE  /\ UnflushedTables \in Seq(Nat)
           /\ \A t : Among(t, UnflushedTables) <=> Among(t, queue) \/ Among(t, working)
  <1>1. /\ Reverse(queue) \in Seq(Nat) /\ \A t : Among(t, Reverse(queue)) <=> Among(t, queue)
        /\ Reverse(working) \in Seq(Nat)
        /\ \A t : Among(t, Reverse(working)) <=> Among(t, working)
    BY ReverseHolds
  <1> QED BY <1>1, ConcatHolds DEF UnflushedTables

\* The last writer of some records is one of them and as late as any.
LEMMA LwwHolds ==
    ASSUME NEW s \in Seq(Nat), s # <<>>, \A i \in 1 .. Len(s) : wal[s[i]].ts \in Nat
    PROVE  \E i \in 1 .. Len(s) :
              LwwSelect(s) = s[i] /\ \A j \in 1 .. Len(s) : wal[s[j]].ts <= wal[s[i]].ts
  <1> DEFINE n == Len(s)
             h(i) == wal[s[i]].ts
             Win(m, i) == /\ \A j \in 1 .. m : h(j) <= h(i)
                          /\ \A j \in 1 .. i - 1 : h(j) < h(i)
             T == {m \in Nat : m # 0 /\ m <= n => \E i \in 1 .. m : Win(m, i)}
  <1>1. n \in Nat /\ n # 0 /\ DOMAIN s = 1 .. n
    OBVIOUS
  <1>2. \A i \in 1 .. n : h(i) \in Nat
    OBVIOUS
  <1> HIDE DEF n, h
  <1>3. 0 \in T
    OBVIOUS
  <1>4. ASSUME NEW m \in T PROVE m + 1 \in T
    <2> DEFINE l == m + 1
    <2> SUFFICES ASSUME l <= n PROVE \E i \in 1 .. l : Win(l, i)
      OBVIOUS
    <2>1. m \in Nat /\ m <= n
      BY <1>1
    <2>2. /\ l \in 1 .. n /\ l \in 1 .. l /\ l - 1 = m
          /\ \A j \in 1 .. l : j \in 1 .. m \/ j = l
          /\ \A j \in 1 .. m : j \in 1 .. n /\ j \in 1 .. l
      BY <1>1, <2>1
    <2>3. h(l) \in Nat /\ \A j \in 1 .. m : h(j) \in Nat
      BY <1>2, <2>2
    <2>4. CASE m = 0
      <3>1. \A j \in 1 .. m : FALSE
        BY <2>4
      <3> HIDE DEF l
      <3>2. Win(l, l)
        <4>1. h(l) <= h(l) /\ l = 1
          BY <2>2, <2>3, <2>4
        <4>2. \A j \in 1 .. l : j = l
          BY <2>2, <3>1
        <4>3. \A j \in 1 .. l - 1 : FALSE
          BY <4>1
        <4> QED BY <4>1, <4>2, <4>3
      <3> HIDE DEF Win
      <3> QED BY <2>2, <3>2
    <2>5. CASE m # 0
      <3>1. PICK i \in 1 .. m : Win(m, i)
        BY <2>1, <2>5
      <3>2. h(i) \in Nat
        BY <2>3, <3>1
      <3> HIDE DEF l
      <3>3. CASE h(l) <= h(i)
        <4>1. Win(l, i)
          BY <2>2, <3>1, <3>3
        <4> HIDE DEF Win
        <4> QED BY <2>2, <3>1, <4>1
      <3>4. CASE h(i) < h(l)
        <4>1. \A j \in 1 .. m : h(j) < h(l)
          BY <2>3, <3>1, <3>2, <3>4
        <4>2. \A j \in 1 .. l - 1 : h(j) < h(l)
          BY <2>2, <4>1
        <4>3. \A j \in 1 .. m : h(j) <= h(l)
          BY <2>3, <4>1
        <4>4. h(l) <= h(l)
          BY <2>3
        <4>5. \A j \in 1 .. l : h(j) <= h(l)
          BY <2>2, <4>3, <4>4
        <4>6. Win(l, l)
          BY <4>2, <4>5
        <4> HIDE DEF Win
        <4> QED BY <2>2, <4>6
      <3>5. h(l) <= h(i) \/ h(i) < h(l)
        BY <2>3, <3>2
      <3> HIDE DEF Win
      <3> QED BY <3>3, <3>4, <3>5
    <2> QED BY <2>4, <2>5
  <1>5. T = Nat
    <2>1. T \subseteq Nat
      OBVIOUS
    <2> HIDE DEF T
    <2> QED BY <1>3, <1>4, <2>1, SetInduction
  <1>6. \E i \in 1 .. n : Win(n, i)
    <2> HIDE DEF Win
    <2>1. \A m \in Nat : m # 0 /\ m <= n => \E i \in 1 .. m : Win(m, i)
      BY <1>5
    <2>2. n <= n
      BY <1>1
    <2> QED BY <1>1, <2>1, <2>2
  <1> DEFINE c == CHOOSE i \in 1 .. n : Win(n, i)
  <1>7. LwwSelect(s) = s[c]
    BY <1>1 DEF LwwSelect, n, h
  <1>8. c \in 1 .. n /\ Win(n, c)
    <2> HIDE DEF Win
    <2> QED BY <1>6
  <1> HIDE DEF c
  <1> QED BY <1>7, <1>8 DEF n, h

\* The inductive invariant.
Inv == /\ TypeOK /\ RangeInv /\ LockInv /\ EndInv /\ AwakeInv /\ RecordInv /\ FindInv
       /\ moved \/ (WorkerInv /\ PlaceInv)

\* The types, at first.
LEMMA InitType == Init => TypeOK
  <1> SUFFICES ASSUME Init PROVE TypeOK
    OBVIOUS
  <1>1. /\ wal \in Seq([key : Keys, ts : Nat]) /\ Len(wal) = 0
        /\ tables = << <<>> >> /\ memtable = 1
        /\ queue \in Seq(Nat) /\ working \in Seq(Nat) /\ base \in Nat
        /\ level0 \in Seq(Nat)
    BY DEF Init
  <1>m. moved \in BOOLEAN
    BY DEF Init
  <1>2. tables \in Seq(Seq(Nat)) /\ Len(tables) = 1
    BY <1>1
  <1>3. memtable \in 0 .. Len(tables)
    BY <1>1, <1>2
  <1>4. sst \in [next : Nat \ {0}, of : [Workers -> Nat]] /\ DOMAIN filters = {}
    BY DEF Init
  <1>5. /\ cpc \in [Clients -> {"idle", "append", "size", "rotate", "replace",
                                "queue", "select", "done"}]
        /\ rec \in [Clients -> Nat] /\ ptr \in [Clients -> Nat]
        /\ seek \in [Clients -> Keys \cup {NoKey}]
        /\ found \in [Clients -> Seq(Nat)]
        /\ owed \in [Clients -> SUBSET Nat]
        /\ got \in [Clients -> Nat]
    BY DEF Init
  <1>6. /\ wpc \in [Workers -> {"check", "blocking", "asleep", "pick", "write", "list",
                                "compacting", "retire", "exited"}]
        /\ slot \in [Workers -> Nat] /\ taken \in [Workers -> Nat]
        /\ life \in {"open", "destroyed", "stopped", "notified", "closed"}
        /\ acked = {} /\ retired = {} /\ aborted \in BOOLEAN
    BY DEF Init
  <1> QED BY <1>1, <1>m, <1>2, <1>3, <1>4, <1>5, <1>6 DEF TypeOK

\* A write adds one entry to the log.
LEMMA WriteLogs ==
    ASSUME TypeOK, NEW c \in Clients, NEW k \in Keys, Write(c, k)
    PROVE  /\ wal \in Seq([key : Keys, ts : Nat]) /\ wal' \in Seq([key : Keys, ts : Nat])
           /\ Len(wal) \in Nat /\ Len(wal') = Len(wal) + 1
           /\ \A o \in 1 .. Len(wal) : wal'[o] = wal[o]
  <1> DEFINE R == [key : Keys, ts : Nat]
  <1>1. wal \in Seq(R) /\ Len(wal) \in Nat /\ Len(wal) < MaxWrites
    BY DEF TypeOK, Write
  <1>2. PICK ts \in Stamps[Len(wal) + 1] : wal' = Append(wal, [key |-> k, ts |-> ts])
    BY DEF Write
  <1>3. Len(wal) + 1 \in 1 .. MaxWrites
    BY <1>1, DatabaseAssumption
  <1>4. Stamps[Len(wal) + 1] \subseteq Nat
    BY <1>3, DatabaseAssumption
  <1>5. PICK r \in R : wal' = Append(wal, r)
    BY <1>2, <1>4
  <1> HIDE DEF R
  <1>6. /\ wal' \in Seq(R) /\ Len(wal') = Len(wal) + 1
        /\ \A o \in 1 .. Len(wal) : wal'[o] = wal[o]
    BY <1>1, <1>5
  <1> QED BY <1>1, <1>6 DEF R

\* The types after each step of a client.
LEMMA TypeWrite ==
    ASSUME TypeOK, NEW c \in Clients, NEW k \in Keys, Write(c, k)
    PROVE  TypeOK'
  <1>1. wal' \in Seq([key : Keys, ts : Nat]) /\ wal \in Seq([key : Keys, ts : Nat])
    BY WriteLogs
  <1>2. Len(wal') = Len(wal) + 1 /\ Len(wal) \in Nat
    BY <1>1, WriteLogs
  <1>3. acked' \subseteq 1 .. Len(wal')
    BY <1>2 DEF Write, TypeOK
  <1>4. /\ rec' \in [Clients -> Nat] /\ ptr' \in [Clients -> Nat]
        /\ aborted' \in BOOLEAN
        /\ cpc' \in [Clients -> {"idle", "append", "size", "rotate", "replace",
                                 "queue", "select", "done"}]
    BY <1>2 DEF Write, TypeOK, Goto
  <1> QED BY <1>1, <1>3, <1>4 DEF Write, TypeOK, queueVars, sstVars, workerVars

\* A record goes to a table that exists.
LEMMA TypeAppend ==
    ASSUME TypeOK, RecordInv, ~aborted, NEW c \in Clients, AppendRecord(c)
    PROVE  TypeOK'
  <1>1. ptr[c] \in 1 .. Len(tables)
    BY DEF AppendRecord, RecordInv
  <1>2. tables \in Seq(Seq(Nat)) /\ rec[c] \in Nat /\ tables[ptr[c]] \in Seq(Nat)
    BY <1>1 DEF TypeOK
  <1>3. Append(tables[ptr[c]], rec[c]) \in Seq(Nat)
    BY <1>2
  <1>4. tables' = [tables EXCEPT ![ptr[c]] = Append(tables[ptr[c]], rec[c])]
    BY DEF AppendRecord
  <1>5. tables' \in Seq(Seq(Nat)) /\ Len(tables') = Len(tables)
    BY <1>1, <1>2, <1>3, <1>4, ExceptSeq
  <1>6. /\ aborted' \in BOOLEAN
        /\ cpc' \in [Clients -> {"idle", "append", "size", "rotate", "replace",
                                 "queue", "select", "done"}]
    BY DEF AppendRecord, TypeOK, Goto
  <1> QED BY <1>5, <1>6 DEF AppendRecord, TypeOK, queueVars, sstVars, workerVars

\* A write that returns was logged.
LEMMA TypeAcknowledge ==
    ASSUME TypeOK, RecordInv, NEW c \in Clients, Storing(c), Acknowledge(c)
    PROVE  /\ cpc' \in [Clients -> {"idle", "append", "size", "rotate", "replace",
                                    "queue", "select", "done"}]
           /\ rec' \in [Clients -> Nat] /\ ptr' \in [Clients -> Nat]
           /\ acked' \subseteq 1 .. Len(wal)
  <1>1. rec[c] \in 1 .. Len(wal)
    BY DEF RecordInv
  <1>2. acked' \subseteq 1 .. Len(wal)
    BY <1>1 DEF Acknowledge, TypeOK
  <1>3. rec' \in [Clients -> Nat] /\ ptr' \in [Clients -> Nat]
    BY DEF Acknowledge, TypeOK
  <1>4. cpc' \in [Clients -> {"idle", "append", "size", "rotate", "replace",
                              "queue", "select", "done"}]
    BY DEF Acknowledge, Goto, TypeOK
  <1> QED BY <1>2, <1>3, <1>4

\* The size is asked, and the write may return.
LEMMA TypeCheckSize ==
    ASSUME TypeOK, RecordInv, NEW c \in Clients, CheckSize(c)
    PROVE  TypeOK'
  <1>1. Storing(c) /\ aborted' \in BOOLEAN
    BY DEF CheckSize, Storing
  <1>2. /\ cpc' \in [Clients -> {"idle", "append", "size", "rotate", "replace",
                                    "queue", "select", "done"}]
        /\ rec' \in [Clients -> Nat] /\ ptr' \in [Clients -> Nat]
        /\ acked' \subseteq 1 .. Len(wal)
    <2>1. CASE Goto(c, "rotate") /\ UNCHANGED <<rec, ptr, acked>>
      BY <2>1 DEF Goto, TypeOK
    <2> QED BY <1>1, <2>1, TypeAcknowledge DEF CheckSize
  <1> QED BY <1>1, <1>2 DEF CheckSize, TypeOK, memVars, queueVars, sstVars, workerVars

\* The table moves to the queue.
LEMMA TypeHandOver ==
    ASSUME TypeOK, NEW c \in Clients, HandOver(c)
    PROVE  TypeOK'
  <1>1. queue' \in Seq(Nat)
    <2>1. memtable \in Nat
      BY DEF TypeOK
    <2> QED BY <2>1 DEF HandOver, TypeOK
  <1>2. memtable' \in 0 .. Len(tables)
    BY DEF HandOver, TypeOK
  <1>3. wpc' \in [Workers -> {"check", "blocking", "asleep", "pick", "write", "list",
                              "compacting", "retire", "exited"}]
    BY DEF HandOver, NotifyOne, WGoto, TypeOK
  <1>4. cpc' \in [Clients -> {"idle", "append", "size", "rotate", "replace",
                              "queue", "select", "done"}]
    BY DEF HandOver, Goto, TypeOK
  <1> QED BY <1>1, <1>2, <1>3, <1>4 DEF HandOver, TypeOK, sstVars

\* The numbers of the tables grow by one.
LEMMA TypeReplace ==
    ASSUME TypeOK, RecordInv, NEW c \in Clients, Replace(c)
    PROVE  TypeOK'
  <1>1. tables' = Append(tables, <<>>) /\ tables \in Seq(Seq(Nat)) /\ <<>> \in Seq(Nat)
    BY DEF Replace, TypeOK
  <1>2. tables' \in Seq(Seq(Nat)) /\ Len(tables') = Len(tables) + 1 /\ Len(tables) \in Nat
    BY <1>1
  <1>3. memtable' \in 0 .. Len(tables') /\ retired' \subseteq 1 .. Len(tables')
    BY <1>2 DEF Replace, TypeOK
  <1>4. Storing(c)
    BY DEF Replace, Storing
  <1>5. /\ cpc' \in [Clients -> {"idle", "append", "size", "rotate", "replace",
                                 "queue", "select", "done"}]
        /\ rec' \in [Clients -> Nat] /\ ptr' \in [Clients -> Nat]
        /\ acked' \subseteq 1 .. Len(wal)
    BY <1>4, TypeAcknowledge DEF Replace
  <1> QED BY <1>2, <1>3, <1>5 DEF Replace, TypeOK, queueVars, sstVars, workerVars

\* A find starts at a table that exists.
LEMMA TypeFindMemtable ==
    ASSUME TypeOK, LockInv, NEW c \in Clients, NEW k \in Keys, FindMemtable(c, k)
    PROVE  TypeOK'
  <1>1. memtable \in 1 .. Len(tables)
    <2>1. memtable # 0 /\ memtable \in 0 .. Len(tables)
      BY DEF FindMemtable, LockInv, TypeOK
    <2> QED BY <2>1
  <1>2. tables[memtable] \in Seq(Nat)
    <2>1. tables \in Seq(Seq(Nat))
      BY DEF TypeOK
    <2> QED BY <1>1, <2>1
  <1>3. Matching(memtable, k) \in Seq(Nat)
    BY <1>2, MatchingHolds
  <1>4. found' \in [Clients -> Seq(Nat)]
    <2> DEFINE q == Matching(memtable, k)
    <2>1. found' = [found EXCEPT ![c] = q]
      BY DEF FindMemtable
    <2>2. found \in [Clients -> Seq(Nat)]
      BY DEF TypeOK
    <2> HIDE DEF q
    <2>3. q \in Seq(Nat)
      BY <1>3 DEF q
    <2> QED BY ONLY <2>1, <2>2, <2>3
  <1>7. seek' \in [Clients -> Keys \cup {NoKey}]
    BY DEF FindMemtable, TypeOK
  <1>5. owed' \in [Clients -> SUBSET Nat]
    <2>0. acked \subseteq Nat
      BY DEF TypeOK
    <2> DEFINE q == {o \in acked : wal[o].key = k}
    <2>1. q \in SUBSET Nat
      BY ONLY <2>0
    <2>2. owed' = [owed EXCEPT ![c] = q]
      BY DEF FindMemtable
    <2>3. owed \in [Clients -> SUBSET Nat]
      BY DEF TypeOK
    <2> HIDE DEF q
    <2> QED BY ONLY <2>1, <2>2, <2>3
  <1>6. cpc' \in [Clients -> {"idle", "append", "size", "rotate", "replace",
                              "queue", "select", "done"}]
    BY DEF FindMemtable, Goto, TypeOK
  <1> QED BY <1>4, <1>5, <1>6, <1>7 DEF FindMemtable, TypeOK, memVars, queueVars, sstVars, workerVars

\* What the scan of the queue and of working_ finds.
LEMMA FindQueueFinds ==
    ASSUME TypeOK, RangeInv, NEW k
    PROVE  /\ MatchingIn(UnflushedTables, k) \in Seq(Nat)
           /\ \A o : Among(o, MatchingIn(UnflushedTables, k)) <=>
                 \E t \in 1 .. Len(tables) :
                    /\ Among(t, queue) \/ Among(t, working)
                    /\ Among(o, tables[t]) /\ wal[o].key = k
  <1> DEFINE u == UnflushedTables
  <1>1. /\ u \in Seq(Nat)
        /\ \A t : Among(t, u) <=> Among(t, queue) \/ Among(t, working)
    BY UnflushedHolds DEF TypeOK
  <1>2. \A t : Among(t, queue) \/ Among(t, working) => t \in 1 .. Len(tables)
    BY DEF RangeInv, Among
  <1> HIDE DEF u
  <1>3. \A i \in 1 .. Len(u) : Among(u[i], u)
    BY DEF Among
  <1>4. \A i \in 1 .. Len(u) : u[i] \in 1 .. Len(tables)
    BY <1>1, <1>2, <1>3
  <1>5. /\ MatchingIn(u, k) \in Seq(Nat)
        /\ \A o : Among(o, MatchingIn(u, k)) <=>
                 \E i \in 1 .. Len(u) : Among(o, tables[u[i]]) /\ wal[o].key = k
    <2>1. tables \in Seq(Seq(Nat))
      BY DEF TypeOK
    <2> QED BY <1>1, <1>4, <2>1, MatchingInHolds
  <1>6. \A o : (\E i \in 1 .. Len(u) : Among(o, tables[u[i]]) /\ wal[o].key = k) <=>
               \E t \in 1 .. Len(tables) : Among(t, u) /\ Among(o, tables[t]) /\ wal[o].key = k
    BY <1>4 DEF Among
  <1> QED BY <1>1, <1>5, <1>6 DEF u

\* It goes on in the queue and in working_.
LEMMA TypeFindQueue ==
    ASSUME TypeOK, RangeInv, NEW c \in Clients, FindQueue(c)
    PROVE  TypeOK'
  <1> DEFINE all == found[c] \o MatchingIn(UnflushedTables, seek[c])
  <1>1. all \in Seq(Nat)
    <2>1. MatchingIn(UnflushedTables, seek[c]) \in Seq(Nat)
      BY FindQueueFinds
    <2>2. found[c] \in Seq(Nat)
      BY DEF TypeOK
    <2> QED BY <2>1, <2>2, ConcatHolds
  <1>2. found' = [found EXCEPT ![c] = all]
    BY DEF FindQueue
  <1>3. \E step \in {"done", "select"} : Goto(c, step)
    BY DEF FindQueue
  <1> HIDE DEF all
  <1>4. found' \in [Clients -> Seq(Nat)]
    BY <1>1, <1>2 DEF TypeOK
  <1>5. cpc' \in [Clients -> {"idle", "append", "size", "rotate", "replace",
                              "queue", "select", "done"}]
    BY <1>3 DEF Goto, TypeOK
  <1> QED BY <1>4, <1>5 DEF FindQueue, TypeOK, memVars, queueVars, sstVars, workerVars

\* What the log holds.
LEMMA WalHolds ==
    ASSUME TypeOK
    PROVE  \A o \in 1 .. Len(wal) : wal[o].ts \in Nat
  <1> DEFINE R == [key : Keys, ts : Nat]
  <1>1. \A r \in R : r.ts \in Nat
    OBVIOUS
  <1>2. wal \in Seq(R)
    BY DEF TypeOK
  <1> HIDE DEF R
  <1>3. \A o \in 1 .. Len(wal) : wal[o] \in R
    BY <1>2
  <1> QED BY <1>1, <1>3

\* What a find answers.
LEMMA SelectAnswers ==
    ASSUME TypeOK, FindInv, NEW c \in Clients, Select(c)
    PROVE  \E a \in Nat :
              /\ got' = [got EXCEPT ![c] = a]
              /\ \/ a = Torn
                 \/ /\ a \in 1 .. Len(wal)
                    /\ \A o : Among(o, found[c]) => wal[o].ts <= wal[a].ts
  <1> DEFINE s == found[c]
  <1>1. /\ s \in Seq(Nat) /\ s # <<>> /\ \A i \in 1 .. Len(s) : s[i] \in 1 .. Len(wal)
        /\ \A o \in 1 .. Len(wal) : wal[o].ts \in Nat
    <2>1. s \in Seq(Nat)
      BY DEF TypeOK
    <2>3. \A o \in 1 .. Len(wal) : wal[o].ts \in Nat
      BY WalHolds
    <2>4. cpc[c] = "select" /\ Finding(c)
      BY DEF Select, Finding
    <2>5. s # <<>> /\ \A i \in 1 .. Len(s) : s[i] \in 1 .. Len(wal)
      BY <2>4 DEF FindInv, Follows
    <2> QED BY <2>1, <2>3, <2>5
  <1>2. PICK i \in 1 .. Len(s) :
           LwwSelect(s) = s[i] /\ \A j \in 1 .. Len(s) : wal[s[j]].ts <= wal[s[i]].ts
    BY <1>1, LwwHolds
  <1>3. \E a \in {LwwSelect(s), Torn} : got' = [got EXCEPT ![c] = a]
    BY DEF Select
  <1>4. Torn \in Nat
    BY DatabaseAssumption DEF Torn
  <1>5. /\ s[i] \in Nat /\ s[i] \in 1 .. Len(wal)
        /\ \A o : Among(o, s) => wal[o].ts <= wal[s[i]].ts
    <2>1. s[i] \in Nat /\ s[i] \in 1 .. Len(wal)
      BY <1>1
    <2>2. ASSUME NEW o, Among(o, s) PROVE wal[o].ts <= wal[s[i]].ts
      <3>1. PICK j \in 1 .. Len(s) : s[j] = o
        BY <2>2 DEF Among
      <3>2. wal[s[j]].ts <= wal[s[i]].ts
        BY <1>2
      <3> QED BY <3>1, <3>2
    <2> QED BY <2>1, <2>2
  <1> HIDE DEF s
  <1>6. CASE got' = [got EXCEPT ![c] = s[i]]
    BY <1>5, <1>6 DEF s
  <1>7. CASE got' = [got EXCEPT ![c] = Torn]
    BY <1>4, <1>7
  <1> QED BY <1>2, <1>3, <1>6, <1>7

\* It answers with a record or with what freed memory holds.
LEMMA TypeSelect ==
    ASSUME TypeOK, FindInv, NEW c \in Clients, Select(c)
    PROVE  TypeOK'
  <1>1. got' \in [Clients -> Nat]
    <2>1. PICK a \in Nat : got' = [got EXCEPT ![c] = a]
      BY SelectAnswers
    <2> QED BY <2>1 DEF TypeOK
  <1>2. aborted' \in BOOLEAN
    BY DEF Select
  <1>3. cpc' \in [Clients -> {"idle", "append", "size", "rotate", "replace",
                              "queue", "select", "done"}]
    BY DEF Select, Goto, TypeOK
  <1> QED BY <1>1, <1>2, <1>3 DEF Select, TypeOK, memVars, queueVars, sstVars, workerVars

\* It returns.
LEMMA TypeReturn ==
    ASSUME TypeOK, NEW c \in Clients, Return(c)
    PROVE  TypeOK'
  <1>1. /\ seek' \in [Clients -> Keys \cup {NoKey}] /\ found' \in [Clients -> Seq(Nat)]
        /\ owed' \in [Clients -> SUBSET Nat] /\ got' \in [Clients -> Nat]
        /\ cpc' \in [Clients -> {"idle", "append", "size", "rotate", "replace",
                                 "queue", "select", "done"}]
    BY DEF Return, Goto, TypeOK
  <1> QED BY <1>1 DEF Return, TypeOK, memVars, queueVars, sstVars, workerVars

\* The types after each step of a worker.
LEMMA TypeTake ==
    ASSUME TypeOK, NEW w \in Workers, Take(w)
    PROVE  TypeOK'
  <1>1. queue \in Seq(Nat) /\ working \in Seq(Nat) /\ base \in Nat /\ queue # <<>>
    BY DEF TypeOK, Take
  <1>2. queue' \in Seq(Nat) /\ working' \in Seq(Nat) /\ base + Len(working) \in Nat
    <2>1. Head(queue) \in Nat /\ Tail(queue) \in Seq(Nat)
      BY <1>1, HeadTailProperties
    <2> QED BY <1>1, <2>1 DEF Take
  <1>3. slot' \in [Workers -> Nat]
    BY <1>2 DEF Take, TypeOK
  <1>4. wpc' \in [Workers -> {"check", "blocking", "asleep", "pick", "write", "list",
                              "compacting", "retire", "exited"}]
    BY DEF Take, WGoto, TypeOK
  <1> QED BY <1>2, <1>3, <1>4 DEF Take, TypeOK, memVars, sstVars, clientVars

\* Workers that leave, block or sleep.
LEMMA TypeWait ==
    ASSUME TypeOK, NEW w \in Workers, Exit(w) \/ Block(w) \/ Sleep(w)
    PROVE  TypeOK'
  <1>1. wpc' \in [Workers -> {"check", "blocking", "asleep", "pick", "write", "list",
                              "compacting", "retire", "exited"}]
    BY DEF Exit, Block, Sleep, WGoto, TypeOK
  <1>2. UNCHANGED <<memVars, queueVars, sstVars, clientVars, slot, taken, life, acked,
                    retired, aborted>>
    BY DEF Exit, Block, Sleep
  <1> QED BY <1>1, <1>2 DEF TypeOK, memVars, queueVars, sstVars, clientVars

\* The next id grows by one.
LEMMA TypePickUp ==
    ASSUME TypeOK, NEW w \in Workers, PickUp(w)
    PROVE  TypeOK'
  <1>1. At(slot[w]) \in Nat
    <2>1. working \in Seq(Nat)
      BY DEF TypeOK
    <2> QED BY <2>1 DEF At
  <1>2. taken' \in [Workers -> Nat]
    BY <1>1 DEF PickUp, TypeOK
  <1>3. /\ sst' \in [next : Nat \ {0}, of : [Workers -> Nat]]
        /\ DOMAIN filters \subseteq 1 .. sst'.next - 1
    <2>1. /\ sst.next \in Nat \ {0} /\ sst.of \in [Workers -> Nat]
          /\ DOMAIN filters \subseteq 1 .. sst.next - 1
      BY DEF TypeOK
    <2>2. [sst.of EXCEPT ![w] = sst.next] \in [Workers -> Nat]
      BY <2>1
    <2>3. sst' = [next |-> sst.next + 1, of |-> [sst.of EXCEPT ![w] = sst.next]]
      BY DEF PickUp
    <2> DEFINE n == sst.next
    <2>4. sst'.next = n + 1 /\ n \in Nat
      BY <2>1, <2>3
    <2>5. 1 .. n - 1 \subseteq 1 .. (n + 1) - 1
      BY <2>1
    <2>6. DOMAIN filters \subseteq 1 .. sst'.next - 1
      BY <2>1, <2>4, <2>5
    <2> QED BY <2>1, <2>2, <2>3, <2>6
  <1>4. wpc' \in [Workers -> {"check", "blocking", "asleep", "pick", "write", "list",
                              "compacting", "retire", "exited"}]
    BY DEF PickUp, WGoto, TypeOK
  <1>5. aborted' \in BOOLEAN
    BY DEF PickUp
  <1> QED BY <1>2, <1>3, <1>4, <1>5 DEF PickUp, TypeOK, memVars, queueVars, clientVars

\* A filter is stored under an id that was handed out.
LEMMA TypeWriteSst ==
    ASSUME TypeOK, RangeInv, NEW w \in Workers, WriteSst(w)
    PROVE  TypeOK'
  <1>1. DOMAIN filters' \subseteq 1 .. sst.next - 1
    <2>1. sst.of[w] \in 1 .. sst.next - 1
      BY DEF WriteSst, RangeInv, Holding
    <2>2. DOMAIN filters' = DOMAIN filters \cup {sst.of[w]}
      BY DEF WriteSst, WithFilter
    <2> QED BY <2>1, <2>2 DEF TypeOK
  <1>2. wpc' \in [Workers -> {"check", "blocking", "asleep", "pick", "write", "list",
                              "compacting", "retire", "exited"}]
    BY DEF WriteSst, WGoto, TypeOK
  <1>3. aborted' \in BOOLEAN
    BY DEF WriteSst
  <1> QED BY <1>1, <1>2, <1>3 DEF WriteSst, TypeOK, memVars, queueVars, clientVars

\* A table is listed, or compaction blocks the worker.
LEMMA TypeListSst ==
    ASSUME TypeOK, NEW w \in Workers, ListSst(w)
    PROVE  TypeOK'
  <1>1. sst.of[w] \in Nat /\ level0 \in Seq(Nat)
    <2>1. sst \in [next : Nat \ {0}, of : [Workers -> Nat]] /\ level0 \in Seq(Nat)
      BY DEF TypeOK
    <2>2. sst.of \in [Workers -> Nat]
      BY <2>1
    <2> QED BY <2>1, <2>2
  <1>2. level0' \in Seq(Nat)
    <2>1. Append(level0, sst.of[w]) \in Seq(Nat)
      BY <1>1
    <2>2. level0' = level0 \/ level0' = Append(level0, sst.of[w])
      BY DEF ListSst
    <2> QED BY <1>1, <2>1, <2>2
  <1>3. wpc' \in [Workers -> {"check", "blocking", "asleep", "pick", "write", "list",
                              "compacting", "retire", "exited"}]
    <2>1. \E step \in {"compacting", "retire"} : wpc' = [wpc EXCEPT ![w] = step]
      BY DEF ListSst, WGoto
    <2> QED BY <2>1 DEF TypeOK
  <1> QED BY <1>2, <1>3 DEF ListSst, TypeOK, memVars, queueVars, clientVars

\* The table that is flushed exists.
LEMMA TypeRetire ==
    ASSUME TypeOK, RangeInv, ~aborted, NEW w \in Workers, Retire(w)
    PROVE  TypeOK'
  <1>1. working' \in Seq(Nat) /\ base' \in Nat /\ moved' \in BOOLEAN
    BY RetireKeeps
  <1>2. retired' \subseteq 1 .. Len(tables)
    <2>1. Holding(w) /\ wpc[w] # "pick"
      BY DEF Retire, Holding
    <2>2. taken[w] \in 1 .. Len(tables)
      BY <2>1 DEF RangeInv
    <2> QED BY <2>2 DEF Retire, TypeOK
  <1>3. taken' \in [Workers -> Nat] /\ slot' \in [Workers -> Nat]
    BY DEF Retire, TypeOK
  <1>4. sst' \in [next : Nat \ {0}, of : [Workers -> Nat]] /\ sst'.next = sst.next
    BY DEF Retire, TypeOK
  <1>5. wpc' \in [Workers -> {"check", "blocking", "asleep", "pick", "write", "list",
                              "compacting", "retire", "exited"}]
    BY DEF Retire, WGoto, TypeOK
  <1> QED BY <1>1, <1>2, <1>3, <1>4, <1>5 DEF Retire, TypeOK, memVars, clientVars

\* The types after each step of the destructor.
LEMMA TypeEnd ==
    ASSUME TypeOK, DestroyMembers \/ SetStop \/ NotifyAll \/ Join
    PROVE  TypeOK'
  <1>1. wpc' \in [Workers -> {"check", "blocking", "asleep", "pick", "write", "list",
                              "compacting", "retire", "exited"}]
    BY DEF DestroyMembers, SetStop, NotifyAll, Join, workerVars, TypeOK
  <1>2. life' \in {"open", "destroyed", "stopped", "notified", "closed"}
    BY DEF DestroyMembers, SetStop, NotifyAll, Join, Advance
  <1>3. UNCHANGED <<memVars, queueVars, sstVars, clientVars, slot, taken, acked,
                    retired, aborted>>
    BY DEF DestroyMembers, SetStop, NotifyAll, Join, workerVars
  <1> QED BY <1>1, <1>2, <1>3 DEF TypeOK, memVars, queueVars, sstVars, clientVars

\* The types after any step.
LEMMA TypeStep == Inv /\ [Next]_vars => TypeOK'
  <1> SUFFICES ASSUME Inv, [Next]_vars PROVE TypeOK'
    OBVIOUS
  <1> USE DEF Inv
  <1>1. ASSUME NEW c \in Clients, NEW k \in Keys, Write(c, k)
        PROVE  TypeOK'
    BY <1>1, TypeWrite
  <1>2. ASSUME NEW c \in Clients, NEW k \in Keys, FindMemtable(c, k) PROVE TypeOK'
    BY <1>2, TypeFindMemtable
  <1>3. ASSUME NEW c \in Clients, ~aborted, ClientStep(c) PROVE TypeOK'
    BY <1>3, TypeAppend, TypeCheckSize, TypeHandOver, TypeReplace, TypeFindQueue,
       TypeSelect, TypeReturn DEF ClientStep
  <1>4. ASSUME NEW w \in Workers, ~aborted, WorkerStep(w) PROVE TypeOK'
    BY <1>4, TypeTake, TypeWait, TypePickUp, TypeWriteSst, TypeListSst, TypeRetire
       DEF WorkerStep
  <1>5. ASSUME DestroyMembers \/ SetStop \/ NotifyAll \/ Join PROVE TypeOK'
    BY <1>5, TypeEnd
  <1>6. ASSUME UNCHANGED vars PROVE TypeOK'
    BY <1>6 DEF vars, memVars, queueVars, sstVars, clientVars, workerVars, TypeOK
  <1> QED BY <1>1, <1>2, <1>3, <1>4, <1>5, <1>6 DEF Next

\* Steps that leave the workers' tables, slots and ids alone.
LEMMA WorkerFrame ==
    ASSUME WorkerInv, UNCHANGED <<working, base, slot, taken>>,
           \A w \in Workers : (Holding(w)' <=> Holding(w)) /\ (wpc'[w] = "pick" <=> wpc[w] = "pick")
    PROVE  WorkerInv'
  <1>1. \A w \in Workers : Place(w)' = Place(w)
    BY DEF Place
  <1>2. \A w \in Workers : Holding(w)' => Place(w)' \in 1 .. Len(working')
    BY <1>1 DEF WorkerInv
  <1>3. \A v, w \in Workers : Holding(v)' /\ Holding(w)' /\ slot'[v] = slot'[w] => v = w
    BY DEF WorkerInv
  <1>4. \A i \in 1 .. Len(working') : \E w \in Workers : Holding(w)' /\ Place(w)' = i
    BY <1>1 DEF WorkerInv
  <1>5. \A w \in Workers : Holding(w)' /\ wpc'[w] # "pick" => taken'[w] = working'[Place(w)']
    BY <1>1 DEF WorkerInv
  <1> HIDE DEF Holding, Place
  <1> QED BY <1>2, <1>3, <1>4, <1>5 DEF WorkerInv

\* A new iterator names the new last element.
LEMMA WorkerTake ==
    ASSUME TypeOK, WorkerInv, NEW w \in Workers, Take(w)
    PROVE  WorkerInv'
  <1> DEFINE n == Len(working)
  <1>1. /\ working \in Seq(Nat) /\ n \in Nat /\ base \in Nat /\ slot \in [Workers -> Nat]
        /\ wpc \in [Workers -> {"check", "blocking", "asleep", "pick", "write", "list",
                                "compacting", "retire", "exited"}]
    BY DEF TypeOK
  <1>2. /\ working' = Append(working, Head(queue)) /\ base' = base /\ taken' = taken
        /\ slot' = [slot EXCEPT ![w] = base + n]
        /\ wpc' = [wpc EXCEPT ![w] = "pick"] /\ wpc[w] = "check"
    BY DEF Take, WGoto
  <1>3. /\ Len(working') = n + 1
        /\ \A i \in 1 .. n : working'[i] = working[i]
    BY <1>1, <1>2
  <1>4. /\ ~Holding(w) /\ Holding(w)'
        /\ \A v \in Workers : v # w =>
              (Holding(v)' <=> Holding(v)) /\ wpc'[v] = wpc[v] /\ slot'[v] = slot[v]
                 /\ Place(v)' = Place(v)
    BY <1>1, <1>2 DEF Holding, Place
  <1>5. slot'[w] = base + n /\ Place(w)' = n + 1
    BY <1>1, <1>2 DEF Place
  <1>6. \A v \in Workers : Holding(v) => Place(v) \in 1 .. n
    BY DEF WorkerInv
  <1>7. \A v \in Workers : Holding(v) => slot[v] < base + n
    BY <1>1, <1>6 DEF Place
  <1> HIDE DEF n
  <1>8. \A v \in Workers : Holding(v)' => Place(v)' \in 1 .. Len(working')
    BY <1>1, <1>3, <1>4, <1>5, <1>6
  <1>9. \A u, v \in Workers : Holding(u)' /\ Holding(v)' /\ slot'[u] = slot'[v] => u = v
    <2>1. \A v \in Workers : v # w /\ Holding(v)' => slot'[v] # slot'[w]
      BY <1>1, <1>4, <1>5, <1>7
    <2>2. \A u, v \in Workers : Holding(u) /\ Holding(v) /\ slot[u] = slot[v] => u = v
      BY DEF WorkerInv
    <2> QED BY <1>4, <2>1, <2>2
  <1>10. ASSUME NEW i \in 1 .. Len(working')
         PROVE  \E v \in Workers : Holding(v)' /\ Place(v)' = i
    <2>1. i = n + 1 \/ i \in 1 .. n
      BY <1>1, <1>3
    <2>2. CASE i \in 1 .. n
      <3>1. PICK v \in Workers : Holding(v) /\ Place(v) = i
        BY <2>2 DEF WorkerInv, n
      <3> QED BY <1>4, <3>1
    <2> QED BY <1>4, <1>5, <2>1, <2>2
  <1>11. \A v \in Workers : Holding(v)' /\ wpc'[v] # "pick" => taken'[v] = working'[Place(v)']
    <2>1. wpc'[w] = "pick"
      BY <1>1, <1>2
    <2>2. \A v \in Workers : Holding(v) /\ wpc[v] # "pick" => taken[v] = working[Place(v)]
      BY DEF WorkerInv
    <2>3. \A v \in Workers : Holding(v) => working'[Place(v)] = working[Place(v)]
      BY <1>3, <1>6
    <2> QED BY <1>2, <1>4, <2>1, <2>2, <2>3
  <1> HIDE DEF Holding, Place
  <1> QED BY <1>8, <1>9, <1>10, <1>11 DEF WorkerInv

\* The worker reads the element that its iterator names.
LEMMA WorkerPickUp ==
    ASSUME TypeOK, WorkerInv, NEW w \in Workers, PickUp(w)
    PROVE  WorkerInv'
  <1>1. /\ wpc \in [Workers -> {"check", "blocking", "asleep", "pick", "write", "list",
                                "compacting", "retire", "exited"}]
        /\ taken \in [Workers -> Nat]
    BY DEF TypeOK
  <1>2. /\ working' = working /\ base' = base /\ slot' = slot
        /\ taken' = [taken EXCEPT ![w] = At(slot[w])]
        /\ wpc' = [wpc EXCEPT ![w] = "write"] /\ wpc[w] = "pick"
    BY DEF PickUp, WGoto, queueVars
  <1>3. /\ Holding(w) /\ Holding(w)'
        /\ \A v \in Workers : Place(v)' = Place(v)
        /\ \A v \in Workers : Holding(v)' <=> Holding(v)
        /\ \A v \in Workers : v # w => wpc'[v] = wpc[v] /\ taken'[v] = taken[v]
    BY <1>1, <1>2 DEF Holding, Place
  <1>4. taken'[w] = working[Place(w)]
    <2>1. Place(w) \in 1 .. Len(working)
      BY <1>3 DEF WorkerInv
    <2>2. working \in Seq(Nat)
      BY DEF TypeOK
    <2> QED BY <1>1, <1>2, <2>1, <2>2 DEF At, Place
  <1>6. \A v \in Workers : Holding(v)' => Place(v)' \in 1 .. Len(working')
    BY <1>2, <1>3 DEF WorkerInv
  <1>7. \A u, v \in Workers : Holding(u)' /\ Holding(v)' /\ slot'[u] = slot'[v] => u = v
    BY <1>2, <1>3 DEF WorkerInv
  <1>8. \A i \in 1 .. Len(working') : \E v \in Workers : Holding(v)' /\ Place(v)' = i
    BY <1>2, <1>3 DEF WorkerInv
  <1>9. ASSUME NEW v \in Workers, Holding(v)', wpc'[v] # "pick"
        PROVE  taken'[v] = working'[Place(v)']
    <2>1. CASE v = w
      BY <1>2, <1>3, <1>4, <2>1
    <2>2. CASE v # w
      <3>1. taken[v] = working[Place(v)]
        BY <1>3, <1>9, <2>2 DEF WorkerInv
      <3> QED BY <1>2, <1>3, <2>2, <3>1
    <2> QED BY <2>1, <2>2
  <1> HIDE DEF Holding, Place
  <1> QED BY <1>6, <1>7, <1>8, <1>9 DEF WorkerInv

\* The other workers keep their elements when the first or the last is erased.
LEMMA WorkerRetire ==
    ASSUME TypeOK, WorkerInv, NEW w \in Workers, Retire(w), ~moved'
    PROVE  WorkerInv'
  <1>1. /\ wpc \in [Workers -> {"check", "blocking", "asleep", "pick", "write", "list",
                                "compacting", "retire", "exited"}]
        /\ taken \in [Workers -> Nat] /\ slot \in [Workers -> Nat]
        /\ working \in Seq(Nat) /\ base \in Nat
    BY DEF TypeOK
  <1>2. /\ working' \in Seq(Nat) /\ base' \in Nat
        /\ \A i \in 1 .. Len(working') : \E j \in 1 .. Len(working) :
              j # Place(w) /\ working'[i] = working[j] /\ base' + i = base + j
        /\ \A j \in 1 .. Len(working) : j # Place(w) =>
              \E i \in 1 .. Len(working') :
                 working'[i] = working[j] /\ base' + i = base + j
    BY <1>1, RetireErases
  <1>3. /\ wpc' = [wpc EXCEPT ![w] = "check"] /\ wpc[w] = "retire"
        /\ slot' = [slot EXCEPT ![w] = 0] /\ taken' = [taken EXCEPT ![w] = 0]
    BY DEF Retire, WGoto
  <1>5. /\ Holding(w) /\ ~Holding(w)'
        /\ \A v \in Workers : v # w => /\ Holding(v)' <=> Holding(v)
                                       /\ wpc'[v] = wpc[v] /\ slot'[v] = slot[v]
                                       /\ taken'[v] = taken[v]
    BY <1>1, <1>3 DEF Holding
  <1>6. \A v \in Workers : Holding(v) /\ v # w => Place(v) # Place(w)
    <2>1. \A v \in Workers : Holding(v) /\ v # w => slot[v] # slot[w]
      BY <1>5 DEF WorkerInv
    <2> QED BY <1>1, <2>1 DEF Place
  <1>7. ASSUME NEW v \in Workers, Holding(v)'
        PROVE  /\ v # w /\ Holding(v)
               /\ Place(v)' \in 1 .. Len(working')
               /\ working'[Place(v)'] = working[Place(v)]
    <2>1. v # w /\ Holding(v)
      BY <1>5, <1>7
    <2>2. Place(v) \in 1 .. Len(working) /\ Place(v) # Place(w)
      BY <1>6, <2>1 DEF WorkerInv
    <2>3. PICK i \in 1 .. Len(working') :
             working'[i] = working[Place(v)] /\ base' + i = base + Place(v)
      BY <1>2, <2>2
    <2>4. Place(v)' = i
      <3> DEFINE s == slot[v]
                 b == base
                 x == base'
      <3>1. slot'[v] = s /\ Place(v)' = s - x + 1
        BY <1>5, <2>1, <2>3 DEF Place
      <3>2. x + i = b + (s - b + 1)
        BY <2>3 DEF Place
      <3>3. s \in Nat /\ i \in Int /\ b \in Nat /\ x \in Nat
        BY <1>1, <1>2
      <3> HIDE DEF s, b, x
      <3>4. s - x + 1 = i
        BY ONLY <3>2, <3>3
      <3> QED BY <3>1, <3>4
    <2> QED BY <2>1, <2>3, <2>4
  <1>8. \A u, v \in Workers : Holding(u)' /\ Holding(v)' /\ slot'[u] = slot'[v] => u = v
    BY <1>5, <1>7 DEF WorkerInv
  <1>9. ASSUME NEW i \in 1 .. Len(working')
        PROVE  \E v \in Workers : Holding(v)' /\ Place(v)' = i
    <2>1. PICK j \in 1 .. Len(working) : j # Place(w) /\ base' + i = base + j
      BY <1>2
    <2>2. PICK v \in Workers : Holding(v) /\ Place(v) = j
      BY DEF WorkerInv
    <2>3. v # w /\ Holding(v)' /\ slot'[v] = slot[v]
      BY <1>5, <2>1, <2>2
    <2>4. Place(v)' = i
      <3> DEFINE s == slot[v]
                 b == base
                 x == base'
      <3>1. Place(v)' = s - x + 1
        BY <2>3 DEF Place
      <3>2. x + i = b + (s - b + 1)
        BY <2>1, <2>2 DEF Place
      <3>3. s \in Nat /\ i \in Int /\ b \in Nat /\ x \in Nat
        BY <1>1, <1>2
      <3> HIDE DEF s, b, x
      <3>4. s - x + 1 = i
        BY ONLY <3>2, <3>3
      <3> QED BY <3>1, <3>4
    <2> QED BY <2>3, <2>4
  <1>10. \A v \in Workers : Holding(v)' /\ wpc'[v] # "pick" => taken'[v] = working'[Place(v)']
    <2>1. \A v \in Workers : Holding(v) /\ wpc[v] # "pick" => taken[v] = working[Place(v)]
      BY DEF WorkerInv
    <2> QED BY <1>5, <1>7, <2>1
  <1>11. \A v \in Workers : Holding(v)' => Place(v)' \in 1 .. Len(working')
    BY <1>7
  <1> HIDE DEF Holding, Place
  <1> QED BY <1>8, <1>9, <1>10, <1>11 DEF WorkerInv

\* What an erase has moved stays moved.
LEMMA MovedStays == moved /\ [Next]_vars => moved'
  <1> SUFFICES ASSUME moved, Next \/ UNCHANGED vars, ~UNCHANGED moved PROVE moved'
    OBVIOUS
  <1>1. UNCHANGED queueVars => UNCHANGED moved
    BY DEF queueVars
  <1>2. ASSUME NEW w \in Workers, Retire(w) PROVE moved'
    BY <1>2 DEF Retire, EraseWorking
  <1>3. ASSUME NEW w \in Workers, WorkerStep(w) PROVE UNCHANGED moved \/ moved'
    BY <1>1, <1>2, <1>3 DEF WorkerStep, Take, Exit, Block, Sleep, PickUp, WriteSst, ListSst
  <1>4. ASSUME NEW c \in Clients, ClientStep(c) PROVE UNCHANGED moved
    BY <1>1, <1>4 DEF ClientStep, AppendRecord, CheckSize, HandOver, Replace, FindQueue,
       Select, Return
  <1>5. ASSUME NEW c \in Clients, NEW k \in Keys, Write(c, k) \/ FindMemtable(c, k)
        PROVE  UNCHANGED moved
    BY <1>1, <1>5 DEF Write, FindMemtable
  <1>6. ASSUME DestroyMembers \/ SetStop \/ NotifyAll \/ Join PROVE UNCHANGED moved
    BY <1>1, <1>6 DEF DestroyMembers, SetStop, NotifyAll, Join
  <1>7. ASSUME UNCHANGED vars PROVE UNCHANGED moved
    BY <1>1, <1>7 DEF vars
  <1> QED BY <1>3, <1>4, <1>5, <1>6, <1>7 DEF Next

\* Until an erase moves others, each step leaves iterators and elements one to one.
LEMMA WorkerStays == Inv /\ [Next]_vars /\ ~moved' => WorkerInv'
  <1> SUFFICES ASSUME Inv, [Next]_vars, ~moved' PROVE WorkerInv'
    OBVIOUS
  <1>i. TypeOK /\ WorkerInv
    BY MovedStays DEF Inv
  <1>w. wpc \in [Workers -> {"check", "blocking", "asleep", "pick", "write", "list",
                             "compacting", "retire", "exited"}]
    BY <1>i DEF TypeOK
  <1>f. ASSUME UNCHANGED <<queueVars, workerVars>> PROVE WorkerInv'
    <2>1. UNCHANGED <<working, base, slot, taken, wpc>>
      BY <1>f DEF queueVars, workerVars
    <2>2. \A w \in Workers : (Holding(w)' <=> Holding(w)) /\ (wpc'[w] = "pick" <=> wpc[w] = "pick")
      BY <2>1 DEF Holding
    <2> QED BY <1>i, <2>1, <2>2, WorkerFrame
  <1>g. ASSUME UNCHANGED <<working, base, slot, taken>>, NEW w \in Workers, NEW step,
               WGoto(w, step),
               \/ step \in {"check", "exited", "blocking", "asleep"}
                     /\ wpc[w] \in {"check", "blocking", "asleep"}
               \/ step \in {"list", "retire", "compacting"} /\ wpc[w] \in {"write", "list"}
        PROVE  WorkerInv'
    <2>1. \A v \in Workers : (Holding(v)' <=> Holding(v)) /\ (wpc'[v] = "pick" <=> wpc[v] = "pick")
      BY <1>g, <1>w DEF Holding, WGoto
    <2> QED BY <1>i, <1>g, <2>1, WorkerFrame
  <1>1. ASSUME NEW c \in Clients, NEW k \in Keys, Write(c, k)
        PROVE  WorkerInv'
    BY <1>1, <1>f DEF Write
  <1>2. ASSUME NEW c \in Clients, NEW k \in Keys, FindMemtable(c, k) PROVE WorkerInv'
    BY <1>2, <1>f DEF FindMemtable
  <1>3. ASSUME NEW c \in Clients, HandOver(c) PROVE WorkerInv'
    <2>1. UNCHANGED <<working, base, slot, taken>>
      BY <1>3 DEF HandOver
    <2>2. CASE UNCHANGED wpc
      <3>1. \A w \in Workers : (Holding(w)' <=> Holding(w)) /\ (wpc'[w] = "pick" <=> wpc[w] = "pick")
        BY <2>2 DEF Holding
      <3> QED BY <1>i, <2>1, <3>1, WorkerFrame
    <2>3. CASE \E w \in Asleep : WGoto(w, "check")
      <3>1. PICK w \in Workers : wpc[w] = "asleep" /\ WGoto(w, "check")
        BY <2>3 DEF Asleep
      <3> QED BY <1>g, <2>1, <3>1
    <2> QED BY <1>3, <2>2, <2>3 DEF HandOver, NotifyOne
  <1>4. ASSUME NEW c \in Clients, ClientStep(c) PROVE WorkerInv'
    BY <1>3, <1>4, <1>f DEF ClientStep, AppendRecord, CheckSize, Replace, FindQueue,
       Select, Return
  <1>5. ASSUME NEW w \in Workers, Exit(w) \/ Block(w) \/ Sleep(w) PROVE WorkerInv'
    <2>1. UNCHANGED <<working, base, slot, taken>>
      BY <1>5 DEF Exit, Block, Sleep, queueVars
    <2>2. \E step \in {"exited", "blocking", "asleep"} :
             WGoto(w, step) /\ wpc[w] \in {"check", "blocking", "asleep"}
      BY <1>5 DEF Exit, Block, Sleep
    <2> QED BY <1>g, <2>1, <2>2
  <1>6. ASSUME NEW w \in Workers, WriteSst(w) \/ ListSst(w) PROVE WorkerInv'
    <2>1. UNCHANGED <<working, base, slot, taken>>
      BY <1>6 DEF WriteSst, ListSst, queueVars
    <2>2. \E step \in {"list", "retire", "compacting"} :
             WGoto(w, step) /\ wpc[w] \in {"write", "list"}
      BY <1>6 DEF WriteSst, ListSst
    <2> QED BY <1>g, <2>1, <2>2
  <1>7. ASSUME NEW w \in Workers, WorkerStep(w) PROVE WorkerInv'
    BY <1>5, <1>6, <1>7, <1>i, WorkerTake, WorkerPickUp, WorkerRetire DEF WorkerStep
  <1>8. ASSUME DestroyMembers \/ SetStop \/ Join PROVE WorkerInv'
    BY <1>8, <1>f DEF DestroyMembers, SetStop, Join
  <1>9. ASSUME NotifyAll PROVE WorkerInv'
    <2>1. UNCHANGED <<working, base, slot, taken>>
      BY <1>9 DEF NotifyAll, queueVars
    <2>2. wpc' = [w \in Workers |-> IF wpc[w] = "asleep" THEN "check" ELSE wpc[w]]
      BY <1>9 DEF NotifyAll, Asleep
    <2>3. \A w \in Workers : (Holding(w)' <=> Holding(w)) /\ (wpc'[w] = "pick" <=> wpc[w] = "pick")
      BY <2>2 DEF Holding
    <2> QED BY <1>i, <2>1, <2>3, WorkerFrame
  <1>10. ASSUME UNCHANGED vars PROVE WorkerInv'
    BY <1>10, <1>f DEF vars
  <1> QED BY <1>1, <1>2, <1>4, <1>7, <1>8, <1>9, <1>10 DEF Next

\* Steps that move no table.
LEMMA PlaceFrame ==
    ASSUME PlaceInv, UNCHANGED <<queue, working, memtable, retired>>, Len(tables') = Len(tables)
    PROVE  PlaceInv'
  BY DEF PlaceInv

\* The current table moves to the queue.
LEMMA PlaceHandOver ==
    ASSUME TypeOK, PlaceInv, LockInv, NEW c \in Clients, HandOver(c)
    PROVE  PlaceInv'
  <1> DEFINE n == Len(queue)
  <1>1. /\ queue \in Seq(Nat) /\ n \in Nat /\ memtable \in 0 .. Len(tables) /\ memtable # 0
        /\ Len(tables) \in Nat
    BY DEF TypeOK, HandOver, LockInv
  <1>2. /\ queue' = Append(queue, memtable) /\ memtable' = 0
        /\ UNCHANGED <<tables, working, retired>>
    BY DEF HandOver
  <1>3. /\ Len(queue') = n + 1 /\ queue'[n + 1] = memtable
        /\ \A i \in 1 .. n : queue'[i] = queue[i]
    BY <1>1, <1>2
  <1>4. \A i : i \in 1 .. n + 1 <=> i \in 1 .. n \/ i = n + 1
    BY <1>1
  <1>5. n + 1 \notin 1 .. n
    BY <1>1
  <1>6. memtable \in 1 .. Len(tables) /\ 0 \notin 1 .. Len(tables)
    BY <1>1
  <1> HIDE DEF n
  <1>a. \A i \in 1 .. Len(queue') :
          queue'[i] \in 1 .. Len(tables') /\ queue'[i] \notin retired' /\ queue'[i] # memtable'
    BY <1>2, <1>3, <1>4, <1>6 DEF PlaceInv, n
  <1>b. \A i \in 1 .. Len(working') :
          working'[i] \in 1 .. Len(tables') /\ working'[i] \notin retired' /\ working'[i] # memtable'
    BY <1>2, <1>6 DEF PlaceInv
  <1>c. \A i, j \in 1 .. Len(queue') : queue'[i] = queue'[j] => i = j
    <2>1. \A i \in 1 .. n : queue[i] # memtable
      BY DEF PlaceInv, n
    <2>2. \A i, j \in 1 .. n : queue[i] = queue[j] => i = j
      BY DEF PlaceInv, n
    <2> QED BY <1>3, <1>4, <2>1, <2>2
  <1>d. \A i, j \in 1 .. Len(working') : working'[i] = working'[j] => i = j
    BY <1>2 DEF PlaceInv
  <1>e. \A i \in 1 .. Len(queue'), j \in 1 .. Len(working') : queue'[i] # working'[j]
    <2>1. \A j \in 1 .. Len(working) : working[j] # memtable
      BY DEF PlaceInv
    <2>2. \A i \in 1 .. n, j \in 1 .. Len(working) : queue[i] # working[j]
      BY DEF PlaceInv, n
    <2> QED BY <1>2, <1>3, <1>4, <2>1, <2>2
  <1>f. memtable' \notin retired'
    <2>1. retired \subseteq 1 .. Len(tables)
      BY DEF TypeOK
    <2> QED BY <1>2, <1>6, <2>1
  <1>g. ASSUME NEW t \in 1 .. Len(tables')
        PROVE  \/ t = memtable' \/ t \in retired'
               \/ \E i \in 1 .. Len(queue') : queue'[i] = t
               \/ \E i \in 1 .. Len(working') : working'[i] = t
    <2>1. t \in 1 .. Len(tables)
      BY <1>2
    <2>2. \/ t = memtable \/ t \in retired
          \/ \E i \in 1 .. n : queue[i] = t
          \/ \E i \in 1 .. Len(working) : working[i] = t
      BY <2>1 DEF PlaceInv, n
    <2> QED BY <1>2, <1>3, <1>4, <2>2
  <1> QED BY <1>a, <1>b, <1>c, <1>d, <1>e, <1>f, <1>g DEF PlaceInv

\* A new table becomes the current one.
LEMMA PlaceReplace ==
    ASSUME TypeOK, PlaceInv, LockInv, NEW c \in Clients, Replace(c)
    PROVE  PlaceInv'
  <1> DEFINE n == Len(tables)
  <1>1. tables \in Seq(Seq(Nat)) /\ n \in Nat /\ retired \subseteq 1 .. n
    BY DEF TypeOK
  <1>2. memtable = 0
    BY DEF Replace, LockInv, MemtableLocked
  <1>3. /\ tables' = Append(tables, <<>>) /\ memtable' = Len(tables')
        /\ UNCHANGED <<queue, working, retired>>
    BY DEF Replace, queueVars
  <1>4. Len(tables') = n + 1 /\ memtable' = n + 1
    BY <1>1, <1>3
  <1>5. /\ \A t : t \in 1 .. n + 1 <=> t \in 1 .. n \/ t = n + 1
        /\ n + 1 \notin 1 .. n /\ 0 \notin 1 .. n
    BY <1>1
  <1> HIDE DEF n
  <1>a. \A i \in 1 .. Len(queue') :
          queue'[i] \in 1 .. Len(tables') /\ queue'[i] \notin retired' /\ queue'[i] # memtable'
    BY <1>3, <1>4, <1>5 DEF PlaceInv, n
  <1>b. \A i \in 1 .. Len(working') :
          working'[i] \in 1 .. Len(tables') /\ working'[i] \notin retired' /\ working'[i] # memtable'
    BY <1>3, <1>4, <1>5 DEF PlaceInv, n
  <1>c. /\ \A i, j \in 1 .. Len(queue') : queue'[i] = queue'[j] => i = j
        /\ \A i, j \in 1 .. Len(working') : working'[i] = working'[j] => i = j
        /\ \A i \in 1 .. Len(queue'), j \in 1 .. Len(working') : queue'[i] # working'[j]
    BY <1>3 DEF PlaceInv
  <1>f. memtable' \notin retired'
    BY <1>1, <1>3, <1>4, <1>5
  <1>g. ASSUME NEW t \in 1 .. Len(tables')
        PROVE  \/ t = memtable' \/ t \in retired'
               \/ \E i \in 1 .. Len(queue') : queue'[i] = t
               \/ \E i \in 1 .. Len(working') : working'[i] = t
    <2>1. t = n + 1 \/ (t \in 1 .. n /\ t # memtable)
      BY <1>2, <1>4, <1>5
    <2>2. t \in 1 .. n =>
          \/ t = memtable \/ t \in retired
          \/ \E i \in 1 .. Len(queue) : queue[i] = t
          \/ \E i \in 1 .. Len(working) : working[i] = t
      BY DEF PlaceInv, n
    <2> QED BY <1>3, <1>4, <2>1, <2>2
  <1> QED BY <1>a, <1>b, <1>c, <1>f, <1>g DEF PlaceInv

\* A queued table moves to working_.
LEMMA PlaceTake ==
    ASSUME TypeOK, PlaceInv, NEW w \in Workers, Take(w)
    PROVE  PlaceInv'
  <1> DEFINE n == Len(queue)
             m == Len(working)
             h == Head(queue)
  <1>1. queue \in Seq(Nat) /\ queue # <<>> /\ working \in Seq(Nat) /\ n \in Nat /\ m \in Nat
    BY DEF TypeOK, Take
  <1>2. /\ queue' = Tail(queue) /\ working' = Append(working, h)
        /\ UNCHANGED <<tables, memtable, retired>>
    BY DEF Take, memVars
  <1>3. /\ n # 0 /\ h = queue[1] /\ h \in Nat
        /\ Len(queue') = n - 1 /\ \A i \in 1 .. n - 1 : queue'[i] = queue[i + 1]
    BY <1>1, <1>2, HeadTailProperties
  <1>4. /\ Len(working') = m + 1 /\ working'[m + 1] = h
        /\ \A i \in 1 .. m : working'[i] = working[i]
    <2> HIDE DEF h
    <2> QED BY <1>1, <1>2, <1>3
  <1>5. /\ \A i : i \in 1 .. m + 1 <=> i \in 1 .. m \/ i = m + 1
        /\ m + 1 \notin 1 .. m
        /\ 1 \in 1 .. n
        /\ \A i \in 1 .. n - 1 : i + 1 \in 1 .. n /\ i + 1 # 1
        /\ \A i, j \in 1 .. n - 1 : i + 1 = j + 1 => i = j
        /\ \A i \in 1 .. n : i = 1 \/ (i - 1 \in 1 .. n - 1 /\ (i - 1) + 1 = i)
    <2> HIDE DEF n, m
    <2>1. \A i : i \in 1 .. m + 1 <=> i \in 1 .. m \/ i = m + 1
      BY <1>1
    <2>2. m + 1 \notin 1 .. m /\ 1 \in 1 .. n
      BY <1>1, <1>3
    <2>3. \A i \in 1 .. n - 1 : i + 1 \in 1 .. n /\ i + 1 # 1
      BY <1>1, <1>3
    <2>4. \A i, j \in 1 .. n - 1 : i + 1 = j + 1 => i = j
      BY <1>1, <1>3
    <2>5. \A i \in 1 .. n : i = 1 \/ (i - 1 \in 1 .. n - 1 /\ (i - 1) + 1 = i)
      BY <1>1, <1>3
    <2> QED BY ONLY <2>1, <2>2, <2>3, <2>4, <2>5
  <1> HIDE DEF n, m, h
  <1>p. /\ \A i \in 1 .. n :
            queue[i] \in 1 .. Len(tables) /\ queue[i] \notin retired /\ queue[i] # memtable
        /\ \A i \in 1 .. m :
            working[i] \in 1 .. Len(tables) /\ working[i] \notin retired /\ working[i] # memtable
        /\ \A i, j \in 1 .. n : queue[i] = queue[j] => i = j
        /\ \A i, j \in 1 .. m : working[i] = working[j] => i = j
        /\ \A i \in 1 .. n, j \in 1 .. m : queue[i] # working[j]
        /\ memtable \notin retired
    BY DEF PlaceInv, n, m
  <1>a. ASSUME NEW i \in 1 .. Len(queue')
        PROVE  queue'[i] \in 1 .. Len(tables') /\ queue'[i] \notin retired' /\ queue'[i] # memtable'
    <2>1. queue'[i] = queue[i + 1] /\ i + 1 \in 1 .. n
      BY <1>3, <1>5
    <2> QED BY <1>2, <1>p, <2>1
  <1>b. \A i \in 1 .. Len(working') :
          working'[i] \in 1 .. Len(tables') /\ working'[i] \notin retired' /\ working'[i] # memtable'
    BY <1>2, <1>3, <1>4, <1>5, <1>p
  <1>c. ASSUME NEW i \in 1 .. Len(queue'), NEW j \in 1 .. Len(queue'), queue'[i] = queue'[j]
        PROVE  i = j
    <2>1. queue'[i] = queue[i + 1] /\ queue'[j] = queue[j + 1]
      BY <1>3
    <2>2. i + 1 \in 1 .. n /\ j + 1 \in 1 .. n
      BY <1>3, <1>5
    <2>3. i + 1 = j + 1
      BY <1>c, <1>p, <2>1, <2>2
    <2> QED BY <1>3, <1>5, <2>3
  <1>d. \A i, j \in 1 .. Len(working') : working'[i] = working'[j] => i = j
    BY <1>3, <1>4, <1>5, <1>p
  <1>e. ASSUME NEW i \in 1 .. Len(queue'), NEW j \in 1 .. Len(working') PROVE queue'[i] # working'[j]
    <2>1. queue'[i] = queue[i + 1] /\ i + 1 \in 1 .. n /\ i + 1 # 1
      BY <1>3, <1>5
    <2>2. queue[i + 1] # h
      BY <1>3, <1>5, <1>p, <2>1
    <2>3. CASE j \in 1 .. m
      BY <1>4, <1>p, <2>1, <2>3
    <2>4. CASE j = m + 1
      BY <1>4, <2>1, <2>2, <2>4
    <2> QED BY <1>4, <1>5, <2>3, <2>4
  <1>g. ASSUME NEW t \in 1 .. Len(tables')
        PROVE  \/ t = memtable' \/ t \in retired'
               \/ \E i \in 1 .. Len(queue') : queue'[i] = t
               \/ \E i \in 1 .. Len(working') : working'[i] = t
    <2>1. \/ t = memtable \/ t \in retired
          \/ \E i \in 1 .. n : queue[i] = t
          \/ \E i \in 1 .. m : working[i] = t
      BY <1>2 DEF PlaceInv, n, m
    <2>2. ASSUME NEW i \in 1 .. n, queue[i] = t
          PROVE  \/ \E j \in 1 .. Len(queue') : queue'[j] = t
                 \/ \E j \in 1 .. Len(working') : working'[j] = t
      <3>1. CASE i = 1
        BY <1>3, <1>4, <1>5, <2>2, <3>1
      <3>2. CASE i # 1
        <4>1. i - 1 \in 1 .. n - 1 /\ (i - 1) + 1 = i
          BY <1>5, <3>2
        <4>2. queue'[i - 1] = queue[(i - 1) + 1]
          BY <1>3, <4>1
        <4> QED BY <1>3, <2>2, <4>1, <4>2
      <3> QED BY <3>1, <3>2
    <2>3. ASSUME NEW i \in 1 .. m, working[i] = t
          PROVE  \E j \in 1 .. Len(working') : working'[j] = t
      BY <1>4, <1>5, <2>3
    <2> QED BY <1>2, <2>1, <2>2, <2>3
  <1>h. memtable' \notin retired'
    BY <1>2, <1>p
  <1> QED BY <1>a, <1>b, <1>c, <1>d, <1>e, <1>g, <1>h DEF PlaceInv

\* A table leaves working_, flushed.
LEMMA PlaceRetire ==
    ASSUME TypeOK, WorkerInv, PlaceInv, NEW w \in Workers, Retire(w), ~moved'
    PROVE  PlaceInv'
  <1> DEFINE n == Len(queue)
             m == Len(working)
             p == Place(w)
             x == working[p]
  <1>1. base \in Nat /\ working \in Seq(Nat) /\ slot \in [Workers -> Nat] /\ m \in Nat
    BY DEF TypeOK
  <1>2. /\ working' \in Seq(Nat) /\ base' \in Nat
        /\ \A i \in 1 .. Len(working') : \E j \in 1 .. m :
              j # p /\ working'[i] = working[j] /\ base' + i = base + j
        /\ \A j \in 1 .. m : j # p =>
              \E i \in 1 .. Len(working') :
                 working'[i] = working[j] /\ base' + i = base + j
    BY <1>1, RetireErases
  <1>3. p \in 1 .. m /\ taken[w] = x
    BY DEF WorkerInv, Retire, Holding
  <1>4. UNCHANGED <<tables, memtable, queue>> /\ retired' = retired \cup {x}
    BY <1>3 DEF Retire, memVars
  <1> HIDE DEF n, m, p, x
  <1>p. /\ \A i \in 1 .. n :
            queue[i] \in 1 .. Len(tables) /\ queue[i] \notin retired /\ queue[i] # memtable
        /\ \A i \in 1 .. m :
            working[i] \in 1 .. Len(tables) /\ working[i] \notin retired /\ working[i] # memtable
        /\ \A i, j \in 1 .. n : queue[i] = queue[j] => i = j
        /\ \A i, j \in 1 .. m : working[i] = working[j] => i = j
        /\ \A i \in 1 .. n, j \in 1 .. m : queue[i] # working[j]
        /\ memtable \notin retired
    BY DEF PlaceInv, n, m
  <1>x. x = working[p]
    BY DEF x
  <1>a. \A i \in 1 .. Len(queue') :
          queue'[i] \in 1 .. Len(tables') /\ queue'[i] \notin retired' /\ queue'[i] # memtable'
    BY <1>3, <1>4, <1>p, <1>x DEF n
  <1>b. ASSUME NEW i \in 1 .. Len(working')
        PROVE  working'[i] \in 1 .. Len(tables') /\ working'[i] \notin retired' /\ working'[i] # memtable'
    <2>1. PICK j \in 1 .. m : j # p /\ working'[i] = working[j]
      BY <1>2
    <2>2. working[j] # x
      BY <1>3, <1>p, <1>x, <2>1
    <2> QED BY <1>4, <1>p, <2>1, <2>2
  <1>d. ASSUME NEW i \in 1 .. Len(working'), NEW k \in 1 .. Len(working'), working'[i] = working'[k]
        PROVE  i = k
    <2>1. PICK j \in 1 .. m : working'[i] = working[j] /\ base' + i = base + j
      BY <1>2
    <2>2. PICK l \in 1 .. m : working'[k] = working[l] /\ base' + k = base + l
      BY <1>2
    <2>3. j = l
      BY <1>d, <1>p, <2>1, <2>2
    <2>4. base' + i = base' + k /\ i \in Int /\ k \in Int /\ base' \in Nat
      BY <1>2, <2>1, <2>2, <2>3
    <2> QED BY <2>4
  <1>e. ASSUME NEW i \in 1 .. Len(queue'), NEW k \in 1 .. Len(working') PROVE queue'[i] # working'[k]
    <2>1. PICK j \in 1 .. m : working'[k] = working[j]
      BY <1>2
    <2>2. i \in 1 .. n /\ queue'[i] = queue[i]
      BY <1>4 DEF n
    <2> QED BY <1>p, <2>1, <2>2
  <1>g. ASSUME NEW t \in 1 .. Len(tables')
        PROVE  \/ t = memtable' \/ t \in retired'
               \/ \E i \in 1 .. Len(queue') : queue'[i] = t
               \/ \E i \in 1 .. Len(working') : working'[i] = t
    <2>1. \/ t = memtable \/ t \in retired
          \/ \E i \in 1 .. Len(queue) : queue[i] = t
          \/ \E i \in 1 .. m : working[i] = t
      BY <1>4 DEF PlaceInv, m
    <2>2. ASSUME NEW j \in 1 .. m, working[j] = t
          PROVE  t \in retired' \/ \E i \in 1 .. Len(working') : working'[i] = t
      <3>1. CASE j = p
        BY <1>4, <1>x, <2>2, <3>1
      <3>2. CASE j # p
        BY <1>2, <2>2, <3>2
      <3> QED BY <3>1, <3>2
    <2> QED BY <1>4, <2>1, <2>2
  <1>h. memtable' \notin retired'
    BY <1>3, <1>4, <1>p, <1>x
  <1>c. \A i, j \in 1 .. Len(queue') : queue'[i] = queue'[j] => i = j
    BY <1>4, <1>p DEF n
  <1> QED BY <1>a, <1>b, <1>c, <1>d, <1>e, <1>g, <1>h DEF PlaceInv

\* Until then each step leaves each table at one place.
LEMMA PlaceStays == Inv /\ [Next]_vars /\ ~moved' => PlaceInv'
  <1> SUFFICES ASSUME Inv, [Next]_vars, ~moved' PROVE PlaceInv'
    OBVIOUS
  <1>i. TypeOK /\ WorkerInv /\ PlaceInv /\ LockInv
    BY MovedStays DEF Inv
  <1>f. ASSUME UNCHANGED <<queueVars, memtable, retired>>, Len(tables') = Len(tables) PROVE PlaceInv'
    BY <1>f, <1>i, PlaceFrame DEF queueVars
  <1>a. ASSUME UNCHANGED <<queueVars, memVars, retired>> PROVE PlaceInv'
    BY <1>a, <1>f DEF memVars
  <1>1. ASSUME NEW c \in Clients, NEW k \in Keys, Write(c, k)
        PROVE  PlaceInv'
    BY <1>1, <1>f DEF Write
  <1>2. ASSUME NEW c \in Clients, NEW k \in Keys, FindMemtable(c, k) PROVE PlaceInv'
    BY <1>2, <1>a DEF FindMemtable
  <1>3. ASSUME NEW c \in Clients, AppendRecord(c) PROVE PlaceInv'
    <2>1. Len(tables') = Len(tables)
      BY <1>3, <1>i DEF AppendRecord, TypeOK
    <2> QED BY <1>3, <1>f, <2>1 DEF AppendRecord
  <1>4. ASSUME NEW c \in Clients, ClientStep(c) PROVE PlaceInv'
    BY <1>3, <1>4, <1>a, <1>i, PlaceHandOver, PlaceReplace
       DEF ClientStep, CheckSize, FindQueue, Select, Return
  <1>5. ASSUME NEW w \in Workers, WorkerStep(w) PROVE PlaceInv'
    BY <1>5, <1>a, <1>i, PlaceTake, PlaceRetire
       DEF WorkerStep, Exit, Block, Sleep, PickUp, WriteSst, ListSst
  <1>6. ASSUME DestroyMembers \/ SetStop \/ NotifyAll \/ Join PROVE PlaceInv'
    BY <1>6, <1>a DEF DestroyMembers, SetStop, NotifyAll, Join
  <1>7. ASSUME UNCHANGED vars PROVE PlaceInv'
    BY <1>7, <1>a DEF vars
  <1> QED BY <1>1, <1>2, <1>4, <1>5, <1>6, <1>7 DEF Next

\* Steps that neither lock nor unlock memtable_.
LEMMA LockFrame ==
    ASSUME LockInv, memtable' = memtable,
           \A c \in Clients : cpc'[c] = "replace" <=> cpc[c] = "replace"
    PROVE  LockInv'
  BY DEF LockInv, MemtableLocked

\* One client at a time is between the two assignments to memtable_.
LEMMA LockStays == Inv /\ [Next]_vars => LockInv'
  <1> SUFFICES ASSUME Inv, [Next]_vars PROVE LockInv'
    OBVIOUS
  <1>i. TypeOK /\ LockInv
    BY DEF Inv
  <1>p. cpc \in [Clients -> {"idle", "append", "size", "rotate", "replace",
                             "queue", "select", "done"}]
    BY <1>i DEF TypeOK
  <1>g. ASSUME NEW c \in Clients, NEW step, Goto(c, step), step # "replace", cpc[c] # "replace",
               memtable' = memtable
        PROVE  LockInv'
    BY <1>g, <1>i, <1>p, LockFrame DEF Goto
  <1>f. ASSUME memtable' = memtable, cpc' = cpc PROVE LockInv'
    BY <1>f, <1>i, LockFrame
  <1>1. ASSUME NEW c \in Clients, NEW k \in Keys, Write(c, k)
        PROVE  LockInv'
    BY <1>1, <1>g DEF Write
  <1>2. ASSUME NEW c \in Clients, NEW k \in Keys, FindMemtable(c, k) PROVE LockInv'
    BY <1>2, <1>g DEF FindMemtable, memVars
  <1>3. ASSUME NEW c \in Clients, AppendRecord(c) \/ Select(c) \/ Return(c) PROVE LockInv'
    BY <1>3, <1>g DEF AppendRecord, Select, Return, memVars
  <1>4. ASSUME NEW c \in Clients, CheckSize(c) PROVE LockInv'
    <2>1. cpc[c] = "size" /\ memtable' = memtable
      BY <1>4 DEF CheckSize, memVars
    <2>2. \E step \in {"rotate", "idle"} : Goto(c, step)
      BY <1>4 DEF CheckSize, Acknowledge
    <2> QED BY <1>g, <2>1, <2>2
  <1>5. ASSUME NEW c \in Clients, FindQueue(c) PROVE LockInv'
    <2>1. cpc[c] = "queue" /\ memtable' = memtable
      BY <1>5 DEF FindQueue, memVars
    <2>2. \E step \in {"done", "select"} : Goto(c, step)
      BY <1>5 DEF FindQueue
    <2> QED BY <1>g, <2>1, <2>2
  <1>6. ASSUME NEW c \in Clients, HandOver(c) PROVE LockInv'
    <2>1. /\ cpc' = [cpc EXCEPT ![c] = "replace"] /\ memtable' = 0
          /\ \A d \in Clients : cpc[d] # "replace"
      BY <1>6 DEF HandOver, Goto, MemtableLocked
    <2>2. \A d \in Clients : cpc'[d] = "replace" <=> d = c
      BY <1>p, <2>1
    <2> QED BY <2>1, <2>2 DEF LockInv, MemtableLocked
  <1>7. ASSUME NEW c \in Clients, Replace(c) PROVE LockInv'
    <2>1. /\ cpc' = [cpc EXCEPT ![c] = "idle"] /\ cpc[c] = "replace"
          /\ \A d \in Clients : cpc[d] = "replace" => d = c
      BY <1>7, <1>i DEF Replace, Acknowledge, Goto, LockInv
    <2>2. \A d \in Clients : cpc'[d] # "replace"
      BY <1>p, <2>1
    <2>3. memtable' # 0
      <3>1. tables \in Seq(Seq(Nat)) /\ tables' = Append(tables, <<>>) /\ memtable' = Len(tables')
        BY <1>7, <1>i DEF Replace, TypeOK
      <3>2. Len(tables') = Len(tables) + 1 /\ Len(tables) \in Nat
        BY <3>1
      <3> QED BY <3>1, <3>2
    <2> QED BY <2>2, <2>3 DEF LockInv, MemtableLocked
  <1>8. ASSUME NEW w \in Workers, WorkerStep(w) PROVE LockInv'
    BY <1>8, <1>f DEF WorkerStep, Take, Exit, Block, Sleep, PickUp, WriteSst, ListSst,
       Retire, memVars, clientVars
  <1>9. ASSUME DestroyMembers \/ SetStop \/ NotifyAll \/ Join PROVE LockInv'
    BY <1>9, <1>f DEF DestroyMembers, SetStop, NotifyAll, Join, memVars, clientVars
  <1>10. ASSUME UNCHANGED vars PROVE LockInv'
    BY <1>10, <1>f DEF vars, memVars, clientVars
  <1> QED BY <1>1, <1>2, <1>3, <1>4, <1>5, <1>6, <1>7, <1>8, <1>9, <1>10
          DEF Next, ClientStep

\* No step after the end of the clients brings work to a worker that left.
LEMMA EndStays == Inv /\ [Next]_vars => EndInv'
  <1> SUFFICES ASSUME Inv, [Next]_vars PROVE EndInv'
    OBVIOUS
  <1>i. TypeOK /\ EndInv
    BY DEF Inv
  <1>p. /\ cpc \in [Clients -> {"idle", "append", "size", "rotate", "replace",
                                "queue", "select", "done"}]
        /\ wpc \in [Workers -> {"check", "blocking", "asleep", "pick", "write", "list",
                                "compacting", "retire", "exited"}]
    BY <1>i DEF TypeOK
  <1>o. ASSUME NEW c \in Clients, cpc[c] # "idle" \/ life = "open"
        PROVE  life = "open" /\ \A w \in Workers : wpc[w] # "exited"
    BY <1>i, <1>o DEF EndInv
  <1>c. ASSUME NEW c \in Clients, cpc[c] # "idle" \/ life = "open", life' = life,
               \A w \in Workers : wpc'[w] = "exited" => wpc[w] = "exited"
        PROVE  EndInv'
    BY <1>c, <1>o DEF EndInv
  <1>w. ASSUME life' = life, cpc' = cpc, queue' = queue,
               \A w \in Workers : wpc'[w] = "exited" => wpc[w] = "exited"
        PROVE  EndInv'
    BY <1>i, <1>w DEF EndInv
  <1>1. ASSUME NEW c \in Clients, NEW k \in Keys, Write(c, k)
        PROVE  EndInv'
    BY <1>1, <1>c DEF Write, workerVars
  <1>2. ASSUME NEW c \in Clients, NEW k \in Keys, FindMemtable(c, k) PROVE EndInv'
    BY <1>2, <1>c DEF FindMemtable, workerVars
  <1>3. ASSUME NEW c \in Clients, HandOver(c) PROVE EndInv'
    <2>1. cpc[c] = "rotate" /\ life' = life
      BY <1>3 DEF HandOver
    <2>2. \A w \in Workers : wpc'[w] = "exited" => wpc[w] = "exited"
      BY <1>3, <1>p DEF HandOver, NotifyOne, WGoto, Asleep
    <2> QED BY <1>c, <2>1, <2>2
  <1>4. ASSUME NEW c \in Clients, ClientStep(c) PROVE EndInv'
    BY <1>3, <1>4, <1>c DEF ClientStep, AppendRecord, CheckSize, Replace, FindQueue,
       Select, Return, workerVars
  <1>5. ASSUME NEW w \in Workers, Take(w) PROVE EndInv'
    <2>1. queue # <<>> /\ life' = life /\ cpc' = cpc /\ wpc' = [wpc EXCEPT ![w] = "pick"]
      BY <1>5 DEF Take, WGoto, clientVars
    <2>2. \A v \in Workers : wpc'[v] # "exited"
      BY <1>i, <1>p, <2>1 DEF EndInv
    <2> QED BY <1>i, <2>1, <2>2 DEF EndInv
  <1>6. ASSUME NEW w \in Workers, Exit(w) PROVE EndInv'
    <2>1. /\ queue = <<>> /\ queue' = queue /\ life' = life /\ cpc' = cpc
          /\ wpc' = [wpc EXCEPT ![w] = "exited"] /\ life \in {"stopped", "notified"}
      BY <1>6 DEF Exit, WGoto, clientVars, queueVars, Stopping
    <2> QED BY <1>i, <1>p, <2>1 DEF EndInv
  <1>7. ASSUME NEW w \in Workers, Block(w) \/ Sleep(w) \/ PickUp(w) \/ WriteSst(w) \/ ListSst(w)
        PROVE  EndInv'
    <2>1. life' = life /\ cpc' = cpc /\ queue' = queue
      BY <1>7 DEF Block, Sleep, PickUp, WriteSst, ListSst, queueVars, clientVars
    <2>2. \E step \in {"blocking", "asleep", "write", "list", "compacting", "retire"} : WGoto(w, step)
      BY <1>7 DEF Block, Sleep, PickUp, WriteSst, ListSst
    <2>3. \A v \in Workers : wpc'[v] = "exited" => wpc[v] = "exited"
      BY <1>p, <2>2 DEF WGoto
    <2> QED BY <1>w, <2>1, <2>3
  <1>8. ASSUME NEW w \in Workers, Retire(w) PROVE EndInv'
    <2>1. life' = life /\ cpc' = cpc /\ queue' = queue /\ wpc' = [wpc EXCEPT ![w] = "check"]
      BY <1>8 DEF Retire, WGoto, clientVars
    <2>3. \A v \in Workers : wpc'[v] = "exited" => wpc[v] = "exited"
      BY <1>p, <2>1
    <2> QED BY <1>w, <2>1, <2>3
  <1>9. ASSUME DestroyMembers PROVE EndInv'
    BY <1>9, <1>i DEF DestroyMembers, Advance, queueVars, clientVars, workerVars, EndInv
  <1>10. ASSUME SetStop PROVE EndInv'
    BY <1>10, <1>i DEF SetStop, Advance, queueVars, clientVars, workerVars, EndInv
  <1>11. ASSUME NotifyAll PROVE EndInv'
    <2>1. /\ life = "stopped" /\ life' = "notified" /\ cpc' = cpc /\ queue' = queue
          /\ \A w \in Workers : wpc'[w] = "exited" => wpc[w] = "exited"
      BY <1>11 DEF NotifyAll, Advance, queueVars, clientVars
    <2> QED BY <1>i, <2>1 DEF EndInv
  <1>12. ASSUME Join PROVE EndInv'
    BY <1>12, <1>i DEF Join, Advance, queueVars, clientVars, workerVars, EndInv
  <1>13. ASSUME UNCHANGED vars PROVE EndInv'
    BY <1>13, <1>i DEF vars, queueVars, clientVars, workerVars, EndInv
  <1> QED BY <1>1, <1>2, <1>4, <1>5, <1>6, <1>7, <1>8, <1>9, <1>10, <1>11, <1>12, <1>13
          DEF Next, WorkerStep

\* Steps that leave the queue, working_ and the ids alone.
LEMMA RangeFrame ==
    ASSUME RangeInv, UNCHANGED <<queue, working, taken, sst>>, aborted => aborted',
           Len(tables) \in Nat, Len(tables') \in Nat, Len(tables) <= Len(tables'),
           \A w \in Workers :
              Holding(w)' /\ wpc'[w] # "pick" => Holding(w) /\ wpc[w] # "pick"
    PROVE  RangeInv'
  <1>1. \A i : i \in 1 .. Len(tables) => i \in 1 .. Len(tables')
    OBVIOUS
  <1>2. /\ \A i \in 1 .. Len(queue') : queue'[i] \in 1 .. Len(tables')
        /\ \A i \in 1 .. Len(working') : working'[i] \in 1 .. Len(tables')
    BY <1>1 DEF RangeInv
  <1>3. \A w \in Workers : Holding(w)' /\ wpc'[w] # "pick" =>
          /\ aborted' \/ taken'[w] \in 1 .. Len(tables')
          /\ sst'.of[w] \in 1 .. sst'.next - 1
    BY <1>1 DEF RangeInv
  <1> HIDE DEF Holding
  <1> QED BY <1>2, <1>3 DEF RangeInv

\* The table that was current is queued.
LEMMA RangeHandOver ==
    ASSUME TypeOK, RangeInv, LockInv, NEW c \in Clients, HandOver(c)
    PROVE  RangeInv'
  <1>1. queue \in Seq(Nat) /\ Len(queue) \in Nat /\ memtable \in 1 .. Len(tables)
    <2>1. queue \in Seq(Nat) /\ memtable \in 0 .. Len(tables) /\ memtable # 0
      BY DEF TypeOK, HandOver, LockInv
    <2> QED BY <2>1
  <1>2. /\ queue' = Append(queue, memtable)
        /\ UNCHANGED <<tables, working, taken, sst, aborted>>
    BY DEF HandOver, sstVars
  <1>3. \A i \in 1 .. Len(queue') : queue'[i] \in 1 .. Len(tables')
    <2>1. /\ Len(queue') = Len(queue) + 1 /\ queue'[Len(queue) + 1] = memtable
          /\ \A i \in 1 .. Len(queue) : queue'[i] = queue[i]
      BY <1>1, <1>2
    <2>2. \A i \in 1 .. Len(queue') : i \in 1 .. Len(queue) \/ i = Len(queue) + 1
      BY <1>1, <2>1
    <2> QED BY <1>1, <1>2, <2>1, <2>2 DEF RangeInv
  <1>4. \A w \in Workers : Holding(w)' /\ wpc'[w] # "pick" => Holding(w) /\ wpc[w] # "pick"
    <2>1. \A w \in Workers : wpc'[w] \in {wpc[w], "check"}
      BY DEF HandOver, NotifyOne, WGoto, TypeOK
    <2> QED BY <2>1 DEF Holding
  <1>5. \A w \in Workers : Holding(w)' /\ wpc'[w] # "pick" =>
          /\ aborted' \/ taken'[w] \in 1 .. Len(tables')
          /\ sst'.of[w] \in 1 .. sst'.next - 1
    BY <1>2, <1>4 DEF RangeInv
  <1>6. \A i \in 1 .. Len(working') : working'[i] \in 1 .. Len(tables')
    BY <1>2 DEF RangeInv
  <1> HIDE DEF Holding
  <1> QED BY <1>3, <1>5, <1>6 DEF RangeInv

\* A table that was queued is taken.
LEMMA RangeTake ==
    ASSUME TypeOK, RangeInv, NEW w \in Workers, Take(w)
    PROVE  RangeInv'
  <1> DEFINE n == Len(queue)
             m == Len(working)
             h == Head(queue)
  <1>1. queue \in Seq(Nat) /\ queue # <<>> /\ working \in Seq(Nat) /\ n \in Nat /\ m \in Nat
    BY DEF TypeOK, Take
  <1>2. /\ queue' = Tail(queue) /\ working' = Append(working, h)
        /\ UNCHANGED <<tables, taken, sst, aborted>> /\ wpc' = [wpc EXCEPT ![w] = "pick"]
    BY DEF Take, memVars, sstVars, WGoto
  <1>3. /\ n # 0 /\ h = queue[1] /\ h \in Nat
        /\ Len(queue') = n - 1 /\ \A i \in 1 .. n - 1 : queue'[i] = queue[i + 1]
    BY <1>1, <1>2, HeadTailProperties
  <1>4. /\ Len(working') = m + 1 /\ working'[m + 1] = h
        /\ \A i \in 1 .. m : working'[i] = working[i]
    <2> HIDE DEF h
    <2> QED BY <1>1, <1>2, <1>3
  <1> HIDE DEF n, m, h
  <1>5. /\ \A i \in 1 .. n - 1 : i + 1 \in 1 .. n
        /\ 1 \in 1 .. n
        /\ \A i \in 1 .. m + 1 : i \in 1 .. m \/ i = m + 1
    BY <1>1, <1>3
  <1>6. \A i \in 1 .. Len(queue') : queue'[i] \in 1 .. Len(tables')
    BY <1>2, <1>3, <1>5 DEF RangeInv, n
  <1>7. \A i \in 1 .. Len(working') : working'[i] \in 1 .. Len(tables')
    BY <1>2, <1>3, <1>4, <1>5 DEF RangeInv, n, m
  <1>8. \A v \in Workers : Holding(v)' /\ wpc'[v] # "pick" =>
          /\ aborted' \/ taken'[v] \in 1 .. Len(tables')
          /\ sst'.of[v] \in 1 .. sst'.next - 1
    <2>1. \A v \in Workers : wpc'[v] # "pick" => wpc'[v] = wpc[v]
      BY <1>2 DEF TypeOK
    <2> QED BY <1>2, <2>1 DEF RangeInv, Holding
  <1> HIDE DEF Holding
  <1> QED BY <1>6, <1>7, <1>8 DEF RangeInv

\* What the iterator names was made, or the process ends; the id is handed out.
LEMMA RangePickUp ==
    ASSUME TypeOK, RangeInv, ~aborted, NEW w \in Workers, PickUp(w)
    PROVE  RangeInv'
  <1>1. /\ wpc \in [Workers -> {"check", "blocking", "asleep", "pick", "write", "list",
                                "compacting", "retire", "exited"}]
        /\ taken \in [Workers -> Nat] /\ working \in Seq(Nat)
    BY DEF TypeOK
  <1>2. /\ UNCHANGED <<queue, working, tables>> /\ taken' = [taken EXCEPT ![w] = At(slot[w])]
        /\ aborted' = (At(slot[w]) = 0)
        /\ wpc' = [wpc EXCEPT ![w] = "write"]
    BY DEF PickUp, WGoto, memVars, queueVars
  <1>3. /\ sst'.next = sst.next + 1 /\ sst.next \in Nat \ {0}
        /\ sst'.of[w] = sst.next
        /\ \A v \in Workers : v # w => sst'.of[v] = sst.of[v]
    <2>1. sst.next \in Nat \ {0} /\ sst.of \in [Workers -> Nat]
      BY DEF TypeOK
    <2>2. sst' = [next |-> sst.next + 1, of |-> [sst.of EXCEPT ![w] = sst.next]]
      BY DEF PickUp
    <2> QED BY <2>1, <2>2
  <1>4. aborted' \/ taken'[w] \in 1 .. Len(tables')
    <2>1. At(slot[w]) # 0 => At(slot[w]) \in 1 .. Len(tables)
      BY <1>1 DEF At, RangeInv
    <2> QED BY <1>1, <1>2, <2>1
  <1>5. ASSUME NEW v \in Workers, Holding(v)', wpc'[v] # "pick"
        PROVE  /\ aborted' \/ taken'[v] \in 1 .. Len(tables')
               /\ sst'.of[v] \in 1 .. sst'.next - 1
    <2> DEFINE m == sst.next
    <2>1. CASE v = w
      <3>1. m \in Nat /\ m # 0 /\ m \in 1 .. (m + 1) - 1
        BY <1>3
      <3> QED BY <1>3, <1>4, <2>1, <3>1
    <2>2. CASE v # w
      <3>1. wpc'[v] = wpc[v] /\ taken'[v] = taken[v]
        BY <1>1, <1>2, <2>2
      <3>2. taken[v] \in 1 .. Len(tables) /\ sst.of[v] \in 1 .. m - 1
        BY <1>5, <3>1 DEF RangeInv, Holding
      <3>3. 1 .. m - 1 \subseteq 1 .. (m + 1) - 1
        BY <1>3
      <3> QED BY <1>2, <1>3, <2>2, <3>1, <3>2, <3>3
    <2> QED BY <2>1, <2>2
  <1>6. /\ \A i \in 1 .. Len(queue') : queue'[i] \in 1 .. Len(tables')
        /\ \A i \in 1 .. Len(working') : working'[i] \in 1 .. Len(tables')
    BY <1>2 DEF RangeInv
  <1> HIDE DEF Holding
  <1> QED BY <1>5, <1>6 DEF RangeInv

\* What is left in working_ was there.
LEMMA RangeRetire ==
    ASSUME TypeOK, RangeInv, NEW w \in Workers, Retire(w)
    PROVE  RangeInv'
  <1>1. \A i \in 1 .. Len(working') : Among(working'[i], working)
    BY RetireKeeps
  <1>2. /\ UNCHANGED <<queue, tables, aborted>> /\ wpc' = [wpc EXCEPT ![w] = "check"]
        /\ taken' = [taken EXCEPT ![w] = 0] /\ sst' = [sst EXCEPT !.of[w] = 0]
    BY DEF Retire, WGoto, memVars
  <1>3. \A v \in Workers : v # w => taken'[v] = taken[v] /\ wpc'[v] = wpc[v]
    BY <1>2 DEF TypeOK
  <1>4. wpc'[w] = "check"
    BY <1>2 DEF TypeOK
  <1>5. sst'.next = sst.next /\ \A v \in Workers : v # w => sst'.of[v] = sst.of[v]
    <2>1. sst \in [next : Nat \ {0}, of : [Workers -> Nat]]
      BY DEF TypeOK
    <2> QED BY <1>2, <2>1
  <1>6. \A v \in Workers : Holding(v)' /\ wpc'[v] # "pick" =>
          /\ aborted' \/ taken'[v] \in 1 .. Len(tables')
          /\ sst'.of[v] \in 1 .. sst'.next - 1
    BY <1>2, <1>3, <1>4, <1>5 DEF RangeInv, Holding
  <1>7. /\ \A i \in 1 .. Len(queue') : queue'[i] \in 1 .. Len(tables')
        /\ \A i \in 1 .. Len(working') : working'[i] \in 1 .. Len(tables')
    BY <1>1, <1>2 DEF RangeInv, Among
  <1> HIDE DEF Holding
  <1> QED BY <1>6, <1>7 DEF RangeInv

\* Each step leaves the pipeline with tables that were made.
LEMMA RangeStays == Inv /\ [Next]_vars => RangeInv'
  <1> SUFFICES ASSUME Inv, [Next]_vars PROVE RangeInv'
    OBVIOUS
  <1>i. TypeOK /\ RangeInv /\ LockInv
    BY DEF Inv
  <1>p. /\ wpc \in [Workers -> {"check", "blocking", "asleep", "pick", "write", "list",
                                "compacting", "retire", "exited"}]
        /\ tables \in Seq(Seq(Nat)) /\ Len(tables) \in Nat
    BY <1>i DEF TypeOK
  <1>f. ASSUME ~aborted, UNCHANGED <<queueVars, sstVars, workerVars>>, Len(tables') \in Nat,
               Len(tables) <= Len(tables')
        PROVE  RangeInv'
    <2>1. UNCHANGED <<queue, working, taken, sst, wpc>>
      BY <1>f DEF queueVars, sstVars, workerVars
    <2>2. \A w \in Workers :
             Holding(w)' /\ wpc'[w] # "pick" => Holding(w) /\ wpc[w] # "pick"
      BY <2>1 DEF Holding
    <2> QED BY <1>f, <1>i, <1>p, <2>1, <2>2, RangeFrame
  <1>g. ASSUME ~aborted, UNCHANGED <<queue, working, taken, sst, tables>>, NEW w \in Workers,
               NEW step, WGoto(w, step),
               \/ step \in {"check", "exited", "blocking", "asleep"}
               \/ step \in {"list", "retire", "compacting"} /\ wpc[w] \in {"write", "list"}
        PROVE  RangeInv'
    <2>1. \A v \in Workers :
             Holding(v)' /\ wpc'[v] # "pick" => Holding(v) /\ wpc[v] # "pick"
      BY <1>g, <1>p DEF Holding, WGoto
    <2> QED BY <1>g, <1>i, <1>p, <2>1, RangeFrame
  <1>t. ASSUME ~aborted, UNCHANGED <<queueVars, sstVars, workerVars, tables>> PROVE RangeInv'
    <2>1. Len(tables') \in Nat /\ Len(tables) <= Len(tables')
      BY <1>p, <1>t
    <2> QED BY <1>f, <1>t, <2>1
  <1>1. ASSUME ~aborted, NEW c \in Clients, NEW k \in Keys, Write(c, k) PROVE RangeInv'
    BY <1>1, <1>t DEF Write
  <1>2. ASSUME ~aborted, NEW c \in Clients, NEW k \in Keys, FindMemtable(c, k)
        PROVE  RangeInv'
    BY <1>2, <1>t DEF FindMemtable, memVars
  <1>3. ASSUME ~aborted, NEW c \in Clients, AppendRecord(c) PROVE RangeInv'
    <2>1. Len(tables') = Len(tables)
      BY <1>3, <1>p DEF AppendRecord
    <2>2. Len(tables') \in Nat /\ Len(tables) <= Len(tables')
      BY <1>p, <2>1
    <2> QED BY <1>3, <1>f, <2>2 DEF AppendRecord
  <1>4. ASSUME ~aborted, NEW c \in Clients, Replace(c) PROVE RangeInv'
    <2>1. tables' = Append(tables, <<>>)
      BY <1>4 DEF Replace
    <2>2. Len(tables') = Len(tables) + 1
      BY <1>p, <2>1
    <2>3. Len(tables') \in Nat /\ Len(tables) <= Len(tables')
      BY <1>p, <2>2
    <2> QED BY <1>4, <1>f, <2>3 DEF Replace
  <1>5. ASSUME ~aborted, NEW c \in Clients, ClientStep(c) PROVE RangeInv'
    BY <1>3, <1>4, <1>5, <1>i, <1>t, RangeHandOver
       DEF ClientStep, CheckSize, FindQueue, Select, Return, memVars
  <1>6. ASSUME ~aborted, NEW w \in Workers, Exit(w) \/ Block(w) \/ Sleep(w)
        PROVE  RangeInv'
    <2>1. UNCHANGED <<queue, working, taken, sst, tables>>
      BY <1>6 DEF Exit, Block, Sleep, queueVars, sstVars, memVars
    <2>2. \E step \in {"exited", "blocking", "asleep"} : WGoto(w, step)
      BY <1>6 DEF Exit, Block, Sleep
    <2> QED BY <1>6, <1>g, <2>1, <2>2
  <1>7. ASSUME ~aborted, NEW w \in Workers, WriteSst(w) \/ ListSst(w) PROVE RangeInv'
    <2>1. UNCHANGED <<queue, working, taken, sst, tables>>
      BY <1>7 DEF WriteSst, ListSst, queueVars, memVars
    <2>2. \E step \in {"list", "retire", "compacting"} :
             WGoto(w, step) /\ wpc[w] \in {"write", "list"}
      BY <1>7 DEF WriteSst, ListSst
    <2> QED BY <1>7, <1>g, <2>1, <2>2
  <1>8. ASSUME ~aborted, NEW w \in Workers, WorkerStep(w) PROVE RangeInv'
    BY <1>6, <1>7, <1>8, <1>i, RangeTake, RangePickUp, RangeRetire DEF WorkerStep
  <1>9. ASSUME ~aborted, DestroyMembers \/ SetStop \/ Join PROVE RangeInv'
    BY <1>9, <1>t DEF DestroyMembers, SetStop, Join, memVars
  <1>10. ASSUME ~aborted, NotifyAll PROVE RangeInv'
    <2>1. UNCHANGED <<queue, working, taken, sst, tables, aborted>>
      BY <1>10 DEF NotifyAll, queueVars, sstVars, memVars
    <2>2. \A w \in Workers : wpc'[w] \in {wpc[w], "check"}
      BY <1>10 DEF NotifyAll
    <2>3. \A w \in Workers :
             Holding(w)' /\ wpc'[w] # "pick" => Holding(w) /\ wpc[w] # "pick"
      BY <2>2 DEF Holding
    <2> QED BY <1>i, <1>p, <2>1, <2>3, RangeFrame
  <1>11. ASSUME UNCHANGED vars PROVE RangeInv'
    <2>1. UNCHANGED <<queue, working, taken, sst, tables, aborted, wpc>>
      BY <1>11 DEF vars, queueVars, sstVars, memVars, workerVars
    <2>2. \A w \in Workers :
             Holding(w)' /\ wpc'[w] # "pick" => Holding(w) /\ wpc[w] # "pick"
      BY <2>1 DEF Holding
    <2> QED BY <1>i, <1>p, <2>1, <2>2, RangeFrame
  <1> QED BY <1>1, <1>2, <1>5, <1>8, <1>9, <1>10, <1>11 DEF Next

\* A table is handed over while no worker is about to block: either one is awake
\* or one that sleeps is woken.  Who blocks or leaves has seen an empty queue,
\* and kept others from filling it until it sleeps.
LEMMA AwakeStays == Inv /\ [Next]_vars => AwakeInv'
  <1> SUFFICES ASSUME Inv, [Next]_vars PROVE AwakeInv'
    OBVIOUS
  <1>i. EndInv /\ AwakeInv
    BY DEF Inv
  <1>p. wpc \in [Workers -> {"check", "blocking", "asleep", "pick", "write", "list",
                             "compacting", "retire", "exited"}]
    BY DEF Inv, TypeOK
  <1>f. ASSUME UNCHANGED queue, \A w \in Workers : Awake(w) => Awake(w)' PROVE AwakeInv'
    BY <1>f, <1>i DEF AwakeInv
  <1>q. ASSUME UNCHANGED <<queue, wpc>> PROVE AwakeInv'
    BY <1>f, <1>q DEF Awake
  <1>g. ASSUME NEW w \in Workers, NEW step, WGoto(w, step),
               step \notin {"blocking", "asleep", "exited"}
        PROVE  AwakeInv'
    <2>1. Awake(w)'
      BY <1>g, <1>p DEF Awake, WGoto
    <2> QED BY <2>1 DEF AwakeInv
  <1>1. ASSUME NEW c \in Clients, NEW k \in Keys, Write(c, k) \/ FindMemtable(c, k)
        PROVE  AwakeInv'
    BY <1>1, <1>q DEF Write, FindMemtable, queueVars, workerVars
  <1>2. ASSUME NEW c \in Clients, HandOver(c) PROVE AwakeInv'
    <2>1. /\ \A w \in Workers : wpc[w] # "blocking" /\ wpc[w] # "exited"
          /\ NotifyOne
      BY <1>2, <1>i DEF HandOver, QueueLocked, EndInv
    <2>2. CASE \E w \in Asleep : WGoto(w, "check")
      BY <1>g, <2>2 DEF Asleep
    <2>3. CASE Asleep = {} /\ UNCHANGED wpc
      <3>1. PICK w \in Workers : TRUE
        BY DatabaseAssumption
      <3>2. Awake(w)'
        BY <2>1, <2>3, <3>1 DEF Asleep, Awake
      <3> QED BY <3>2 DEF AwakeInv
    <2> QED BY <2>1, <2>2, <2>3 DEF NotifyOne
  <1>3. ASSUME NEW c \in Clients, ClientStep(c) PROVE AwakeInv'
    BY <1>2, <1>3, <1>q DEF ClientStep, AppendRecord, CheckSize, Replace, FindQueue, Select,
       Return, queueVars, workerVars
  <1>4. ASSUME NEW w \in Workers, Exit(w) \/ Block(w) PROVE AwakeInv'
    <2>1. queue' = <<>>
      BY <1>4 DEF Exit, Block, queueVars
    <2> QED BY <2>1 DEF AwakeInv
  <1>5. ASSUME NEW w \in Workers, Sleep(w) PROVE AwakeInv'
    <2>1. /\ queue' = queue /\ wpc[w] = "blocking" /\ wpc' = [wpc EXCEPT ![w] = "asleep"]
      BY <1>5 DEF Sleep, WGoto, queueVars
    <2>2. \A v \in Workers : Awake(v) => Awake(v)'
      BY <1>p, <2>1 DEF Awake
    <2> QED BY <1>f, <2>1, <2>2
  <1>6. ASSUME NEW w \in Workers,
               Take(w) \/ PickUp(w) \/ WriteSst(w) \/ ListSst(w) \/ Retire(w)
        PROVE  AwakeInv'
    <2>1. \E step \in {"pick", "write", "list", "compacting", "retire", "check"} :
             WGoto(w, step)
      BY <1>6 DEF Take, PickUp, WriteSst, ListSst, Retire
    <2> QED BY <1>g, <2>1
  <1>7. ASSUME DestroyMembers \/ SetStop \/ Join PROVE AwakeInv'
    BY <1>7, <1>q DEF DestroyMembers, SetStop, Join, queueVars, workerVars
  <1>8. ASSUME NotifyAll PROVE AwakeInv'
    <2>1. queue' = queue /\ \A w \in Workers : wpc'[w] \in {wpc[w], "check"}
      BY <1>8 DEF NotifyAll, queueVars
    <2>2. \A w \in Workers : Awake(w) => Awake(w)'
      BY <2>1 DEF Awake
    <2> QED BY <1>f, <2>1, <2>2
  <1>9. ASSUME UNCHANGED vars PROVE AwakeInv'
    BY <1>9, <1>q DEF vars, queueVars, workerVars
  <1> QED BY <1>1, <1>3, <1>4, <1>5, <1>6, <1>7, <1>8, <1>9 DEF Next, WorkerStep

\* Append adds one element.
LEMMA AppendAmong ==
    ASSUME NEW S, NEW q \in Seq(S), NEW x \in S
    PROVE  \A o : Among(o, Append(q, x)) <=> Among(o, q) \/ o = x
  <1> DEFINE n == Len(q)
             r == Append(q, x)
  <1>1. n \in Nat /\ Len(r) = n + 1 /\ r[n + 1] = x /\ \A i \in 1 .. n : r[i] = q[i]
    OBVIOUS
  <1> HIDE DEF n, r
  <1>2. \A i : i \in 1 .. n + 1 <=> i \in 1 .. n \/ i = n + 1
    BY <1>1
  <1>3. \A o : Among(o, r) <=> \E i \in 1 .. n + 1 : r[i] = o
    BY <1>1 DEF Among
  <1>4. \A o : Among(o, q) <=> \E i \in 1 .. n : q[i] = o
    BY DEF Among, n
  <1>5. \A o : Among(o, r) <=> Among(o, q) \/ o = x
    BY <1>1, <1>2, <1>3, <1>4
  <1> QED BY <1>5 DEF r

\* Records name entries of the log.
LEMMA HeldIsLogged ==
    ASSUME RecordInv, NEW t \in 1 .. Len(tables), NEW o, Among(o, tables[t])
    PROVE  o \in 1 .. Len(wal)
  BY DEF RecordInv, Among

\* The table that a record goes to holds it afterwards, and nothing else changes.
LEMMA AppendHolds ==
    ASSUME TypeOK, RecordInv, ~aborted, NEW c \in Clients, AppendRecord(c)
    PROVE  /\ Len(tables') = Len(tables) /\ ptr[c] \in 1 .. Len(tables)
           /\ \A t \in 1 .. Len(tables) : \A o :
                 Among(o, tables'[t]) <=> Among(o, tables[t]) \/ (t = ptr[c] /\ o = rec[c])
  <1>1. ptr[c] \in 1 .. Len(tables)
    BY DEF AppendRecord, RecordInv
  <1>2. tables \in Seq(Seq(Nat)) /\ rec[c] \in Nat /\ tables[ptr[c]] \in Seq(Nat)
    BY <1>1 DEF TypeOK
  <1>3. tables' = [tables EXCEPT ![ptr[c]] = Append(tables[ptr[c]], rec[c])]
    BY DEF AppendRecord
  <1>4. /\ Len(tables') = Len(tables)
        /\ \A t \in 1 .. Len(tables) :
              tables'[t] = IF t = ptr[c] THEN Append(tables[ptr[c]], rec[c]) ELSE tables[t]
    BY <1>2, <1>3
  <1>5. \A o : Among(o, Append(tables[ptr[c]], rec[c])) <=> Among(o, tables[ptr[c]]) \/ o = rec[c]
    BY <1>2, AppendAmong
  <1>6. ASSUME NEW t \in 1 .. Len(tables), NEW o
        PROVE  Among(o, tables'[t]) <=> Among(o, tables[t]) \/ (t = ptr[c] /\ o = rec[c])
    <2>1. CASE t = ptr[c]
      <3>1. tables'[t] = Append(tables[ptr[c]], rec[c])
        BY <1>4, <2>1
      <3> QED BY <1>5, <2>1, <3>1
    <2>2. CASE t # ptr[c]
      <3>1. tables'[t] = tables[t]
        BY <1>4, <2>2
      <3> QED BY <2>2, <3>1
    <2> QED BY <2>1, <2>2
  <1> QED BY <1>1, <1>4, <1>6

\* Steps that touch neither the log nor the tables.
LEMMA RecordFrame ==
    ASSUME RecordInv, aborted => aborted', UNCHANGED <<wal, tables, acked>>,
           \A c \in Clients : /\ Storing(c)' <=> Storing(c)
                              /\ cpc'[c] = "append" <=> cpc[c] = "append"
                              /\ Storing(c) => rec'[c] = rec[c] /\ ptr'[c] = ptr[c]
    PROVE  RecordInv'
  <1>1. \A c \in Clients : cpc[c] = "append" => Storing(c)
    BY DEF Storing
  <1>2. \A c \in Clients : Storing(c)' => rec'[c] \in 1 .. Len(wal')
    BY DEF RecordInv
  <1>3. \A c, d \in Clients : Storing(c)' /\ Storing(d)' /\ rec'[c] = rec'[d] => c = d
    BY DEF RecordInv
  <1>4. \A c \in Clients : cpc'[c] = "append" =>
          /\ aborted' \/ ptr'[c] \in 1 .. Len(tables')
          /\ \A t \in 1 .. Len(tables') : ~Among(rec'[c], tables'[t])
    BY <1>1 DEF RecordInv
  <1>5. \A c \in Clients : Storing(c)' /\ cpc'[c] # "append" =>
          \E t \in 1 .. Len(tables') : Among(rec'[c], tables'[t])
    BY DEF RecordInv
  <1>6. /\ \A o \in acked' : \E t \in 1 .. Len(tables') : Among(o, tables'[t])
        /\ \A t \in 1 .. Len(tables') : \A i \in 1 .. Len(tables'[t]) : tables'[t][i] \in 1 .. Len(wal')
        /\ \A t, u \in 1 .. Len(tables') : \A o \in 1 .. Len(wal') :
             Among(o, tables'[t]) /\ Among(o, tables'[u]) => t = u
    BY DEF RecordInv
  <1>7. \A o, t : Among(o, tables[t])' <=> Among(o, tables'[t])
    BY DEF Among
  <1> HIDE DEF Storing, Among
  <1> QED BY <1>2, <1>3, <1>4, <1>5, <1>6 DEF RecordInv, Among

\* A new record is in no table yet.
LEMMA RecordWrite ==
    ASSUME TypeOK, RecordInv, ~aborted, NEW c \in Clients, NEW k \in Keys, Write(c, k)
    PROVE  RecordInv'
  <1> DEFINE n == Len(wal)
  <1>1. /\ n \in Nat
        /\ memtable \in 0 .. Len(tables) /\ Len(tables) \in Nat
        /\ rec \in [Clients -> Nat] /\ ptr \in [Clients -> Nat]
        /\ cpc \in [Clients -> {"idle", "append", "size", "rotate", "replace",
                                "queue", "select", "done"}]
    BY DEF TypeOK
  <1>2. Len(wal') = n + 1
    BY WriteLogs
  <1>3. /\ rec' = [rec EXCEPT ![c] = n + 1] /\ ptr' = [ptr EXCEPT ![c] = memtable]
        /\ cpc' = [cpc EXCEPT ![c] = "append"] /\ cpc[c] = "idle"
        /\ tables' = tables /\ acked' = acked /\ aborted' = (memtable = 0)
    BY <1>2 DEF Write, Goto
  <1>4. /\ \A i : i \in 1 .. n + 1 <=> i \in 1 .. n \/ i = n + 1
        /\ n + 1 \notin 1 .. n
    BY <1>1
  <1> HIDE DEF n
  <1>5. /\ ~Storing(c) /\ Storing(c)' /\ rec'[c] = n + 1 /\ ptr'[c] = memtable /\ cpc'[c] = "append"
        /\ \A d \in Clients : d # c => /\ Storing(d)' <=> Storing(d)
                                       /\ cpc'[d] = cpc[d] /\ rec'[d] = rec[d] /\ ptr'[d] = ptr[d]
    BY <1>1, <1>3 DEF Storing
  <1>6. \A t \in 1 .. Len(tables) : \A o : Among(o, tables[t]) => o \in 1 .. n
    BY HeldIsLogged DEF n
  <1>7. \A d \in Clients : Storing(d) => rec[d] \in 1 .. n
    BY DEF RecordInv, n
  <1>a. \A d \in Clients : Storing(d)' => rec'[d] \in 1 .. Len(wal')
    BY <1>2, <1>4, <1>5, <1>7
  <1>b. \A d, e \in Clients : Storing(d)' /\ Storing(e)' /\ rec'[d] = rec'[e] => d = e
    <2>1. \A d, e \in Clients : Storing(d) /\ Storing(e) /\ rec[d] = rec[e] => d = e
      BY DEF RecordInv
    <2> QED BY <1>4, <1>5, <1>7, <2>1
  <1>c. ASSUME NEW d \in Clients, cpc'[d] = "append"
        PROVE  /\ aborted' \/ ptr'[d] \in 1 .. Len(tables')
               /\ \A t \in 1 .. Len(tables') : ~Among(rec'[d], tables'[t])
    <2>1. CASE d = c
      <3>1. memtable # 0 => memtable \in 1 .. Len(tables)
        BY <1>1
      <3> QED BY <1>3, <1>4, <1>5, <1>6, <2>1, <3>1
    <2>2. CASE d # c
      <3>1. ~aborted => ptr[d] \in 1 .. Len(tables)
        BY <1>5, <1>c, <2>2 DEF RecordInv
      <3>2. ~aborted
        OBVIOUS
      <3>3. \A t \in 1 .. Len(tables) : ~Among(rec[d], tables[t])
        BY <1>5, <1>c, <2>2 DEF RecordInv
      <3> QED BY <1>3, <1>5, <2>2, <3>1, <3>2, <3>3
    <2> QED BY <2>1, <2>2
  <1>d. \A d \in Clients : Storing(d)' /\ cpc'[d] # "append" =>
          \E t \in 1 .. Len(tables') : Among(rec'[d], tables'[t])
    BY <1>3, <1>5 DEF RecordInv
  <1>e. \A o \in acked' : \E t \in 1 .. Len(tables') : Among(o, tables'[t])
    BY <1>3 DEF RecordInv
  <1>f. \A t \in 1 .. Len(tables') : \A i \in 1 .. Len(tables'[t]) : tables'[t][i] \in 1 .. Len(wal')
    BY <1>2, <1>3, <1>4 DEF RecordInv, n
  <1>g. \A t, u \in 1 .. Len(tables') : \A o \in 1 .. Len(wal') :
             Among(o, tables'[t]) /\ Among(o, tables'[u]) => t = u
    <2>1. \A t, u \in 1 .. Len(tables) : \A o \in 1 .. n :
             Among(o, tables[t]) /\ Among(o, tables[u]) => t = u
      BY DEF RecordInv, n
    <2> QED BY <1>3, <1>6, <2>1
  <1> HIDE DEF Storing
  <1> QED BY ONLY <1>a, <1>b, <1>c, <1>d, <1>e, <1>f, <1>g DEF RecordInv, Among

\* The record arrives at one table.
LEMMA RecordAppend ==
    ASSUME TypeOK, RecordInv, ~aborted, NEW c \in Clients, AppendRecord(c)
    PROVE  RecordInv'
  <1>1. /\ rec \in [Clients -> Nat]
        /\ cpc \in [Clients -> {"idle", "append", "size", "rotate", "replace",
                                "queue", "select", "done"}]
    BY DEF TypeOK
  <1>2. /\ cpc' = [cpc EXCEPT ![c] = "size"] /\ cpc[c] = "append"
        /\ UNCHANGED <<wal, rec, ptr, acked>>
    BY DEF AppendRecord, Goto
  <1>3. /\ Len(tables') = Len(tables) /\ ptr[c] \in 1 .. Len(tables)
        /\ \A t \in 1 .. Len(tables) : \A o :
              Among(o, tables'[t]) <=> Among(o, tables[t]) \/ (t = ptr[c] /\ o = rec[c])
    BY AppendHolds
  <1>4. /\ Storing(c) /\ cpc'[c] = "size"
        /\ \A d \in Clients : /\ Storing(d)' <=> Storing(d)
                              /\ d # c => cpc'[d] = cpc[d]
        /\ \A d \in Clients : cpc[d] = "append" => Storing(d)
    BY <1>1, <1>2 DEF Storing
  <1>5. /\ rec[c] \in 1 .. Len(wal)
        /\ \A t \in 1 .. Len(tables) : ~Among(rec[c], tables[t])
        /\ \A d \in Clients : Storing(d) /\ rec[d] = rec[c] => d = c
    BY <1>2, <1>4 DEF RecordInv
  <1>a. \A d \in Clients : Storing(d)' => rec'[d] \in 1 .. Len(wal')
    BY <1>2, <1>4 DEF RecordInv
  <1>b. \A d, e \in Clients : Storing(d)' /\ Storing(e)' /\ rec'[d] = rec'[e] => d = e
    BY <1>2, <1>4 DEF RecordInv
  <1>c. ASSUME NEW d \in Clients, cpc'[d] = "append"
        PROVE  /\ aborted' \/ ptr'[d] \in 1 .. Len(tables')
               /\ \A t \in 1 .. Len(tables') : ~Among(rec'[d], tables'[t])
    <2>1. d # c /\ cpc[d] = "append" /\ Storing(d)
      BY <1>4, <1>c
    <2>2. ptr[d] \in 1 .. Len(tables) /\ \A t \in 1 .. Len(tables) : ~Among(rec[d], tables[t])
      BY <2>1 DEF RecordInv
    <2>3. rec[d] # rec[c]
      BY <1>5, <2>1
    <2> QED BY <1>2, <1>3, <2>2, <2>3
  <1>d. ASSUME NEW d \in Clients, Storing(d)', cpc'[d] # "append"
        PROVE  \E t \in 1 .. Len(tables') : Among(rec'[d], tables'[t])
    <2>1. CASE d = c
      BY <1>2, <1>3, <2>1
    <2>2. CASE d # c
      <3>1. PICK t \in 1 .. Len(tables) : Among(rec[d], tables[t])
        BY <1>4, <1>d, <2>2 DEF RecordInv
      <3> QED BY <1>2, <1>3, <3>1
    <2> QED BY <2>1, <2>2
  <1>e. ASSUME NEW o \in acked' PROVE \E t \in 1 .. Len(tables') : Among(o, tables'[t])
    <2>1. PICK t \in 1 .. Len(tables) : Among(o, tables[t])
      BY <1>2 DEF RecordInv
    <2> QED BY <1>3, <2>1
  <1>f. ASSUME NEW t \in 1 .. Len(tables'), NEW i \in 1 .. Len(tables'[t])
        PROVE  tables'[t][i] \in 1 .. Len(wal')
    <2>1. Among(tables'[t][i], tables'[t]) /\ t \in 1 .. Len(tables)
      BY <1>3 DEF Among
    <2>2. Among(tables'[t][i], tables[t]) \/ tables'[t][i] = rec[c]
      BY <1>3, <2>1
    <2> QED BY <1>2, <1>5, <2>1, <2>2, HeldIsLogged
  <1>g. ASSUME NEW t \in 1 .. Len(tables'), NEW u \in 1 .. Len(tables'), NEW o \in 1 .. Len(wal'),
               Among(o, tables'[t]), Among(o, tables'[u])
        PROVE  t = u
    <2>1. t \in 1 .. Len(tables) /\ u \in 1 .. Len(tables) /\ o \in 1 .. Len(wal)
      BY <1>2, <1>3
    <2>2. /\ Among(o, tables[t]) \/ (t = ptr[c] /\ o = rec[c])
          /\ Among(o, tables[u]) \/ (u = ptr[c] /\ o = rec[c])
      BY <1>3, <1>g, <2>1
    <2>3. Among(o, tables[t]) /\ Among(o, tables[u]) => t = u
      BY <2>1 DEF RecordInv
    <2> QED BY <1>5, <2>1, <2>2, <2>3
  <1> HIDE DEF Storing
  <1> QED BY ONLY <1>a, <1>b, <1>c, <1>d, <1>e, <1>f, <1>g DEF RecordInv, Among

\* The end of a write, with at most an empty table more.
LEMMA RecordAcknowledge ==
    ASSUME TypeOK, RecordInv, NEW c \in Clients, Acknowledge(c), Storing(c), cpc[c] # "append",
           ~aborted, wal' = wal, Len(tables) <= Len(tables'), Len(tables') \in Nat,
           \A t \in 1 .. Len(tables') : \A o :
              Among(o, tables'[t]) <=> t \in 1 .. Len(tables) /\ Among(o, tables[t])
    PROVE  RecordInv'
  <1>1. /\ rec \in [Clients -> Nat] /\ ptr \in [Clients -> Nat] /\ Len(tables) \in Nat
        /\ cpc \in [Clients -> {"idle", "append", "size", "rotate", "replace",
                                "queue", "select", "done"}]
    BY DEF TypeOK
  <1>2. /\ cpc' = [cpc EXCEPT ![c] = "idle"] /\ acked' = acked \cup {rec[c]}
        /\ rec' = [rec EXCEPT ![c] = 0] /\ ptr' = [ptr EXCEPT ![c] = 0]
    BY DEF Acknowledge, Goto
  <1>3. \A t : t \in 1 .. Len(tables) => t \in 1 .. Len(tables')
    BY <1>1
  <1>4. /\ ~Storing(c)' /\ cpc'[c] = "idle"
        /\ \A d \in Clients : d # c => /\ Storing(d)' <=> Storing(d)
                                       /\ cpc'[d] = cpc[d] /\ rec'[d] = rec[d] /\ ptr'[d] = ptr[d]
    BY <1>1, <1>2 DEF Storing
  <1>a. \A d \in Clients : Storing(d)' => rec'[d] \in 1 .. Len(wal')
    BY <1>4 DEF RecordInv
  <1>b. \A d, e \in Clients : Storing(d)' /\ Storing(e)' /\ rec'[d] = rec'[e] => d = e
    BY <1>4 DEF RecordInv
  <1>c. ASSUME NEW d \in Clients, cpc'[d] = "append"
        PROVE  /\ aborted' \/ ptr'[d] \in 1 .. Len(tables')
               /\ \A t \in 1 .. Len(tables') : ~Among(rec'[d], tables'[t])
    <2>1. d # c /\ cpc[d] = "append"
      BY <1>4, <1>c
    <2>2. ptr[d] \in 1 .. Len(tables) /\ \A t \in 1 .. Len(tables) : ~Among(rec[d], tables[t])
      BY <2>1 DEF RecordInv
    <2>3. ptr'[d] = ptr[d] /\ rec'[d] = rec[d]
      BY <1>4, <2>1
    <2> QED BY <1>3, <2>2, <2>3
  <1>d. ASSUME NEW d \in Clients, Storing(d)', cpc'[d] # "append"
        PROVE  \E t \in 1 .. Len(tables') : Among(rec'[d], tables'[t])
    <2>1. d # c /\ Storing(d) /\ cpc[d] # "append" /\ rec'[d] = rec[d]
      BY <1>4, <1>d
    <2>2. PICK t \in 1 .. Len(tables) : Among(rec[d], tables[t])
      BY <2>1 DEF RecordInv
    <2> QED BY <1>3, <2>1, <2>2
  <1>e. ASSUME NEW o \in acked' PROVE \E t \in 1 .. Len(tables') : Among(o, tables'[t])
    <2>1. PICK t \in 1 .. Len(tables) : Among(o, tables[t])
      BY <1>2 DEF RecordInv
    <2> QED BY <1>3, <2>1
  <1>f. ASSUME NEW t \in 1 .. Len(tables'), NEW i \in 1 .. Len(tables'[t])
        PROVE  tables'[t][i] \in 1 .. Len(wal')
    <2>1. Among(tables'[t][i], tables'[t])
      BY DEF Among
    <2>2. t \in 1 .. Len(tables) /\ Among(tables'[t][i], tables[t])
      BY <2>1
    <2> QED BY <2>2, HeldIsLogged
  <1>g. ASSUME NEW t \in 1 .. Len(tables'), NEW u \in 1 .. Len(tables'), NEW o \in 1 .. Len(wal'),
               Among(o, tables'[t]), Among(o, tables'[u])
        PROVE  t = u
    <2>1. t \in 1 .. Len(tables) /\ u \in 1 .. Len(tables) /\ o \in 1 .. Len(wal)
          /\ Among(o, tables[t]) /\ Among(o, tables[u])
      BY <1>g
    <2> QED BY <2>1 DEF RecordInv
  <1> HIDE DEF Storing
  <1> QED BY ONLY <1>a, <1>b, <1>c, <1>d, <1>e, <1>f, <1>g DEF RecordInv, Among

\* Each step leaves each record in at most one table.
LEMMA RecordStays == Inv /\ [Next]_vars => RecordInv'
  <1> SUFFICES ASSUME Inv, [Next]_vars PROVE RecordInv'
    OBVIOUS
  <1>i. TypeOK /\ RecordInv
    BY DEF Inv
  <1>p. /\ cpc \in [Clients -> {"idle", "append", "size", "rotate", "replace",
                             "queue", "select", "done"}]
        /\ tables \in Seq(Seq(Nat)) /\ Len(tables) \in Nat
    BY <1>i DEF TypeOK
  <1>f. ASSUME ~aborted, UNCHANGED <<wal, tables, acked, rec, ptr, cpc>> PROVE RecordInv'
    <2>1. \A c \in Clients : /\ Storing(c)' <=> Storing(c)
                             /\ cpc'[c] = "append" <=> cpc[c] = "append"
                             /\ Storing(c) => rec'[c] = rec[c] /\ ptr'[c] = ptr[c]
      BY <1>f DEF Storing
    <2> QED BY <1>f, <1>i, <2>1, RecordFrame
  <1>g. ASSUME ~aborted, UNCHANGED <<wal, tables, acked, rec, ptr>>,
               NEW c \in Clients, NEW step, Goto(c, step),
               \/ cpc[c] \in {"size", "rotate"} /\ step \in {"rotate", "replace"}
               \/ cpc[c] \in {"idle", "queue", "select", "done"}
                     /\ step \in {"idle", "queue", "select", "done"}
        PROVE  RecordInv'
    <2>1. \A d \in Clients : /\ Storing(d)' <=> Storing(d)
                             /\ cpc'[d] = "append" <=> cpc[d] = "append"
                             /\ Storing(d) => rec'[d] = rec[d] /\ ptr'[d] = ptr[d]
      BY <1>g, <1>p DEF Storing, Goto
    <2> QED BY <1>g, <1>i, <2>1, RecordFrame
  <1>1. ASSUME ~aborted, NEW c \in Clients, NEW k \in Keys, Write(c, k)
        PROVE  RecordInv'
    BY <1>1, <1>i, RecordWrite
  <1>2. ASSUME ~aborted, NEW c \in Clients, NEW k \in Keys, FindMemtable(c, k) PROVE RecordInv'
    BY <1>2, <1>g DEF FindMemtable, memVars
  <1>3. ASSUME ~aborted, NEW c \in Clients, CheckSize(c) PROVE RecordInv'
    <2>1. cpc[c] = "size" /\ UNCHANGED <<wal, tables>>
      BY <1>3 DEF CheckSize, memVars
    <2>2. CASE Goto(c, "rotate") /\ UNCHANGED <<rec, ptr, acked>>
      BY <1>3, <1>g, <2>1, <2>2
    <2>3. CASE Acknowledge(c)
      <3>1. Storing(c) /\ cpc[c] # "append"
        BY <2>1 DEF Storing
      <3>2. \A t \in 1 .. Len(tables') : \A o :
              Among(o, tables'[t]) <=> t \in 1 .. Len(tables) /\ Among(o, tables[t])
        BY <2>1
      <3>3. Len(tables) <= Len(tables') /\ Len(tables') \in Nat
        BY <1>p, <2>1
      <3> QED BY <1>3, <1>i, <2>1, <2>3, <3>1, <3>2, <3>3, RecordAcknowledge
    <2> QED BY <1>3, <2>2, <2>3 DEF CheckSize
  <1>4. ASSUME ~aborted, NEW c \in Clients, HandOver(c) PROVE RecordInv'
    BY <1>4, <1>g DEF HandOver
  <1>5. ASSUME ~aborted, NEW c \in Clients, Replace(c) PROVE RecordInv'
    <2> DEFINE n == Len(tables)
    <2>1. cpc[c] = "replace" /\ wal' = wal /\ tables' = Append(tables, <<>>) /\ Acknowledge(c)
      BY <1>5 DEF Replace
    <2>2. /\ Len(tables') = n + 1 /\ n \in Nat /\ tables'[n + 1] = <<>>
          /\ \A t \in 1 .. n : tables'[t] = tables[t]
      BY <1>p, <2>1
    <2>3. \A o : ~Among(o, <<>>)
      <3>1. Len(<<>>) = 0 /\ 1 .. 0 = {}
        OBVIOUS
      <3> QED BY <3>1 DEF Among
    <2> HIDE DEF n
    <2>4. \A t \in 1 .. n + 1 : t \in 1 .. n \/ (t = n + 1 /\ t \notin 1 .. n)
      BY <2>2
    <2>5. \A t \in 1 .. Len(tables') : \A o :
              Among(o, tables'[t]) <=> t \in 1 .. n /\ Among(o, tables[t])
      BY <2>2, <2>3, <2>4
    <2>6. n <= Len(tables') /\ Len(tables') \in Nat
      BY <2>2
    <2>7. Storing(c) /\ cpc[c] # "append"
      BY <2>1 DEF Storing
    <2> QED BY <1>5, <1>i, <2>1, <2>5, <2>6, <2>7, RecordAcknowledge DEF n
  <1>6. ASSUME ~aborted, NEW c \in Clients, FindQueue(c) PROVE RecordInv'
    <2>1. cpc[c] = "queue" /\ UNCHANGED <<wal, tables, acked, rec, ptr>>
      BY <1>6 DEF FindQueue, memVars
    <2>2. \E step \in {"done", "select"} : Goto(c, step)
      BY <1>6 DEF FindQueue
    <2> QED BY <1>6, <1>g, <2>1, <2>2
  <1>7. ASSUME ~aborted, NEW c \in Clients, Select(c) \/ Return(c) PROVE RecordInv'
    BY <1>7, <1>g DEF Select, Return, memVars
  <1>8. ASSUME ~aborted, NEW w \in Workers, WorkerStep(w) PROVE RecordInv'
    BY <1>8, <1>f DEF WorkerStep, Take, Exit, Block, Sleep, PickUp, WriteSst, ListSst,
       Retire, memVars, clientVars
  <1>9. ASSUME ~aborted, DestroyMembers \/ SetStop \/ NotifyAll \/ Join PROVE RecordInv'
    BY <1>9, <1>f DEF DestroyMembers, SetStop, NotifyAll, Join, memVars, clientVars
  <1>10. ASSUME UNCHANGED vars PROVE RecordInv'
    <2>1. UNCHANGED <<wal, tables, acked, rec, ptr, cpc, aborted>>
      BY <1>10 DEF vars, memVars, clientVars
    <2>2. \A c \in Clients : /\ Storing(c)' <=> Storing(c)
                             /\ cpc'[c] = "append" <=> cpc[c] = "append"
                             /\ Storing(c) => rec'[c] = rec[c] /\ ptr'[c] = ptr[c]
      BY <2>1 DEF Storing
    <2> QED BY <1>i, <2>1, <2>2, RecordFrame
  <1> QED BY <1>1, <1>2, <1>3, <1>4, <1>5, <1>6, <1>7, <1>8, <1>9, <1>10, <1>i, RecordAppend
          DEF Next, ClientStep

\* A record that some table holds, and no other, is found in that table.
LEMMA TableInIs ==
    ASSUME NEW ts \in Seq(Seq(Nat)), NEW o, NEW t \in 1 .. Len(ts), Among(o, ts[t]),
           \A u \in 1 .. Len(ts) : Among(o, ts[u]) => u = t
    PROVE  (CHOOSE u \in DOMAIN ts : Contains(ts[u], o)) = t
  <1>1. DOMAIN ts = 1 .. Len(ts)
    OBVIOUS
  <1>2. \A u \in 1 .. Len(ts) : Contains(ts[u], o) <=> Among(o, ts[u])
    BY DEF Contains, Among
  <1> HIDE DEF Among
  <1> QED BY <1>1, <1>2

\* TableOf is that table.
LEMMA TableOfIs ==
    ASSUME TypeOK, RecordInv, NEW t \in 1 .. Len(tables), NEW o, Among(o, tables[t])
    PROVE  TableOf(o) = t
  <1>1. o \in 1 .. Len(wal)
    BY HeldIsLogged
  <1>2. \A u \in 1 .. Len(tables) : Among(o, tables[u]) => u = t
    BY <1>1 DEF RecordInv
  <1>3. tables \in Seq(Seq(Nat))
    BY DEF TypeOK
  <1> QED BY <1>2, <1>3, TableInIs DEF TableOf

\* A write that returned is in a table.
LEMMA TableOfAcked ==
    ASSUME TypeOK, RecordInv, NEW o \in acked
    PROVE  TableOf(o) \in 1 .. Len(tables) /\ Among(o, tables[TableOf(o)])
  <1>1. PICK t \in 1 .. Len(tables) : Among(o, tables[t])
    BY DEF RecordInv
  <1>2. TableOf(o) = t
    BY <1>1, TableOfIs
  <1> QED BY <1>1, <1>2

\* A record stays in its table.
LEMMA TableStays ==
    ASSUME TypeOK, RecordInv, TypeOK', RecordInv', NEW o \in acked,
           Len(tables) <= Len(tables'),
           \A t \in 1 .. Len(tables) : Among(o, tables[t]) => Among(o, tables'[t])
    PROVE  TableOf(o)' = TableOf(o)
  <1>1. PICK t \in 1 .. Len(tables) : Among(o, tables[t])
    BY DEF RecordInv
  <1>2. TableOf(o) = t
    BY <1>1, TableOfIs
  <1>3. tables \in Seq(Seq(Nat)) /\ tables' \in Seq(Seq(Nat))
    BY DEF TypeOK
  <1>4. t \in 1 .. Len(tables') /\ Among(o, tables'[t])
    BY <1>1, <1>3
  <1>5. o \in 1 .. Len(wal')
    <2>1. \A i \in 1 .. Len(tables'[t]) : tables'[t][i] \in 1 .. Len(wal')
      BY <1>4 DEF RecordInv
    <2> QED BY <1>4, <2>1 DEF Among
  <1>6. \A u \in 1 .. Len(tables') : Among(o, tables'[u]) => u = t
    <2>1. \A u, v \in 1 .. Len(tables') : \A x \in 1 .. Len(wal') :
             Among(x, tables'[u]) /\ Among(x, tables'[v]) => u = v
      BY DEF RecordInv, Among
    <2> QED BY <1>4, <1>5, <2>1
  <1>7. (CHOOSE u \in DOMAIN tables' : Contains(tables'[u], o)) = t
    BY <1>3, <1>4, <1>6, TableInIs
  <1> QED BY <1>2, <1>7 DEF TableOf

\* What a step keeps of what finds look at.
Grows ==
    /\ acked \subseteq acked' /\ retired \subseteq retired'
    /\ acked \subseteq 1 .. Len(wal)
    /\ \A o \in 1 .. Len(wal) : o \in 1 .. Len(wal') /\ wal'[o] = wal[o]
    /\ \A o \in acked : TableOf(o)' = TableOf(o)
    /\ \A o \in acked : TableOf(o) # memtable => TableOf(o) # memtable'

\* The client is where it was in its find.
Untouched(c) ==
    /\ cpc'[c] = cpc[c] /\ seek'[c] = seek[c] /\ found'[c] = found[c]
    /\ owed'[c] = owed[c] /\ got'[c] = got[c]

\* A find keeps what it has while others step.
LEMMA FollowsStays ==
    ASSUME Grows, moved => moved', NEW c \in Clients, Follows(c), Untouched(c)
    PROVE  Follows(c)'
  <1>1. /\ cpc'[c] = cpc[c] /\ seek'[c] = seek[c] /\ found'[c] = found[c]
        /\ owed'[c] = owed[c] /\ got'[c] = got[c]
    BY DEF Untouched
  <1>2. owed[c] \subseteq acked /\ \A o \in owed[c] : wal[o].key = seek[c]
    BY DEF Follows
  <1>g. /\ acked \subseteq acked' /\ retired \subseteq retired'
        /\ acked \subseteq 1 .. Len(wal)
        /\ \A o \in 1 .. Len(wal) : o \in 1 .. Len(wal') /\ wal'[o] = wal[o]
        /\ \A o \in acked : TableOf(o)' = TableOf(o)
        /\ \A o \in acked : TableOf(o) # memtable => TableOf(o) # memtable'
    BY DEF Grows
  <1>3. owed'[c] \subseteq {o \in acked' : wal'[o].key = seek'[c]}
    BY <1>1, <1>2, <1>g
  <1>4. \A i \in 1 .. Len(found'[c]) : found'[c][i] \in 1 .. Len(wal')
    BY <1>1, <1>g DEF Follows
  <1>5. ASSUME NEW o \in owed'[c]
        PROVE  /\ cpc'[c] = "queue" => Among(o, found'[c]) \/ TableOf(o)' # memtable'
               /\ cpc'[c] = "select" =>
                     moved' \/ Among(o, found'[c]) \/ TableOf(o)' \in retired'
               /\ cpc'[c] = "done" =>
                     \/ moved' \/ TableOf(o)' \in retired'
                     \/ /\ Among(o, found'[c])
                        /\ \/ got'[c] = Torn
                           \/ got'[c] \in 1 .. Len(wal') /\ wal'[o].ts <= wal'[got'[c]].ts
    <2>1. o \in acked /\ o \in 1 .. Len(wal) /\ TableOf(o)' = TableOf(o) /\ wal'[o] = wal[o]
      BY <1>1, <1>2, <1>g
    <2>2. /\ cpc[c] = "queue" => Among(o, found[c]) \/ TableOf(o) # memtable
          /\ cpc[c] = "select" => moved \/ Among(o, found[c]) \/ TableOf(o) \in retired
          /\ cpc[c] = "done" =>
                \/ moved \/ TableOf(o) \in retired
                \/ /\ Among(o, found[c])
                   /\ \/ got[c] = Torn
                      \/ got[c] \in 1 .. Len(wal) /\ wal[o].ts <= wal[got[c]].ts
      BY <1>1 DEF Follows
    <2>3. got[c] \in 1 .. Len(wal) => got[c] \in 1 .. Len(wal') /\ wal'[got[c]] = wal[got[c]]
      BY <1>g
    <2>4. TableOf(o) # memtable => TableOf(o)' # memtable'
      BY <1>g, <2>1
    <2>5. TableOf(o) \in retired => TableOf(o)' \in retired'
      BY <1>g, <2>1
    <2>a. cpc'[c] = "queue" => Among(o, found'[c]) \/ TableOf(o)' # memtable'
      BY <1>1, <2>2, <2>4
    <2>b. cpc'[c] = "select" => moved' \/ Among(o, found'[c]) \/ TableOf(o)' \in retired'
      BY <1>1, <2>2, <2>5
    <2>c. cpc'[c] = "done" =>
            \/ moved' \/ TableOf(o)' \in retired'
            \/ /\ Among(o, found'[c])
               /\ \/ got'[c] = Torn
                  \/ got'[c] \in 1 .. Len(wal') /\ wal'[o].ts <= wal'[got'[c]].ts
      BY <1>1, <2>1, <2>2, <2>3, <2>5
    <2> QED BY <2>a, <2>b, <2>c
  <1>6. cpc'[c] = "select" => found'[c] # <<>>
    BY <1>1 DEF Follows
  <1> QED BY <1>3, <1>4, <1>5, <1>6 DEF Follows, Among, Torn

\* A step of one client.
LEMMA FindOthers ==
    ASSUME Grows, moved => moved', FindInv, NEW c \in Clients,
           \A d \in Clients : d # c => Untouched(d),
           Finding(c)' => Follows(c)'
    PROVE  FindInv'
  <1> SUFFICES ASSUME NEW d \in Clients, Finding(d)' PROVE Follows(d)'
    BY DEF FindInv
  <1>1. CASE d = c
    BY <1>1
  <1>2. CASE d # c
    <2>1. Finding(d)
      BY <1>2 DEF Untouched, Finding
    <2>2. Follows(d)
      BY <2>1 DEF FindInv
    <2> QED BY <1>2, <2>2, FollowsStays
  <1> QED BY <1>1, <1>2

\* A step of no find.
LEMMA FindIdle ==
    ASSUME Grows, moved => moved', FindInv, \A d \in Clients : Untouched(d)
    PROVE  FindInv'
  <1> SUFFICES ASSUME NEW d \in Clients, Finding(d)' PROVE Follows(d)'
    BY DEF FindInv
  <1>1. Finding(d)
    BY DEF Untouched, Finding
  <1> QED BY <1>1, FollowsStays DEF FindInv

\* Steps that touch neither the log nor the tables.
LEMMA GrowsFrame ==
    ASSUME TypeOK, UNCHANGED memVars, acked \subseteq acked', retired \subseteq retired'
    PROVE  Grows
  <1>1. wal' = wal /\ tables' = tables /\ memtable' = memtable
    BY DEF memVars
  <1>2. \A o : TableOf(o)' = TableOf(o)
    BY <1>1 DEF TableOf
  <1>3. acked \subseteq 1 .. Len(wal)
    BY DEF TypeOK
  <1> QED BY <1>1, <1>2, <1>3 DEF Grows

\* A new record of the log.
LEMMA GrowsWrite ==
    ASSUME TypeOK, NEW c \in Clients, NEW k \in Keys, Write(c, k)
    PROVE  Grows
  <1> DEFINE n == Len(wal)
  <1>1. tables' = tables /\ memtable' = memtable /\ acked' = acked /\ retired' = retired
    BY DEF Write
  <1>2. \A o : TableOf(o)' = TableOf(o)
    BY <1>1 DEF TableOf
  <1>3. acked \subseteq 1 .. Len(wal)
    BY DEF TypeOK
  <1>4. n \in Nat /\ Len(wal') = n + 1 /\ \A o \in 1 .. n : wal'[o] = wal[o]
    BY WriteLogs
  <1> HIDE DEF n
  <1>5. \A o \in 1 .. n : o \in 1 .. n + 1
    BY <1>4
  <1> QED BY <1>1, <1>2, <1>3, <1>4, <1>5 DEF Grows, n

\* A record that arrives, a table that is handed over, a new table.
LEMMA GrowsTables ==
    ASSUME TypeOK, RecordInv, TypeOK', RecordInv', NEW c \in Clients,
           (AppendRecord(c) /\ ~aborted) \/ HandOver(c) \/ Replace(c)
    PROVE  Grows
  <1>1. /\ wal' = wal /\ acked \subseteq acked' /\ retired' = retired
    BY DEF AppendRecord, HandOver, Replace, Acknowledge
  <1>2. acked \subseteq 1 .. Len(wal) /\ tables \in Seq(Seq(Nat)) /\ Len(tables) \in Nat
    <2>1. acked \subseteq 1 .. Len(wal)
      BY DEF TypeOK
    <2>2. tables \in Seq(Seq(Nat))
      BY DEF TypeOK
    <2> QED BY <2>1, <2>2
  <1>3. /\ Len(tables) <= Len(tables')
        /\ \A t \in 1 .. Len(tables) : \A o : Among(o, tables[t]) => Among(o, tables'[t])
    <2>1. CASE AppendRecord(c) /\ ~aborted
      <3>1. /\ Len(tables') = Len(tables)
            /\ \A t \in 1 .. Len(tables) : \A o :
                 Among(o, tables'[t]) <=> Among(o, tables[t]) \/ (t = ptr[c] /\ o = rec[c])
        BY <2>1, AppendHolds
      <3>2. ASSUME NEW t \in 1 .. Len(tables), NEW o, Among(o, tables[t]) PROVE Among(o, tables'[t])
        BY <3>1, <3>2
      <3>3. Len(tables) <= Len(tables')
        BY <1>2, <3>1
      <3> QED BY <3>2, <3>3
    <2>2. CASE HandOver(c)
      <3>1. tables' = tables
        BY <2>2 DEF HandOver
      <3> QED BY <1>2, <3>1
    <2>3. CASE Replace(c)
      <3>1. tables' = Append(tables, <<>>)
        BY <2>3 DEF Replace
      <3>2. Len(tables') = Len(tables) + 1 /\ \A t \in 1 .. Len(tables) : tables'[t] = tables[t]
        BY <1>2, <3>1
      <3> QED BY <1>2, <3>2
    <2> QED BY <2>1, <2>2, <2>3
  <1>4. ASSUME NEW o \in acked PROVE TableOf(o)' = TableOf(o)
    BY <1>3, TableStays
  <1>5. \A o \in acked : TableOf(o) # memtable => TableOf(o) # memtable'
    <2>1. ASSUME NEW o \in acked PROVE TableOf(o) \in 1 .. Len(tables)
      BY TableOfAcked
    <2>2. CASE AppendRecord(c)
      BY <2>2 DEF AppendRecord
    <2>3. CASE HandOver(c)
      BY <1>2, <2>1, <2>3 DEF HandOver
    <2>4. CASE Replace(c)
      <3>1. tables' = Append(tables, <<>>) /\ memtable' = Len(tables')
        BY <2>4 DEF Replace
      <3>2. memtable' = Len(tables) + 1
        BY <1>2, <3>1
      <3> QED BY <1>2, <2>1, <3>2
    <2> QED BY <2>2, <2>3, <2>4
  <1> QED BY <1>1, <1>2, <1>4, <1>5 DEF Grows

\* The scan of the current table misses no record of its own.
LEMMA FollowsMemtable ==
    ASSUME TypeOK, LockInv, RecordInv, NEW c \in Clients, NEW k \in Keys, FindMemtable(c, k)
    PROVE  Follows(c)'
  <1> DEFINE f == Matching(memtable, k)
             a == {o \in acked : wal[o].key = k}
  <1>1. memtable \in 1 .. Len(tables)
    <2>1. memtable # 0 /\ memtable \in 0 .. Len(tables)
      BY DEF FindMemtable, LockInv, TypeOK
    <2> QED BY <2>1
  <1>2. tables[memtable] \in Seq(Nat)
    <2>1. tables \in Seq(Seq(Nat))
      BY DEF TypeOK
    <2> QED BY <1>1, <2>1
  <1>3. /\ f \in Seq(Nat)
        /\ \A o : Among(o, f) <=> Among(o, tables[memtable]) /\ wal[o].key = k
    BY <1>2, MatchingHolds
  <1> HIDE DEF f
  <1>4. /\ wal' = wal /\ tables' = tables /\ memtable' = memtable /\ acked' = acked
        /\ seek' = [seek EXCEPT ![c] = k] /\ found' = [found EXCEPT ![c] = f]
        /\ owed' = [owed EXCEPT ![c] = a] /\ cpc' = [cpc EXCEPT ![c] = "queue"]
    BY DEF FindMemtable, memVars, Goto, f
  <1>t. /\ seek \in [Clients -> Keys \cup {NoKey}] /\ found \in [Clients -> Seq(Nat)]
        /\ owed \in [Clients -> SUBSET Nat]
        /\ cpc \in [Clients -> {"idle", "append", "size", "rotate", "replace",
                                "queue", "select", "done"}]
    BY DEF TypeOK
  <1>5. seek'[c] = k /\ found'[c] = f /\ owed'[c] = a /\ cpc'[c] = "queue"
    <2> HIDE DEF a
    <2> QED BY ONLY <1>4, <1>t
  <1>6. owed'[c] \subseteq {o \in acked' : wal'[o].key = seek'[c]}
    BY <1>4, <1>5
  <1>7. ASSUME NEW i \in 1 .. Len(found'[c]) PROVE found'[c][i] \in 1 .. Len(wal')
    <2>1. Among(f[i], f) /\ f[i] = found'[c][i]
      BY <1>5 DEF Among
    <2>2. Among(f[i], tables[memtable])
      BY <1>3, <2>1
    <2>3. f[i] \in 1 .. Len(wal)
      BY <1>1, <2>2, HeldIsLogged
    <2> QED BY <1>4, <2>1, <2>3
  <1>8. ASSUME NEW o \in owed'[c] PROVE Among(o, found'[c]) \/ TableOf(o)' # memtable'
    <2>1. o \in acked /\ wal[o].key = k
      BY <1>5
    <2>2. Among(o, tables[TableOf(o)])
      BY <2>1, TableOfAcked
    <2>3. TableOf(o)' = TableOf(o)
      BY <1>4 DEF TableOf
    <2>4. CASE TableOf(o) = memtable
      <3>1. Among(o, f)
        BY <1>3, <2>1, <2>2, <2>4
      <3> QED BY <1>5, <3>1
    <2>5. CASE TableOf(o) # memtable
      BY <1>4, <2>3, <2>5
    <2> QED BY <2>4, <2>5
  <1> HIDE DEF a
  <1> QED BY <1>5, <1>6, <1>7, <1>8 DEF Follows, Among

\* The scan of the queue and of working_ misses no record of theirs: with the
\* current table scanned before, what is missed was flushed.
LEMMA FollowsQueue ==
    ASSUME TypeOK, RangeInv, moved \/ PlaceInv, RecordInv, FindInv,
           NEW c \in Clients, FindQueue(c)
    PROVE  Follows(c)'
  <1> DEFINE m == MatchingIn(UnflushedTables, seek[c])
             f == found[c] \o m
  <1>1. /\ m \in Seq(Nat)
        /\ \A o : Among(o, m) <=>
              \E t \in 1 .. Len(tables) :
                 /\ Among(t, queue) \/ Among(t, working)
                 /\ Among(o, tables[t]) /\ wal[o].key = seek[c]
    BY FindQueueFinds
  <1>2. found[c] \in Seq(Nat)
    BY DEF TypeOK
  <1> HIDE DEF m
  <1>3. f \in Seq(Nat) /\ \A o : Among(o, f) <=> Among(o, found[c]) \/ Among(o, m)
    BY <1>1, <1>2, ConcatHolds
  <1>4. /\ wal' = wal /\ tables' = tables /\ memtable' = memtable /\ acked' = acked
        /\ retired' = retired /\ moved' = moved /\ seek' = seek /\ owed' = owed /\ cpc[c] = "queue"
        /\ found' = [found EXCEPT ![c] = f]
        /\ cpc' = [cpc EXCEPT ![c] = IF f = <<>> THEN "done" ELSE "select"]
    BY DEF FindQueue, memVars, queueVars, Goto, m
  <1> HIDE DEF f
  <1>t. /\ found \in [Clients -> Seq(Nat)]
        /\ cpc \in [Clients -> {"idle", "append", "size", "rotate", "replace",
                                "queue", "select", "done"}]
    BY DEF TypeOK
  <1>5. found'[c] = f /\ cpc'[c] = IF f = <<>> THEN "done" ELSE "select"
    BY <1>4, <1>t
  <1>f. Follows(c)
    BY <1>4 DEF FindInv, Finding
  <1>6. owed'[c] \subseteq {o \in acked' : wal'[o].key = seek'[c]}
    BY <1>4, <1>f DEF Follows
  <1>7. ASSUME NEW i \in 1 .. Len(found'[c]) PROVE found'[c][i] \in 1 .. Len(wal')
    <2>1. Among(f[i], f) /\ f[i] = found'[c][i]
      BY <1>5 DEF Among
    <2>2. CASE Among(f[i], found[c])
      BY <1>4, <1>f, <2>1, <2>2 DEF Follows, Among
    <2>3. CASE Among(f[i], m)
      <3>1. PICK t \in 1 .. Len(tables) : Among(f[i], tables[t])
        BY <1>1, <2>3
      <3> QED BY <1>4, <2>1, <3>1, HeldIsLogged
    <2> QED BY <1>3, <2>1, <2>2, <2>3
  <1>8. ASSUME NEW o \in owed'[c] PROVE moved' \/ Among(o, f) \/ TableOf(o)' \in retired'
    <2>1. o \in acked /\ wal[o].key = seek[c]
      BY <1>4, <1>f DEF Follows
    <2>2. TableOf(o) \in 1 .. Len(tables) /\ Among(o, tables[TableOf(o)])
      BY <2>1, TableOfAcked
    <2>3. TableOf(o)' = TableOf(o)
      BY <1>4 DEF TableOf
    <2>4. Among(o, found[c]) \/ TableOf(o) # memtable
      BY <1>4, <1>f DEF Follows
    <2>5. CASE Among(o, found[c])
      BY <1>3, <2>5
    <2>6. CASE ~moved /\ TableOf(o) # memtable /\ TableOf(o) \notin retired
      <3>1. Among(TableOf(o), queue) \/ Among(TableOf(o), working)
        BY <2>2, <2>6 DEF PlaceInv, Among
      <3>2. Among(o, m)
        BY <1>1, <2>1, <2>2, <3>1
      <3> QED BY <1>3, <3>2
    <2> QED BY <1>4, <2>3, <2>4, <2>5, <2>6
  <1>9. f = <<>> => \A o : ~Among(o, f)
    <2>1. Len(<<>>) = 0 /\ 1 .. 0 = {}
      OBVIOUS
    <2> QED BY <2>1 DEF Among
  <1>10. ASSUME NEW o \in owed'[c]
         PROVE  /\ cpc'[c] = "queue" => Among(o, found'[c]) \/ TableOf(o)' # memtable'
                /\ cpc'[c] = "select" =>
                      moved' \/ Among(o, found'[c]) \/ TableOf(o)' \in retired'
                /\ cpc'[c] = "done" => moved' \/ TableOf(o)' \in retired'
    BY <1>5, <1>8, <1>9
  <1>11. cpc'[c] = "select" => found'[c] # <<>>
    BY <1>5
  <1> QED BY <1>6, <1>7, <1>10, <1>11 DEF Follows, Among

\* The answer is as late as every record that was found.
LEMMA FollowsSelect ==
    ASSUME TypeOK, RecordInv, FindInv, NEW c \in Clients, Select(c)
    PROVE  Follows(c)'
  <1>1. PICK a \in Nat :
              /\ got' = [got EXCEPT ![c] = a]
              /\ \/ a = Torn
                 \/ /\ a \in 1 .. Len(wal)
                    /\ \A o : Among(o, found[c]) => wal[o].ts <= wal[a].ts
    BY SelectAnswers
  <1>2. /\ wal' = wal /\ tables' = tables /\ memtable' = memtable /\ acked' = acked
        /\ retired' = retired /\ moved' = moved /\ seek' = seek /\ owed' = owed /\ cpc[c] = "select"
        /\ found' = found /\ cpc' = [cpc EXCEPT ![c] = "done"]
    BY DEF Select, memVars, queueVars, Goto
  <1>t. /\ got \in [Clients -> Nat]
        /\ cpc \in [Clients -> {"idle", "append", "size", "rotate", "replace",
                                "queue", "select", "done"}]
    BY DEF TypeOK
  <1>3. got'[c] = a /\ cpc'[c] = "done"
    BY <1>1, <1>2, <1>t
  <1>f. Follows(c)
    BY <1>2 DEF FindInv, Finding
  <1>4. /\ owed'[c] \subseteq {o \in acked' : wal'[o].key = seek'[c]}
        /\ \A i \in 1 .. Len(found'[c]) : found'[c][i] \in 1 .. Len(wal')
    BY <1>2, <1>f DEF Follows
  <1>5. ASSUME NEW o \in owed'[c]
        PROVE  \/ moved' \/ TableOf(o)' \in retired'
               \/ /\ Among(o, found'[c])
                  /\ \/ got'[c] = Torn
                     \/ got'[c] \in 1 .. Len(wal') /\ wal'[o].ts <= wal'[got'[c]].ts
    <2>1. moved \/ Among(o, found[c]) \/ TableOf(o) \in retired
      BY <1>2, <1>f DEF Follows
    <2>2. TableOf(o)' = TableOf(o)
      BY <1>2 DEF TableOf
    <2>3. CASE Among(o, found[c])
      BY <1>1, <1>2, <1>3, <2>3
    <2> QED BY <1>2, <2>1, <2>2, <2>3
  <1> QED BY <1>3, <1>4, <1>5 DEF Follows, Among, Torn

\* Each step leaves each find with what it owes.
LEMMA FindStays == Inv /\ TypeOK' /\ RecordInv' /\ [Next]_vars => FindInv'
  <1> SUFFICES ASSUME Inv, TypeOK', RecordInv', [Next]_vars PROVE FindInv'
    OBVIOUS
  <1>i. /\ TypeOK /\ RangeInv /\ LockInv /\ RecordInv /\ FindInv
        /\ moved \/ PlaceInv
        /\ moved => moved'
    BY MovedStays DEF Inv
  <1>t. /\ cpc \in [Clients -> {"idle", "append", "size", "rotate", "replace",
                                "queue", "select", "done"}]
        /\ seek \in [Clients -> Keys \cup {NoKey}] /\ found \in [Clients -> Seq(Nat)]
        /\ owed \in [Clients -> SUBSET Nat] /\ got \in [Clients -> Nat]
    BY <1>i DEF TypeOK
  <1>w. ASSUME NEW c \in Clients, NEW step, Goto(c, step), step \notin {"queue", "select", "done"},
               UNCHANGED <<seek, found, owed, got>>, Grows
        PROVE  FindInv'
    <2>1. /\ \A d \in Clients : d # c => Untouched(d)
          /\ cpc'[c] = step
      BY <1>t, <1>w DEF Goto, Untouched
    <2>2. ~Finding(c)'
      BY <1>w, <2>1 DEF Finding
    <2> QED BY <1>i, <1>w, <2>1, <2>2, FindOthers
  <1>n. ASSUME UNCHANGED clientVars, Grows PROVE FindInv'
    <2>1. \A d \in Clients : Untouched(d)
      BY <1>n DEF Untouched, clientVars
    <2> QED BY <1>i, <1>n, <2>1, FindIdle
  <1>1. ASSUME NEW c \in Clients, NEW k \in Keys, Write(c, k)
        PROVE  FindInv'
    <2>1. Grows
      BY <1>1, <1>i, GrowsWrite
    <2>2. Goto(c, "append") /\ UNCHANGED <<seek, found, owed, got>>
      BY <1>1 DEF Write
    <2> QED BY <1>w, <2>1, <2>2
  <1>2. ASSUME NEW c \in Clients, NEW k \in Keys, FindMemtable(c, k) PROVE FindInv'
    <2>1. Grows
      BY <1>2, <1>i, GrowsFrame DEF FindMemtable
    <2>2. Follows(c)'
      BY <1>2, <1>i, FollowsMemtable
    <2>3. \A d \in Clients : d # c => Untouched(d)
      <3>1. PICK a, f : /\ seek' = [seek EXCEPT ![c] = k] /\ found' = [found EXCEPT ![c] = f]
                        /\ owed' = [owed EXCEPT ![c] = a] /\ cpc' = [cpc EXCEPT ![c] = "queue"]
                        /\ got' = got
        BY <1>2 DEF FindMemtable, Goto
      <3> QED BY ONLY <1>t, <3>1 DEF Untouched
    <2> QED BY <1>i, <2>1, <2>2, <2>3, FindOthers
  <1>3. ASSUME NEW c \in Clients, ~aborted, AppendRecord(c) PROVE FindInv'
    <2>1. Grows
      BY <1>3, <1>i, GrowsTables
    <2>2. Goto(c, "size") /\ UNCHANGED <<seek, found, owed, got>>
      BY <1>3 DEF AppendRecord
    <2> QED BY <1>w, <2>1, <2>2
  <1>4. ASSUME NEW c \in Clients, CheckSize(c) PROVE FindInv'
    <2>1. UNCHANGED memVars /\ acked \subseteq acked' /\ retired' = retired
      BY <1>4 DEF CheckSize, Acknowledge
    <2>2. Grows
      BY <1>i, <2>1, GrowsFrame
    <2>3. /\ \E step \in {"rotate", "idle"} : Goto(c, step)
          /\ UNCHANGED <<seek, found, owed, got>>
      BY <1>4 DEF CheckSize, Acknowledge
    <2> QED BY <1>w, <2>2, <2>3
  <1>5. ASSUME NEW c \in Clients, HandOver(c) PROVE FindInv'
    <2>1. Grows
      BY <1>5, <1>i, GrowsTables
    <2>2. Goto(c, "replace") /\ UNCHANGED <<seek, found, owed, got>>
      BY <1>5 DEF HandOver
    <2> QED BY <1>w, <2>1, <2>2
  <1>6. ASSUME NEW c \in Clients, Replace(c) PROVE FindInv'
    <2>1. Grows
      BY <1>6, <1>i, GrowsTables
    <2>2. Goto(c, "idle") /\ UNCHANGED <<seek, found, owed, got>>
      BY <1>6 DEF Replace, Acknowledge
    <2> QED BY <1>w, <2>1, <2>2
  <1>7. ASSUME NEW c \in Clients, FindQueue(c) PROVE FindInv'
    <2>1. Grows
      BY <1>7, <1>i, GrowsFrame DEF FindQueue
    <2>2. Follows(c)'
      BY <1>7, <1>i, FollowsQueue
    <2>3. \A d \in Clients : d # c => Untouched(d)
      <3>1. PICK f, step : /\ found' = [found EXCEPT ![c] = f] /\ cpc' = [cpc EXCEPT ![c] = step]
                           /\ UNCHANGED <<seek, owed, got>>
        BY <1>7 DEF FindQueue, Goto
      <3> QED BY ONLY <1>t, <3>1 DEF Untouched
    <2> QED BY <1>i, <2>1, <2>2, <2>3, FindOthers
  <1>8. ASSUME NEW c \in Clients, Select(c) PROVE FindInv'
    <2>1. Grows
      BY <1>8, <1>i, GrowsFrame DEF Select
    <2>2. Follows(c)'
      BY <1>8, <1>i, FollowsSelect
    <2>3. \A d \in Clients : d # c => Untouched(d)
      <3>1. PICK a : got' = [got EXCEPT ![c] = a]
        BY <1>8 DEF Select
      <3>2. cpc' = [cpc EXCEPT ![c] = "done"] /\ UNCHANGED <<seek, found, owed>>
        BY <1>8 DEF Select, Goto
      <3> QED BY ONLY <1>t, <3>1, <3>2 DEF Untouched
    <2> QED BY <1>i, <2>1, <2>2, <2>3, FindOthers
  <1>9. ASSUME NEW c \in Clients, Return(c) PROVE FindInv'
    <2>1. Grows
      BY <1>9, <1>i, GrowsFrame DEF Return
    <2>2. \A d \in Clients : d # c => Untouched(d)
      BY <1>9, <1>t DEF Return, Goto, Untouched
    <2>3. ~Finding(c)'
      BY <1>9, <1>t DEF Return, Goto, Finding
    <2> QED BY <1>i, <2>1, <2>2, <2>3, FindOthers
  <1>10. ASSUME NEW w \in Workers, WorkerStep(w) PROVE FindInv'
    <2>1. UNCHANGED memVars /\ acked' = acked /\ retired \subseteq retired' /\ UNCHANGED clientVars
      BY <1>10 DEF WorkerStep, Take, Exit, Block, Sleep, PickUp, WriteSst, ListSst, Retire
    <2> QED BY <1>i, <1>n, <2>1, GrowsFrame
  <1>11. ASSUME DestroyMembers \/ SetStop \/ NotifyAll \/ Join PROVE FindInv'
    <2>1. UNCHANGED memVars /\ acked' = acked /\ retired' = retired /\ UNCHANGED clientVars
      BY <1>11 DEF DestroyMembers, SetStop, NotifyAll, Join
    <2> QED BY <1>i, <1>n, <2>1, GrowsFrame
  <1>12. ASSUME UNCHANGED vars PROVE FindInv'
    <2>1. UNCHANGED memVars /\ acked' = acked /\ retired' = retired /\ UNCHANGED clientVars
      BY <1>12 DEF vars
    <2> QED BY <1>i, <1>n, <2>1, GrowsFrame
  <1> QED BY <1>1, <1>2, <1>3, <1>4, <1>5, <1>6, <1>7, <1>8, <1>9, <1>10, <1>11, <1>12
          DEF Next, ClientStep

\* The invariant holds at first, after each step, and so always.
LEMMA InitInv == Init => Inv
  <1> SUFFICES ASSUME Init PROVE Inv
    OBVIOUS
  <1>1. TypeOK
    BY InitType
  <1>e. Len(<<>>) = 0 /\ 1 .. 0 = {}
    OBVIOUS
  <1>2. WorkerInv
    <2>1. working = <<>> /\ \A w \in Workers : wpc[w] = "check"
      BY DEF Init
    <2>2. \A w \in Workers : ~Holding(w)
      BY <2>1 DEF Holding
    <2> QED BY <1>e, <2>1, <2>2 DEF WorkerInv
  <1>3. PlaceInv
    <2>1. tables = << <<>> >> /\ memtable = 1 /\ queue = <<>> /\ working = <<>> /\ retired = {}
      BY DEF Init
    <2>2. Len(tables) = 1 /\ \A t \in 1 .. 1 : t = 1
      BY <2>1
    <2> QED BY <1>e, <2>1, <2>2 DEF PlaceInv
  <1>c. \A c \in Clients : cpc[c] = "idle"
    BY DEF Init
  <1>4. LockInv
    <2>1. memtable = 1
      BY DEF Init
    <2> QED BY <1>c, <2>1 DEF LockInv, MemtableLocked
  <1>5. EndInv
    <2>1. \A w \in Workers : wpc[w] = "check"
      BY DEF Init
    <2> QED BY <1>c, <2>1 DEF EndInv
  <1>6. RecordInv
    <2>1. \A c \in Clients : ~Storing(c) /\ cpc[c] # "append"
      BY <1>c DEF Storing
    <2>2. tables = << <<>> >> /\ acked = {}
      BY DEF Init
    <2>3. Len(tables) = 1 /\ \A t \in 1 .. 1 : tables[t] = <<>>
      BY <2>2
    <2>4. \A o : \A t \in 1 .. 1 : ~Among(o, tables[t])
      BY <1>e, <2>3 DEF Among
    <2> QED BY <1>e, <2>1, <2>2, <2>3, <2>4 DEF RecordInv
  <1>7. FindInv
    BY <1>c DEF FindInv, Finding
  <1>8. RangeInv /\ AwakeInv
    <2>1. queue = <<>> /\ working = <<>> /\ \A w \in Workers : wpc[w] = "check"
      BY DEF Init
    <2>2. \A w \in Workers : ~Holding(w)
      BY <2>1 DEF Holding
    <2> QED BY <1>e, <2>1, <2>2 DEF RangeInv, AwakeInv
  <1> QED BY <1>1, <1>2, <1>3, <1>4, <1>5, <1>6, <1>7, <1>8 DEF Inv

\* The invariant is inductive.
LEMMA InvStep == Inv /\ [Next]_vars => Inv'
  BY TypeStep, RangeStays, WorkerStays, PlaceStays, LockStays, EndStays, AwakeStays,
     RecordStays, FindStays DEF Inv

\* It holds in every reachable state.
LEMMA InvAlways == Spec => []Inv
  BY InitInv, InvStep, PTL DEF Spec

\* For any number of workers the variables keep their types: a find starts and
\* a record arrives at a table that exists, filters are stored under ids that
\* were handed out, and what is flushed was made, also by an iterator that an
\* erase has sent astray (core.cpp:232-308, :558-615).
THEOREM TypeCorrect == Spec => []TypeOK
  <1>1. Inv => TypeOK
    BY DEF Inv
  <1> QED BY InvAlways, <1>1, PTL

\* No element comes twice.
NoneTwice(q) == \A i, j \in 1 .. Len(q) : q[i] = q[j] => i = j

\* How often a table is at a place that holds no table twice.
LEMMA HitsOnce ==
    ASSUME NEW S, NEW q \in Seq(S), NoneTwice(q), NEW t
    PROVE  Cardinality({i \in DOMAIN q : q[i] = t}) = IF Among(t, q) THEN 1 ELSE 0
  <1>1. DOMAIN q = 1 .. Len(q)
    OBVIOUS
  <1>2. CASE Among(t, q)
    <2>1. PICK i \in 1 .. Len(q) : q[i] = t
      BY <1>2 DEF Among
    <2>2. {j \in DOMAIN q : q[j] = t} = {i}
      BY <1>1, <2>1 DEF NoneTwice
    <2> QED BY <1>2, <2>2, FS_Singleton
  <1>3. CASE ~Among(t, q)
    <2>1. {j \in DOMAIN q : q[j] = t} = {}
      BY <1>1, <1>3 DEF Among
    <2> QED BY <1>3, <2>1, FS_EmptySet
  <1> QED BY <1>2, <1>3

\* Tables that are each at one place are counted once.
LEMMA PlacesAreOne == TypeOK /\ PlaceInv => InOnePlace
  <1> SUFFICES ASSUME TypeOK, PlaceInv, NEW t \in DOMAIN tables
               PROVE  Cardinality({i \in DOMAIN queue : queue[i] = t})
                        + Cardinality({i \in DOMAIN working : working[i] = t})
                        + Cardinality({t} \cap retired)
                        + Cardinality({t} \cap {memtable}) = 1
    BY DEF InOnePlace
  <1>1. queue \in Seq(Nat) /\ working \in Seq(Nat) /\ tables \in Seq(Seq(Nat))
    BY DEF TypeOK
  <1>2. t \in 1 .. Len(tables)
    BY <1>1
  <1>3. /\ Cardinality({i \in DOMAIN queue : queue[i] = t}) = IF Among(t, queue) THEN 1 ELSE 0
        /\ Cardinality({i \in DOMAIN working : working[i] = t}) = IF Among(t, working) THEN 1 ELSE 0
    <2>1. NoneTwice(queue) /\ NoneTwice(working)
      BY DEF PlaceInv, NoneTwice
    <2> QED BY <1>1, <2>1, HitsOnce
  <1>4. ASSUME NEW S PROVE Cardinality({t} \cap S) = IF t \in S THEN 1 ELSE 0
    <2>1. CASE t \in S
      <3>1. {t} \cap S = {t}
        BY <2>1
      <3> QED BY <2>1, <3>1, FS_Singleton
    <2>2. CASE t \notin S
      <3>1. {t} \cap S = {}
        BY <2>2
      <3> QED BY <2>2, <3>1, FS_EmptySet
    <2> QED BY <2>1, <2>2
  <1>5. /\ Cardinality({t} \cap retired) = IF t \in retired THEN 1 ELSE 0
        /\ Cardinality({t} \cap {memtable}) = IF t = memtable THEN 1 ELSE 0
    BY <1>4
  <1>6. /\ Among(t, queue) => ~Among(t, working) /\ t \notin retired /\ t # memtable
        /\ Among(t, working) => t \notin retired /\ t # memtable
        /\ t \in retired => t # memtable
        /\ t = memtable \/ t \in retired \/ Among(t, queue) \/ Among(t, working)
    BY <1>2 DEF PlaceInv, Among
  <1> QED BY <1>3, <1>5, <1>6

\* For any number of workers no memtable is lost or flushed twice, whatever the
\* interleaving of clients, workers and the destructor, until one worker's erase
\* moves elements under the iterator of another: each is current, queued, being
\* flushed or flushed (core.cpp:301-307, :506-511, :558-615).
THEOREM TablesCorrect == Spec => []NoTableLost
  <1>1. Inv => NoTableLost
    BY PlacesAreOne DEF Inv, NoTableLost
  <1> QED BY InvAlways, <1>1, PTL

\* A sequence contains what is among its elements.
LEMMA AmongContains ==
    ASSUME NEW q \in Seq(Nat), NEW x, Among(x, q)
    PROVE  Contains(q, x)
  BY DEF Among, Contains

\* For any number of workers a find collects every write that had returned before
\* it began and whose table is not flushed by its end, however the table moves
\* down the pipeline meanwhile, and answers no earlier one, until an erase moves
\* elements under another iterator (core.cpp:232-297, :537-552).
THEOREM FindCorrect == Spec => []FindSeesUnflushed
  <1>1. Inv => FindSeesUnflushed
    <2> SUFFICES ASSUME Inv, ~moved, NEW c \in Clients, cpc[c] = "done",
                        NEW o \in owed[c], TableOf(o) \notin retired
                 PROVE  /\ Contains(found[c], o)
                        /\ got[c] # Torn => got[c] # 0 /\ wal[o].ts <= wal[got[c]].ts
      BY DEF FindSeesUnflushed, UnflushedIsSeen
    <2>1. Follows(c)
      BY DEF Inv, FindInv, Finding
    <2>2. /\ Among(o, found[c])
          /\ \/ got[c] = Torn
             \/ got[c] \in 1 .. Len(wal) /\ wal[o].ts <= wal[got[c]].ts
      BY <2>1 DEF Follows
    <2>3. found[c] \in Seq(Nat)
      BY DEF Inv, TypeOK
    <2>4. Contains(found[c], o)
      BY <2>2, <2>3, AmongContains
    <2>5. \A n \in 1 .. Len(wal) : n # 0
      OBVIOUS
    <2> QED BY <2>2, <2>4, <2>5
  <1> QED BY InvAlways, <1>1, PTL

\* For any number of workers all leave only when every table that was handed over
\* is flushed, so ~Queue loses none, until an erase moves elements under another
\* iterator (core.cpp:489-525).
THEOREM DrainCorrect == Spec => []ClosedIsDrained
  <1>1. Inv => ClosedIsDrained
    <2> SUFFICES ASSUME Inv, ~moved, \A w \in Workers : wpc[w] = "exited",
                        NEW t \in DOMAIN tables
                 PROVE  t = memtable \/ t \in retired
      BY DEF ClosedIsDrained, ExitedIsDrained
    <2>1. TypeOK /\ WorkerInv /\ PlaceInv /\ EndInv
      BY DEF Inv
    <2>2. queue = <<>>
      BY <2>1, DatabaseAssumption DEF EndInv
    <2>3. \A i \in 1 .. Len(working) : FALSE
      BY <2>1 DEF WorkerInv, Holding
    <2>4. t \in 1 .. Len(tables)
      BY <2>1 DEF TypeOK
    <2>5. Len(<<>>) = 0 /\ 1 .. 0 = {}
      OBVIOUS
    <2> QED BY <2>1, <2>2, <2>3, <2>4, <2>5 DEF PlaceInv
  <1> QED BY InvAlways, <1>1, PTL

\* For any number of workers, and whatever has become of their iterators, no
\* wake-up is lost: while a table is queued a worker is up, to take it or to come
\* back for it, unless compaction has locked them out (core.cpp:500-505, :531-534).
THEOREM QueueCorrect == Spec => []QueueIsServed
  <1>1. Inv => QueueIsServed
    <2> SUFFICES ASSUME Inv, queue # <<>>, ~SstablesLocked
                 PROVE  \E w \in Workers :
                           wpc[w] \in {"check", "pick", "write", "list", "retire"}
      BY DEF QueueIsServed
    <2>1. PICK w \in Workers : Awake(w)
      BY DEF Inv, AwakeInv
    <2>2. wpc[w] \in {"check", "blocking", "asleep", "pick", "write", "list",
                      "compacting", "retire", "exited"}
      BY DEF Inv, TypeOK
    <2> QED BY <2>1, <2>2 DEF Awake, SstablesLocked
  <1> QED BY InvAlways, <1>1, PTL

\* max(hardware_concurrency / 2, 1) workers on a machine of up to five hardware
\* threads (core.cpp:41).
PairOfWorkers == \E v, w \in Workers : Workers = {v, w}

\* With one or two workers no erase ever moves an element under another iterator:
\* of two elements each is the first or the last (core.cpp:613).  There the three
\* properties that end with such an erase hold for good.
THEOREM PairIsSafe ==
    PairOfWorkers => (Spec => [](InOnePlace /\ UnflushedIsSeen /\ ExitedIsDrained))
  <1> SUFFICES ASSUME PairOfWorkers
               PROVE  Spec => [](InOnePlace /\ UnflushedIsSeen /\ ExitedIsDrained)
    OBVIOUS
  <1>1. Init => ~moved
    BY DEF Init
  <1>2. ASSUME Inv, ~moved, [Next]_vars PROVE ~moved'
    <2>1. UNCHANGED queueVars => ~moved'
      BY <1>2 DEF queueVars
    <2>2. ASSUME NEW w \in Workers, Retire(w) PROVE ~moved'
      <3> DEFINE n == Len(working)
      <3>1. WorkerInv /\ n \in Nat
        BY <1>2 DEF Inv, TypeOK
      <3>2. Place(w) \in 1 .. n
        BY <2>2, <3>1 DEF WorkerInv, Retire, Holding
      <3>3. n <= 2
        <4> SUFFICES ASSUME n > 2 PROVE FALSE
          BY <3>1
        <4>1. 1 \in 1 .. n /\ 2 \in 1 .. n /\ 3 \in 1 .. n
          BY <3>1
        <4>2. PICK u \in Workers : Place(u) = 1
          BY <3>1, <4>1 DEF WorkerInv
        <4>3. PICK v \in Workers : Place(v) = 2
          BY <3>1, <4>1 DEF WorkerInv
        <4>4. PICK x \in Workers : Place(x) = 3
          BY <3>1, <4>1 DEF WorkerInv
        <4>5. u = v \/ u = x \/ v = x
          BY DEF PairOfWorkers
        <4> QED BY <4>2, <4>3, <4>4, <4>5
      <3>4. moved' = (moved \/ (1 < Place(w) /\ Place(w) < n))
        BY <2>2 DEF Retire, EraseWorking, Place
      <3> HIDE DEF n
      <3>5. ~(1 < Place(w) /\ Place(w) < n)
        BY <3>1, <3>2, <3>3
      <3> QED BY <1>2, <3>4, <3>5, Zenon
    <2>3. ASSUME NEW w \in Workers, WorkerStep(w) PROVE ~moved'
      BY <1>2, <2>1, <2>2, <2>3
         DEF WorkerStep, Take, Exit, Block, Sleep, PickUp, WriteSst, ListSst
    <2>4. ASSUME NEW c \in Clients, ClientStep(c) PROVE ~moved'
      BY <1>2, <2>1, <2>4 DEF ClientStep, AppendRecord, CheckSize, HandOver, Replace,
         FindQueue, Select, Return
    <2>5. ASSUME NEW c \in Clients, NEW k \in Keys, Write(c, k) \/ FindMemtable(c, k)
          PROVE  ~moved'
      BY <2>1, <2>5 DEF Write, FindMemtable
    <2>6. ASSUME DestroyMembers \/ SetStop \/ NotifyAll \/ Join PROVE ~moved'
      BY <2>1, <2>6 DEF DestroyMembers, SetStop, NotifyAll, Join
    <2>7. ASSUME UNCHANGED vars PROVE ~moved'
      BY <2>1, <2>7 DEF vars
    <2> QED BY <1>2, <2>3, <2>4, <2>5, <2>6, <2>7 DEF Next
  <1>3. Spec => []~moved
    BY <1>1, <1>2, InvAlways, PTL DEF Spec
  <1>4. /\ ~moved /\ NoTableLost => InOnePlace
        /\ ~moved /\ FindSeesUnflushed => UnflushedIsSeen
        /\ ~moved /\ ClosedIsDrained => ExitedIsDrained
    BY DEF NoTableLost, FindSeesUnflushed, ClosedIsDrained
  <1> QED BY <1>3, <1>4, TablesCorrect, FindCorrect, DrainCorrect, PTL
=============================================================================
