------------------------- MODULE HybridClockProofs -------------------------
(***************************************************************************)
(* The order a hybrid clock promises, for every number of nodes, threads   *)
(* and stamps, and for every behaviour of the wall clock.                  *)
(*                                                                         *)
(* PhysNeverLeads and Linearizable are proved from no assumption, the      *)
(* order of what happened before from a counter that cannot wrap; none     *)
(* asks that the wall clock fits the word.  What becomes of the counter    *)
(* when no reading does is the last theorem.                               *)
(***************************************************************************)
EXTENDS HybridClock, SequenceTheorems, TLAPS

\* Lexicographic order on <<phys, log>>, what the packed word compares.
Below(a, b) == a.phys < b.phys \/ (a.phys = b.phys /\ a.log < b.log)

NotAbove(a, b) == a.phys < b.phys \/ (a.phys = b.phys /\ a.log <= b.log)

\* ------------------------------------------------------------ arithmetic

\* The remainder by a positive modulus stays in range and never grows.
LEMMA ModFacts ==
    ASSUME NEW a \in Nat, NEW m \in Nat \ {0}
    PROVE  /\ a % m \in 0 .. m - 1
           /\ a % m <= a
           /\ a < m => a % m = a
  BY Z3

\* The counter stays in its range, and adds one unless it wraps.
LEMMA CounterFacts ==
    ASSUME NEW l \in Nat
    PROVE  /\ (l + 1) % LogMod \in 0 .. LogMod - 1
           /\ l + 1 < LogMod => (l + 1) % LogMod = l + 1
  <1>1. l + 1 \in Nat /\ LogMod \in Nat \ {0}
    BY ConstantsAssumption
  <1> QED BY ONLY <1>1, ModFacts

LEMMA LargerFacts ==
    ASSUME NEW a \in Nat, NEW b \in Nat
    PROVE  /\ Larger(a, b) \in Nat
           /\ Larger(a, b) = a \/ Larger(a, b) = b
           /\ a <= Larger(a, b)
           /\ b <= Larger(a, b)
  BY DEF Larger

\* A truncated time is a legal word.
LEMMA PackType ==
    ASSUME NEW t \in [phys : Nat, log : 0 .. LogMod - 1]
    PROVE  /\ Pack(t) \in Word
           /\ Pack(t).log = t.log
           /\ Pack(t).phys <= t.phys
           /\ t.phys < PhysMod => Pack(t) = t
  BY ModFacts, ConstantsAssumption DEF Pack, Word

\* What advance computes is a time, whatever it starts from.
LEMMA AdvanceType ==
    ASSUME NEW now \in Nat, NEW old \in Word, NEW rem \in Stamp \cup {NoRemote}
    PROVE  Advance(now, old, rem) \in [phys : Nat, log : 0 .. LogMod - 1]
  <1>1. /\ old.phys \in Nat
        /\ old.log \in Nat
        /\ 0 \in 0 .. LogMod - 1
    BY ConstantsAssumption DEF Word
  <1>5. (old.log + 1) % LogMod \in 0 .. LogMod - 1
    BY <1>1, CounterFacts
  <1>2. CASE rem = NoRemote
    BY <1>1, <1>5, <1>2 DEF Advance, Sent
  <1>3. CASE rem \in Stamp
    <2>1. rem.phys \in Nat /\ rem.log \in Nat
      BY <1>3, ConstantsAssumption DEF Stamp
    <2>2. /\ Larger(old.log, rem.log) \in Nat
          /\ Larger(Larger(now, rem.phys), old.phys) \in Nat
      BY <1>1, <2>1, LargerFacts
    <2>3. /\ (rem.log + 1) % LogMod \in 0 .. LogMod - 1
          /\ (Larger(old.log, rem.log) + 1) % LogMod \in 0 .. LogMod - 1
      BY <2>1, <2>2, CounterFacts
    <2>4. Merged(now, old, rem) \in [phys : Nat, log : 0 .. LogMod - 1]
      BY <1>1, <1>5, <2>2, <2>3 DEF Merged
    <2> QED BY <1>3, <2>4, NoRemoteAssumption DEF Advance
  <1> QED BY <1>2, <1>3

\* It is later than the word it started from and than the stamp received, as
\* long as the counters it may add one to are below the last value; and its
\* physical part comes from one of its sources.
LEMMA AdvanceLater ==
    ASSUME NEW now \in Nat, NEW old \in Word, NEW rem \in Stamp \cup {NoRemote}
    PROVE  LET new == Advance(now, old, rem) IN
           /\ old.log + 1 < LogMod /\ (rem # NoRemote => rem.log + 1 < LogMod)
              => /\ Below(old, new)
                 /\ rem # NoRemote => Below(rem, new)
                 /\ \/ new.log = 0
                    \/ new.log <= old.log + 1
                    \/ rem # NoRemote /\ new.log <= rem.log + 1
           /\ \A b \in Nat :
                /\ now <= b
                /\ old.phys <= b
                /\ rem # NoRemote => rem.phys <= b
                => new.phys <= b
  <1>1. old.phys \in Nat /\ old.log \in Nat
    BY ConstantsAssumption DEF Word
  <1>2. old.log + 1 < LogMod => (old.log + 1) % LogMod = old.log + 1
    BY <1>1, ModFacts, ConstantsAssumption
  <1>3. CASE rem = NoRemote
    BY <1>1, <1>2, <1>3 DEF Advance, Sent, Below
  <1>4. CASE rem \in Stamp
    <2>1. rem.phys \in Nat /\ rem.log \in Nat /\ rem # NoRemote
      BY <1>4, NoRemoteAssumption DEF Stamp
    <2>2. rem.log + 1 < LogMod => (rem.log + 1) % LogMod = rem.log + 1
      BY <2>1, ModFacts, ConstantsAssumption
    <2>3. old.log + 1 < LogMod /\ rem.log + 1 < LogMod
          => (Larger(old.log, rem.log) + 1) % LogMod = Larger(old.log, rem.log) + 1
      <3>1. Larger(old.log, rem.log) \in Nat
        BY <1>1, <2>1, LargerFacts
      <3>2. old.log + 1 < LogMod /\ rem.log + 1 < LogMod
            => Larger(old.log, rem.log) + 1 < LogMod
        BY <1>1, <2>1, LargerFacts
      <3> QED BY <3>1, <3>2, CounterFacts
    <2> QED BY <1>1, <1>2, <2>1, <2>2, <2>3 DEF Advance, Merged, Larger, Below
  <1> QED BY <1>3, <1>4

\* -------------------------------------------------------- type correctness

LEMMA InitType == Init => TypeOK
  <1> SUFFICES ASSUME NEW boot \in [Nodes -> WallClock],
                      state = [n \in Nodes |-> Pack([phys |-> boot[n], log |-> 0])],
                      pc = [t \in Threads |-> "idle"],
                      remote = [t \in Threads |-> NoRemote],
                      loop = [t \in Threads |-> Unset],
                      next = [t \in Threads |-> Unset],
                      issued = <<>>,
                      fastest \in {boot[n] : n \in Nodes}
               PROVE  TypeOK
    BY DEF Init
  <1>1. \A n \in Nodes : Pack([phys |-> boot[n], log |-> 0]) \in Word
    <2> TAKE n \in Nodes
    <2>1. boot[n] \in Nat
      BY ConstantsAssumption
    <2>2. 0 \in 0 .. LogMod - 1
      BY ConstantsAssumption
    <2> QED BY <2>1, <2>2, PackType
  <1>2. Unset \in Word /\ Unset \in [phys : Nat, log : 0 .. LogMod - 1]
    BY ConstantsAssumption DEF Unset, Word
  <1>3. issued \in Seq([stamp : Stamp, remote : Stamp \cup {NoRemote}])
    OBVIOUS
  <1>4. fastest \in Nat
    BY ConstantsAssumption
  <1> QED BY <1>1, <1>2, <1>3, <1>4 DEF TypeOK

LEMMA BeginType ==
    ASSUME TypeOK, NEW t \in Threads, NEW rem \in Stamp \cup {NoRemote}, Begin(t, rem)
    PROVE  TypeOK'
  <1>1. NodeOf[t] \in Nodes
    BY ConstantsAssumption
  <1>2. state[NodeOf[t]] \in Word
    BY <1>1 DEF TypeOK
  <1> QED BY <1>2 DEF TypeOK, Begin

\* The entries of the history.
LEMMA IssuedEntry ==
    ASSUME TypeOK
    PROVE  /\ DOMAIN issued = 1 .. Len(issued)
           /\ Len(issued) \in Nat
           /\ \A i \in DOMAIN issued :
                 /\ issued[i].stamp \in Stamp
                 /\ issued[i].remote \in Stamp \cup {NoRemote}
  <1> DEFINE Entry == [stamp : Stamp, remote : Stamp \cup {NoRemote}]
  <1>1. issued \in Seq(Entry)
    BY DEF TypeOK
  <1>2. \A e \in Entry : e.stamp \in Stamp /\ e.remote \in Stamp \cup {NoRemote}
    OBVIOUS
  <1> HIDE DEF Entry
  <1>3. /\ DOMAIN issued = 1 .. Len(issued)
        /\ Len(issued) \in Nat
        /\ \A i \in DOMAIN issued : issued[i] \in Entry
    BY <1>1, LenProperties
  <1> QED BY <1>2, <1>3

\* The stamps that may be received are stamps.
LEMMA ReceivedType ==
    ASSUME TypeOK, NEW t \in Threads, RecvAndMerge(t)
    PROVE  \E rem \in Stamp :
              /\ rem = ZeroStamp \/ \E i \in DOMAIN issued : rem = issued[i].stamp
              /\ Begin(t, rem)
  <1>1. ZeroStamp \in Stamp
    BY ConstantsAssumption DEF ZeroStamp, Stamp
  <1>2. \A i \in DOMAIN issued : issued[i].stamp \in Stamp
    BY IssuedEntry
  <1> QED BY <1>1, <1>2 DEF RecvAndMerge

LEMMA NextType == TypeOK /\ [Next]_vars => TypeOK'
  <1> SUFFICES ASSUME TypeOK, [Next]_vars PROVE TypeOK'
    OBVIOUS
  <1>1. ASSUME NEW t \in Threads, NowSend(t) PROVE TypeOK'
    BY <1>1, BeginType DEF NowSend
  <1>2. ASSUME NEW t \in Threads, RecvAndMerge(t) PROVE TypeOK'
    BY <1>2, ReceivedType, BeginType
  <1>3. ASSUME NEW t \in Threads, ReadClock(t) PROVE TypeOK'
    <2>1. PICK now \in WallClock :
             /\ next' = [next EXCEPT ![t] = Advance(now, loop[t], remote[t])]
             /\ fastest' = Larger(fastest, now)
      BY <1>3 DEF ReadClock
    <2>2. Advance(now, loop[t], remote[t]) \in [phys : Nat, log : 0 .. LogMod - 1]
      BY AdvanceType, ConstantsAssumption DEF TypeOK
    <2>3. fastest' \in Nat
      BY <2>1, ConstantsAssumption DEF TypeOK, Larger
    <2> QED BY <1>3, <2>1, <2>2, <2>3 DEF TypeOK, ReadClock
  <1>4. ASSUME NEW t \in Threads, CasSucceed(t) PROVE TypeOK'
    <2>1. next[t] \in [phys : Nat, log : 0 .. LogMod - 1] /\ NodeOf[t] \in Nodes
      BY ConstantsAssumption DEF TypeOK
    <2>2. Pack(next[t]) \in Word /\ StampOf(t) \in Stamp
      BY <2>1, PackType DEF StampOf, Stamp
    <2>3. /\ Unset \in Word
          /\ Unset \in [phys : Nat, log : 0 .. LogMod - 1]
      BY ConstantsAssumption DEF Unset, Word
    <2>4. issued' \in Seq([stamp : Stamp, remote : Stamp \cup {NoRemote}])
      BY <1>4, <2>2 DEF TypeOK, CasSucceed, Publish
    <2> QED BY <1>4, <2>2, <2>3, <2>4 DEF TypeOK, CasSucceed, Publish
  <1>5. ASSUME NEW t \in Threads, CasFail(t) PROVE TypeOK'
    <2>1. Unset \in [phys : Nat, log : 0 .. LogMod - 1] /\ NodeOf[t] \in Nodes
      BY ConstantsAssumption DEF Unset
    <2> QED BY <1>5, <2>1 DEF TypeOK, CasFail
  <1>6. CASE UNCHANGED vars
    BY <1>6 DEF TypeOK, vars
  <1> QED BY <1>1, <1>2, <1>3, <1>4, <1>5, <1>6 DEF Next

\* The variables keep their ranges: the packed word never needs more bits
\* than it has, whatever the wall clock returns (hlc.hpp, class HybridClock).
THEOREM TypeCorrect == Spec => []TypeOK
  BY InitType, NextType, PTL DEF Spec

\* --------------------------------------------------------- what steps do

\* An exchange appends one entry to the history.
LEMMA PublishIssued ==
    ASSUME TypeOK, NEW t \in Threads, Publish(t)
    PROVE  /\ Len(issued') = Len(issued) + 1
           /\ DOMAIN issued' = 1 .. Len(issued) + 1
           /\ \A i \in DOMAIN issued : issued'[i] = issued[i]
           /\ issued'[Len(issued) + 1] = [stamp |-> StampOf(t), remote |-> remote[t]]
  <1> DEFINE Entry == [stamp : Stamp, remote : Stamp \cup {NoRemote}]
             e == [stamp |-> StampOf(t), remote |-> remote[t]]
  <1>1. issued \in Seq(Entry) /\ issued' = Append(issued, e)
    BY DEF TypeOK, Publish
  <1>2. next[t] \in [phys : Nat, log : 0 .. LogMod - 1] /\ NodeOf[t] \in Nodes
    BY ConstantsAssumption DEF TypeOK
  <1>3. e \in Entry
    BY <1>2 DEF TypeOK, StampOf, Stamp
  <1> HIDE DEF Entry, e
  <1>4. /\ Append(issued, e) \in Seq(Entry)
        /\ Len(Append(issued, e)) = Len(issued) + 1
        /\ \A i \in 1 .. Len(issued) : Append(issued, e)[i] = issued[i]
        /\ Append(issued, e)[Len(issued) + 1] = e
    BY <1>1, <1>3, AppendProperties
  <1> QED BY <1>1, <1>4, LenProperties DEF e

\* Both parts of every time in the system are numbers.
LEMMA PartTypes ==
    ASSUME TypeOK
    PROVE  /\ \A n \in Nodes : state[n].phys \in Nat /\ state[n].log \in Nat
           /\ \A t \in Threads :
                 /\ loop[t].phys \in Nat /\ loop[t].log \in Nat
                 /\ next[t].phys \in Nat /\ next[t].log \in Nat
                 /\ remote[t] # NoRemote
                    => remote[t].phys \in Nat /\ remote[t].log \in Nat
           /\ \A i \in DOMAIN issued :
                 issued[i].stamp.phys \in Nat /\ issued[i].stamp.log \in Nat
  <1>1. /\ \A w \in Word : w.phys \in Nat /\ w.log \in Nat
        /\ \A x \in Stamp : x.phys \in Nat /\ x.log \in Nat
        /\ \A x \in [phys : Nat, log : 0 .. LogMod - 1] : x.phys \in Nat /\ x.log \in Nat
    BY ConstantsAssumption DEF Word, Stamp
  <1>2. ASSUME NEW n \in Nodes PROVE state[n] \in Word
    BY DEF TypeOK
  <1>3. ASSUME NEW t \in Threads
        PROVE  /\ loop[t] \in Word
               /\ next[t] \in [phys : Nat, log : 0 .. LogMod - 1]
               /\ remote[t] \in Stamp \cup {NoRemote}
    BY DEF TypeOK
  <1>4. ASSUME NEW i \in DOMAIN issued PROVE issued[i].stamp \in Stamp
    BY IssuedEntry
  <1> QED BY ONLY <1>1, <1>2, <1>3, <1>4

\* Every step is one of these.
LEMMA NextCases ==
    ASSUME TypeOK, [Next]_vars
    PROVE  \/ \E t \in Threads, rem \in Stamp \cup {NoRemote} :
                 /\ Begin(t, rem)
                 /\ \/ rem = NoRemote
                    \/ rem = ZeroStamp
                    \/ \E i \in DOMAIN issued : rem = issued[i].stamp
           \/ \E t \in Threads : ReadClock(t) \/ CasSucceed(t) \/ CasFail(t)
           \/ UNCHANGED vars
  <1>1. ASSUME NEW t \in Threads, NowSend(t)
        PROVE  Begin(t, NoRemote)
    BY <1>1 DEF NowSend
  <1> QED BY <1>1, ReceivedType DEF Next

\* ----------------------------------------------------- PhysNeverLeads

\* Every physical time anywhere in the system was read from some wall clock.
PhysBound ==
    /\ \A n \in Nodes : state[n].phys <= fastest
    /\ \A t \in Threads :
          /\ loop[t].phys <= fastest
          /\ next[t].phys <= fastest
          /\ remote[t] # NoRemote => remote[t].phys <= fastest
    /\ PhysNeverLeads

LEMMA InitPhysBound == Init => PhysBound
  <1> SUFFICES ASSUME NEW boot \in [Nodes -> WallClock],
                      state = [n \in Nodes |-> Pack([phys |-> boot[n], log |-> 0])],
                      remote = [t \in Threads |-> NoRemote],
                      loop = [t \in Threads |-> Unset],
                      next = [t \in Threads |-> Unset],
                      issued = <<>>,
                      fastest \in {boot[n] : n \in Nodes},
                      \A n \in Nodes : boot[n] <= fastest
               PROVE  PhysBound
    BY DEF Init
  <1>1. fastest \in Nat /\ \A n \in Nodes : boot[n] \in Nat
    BY ConstantsAssumption
  <1>2. ASSUME NEW n \in Nodes PROVE state[n].phys <= fastest
    <2> DEFINE t == [phys |-> boot[n], log |-> 0]
    <2>1. t.phys = boot[n] /\ state[n] = Pack(t)
      OBVIOUS
    <2>2. 0 \in 0 .. LogMod - 1
      BY ConstantsAssumption
    <2>3. t \in [phys : Nat, log : 0 .. LogMod - 1]
      BY <1>1, <2>2
    <2> HIDE DEF t
    <2>4. Pack(t).phys \in Nat /\ Pack(t).phys <= t.phys
      BY <2>3, PackType, ConstantsAssumption DEF Word
    <2> QED BY <1>1, <2>1, <2>4
  <1> QED BY <1>1, <1>2 DEF PhysBound, PhysNeverLeads, Unset

LEMMA NextPhysBound == TypeOK /\ PhysBound /\ [Next]_vars => PhysBound'
  <1> SUFFICES ASSUME TypeOK, PhysBound, [Next]_vars PROVE PhysBound'
    OBVIOUS
  <1>1. ASSUME NEW t \in Threads, NEW rem \in Stamp \cup {NoRemote}, Begin(t, rem),
               rem # NoRemote => rem.phys <= fastest
        PROVE  PhysBound'
    BY <1>1, ConstantsAssumption DEF PhysBound, PhysNeverLeads, Begin, TypeOK
  <1>2. ASSUME NEW t \in Threads, ReadClock(t) PROVE PhysBound'
    <2>1. PICK now \in WallClock :
             /\ next' = [next EXCEPT ![t] = Advance(now, loop[t], remote[t])]
             /\ fastest' = Larger(fastest, now)
      BY <1>2 DEF ReadClock
    <2>2. now \in Nat /\ fastest \in Nat
      BY ConstantsAssumption DEF TypeOK
    <2>3. fastest' \in Nat /\ fastest <= fastest' /\ now <= fastest'
      BY <2>1, <2>2, LargerFacts
    <2>4. UNCHANGED <<state, remote, loop, issued>>
      BY <1>2 DEF ReadClock
    <2>5. /\ \A n \in Nodes : state[n].phys \in Nat
          /\ \A u \in Threads :
                /\ loop[u].phys \in Nat
                /\ next[u].phys \in Nat
                /\ remote[u] # NoRemote => remote[u].phys \in Nat
          /\ \A i \in DOMAIN issued : issued[i].stamp.phys \in Nat
      BY PartTypes
    <2>6. /\ \A n \in Nodes : state[n].phys <= fastest'
          /\ \A u \in Threads :
                /\ loop[u].phys <= fastest'
                /\ next[u].phys <= fastest'
                /\ remote[u] # NoRemote => remote[u].phys <= fastest'
          /\ \A i \in DOMAIN issued : issued[i].stamp.phys <= fastest'
      BY <2>2, <2>3, <2>5 DEF PhysBound, PhysNeverLeads
    <2>7. Advance(now, loop[t], remote[t]).phys <= fastest'
      BY <2>2, <2>3, <2>6, AdvanceLater DEF TypeOK
    <2>8. \A u \in Threads : next'[u].phys <= fastest'
      BY <2>1, <2>6, <2>7 DEF TypeOK
    <2> QED BY <2>4, <2>6, <2>8 DEF PhysBound, PhysNeverLeads
  <1>3. ASSUME NEW t \in Threads, CasSucceed(t) PROVE PhysBound'
    <2>1. Publish(t)
      BY <1>3 DEF CasSucceed
    <2>2. next[t] \in [phys : Nat, log : 0 .. LogMod - 1]
      BY DEF TypeOK
    <2>3. Pack(next[t]).phys <= fastest
      BY <2>2, PackType, ConstantsAssumption DEF PhysBound, TypeOK, Word
    <2>4. \A n \in Nodes : state'[n].phys <= fastest'
      BY <2>1, <2>3 DEF Publish, PhysBound, TypeOK
    <2>5. \A u \in Threads :
                /\ loop'[u].phys <= fastest'
                /\ next'[u].phys <= fastest'
                /\ remote'[u] # NoRemote => remote'[u].phys <= fastest'
      BY <2>1 DEF Publish, PhysBound, TypeOK, Unset
    <2>6. \A i \in DOMAIN issued' : issued'[i].stamp.phys <= fastest'
      BY <2>1, PublishIssued, IssuedEntry DEF Publish, PhysBound, PhysNeverLeads, StampOf
    <2> QED BY <2>4, <2>5, <2>6 DEF PhysBound, PhysNeverLeads
  <1>4. ASSUME NEW t \in Threads, CasFail(t) PROVE PhysBound'
    <2>1. NodeOf[t] \in Nodes /\ Unset.phys = 0 /\ fastest \in Nat
      BY ConstantsAssumption DEF TypeOK, Unset
    <2>2. /\ loop' = [loop EXCEPT ![t] = state[NodeOf[t]]]
          /\ next' = [next EXCEPT ![t] = Unset]
          /\ UNCHANGED <<state, remote, issued, fastest>>
      BY <1>4 DEF CasFail
    <2>3. \A u \in Threads : loop'[u].phys <= fastest /\ next'[u].phys <= fastest
      BY <2>1, <2>2 DEF PhysBound, TypeOK
    <2> QED BY <2>2, <2>3 DEF PhysBound, PhysNeverLeads
  <1>5. CASE UNCHANGED vars
    BY <1>5 DEF PhysBound, PhysNeverLeads, vars
  <1>6. fastest \in Nat /\ ZeroStamp.phys = 0
    BY DEF TypeOK, ZeroStamp
  <1> QED BY <1>1, <1>2, <1>3, <1>4, <1>5, <1>6, NextCases DEF PhysBound, PhysNeverLeads

\* No stamp leads every wall clock: the physical part of a stamp is a reading,
\* its own or one that reached it in a received stamp (hlc.hpp:48-68).
THEOREM PhysCorrect == Spec => []PhysNeverLeads
  <1>1. TypeOK /\ PhysBound /\ [Next]_vars => (TypeOK /\ PhysBound)'
    BY NextType, NextPhysBound
  <1>2. PhysBound => PhysNeverLeads
    BY DEF PhysBound
  <1> QED BY InitType, InitPhysBound, <1>1, <1>2, PTL DEF Spec

\* ----------------------------------------------------- ReceiveIsLater

\* A counter is at most the number of stamps issued, so it cannot wrap while
\* a stamp can still be published; and what a thread is about to publish is
\* later than what it loaded and than what it received.
CounterBound ==
    /\ Len(issued) <= MaxStamps
    /\ \A n \in Nodes : state[n].log <= Len(issued)
    /\ \A t \in Threads :
          /\ loop[t].log <= Len(issued)
          /\ next[t].log <= Len(issued) + 1
          /\ remote[t] # NoRemote => remote[t].log <= Len(issued)
    /\ \A i \in DOMAIN issued : issued[i].stamp.log <= Len(issued)

NextIsLater ==
    \A t \in Threads :
        pc[t] = "cas" =>
            /\ Below(loop[t], next[t])
            /\ remote[t] # NoRemote => Below(remote[t], next[t])

ReceiveInv == CounterBound /\ NextIsLater /\ ReceiveIsLater

LEMMA InitReceive == Init => ReceiveInv
  <1> SUFFICES ASSUME NEW boot \in [Nodes -> WallClock],
                      state = [n \in Nodes |-> Pack([phys |-> boot[n], log |-> 0])],
                      pc = [t \in Threads |-> "idle"],
                      remote = [t \in Threads |-> NoRemote],
                      loop = [t \in Threads |-> Unset],
                      next = [t \in Threads |-> Unset],
                      issued = <<>>
               PROVE  ReceiveInv
    BY DEF Init
  <1>1. \A n \in Nodes : state[n].log = 0
    BY DEF Pack
  <1>2. MaxStamps \in Nat
    BY ConstantsAssumption
  <1> QED
    BY <1>1, <1>2 DEF ReceiveInv, CounterBound, NextIsLater, ReceiveIsLater, Unset

LEMMA NextReceive ==
    ASSUME CounterSuffices, TypeOK, ReceiveInv, [Next]_vars
    PROVE  ReceiveInv'
  <1> USE DEF ReceiveInv
  <1>1. /\ Len(issued) \in Nat /\ MaxStamps \in Nat /\ LogMod \in Nat
        /\ \A t \in Threads : NodeOf[t] \in Nodes
    BY IssuedEntry, ConstantsAssumption
  <1>2. /\ \A n \in Nodes : state[n].log \in Nat
        /\ \A t \in Threads :
              /\ loop[t].log \in Nat
              /\ next[t].log \in Nat
              /\ remote[t] # NoRemote => remote[t].log \in Nat
        /\ \A i \in DOMAIN issued : issued[i].stamp.log \in Nat
    BY PartTypes
  <1>3. ASSUME NEW t \in Threads, NEW rem \in Stamp \cup {NoRemote}, Begin(t, rem),
               rem # NoRemote => rem.log <= Len(issued)
        PROVE  ReceiveInv'
    <2>1. CounterBound'
      BY <1>1, <1>3 DEF CounterBound, Begin, TypeOK
    <2>2. NextIsLater' /\ ReceiveIsLater'
      BY <1>3 DEF NextIsLater, ReceiveIsLater, Begin, TypeOK
    <2> QED BY <2>1, <2>2
  <1>4. ASSUME NEW t \in Threads, ReadClock(t) PROVE ReceiveInv'
    <2> DEFINE new(now) == Advance(now, loop[t], remote[t])
    <2>1. PICK now \in WallClock : next' = [next EXCEPT ![t] = new(now)]
      BY <1>4 DEF ReadClock
    <2>2. /\ UNCHANGED <<state, remote, loop, issued>>
          /\ pc' = [pc EXCEPT ![t] = "cas"]
      BY <1>4 DEF ReadClock
    <2>3. now \in Nat /\ loop[t] \in Word /\ remote[t] \in Stamp \cup {NoRemote}
      BY ConstantsAssumption DEF TypeOK
    <2>4. loop[t].log + 1 < LogMod /\ (remote[t] # NoRemote => remote[t].log + 1 < LogMod)
      BY <1>1, <1>2 DEF CounterBound, CounterSuffices
    <2>5. /\ Below(loop[t], new(now))
          /\ remote[t] # NoRemote => Below(remote[t], new(now))
          /\ \/ new(now).log = 0
             \/ new(now).log <= loop[t].log + 1
             \/ remote[t] # NoRemote /\ new(now).log <= remote[t].log + 1
      BY <2>3, <2>4, AdvanceLater
    <2>6. new(now) \in [phys : Nat, log : 0 .. LogMod - 1]
      BY <2>3, AdvanceType
    <2> HIDE DEF new
    <2>7. new(now).log <= Len(issued) + 1
      BY <1>1, <1>2, <2>5, <2>6 DEF CounterBound
    <2>8. CounterBound'
      BY <2>1, <2>2, <2>7 DEF CounterBound, TypeOK
    <2>9. NextIsLater'
      BY <2>1, <2>2, <2>5 DEF NextIsLater, TypeOK
    <2> QED BY <2>2, <2>8, <2>9 DEF ReceiveIsLater
  <1>5. ASSUME NEW t \in Threads, CasSucceed(t) PROVE ReceiveInv'
    <2>1. /\ Publish(t)
          /\ pc[t] = "cas"
          /\ Len(issued) < MaxStamps
          /\ state' = [state EXCEPT ![NodeOf[t]] = Pack(next[t])]
          /\ pc' = [pc EXCEPT ![t] = "idle"]
          /\ remote' = [remote EXCEPT ![t] = NoRemote]
          /\ loop' = [loop EXCEPT ![t] = Unset]
          /\ next' = [next EXCEPT ![t] = Unset]
      BY <1>5 DEF CasSucceed, Publish
    <2>2. /\ Len(issued') = Len(issued) + 1
          /\ DOMAIN issued' = 1 .. Len(issued) + 1
          /\ \A i \in DOMAIN issued : issued'[i] = issued[i]
          /\ issued'[Len(issued) + 1] = [stamp |-> StampOf(t), remote |-> remote[t]]
          /\ DOMAIN issued = 1 .. Len(issued)
      BY <2>1, PublishIssued, IssuedEntry
    <2>3. Pack(next[t]).log = next[t].log
      BY DEF Pack
    <2>4. /\ \A n \in Nodes : state'[n].log <= Len(issued')
          /\ Len(issued') <= MaxStamps
      BY <1>1, <1>2, <2>1, <2>2, <2>3 DEF CounterBound, TypeOK
    <2>5. \A u \in Threads :
              /\ loop'[u].log <= Len(issued')
              /\ next'[u].log <= Len(issued') + 1
              /\ remote'[u] # NoRemote => remote'[u].log <= Len(issued')
      BY <1>1, <1>2, <2>1, <2>2 DEF CounterBound, TypeOK, Unset
    <2>6. \A i \in DOMAIN issued' : issued'[i].stamp.log <= Len(issued')
      BY <1>1, <1>2, <2>2 DEF CounterBound, StampOf
    <2>7. NextIsLater'
      BY <2>1 DEF NextIsLater, TypeOK
    <2>8. remote[t] # NoRemote => Less(remote[t], StampOf(t))
      BY <2>1 DEF NextIsLater, Below, Less, StampOf
    <2>9. ReceiveIsLater'
      BY <2>2, <2>8, <1>1 DEF ReceiveIsLater
    <2> QED BY <2>4, <2>5, <2>6, <2>7, <2>9 DEF CounterBound
  <1>6. ASSUME NEW t \in Threads, CasFail(t) PROVE ReceiveInv'
    <2>1. /\ loop' = [loop EXCEPT ![t] = state[NodeOf[t]]]
          /\ next' = [next EXCEPT ![t] = Unset]
          /\ pc' = [pc EXCEPT ![t] = "read"]
          /\ UNCHANGED <<state, remote, issued>>
      BY <1>6 DEF CasFail
    <2>2. CounterBound'
      BY <1>1, <2>1 DEF CounterBound, TypeOK, Unset
    <2>3. NextIsLater' /\ ReceiveIsLater'
      BY <2>1 DEF NextIsLater, ReceiveIsLater, TypeOK
    <2> QED BY <2>2, <2>3
  <1>7. CASE UNCHANGED vars
    BY <1>7 DEF CounterBound, NextIsLater, ReceiveIsLater, vars
  <1>8. ZeroStamp.log = 0
    BY DEF ZeroStamp
  <1> QED BY <1>1, <1>3, <1>4, <1>5, <1>6, <1>7, <1>8, NextCases DEF CounterBound

\* recv_and_merge answers with a later stamp than the one it was given, as
\* long as the 16-bit counter cannot wrap; the packed physical time may be
\* truncated (hlc.hpp:51-64).
THEOREM ReceiveCorrect == ASSUME CounterSuffices PROVE Spec => []ReceiveIsLater
  <1>1. TypeOK /\ ReceiveInv /\ [Next]_vars => (TypeOK /\ ReceiveInv)'
    BY NextType, NextReceive
  <1>2. ReceiveInv => ReceiveIsLater
    BY DEF ReceiveInv
  <1> QED BY InitType, InitReceive, <1>1, <1>2, PTL DEF Spec

\* ----------------------------------------------- the order of one node

\* The word of a node is at or above every stamp of the node that it has not
\* lost, and such a stamp is below the later ones.
WordHolds ==
    \A i \in DOMAIN issued :
        /\ issued[i].stamp.node \in Nodes
        /\ Remembered(i, Len(issued) + 1)
           => NotAbove(issued[i].stamp, state[issued[i].stamp.node])

RememberedOrder ==
    \A i, j \in DOMAIN issued :
        i < j /\ issued[i].stamp.node = issued[j].stamp.node /\ Remembered(i, j)
            => Less(issued[i].stamp, issued[j].stamp)

OrderInv == WordHolds /\ RememberedOrder

LEMMA InitOrder == Init => OrderInv
  BY DEF Init, OrderInv, WordHolds, RememberedOrder

LEMMA NextOrder ==
    ASSUME TypeOK, ReceiveInv, OrderInv, [Next]_vars
    PROVE  OrderInv'
  <1> USE DEF OrderInv
  <1>1. ASSUME UNCHANGED <<state, issued>>
        PROVE  OrderInv'
    <2>1. ASSUME NEW i, NEW j PROVE Remembered(i, j)' = Remembered(i, j)
      BY <1>1 DEF Remembered
    <2>2. ASSUME NEW i \in DOMAIN issued
          PROVE  Remembered(i, Len(issued) + 1)' = Remembered(i, Len(issued) + 1)
      BY <1>1 DEF Remembered
    <2>3. WordHolds'
      BY <1>1, <2>2 DEF WordHolds
    <2>4. RememberedOrder'
      BY <1>1, <2>1 DEF RememberedOrder
    <2> QED BY <2>3, <2>4
  <1>2. ASSUME NEW t \in Threads, CasSucceed(t) PROVE OrderInv'
    <2>0. PICK n \in Nodes, last \in Nat : n = NodeOf[t] /\ last = Len(issued) + 1
      <3>1. NodeOf[t] \in Nodes
        BY ConstantsAssumption
      <3>2. Len(issued) \in Nat
        BY IssuedEntry
      <3>3. Len(issued) + 1 \in Nat
        BY <3>2
      <3> QED BY ONLY <3>1, <3>3
    <2>1. /\ Publish(t)
          /\ pc[t] = "cas"
          /\ state[n] = loop[t]
          /\ state' = [state EXCEPT ![n] = Pack(next[t])]
      BY <1>2, <2>0 DEF CasSucceed, Publish
    <2>2. /\ DOMAIN issued' = 1 .. last
          /\ \A i \in DOMAIN issued : issued'[i] = issued[i]
          /\ issued'[last].stamp = StampOf(t)
          /\ DOMAIN issued = 1 .. last - 1
          /\ Len(issued') = last
      <3>1. /\ DOMAIN issued' = 1 .. Len(issued) + 1
            /\ \A i \in DOMAIN issued : issued'[i] = issued[i]
            /\ issued'[Len(issued) + 1] = [stamp |-> StampOf(t), remote |-> remote[t]]
            /\ Len(issued') = Len(issued) + 1
        BY <2>1, PublishIssued
      <3>2. DOMAIN issued = 1 .. Len(issued) /\ Len(issued) \in Nat
        BY IssuedEntry
      <3> QED BY <2>0, <3>1, <3>2
    <2>3. next[t] \in [phys : Nat, log : 0 .. LogMod - 1]
      BY DEF TypeOK
    <2>4. /\ state'[n] = Pack(next[t])
          /\ next[t].phys < PhysMod => state'[n] = next[t]
          /\ \A m \in Nodes \ {n} : state'[m] = state[m]
      BY <2>1, <2>3, PackType DEF TypeOK
    <2>5. Below(state[n], next[t])
      BY <2>1 DEF ReceiveInv, NextIsLater
    <2>6. /\ StampOf(t).phys = next[t].phys
          /\ StampOf(t).log = next[t].log
          /\ StampOf(t).node = n
      BY <2>0 DEF StampOf
    <2>7. /\ state[n].phys \in Nat /\ state[n].log \in Nat
          /\ next[t].phys \in Nat /\ next[t].log \in Nat
          /\ \A i \in DOMAIN issued :
                issued[i].stamp.phys \in Nat /\ issued[i].stamp.log \in Nat
      BY PartTypes
    <2>8. ASSUME NEW i \in DOMAIN issued, Remembered(i, last),
                 issued[i].stamp.node = n
          PROVE  Below(issued[i].stamp, next[t])
      BY <2>0, <2>5, <2>7, <2>8 DEF WordHolds, NotAbove, Below
    <2>9. ASSUME NEW i \in DOMAIN issued, NEW j \in 1 .. last, Remembered(i, j)'
          PROVE  Remembered(i, j)
      <3>1. i .. j - 1 \subseteq DOMAIN issued
        BY <2>2
      <3> QED BY <2>2, <2>9, <3>1 DEF Remembered
    <2>10. WordHolds'
      <3> SUFFICES ASSUME NEW i \in DOMAIN issued'
                   PROVE  /\ issued'[i].stamp.node \in Nodes
                          /\ Remembered(i, Len(issued) + 1)'
                             => NotAbove(issued'[i].stamp, state'[issued'[i].stamp.node])
        BY DEF WordHolds
      <3>1. Remembered(i, Len(issued) + 1)'
            /\ issued'[last].stamp.node = issued'[i].stamp.node
            => next[t].phys < PhysMod
        BY <2>2, <2>6 DEF Remembered
      <3>2. CASE i = last
        BY <2>2, <2>4, <2>6, <2>7, <3>1, <3>2 DEF NotAbove
      <3>3. CASE i \in DOMAIN issued
        <4>1. issued'[i] = issued[i] /\ issued[i].stamp.node \in Nodes
          BY <2>2, <3>3 DEF WordHolds
        <4>2. Remembered(i, Len(issued) + 1)' => Remembered(i, last)
          <5>1. Remembered(i, Len(issued) + 1)' => Remembered(i, last)'
            BY <2>0, <2>2 DEF Remembered
          <5> QED BY <2>0, <2>9, <3>3, <5>1
        <4>3. CASE issued[i].stamp.node = n
          BY <2>2, <2>4, <2>6, <2>7, <2>8, <3>1, <3>3, <4>1, <4>2, <4>3 DEF NotAbove, Below
        <4>4. CASE issued[i].stamp.node # n
          BY <2>0, <2>4, <3>3, <4>1, <4>2, <4>4 DEF WordHolds
        <4> QED BY <4>3, <4>4
      <3> QED BY <2>0, <2>2, <3>2, <3>3
    <2>11. RememberedOrder'
      <3> SUFFICES ASSUME NEW i \in DOMAIN issued', NEW j \in DOMAIN issued', i < j,
                          issued'[i].stamp.node = issued'[j].stamp.node,
                          Remembered(i, j)'
                   PROVE  Less(issued'[i].stamp, issued'[j].stamp)
        BY DEF RememberedOrder
      <3>1. i \in DOMAIN issued /\ j \in 1 .. last
        BY <2>2
      <3>2. Remembered(i, j)
        BY <2>9, <3>1
      <3>3. CASE j = last
        BY <2>2, <2>6, <2>8, <3>1, <3>2, <3>3 DEF Below, Less
      <3>4. CASE j \in DOMAIN issued
        BY <2>2, <3>1, <3>2, <3>4 DEF RememberedOrder
      <3> QED BY <2>2, <3>1, <3>3, <3>4
    <2> QED BY <2>10, <2>11
  <1>3. ASSUME NEW t \in Threads, NEW rem \in Stamp \cup {NoRemote}, Begin(t, rem)
        PROVE  UNCHANGED <<state, issued>>
    BY <1>3 DEF Begin
  <1>4. ASSUME NEW t \in Threads, ReadClock(t) \/ CasFail(t)
        PROVE  UNCHANGED <<state, issued>>
    BY <1>4 DEF ReadClock, CasFail
  <1>5. UNCHANGED vars => UNCHANGED <<state, issued>>
    BY DEF vars
  <1> QED BY <1>1, <1>2, <1>3, <1>4, <1>5, NextCases

\* --------------------------------------------------------- CausalOrder

LEMMA LessTransitive ==
    ASSUME NEW a \in Stamp, NEW b \in Stamp, NEW c \in Stamp, Less(a, b), Less(b, c)
    PROVE  Less(a, c)
  <1>1. ASSUME NEW x \in Stamp
        PROVE  x.phys \in Nat /\ x.log \in Nat /\ x.node \in Nat
    <2>1. x.node \in Nodes \/ x.node = 0
      BY DEF Stamp
    <2>2. x.phys \in Nat /\ x.log \in Nat
      BY ConstantsAssumption DEF Stamp
    <2>3. \A n \in Nodes : n \in Nat
      BY ConstantsAssumption
    <2>4. x.node \in Nat
      BY <2>1, <2>3
    <2> QED BY <2>2, <2>4
  <1>2. /\ a.phys \in Nat /\ a.log \in Nat /\ a.node \in Nat
        /\ b.phys \in Nat /\ b.log \in Nat /\ b.node \in Nat
        /\ c.phys \in Nat /\ c.log \in Nat /\ c.node \in Nat
    BY <1>1
  <1>3. Less(a, b) /\ Less(b, c)
    OBVIOUS
  <1> QED BY ONLY <1>2, <1>3 DEF Less

\* The events with larger stamps are closed under what leads to what.
LEMMA OrderExtendsCausality ==
    ASSUME TypeOK, RememberedOrder, ReceiveIsLater
    PROVE  CausalOrder
  <1> SUFFICES ASSUME NEW i \in DOMAIN issued, NEW j \in DOMAIN issued,
                      HappenedBefore(i, j)
               PROVE  Less(issued[i].stamp, issued[j].stamp)
    BY DEF CausalOrder
  <1> DEFINE S == {k \in DOMAIN issued : Less(issued[i].stamp, issued[k].stamp)}
  <1>1. \A k \in DOMAIN issued : issued[k].stamp \in Stamp
    BY IssuedEntry
  <1>2. ASSUME NEW k \in DOMAIN issued, NEW l \in DOMAIN issued, LeadsTo(k, l)
        PROVE  Less(issued[k].stamp, issued[l].stamp)
    <2>1. CASE issued[l].stamp.node = issued[k].stamp.node /\ Remembered(k, l)
      BY <1>2, <2>1 DEF LeadsTo, RememberedOrder
    <2>2. CASE issued[l].remote = issued[k].stamp
      BY <1>1, <2>2, NoRemoteAssumption DEF ReceiveIsLater
    <2> QED BY <1>2, <2>1, <2>2 DEF LeadsTo
  <1>3. S \in SUBSET DOMAIN issued
    OBVIOUS
  <1>4. \A k \in DOMAIN issued : LeadsTo(i, k) => k \in S
    BY <1>2
  <1>5. Closed(S)
    BY <1>1, <1>2, LessTransitive DEF Closed
  <1>6. j \in S
    BY <1>3, <1>4, <1>5 DEF HappenedBefore
  <1> QED BY <1>6

\* Stamps order what happened before as causality does, on every chain of receipts
\* and of words that lost nothing in between, for any number of nodes, threads and
\* events and for a wall clock that fits the word or not, as long as the 16-bit
\* counter cannot wrap (hlc.hpp:40-78).
THEOREM CausalCorrect == ASSUME CounterSuffices PROVE Spec => []CausalOrder
  <1>1. TypeOK /\ ReceiveInv /\ OrderInv /\ [Next]_vars
        => (TypeOK /\ ReceiveInv /\ OrderInv)'
    BY NextType, NextReceive, NextOrder
  <1>2. TypeOK /\ ReceiveInv /\ OrderInv => CausalOrder
    BY OrderExtendsCausality DEF OrderInv, ReceiveInv
  <1> QED BY InitType, InitReceive, InitOrder, <1>1, <1>2, PTL DEF Spec

\* ------------------------------------------------------- Linearizable

\* A successor about to be published was computed from the word in loop and
\* some reading of the wall clock.
Computed ==
    \A t \in Threads :
        pc[t] = "cas" => \E now \in WallClock : next[t] = Advance(now, loop[t], remote[t])

LEMMA InitComputed == Init => Computed
  BY DEF Init, Computed

LEMMA NextComputed ==
    ASSUME TypeOK, Computed, [Next]_vars
    PROVE  Computed'
  <1>1. ASSUME NEW t \in Threads, NEW rem \in Stamp \cup {NoRemote}, Begin(t, rem)
        PROVE  Computed'
    BY <1>1 DEF Computed, Begin, TypeOK
  <1>2. ASSUME NEW t \in Threads, ReadClock(t) PROVE Computed'
    <2>1. PICK now \in WallClock :
             next' = [next EXCEPT ![t] = Advance(now, loop[t], remote[t])]
      BY <1>2 DEF ReadClock
    <2>2. UNCHANGED <<loop, remote>> /\ pc' = [pc EXCEPT ![t] = "cas"]
      BY <1>2 DEF ReadClock
    <2>3. next'[t] = Advance(now, loop'[t], remote'[t])
      BY <2>1, <2>2 DEF TypeOK
    <2>4. ASSUME NEW u \in Threads, u # t
          PROVE  next'[u] = next[u] /\ loop'[u] = loop[u] /\ remote'[u] = remote[u]
                 /\ pc'[u] = pc[u]
      BY <2>1, <2>2, <2>4 DEF TypeOK
    <2> QED BY <2>3, <2>4 DEF Computed
  <1>3. ASSUME NEW t \in Threads, CasSucceed(t) PROVE Computed'
    BY <1>3 DEF Computed, CasSucceed, Publish, TypeOK
  <1>4. ASSUME NEW t \in Threads, CasFail(t) PROVE Computed'
    BY <1>4 DEF Computed, CasFail, TypeOK
  <1>5. CASE UNCHANGED vars
    BY <1>5 DEF Computed, vars
  <1> QED BY <1>1, <1>2, <1>3, <1>4, <1>5, NextCases

\* What an iteration computes is the successor of the latest of its sources.
LEMMA AdvanceIsSuccessor ==
    ASSUME TypeOK, NEW n \in Nodes, NEW now \in Nat, NEW rem \in Stamp \cup {NoRemote}
    PROVE  \E latest \in Atomic!Sources(n, now, rem) :
              /\ \A s \in Atomic!Sources(n, now, rem) : Atomic!NotLater(s, latest)
              /\ Advance(now, state[n], rem) = Atomic!Successor(latest)
  <1> USE DEF Atomic!Sources, Atomic!NotLater, Atomic!Successor
  <1> DEFINE old == state[n]
             clock == [phys |-> now, log |-> -1]
  <1>1. old \in Word /\ old.phys \in Nat /\ old.log \in Nat
    BY PartTypes DEF TypeOK
  <1>2. (-1 + 1) % LogMod = 0
    BY ModFacts, ConstantsAssumption
  <1>3. clock.phys = now /\ clock.log = -1
    OBVIOUS
  <1> HIDE DEF old, clock
  <1>4. CASE rem = NoRemote
    <2>1. Atomic!Sources(n, now, rem) = {clock, old}
      BY <1>4 DEF old, clock
    <2>2. Advance(now, old, rem) = Sent(now, old)
      BY <1>4 DEF Advance
    <2>3. CASE now > old.phys
      <3>1. Atomic!NotLater(clock, clock) /\ Atomic!NotLater(old, clock)
        BY <1>1, <1>3, <2>3
      <3>2. Sent(now, old) = Atomic!Successor(clock)
        BY <1>2, <1>3, <2>3 DEF Sent
      <3> QED BY <2>1, <2>2, <3>1, <3>2 DEF old
    <2>4. CASE ~(now > old.phys)
      <3>1. Atomic!NotLater(clock, old) /\ Atomic!NotLater(old, old)
        BY <1>1, <1>3, <2>4
      <3>2. Sent(now, old) = Atomic!Successor(old)
        BY <2>4 DEF Sent
      <3> QED BY <2>1, <2>2, <3>1, <3>2 DEF old
    <2> QED BY <2>3, <2>4
  <1>5. CASE rem # NoRemote
    <2> DEFINE got == [phys |-> rem.phys, log |-> rem.log]
               phys == Larger(Larger(now, rem.phys), old.phys)
    <2>1. Atomic!Sources(n, now, rem) = {clock, old, got}
      BY <1>5 DEF old, clock
    <2>2. Advance(now, old, rem) = Merged(now, old, rem)
      BY <1>5 DEF Advance
    <2>3. rem.phys \in Nat /\ rem.log \in Nat
      BY <1>5, ConstantsAssumption DEF Stamp
    <2>4. got.phys = rem.phys /\ got.log = rem.log
      OBVIOUS
    <2>5. /\ phys \in Nat
          /\ now <= phys /\ rem.phys <= phys /\ old.phys <= phys
          /\ phys = now \/ phys = rem.phys \/ phys = old.phys
      BY <1>1, <2>3 DEF Larger
    <2>6. /\ Merged(now, old, rem).phys = phys
          /\ Merged(now, old, rem) =
                [phys |-> phys,
                 log |-> IF phys = old.phys /\ phys = rem.phys
                         THEN (Larger(old.log, rem.log) + 1) % LogMod
                         ELSE IF phys = old.phys THEN (old.log + 1) % LogMod
                         ELSE IF phys = rem.phys THEN (rem.log + 1) % LogMod
                         ELSE 0]
      BY DEF Merged
    <2> HIDE DEF got, phys
    <2> DEFINE Latest(x) ==
            /\ Atomic!NotLater(clock, x) /\ Atomic!NotLater(old, x) /\ Atomic!NotLater(got, x)
            /\ Merged(now, old, rem) = Atomic!Successor(x)
    <2>7. ASSUME phys = old.phys /\ (phys # rem.phys \/ rem.log <= old.log)
         PROVE  Latest(old)
      <3>1. phys = rem.phys => Larger(old.log, rem.log) = old.log
        BY <1>1, <2>3, <2>7 DEF Larger
      <3>2. Merged(now, old, rem) = Atomic!Successor(old)
        BY <2>6, <2>7, <3>1
      <3>3. /\ Atomic!NotLater(clock, old) /\ Atomic!NotLater(old, old)
            /\ Atomic!NotLater(got, old)
        BY <1>1, <1>3, <2>3, <2>4, <2>5, <2>7
      <3> QED BY <3>2, <3>3
    <2>8. ASSUME phys = rem.phys /\ (phys # old.phys \/ old.log < rem.log)
         PROVE  Latest(got)
      <3>1. phys = old.phys => Larger(old.log, rem.log) = rem.log
        BY <1>1, <2>3, <2>8 DEF Larger
      <3>2. Merged(now, old, rem) = Atomic!Successor(got)
        BY <2>4, <2>6, <2>8, <3>1
      <3>3. /\ Atomic!NotLater(clock, got) /\ Atomic!NotLater(old, got)
            /\ Atomic!NotLater(got, got)
        BY <1>1, <1>3, <2>3, <2>4, <2>5, <2>8
      <3> QED BY <3>2, <3>3
    <2>9. ASSUME phys # rem.phys /\ phys # old.phys
         PROVE  Latest(clock)
      <3>1. Merged(now, old, rem) = Atomic!Successor(clock)
        BY <1>2, <1>3, <2>5, <2>6, <2>9
      <3>2. /\ Atomic!NotLater(clock, clock) /\ Atomic!NotLater(old, clock)
            /\ Atomic!NotLater(got, clock)
        BY <1>1, <1>3, <2>3, <2>4, <2>5, <2>9
      <3> QED BY <3>1, <3>2
    <2>10. Latest(clock) \/ Latest(old) \/ Latest(got)
      BY <1>1, <2>3, <2>7, <2>8, <2>9
    <2>11. ASSUME NEW x \in {clock, old, got}, Latest(x)
           PROVE  \E latest \in Atomic!Sources(n, now, rem) :
                     /\ \A s \in Atomic!Sources(n, now, rem) : Atomic!NotLater(s, latest)
                     /\ Advance(now, state[n], rem) = Atomic!Successor(latest)
      BY <2>1, <2>2, <2>11 DEF old
    <2> QED BY <2>10, <2>11
  <1> QED BY <1>4, <1>5

LEMMA ImplementInit == Init => Atomic!Init
  BY DEF Init, Atomic!Init, Atomic!Kept, Pack

LEMMA ImplementStep ==
    ASSUME TypeOK, Computed, [Next]_vars
    PROVE  [Atomic!Next]_(Atomic!vars)
  <1>1. ASSUME NEW t \in Threads, NEW rem \in Stamp \cup {NoRemote}, Begin(t, rem),
               \/ rem = NoRemote
               \/ rem = ZeroStamp
               \/ \E i \in DOMAIN issued : rem = issued[i].stamp
        PROVE  Atomic!Call(t)
    BY <1>1 DEF Begin, Atomic!Call, TypeOK
  <1>2. ASSUME NEW t \in Threads, ReadClock(t) PROVE UNCHANGED Atomic!vars
    BY <1>2 DEF ReadClock, Atomic!vars, TypeOK
  <1>3. ASSUME NEW t \in Threads, CasFail(t) PROVE UNCHANGED Atomic!vars
    BY <1>3 DEF CasFail, Atomic!vars, TypeOK
  <1>4. ASSUME NEW t \in Threads, CasSucceed(t) PROVE Atomic!Return(t)
    <2> DEFINE n == NodeOf[t]
    <2>1. n \in Nodes /\ remote[t] \in Stamp \cup {NoRemote}
      BY ConstantsAssumption DEF TypeOK
    <2>2. PICK now \in WallClock : next[t] = Advance(now, state[n], remote[t])
      BY <1>4 DEF CasSucceed, Publish, Computed
    <2>3. now \in Nat
      BY ConstantsAssumption
    <2>4. PICK latest \in Atomic!Sources(n, now, remote[t]) :
             /\ \A s \in Atomic!Sources(n, now, remote[t]) : Atomic!NotLater(s, latest)
             /\ next[t] = Atomic!Successor(latest)
      BY <2>1, <2>2, <2>3, AdvanceIsSuccessor
    <2>5. Atomic!Take(t, latest)
      BY <1>4, <2>4 DEF CasSucceed, Publish, StampOf, Pack, Atomic!Take, Atomic!Kept
    <2>6. /\ t \in {u \in Threads : pc[u] # "idle"}
          /\ {u \in Threads : pc'[u] # "idle"} = {u \in Threads : pc[u] # "idle"} \ {t}
          /\ remote' = [remote EXCEPT ![t] = NoRemote]
      BY <1>4 DEF CasSucceed, Publish, TypeOK
    <2> QED BY <2>4, <2>5, <2>6 DEF Atomic!Return
  <1>5. CASE UNCHANGED vars
    BY <1>5 DEF vars, Atomic!vars
  <1> QED BY <1>1, <1>2, <1>3, <1>4, <1>5, NextCases DEF Atomic!Next

\* The retry loop is an atomic step, for any number of threads on a word, any
\* movement of the wall clock and any widths, those that wrap or truncate
\* included: every call takes effect at one instant between its beginning and
\* its end, as if advance held a lock (hlc.hpp:40-78).
THEOREM LinearizableCorrect == Spec => Linearizable
  <1>1. TypeOK /\ Computed /\ [Next]_vars => (TypeOK /\ Computed)'
    BY NextType, NextComputed
  <1> QED
    BY InitType, InitComputed, <1>1, ImplementInit, ImplementStep,
       PTL DEF Spec, Linearizable, Atomic!Spec

\* ------------------------------------------------- a word that is too narrow

\* The stamp of a local event is a reading of the wall clock and nothing else.
LocalStampIsReading ==
    \A i \in DOMAIN issued :
        issued[i].remote = NoRemote
            => issued[i].stamp.log = 0 /\ issued[i].stamp.phys \in WallClock

\* So is the one a thread is about to publish.
LocalIsReading ==
    /\ \A t \in Threads :
          pc[t] = "cas" /\ remote[t] = NoRemote
            => next[t].log = 0 /\ next[t].phys \in WallClock
    /\ LocalStampIsReading

LEMMA InitReading == Init => LocalIsReading
  BY DEF Init, LocalIsReading, LocalStampIsReading

LEMMA NextReading ==
    ASSUME \A now \in WallClock : now >= PhysMod, TypeOK, LocalIsReading, [Next]_vars
    PROVE  LocalIsReading'
  <1>1. ASSUME NEW t \in Threads, NEW rem \in Stamp \cup {NoRemote}, Begin(t, rem)
        PROVE  LocalIsReading'
    BY <1>1 DEF LocalIsReading, LocalStampIsReading, Begin, TypeOK
  <1>2. ASSUME NEW t \in Threads, ReadClock(t) PROVE LocalIsReading'
    <2>1. PICK now \in WallClock :
             next' = [next EXCEPT ![t] = Advance(now, loop[t], remote[t])]
      BY <1>2 DEF ReadClock
    <2>2. UNCHANGED <<remote, issued>> /\ pc' = [pc EXCEPT ![t] = "cas"]
      BY <1>2 DEF ReadClock
    <2>3. now > loop[t].phys
      <3>1. loop[t] \in Word /\ now \in Nat /\ PhysMod \in Nat \ {0}
        BY ConstantsAssumption DEF TypeOK
      <3> QED BY <3>1 DEF Word
    <2>4. remote[t] = NoRemote
          => Advance(now, loop[t], remote[t]) = [phys |-> now, log |-> 0]
      BY <2>3 DEF Advance, Sent
    <2> QED BY <2>1, <2>2, <2>4 DEF LocalIsReading, LocalStampIsReading, TypeOK
  <1>3. ASSUME NEW t \in Threads, CasSucceed(t) PROVE LocalIsReading'
    <2>1. Publish(t)
      BY <1>3 DEF CasSucceed
    <2>2. /\ DOMAIN issued' = 1 .. Len(issued) + 1
          /\ \A i \in DOMAIN issued : issued'[i] = issued[i]
          /\ issued'[Len(issued) + 1] = [stamp |-> StampOf(t), remote |-> remote[t]]
          /\ DOMAIN issued = 1 .. Len(issued)
          /\ Len(issued) \in Nat
      BY <2>1, PublishIssued, IssuedEntry
    <2>3. StampOf(t).phys = next[t].phys /\ StampOf(t).log = next[t].log
      BY DEF StampOf
    <2>4. \A i \in DOMAIN issued' :
              issued'[i].remote = NoRemote
                => issued'[i].stamp.log = 0 /\ issued'[i].stamp.phys \in WallClock
      BY <2>1, <2>2, <2>3 DEF LocalIsReading, LocalStampIsReading, Publish
    <2> QED BY <2>1, <2>4 DEF LocalIsReading, LocalStampIsReading, Publish, TypeOK
  <1>4. ASSUME NEW t \in Threads, CasFail(t) PROVE LocalIsReading'
    BY <1>4 DEF LocalIsReading, LocalStampIsReading, CasFail, TypeOK
  <1>5. CASE UNCHANGED vars
    BY <1>5 DEF LocalIsReading, LocalStampIsReading, vars
  <1> QED BY <1>1, <1>2, <1>3, <1>4, <1>5, NextCases

\* When no reading of the wall clock fits the word, as none has since 1978, the
\* stamp of a local event is the bare reading with counter 0: whatever the node
\* stamped before has no part in it, and two events of one tick are given the
\* same stamp (hlc.hpp:65-67 against :88-90).
THEOREM WideClockNeverCounts ==
    ASSUME \A now \in WallClock : now >= PhysMod
    PROVE  Spec => []LocalStampIsReading
  <1>1. TypeOK /\ LocalIsReading /\ [Next]_vars => (TypeOK /\ LocalIsReading)'
    BY NextType, NextReading
  <1>2. LocalIsReading => LocalStampIsReading
    BY DEF LocalIsReading
  <1> QED BY InitType, InitReading, <1>1, <1>2, PTL DEF Spec

=============================================================================
