---------------------------- MODULE HybridClock ----------------------------
(***************************************************************************)
(* The hybrid logical clock of a mousedb server (exe_server/src/hlc.hpp,   *)
(* of which client/src/hlc.hpp is a copy).  A node keeps one packed atomic *)
(* word <<phys, log>>; any thread of the node may stamp an event with      *)
(* now_send() or recv_and_merge(remote).  Both run the retry loop advance: *)
(* load the word, read the wall clock, compute a successor, and publish it *)
(* with a weak compare-and-exchange.                                       *)
(*                                                                         *)
(* The steps of the loop that other threads can see are separate actions.  *)
(* The wall clock is std::chrono::system_clock, which may be stepped in    *)
(* either direction: every reading is any member of WallClock.             *)
(***************************************************************************)
EXTENDS Integers, Sequences

CONSTANTS
    Nodes,      \* node ids (the listening ports); 0 is the id clients use
    Threads,    \* the threads that stamp events
    NodeOf,     \* the node each thread belongs to
    WallClock,  \* the values a wall-clock reading may return
    PhysMod,    \* 2^48: what the word keeps of a physical time
    LogMod,     \* 2^16: the range of the logical counter
    MaxStamps,  \* bound: stamps issued in one behaviour
    NoRemote    \* std::nullopt, the argument of a local event

ASSUME ConstantsAssumption ==
    /\ Nodes \subseteq Nat \ {0}
    /\ NodeOf \in [Threads -> Nodes]
    /\ WallClock \subseteq Nat
    /\ PhysMod \in Nat \ {0}
    /\ LogMod \in Nat \ {0}
    /\ MaxStamps \in Nat

Stamp == [phys : Nat, log : 0 .. LogMod - 1, node : Nodes \cup {0}]

ASSUME NoRemoteAssumption == NoRemote \notin Stamp

\* The stamp a kv_client sends: its request frame carries a zero clock.
ZeroStamp == [phys |-> 0, log |-> 0, node |-> 0]

Word == [phys : 0 .. PhysMod - 1, log : 0 .. LogMod - 1]

VARIABLES
    state,    \* state_ of each node, the packed word
    pc,       \* where each thread is: "idle", "read" or "cas"
    remote,   \* the argument of the call in progress
    loop,     \* the word the thread last loaded
    next,     \* the successor it computed, not yet truncated by pack
    issued,   \* history: every stamp returned, in the order of the exchanges
    fastest   \* history: the largest wall-clock reading so far

vars == <<state, pc, remote, loop, next, issued, fastest>>

-----------------------------------------------------------------------------

\* operator<=> : lexicographic on physical time, counter, node.
Less(a, b) ==
    \/ a.phys < b.phys
    \/ a.phys = b.phys /\ a.log < b.log
    \/ a.phys = b.phys /\ a.log = b.log /\ a.node < b.node

Larger(a, b) == IF a >= b THEN a ELSE b

\* (phys << 16) | log in 64 bits: the high bits of phys fall off.
Pack(t) == [phys |-> t.phys % PhysMod, log |-> t.log]

\* A local event: the wall clock if it is ahead, else the next counter value.
Sent(now, old) ==
    IF now > old.phys
    THEN [phys |-> now, log |-> 0]
    ELSE [phys |-> old.phys, log |-> (old.log + 1) % LogMod]

\* A received stamp: the largest of the three times, and one more than the
\* counters that go with it.
Merged(now, old, rem) ==
    LET phys == Larger(Larger(now, rem.phys), old.phys)
        sameLocal == phys = old.phys
        sameRemote == phys = rem.phys
    IN  [phys |-> phys,
         log |-> IF sameLocal /\ sameRemote
                 THEN (Larger(old.log, rem.log) + 1) % LogMod
                 ELSE IF sameLocal THEN (old.log + 1) % LogMod
                 ELSE IF sameRemote THEN (rem.log + 1) % LogMod
                 ELSE 0]

\* Slips the mutants use: the counter of the remote stamp is forgotten, or
\* the clock is moved past every source, as a Lamport clock would be.
MergedForgetsRemoteCounter(now, old, rem) ==
    LET phys == Larger(Larger(now, rem.phys), old.phys)
    IN  [phys |-> phys,
         log |-> IF phys = old.phys THEN (old.log + 1) % LogMod ELSE 0]

AdvanceTicksPastRemote(now, old, rem) ==
    IF rem = NoRemote
    THEN Sent(now, old)
    ELSE [phys |-> Larger(Larger(now, rem.phys), old.phys) + 1, log |-> 0]

AdvanceForgetsRemoteCounter(now, old, rem) ==
    IF rem = NoRemote THEN Sent(now, old)
                      ELSE MergedForgetsRemoteCounter(now, old, rem)

\* What one iteration of advance computes.
Advance(now, old, rem) ==
    IF rem = NoRemote THEN Sent(now, old) ELSE Merged(now, old, rem)

-----------------------------------------------------------------------------

\* The locals of a thread outside the loop, or outside one iteration of it.
Unset == [phys |-> 0, log |-> 0]

\* The constructor stores the wall clock and a zero counter.
Init ==
    \E boot \in [Nodes -> WallClock] :
        /\ state = [n \in Nodes |-> Pack([phys |-> boot[n], log |-> 0])]
        /\ pc = [t \in Threads |-> "idle"]
        /\ remote = [t \in Threads |-> NoRemote]
        /\ loop = [t \in Threads |-> Unset]
        /\ next = [t \in Threads |-> Unset]
        /\ issued = <<>>
        /\ fastest \in {boot[n] : n \in Nodes}
        /\ \A n \in Nodes : boot[n] <= fastest

\* A mutant: the loaded word and the received stamp change places.
BeginSwapsArguments(t, rem) ==
    /\ pc[t] = "idle"
    /\ Len(issued) < MaxStamps
    /\ pc' = [pc EXCEPT ![t] = "read"]
    /\ remote' = [remote EXCEPT ![t] = state[NodeOf[t]]]
    /\ loop' = [loop EXCEPT ![t] = rem]
    /\ UNCHANGED <<state, next, issued, fastest>>

\* advance begins: the relaxed load of the node's word.
Begin(t, rem) ==
    /\ pc[t] = "idle"
    /\ Len(issued) < MaxStamps
    /\ pc' = [pc EXCEPT ![t] = "read"]
    /\ remote' = [remote EXCEPT ![t] = rem]
    /\ loop' = [loop EXCEPT ![t] = state[NodeOf[t]]]
    /\ UNCHANGED <<state, next, issued, fastest>>

NowSend(t) == Begin(t, NoRemote)

\* The stamps that can arrive are the ones some clock issued, and a client's.
RecvAndMerge(t) ==
    \/ Begin(t, ZeroStamp)
    \/ \E i \in DOMAIN issued : Begin(t, issued[i].stamp)

\* phys_now() and the arithmetic on the loaded word.
ReadClock(t) ==
    /\ pc[t] = "read"
    /\ \E now \in WallClock :
        /\ next' = [next EXCEPT ![t] = Advance(now, loop[t], remote[t])]
        /\ fastest' = Larger(fastest, now)
    /\ pc' = [pc EXCEPT ![t] = "cas"]
    /\ UNCHANGED <<state, remote, loop, issued>>

StampOf(t) ==
    [phys |-> next[t].phys, log |-> next[t].log, node |-> NodeOf[t]]

\* Publish and return, shared by the exchange and its mutant.
Publish(t) ==
    /\ pc[t] = "cas"
    /\ Len(issued) < MaxStamps
    /\ state' = [state EXCEPT ![NodeOf[t]] = Pack(next[t])]
    /\ issued' = Append(issued, [stamp |-> StampOf(t), remote |-> remote[t]])
    /\ pc' = [pc EXCEPT ![t] = "idle"]
    /\ remote' = [remote EXCEPT ![t] = NoRemote]
    /\ loop' = [loop EXCEPT ![t] = Unset]
    /\ next' = [next EXCEPT ![t] = Unset]
    /\ UNCHANGED fastest

\* A mutant: a plain store in place of the compare-and-exchange.
PlainStore(t) == Publish(t)

\* compare_exchange_weak succeeds only on the word this thread loaded.
CasSucceed(t) ==
    /\ state[NodeOf[t]] = loop[t]
    /\ Publish(t)

\* A mutant: the failed exchange does not reload the word.
CasFailKeepsWord(t) ==
    /\ pc[t] = "cas"
    /\ pc' = [pc EXCEPT ![t] = "read"]
    /\ next' = [next EXCEPT ![t] = Unset]
    /\ UNCHANGED <<state, remote, loop, issued, fastest>>

\* It fails on any other word, and may fail spuriously; either way loop is
\* given the current word and the iteration starts again.
CasFail(t) ==
    /\ pc[t] = "cas"
    /\ loop' = [loop EXCEPT ![t] = state[NodeOf[t]]]
    /\ pc' = [pc EXCEPT ![t] = "read"]
    /\ next' = [next EXCEPT ![t] = Unset]
    /\ UNCHANGED <<state, remote, issued, fastest>>

Next ==
    \E t \in Threads :
        \/ NowSend(t)
        \/ RecvAndMerge(t)
        \/ ReadClock(t)
        \/ CasSucceed(t)
        \/ CasFail(t)

Spec == Init /\ [][Next]_vars

\* A thread inside the loop keeps running, and an exchange that is tried
\* again and again on the right word succeeds at last: spurious failures of
\* compare_exchange_weak do not go on for ever.
Fairness ==
    \A t \in Threads : WF_vars(ReadClock(t) \/ CasFail(t)) /\ SF_vars(CasSucceed(t))

FairSpec == Spec /\ Fairness

-----------------------------------------------------------------------------

\* The ranges of the variables.
TypeOK ==
    /\ state \in [Nodes -> Word]
    /\ pc \in [Threads -> {"idle", "read", "cas"}]
    /\ remote \in [Threads -> Stamp \cup {NoRemote}]
    /\ loop \in [Threads -> Word]
    /\ next \in [Threads -> [phys : Nat, log : 0 .. LogMod - 1]]
    /\ issued \in Seq([stamp : Stamp, remote : Stamp \cup {NoRemote}])
    /\ fastest \in Nat

\* Two stamps of one node are strictly ordered as their exchanges were: the
\* counter is there for events of one physical tick, and later means larger
\* (hlc.hpp:10-13).  The word has 48 bits for the tick (hlc.hpp:88-90), and the
\* order holds of readings that fit them.
StampsIncrease ==
    \A i, j \in DOMAIN issued :
        i < j /\ issued[i].stamp.node = issued[j].stamp.node
            => Less(issued[i].stamp, issued[j].stamp)

\* The stamp recv_and_merge returns is later than the one received, whatever
\* happened to the node's word between the load and the exchange.
ReceiveIsLater ==
    \A i \in DOMAIN issued :
        issued[i].remote # NoRemote => Less(issued[i].remote, issued[i].stamp)

\* No stamp runs ahead of every wall clock in the system: the logical part,
\* never the physical one, absorbs events of the same microsecond.
PhysNeverLeads ==
    \A i \in DOMAIN issued : issued[i].stamp.phys <= fastest

\* From i until it answers j the word of the node lost nothing: every stamp it was
\* given in between had a physical time that fits it (hlc.hpp:90 shifts the rest out).
Remembered(i, j) ==
    \A k \in i .. j - 1 :
        issued[k].stamp.node = issued[i].stamp.node => issued[k].stamp.phys < PhysMod

\* One event leads to another if the later is the receipt of the earlier one's
\* stamp, or if both are of one node whose word remembered the earlier one;
\* happening before is the closure of that.
LeadsTo(i, j) ==
    /\ i < j
    /\ \/ issued[j].remote = issued[i].stamp
       \/ issued[j].stamp.node = issued[i].stamp.node /\ Remembered(i, j)

Closed(S) ==
    \A k \in S, l \in DOMAIN issued : LeadsTo(k, l) => l \in S

HappenedBefore(i, j) ==
    \A S \in SUBSET DOMAIN issued :
        (\A k \in DOMAIN issued : LeadsTo(i, k) => k \in S) /\ Closed(S) => j \in S

\* The order of stamps extends causality, whatever fits the word: what happened
\* before, on any chain of receipts and of words that lost nothing in between, has
\* the smaller stamp (hlc.hpp:40-78).  What a word has lost orders nothing: that is
\* StampsIncrease, which does not hold where readings do not fit.
CausalOrder ==
    \A i, j \in DOMAIN issued :
        HappenedBefore(i, j) => Less(issued[i].stamp, issued[j].stamp)

\* Each call takes effect at one instant between its beginning and its end, on
\* the word as it is at that instant: the retry loop loses no update of another
\* thread and answers with no time that the word has left (hlc.hpp:67-75).
Atomic == INSTANCE AtomicClock
    WITH word <- state,
         calling <- {t \in Threads : pc[t] # "idle"},
         argument <- remote,
         Local <- NoRemote,
         Client <- ZeroStamp

Linearizable == Atomic!Spec

\* A call that entered the loop returns (unless the run's stamps are used up).
CallReturns ==
    \A t \in Threads : (pc[t] # "idle") ~> (pc[t] = "idle" \/ Len(issued) = MaxStamps)

\* The counter cannot wrap in the stamps of one behaviour.
CounterSuffices == MaxStamps + 1 < LogMod

=============================================================================
