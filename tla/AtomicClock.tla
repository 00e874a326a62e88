---------------------------- MODULE AtomicClock ----------------------------
(***************************************************************************)
(* What the hybrid clocks of a cluster promise to the threads that call    *)
(* them: a call takes effect at one instant between its beginning and its  *)
(* end, as if every node had a lock around its clock.  At that instant the *)
(* clock moves to the successor of the latest of what the call knows: the  *)
(* wall clock, the node's own word and the stamp it was given.             *)
(*                                                                         *)
(* A wall-clock reading counts as earlier than every stamp of its time, so *)
(* its successor has counter 0.  HybridClock, which implements this, has   *)
(* the arithmetic of the code and its retry loop.                          *)
(***************************************************************************)
EXTENDS Integers, Sequences

CONSTANTS
    Nodes,      \* the clocks
    Threads,    \* who calls them
    NodeOf,     \* the clock each thread calls
    WallClock,  \* the values a wall-clock reading may return
    PhysMod,    \* what a word keeps of a physical time
    LogMod,     \* the range of the logical counter
    Local,      \* the argument of a local event
    Client      \* the stamp a client sends

VARIABLES
    word,      \* the present time of each clock
    calling,   \* the threads inside a call
    argument,  \* what a call was given
    issued     \* history: what was answered, in order

vars == <<word, calling, argument, issued>>

NotLater(a, b) == a.phys < b.phys \/ (a.phys = b.phys /\ a.log <= b.log)

Kept(time) == [phys |-> time.phys % PhysMod, log |-> time.log]

Successor(time) == [phys |-> time.phys, log |-> (time.log + 1) % LogMod]

\* The times a call of node n knows of when the wall clock shows now.
Sources(n, now, arg) ==
    {[phys |-> now, log |-> -1], word[n]}
        \cup (IF arg = Local THEN {} ELSE {[phys |-> arg.phys, log |-> arg.log]})

Init ==
    /\ word \in [Nodes -> {Kept([phys |-> now, log |-> 0]) : now \in WallClock}]
    /\ calling = {}
    /\ argument = [t \in Threads |-> Local]
    /\ issued = <<>>

\* A stamp can be received once it has been issued.
Call(t) ==
    /\ t \notin calling
    /\ calling' = calling \cup {t}
    /\ \E arg \in {Local, Client} \cup {issued[i].stamp : i \in DOMAIN issued} :
        argument' = [argument EXCEPT ![t] = arg]
    /\ UNCHANGED <<word, issued>>

Take(t, latest) ==
    LET n == NodeOf[t]
        time == Successor(latest)
        stamp == [phys |-> time.phys, log |-> time.log, node |-> n]
    IN  /\ word' = [word EXCEPT ![n] = Kept(time)]
        /\ issued' = Append(issued, [stamp |-> stamp, remote |-> argument[t]])

Return(t) ==
    /\ t \in calling
    /\ \E now \in WallClock :
        \E latest \in Sources(NodeOf[t], now, argument[t]) :
            /\ \A s \in Sources(NodeOf[t], now, argument[t]) : NotLater(s, latest)
            /\ Take(t, latest)
    /\ calling' = calling \ {t}
    /\ argument' = [argument EXCEPT ![t] = Local]

Next == \E t \in Threads : Call(t) \/ Return(t)

Spec == Init /\ [][Next]_vars
=============================================================================
