---------------------------- MODULE LamportClocks ----------------------------
(***************************************************************************)
(* Lamport's clocks: every event of a process takes its clock one further, *)
(* the receipt of a message past the message's time as well; messages      *)
(* arrive in the order they were sent in, whole, and with their sender.    *)
(*                                                                         *)
(* Tempus, which implements this, has the sockets that cut messages into   *)
(* pieces, the two threads of a process, and the processes that end.       *)
(***************************************************************************)
EXTENDS Integers, Sequences

CONSTANT Nodes

VARIABLES
    clock,  \* the clock of each process
    wire,   \* wire[m][n]: the times of m's messages that n has yet to get
    inbox   \* what n got and has not taken: the sender and time of each

vars == <<clock, wire, inbox>>

Later(a, b) == IF a < b THEN b ELSE a

Init ==
    /\ clock = [n \in Nodes |-> 0]
    /\ wire = [m \in Nodes |-> [n \in Nodes |-> <<>>]]
    /\ inbox = [n \in Nodes |-> <<>>]

\* An event of n, which sends one message to each of "to", if any.
Event(n, to) ==
    /\ clock' = [clock EXCEPT ![n] = @ + 1]
    /\ wire' = [wire EXCEPT ![n] = [m \in Nodes |->
           IF m \in to THEN Append(@[m], clock[n] + 1) ELSE @[m]]]
    /\ UNCHANGED inbox

\* The next message of m gets to n.
Deliver(m, n) ==
    /\ wire[m][n] # <<>>
    /\ inbox' = [inbox EXCEPT ![n] =
           Append(@, [sender |-> m, time |-> Head(wire[m][n])])]
    /\ wire' = [wire EXCEPT ![m][n] = Tail(@)]
    /\ UNCHANGED clock

Receive(n) ==
    /\ inbox[n] # <<>>
    /\ clock' = [clock EXCEPT ![n] = Later(@, Head(inbox[n]).time) + 1]
    /\ inbox' = [inbox EXCEPT ![n] = Tail(@)]
    /\ UNCHANGED wire

Next == \E n \in Nodes :
    \/ \E to \in SUBSET (Nodes \ {n}) : Event(n, to)
    \/ \E m \in Nodes : Deliver(m, n)
    \/ Receive(n)

Spec == Init /\ [][Next]_vars
=============================================================================
