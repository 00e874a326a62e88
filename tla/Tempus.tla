------------------------------- MODULE Tempus --------------------------------
(***************************************************************************)
(* tempus (src/tempus/src): NumVms processes with Lamport clocks.  Each    *)
(* listens, accepts the processes of lower rank, connects to those of      *)
(* higher rank, and runs for a fixed time: its main thread takes a message *)
(* from the queue, or else draws an event; its receiver thread polls the   *)
(* sockets, gathers the eight bytes of a message however they arrive, and  *)
(* fills the queue.                                                        *)
(*                                                                         *)
(* A message crosses a socket as two halves, the sender's rank and its     *)
(* timestamp: recv may return either amount.                               *)
(***************************************************************************)
EXTENDS Integers, Sequences

CONSTANTS
    NumVms,       \* num_vms
    Iterations    \* how often each process goes around its main loop: its
                  \* drawn clockRate times DURATION_SECONDS

ASSUME TempusAssumption == NumVms \in Nat \ {0} /\ Iterations \in [0 .. NumVms - 1 -> Nat \ {0}]

Nodes == 0 .. NumVms - 1

VARIABLES
    stage,    \* where main() is in each process
    backlog,  \* connections made to a listening process, not accepted yet
    open,     \* the ranks whose channel each process has set
    clock,    \* LogicalClock::value
    count,    \* iterations of the main loop
    net,      \* net[m][n]: halves sent by m that n has not read
    bufs,     \* bufs[n][m]: the halves n has of the next message from m
    queue,    \* messageQueue
    receiver, \* the receiver thread: it polls, or threw, or returned
    past,     \* history: the events that happened before each process's now
    events,   \* history: every event, with its clock and its past
    sent,     \* history: sent[m][n]: the timestamps sent from m to n
    got       \* history: got[n][m]: what n pushed from its channel to m

setupVars == <<stage, backlog, open>>
clockVars == <<clock, count, past, events>>
wireVars == <<net, bufs, sent>>
vars == <<setupVars, clockVars, wireVars, queue, receiver, got>>

\* A connection made by m's connect() exists before its peer's accept().
Listening(n) == stage[n] \in {"accept", "connect"}
Running(n) == stage[n] = "run"
Closed(n) == stage[n] \in {"failed", "killed", "gone"}

-----------------------------------------------------------------------------
Init ==
    /\ stage = [n \in Nodes |-> "forked"]
    /\ backlog = [n \in Nodes |-> <<>>]
    /\ open = [n \in Nodes |-> {}]
    /\ clock = [n \in Nodes |-> 0]
    /\ count = [n \in Nodes |-> 0]
    /\ net = [m \in Nodes |-> [n \in Nodes |-> <<>>]]
    /\ bufs = [n \in Nodes |-> [m \in Nodes |-> <<>>]]
    /\ queue = [n \in Nodes |-> <<>>]
    /\ receiver = [n \in Nodes |-> "off"]
    /\ past = [n \in Nodes |-> {}]
    /\ events = {}
    /\ sent = [m \in Nodes |-> [n \in Nodes |-> <<>>]]
    /\ got = [n \in Nodes |-> [m \in Nodes |-> <<>>]]

(* main(): the sockets.                                                    *)

Listen(n) ==
    /\ stage[n] = "forked"
    /\ stage' = [stage EXCEPT ![n] = "accept"]
    /\ UNCHANGED <<backlog, open, clockVars, wireVars, queue, receiver, got>>

\* socket, bind or listen fails; the process returns.
ListenFails(n) ==
    /\ stage[n] = "forked"
    /\ stage' = [stage EXCEPT ![n] = "failed"]
    /\ UNCHANGED <<backlog, open, clockVars, wireVars, queue, receiver, got>>

\* The rank is read from the connection, whichever process made it.
Accept(n) ==
    /\ stage[n] = "accept" /\ backlog[n] # <<>>
    /\ open' = [open EXCEPT ![n] = @ \cup {Head(backlog[n])}]
    /\ backlog' = [backlog EXCEPT ![n] = Tail(@)]
    /\ UNCHANGED <<stage, clockVars, wireVars, queue, receiver, got>>

Accepted(n) ==
    /\ stage[n] = "accept" /\ \A m \in Nodes : m < n => m \in open[n]
    /\ stage' = [stage EXCEPT ![n] = "connect"]
    /\ UNCHANGED <<backlog, open, clockVars, wireVars, queue, receiver, got>>

\* connect() is tried every second until the next higher rank listens.
Connect(n, m) ==
    /\ stage[n] = "connect" /\ Listening(m) /\ n < m
    /\ m \notin open[n] /\ \A k \in Nodes : n < k /\ k < m => k \in open[n]
    /\ open' = [open EXCEPT ![n] = @ \cup {m}]
    /\ backlog' = [backlog EXCEPT ![m] = Append(@, n)]
    /\ UNCHANGED <<stage, clockVars, wireVars, queue, receiver, got>>

\* A mutant: a process runs as soon as it has accepted the lower ranks.
RunWhenAccepted(n) ==
    /\ stage[n] = "connect"
    /\ stage' = [stage EXCEPT ![n] = "run"]
    /\ receiver' = [receiver EXCEPT ![n] = "polls"]
    /\ UNCHANGED <<backlog, open, clockVars, wireVars, queue, got>>

\* The listening socket is closed and runNode starts the receiver.
Run(n) ==
    /\ stage[n] = "connect" /\ open[n] = Nodes \ {n}
    /\ stage' = [stage EXCEPT ![n] = "run"]
    /\ receiver' = [receiver EXCEPT ![n] = "polls"]
    /\ UNCHANGED <<backlog, open, clockVars, wireVars, queue, got>>

-----------------------------------------------------------------------------
(* runNode: the main thread.                                               *)

Event(n, c, before) == [rank |-> n, clock |-> c, past |-> before]
Id(e) == [rank |-> e.rank, clock |-> e.clock]

\* One iteration that moves the clock of n to c, knowing "before".
Tick(n, c, before) ==
    /\ Running(n) /\ count[n] < Iterations[n]
    /\ count' = [count EXCEPT ![n] = @ + 1]
    /\ clock' = [clock EXCEPT ![n] = c]
    /\ events' = events \cup {Event(n, c, before)}
    /\ past' = [past EXCEPT ![n] = before \cup {Id(Event(n, c, before))}]

Larger(a, b) == IF a < b THEN b ELSE a

\* A mutant: the clock is set to what was received if that is ahead.
ReceiveWithoutTick(n) ==
    /\ queue[n] # <<>>
    /\ Tick(n, IF Head(queue[n]).logicalTimestamp > clock[n]
               THEN Head(queue[n]).logicalTimestamp ELSE clock[n] + 1,
            past[n] \cup Head(queue[n]).past)
    /\ queue' = [queue EXCEPT ![n] = Tail(@)]
    /\ UNCHANGED <<setupVars, wireVars, receiver, got>>

\* processReceivedMessage, updateOnReceive.
Receive(n) ==
    /\ queue[n] # <<>>
    /\ Tick(n, Larger(clock[n], Head(queue[n]).logicalTimestamp) + 1,
            past[n] \cup Head(queue[n]).past)
    /\ queue' = [queue EXCEPT ![n] = Tail(@)]
    /\ UNCHANGED <<setupVars, wireVars, receiver, got>>

Internal(n) ==
    /\ queue[n] = <<>>
    /\ Tick(n, clock[n] + 1, past[n])
    /\ UNCHANGED <<setupVars, wireVars, queue, receiver, got>>

\* SEND_TO_NEXT, SEND_TO_SECOND_NEXT, SEND_TO_ALL; nothing goes to oneself.
Targets(n) ==
    {{(n + 1) % NumVms} \ {n}, {(n + 2) % NumVms} \ {n}, Nodes \ {n}}

\* The two halves of a message; what its sender knew rides with the second.
Halves(n, c, before) ==
    <<[half |-> "rank", value |-> n, past |-> {}],
      [half |-> "time", value |-> c, past |-> before]>>

\* sendMessage to each of "reached", whose kernels take the bytes.
Transmit(n, c, before, reached) ==
    /\ net' = [net EXCEPT ![n] = [m \in Nodes |->
           IF m \in reached THEN @[m] \o Halves(n, c, before) ELSE @[m]]]
    /\ sent' = [sent EXCEPT ![n] = [m \in Nodes |->
           IF m \in reached THEN Append(@[m], c) ELSE @[m]]]
    /\ UNCHANGED bufs

Knows(n) == past[n] \cup {[rank |-> n, clock |-> clock[n] + 1]}

\* handleSendEvent: the clock ticks once for all targets.  Bytes for a peer
\* that has closed its socket are taken and lost.
Send(n) ==
    /\ queue[n] = <<>>
    /\ Tick(n, clock[n] + 1, past[n])
    /\ \E to \in Targets(n) : Transmit(n, clock[n] + 1, Knows(n), to)
    /\ UNCHANGED <<setupVars, queue, receiver, got>>

\* The second send() on such a socket raises SIGPIPE, which nobody handles:
\* the process dies having reached the targets of lower rank.
SendDies(n) ==
    /\ queue[n] = <<>>
    /\ Tick(n, clock[n] + 1, past[n])
    /\ \E to \in Targets(n) : \E m \in to :
           /\ Closed(m)
           /\ Transmit(n, clock[n] + 1, Knows(n), {k \in to : k < m})
    /\ stage' = [stage EXCEPT ![n] = "killed"]
    /\ receiver' = [receiver EXCEPT ![n] = "returned"]
    /\ UNCHANGED <<backlog, open, queue, got>>

\* DURATION_SECONDS are over: done is set and the receiver awaited.
Finish(n) ==
    /\ Running(n) /\ count[n] = Iterations[n]
    /\ stage' = [stage EXCEPT ![n] = "done"]
    /\ UNCHANGED <<backlog, open, clockVars, wireVars, queue, receiver, got>>

Close(n) ==
    /\ stage[n] = "done" /\ receiver[n] # "polls"
    /\ stage' = [stage EXCEPT ![n] = "gone"]
    /\ UNCHANGED <<backlog, open, clockVars, wireVars, queue, receiver, got>>

-----------------------------------------------------------------------------
(* receiveMessages: the receiver thread.                                   *)

Polls(n) == receiver[n] = "polls" /\ stage[n] \in {"run", "done"}

Message(halves) ==
    [senderRank |-> halves[1].value, logicalTimestamp |-> halves[2].value,
     past |-> halves[2].past]

\* A mutant: what has arrived is kept in one buffer for all channels.
ReceiveIntoOne(n, m, k) ==
    LET have == bufs[n][n] \o SubSeq(net[m][n], 1, k)
    IN  /\ Polls(n)
        /\ k \in 1 .. Len(net[m][n]) /\ Len(have) <= 2
        /\ net' = [net EXCEPT ![m][n] = SubSeq(@, k + 1, Len(@))]
        /\ bufs' = [bufs EXCEPT ![n][n] = IF Len(have) = 2 THEN <<>> ELSE have]
        /\ IF Len(have) = 2
           THEN /\ queue' = [queue EXCEPT ![n] = Append(@, Message(have))]
                /\ got' = [got EXCEPT ![n][m] = Append(@, Message(have))]
           ELSE UNCHANGED <<queue, got>>
        /\ UNCHANGED <<setupVars, clockVars, sent, receiver>>

\* recv takes k halves, no more than the message lacks.
ReceiveBytes(n, m, k) ==
    LET have == bufs[n][m] \o SubSeq(net[m][n], 1, k)
    IN  /\ Polls(n)
        /\ k \in 1 .. Len(net[m][n]) /\ Len(have) <= 2
        /\ net' = [net EXCEPT ![m][n] = SubSeq(@, k + 1, Len(@))]
        /\ bufs' = [bufs EXCEPT ![n][m] = IF Len(have) = 2 THEN <<>> ELSE have]
        /\ IF Len(have) = 2
           THEN /\ queue' = [queue EXCEPT ![n] = Append(@, Message(have))]
                /\ got' = [got EXCEPT ![n][m] = Append(@, Message(have))]
           ELSE UNCHANGED <<queue, got>>
        /\ UNCHANGED <<setupVars, clockVars, sent, receiver>>

\* recv returns 0 when a closed peer's bytes are read, and fails at once when
\* the peer closed with bytes of ours unread: the thread throws, for all peers.
Disconnect(n, m) ==
    /\ Polls(n) /\ m # n /\ Closed(m)
    /\ net[m][n] = <<>> \/ net[n][m] # <<>>
    /\ receiver' = [receiver EXCEPT ![n] = "threw"]
    /\ UNCHANGED <<setupVars, clockVars, wireVars, queue, got>>

\* A mutant: done is not looked at while the queue has messages.
StopWhenEmpty(n) ==
    /\ Polls(n) /\ stage[n] = "done" /\ queue[n] = <<>>
    /\ receiver' = [receiver EXCEPT ![n] = "returned"]
    /\ UNCHANGED <<setupVars, clockVars, wireVars, queue, got>>

\* done is seen at the latest after poll's second.
ReceiverStops(n) ==
    /\ Polls(n) /\ stage[n] = "done"
    /\ receiver' = [receiver EXCEPT ![n] = "returned"]
    /\ UNCHANGED <<setupVars, clockVars, wireVars, queue, got>>

-----------------------------------------------------------------------------
Setup(n) == Accept(n) \/ Accepted(n) \/ Run(n) \/ \E m \in Nodes : Connect(n, m)

Iterate(n) == Receive(n) \/ Internal(n) \/ Send(n) \/ SendDies(n)

Poll(n) ==
    \/ \E m \in Nodes, k \in 1 .. 2 : ReceiveBytes(n, m, k)
    \/ \E m \in Nodes : Disconnect(n, m)

Next == \E n \in Nodes :
    \/ Listen(n) \/ ListenFails(n) \/ Setup(n)
    \/ Iterate(n) \/ Finish(n) \/ Close(n)
    \/ Poll(n) \/ ReceiverStops(n)

Spec == Init /\ [][Next]_vars

\* Each thread is scheduled, and the time of the main loop ends.
FairSpec == Spec /\ \A n \in Nodes :
    /\ WF_vars(Listen(n) \/ ListenFails(n)) /\ WF_vars(Setup(n))
    /\ WF_vars(Iterate(n)) /\ WF_vars(Finish(n)) /\ WF_vars(Close(n))
    /\ WF_vars(ReceiverStops(n))

-----------------------------------------------------------------------------
(* Properties.                                                             *)

Stages == {"forked", "accept", "connect", "run", "done", "gone", "failed", "killed"}
EventIds == [rank : Nodes, clock : Nat]
HalfMessages == [half : {"rank", "time"}, value : Nat, past : SUBSET EventIds]
Messages == [senderRank : Nat, logicalTimestamp : Nat, past : SUBSET EventIds]

\* Every variable keeps its range.  A buffer never holds a whole message, and
\* a process has a channel to every other before it runs.
TypeOK ==
    /\ stage \in [Nodes -> Stages]
    /\ backlog \in [Nodes -> Seq(Nodes)]
    /\ open \in [Nodes -> SUBSET Nodes]
    /\ clock \in [Nodes -> Nat] /\ count \in [Nodes -> Nat]
    /\ net \in [Nodes -> [Nodes -> Seq(HalfMessages)]]
    /\ bufs \in [Nodes -> [Nodes -> Seq(HalfMessages)]]
    /\ queue \in [Nodes -> Seq(Messages)]
    /\ receiver \in [Nodes -> {"off", "polls", "threw", "returned"}]
    /\ past \in [Nodes -> SUBSET EventIds]
    /\ events \subseteq [rank : Nodes, clock : Nat, past : SUBSET EventIds]
    /\ sent \in [Nodes -> [Nodes -> Seq(Nat)]]
    /\ got \in [Nodes -> [Nodes -> Seq(Messages)]]
    /\ \A n, m \in Nodes : Len(bufs[n][m]) < 2
    /\ \A n \in Nodes : stage[n] \in {"run", "done", "gone", "killed"}
                            => open[n] = Nodes \ {n}

\* Lamport's clock condition over all processes: whatever happened before an
\* event, through any chain of messages, has a smaller clock.
ClockCondition == \A e \in events : \A d \in e.past : d.clock < e.clock

\* However recv cuts the bytes, the receiver pushes exactly what each peer
\* sent, in the order it sent it.
InOrder ==
    \A n, m \in Nodes :
        /\ Len(got[n][m]) <= Len(sent[m][n])
        /\ \A i \in DOMAIN got[n][m] :
               /\ got[n][m][i].senderRank = m
               /\ got[n][m][i].logicalTimestamp = sent[m][n][i]

\* The times of the messages between m and n that n has not pushed, and of those
\* it has not taken from its queue.
Rest(s, k) == SubSeq(s, k + 1, Len(s))
OnTheWay == [m \in Nodes |-> [n \in Nodes |-> Rest(sent[m][n], Len(got[n][m]))]]
Stamp(msg) == [sender |-> msg.senderRank, time |-> msg.logicalTimestamp]
Stamps(q) == [i \in DOMAIN q |-> Stamp(q[i])]
Unread == [n \in Nodes |-> Stamps(queue[n])]

\* The processes are Lamport clocks: whatever recv returns and whichever sockets
\* close, a message is one step from the wire to the queue, whole, with its sender
\* and in the order sent, and taking it leaves its time behind (logic.cpp:51-133,
\* 182-192; logic.hpp, LogicalClock).
Lamport == INSTANCE LamportClocks WITH wire <- OnTheWay, inbox <- Unread

Exchanges == Lamport!Spec

\* Unless some process could not listen, every process gets through setup,
\* runs, and ends, so that the parent's wait() returns.
Stops == <>(\/ \E n \in Nodes : stage[n] = "failed"
            \/ \A n \in Nodes : Closed(n))
=============================================================================
