----------------------------- MODULE TempusProofs -----------------------------
(***************************************************************************)
(* Theorems about Tempus, for any number of processes and iterations.      *)
(*                                                                         *)
(* The clock condition is inductive once it is said of everything that     *)
(* carries knowledge: a process knows of no event later than its clock, and *)
(* a message, in the queue or in halves on its way, of none later than its *)
(* timestamp.  The knowledge of a message rides with its second half, so   *)
(* that this holds of whatever two halves a receiver puts together.        *)
(*                                                                         *)
(* The order of messages is inductive once it is said of the halves that   *)
(* lie between a sender and what its receiver pushed.                      *)
(***************************************************************************)
EXTENDS Tempus, SequenceTheorems, TLAPS

Honest == {h \in HalfMessages : \A d \in h.past : d.clock <= h.value}
HonestMessages ==
    {msg \in Messages : \A d \in msg.past : d.clock <= msg.logicalTimestamp}

KnownIsPast == \A n \in Nodes : \A d \in past[n] : d.clock <= clock[n]
HalvesHonest ==
    /\ net \in [Nodes -> [Nodes -> Seq(Honest)]]
    /\ bufs \in [Nodes -> [Nodes -> Seq(Honest)]]
QueueHonest == queue \in [Nodes -> Seq(HonestMessages)]

Inv == TypeOK /\ KnownIsPast /\ HalvesHonest /\ QueueHonest /\ ClockCondition

-----------------------------------------------------------------------------
(* The two halves of a new message are honest when the knowledge is.       *)
LEMMA HalvesType ==
  ASSUME NEW n \in Nodes, NEW c \in Nat, NEW before \in SUBSET EventIds,
         \A d \in before : d.clock <= c
  PROVE  Halves(n, c, before) \in Seq(Honest)
<1>1. [half |-> "rank", value |-> n, past |-> {}] \in Honest
  BY TempusAssumption DEF Honest, HalfMessages, Nodes, EventIds
<1>2. [half |-> "time", value |-> c, past |-> before] \in Honest
  BY DEF Honest, HalfMessages
<1> QED BY <1>1, <1>2 DEF Halves

(* transmission extends the bytes on their way, for any set of halves. *)
LEMMA TransmitType ==
  ASSUME NEW S, NEW n \in Nodes, NEW c \in Nat, NEW before, NEW reached,
         Halves(n, c, before) \in Seq(S),
         net \in [Nodes -> [Nodes -> Seq(S)]],
         sent \in [Nodes -> [Nodes -> Seq(Nat)]],
         Transmit(n, c, before, reached)
  PROVE  /\ net' \in [Nodes -> [Nodes -> Seq(S)]]
         /\ sent' \in [Nodes -> [Nodes -> Seq(Nat)]]
<1>1. \A m \in Nodes : net[n][m] \o Halves(n, c, before) \in Seq(S)
  BY DEF Transmit
<1>2. [m \in Nodes |-> IF m \in reached THEN net[n][m] \o Halves(n, c, before)
                                        ELSE net[n][m]] \in [Nodes -> Seq(S)]
  BY <1>1
<1>3. \A m \in Nodes : Append(sent[n][m], c) \in Seq(Nat)
  OBVIOUS
<1>4. [m \in Nodes |-> IF m \in reached THEN Append(sent[n][m], c)
                                        ELSE sent[n][m]] \in [Nodes -> Seq(Nat)]
  BY <1>3
<1> QED BY <1>2, <1>4 DEF Transmit

(* A buffer that is emptied when a message is whole never holds one. *)
LEMMA KeepType ==
  ASSUME NEW S, NEW have \in Seq(S), Len(have) <= 2
  PROVE  /\ (IF Len(have) = 2 THEN <<>> ELSE have) \in Seq(S)
         /\ Len(IF Len(have) = 2 THEN <<>> ELSE have) < 2
<1>1. CASE Len(have) = 2
  BY <1>1
<1>2. CASE Len(have) # 2
  <2>1. Len(have) \in Nat
    OBVIOUS
  <2>2. Len(have) < 2
    BY <1>2, <2>1
  <2> QED BY <1>2, <2>2
<1> QED BY <1>1, <1>2

(* A receipt takes bytes from the socket to the buffer, for any set S of  *)
(* halves, and the buffer never keeps a whole message.                    *)
LEMMA BytesType ==
  ASSUME NEW S, NEW n \in Nodes, NEW m \in Nodes, NEW k \in 1 .. 2,
         net \in [Nodes -> [Nodes -> Seq(S)]],
         bufs \in [Nodes -> [Nodes -> Seq(S)]],
         \A x, y \in Nodes : Len(bufs[x][y]) < 2,
         ReceiveBytes(n, m, k)
  PROVE  /\ net' \in [Nodes -> [Nodes -> Seq(S)]]
         /\ bufs' \in [Nodes -> [Nodes -> Seq(S)]]
         /\ \A x, y \in Nodes : Len(bufs'[x][y]) < 2
         /\ bufs[n][m] \o SubSeq(net[m][n], 1, k) \in Seq(S)
<1> DEFINE have == bufs[n][m] \o SubSeq(net[m][n], 1, k)
<1>1. net[m][n] \in Seq(S) /\ bufs[n][m] \in Seq(S) /\ k \in 1 .. Len(net[m][n])
  BY DEF ReceiveBytes
<1>2. SubSeq(net[m][n], 1, k) \in Seq(S)
  <2>1. \A i \in 1 .. k : net[m][n][i] \in S
    BY <1>1
  <2> QED BY <1>1, <2>1
<1>3. have \in Seq(S) /\ Len(have) \in Nat /\ Len(have) <= 2
  <2>1. Len(have) <= 2
    BY DEF ReceiveBytes
  <2> QED BY <1>1, <1>2, <2>1
<1>4. SubSeq(net[m][n], k + 1, Len(net[m][n])) \in Seq(S)
  <2>1. \A i \in k + 1 .. Len(net[m][n]) : net[m][n][i] \in S
    BY <1>1
  <2> QED BY <1>1, <2>1
<1>5. net' \in [Nodes -> [Nodes -> Seq(S)]]
  <2>1. net' = [net EXCEPT ![m][n] = SubSeq(@, k + 1, Len(@))]
    BY DEF ReceiveBytes
  <2> QED BY <2>1, <1>4
<1> DEFINE keep == IF Len(have) = 2 THEN <<>> ELSE have
<1>6. keep \in Seq(S) /\ Len(keep) < 2
  BY <1>3, KeepType
<1>7. bufs' = [bufs EXCEPT ![n][m] = keep]
  BY DEF ReceiveBytes
<1> HIDE DEF keep
<1>8. bufs' \in [Nodes -> [Nodes -> Seq(S)]]
  BY <1>6, <1>7
<1>9. \A x, y \in Nodes : Len(bufs'[x][y]) < 2
  BY <1>6, <1>7
<1> QED BY <1>3, <1>5, <1>8, <1>9

(* Two honest halves make an honest message. *)
LEMMA MessageType ==
  ASSUME NEW halves \in Seq(HalfMessages), Len(halves) = 2
  PROVE  /\ Message(halves) \in Messages
         /\ halves \in Seq(Honest) => Message(halves) \in HonestMessages
<1>1. halves[1] \in HalfMessages /\ halves[2] \in HalfMessages
  <2>1. 1 \in 1 .. Len(halves) /\ 2 \in 1 .. Len(halves)
    OBVIOUS
  <2> QED BY <2>1, ElementOfSeq
<1>2. Message(halves) \in Messages
  BY <1>1 DEF Message, Messages, HalfMessages
<1>3. ASSUME halves \in Seq(Honest) PROVE Message(halves) \in HonestMessages
  <2>1. halves[2] \in Honest
    BY <1>3
  <2>2. \A d \in halves[2].past : d.clock <= halves[2].value
    BY <2>1 DEF Honest
  <2>3. /\ Message(halves).past = halves[2].past
        /\ Message(halves).logicalTimestamp = halves[2].value
    BY DEF Message
  <2> QED BY <1>2, <2>2, <2>3 DEF HonestMessages
<1> QED BY <1>2, <1>3

(* One event of a process: the types of what Tick changes. *)
LEMMA TickType ==
  ASSUME TypeOK, NEW n \in Nodes, NEW c \in Nat, NEW before \in SUBSET EventIds,
         Tick(n, c, before)
  PROVE  /\ clock' \in [Nodes -> Nat] /\ count' \in [Nodes -> Nat]
         /\ past' \in [Nodes -> SUBSET EventIds]
         /\ events' \subseteq [rank : Nodes, clock : Nat, past : SUBSET EventIds]
<1>1. Event(n, c, before) \in [rank : Nodes, clock : Nat, past : SUBSET EventIds]
  BY DEF Event
<1>2. Id(Event(n, c, before)) \in EventIds
  BY DEF Event, Id, EventIds
<1>3. events' \subseteq [rank : Nodes, clock : Nat, past : SUBSET EventIds]
  BY <1>1 DEF Tick, TypeOK
<1>4. before \cup {Id(Event(n, c, before))} \in SUBSET EventIds
  BY <1>2
<1>5. past' \in [Nodes -> SUBSET EventIds]
  BY <1>4 DEF Tick, TypeOK
<1> QED BY <1>3, <1>5 DEF Tick, TypeOK

(* One event of a process: the clock condition follows when the clock leaves *)
(* all that is known behind.                                                 *)
LEMMA TickInv ==
  ASSUME TypeOK, KnownIsPast, ClockCondition,
         NEW n \in Nodes, NEW c \in Nat, NEW before \in SUBSET EventIds,
         \A d \in before : d.clock < c,
         Tick(n, c, before)
  PROVE  KnownIsPast' /\ ClockCondition'
<1>1. Event(n, c, before).past = before /\ Event(n, c, before).clock = c
  BY DEF Event
<1>2. ClockCondition'
  BY <1>1 DEF Tick, ClockCondition
<1>3. Id(Event(n, c, before)).clock = c
  BY DEF Event, Id
<1>4. \A d \in before \cup {Id(Event(n, c, before))} : d.clock <= c
  BY <1>3 DEF EventIds
<1>5. past' = [past EXCEPT ![n] = before \cup {Id(Event(n, c, before))}]
      /\ clock' = [clock EXCEPT ![n] = c]
  BY DEF Tick
<1>6. KnownIsPast'
  <2>1. ASSUME NEW x \in Nodes, NEW d \in past'[x] PROVE d.clock <= clock'[x]
    <3>1. CASE x = n
      BY <1>4, <1>5, <2>1, <3>1 DEF TypeOK
    <3>2. CASE x # n
      BY <1>5, <2>1, <3>2 DEF TypeOK, KnownIsPast
    <3> QED BY <3>1, <3>2
  <2> QED BY <2>1 DEF KnownIsPast
<1> QED BY <1>2, <1>6

-----------------------------------------------------------------------------
(* Setup and the ends of the threads move no message and no clock.         *)
Outside(n) ==
    \/ Listen(n) \/ ListenFails(n) \/ Setup(n) \/ Finish(n) \/ Close(n)
    \/ ReceiverStops(n) \/ \E m \in Nodes : Disconnect(n, m)

Inside(n) ==
    Iterate(n) \/ \E m \in Nodes, k \in 1 .. 2 : ReceiveBytes(n, m, k)

LEMMA TwoKindsOfStep ==
  ASSUME Next PROVE \E n \in Nodes : Outside(n) \/ Inside(n)
BY DEF Next, Outside, Inside, Poll

LEMMA OutsideMovesNothing ==
  ASSUME NEW n \in Nodes, Outside(n)
  PROVE  UNCHANGED <<clockVars, wireVars, queue, got>>
BY DEF Outside, Setup, Listen, ListenFails, Accept, Accepted, Connect, Run,
       Finish, Close, ReceiverStops, Disconnect

(* The parts of TypeOK. *)
SetupType ==
    /\ stage \in [Nodes -> Stages]
    /\ backlog \in [Nodes -> Seq(Nodes)]
    /\ open \in [Nodes -> SUBSET Nodes]
    /\ receiver \in [Nodes -> {"off", "polls", "threw", "returned"}]
    /\ \A x \in Nodes : stage[x] \in {"run", "done", "gone", "killed"}
                           => open[x] = Nodes \ {x}
ClockType ==
    /\ clock \in [Nodes -> Nat] /\ count \in [Nodes -> Nat]
    /\ past \in [Nodes -> SUBSET EventIds]
    /\ events \subseteq [rank : Nodes, clock : Nat, past : SUBSET EventIds]
WireType ==
    /\ net \in [Nodes -> [Nodes -> Seq(HalfMessages)]]
    /\ bufs \in [Nodes -> [Nodes -> Seq(HalfMessages)]]
    /\ \A n, m \in Nodes : Len(bufs[n][m]) < 2
    /\ sent \in [Nodes -> [Nodes -> Seq(Nat)]]
QueueType ==
    /\ queue \in [Nodes -> Seq(Messages)]
    /\ got \in [Nodes -> [Nodes -> Seq(Messages)]]

LEMMA TypeParts == TypeOK <=> SetupType /\ ClockType /\ WireType /\ QueueType
BY DEF TypeOK, SetupType, ClockType, WireType, QueueType

LEMMA TypePartsNext == SetupType' /\ ClockType' /\ WireType' /\ QueueType' => TypeOK'
BY DEF TypeOK, SetupType, ClockType, WireType, QueueType

LEMMA OutsideType ==
  ASSUME SetupType, NEW n \in Nodes, Outside(n)
  PROVE  SetupType'
<1>1. CASE Listen(n)
  BY <1>1 DEF SetupType, Listen, Stages
<1>2. CASE ListenFails(n)
  BY <1>2 DEF SetupType, ListenFails, Stages
<1>3. CASE Accept(n)
  <2>1. Head(backlog[n]) \in Nodes /\ Tail(backlog[n]) \in Seq(Nodes)
    BY <1>3, HeadTailProperties DEF SetupType, Accept
  <2> QED BY <1>3, <2>1 DEF SetupType, Accept
<1>4. CASE Accepted(n)
  BY <1>4 DEF SetupType, Accepted, Stages
<1>5. CASE Run(n)
  BY <1>5 DEF SetupType, Run, Stages
<1>6. ASSUME NEW m \in Nodes, Connect(n, m) PROVE SetupType'
  <2>1. Append(backlog[m], n) \in Seq(Nodes)
    BY DEF SetupType
  <2>2. backlog' \in [Nodes -> Seq(Nodes)]
    BY <1>6, <2>1 DEF SetupType, Connect
  <2> QED BY <1>6, <2>2 DEF SetupType, Connect
<1>7. CASE Finish(n)
  BY <1>7 DEF SetupType, Finish, Running, Stages
<1>8. CASE Close(n)
  BY <1>8 DEF SetupType, Close, Stages
<1>9. CASE ReceiverStops(n)
  BY <1>9 DEF SetupType, ReceiverStops, setupVars
<1>10. ASSUME NEW m \in Nodes, Disconnect(n, m) PROVE SetupType'
  BY <1>10 DEF SetupType, Disconnect, setupVars
<1> QED
  BY <1>1, <1>2, <1>3, <1>4, <1>5, <1>6, <1>7, <1>8, <1>9, <1>10 DEF Outside, Setup

-----------------------------------------------------------------------------
(* What an iteration of the main loop and a receipt do to the other parts. *)
LEMMA IterateSetup ==
  ASSUME SetupType, NEW n \in Nodes, Inside(n)
  PROVE  SetupType'
<1>1. CASE Receive(n) \/ Internal(n) \/ Send(n)
  BY <1>1 DEF Receive, Internal, Send, setupVars, SetupType
<1>2. CASE SendDies(n)
  <2>1. stage[n] = "run" /\ stage' = [stage EXCEPT ![n] = "killed"]
        /\ receiver' = [receiver EXCEPT ![n] = "returned"]
        /\ UNCHANGED <<backlog, open>>
    BY <1>2 DEF SendDies, Tick, Running
  <2> QED BY <2>1 DEF SetupType, Stages
<1>3. ASSUME NEW m \in Nodes, NEW k \in 1 .. 2, ReceiveBytes(n, m, k) PROVE SetupType'
  BY <1>3 DEF ReceiveBytes, setupVars, SetupType
<1> QED BY <1>1, <1>2, <1>3 DEF Inside, Iterate

LEMMA KnowsType ==
  ASSUME ClockType, NEW n \in Nodes
  PROVE  /\ Knows(n) \in SUBSET EventIds
         /\ clock[n] + 1 \in Nat
         /\ past[n] \in SUBSET EventIds
         /\ KnownIsPast => \A d \in Knows(n) : d.clock <= clock[n] + 1
         /\ KnownIsPast => \A d \in past[n] : d.clock < clock[n] + 1
<1>1. clock[n] \in Nat /\ past[n] \in SUBSET EventIds
  BY DEF ClockType
<1>2. [rank |-> n, clock |-> clock[n] + 1] \in EventIds
  BY <1>1 DEF EventIds
<1>3. Knows(n) \in SUBSET EventIds
  BY <1>1, <1>2 DEF Knows
<1>4. ASSUME KnownIsPast, NEW d \in past[n] PROVE d.clock < clock[n] + 1
  BY <1>1, <1>4 DEF KnownIsPast, EventIds
<1>5. ASSUME KnownIsPast, NEW d \in Knows(n) PROVE d.clock <= clock[n] + 1
  <2>1. CASE d \in past[n]
    BY <1>1, <1>4, <1>5, <2>1 DEF EventIds
  <2>2. CASE d = [rank |-> n, clock |-> clock[n] + 1]
    BY <1>1, <2>2
  <2> QED BY <1>5, <2>1, <2>2 DEF Knows
<1> QED BY <1>1, <1>3, <1>4, <1>5

(* Internal and both forms of a send tick with what the process knows. *)
LEMMA SendTicks ==
  ASSUME NEW n \in Nodes, Internal(n) \/ Send(n) \/ SendDies(n)
  PROVE  Tick(n, clock[n] + 1, past[n]) /\ UNCHANGED <<queue, got>>
BY DEF Internal, Send, SendDies

LEMMA SendTransmits ==
  ASSUME NEW n \in Nodes, Send(n) \/ SendDies(n)
  PROVE  \E reached : Transmit(n, clock[n] + 1, Knows(n), reached)
BY DEF Send, SendDies

LEMMA HalvesAreHalves ==
  ASSUME NEW n \in Nodes, NEW c \in Nat, NEW before \in SUBSET EventIds
  PROVE  Halves(n, c, before) \in Seq(HalfMessages)
<1>1. [half |-> "rank", value |-> n, past |-> {}] \in HalfMessages
  BY TempusAssumption DEF HalfMessages, Nodes, EventIds
<1>2. [half |-> "time", value |-> c, past |-> before] \in HalfMessages
  BY DEF HalfMessages
<1> QED BY <1>1, <1>2 DEF Halves

(* The received timestamp and what came with it. *)
LEMMA ReceiveTicks ==
  ASSUME ClockType, QueueType, NEW n \in Nodes, Receive(n)
  PROVE  LET msg == Head(queue[n])
             c == Larger(clock[n], msg.logicalTimestamp) + 1
             before == past[n] \cup msg.past
         IN  /\ Tick(n, c, before) /\ c \in Nat /\ before \in SUBSET EventIds
             /\ (KnownIsPast /\ QueueHonest) => \A d \in before : d.clock < c
<1> DEFINE msg == Head(queue[n])
           c == Larger(clock[n], msg.logicalTimestamp) + 1
           before == past[n] \cup msg.past
<1>1. queue[n] # <<>> /\ Tick(n, c, before)
  BY DEF Receive
<1>2. msg \in Messages
  BY <1>1, HeadTailProperties DEF QueueType
<1>3. clock[n] \in Nat /\ past[n] \in SUBSET EventIds
      /\ msg.logicalTimestamp \in Nat /\ msg.past \in SUBSET EventIds
  BY <1>2 DEF ClockType, Messages
<1>4. c \in Nat /\ clock[n] < c /\ msg.logicalTimestamp < c
  BY <1>3 DEF Larger
<1>5. ASSUME KnownIsPast, QueueHonest, NEW d \in before PROVE d.clock < c
  <2>1. d.clock \in Nat
    BY <1>3 DEF EventIds
  <2>2. CASE d \in past[n]
    BY <1>3, <1>4, <1>5, <2>1, <2>2 DEF KnownIsPast
  <2>3. CASE d \in msg.past
    <3>1. msg \in HonestMessages
      BY <1>1, <1>5, HeadTailProperties DEF QueueHonest
    <3>2. d.clock <= msg.logicalTimestamp
      BY <2>3, <3>1 DEF HonestMessages
    <3> HIDE DEF c, msg
    <3> QED BY <1>3, <1>4, <2>1, <3>2
  <2> QED BY <2>2, <2>3
<1> QED BY <1>1, <1>3, <1>4, <1>5

LEMMA ReceiveShortens ==
  ASSUME NEW S, queue \in [Nodes -> Seq(S)], NEW n \in Nodes, Receive(n)
  PROVE  queue' \in [Nodes -> Seq(S)] /\ UNCHANGED <<wireVars, got>>
<1>1. Tail(queue[n]) \in Seq(S)
  BY HeadTailProperties DEF Receive
<1> QED BY <1>1 DEF Receive

(* A push appends a message made of what the buffer has. *)
LEMMA PushType ==
  ASSUME WireType, QueueType, NEW n \in Nodes, NEW m \in Nodes, NEW k \in 1 .. 2,
         ReceiveBytes(n, m, k)
  PROVE  QueueType' /\ (HalvesHonest /\ QueueHonest => QueueHonest')
<1> DEFINE have == bufs[n][m] \o SubSeq(net[m][n], 1, k)
<1>1. have \in Seq(HalfMessages)
  BY BytesType DEF WireType
<1>2. HalvesHonest => have \in Seq(Honest)
  BY BytesType DEF WireType, HalvesHonest
<1>3. CASE Len(have) # 2
  <2>1. UNCHANGED <<queue, got>>
    BY <1>3 DEF ReceiveBytes
  <2> QED BY <2>1 DEF QueueType, QueueHonest
<1>4. CASE Len(have) = 2
  <2>1. /\ queue' = [queue EXCEPT ![n] = Append(@, Message(have))]
        /\ got' = [got EXCEPT ![n][m] = Append(@, Message(have))]
    BY <1>4 DEF ReceiveBytes
  <2> DEFINE msg == Message(have)
  <2>2. msg \in Messages /\ (HalvesHonest => msg \in HonestMessages)
    BY <1>1, <1>2, <1>4, MessageType
  <2> HIDE DEF msg, have
  <2>3. queue' = [queue EXCEPT ![n] = Append(@, msg)]
        /\ got' = [got EXCEPT ![n][m] = Append(@, msg)]
    BY <2>1 DEF msg
  <2>4. ASSUME NEW S, queue \in [Nodes -> Seq(S)], msg \in S
        PROVE  queue' \in [Nodes -> Seq(S)]
    <3>1. Append(queue[n], msg) \in Seq(S)
      BY <2>4
    <3> QED BY <2>3, <2>4, <3>1
  <2>5. got' \in [Nodes -> [Nodes -> Seq(Messages)]]
    <3>1. Append(got[n][m], msg) \in Seq(Messages)
      BY <2>2 DEF QueueType
    <3> QED BY <2>3, <3>1 DEF QueueType
  <2>6. QueueType'
    BY <2>2, <2>4, <2>5 DEF QueueType
  <2>7. HalvesHonest /\ QueueHonest => QueueHonest'
    BY <2>2, <2>4 DEF QueueHonest
  <2> QED BY <2>6, <2>7
<1> QED BY <1>3, <1>4

-----------------------------------------------------------------------------
LEMMA TypeInit == ASSUME Init PROVE TypeOK
BY DEF Init, TypeOK, Stages, EventIds, HalfMessages, Messages

LEMMA TypeStep == ASSUME TypeOK, [Next]_vars PROVE TypeOK'
<1>0. SetupType /\ ClockType /\ WireType /\ QueueType
  BY TypeParts
<1>1. CASE UNCHANGED vars
  BY <1>1 DEF TypeOK, vars, setupVars, clockVars, wireVars
<1>2. ASSUME NEW n \in Nodes, Outside(n) PROVE TypeOK'
  <2>1. SetupType'
    BY <1>0, <1>2, OutsideType
  <2>2. ClockType' /\ WireType' /\ QueueType'
    BY <1>0, <1>2, OutsideMovesNothing
    DEF ClockType, WireType, QueueType, clockVars, wireVars
  <2> QED BY <2>1, <2>2, TypePartsNext
<1>3. ASSUME NEW n \in Nodes, Inside(n) PROVE TypeOK'
  <2>1. SetupType'
    BY <1>0, <1>3, IterateSetup
  <2>2. CASE Receive(n)
    <3>1. ClockType'
      BY <1>0, <2>2, ReceiveTicks, TickType DEF ClockType
    <3>2. WireType' /\ QueueType'
      BY <1>0, <2>2, ReceiveShortens DEF WireType, QueueType, wireVars
    <3> QED BY <2>1, <3>1, <3>2, TypePartsNext
  <2>3. CASE Internal(n) \/ Send(n) \/ SendDies(n)
    <3>1. ClockType'
      BY <1>0, <2>3, SendTicks, KnowsType, TickType DEF ClockType
    <3>2. QueueType'
      BY <1>0, <2>3, SendTicks DEF QueueType
    <3>3. CASE Internal(n)
      <4>1. WireType'
        BY <1>0, <3>3 DEF Internal, WireType, wireVars
      <4> QED BY <2>1, <3>1, <3>2, <4>1, TypePartsNext
    <3>4. CASE Send(n) \/ SendDies(n)
      <4>1. PICK reached : Transmit(n, clock[n] + 1, Knows(n), reached)
        BY <3>4, SendTransmits
      <4>2. Halves(n, clock[n] + 1, Knows(n)) \in Seq(HalfMessages)
        BY <1>0, KnowsType, HalvesAreHalves
      <4>3. /\ net' \in [Nodes -> [Nodes -> Seq(HalfMessages)]]
            /\ sent' \in [Nodes -> [Nodes -> Seq(Nat)]]
        BY <1>0, <4>1, <4>2, KnowsType, TransmitType DEF WireType
      <4>4. WireType'
        BY <1>0, <4>1, <4>3 DEF WireType, Transmit
      <4> QED BY <2>1, <3>1, <3>2, <4>4, TypePartsNext
    <3> QED BY <2>3, <3>3, <3>4
  <2>4. ASSUME NEW m \in Nodes, NEW k \in 1 .. 2, ReceiveBytes(n, m, k) PROVE TypeOK'
    <3>1. UNCHANGED <<clockVars, sent>>
      BY <2>4 DEF ReceiveBytes
    <3>2. WireType'
      BY <1>0, <2>4, <3>1, BytesType DEF WireType
    <3>3. QueueType'
      BY <1>0, <2>4, PushType
    <3>4. ClockType'
      BY <1>0, <3>1 DEF ClockType, clockVars
    <3> QED BY <2>1, <3>2, <3>3, <3>4, TypePartsNext
  <2> QED BY <1>3, <2>2, <2>3, <2>4 DEF Inside, Iterate
<1> QED BY <1>1, <1>2, <1>3, TwoKindsOfStep

(* Every variable keeps its range, for any number of processes. *)
THEOREM TypeCorrect == Spec => []TypeOK
<1>1. Init => TypeOK
  BY TypeInit
<1>2. TypeOK /\ [Next]_vars => TypeOK'
  BY TypeStep
<1> QED BY <1>1, <1>2, PTL DEF Spec

-----------------------------------------------------------------------------
LEMMA InvInit == ASSUME Init PROVE Inv
<1>1. KnownIsPast /\ HalvesHonest /\ QueueHonest /\ ClockCondition
  BY DEF Init, KnownIsPast, HalvesHonest, QueueHonest, ClockCondition
<1> QED BY <1>1, TypeInit DEF Inv

LEMMA InvStep == ASSUME Inv, [Next]_vars PROVE Inv'
<1>0. /\ TypeOK /\ KnownIsPast /\ HalvesHonest /\ QueueHonest /\ ClockCondition
      /\ SetupType /\ ClockType /\ WireType /\ QueueType
  BY TypeParts DEF Inv
<1>t. TypeOK'
  BY <1>0, TypeStep
<1> SUFFICES KnownIsPast' /\ HalvesHonest' /\ QueueHonest' /\ ClockCondition'
  BY <1>t DEF Inv
<1>1. CASE UNCHANGED vars
  BY <1>0, <1>1 DEF vars, clockVars, wireVars, KnownIsPast, HalvesHonest,
                    QueueHonest, ClockCondition
<1>2. ASSUME NEW n \in Nodes, Outside(n)
      PROVE  KnownIsPast' /\ HalvesHonest' /\ QueueHonest' /\ ClockCondition'
  BY <1>0, <1>2, OutsideMovesNothing
  DEF clockVars, wireVars, KnownIsPast, HalvesHonest, QueueHonest, ClockCondition
<1>3. ASSUME NEW n \in Nodes, Inside(n)
      PROVE  KnownIsPast' /\ HalvesHonest' /\ QueueHonest' /\ ClockCondition'
  <2>1. CASE Receive(n)
    <3>1. KnownIsPast' /\ ClockCondition'
      BY <1>0, <2>1, ReceiveTicks, TickInv
    <3>2. HalvesHonest' /\ QueueHonest'
      BY <1>0, <2>1, ReceiveShortens DEF HalvesHonest, QueueHonest, wireVars
    <3> QED BY <3>1, <3>2
  <2>2. CASE Internal(n) \/ Send(n) \/ SendDies(n)
    <3>1. KnownIsPast' /\ ClockCondition'
      BY <1>0, <2>2, SendTicks, KnowsType, TickInv
    <3>2. QueueHonest'
      BY <1>0, <2>2, SendTicks DEF QueueHonest
    <3>3. CASE Internal(n)
      BY <1>0, <3>1, <3>2, <3>3 DEF Internal, HalvesHonest, wireVars
    <3>4. CASE Send(n) \/ SendDies(n)
      <4>1. PICK reached : Transmit(n, clock[n] + 1, Knows(n), reached)
        BY <3>4, SendTransmits
      <4>2. Halves(n, clock[n] + 1, Knows(n)) \in Seq(Honest)
        BY <1>0, KnowsType, HalvesType
      <4>3. net' \in [Nodes -> [Nodes -> Seq(Honest)]]
        BY <1>0, <4>1, <4>2, KnowsType, TransmitType DEF HalvesHonest, WireType
      <4>4. HalvesHonest'
        BY <1>0, <4>1, <4>3 DEF HalvesHonest, Transmit
      <4> QED BY <3>1, <3>2, <4>4
    <3> QED BY <2>2, <3>3, <3>4
  <2>3. ASSUME NEW m \in Nodes, NEW k \in 1 .. 2, ReceiveBytes(n, m, k)
        PROVE  KnownIsPast' /\ HalvesHonest' /\ QueueHonest' /\ ClockCondition'
    <3>1. UNCHANGED clockVars
      BY <2>3 DEF ReceiveBytes
    <3>2. KnownIsPast' /\ ClockCondition'
      BY <1>0, <3>1 DEF KnownIsPast, ClockCondition, clockVars
    <3>3. HalvesHonest'
      BY <1>0, <2>3, BytesType DEF HalvesHonest, WireType
    <3>4. QueueHonest'
      BY <1>0, <2>3, PushType
    <3> QED BY <3>2, <3>3, <3>4
  <2> QED BY <1>3, <2>1, <2>2, <2>3 DEF Inside, Iterate
<1> QED BY <1>1, <1>2, <1>3, TwoKindsOfStep

(* Lamport's clock condition: along any chain of messages between any number *)
(* of processes, whatever happened before has the smaller clock.             *)
THEOREM ClockCorrect == Spec => []ClockCondition
<1>1. Init => Inv
  BY InvInit
<1>2. Inv /\ [Next]_vars => Inv'
  BY InvStep
<1>3. Inv => ClockCondition
  BY DEF Inv
<1> QED BY <1>1, <1>2, <1>3, PTL DEF Spec

-----------------------------------------------------------------------------
(* What is on its way from m, in the socket and in the buffer, are the halves *)
(* of the messages that m sent and n has not pushed, in order.               *)
Coming(q, m, s, g) ==
    /\ Len(g) <= Len(s) /\ Len(q) = 2 * (Len(s) - Len(g))
    /\ \A j \in 1 .. Len(s) - Len(g) :
           q[2 * j - 1].value = m /\ q[2 * j].value = s[Len(g) + j]

(* What n pushed is where m's messages start. *)
Pushed(m, s, g) ==
    \A i \in 1 .. Len(g) : g[i].senderRank = m /\ g[i].logicalTimestamp = s[i]

Between(n, m) == bufs[n][m] \o net[m][n]

WireOrder ==
    \A n, m \in Nodes :
        /\ Coming(Between(n, m), m, sent[m][n], got[n][m])
        /\ Pushed(m, sent[m][n], got[n][m])

\* The places of a message's halves among all.
LEMMA Places ==
  ASSUME NEW a \in Nat, NEW b \in Nat, NEW j \in 1 .. a - b
  PROVE  /\ b + j \in 1 .. a
         /\ 2 * j - 1 \in 1 .. 2 * (a - b) /\ 2 * j \in 1 .. 2 * (a - b)
OBVIOUS

\* What t has that s has not is at its end.
Longer(t, s, k) == Len(t) = Len(s) + k /\ \A i \in 1 .. Len(s) : t[i] = s[i]

\* A message that is sent comes last.
LEMMA SendComing ==
  ASSUME NEW q, NEW s, NEW g, NEW m, NEW r, NEW t,
         Len(q) \in Nat, Len(s) \in Nat, Len(g) \in Nat,
         Longer(r, q, 2), Longer(t, s, 1),
         r[Len(q) + 1].value = m, r[Len(q) + 2].value = t[Len(s) + 1],
         Coming(q, m, s, g), Pushed(m, s, g)
  PROVE  Coming(r, m, t, g) /\ Pushed(m, t, g)
<1>1. /\ Len(g) <= Len(s) /\ Len(q) = 2 * (Len(s) - Len(g))
      /\ Len(r) = Len(q) + 2 /\ \A i \in 1 .. Len(q) : r[i] = q[i]
      /\ Len(t) = Len(s) + 1 /\ \A i \in 1 .. Len(s) : t[i] = s[i]
  BY DEF Coming, Longer
<1>2. ASSUME NEW j \in 1 .. Len(t) - Len(g)
      PROVE  r[2 * j - 1].value = m /\ r[2 * j].value = t[Len(g) + j]
  <2>1. CASE j = Len(t) - Len(g)
    <3>1. j = Len(s) + 1 - Len(g)
      BY <1>1, <2>1
    <3>2. 2 * j - 1 = Len(q) + 1 /\ 2 * j = Len(q) + 2
      BY <1>1, <3>1
    <3>3. Len(g) + j = Len(s) + 1
      BY <3>1
    <3> QED BY <3>2, <3>3
  <2>2. CASE j # Len(t) - Len(g)
    <3>1. j \in 1 .. Len(s) - Len(g)
      <4>1. PICK a \in Nat : a = Len(s)
        OBVIOUS
      <4>2. PICK d \in Nat : d = Len(g)
        OBVIOUS
      <4>3. j \in 1 .. (a + 1) - d /\ j # (a + 1) - d
        BY <1>1, <2>2, <4>1, <4>2
      <4>4. j \in 1 .. a - d
        BY <4>3
      <4> QED BY <4>1, <4>2, <4>4
    <3>2. /\ Len(g) + j \in 1 .. Len(s)
          /\ 2 * j - 1 \in 1 .. Len(q) /\ 2 * j \in 1 .. Len(q)
      BY <1>1, <3>1, Places
    <3>3. q[2 * j - 1].value = m /\ q[2 * j].value = s[Len(g) + j]
      BY <3>1 DEF Coming
    <3> QED BY <1>1, <3>2, <3>3
  <2> QED BY <2>1, <2>2
<1>3. Coming(r, m, t, g)
  BY <1>1, <1>2 DEF Coming
<1>4. Pushed(m, t, g)
  BY <1>1 DEF Pushed
<1> QED BY <1>3, <1>4

\* The two halves that come first are the next message.
LEMMA PushComing ==
  ASSUME NEW q \in Seq(HalfMessages), NEW s \in Seq(Nat), NEW g \in Seq(Messages),
         NEW m \in Nodes, NEW msg \in Messages, NEW r, Len(q) >= 2,
         msg.senderRank = q[1].value, msg.logicalTimestamp = q[2].value,
         Len(r) = Len(q) - 2, \A i \in 1 .. Len(q) - 2 : r[i] = q[i + 2],
         Coming(q, m, s, g), Pushed(m, s, g)
  PROVE  /\ Coming(r, m, s, Append(g, msg))
         /\ Pushed(m, s, Append(g, msg))
<1> DEFINE f == Append(g, msg)
<1>1. /\ Len(s) \in Nat /\ Len(g) \in Nat /\ Len(q) \in Nat
      /\ Len(g) < Len(s) /\ Len(q) = 2 * (Len(s) - Len(g))
  BY DEF Coming
<1>2. /\ Len(f) = Len(g) + 1 /\ \A i \in 1 .. Len(g) : f[i] = g[i]
      /\ f[Len(g) + 1] = msg
  BY AppendProperties
<1> HIDE DEF f
<1>3. q[1].value = m /\ q[2].value = s[Len(g) + 1]
  <2>1. 1 \in 1 .. Len(s) - Len(g)
    BY <1>1
  <2>2. q[2 * 1 - 1].value = m /\ q[2 * 1].value = s[Len(g) + 1]
    BY <2>1 DEF Coming
  <2> QED BY <2>2
<1>4. ASSUME NEW j \in 1 .. Len(s) - Len(f)
      PROVE  r[2 * j - 1].value = m /\ r[2 * j].value = s[Len(f) + j]
  <2>1. /\ j + 1 \in 1 .. Len(s) - Len(g) /\ Len(f) + j = Len(g) + (j + 1)
        /\ 2 * j - 1 \in 1 .. Len(q) - 2 /\ 2 * j \in 1 .. Len(q) - 2
        /\ (2 * j - 1) + 2 = 2 * (j + 1) - 1 /\ 2 * j + 2 = 2 * (j + 1)
    BY <1>1, <1>2
  <2>2. q[2 * (j + 1) - 1].value = m /\ q[2 * (j + 1)].value = s[Len(g) + (j + 1)]
    BY <2>1 DEF Coming
  <2> QED BY <2>1, <2>2
<1>5. Coming(r, m, s, f)
  BY <1>1, <1>2, <1>4 DEF Coming
<1>6. Pushed(m, s, f)
  <2> SUFFICES ASSUME NEW i \in 1 .. Len(f)
               PROVE  f[i].senderRank = m /\ f[i].logicalTimestamp = s[i]
    BY DEF Pushed
  <2>1. i \in 1 .. Len(g) + 1
    BY <1>2
  <2>2. CASE i = Len(g) + 1
    BY <1>2, <1>3, <2>2
  <2>3. CASE i # Len(g) + 1
    <3>1. i \in 1 .. Len(g)
      BY <1>1, <2>1, <2>3
    <3> QED BY <1>2, <3>1 DEF Pushed
  <2> QED BY <2>2, <2>3
<1> QED BY <1>5, <1>6 DEF f

\* Concatenation is associative.
LEMMA Associative ==
  ASSUME NEW S, NEW b \in Seq(S), NEW u \in Seq(S), NEW v \in Seq(S),
         NEW x, x = b \o u, NEW y, y = u \o v
  PROVE  x \o v = b \o y
<1>1. x \in Seq(S) /\ Len(x) = Len(b) + Len(u) /\ y \in Seq(S) /\ Len(y) = Len(u) + Len(v)
  BY ConcatProperties
<1>2. x \o v \in Seq(S) /\ b \o y \in Seq(S)
  BY <1>1, ConcatProperties
<1>3. Len(x \o v) = Len(b \o y)
  BY <1>1
<1>4. \A i \in 1 .. Len(x \o v) : (x \o v)[i] = (b \o y)[i]
  OBVIOUS
<1> QED BY <1>2, <1>3, <1>4, SeqEqual

\* Taking the first of what is in the socket to the buffer moves nothing.
Cut(q, have, rest, b, w, k) ==
    /\ have = b \o SubSeq(w, 1, k) /\ rest = SubSeq(w, k + 1, Len(w))
    /\ q = b \o w

LEMMA SplitConcat ==
  ASSUME NEW S, NEW b \in Seq(S), NEW w \in Seq(S), NEW k \in 1 .. Len(w),
         NEW have, NEW rest, NEW q, Cut(q, have, rest, b, w, k)
  PROVE  /\ have \in Seq(S) /\ rest \in Seq(S) /\ have \o rest = q
         /\ Len(have) = Len(b) + k /\ Len(rest) = Len(w) - k
         /\ \A i \in 1 .. Len(b) + k : have[i] = q[i]
         /\ \A i \in 1 .. Len(w) - k : rest[i] = q[i + Len(b) + k]
<1>1. /\ k \in Int /\ Len(w) \in Nat /\ Len(b) \in Nat /\ 1 <= k /\ k <= Len(w)
      /\ \A i \in 1 .. Len(w) : w[i] \in S
  BY LenProperties, ElementOfSeq
<1>2. PICK x : x = SubSeq(w, 1, k)
  OBVIOUS
<1>3. x \in Seq(S) /\ Len(x) = k /\ \A i \in 1 .. k : x[i] = w[i]
  BY <1>1, <1>2, SubSeqProperties
<1>4. rest \in Seq(S) /\ Len(rest) = Len(w) - k
  <2>1. \A i \in k + 1 .. Len(w) : w[i] \in S
    BY <1>1
  <2>2. /\ rest \in Seq(S)
        /\ Len(rest) = IF k + 1 <= Len(w) THEN Len(w) - (k + 1) + 1 ELSE 0
    BY <1>1, <2>1, SubSeqProperties DEF Cut
  <2> QED BY <1>1, <2>2
<1>5. w = x \o rest
  BY <1>1, <1>2, ConcatAdjacentSubSeq, SubSeqFull DEF Cut
<1>6. have = b \o x /\ q = b \o w
  BY <1>2 DEF Cut
<1>7. have \o rest = q
  <2>1. x \in Seq(S) /\ rest \in Seq(S)
    BY <1>3, <1>4
  <2> QED BY <1>5, <1>6, <2>1, Associative
<1>8. have \in Seq(S) /\ Len(have) = Len(b) + k
  BY <1>3, <1>6, ConcatProperties
<1>9. \A i \in 1 .. (Len(b) + k) + (Len(w) - k) :
           q[i] = IF i <= Len(b) + k THEN have[i] ELSE rest[i - (Len(b) + k)]
  <2>1. \A i \in 1 .. Len(have) + Len(rest) :
            (have \o rest)[i] = IF i <= Len(have) THEN have[i] ELSE rest[i - Len(have)]
    BY <1>4, <1>8, ConcatProperties
  <2> QED BY <1>4, <1>7, <1>8, <2>1
<1>10. \A i \in 1 .. Len(b) + k : have[i] = q[i]
  BY <1>1, <1>9
<1>11. \A i \in 1 .. Len(w) - k : rest[i] = q[i + Len(b) + k]
  <2> SUFFICES ASSUME NEW i \in 1 .. Len(w) - k PROVE rest[i] = q[i + Len(b) + k]
    OBVIOUS
  <2>1. /\ i + Len(b) + k \in 1 .. (Len(b) + k) + (Len(w) - k)
        /\ ~(i + Len(b) + k <= Len(b) + k)
        /\ (i + Len(b) + k) - (Len(b) + k) = i
    BY <1>1
  <2> QED BY <1>9, <2>1
<1> QED BY <1>4, <1>7, <1>8, <1>10, <1>11

\* Nothing is on its way at first.
LEMMA InitWire ==
  ASSUME Init PROVE WireOrder
<1> SUFFICES ASSUME NEW n \in Nodes, NEW m \in Nodes
             PROVE  /\ Coming(Between(n, m), m, sent[m][n], got[n][m])
                    /\ Pushed(m, sent[m][n], got[n][m])
  BY DEF WireOrder
<1>1. bufs[n][m] = <<>> /\ net[m][n] = <<>> /\ sent[m][n] = <<>> /\ got[n][m] = <<>>
  BY DEF Init
<1>2. Len(Between(n, m)) = 0 /\ Len(sent[m][n]) = 0 /\ Len(got[n][m]) = 0
  BY <1>1 DEF Between
<1> QED BY <1>2 DEF Coming, Pushed

\* A send adds its halves behind what is on its way to each target, and its
\* timestamp to what was sent there.
LEMMA TransmitOrder ==
  ASSUME TypeOK, WireOrder, NEW x \in Nodes, NEW reached,
         Transmit(x, clock[x] + 1, Knows(x), reached), UNCHANGED got
  PROVE  WireOrder'
<1> SUFFICES ASSUME NEW n \in Nodes, NEW m \in Nodes
             PROVE  /\ Coming(Between(n, m)', m, sent'[m][n], got[n][m])
                    /\ Pushed(m, sent'[m][n], got[n][m])
  BY DEF WireOrder
<1>1. /\ Coming(Between(n, m), m, sent[m][n], got[n][m])
      /\ Pushed(m, sent[m][n], got[n][m])
  BY DEF WireOrder
<1>2. PICK c \in Nat : c = clock[x] + 1
  BY DEF TypeOK
<1>3. Between(n, m)' = bufs[n][m] \o net'[m][n]
  BY DEF Between, Transmit
<1>4. CASE m = x /\ n \in reached
  <2>1. PICK h : h = Halves(m, c, Knows(m))
    OBVIOUS
  <2>2. /\ h \in Seq(HalfMessages) /\ Len(h) = 2
        /\ h[1].value = m /\ h[2].value = c
    <3>1. Knows(m) \in SUBSET EventIds
      BY KnowsType, TypeParts
    <3> QED BY <2>1, <3>1, HalvesAreHalves DEF Halves
  <2>3. net'[m][n] = net[m][n] \o h /\ sent'[m][n] = Append(sent[m][n], c)
    BY <1>2, <1>4, <2>1 DEF Transmit, TypeOK
  <2>4. /\ net[m][n] \in Seq(HalfMessages) /\ bufs[n][m] \in Seq(HalfMessages)
        /\ sent[m][n] \in Seq(Nat) /\ got[n][m] \in Seq(Messages)
    BY DEF TypeOK
  <2>5. PICK q : q = Between(n, m)
    OBVIOUS
  <2>6. q \in Seq(HalfMessages) /\ Between(n, m)' = q \o h
    <3>1. PICK y : y = net[m][n] \o h
      OBVIOUS
    <3>2. q = bufs[n][m] \o net[m][n]
      BY <2>5 DEF Between
    <3>3. q \o h = bufs[n][m] \o y
      <4>1. PICK b : b = bufs[n][m]
        OBVIOUS
      <4>2. PICK w : w = net[m][n]
        OBVIOUS
      <4>3. /\ b \in Seq(HalfMessages) /\ w \in Seq(HalfMessages)
            /\ h \in Seq(HalfMessages) /\ q = b \o w /\ y = w \o h
        BY <2>2, <2>4, <3>1, <3>2, <4>1, <4>2
      <4>4. q \o h = b \o y
        BY <4>3, Associative
      <4> QED BY <4>1, <4>4
    <3>4. q \in Seq(HalfMessages)
      BY <2>4, <3>2, ConcatProperties
    <3> QED BY <1>3, <2>3, <3>1, <3>3, <3>4
  <2>7. PICK r : r = q \o h
    OBVIOUS
  <2>8. /\ Len(q) \in Nat /\ Len(r) = Len(q) + 2 /\ \A i \in 1 .. Len(q) : r[i] = q[i]
        /\ r[Len(q) + 1].value = m /\ r[Len(q) + 2].value = c
    <3>1. /\ Len(r) = Len(q) + Len(h) /\ Len(q) \in Nat
          /\ \A i \in 1 .. Len(q) + Len(h) :
                 r[i] = IF i <= Len(q) THEN q[i] ELSE h[i - Len(q)]
      <4>1. q \in Seq(HalfMessages) /\ h \in Seq(HalfMessages)
        BY <2>2, <2>6
      <4> QED BY <2>7, <4>1, ConcatProperties
    <3>2. \A i \in 1 .. Len(q) : r[i] = q[i]
      BY <2>2, <3>1
    <3>3. r[Len(q) + 1] = h[1] /\ r[Len(q) + 2] = h[2]
      BY <2>2, <3>1
    <3> QED BY <2>2, <3>1, <3>2, <3>3
  <2>9. PICK s : s = sent[m][n]
    OBVIOUS
  <2>10. PICK t : t = Append(s, c)
    OBVIOUS
  <2>11. /\ Len(s) \in Nat /\ Len(t) = Len(s) + 1 /\ t[Len(s) + 1] = c
         /\ \A i \in 1 .. Len(s) : t[i] = s[i]
    BY <2>4, <2>9, <2>10, AppendProperties
  <2>12. Len(got[n][m]) \in Nat
    BY <2>4
  <2>13. Coming(q, m, s, got[n][m]) /\ Pushed(m, s, got[n][m])
    BY <1>1, <2>5, <2>9
  <2>14. Coming(r, m, t, got[n][m]) /\ Pushed(m, t, got[n][m])
    <3>1. PICK g : g = got[n][m]
      OBVIOUS
    <3>2. Longer(r, q, 2) /\ Longer(t, s, 1)
      BY <2>8, <2>11 DEF Longer
    <3>3. r[Len(q) + 1].value = m /\ r[Len(q) + 2].value = t[Len(s) + 1]
      BY <2>8, <2>11
    <3>4. /\ Len(q) \in Nat /\ Len(s) \in Nat /\ Len(g) \in Nat
          /\ Coming(q, m, s, g) /\ Pushed(m, s, g)
      BY <2>8, <2>11, <2>12, <2>13, <3>1
    <3>5. Coming(r, m, t, g) /\ Pushed(m, t, g)
      BY <3>2, <3>3, <3>4, SendComing
    <3> QED BY <3>1, <3>5
  <2> QED BY <2>3, <2>6, <2>7, <2>9, <2>10, <2>14
<1>5. CASE ~(m = x /\ n \in reached)
  <2>1. net'[m][n] = net[m][n] /\ sent'[m][n] = sent[m][n]
    BY <1>5 DEF Transmit, TypeOK
  <2> QED BY <1>1, <1>3, <2>1 DEF Between
<1> QED BY <1>4, <1>5

\* A receipt moves halves to the buffer; when that makes a message, it is the
\* first one that was on its way.
LEMMA ReceiptOrder ==
  ASSUME TypeOK, WireOrder, NEW x \in Nodes, NEW y \in Nodes, NEW k \in 1 .. 2,
         ReceiveBytes(x, y, k)
  PROVE  WireOrder'
<1> SUFFICES ASSUME NEW n \in Nodes, NEW m \in Nodes
             PROVE  /\ Coming(Between(n, m)', m, sent[m][n], got'[n][m])
                    /\ Pushed(m, sent[m][n], got'[n][m])
  BY DEF WireOrder, ReceiveBytes
<1>1. /\ Coming(Between(n, m), m, sent[m][n], got[n][m])
      /\ Pushed(m, sent[m][n], got[n][m])
  BY DEF WireOrder
<1>2. CASE n = x /\ m = y
  <2>1. PICK b : b = bufs[n][m]
    OBVIOUS
  <2>2. PICK w : w = net[m][n]
    OBVIOUS
  <2>3. b \in Seq(HalfMessages) /\ w \in Seq(HalfMessages)
    BY <2>1, <2>2 DEF TypeOK
  <2>4. PICK have : have = b \o SubSeq(w, 1, k)
    OBVIOUS
  <2>5. PICK rest : rest = SubSeq(w, k + 1, Len(w))
    OBVIOUS
  <2>6. k \in 1 .. Len(w) /\ Len(have) <= 2
    BY <1>2, <2>1, <2>2, <2>4 DEF ReceiveBytes
  <2>7. PICK q : q = b \o w
    OBVIOUS
  <2>8. /\ q \in Seq(HalfMessages) /\ Len(q) = Len(b) + Len(w)
        /\ Len(b) \in Nat /\ Len(w) \in Nat
    BY <2>3, <2>7, ConcatProperties
  <2>9. /\ have \in Seq(HalfMessages) /\ rest \in Seq(HalfMessages)
        /\ have \o rest = q /\ Len(have) = Len(b) + k /\ Len(rest) = Len(w) - k
        /\ \A i \in 1 .. Len(b) + k : have[i] = q[i]
        /\ \A i \in 1 .. Len(w) - k : rest[i] = q[i + Len(b) + k]
    <3>1. k \in 1 .. Len(w) /\ Cut(q, have, rest, b, w, k)
      BY <2>4, <2>5, <2>6, <2>7 DEF Cut
    <3> QED BY <2>3, <3>1, SplitConcat
  <2>10. net'[m][n] = rest
    <3>1. net' = [net EXCEPT ![y][x] = SubSeq(@, k + 1, Len(@))]
      BY DEF ReceiveBytes
    <3> QED BY <1>2, <2>2, <2>5, <3>1 DEF TypeOK
  <2>11. bufs'[n][m] = IF Len(have) = 2 THEN <<>> ELSE have
    <3>1. bufs' = [bufs EXCEPT ![x][y] = IF Len(have) = 2 THEN <<>> ELSE have]
      BY <1>2, <2>1, <2>2, <2>4 DEF ReceiveBytes
    <3> QED BY <1>2, <3>1 DEF TypeOK
  <2>12. Coming(q, m, sent[m][n], got[n][m])
    BY <1>1, <2>1, <2>2, <2>7 DEF Between
  <2>13. CASE Len(have) = 2
    <3>1. Between(n, m)' = rest
      <4>1. Between(n, m)' = <<>> \o rest
        BY <2>10, <2>11, <2>13 DEF Between
      <4> QED BY <2>9, <4>1
    <3>2. PICK msg : msg = Message(have)
      OBVIOUS
    <3>3. msg \in Messages
      BY <2>9, <2>13, <3>2, MessageType
    <3>4. /\ Len(b) + k = 2 /\ Len(q) >= 2 /\ Len(rest) = Len(q) - 2
          /\ Len(w) - k = Len(q) - 2
      <4>1. PICK a \in Nat : a = Len(b)
        BY <2>8
      <4>2. PICK d \in Nat : d = Len(w)
        BY <2>8
      <4>3. a + k = 2 /\ k <= d /\ Len(q) = a + d /\ Len(rest) = d - k
        <5>1. Len(have) = Len(b) + k /\ Len(rest) = Len(w) - k
          BY <2>9
        <5>2. a + k = 2
          BY <2>13, <4>1, <5>1
        <5>3. Len(rest) = d - k
          BY <4>2, <5>1
        <5>4. Len(q) = a + d
          BY <2>8, <4>1, <4>2
        <5>5. k <= d
          BY <2>6, <4>2
        <5> QED BY <5>2, <5>3, <5>4, <5>5
      <4>4. a + d >= 2 /\ d - k = (a + d) - 2
        BY <4>3
      <4> QED BY <4>1, <4>2, <4>3, <4>4
    <3>5. have[1] = q[1] /\ have[2] = q[2]
      BY <2>9, <3>4
    <3>6. msg.senderRank = q[1].value /\ msg.logicalTimestamp = q[2].value
      BY <3>2, <3>5 DEF Message
    <3>7. \A i \in 1 .. Len(q) - 2 : rest[i] = q[i + 2]
      <4> SUFFICES ASSUME NEW i \in 1 .. Len(q) - 2 PROVE rest[i] = q[i + 2]
        OBVIOUS
      <4>1. i + Len(b) + k = i + 2 /\ i \in 1 .. Len(w) - k
        BY <2>8, <3>4
      <4> QED BY <2>9, <4>1
    <3>8. sent[m][n] \in Seq(Nat) /\ got[n][m] \in Seq(Messages)
      BY DEF TypeOK
    <3>9. got'[n][m] = Append(got[n][m], msg)
      <4>1. got' = [got EXCEPT ![x][y] = Append(@, msg)]
        BY <1>2, <2>1, <2>2, <2>4, <2>13, <3>2 DEF ReceiveBytes
      <4> QED BY <1>2, <4>1 DEF TypeOK
    <3>10. /\ Coming(rest, m, sent[m][n], Append(got[n][m], msg))
           /\ Pushed(m, sent[m][n], Append(got[n][m], msg))
      BY <1>1, <2>8, <2>12, <3>3, <3>4, <3>6, <3>7, <3>8, PushComing
    <3> QED BY <3>1, <3>9, <3>10
  <2>14. CASE Len(have) # 2
    <3>1. got' = got
      BY <1>2, <2>1, <2>2, <2>4, <2>14 DEF ReceiveBytes
    <3>2. Between(n, m)' = q
      BY <2>9, <2>10, <2>11, <2>14 DEF Between
    <3> QED BY <1>1, <2>12, <3>1, <3>2
  <2> QED BY <2>13, <2>14
<1>3. CASE ~(n = x /\ m = y)
  <2>1. /\ net' = [net EXCEPT ![y][x] = SubSeq(@, k + 1, Len(@))]
        /\ \E keep : bufs' = [bufs EXCEPT ![x][y] = keep]
        /\ \/ UNCHANGED got
           \/ \E msg : got' = [got EXCEPT ![x][y] = Append(@, msg)]
    BY DEF ReceiveBytes
  <2>2. net'[m][n] = net[m][n]
    <3>1. net \in [Nodes -> [Nodes -> Seq(HalfMessages)]]
      BY DEF TypeOK
    <3> QED BY <1>3, <2>1, <3>1
  <2>3. bufs'[n][m] = bufs[n][m]
    <3>1. bufs \in [Nodes -> [Nodes -> Seq(HalfMessages)]]
      BY DEF TypeOK
    <3> QED BY <1>3, <2>1, <3>1
  <2>4. got'[n][m] = got[n][m]
    <3>1. got \in [Nodes -> [Nodes -> Seq(Messages)]]
      BY DEF TypeOK
    <3> QED BY <1>3, <2>1, <3>1
  <2> QED BY <1>1, <2>2, <2>3, <2>4 DEF Between
<1> QED BY <1>2, <1>3

\* The wire keeps the order through every step.
LEMMA WireStep ==
  ASSUME TypeOK, WireOrder, [Next]_vars PROVE WireOrder'
<1>1. ASSUME UNCHANGED <<wireVars, got>> PROVE WireOrder'
  BY <1>1 DEF WireOrder, Between, wireVars
<1>2. ASSUME NEW n \in Nodes, Outside(n) PROVE WireOrder'
  BY <1>1, <1>2, OutsideMovesNothing
<1>3. ASSUME NEW n \in Nodes, Inside(n) PROVE WireOrder'
  <2>1. CASE Receive(n) \/ Internal(n)
    BY <1>1, <2>1 DEF Receive, Internal
  <2>2. CASE Send(n) \/ SendDies(n)
    BY <2>2, SendTicks, SendTransmits, TransmitOrder
  <2>3. ASSUME NEW m \in Nodes, NEW k \in 1 .. 2, ReceiveBytes(n, m, k)
        PROVE  WireOrder'
    BY <2>3, ReceiptOrder
  <2> QED BY <1>3, <2>1, <2>2, <2>3 DEF Inside, Iterate
<1>4. CASE UNCHANGED vars
  BY <1>1, <1>4 DEF vars
<1> QED BY <1>2, <1>3, <1>4, TwoKindsOfStep

\* However the receiver's reads cut the bytes, what it pushes is what each
\* peer sent, in order.
THEOREM OrderCorrect == Spec => []InOrder
<1>1. Init => WireOrder
  BY InitWire
<1>2. TypeOK /\ WireOrder /\ [Next]_vars => WireOrder'
  BY WireStep
<1>3. TypeOK /\ WireOrder => InOrder
  <2> SUFFICES ASSUME TypeOK, WireOrder, NEW n \in Nodes, NEW m \in Nodes
               PROVE  /\ Len(got[n][m]) <= Len(sent[m][n])
                      /\ \A i \in DOMAIN got[n][m] :
                             /\ got[n][m][i].senderRank = m
                             /\ got[n][m][i].logicalTimestamp = sent[m][n][i]
    BY DEF InOrder
  <2>1. DOMAIN got[n][m] = 1 .. Len(got[n][m])
    BY DEF TypeOK
  <2>2. /\ Coming(Between(n, m), m, sent[m][n], got[n][m])
        /\ Pushed(m, sent[m][n], got[n][m])
    BY DEF WireOrder
  <2>3. Len(got[n][m]) <= Len(sent[m][n])
    BY <2>2 DEF Coming
  <2> QED BY <2>1, <2>2, <2>3 DEF Pushed
<1> QED BY <1>1, <1>2, <1>3, TypeCorrect, PTL DEF Spec

-----------------------------------------------------------------------------
(* The processes implement LamportClocks.                                  *)

\* What is left of a sequence after its first k.
LEMMA RestIs ==
  ASSUME NEW s \in Seq(Nat), NEW k \in Nat, k <= Len(s)
  PROVE  /\ Rest(s, k) \in Seq(Nat) /\ Len(Rest(s, k)) = Len(s) - k
         /\ \A i \in 1 .. Len(s) - k : Rest(s, k)[i] = s[k + i]
<1>1. \A i \in k + 1 .. Len(s) : s[i] \in Nat
  BY LenProperties, ElementOfSeq
<1>2. PICK r : r = SubSeq(s, k + 1, Len(s))
  OBVIOUS
<1>3. /\ r \in Seq(Nat)
      /\ Len(r) = IF k + 1 <= Len(s) THEN Len(s) - (k + 1) + 1 ELSE 0
      /\ \A i \in 1 .. Len(s) - (k + 1) + 1 : r[i] = s[k + 1 + i - 1]
  BY <1>1, <1>2, SubSeqProperties
<1>4. Len(r) = Len(s) - k
  BY <1>3
<1>5. \A i \in 1 .. Len(s) - k : r[i] = s[k + i]
  BY <1>3
<1> QED BY <1>2, <1>3, <1>4, <1>5 DEF Rest

\* The next message on its way is the first that was not pushed.
LEMMA RestNext ==
  ASSUME NEW s \in Seq(Nat), NEW k \in Nat, k < Len(s)
  PROVE  /\ Rest(s, k) # <<>> /\ Head(Rest(s, k)) = s[k + 1]
         /\ Rest(s, k + 1) = Tail(Rest(s, k))
<1>1. PICK r : r = Rest(s, k)
  OBVIOUS
<1>2. PICK q : q = Rest(s, k + 1)
  OBVIOUS
<1>3. /\ r \in Seq(Nat) /\ Len(r) = Len(s) - k
      /\ \A i \in 1 .. Len(s) - k : r[i] = s[k + i]
  <2>1. k <= Len(s)
    BY LenProperties
  <2> QED BY <1>1, <2>1, RestIs
<1>4. /\ q \in Seq(Nat) /\ Len(q) = Len(s) - (k + 1)
      /\ \A i \in 1 .. Len(s) - (k + 1) : q[i] = s[k + 1 + i]
  <2>1. k + 1 \in Nat /\ k + 1 <= Len(s)
    OBVIOUS
  <2> QED BY <1>2, <2>1, RestIs
<1>5. r # <<>> /\ Len(r) \in Nat /\ 1 \in 1 .. Len(s) - k
  BY <1>3
<1>6. Head(r) = s[k + 1]
  BY <1>3, <1>5
<1>7. PICK t : t = Tail(r)
  OBVIOUS
<1>8. /\ t \in Seq(Nat) /\ Len(t) = Len(r) - 1
      /\ \A i \in 1 .. Len(r) - 1 : t[i] = r[i + 1]
  BY <1>3, <1>5, <1>7, HeadTailProperties
<1>9. ASSUME NEW i \in 1 .. Len(t) PROVE q[i] = t[i]
  <2>1. /\ i \in 1 .. Len(s) - (k + 1) /\ i \in 1 .. Len(r) - 1
        /\ i + 1 \in 1 .. Len(s) - k /\ k + (i + 1) = k + 1 + i
    BY <1>3, <1>8
  <2> QED BY <1>3, <1>4, <1>8, <2>1
<1>10. Len(q) = Len(t)
  BY <1>3, <1>4, <1>8
<1>11. q = t
  BY <1>4, <1>8, <1>9, <1>10, SeqEqual
<1> QED BY <1>1, <1>2, <1>5, <1>6, <1>7, <1>11

\* One more message sent is one more on its way, the last.
LEMMA RestOfAppend ==
  ASSUME NEW s \in Seq(Nat), NEW c \in Nat, NEW k \in Nat, k <= Len(s)
  PROVE  Rest(Append(s, c), k) = Append(Rest(s, k), c)
<1>1. PICK t : t = Append(s, c)
  OBVIOUS
<1>2. /\ t \in Seq(Nat) /\ Len(t) = Len(s) + 1 /\ t[Len(s) + 1] = c
      /\ \A i \in 1 .. Len(s) : t[i] = s[i]
  BY <1>1, AppendProperties
<1>3. PICK r : r = SubSeq(s, k + 1, Len(s))
  OBVIOUS
<1>4. /\ r \in Seq(Nat) /\ Len(r) = Len(s) - k
      /\ \A i \in 1 .. Len(s) - k : r[i] = s[k + i]
  BY <1>3, RestIs DEF Rest
<1>5. PICK q : q = SubSeq(t, k + 1, Len(t))
  OBVIOUS
<1>6. /\ q \in Seq(Nat) /\ Len(q) = Len(t) - k
      /\ \A i \in 1 .. Len(t) - k : q[i] = t[k + i]
  BY <1>2, <1>5, RestIs DEF Rest
<1>7. PICK a : a = Append(r, c)
  OBVIOUS
<1>8. /\ a \in Seq(Nat) /\ Len(a) = Len(r) + 1 /\ a[Len(r) + 1] = c
      /\ \A i \in 1 .. Len(r) : a[i] = r[i]
  BY <1>4, <1>7, AppendProperties
<1>9. ASSUME NEW i \in 1 .. Len(a) PROVE q[i] = a[i]
  <2>1. i \in 1 .. (Len(s) - k) + 1 /\ i \in 1 .. Len(t) - k
    BY <1>2, <1>4, <1>8
  <2>2. CASE i = (Len(s) - k) + 1
    <3>1. k + i = Len(s) + 1 /\ i = Len(r) + 1
      BY <1>4, <2>2
    <3> QED BY <1>2, <1>6, <1>8, <2>1, <3>1
  <2>3. CASE i # (Len(s) - k) + 1
    <3>1. i \in 1 .. Len(s) - k /\ k + i \in 1 .. Len(s) /\ i \in 1 .. Len(r)
      BY <1>4, <2>1, <2>3
    <3> QED BY <1>2, <1>4, <1>6, <1>8, <2>1, <3>1
  <2> QED BY <2>2, <2>3
<1>10. q = a
  <2>1. Len(q) = Len(a)
    BY <1>2, <1>4, <1>6, <1>8
  <2> QED BY <1>6, <1>8, <1>9, <2>1, SeqEqual
<1> QED BY <1>1, <1>3, <1>5, <1>7, <1>10 DEF Rest

\* The queue's stamps follow its head, its tail and what is pushed.
LEMMA StampsAre ==
  ASSUME NEW q \in Seq(Messages)
  PROVE  /\ Stamps(q) \in Seq({Stamp(msg) : msg \in Messages})
         /\ Len(Stamps(q)) = Len(q)
         /\ \A i \in 1 .. Len(q) : Stamps(q)[i] = Stamp(q[i])
<1>1. /\ DOMAIN q = 1 .. Len(q) /\ Len(q) \in Nat
      /\ \A i \in 1 .. Len(q) : q[i] \in Messages
  BY LenProperties, ElementOfSeq
<1>2. \A i \in 1 .. Len(q) : Stamp(q[i]) \in {Stamp(msg) : msg \in Messages}
  BY <1>1
<1>3. Stamps(q) = [i \in 1 .. Len(q) |-> Stamp(q[i])]
  BY <1>1 DEF Stamps
<1> QED BY <1>1, <1>2, <1>3

LEMMA StampsOfTail ==
  ASSUME NEW q \in Seq(Messages), q # <<>>
  PROVE  /\ Stamps(q) # <<>> /\ Head(Stamps(q)) = Stamp(Head(q))
         /\ Stamps(Tail(q)) = Tail(Stamps(q))
<1> DEFINE S == {Stamp(msg) : msg \in Messages}
<1>1. PICK u : u = Stamps(q)
  OBVIOUS
<1>2. PICK t : t = Tail(q)
  OBVIOUS
<1>3. /\ u \in Seq(S) /\ Len(u) = Len(q) /\ \A i \in 1 .. Len(q) : u[i] = Stamp(q[i])
  BY <1>1, StampsAre
<1>4. /\ t \in Seq(Messages) /\ Len(t) = Len(q) - 1 /\ Len(q) \in Nat /\ Len(q) >= 1
      /\ Head(q) = q[1] /\ \A i \in 1 .. Len(q) - 1 : t[i] = q[i + 1]
  BY <1>2, HeadTailProperties, LenProperties, EmptySeq
<1>5. PICK v : v = Stamps(t)
  OBVIOUS
<1>6. /\ v \in Seq(S) /\ Len(v) = Len(t) /\ \A i \in 1 .. Len(t) : v[i] = Stamp(t[i])
  BY <1>4, <1>5, StampsAre
<1> HIDE DEF S
<1>7. u # <<>> /\ Head(u) = Stamp(Head(q))
  BY <1>3, <1>4
<1>8. PICK w : w = Tail(u)
  OBVIOUS
<1>9. /\ w \in Seq(S) /\ Len(w) = Len(u) - 1 /\ \A i \in 1 .. Len(u) - 1 : w[i] = u[i + 1]
  BY <1>3, <1>7, <1>8, HeadTailProperties
<1>10. ASSUME NEW i \in 1 .. Len(v) PROVE v[i] = w[i]
  <2>1. i \in 1 .. Len(q) - 1 /\ i + 1 \in 1 .. Len(q)
    BY <1>4, <1>6
  <2> QED BY <1>3, <1>4, <1>6, <1>9, <2>1
<1>11. v = w
  <2>1. Len(v) = Len(w)
    BY <1>3, <1>4, <1>6, <1>9
  <2> QED BY <1>6, <1>9, <1>10, <2>1, SeqEqual
<1> QED BY <1>1, <1>2, <1>5, <1>7, <1>8, <1>11

LEMMA StampsOfAppend ==
  ASSUME NEW q \in Seq(Messages), NEW msg \in Messages
  PROVE  Stamps(Append(q, msg)) = Append(Stamps(q), Stamp(msg))
<1> DEFINE S == {Stamp(x) : x \in Messages}
<1>1. PICK u : u = Stamps(q)
  OBVIOUS
<1>2. PICK t : t = Append(q, msg)
  OBVIOUS
<1>3. /\ u \in Seq(S) /\ Len(u) = Len(q) /\ \A i \in 1 .. Len(q) : u[i] = Stamp(q[i])
  BY <1>1, StampsAre
<1>4. /\ t \in Seq(Messages) /\ Len(t) = Len(q) + 1 /\ t[Len(q) + 1] = msg
      /\ Len(q) \in Nat /\ \A i \in 1 .. Len(q) : t[i] = q[i]
  BY <1>2, AppendProperties, LenProperties
<1>5. PICK v : v = Stamps(t)
  OBVIOUS
<1>6. /\ v \in Seq(S) /\ Len(v) = Len(t) /\ \A i \in 1 .. Len(t) : v[i] = Stamp(t[i])
  BY <1>4, <1>5, StampsAre
<1>7. Stamp(msg) \in S
  OBVIOUS
<1> HIDE DEF S
<1>8. PICK w : w = Append(u, Stamp(msg))
  OBVIOUS
<1>9. /\ w \in Seq(S) /\ Len(w) = Len(u) + 1 /\ w[Len(u) + 1] = Stamp(msg)
      /\ \A i \in 1 .. Len(u) : w[i] = u[i]
  BY <1>3, <1>7, <1>8, AppendProperties
<1>10. ASSUME NEW i \in 1 .. Len(v) PROVE v[i] = w[i]
  <2>1. CASE i = Len(q) + 1
    BY <1>3, <1>4, <1>6, <1>9, <2>1
  <2>2. CASE i # Len(q) + 1
    <3>1. i \in 1 .. Len(q)
      BY <1>4, <1>6, <2>2
    <3> QED BY <1>3, <1>4, <1>6, <1>9, <3>1
  <2> QED BY <2>1, <2>2
<1>11. v = w
  <2>1. Len(v) = Len(w)
    BY <1>3, <1>4, <1>6, <1>9
  <2> QED BY <1>6, <1>9, <1>10, <2>1, SeqEqual
<1> QED BY <1>1, <1>2, <1>5, <1>8, <1>11

\* What is on its way is a sequence of times for each pair.
LEMMA OnTheWayType ==
  ASSUME TypeOK, WireOrder
  PROVE  OnTheWay \in [Nodes -> [Nodes -> Seq(Nat)]]
<1>1. ASSUME NEW m \in Nodes, NEW n \in Nodes
      PROVE  Rest(sent[m][n], Len(got[n][m])) \in Seq(Nat)
  <2>0. sent[m][n] \in Seq(Nat)
    BY DEF TypeOK
  <2>1. PICK s \in Seq(Nat) : s = sent[m][n]
    BY <2>0
  <2>2. got[n][m] \in Seq(Messages)
    BY DEF TypeOK
  <2>3. PICK k \in Nat : k = Len(got[n][m])
    BY <2>2
  <2>4. Len(got[n][m]) <= Len(sent[m][n])
    BY DEF WireOrder, Coming
  <2>5. k <= Len(s)
    BY <2>1, <2>3, <2>4
  <2>6. Rest(s, k) \in Seq(Nat)
    BY <2>5, RestIs
  <2> QED BY <2>1, <2>3, <2>6
<1> QED BY <1>1 DEF OnTheWay

\* The same of the next state.
LEMMA OnTheWayTypeNext ==
  ASSUME TypeOK', WireOrder'
  PROVE  OnTheWay' \in [Nodes -> [Nodes -> Seq(Nat)]]
<1>1. ASSUME NEW m \in Nodes, NEW n \in Nodes
      PROVE  Rest(sent'[m][n], Len(got'[n][m])) \in Seq(Nat)
  <2>0. sent'[m][n] \in Seq(Nat)
    BY DEF TypeOK
  <2>1. PICK s \in Seq(Nat) : s = sent'[m][n]
    BY <2>0
  <2>2. got'[n][m] \in Seq(Messages)
    BY DEF TypeOK
  <2>3. PICK k \in Nat : k = Len(got'[n][m])
    BY <2>2
  <2>4. Len(got'[n][m]) <= Len(sent'[m][n])
    BY DEF WireOrder, Coming
  <2>5. k <= Len(s)
    BY <2>1, <2>3, <2>4
  <2>6. Rest(s, k) \in Seq(Nat)
    BY <2>5, RestIs
  <2> QED BY <2>1, <2>3, <2>6
<1> QED BY <1>1 DEF OnTheWay

LEMMA LamportInit ==
  ASSUME Init PROVE Lamport!Init
<1>1. Rest(<<>>, 0) = <<>>
  <2>1. <<>> \in Seq(Nat) /\ Len(<<>>) = 0 /\ 0 \in Nat
    OBVIOUS
  <2>2. PICK e \in Seq(Nat) : e = <<>> /\ Len(e) = 0
    BY <2>1
  <2>3. 0 \in Nat /\ 0 <= Len(e)
    BY <2>2
  <2>4. Rest(e, 0) \in Seq(Nat) /\ Len(Rest(e, 0)) = Len(e) - 0
    BY <2>3, RestIs
  <2>5. Len(Rest(e, 0)) = 0
    BY <2>2, <2>4
  <2> QED BY <2>2, <2>4, <2>5, EmptySeq
<1>2. Stamps(<<>>) = <<>>
  <2>1. <<>> \in Seq(Messages) /\ Len(<<>>) = 0
    OBVIOUS
  <2>2. /\ Stamps(<<>>) \in Seq({Stamp(msg) : msg \in Messages})
        /\ Len(Stamps(<<>>)) = 0
    BY <2>1, StampsAre
  <2> QED BY <2>2, EmptySeq
<1>3. OnTheWay = [m \in Nodes |-> [n \in Nodes |-> <<>>]]
  <2>1. ASSUME NEW m \in Nodes, NEW n \in Nodes
        PROVE  Rest(sent[m][n], Len(got[n][m])) = <<>>
    BY <1>1 DEF Init
  <2> QED BY <2>1 DEF OnTheWay
<1>4. Unread = [n \in Nodes |-> <<>>]
  BY <1>2 DEF Init, Unread
<1> QED BY <1>3, <1>4 DEF Init, Lamport!Init

\* What moves no clock and no message is no step of the clocks'.
LEMMA SameForLamport ==
  ASSUME UNCHANGED <<clock, sent, got, queue>>
  PROVE  UNCHANGED Lamport!vars
BY DEF Lamport!vars, OnTheWay, Unread

LEMMA NobodySendsToItself ==
  ASSUME NEW n \in Nodes, NEW to \in Targets(n)
  PROVE  to \in SUBSET (Nodes \ {n})
<1>1. NumVms \in Nat \ {0} /\ n \in Nat
  BY TempusAssumption DEF Nodes
<1>2. (n + 1) % NumVms \in Nodes /\ (n + 2) % NumVms \in Nodes
  BY <1>1 DEF Nodes
<1> QED BY <1>2 DEF Targets

\* An iteration that takes no message from the queue.
LEMMA EventStep ==
  ASSUME TypeOK, WireOrder, NEW n \in Nodes, NEW to \in SUBSET (Nodes \ {n}),
         clock' = [clock EXCEPT ![n] = clock[n] + 1], UNCHANGED <<got, queue>>,
         sent' = [sent EXCEPT ![n] = [m \in Nodes |->
             IF m \in to THEN Append(sent[n][m], clock[n] + 1) ELSE sent[n][m]]]
  PROVE  Lamport!Event(n, to)
<1>1. PICK c \in Nat : c = clock[n] + 1
  BY DEF TypeOK
<1>2. ASSUME NEW m \in Nodes
      PROVE  Rest(sent'[n][m], Len(got[m][n]))
                 = IF m \in to THEN Append(Rest(sent[n][m], Len(got[m][n])), c)
                               ELSE Rest(sent[n][m], Len(got[m][n]))
  <2>1. sent'[n][m] = IF m \in to THEN Append(sent[n][m], c) ELSE sent[n][m]
    BY <1>1 DEF TypeOK
  <2>2. /\ sent[n][m] \in Seq(Nat) /\ Len(got[m][n]) \in Nat
        /\ Len(got[m][n]) <= Len(sent[n][m])
    <3>1. got[m][n] \in Seq(Messages) /\ sent[n][m] \in Seq(Nat)
      BY DEF TypeOK
    <3>2. Len(got[m][n]) <= Len(sent[n][m])
      BY DEF WireOrder, Coming
    <3> QED BY <3>1, <3>2
  <2>3. PICK s \in Seq(Nat) : s = sent[n][m]
    BY <2>2
  <2>4. PICK k \in Nat : k = Len(got[m][n])
    BY <2>2
  <2>5. k <= Len(s)
    BY <2>2, <2>3, <2>4
  <2>6. Rest(Append(s, c), k) = Append(Rest(s, k), c)
    BY <2>5, RestOfAppend
  <2>7. CASE m \in to
    <3>1. sent'[n][m] = Append(s, c)
      BY <2>1, <2>3, <2>7
    <3> QED BY <2>3, <2>4, <2>6, <2>7, <3>1
  <2>8. CASE m \notin to
    BY <2>1, <2>8
  <2> QED BY <2>7, <2>8
<1>3. ASSUME NEW x \in Nodes, x # n PROVE sent'[x] = sent[x]
  BY <1>3 DEF TypeOK
<1>4. OnTheWay' = [OnTheWay EXCEPT ![n] = [m \in Nodes |->
          IF m \in to THEN Append(OnTheWay[n][m], c) ELSE OnTheWay[n][m]]]
  <2>1. OnTheWay' = [x \in Nodes |-> [y \in Nodes |-> Rest(sent'[x][y], Len(got[y][x]))]]
    BY DEF OnTheWay
  <2>2. ASSUME NEW m \in Nodes
        PROVE  OnTheWay[n][m] = Rest(sent[n][m], Len(got[m][n]))
    BY DEF OnTheWay
  <2>3. OnTheWay'[n] = [m \in Nodes |->
            IF m \in to THEN Append(OnTheWay[n][m], c) ELSE OnTheWay[n][m]]
    BY <1>2, <2>1, <2>2
  <2>4. ASSUME NEW x \in Nodes, x # n PROVE OnTheWay'[x] = OnTheWay[x]
    BY <1>3, <2>1, <2>4 DEF OnTheWay
  <2>5. OnTheWay = [x \in Nodes |-> OnTheWay[x]] /\ OnTheWay' = [x \in Nodes |-> OnTheWay'[x]]
    BY <2>1 DEF OnTheWay
  <2> QED BY <2>3, <2>4, <2>5
<1>5. Unread' = Unread
  BY DEF Unread
<1> QED BY <1>1, <1>4, <1>5 DEF Lamport!Event

\* An iteration that takes one.
LEMMA TakeStep ==
  ASSUME TypeOK, NEW n \in Nodes, Receive(n)
  PROVE  Lamport!Receive(n)
<1>1. /\ queue[n] # <<>> /\ queue' = [queue EXCEPT ![n] = Tail(@)]
      /\ clock' = [clock EXCEPT ![n] = Larger(clock[n], Head(queue[n]).logicalTimestamp) + 1]
      /\ UNCHANGED <<sent, got>>
  BY DEF Receive, Tick, wireVars
<1>2. queue \in [Nodes -> Seq(Messages)] /\ clock \in [Nodes -> Nat]
  BY DEF TypeOK
<1>3. /\ Unread[n] # <<>> /\ Head(Unread[n]) = Stamp(Head(queue[n]))
      /\ Stamps(queue'[n]) = Tail(Unread[n])
  BY <1>1, <1>2, StampsOfTail DEF Unread
<1>4. Unread' = [Unread EXCEPT ![n] = Tail(@)]
  <2>1. \A x \in Nodes : x # n => queue'[x] = queue[x]
    BY <1>1, <1>2
  <2>2. Unread = [x \in Nodes |-> Stamps(queue[x])]
        /\ Unread' = [x \in Nodes |-> Stamps(queue'[x])]
    BY DEF Unread
  <2> QED BY <1>3, <2>1, <2>2
<1>5. Larger(clock[n], Head(queue[n]).logicalTimestamp)
          = Lamport!Later(clock[n], Head(Unread[n]).time)
  BY <1>3 DEF Larger, Lamport!Later, Stamp
<1>6. OnTheWay' = OnTheWay
  BY <1>1 DEF OnTheWay
<1>7. clock' = [clock EXCEPT ![n] = Lamport!Later(@, Head(Unread[n]).time) + 1]
  BY <1>1, <1>2, <1>5
<1> QED BY <1>3, <1>4, <1>6, <1>7 DEF Lamport!Receive

\* A receipt that makes a message whole takes it from the wire to the queue; one
\* that does not is no step.
LEMMA ReceiptStep ==
  ASSUME TypeOK, WireOrder, TypeOK', WireOrder', NEW n \in Nodes, NEW m \in Nodes,
         NEW k \in 1 .. 2, ReceiveBytes(n, m, k)
  PROVE  Lamport!Deliver(m, n) \/ UNCHANGED Lamport!vars
<1>1. PICK have : have = bufs[n][m] \o SubSeq(net[m][n], 1, k)
  OBVIOUS
<1>2. UNCHANGED <<clock, sent>>
  BY DEF ReceiveBytes, clockVars
<1>3. CASE Len(have) # 2
  <2>1. UNCHANGED <<queue, got>>
    BY <1>1, <1>3 DEF ReceiveBytes
  <2> QED BY <1>2, <2>1, SameForLamport
<1>4. CASE Len(have) = 2
  <2>1. PICK msg : msg = Message(have)
    OBVIOUS
  <2>2. /\ queue' = [queue EXCEPT ![n] = Append(@, msg)]
        /\ got' = [got EXCEPT ![n][m] = Append(@, msg)]
    BY <1>1, <1>4, <2>1 DEF ReceiveBytes
  <2>3. PICK g : g = got[n][m]
    OBVIOUS
  <2>4. PICK s : s = sent[m][n]
    OBVIOUS
  <2>5. /\ queue \in [Nodes -> Seq(Messages)] /\ got \in [Nodes -> [Nodes -> Seq(Messages)]]
        /\ g \in Seq(Messages) /\ s \in Seq(Nat) /\ got'[n][m] \in Seq(Messages)
    <3>1. /\ queue \in [Nodes -> Seq(Messages)]
          /\ got \in [Nodes -> [Nodes -> Seq(Messages)]]
          /\ got' \in [Nodes -> [Nodes -> Seq(Messages)]]
          /\ sent \in [Nodes -> [Nodes -> Seq(Nat)]]
      BY DEF TypeOK
    <3> QED BY <2>3, <2>4, <3>1
  <2>6. got'[n][m] = Append(g, msg)
    BY <2>2, <2>3, <2>5
  <2>7. PICK f \in Seq(Messages) : f = Append(g, msg)
    BY <2>5, <2>6
  <2>8. msg \in Messages /\ Len(f) = Len(g) + 1 /\ f[Len(g) + 1] = msg /\ Len(g) \in Nat
    <3>1. Len(g) \in Nat /\ Len(f) = Len(g) + 1 /\ f[Len(g) + 1] = msg
      BY <2>5, <2>7
    <3>2. Len(g) + 1 \in 1 .. Len(f)
      BY <3>1
    <3> QED BY <2>7, <3>1, <3>2, ElementOfSeq
  <2>9. /\ Len(g) < Len(s) /\ msg.senderRank = m
        /\ msg.logicalTimestamp = s[Len(g) + 1]
    <3>1. Len(f) <= Len(s) /\ Pushed(m, s, f)
      <4>1. /\ Len(got'[n][m]) <= Len(sent'[m][n])
            /\ Pushed(m, sent'[m][n], got'[n][m])
        BY DEF WireOrder, Coming
      <4> QED BY <1>2, <2>4, <2>6, <2>7, <4>1
    <3>2. Len(s) \in Nat
      BY <2>5
    <3> QED BY <2>8, <3>1, <3>2 DEF Pushed
  <2>10. OnTheWay[m][n] = Rest(s, Len(g)) /\ Unread[n] = Stamps(queue[n])
    BY <2>3, <2>4 DEF OnTheWay, Unread
  <2>11. /\ OnTheWay[m][n] # <<>> /\ Head(OnTheWay[m][n]) = s[Len(g) + 1]
         /\ Rest(s, Len(f)) = Tail(OnTheWay[m][n])
    BY <2>5, <2>8, <2>9, <2>10, RestNext
  <2>12. OnTheWay' = [OnTheWay EXCEPT ![m][n] = Tail(@)]
    <3>1. \A x, y \in Nodes : ~(x = m /\ y = n) => got'[y][x] = got[y][x]
      BY <2>2, <2>5
    <3>2. OnTheWay' = [x \in Nodes |-> [y \in Nodes |-> Rest(sent[x][y], Len(got'[y][x]))]]
      BY <1>2 DEF OnTheWay
    <3>3. OnTheWay'[m][n] = Tail(OnTheWay[m][n])
      BY <2>4, <2>6, <2>7, <2>11, <3>2
    <3>4. \A x, y \in Nodes : ~(x = m /\ y = n) => OnTheWay'[x][y] = OnTheWay[x][y]
      BY <3>1, <3>2 DEF OnTheWay
    <3>5. PICK before : before = OnTheWay
      OBVIOUS
    <3>6. PICK after : after = OnTheWay'
      OBVIOUS
    <3>7. /\ before \in [Nodes -> [Nodes -> Seq(Nat)]]
          /\ after \in [Nodes -> [Nodes -> Seq(Nat)]]
      BY <3>5, <3>6, OnTheWayType, OnTheWayTypeNext
    <3>8. after = [before EXCEPT ![m][n] = Tail(@)]
      <4>1. after[m][n] = Tail(before[m][n])
        BY <3>3, <3>5, <3>6
      <4>2. \A x, y \in Nodes : ~(x = m /\ y = n) => after[x][y] = before[x][y]
        BY <3>4, <3>5, <3>6
      <4>3. after[m] = [before[m] EXCEPT ![n] = Tail(@)]
        <5>1. /\ before[m] \in [Nodes -> Seq(Nat)] /\ after[m] \in [Nodes -> Seq(Nat)]
              /\ \A y \in Nodes : y # n => after[m][y] = before[m][y]
          BY <3>7, <4>2
        <5> QED BY <4>1, <5>1
      <4>4. ASSUME NEW x \in Nodes, x # m PROVE after[x] = before[x]
        <5>1. /\ before[x] \in [Nodes -> Seq(Nat)] /\ after[x] \in [Nodes -> Seq(Nat)]
              /\ \A y \in Nodes : after[x][y] = before[x][y]
          BY <3>7, <4>2, <4>4
        <5> QED BY <5>1
      <4>5. after = [before EXCEPT ![m] = [before[m] EXCEPT ![n] = Tail(@)]]
        BY <3>7, <4>3, <4>4
      <4> QED BY <4>5
    <3> QED BY <3>5, <3>6, <3>8
  <2>13. Unread' = [Unread EXCEPT ![n] =
             Append(@, [sender |-> m, time |-> Head(OnTheWay[m][n])])]
    <3>1. Stamps(queue'[n]) = Append(Stamps(queue[n]), Stamp(msg))
      BY <2>2, <2>5, <2>8, StampsOfAppend
    <3>2. Stamp(msg) = [sender |-> m, time |-> Head(OnTheWay[m][n])]
      BY <2>9, <2>11 DEF Stamp
    <3>3. \A x \in Nodes : x # n => queue'[x] = queue[x]
      BY <2>2, <2>5
    <3>4. Unread = [x \in Nodes |-> Stamps(queue[x])]
          /\ Unread' = [x \in Nodes |-> Stamps(queue'[x])]
      BY DEF Unread
    <3> QED BY <3>1, <3>2, <3>3, <3>4
  <2> QED BY <1>2, <2>11, <2>12, <2>13 DEF Lamport!Deliver
<1> QED BY <1>3, <1>4

\* Every step of the processes is one of LamportClocks' or leaves it alone.
LEMMA LamportStep ==
  ASSUME TypeOK, WireOrder, TypeOK', WireOrder', [Next]_vars
  PROVE  [Lamport!Next]_(Lamport!vars)
<1>1. CASE UNCHANGED vars
  BY <1>1, SameForLamport DEF vars, clockVars, wireVars
<1>2. ASSUME NEW n \in Nodes, Outside(n) PROVE UNCHANGED Lamport!vars
  BY <1>2, OutsideMovesNothing, SameForLamport DEF clockVars, wireVars
<1>3. ASSUME NEW n \in Nodes, Receive(n) PROVE Lamport!Receive(n)
  BY <1>3, TakeStep
<1>4. ASSUME NEW n \in Nodes, Internal(n)
      PROVE  \E to \in SUBSET (Nodes \ {n}) : Lamport!Event(n, to)
  <2>1. clock' = [clock EXCEPT ![n] = clock[n] + 1] /\ UNCHANGED <<sent, got, queue>>
    BY <1>4 DEF Internal, Tick, wireVars
  <2>2. sent' = [sent EXCEPT ![n] = [m \in Nodes |->
            IF m \in {} THEN Append(sent[n][m], clock[n] + 1) ELSE sent[n][m]]]
    BY <2>1 DEF TypeOK
  <2>3. {} \in SUBSET (Nodes \ {n})
    OBVIOUS
  <2> QED BY <2>1, <2>2, <2>3, EventStep
<1>5. ASSUME NEW n \in Nodes, Send(n) \/ SendDies(n)
      PROVE  \E to \in SUBSET (Nodes \ {n}) : Lamport!Event(n, to)
  <2>1. clock' = [clock EXCEPT ![n] = clock[n] + 1] /\ UNCHANGED <<got, queue>>
    BY <1>5, SendTicks DEF Tick
  <2>2. PICK to \in SUBSET (Nodes \ {n}) : Transmit(n, clock[n] + 1, Knows(n), to)
    BY <1>5, NobodySendsToItself DEF Send, SendDies
  <2>3. sent' = [sent EXCEPT ![n] = [m \in Nodes |->
            IF m \in to THEN Append(sent[n][m], clock[n] + 1) ELSE sent[n][m]]]
    BY <2>2 DEF Transmit
  <2> QED BY <2>1, <2>2, <2>3, EventStep
<1>6. ASSUME NEW n \in Nodes, NEW m \in Nodes, NEW k \in 1 .. 2, ReceiveBytes(n, m, k)
      PROVE  Lamport!Deliver(m, n) \/ UNCHANGED Lamport!vars
  BY <1>6, ReceiptStep
<1>7. ASSUME NEW n \in Nodes, Inside(n)
      PROVE  Lamport!Next \/ UNCHANGED Lamport!vars
  BY <1>3, <1>4, <1>5, <1>6, <1>7 DEF Inside, Iterate, Lamport!Next
<1> QED BY <1>1, <1>2, <1>7, TwoKindsOfStep

\* The processes are Lamport clocks, for any number of them and of iterations:
\* sockets that cut messages, receivers that throw and processes that die leave
\* the steps of the algorithm as they are (logic.cpp:51-133, 182-192).
THEOREM ExchangesCorrect == Spec => Exchanges
<1>1. Init => Lamport!Init /\ WireOrder
  BY LamportInit, InitWire
<1>2. TypeOK /\ WireOrder /\ [Next]_vars => WireOrder'
  BY WireStep
<1>3. TypeOK /\ WireOrder /\ TypeOK' /\ WireOrder' /\ [Next]_vars
          => [Lamport!Next]_(Lamport!vars)
  BY LamportStep
<1> QED BY <1>1, <1>2, <1>3, TypeCorrect, PTL DEF Spec, Exchanges, Lamport!Spec
=============================================================================
