-------------------------------- MODULE Mesh ---------------------------------
(***************************************************************************)
(* How the servers of mousedb find each other (mousedb/server/exe_server,  *)
(* server.cpp).  A server dials the address it was told to join; a server  *)
(* that is dialled tells the newcomer of its other sessions and these of   *)
(* the newcomer; a server that is told of another dials it if it is not    *)
(* connected to it and its address is the lower one.  Several threads run  *)
(* the handlers: those of one session are in order, those of two are not.  *)
(*                                                                         *)
(* A server is its address, a number.  Heartbeats and the clients' frames  *)
(* change nothing here.                                                    *)
(***************************************************************************)
EXTENDS Integers, Sequences, FiniteSets, SequencesExt

CONSTANTS
    Servers,        \* addresses, in the order of Address::operator<
    Join,           \* the address given by --join to each server, or Nobody
    MaxConnections, \* bound: connections ever made
    MaxFailures     \* bound: dials that fail while the other runs, sessions lost

\* remote_ of a session whose other end has not said who it is.
Nobody == 0

ASSUME MeshAssumption ==
    /\ Servers \subseteq Nat \ {Nobody} /\ IsFiniteSet(Servers)
    /\ Join \in [Servers -> Servers \cup {Nobody}]
    /\ MaxConnections \in Nat /\ MaxFailures \in Nat

VARIABLES
    running,  \* servers that have been started
    dials,    \* dials[s][a]: resolutions and connections under way from s to a
    conns,    \* the connections: who dialled whom, the ends that have it in
              \* sessions_, whether the dialled end was told by whom, and the
              \* frames on the way to each end
    failures  \* dials that failed and sessions lost

vars == <<running, dials, conns, failures>>

\* Frames: IDENTIFY, the same with its set_remote done, and PEER of an address.
Identify == [type |-> "IDENTIFY", of |-> Nobody]
Announce == [type |-> "announce", of |-> Nobody]
Peer(a) == [type |-> "PEER", of |-> a]

Ends(c) == {c.from, c.to}
OtherEnd(c, s) == IF s = c.from THEN c.to ELSE c.from
Sessions(s) == {i \in DOMAIN conns : s \in conns[i].held}
Remote(i, s) == \* of the session that s has on connection i
    IF s = conns[i].from \/ conns[i].identified THEN OtherEnd(conns[i], s) ELSE Nobody
Connected(s, a) == \E i \in Sessions(s) : Remote(i, s) = a

Init ==
    /\ running = {} /\ conns = <<>> /\ failures = 0
    /\ dials = [s \in Servers |-> [a \in Servers |-> 0]]

-----------------------------------------------------------------------------
\* A mutant: whoever is told of the other dials.
ConnectToAny(s, a) ==
    dials' = IF a \in Servers \ {s} /\ ~Connected(s, a)
             THEN [dials EXCEPT ![s][a] = @ + 1] ELSE dials

\* connect_to.  A dial to nobody's address fails and leaves nothing.
ConnectTo(s, a) ==
    dials' = IF a \in Servers \ {s} /\ ~Connected(s, a) /\ a < s
             THEN [dials EXCEPT ![s][a] = @ + 1] ELSE dials

\* The constructor opens the acceptor; run dials the server to join.
Start(s) ==
    /\ s \in Servers \ running
    /\ running' = running \cup {s}
    /\ ConnectTo(s, Join[s])
    /\ UNCHANGED <<conns, failures>>

Dialling(s, a) == s \in running /\ dials[s][a] > 0
Undial(s, a) == dials' = [dials EXCEPT ![s][a] = @ - 1]

\* The dial is answered: the session knows its remote and is in sessions_ ...
Dialled(s, a) ==
    /\ Dialling(s, a) /\ a \in running /\ Len(conns) < MaxConnections
    /\ Undial(s, a)
    /\ conns' = Append(conns,
           [from |-> s, to |-> a, held |-> {s}, identified |-> FALSE,
            introduced |-> FALSE, inbox |-> [e \in {s, a} |-> <<>>]])
    /\ UNCHANGED <<running, failures>>

\* ... and then start sends IDENTIFY.
Introduce(i) ==
    /\ i \in DOMAIN conns /\ ~conns[i].introduced
    /\ conns' = [conns EXCEPT ![i].introduced = TRUE,
                              ![i].inbox[conns[i].to] = Append(@, Identify)]
    /\ UNCHANGED <<running, dials, failures>>

\* A dial fails: nobody listens, or the network does not do it.  No retry.
DialFails(s, a) ==
    /\ Dialling(s, a) /\ (a \in running => failures < MaxFailures)
    /\ Undial(s, a)
    /\ failures' = failures + 1
    /\ UNCHANGED <<running, conns>>

\* do_accept.
Accept(i) ==
    /\ i \in DOMAIN conns /\ conns[i].to \notin conns[i].held
    /\ conns[i].from \in conns[i].held
    /\ conns' = [conns EXCEPT ![i].held = @ \cup {conns[i].to}]
    /\ UNCHANGED <<running, dials, failures>>

\* forget, at both ends of a connection that breaks: nobody dials again.
Lose(i) ==
    /\ i \in DOMAIN conns /\ conns[i].held # {} /\ failures < MaxFailures
    /\ conns' = [conns EXCEPT ![i].held = {}, ![i].introduced = TRUE,
                              ![i].inbox = [e \in Ends(conns[i]) |-> <<>>]]
    /\ failures' = failures + 1
    /\ UNCHANGED <<running, dials>>

-----------------------------------------------------------------------------
(* process_message.                                                        *)

Receive(i, s, type) ==
    /\ i \in Sessions(s) /\ conns[i].inbox[s] # <<>>
    /\ Head(conns[i].inbox[s]).type = type

ReceivePeer(i, s) ==
    /\ Receive(i, s, "PEER")
    /\ ConnectTo(s, Head(conns[i].inbox[s]).of)
    /\ conns' = [conns EXCEPT ![i].inbox[s] = Tail(@)]
    /\ UNCHANGED <<running, failures>>

\* set_remote.
ReceiveIdentify(i, s) ==
    /\ Receive(i, s, "IDENTIFY")
    /\ conns' = [conns EXCEPT ![i].identified = TRUE,
                              ![i].inbox[s] = <<Announce>> \o Tail(@)]
    /\ UNCHANGED <<running, dials, failures>>

\* A mutant, broadcast_peer without its second half: a newcomer is not told.
BroadcastNewcomerOnly(i, s) ==
    /\ Receive(i, s, "announce")
    /\ conns' = [j \in DOMAIN conns |->
           IF j = i THEN [conns[j] EXCEPT !.inbox[s] = Tail(@)]
           ELSE IF j \in Sessions(s)
           THEN [conns[j] EXCEPT !.inbox[OtherEnd(conns[j], s)] =
                     Append(@, Peer(OtherEnd(conns[i], s)))]
           ELSE conns[j]]
    /\ UNCHANGED <<running, dials, failures>>

\* broadcast_peer: the newcomer to every other session, and the remote of
\* each, which may be nobody, to the newcomer, in the order of a hash table.
Broadcast(i, s) ==
    /\ Receive(i, s, "announce")
    /\ \E order \in SetToSeqs(Sessions(s) \ {i}) :
           conns' = [j \in DOMAIN conns |->
               IF j = i
               THEN [conns[j] EXCEPT !.inbox[s] = Tail(@),
                         !.inbox[OtherEnd(conns[i], s)] =
                             @ \o [k \in DOMAIN order |-> Peer(Remote(order[k], s))]]
               ELSE IF j \in Sessions(s)
               THEN [conns[j] EXCEPT !.inbox[OtherEnd(conns[j], s)] =
                         Append(@, Peer(OtherEnd(conns[i], s)))]
               ELSE conns[j]]
    /\ UNCHANGED <<running, dials, failures>>

-----------------------------------------------------------------------------
Handler(i, s) == ReceivePeer(i, s) \/ ReceiveIdentify(i, s) \/ Broadcast(i, s)
Numbers == 1 .. MaxConnections

Next ==
    \/ \E s \in Servers : Start(s)
    \/ \E s, a \in Servers : Dialled(s, a) \/ DialFails(s, a)
    \/ \E i \in Numbers : Introduce(i) \/ Accept(i) \/ Lose(i)
    \/ \E i \in Numbers, s \in Servers : Handler(i, s)

\* The network answers every dial and carries every frame.
Fairness ==
    /\ \A s, a \in Servers : WF_vars(Dialled(s, a) \/ DialFails(s, a))
    /\ \A i \in Numbers : WF_vars(Introduce(i)) /\ WF_vars(Accept(i))
    /\ \A i \in Numbers, s \in Servers : WF_vars(Handler(i, s))

Spec == Init /\ [][Next]_vars /\ Fairness

-----------------------------------------------------------------------------
(* Properties.                                                             *)

\* Every variable keeps its range; a connection is dialled from the higher
\* address, and only at its two ends is it a session or has frames.
TypeOK ==
    /\ running \subseteq Servers
    /\ dials \in [Servers -> [Servers -> Nat]]
    /\ failures \in Nat
    /\ \A i \in DOMAIN conns :
           LET c == conns[i]
           IN  /\ c.from \in running /\ c.to \in running /\ c.to < c.from
               /\ c.held \subseteq Ends(c)
               /\ c.identified \in BOOLEAN /\ c.introduced \in BOOLEAN
               /\ DOMAIN c.inbox = Ends(c)
               /\ c.identified => c.introduced

\* Two servers have a session with each other, at both ends, and the one that
\* was dialled knows who the other is.
Meshed(s, a) ==
    \E i \in Sessions(s) \cap Sessions(a) :
        Ends(conns[i]) = {s, a} /\ conns[i].identified

\* When every server runs and nothing failed, at last every two of them have a
\* session and nobody dials any more.
MeshCompletes ==
    <>[](running = Servers /\ failures = 0 =>
             /\ \A s, a \in Servers : s # a => Meshed(s, a)
             /\ \A s, a \in Servers : dials[s][a] = 0)

\* Two servers never have two sessions with each other.
OneSession ==
    \A i, j \in DOMAIN conns :
        i # j /\ conns[i].held # {} /\ conns[j].held # {} => Ends(conns[i]) # Ends(conns[j])
=============================================================================
