------------------------------ MODULE Cluster ------------------------------
(***************************************************************************)
(* Membership and failover of a converse cluster: the Server constructor   *)
(* (exe_server/src/server.cpp) and the link service, with the clients that *)
(* follow the cluster (exe_client/src/backend.cpp, handle_reconnect).      *)
(*                                                                         *)
(* There is no vote.  A server that joins is appended to the list of the   *)
(* one it joins and gets a copy of the list; when its stream of            *)
(* transactions ends it pops the front of its own list and follows that    *)
(* server, or leads if it has reached itself.  What the stream carries is  *)
(* the business of module Service.                                         *)
(***************************************************************************)
EXTENDS Integers, Sequences, SequencesExt, FiniteSets

CONSTANTS
    Servers,     \* addresses
    First,       \* the server started without --join
    Clients,
    NoServer,    \* no upstream
    MaxJoins,    \* bound: servers started with --join
    MaxCrashes,  \* bound: servers that die
    MaxDrops     \* bound: streams that end though both ends are up

ASSUME ClusterAssumption ==
    /\ First \in Servers
    /\ NoServer \notin Servers
    /\ MaxJoins \in Nat /\ MaxCrashes \in Nat /\ MaxDrops \in Nat

VARIABLES
    role,      \* "off", "identifying", "joined", "following", "picking", "leader"
    known,     \* cluster_addresses
    upstream,  \* the server its stub talks to
    telling,   \* calls of IdentifyMyself between their two locks
    client,    \* "attached", "watching", "cut" or "stranded"
    conn,      \* the server a client's channel leads to
    list,      \* cluster_addresses_ of a client
    joins, crashes, drops,
    order,     \* history: the servers in the order they joined First
    late,      \* history: a server joined one that had been promoted
    crossed    \* history: a server joined while another was still joining

serverVars == <<role, known, upstream, telling>>
clientVars == <<client, conn, list>>
bounds == <<joins, crashes, drops>>
history == <<order, late, crossed>>
vars == <<serverVars, clientVars, bounds, history>>

-----------------------------------------------------------------------------

Up(s) == role[s] # "off"

\* s has a leader to follow.
Subscribed(s) == role[s] \in {"joined", "following"}

Init ==
    /\ role = [s \in Servers |-> IF s = First THEN "leader" ELSE "off"]
    /\ known = [s \in Servers |-> <<>>]
    /\ upstream = [s \in Servers |-> NoServer]
    /\ telling = {}
    /\ client = [c \in Clients |-> "attached"]
    /\ conn = [c \in Clients |-> First]
    /\ list = [c \in Clients |-> <<>>]
    /\ joins = 0 /\ crashes = 0 /\ drops = 0
    /\ order = <<>> /\ late = FALSE /\ crossed = FALSE

-----------------------------------------------------------------------------
(* Joining.                                                                *)

\* A mutant: the answer is composed before the newcomer is appended.
IdentifyReplyFirst(s, l) ==
    /\ role[s] = "off" /\ joins < MaxJoins
    /\ role[l] = "leader"
    /\ role' = [role EXCEPT ![s] = "identifying"]
    /\ upstream' = [upstream EXCEPT ![s] = l]
    /\ known' = [known EXCEPT ![l] = Append(@, s), ![s] = known[l]]
    /\ joins' = joins + 1
    /\ telling' = telling \cup {[to |-> l, about |-> s, call |-> joins']}
    /\ order' = IF l = First THEN Append(order, s) ELSE order
    /\ late' = (late \/ l # First)
    /\ crossed' = (crossed \/ telling # {})
    /\ UNCHANGED <<clientVars, crashes, drops>>

\* IdentifyMyself, called on the leader: the newcomer is appended and the
\* whole list goes back to it.
Identify(s, l) ==
    /\ role[s] = "off" /\ joins < MaxJoins
    /\ role[l] = "leader"
    /\ role' = [role EXCEPT ![s] = "identifying"]
    /\ upstream' = [upstream EXCEPT ![s] = l]
    /\ known' = [known EXCEPT ![l] = Append(@, s), ![s] = Append(known[l], s)]
    /\ joins' = joins + 1
    /\ telling' = telling \cup {[to |-> l, about |-> s, call |-> joins']}
    /\ order' = IF l = First THEN Append(order, s) ELSE order
    /\ late' = (late \/ l # First)
    /\ crossed' = (crossed \/ telling # {})
    /\ UNCHANGED <<clientVars, crashes, drops>>

\* The rest of IdentifyMyself, under another lock: the clients that watch the
\* server hear of the newcomer (one that called GetServers since the append,
\* twice), whether or not the caller is still there to take the answer.
Announce(t) ==
    /\ t \in telling
    /\ telling' = telling \ {t}
    /\ list' = [c \in Clients |->
                    IF client[c] = "watching" /\ conn[c] = t.to
                    THEN Append(list[c], t.about) ELSE list[c]]
    /\ role' = IF /\ role[t.about] = "identifying"
                  /\ \A t2 \in telling : t2.about = t.about => t2.call <= t.call
               THEN [role EXCEPT ![t.about] = "joined"] ELSE role
    /\ UNCHANGED <<known, upstream, client, conn, bounds, history>>

\* GetTransactions: any server that is up takes the subscription.
Follow(s) ==
    /\ role[s] = "joined"
    /\ role' = [role EXCEPT ![s] = IF Up(upstream[s]) THEN "following" ELSE "picking"]
    /\ UNCHANGED <<known, upstream, telling, clientVars, bounds, history>>

-----------------------------------------------------------------------------
(* Failure.                                                                *)

\* A call of IdentifyMyself on s fails and its caller exits with it.
Dying(s) == {s} \cup {r \in Servers : role[r] = "identifying" /\ upstream[r] = s}

\* The process dies.  Streams to it end, and clients find the channel
\* unavailable.
Crash(s) ==
    /\ Up(s) /\ crashes < MaxCrashes
    /\ role' = [r \in Servers |->
                    IF r \in Dying(s) THEN "off"
                    ELSE IF role[r] = "following" /\ upstream[r] \in Dying(s) THEN "picking"
                    ELSE role[r]]
    /\ known' = [r \in Servers |-> IF r \in Dying(s) THEN <<>> ELSE known[r]]
    /\ upstream' = [r \in Servers |-> IF r \in Dying(s) THEN NoServer ELSE upstream[r]]
    /\ telling' = {t \in telling : t.to \notin Dying(s)}
    /\ client' = [c \in Clients |->
                    IF conn[c] \in Dying(s) /\ client[c] \in {"attached", "watching"}
                    THEN "cut" ELSE client[c]]
    /\ crashes' = crashes + 1
    /\ UNCHANGED <<conn, list, joins, drops, history>>

\* A stream ends though its server is up.
Drop(s) ==
    /\ role[s] = "following" /\ drops < MaxDrops
    /\ role' = [role EXCEPT ![s] = "picking"]
    /\ drops' = drops + 1
    /\ UNCHANGED <<known, upstream, telling, clientVars, joins, crashes, history>>

\* A mutant: a replica that is in doubt leads at once.
PickItself(s) ==
    /\ role[s] = "picking"
    /\ role' = [role EXCEPT ![s] = "leader"]
    /\ upstream' = [upstream EXCEPT ![s] = NoServer]
    /\ UNCHANGED <<known, telling, clientVars, bounds, history>>

\* A mutant: the replica tries its old leader again instead of the next one.
PickUpstream(s) ==
    /\ role[s] = "picking"
    /\ role' = [role EXCEPT ![s] = "joined"]
    /\ UNCHANGED <<known, upstream, telling, clientVars, bounds, history>>

\* A mutant: the flag that ends the do loop is not set.
PickNeverEnds(s) ==
    /\ role[s] = "picking" /\ known[s] # <<>>
    /\ known' = [known EXCEPT ![s] = Tail(@)]
    /\ role' = [role EXCEPT ![s] = "joined"]
    /\ upstream' = [upstream EXCEPT ![s] =
                       IF Head(known[s]) = s THEN NoServer ELSE Head(known[s])]
    /\ UNCHANGED <<telling, clientVars, bounds, history>>

\* The end of the do loop: Await has returned.
Pick(s) ==
    /\ role[s] = "picking" /\ known[s] # <<>>
    /\ known' = [known EXCEPT ![s] = Tail(@)]
    /\ IF Head(known[s]) = s
       THEN /\ role' = [role EXCEPT ![s] = "leader"]
            /\ upstream' = [upstream EXCEPT ![s] = NoServer]
       ELSE /\ role' = [role EXCEPT ![s] = "joined"]
            /\ upstream' = [upstream EXCEPT ![s] = Head(known[s])]
    /\ UNCHANGED <<telling, clientVars, bounds, history>>

-----------------------------------------------------------------------------
(* Clients.                                                                *)

\* GetServers: the list, and from now on its additions.
Watch(c) ==
    /\ client[c] = "attached"
    /\ client' = [client EXCEPT ![c] = "watching"]
    /\ list' = [list EXCEPT ![c] = @ \o known[conn[c]]]
    /\ UNCHANGED <<serverVars, conn, bounds, history>>

\* A mutant: the newest server first.
ReconnectBackwards(c) ==
    /\ client[c] = "cut"
    /\ IF list[c] = <<>>
       THEN client' = [client EXCEPT ![c] = "stranded"] /\ UNCHANGED <<conn, list>>
       ELSE IF Up(Last(list[c]))
       THEN /\ client' = [client EXCEPT ![c] = "attached"]
            /\ conn' = [conn EXCEPT ![c] = Last(list[c])]
            /\ list' = [list EXCEPT ![c] = <<>>]
       ELSE /\ list' = [list EXCEPT ![c] = Front(@)]
            /\ UNCHANGED <<client, conn>>
    /\ UNCHANGED <<serverVars, bounds, history>>

\* handle_reconnect: the first server of the list that answers a health check,
\* leader or not; the list is forgotten.  With no server left it gives up, and
\* finds an empty list whenever it is called again.
Reconnect(c) ==
    /\ client[c] = "cut"
    /\ IF list[c] = <<>>
       THEN client' = [client EXCEPT ![c] = "stranded"] /\ UNCHANGED <<conn, list>>
       ELSE IF Up(Head(list[c]))
       THEN /\ client' = [client EXCEPT ![c] = "attached"]
            /\ conn' = [conn EXCEPT ![c] = Head(list[c])]
            /\ list' = [list EXCEPT ![c] = <<>>]
       ELSE /\ list' = [list EXCEPT ![c] = Tail(@)]
            /\ UNCHANGED <<client, conn>>
    /\ UNCHANGED <<serverVars, bounds, history>>

-----------------------------------------------------------------------------
Next ==
    \/ \E s, l \in Servers : Identify(s, l)
    \/ \E t \in telling : Announce(t)
    \/ \E s \in Servers : Follow(s) \/ Crash(s) \/ Drop(s) \/ Pick(s)
    \/ \E c \in Clients : Watch(c) \/ Reconnect(c)

Spec == Init /\ [][Next]_vars

\* Calls return and streams end; nobody need join, crash or be cut off.
Fairness ==
    /\ WF_vars(\E t \in telling : Announce(t))
    /\ \A s \in Servers : WF_vars(Follow(s) \/ Pick(s))
    /\ \A c \in Clients : WF_vars(Watch(c) \/ Reconnect(c))

FairSpec == Spec /\ Fairness

-----------------------------------------------------------------------------
(* Properties.                                                             *)

\* The ranges of the variables.
TypeOK ==
    /\ role \in [Servers -> {"off", "identifying", "joined", "following", "picking",
                             "leader"}]
    /\ known \in [Servers -> Seq(Servers)]
    /\ upstream \in [Servers -> Servers \cup {NoServer}]
    /\ telling \subseteq [to : Servers, about : Servers, call : 1 .. joins]
    /\ \A s \in Servers : upstream[s] = NoServer <=> role[s] \in {"off", "leader"}
    /\ client \in [Clients -> {"attached", "watching", "cut", "stranded"}]
    /\ conn \in [Clients -> Servers]
    /\ list \in [Clients -> Seq(Servers)]
    /\ joins \in 0 .. MaxJoins /\ crashes \in 0 .. MaxCrashes /\ drops \in 0 .. MaxDrops
    /\ order \in Seq(Servers) /\ late \in BOOLEAN /\ crossed \in BOOLEAN

Leaders == {s \in Servers : role[s] = "leader"}

\* A replica always finds a server to pick: it comes upon itself before its
\* list runs out (front() of an empty deque is undefined).
ListHoldsItself ==
    \A s \in Servers :
        role[s] \in {"identifying", "joined", "following", "picking"} => Contains(known[s], s)

\* As long as streams end only with their servers and nobody joins a promoted
\* server, the order of joining elects one leader.
OrderElectsOne == ~late /\ drops = 0 => Cardinality(Leaders) <= 1

\* Under the same conditions, and if no two joins overlap, a client that has a
\* channel to a live server is never attached to another than the leader.  (The
\* announcements of two overlapping joins may reach clients in the other order
\* than the one in which the servers were listed.)
ClientsFindLeader ==
    ~late /\ ~crossed /\ drops = 0 =>
        \A c \in Clients :
            client[c] \in {"attached", "watching"} /\ Leaders # {} => conn[c] \in Leaders

\* No server leads, and a replica is there to take over.
Leaderless == Leaders = {} /\ \E s \in Servers : Subscribed(s) \/ role[s] = "picking"

\* As long as nobody joins a promoted server, a cluster that lost its leader
\* gets another, or its replicas die.
LeaderReturns == (Leaderless /\ ~late) ~> (~Leaderless \/ late)

\* The cluster never has two leaders.
OneLeader == Cardinality(Leaders) <= 1

\* A cluster that lost its leader gets another, whatever happened before.
LeaderAlwaysReturns == Leaderless ~> ~Leaderless

=============================================================================
