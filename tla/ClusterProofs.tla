--------------------------- MODULE ClusterProofs ---------------------------
(***************************************************************************)
(* What holds of the membership lists for any number of servers, joins,    *)
(* crashes and dropped streams.                                            *)
(***************************************************************************)
EXTENDS Cluster, SequenceTheorems, FiniteSetTheorems, TLAPS

Waiting == {"identifying", "joined", "following", "picking"}

\* Appending to a list and dropping its head keep what they leave.
LEMMA AppendHolds ==
    ASSUME NEW S, NEW q \in Seq(S), NEW e \in S, NEW x
    PROVE  /\ Append(q, e) \in Seq(S)
           /\ Contains(Append(q, e), e)
           /\ Contains(q, x) => Contains(Append(q, e), x)
  <1>1. Append(q, e) \in Seq(S)
    OBVIOUS
  <1>2. Contains(Append(q, e), e)
    <2>1. Len(q) + 1 \in 1 .. Len(Append(q, e)) /\ Append(q, e)[Len(q) + 1] = e
      OBVIOUS
    <2> QED BY <2>1 DEF Contains
  <1>3. ASSUME Contains(q, x) PROVE Contains(Append(q, e), x)
    <2>1. PICK i \in 1 .. Len(q) : q[i] = x
      BY <1>3 DEF Contains
    <2>2. i \in 1 .. Len(Append(q, e)) /\ Append(q, e)[i] = x
      BY <2>1
    <2> QED BY <2>2 DEF Contains
  <1> QED BY <1>1, <1>2, <1>3

LEMMA TailHolds ==
    ASSUME NEW S, NEW q \in Seq(S), q # <<>>, NEW x
    PROVE  /\ Head(q) \in S /\ Tail(q) \in Seq(S)
           /\ Contains(q, x) /\ Head(q) # x => Contains(Tail(q), x)
  <1>1. Head(q) \in S /\ Tail(q) \in Seq(S)
    OBVIOUS
  <1>2. ASSUME Contains(q, x), Head(q) # x PROVE Contains(Tail(q), x)
    <2>1. PICK i \in 1 .. Len(q) : q[i] = x
      BY <1>2 DEF Contains
    <2>2. i # 1
      BY <1>2, <2>1
    <2>3. i - 1 \in 1 .. Len(Tail(q)) /\ Tail(q)[i - 1] = x
      BY <2>1, <2>2
    <2> QED BY <2>3 DEF Contains
  <1> QED BY <1>1, <1>2

\* The ranges of the variables are an invariant: a newcomer, a failover and a
\* crash leave every role with the upstream it needs.
THEOREM TypeCorrect == Spec => []TypeOK
  <1>1. Init => TypeOK
    <2> SUFFICES ASSUME Init PROVE TypeOK
      OBVIOUS
    <2>1. /\ role \in [Servers -> {"off", "leader"}]
          /\ known \in [Servers -> Seq(Servers)]
          /\ upstream \in [Servers -> {NoServer}]
      BY DEF Init
    <2>2. /\ client \in [Clients -> {"attached", "watching", "cut", "stranded"}]
          /\ conn \in [Clients -> Servers]
          /\ list \in [Clients -> Seq(Servers)]
      BY ClusterAssumption DEF Init
    <2>3. joins \in 0 .. MaxJoins /\ crashes \in 0 .. MaxCrashes /\ drops \in 0 .. MaxDrops
      BY ClusterAssumption DEF Init
    <2>4. telling = {} /\ late \in BOOLEAN /\ crossed \in BOOLEAN
      BY DEF Init
    <2>5. order \in Seq(Servers)
      BY DEF Init
    <2> QED BY <2>1, <2>2, <2>3, <2>4, <2>5 DEF TypeOK
  <1>2. TypeOK /\ [Next]_vars => TypeOK'
    <2> SUFFICES ASSUME TypeOK, [Next]_vars PROVE TypeOK'
      OBVIOUS
    <2> USE ClusterAssumption
    <2>1. ASSUME NEW s \in Servers, NEW l \in Servers, Identify(s, l) PROVE TypeOK'
      <3>1. s # l /\ s # NoServer /\ l # NoServer
        BY <2>1 DEF Identify
      <3>2. known' \in [Servers -> Seq(Servers)]
        BY <2>1, AppendHolds DEF Identify, TypeOK
      <3>3. joins' \in 0 .. MaxJoins /\ joins' = joins + 1 /\ joins \in Nat
        BY <2>1 DEF Identify, TypeOK
      <3>4. telling' \subseteq [to : Servers, about : Servers, call : 1 .. joins']
        BY <2>1, <3>3 DEF Identify, TypeOK
      <3>5. /\ role' \in [Servers -> {"off", "identifying", "joined", "following", "picking",
                                      "leader"}]
            /\ upstream' \in [Servers -> Servers \cup {NoServer}]
            /\ \A r \in Servers : upstream'[r] = NoServer <=> role'[r] \in {"off", "leader"}
        BY <2>1, <3>1 DEF Identify, TypeOK
      <3>6. order' \in Seq(Servers) /\ late' \in BOOLEAN /\ crossed' \in BOOLEAN
        BY <2>1, AppendHolds DEF Identify, TypeOK
      <3> QED BY <2>1, <3>2, <3>3, <3>4, <3>5, <3>6 DEF Identify, TypeOK, clientVars
    <2>2. ASSUME NEW t \in telling, Announce(t) PROVE TypeOK'
      <3>1. t.about \in Servers
        BY <2>2 DEF TypeOK
      <3>2. list' \in [Clients -> Seq(Servers)]
        BY <2>2, <3>1, AppendHolds DEF Announce, TypeOK
      <3>3. /\ role' \in [Servers -> {"off", "identifying", "joined", "following", "picking",
                                      "leader"}]
            /\ \A r \in Servers : upstream'[r] = NoServer <=> role'[r] \in {"off", "leader"}
        BY <2>2, <3>1 DEF Announce, TypeOK
      <3> QED BY <2>2, <3>2, <3>3 DEF Announce, TypeOK, bounds, history
    <2>3. ASSUME NEW s \in Servers, Follow(s) PROVE TypeOK'
      BY <2>3 DEF Follow, TypeOK, clientVars, bounds, history
    <2>4. ASSUME NEW s \in Servers, Crash(s) PROVE TypeOK'
      <3>1. known' \in [Servers -> Seq(Servers)]
        BY <2>4 DEF Crash, TypeOK
      <3>2. /\ role' \in [Servers -> {"off", "identifying", "joined", "following", "picking",
                                      "leader"}]
            /\ upstream' \in [Servers -> Servers \cup {NoServer}]
            /\ \A r \in Servers : upstream'[r] = NoServer <=> role'[r] \in {"off", "leader"}
        BY <2>4 DEF Crash, TypeOK
      <3>3. client' \in [Clients -> {"attached", "watching", "cut", "stranded"}]
        BY <2>4 DEF Crash, TypeOK
      <3>4. crashes' \in 0 .. MaxCrashes
        BY <2>4 DEF Crash, TypeOK
      <3>5. telling' \subseteq [to : Servers, about : Servers, call : 1 .. joins]
        BY <2>4 DEF Crash, TypeOK
      <3> QED BY <2>4, <3>1, <3>2, <3>3, <3>4, <3>5 DEF Crash, TypeOK, history
    <2>5. ASSUME NEW s \in Servers, Drop(s) PROVE TypeOK'
      BY <2>5 DEF Drop, TypeOK, clientVars, history
    <2>6. ASSUME NEW s \in Servers, Pick(s) PROVE TypeOK'
      <3>1. Head(known[s]) \in Servers /\ Tail(known[s]) \in Seq(Servers)
        BY <2>6, TailHolds DEF Pick, TypeOK
      <3>2. known' \in [Servers -> Seq(Servers)]
        BY <2>6, <3>1 DEF Pick, TypeOK
      <3>3. /\ role' \in [Servers -> {"off", "identifying", "joined", "following", "picking",
                                      "leader"}]
            /\ upstream' \in [Servers -> Servers \cup {NoServer}]
            /\ \A r \in Servers : upstream'[r] = NoServer <=> role'[r] \in {"off", "leader"}
        <4>1. CASE Head(known[s]) = s
          BY <2>6, <4>1 DEF Pick, TypeOK
        <4>2. CASE Head(known[s]) # s
          <5>1. Head(known[s]) # NoServer
            BY <3>1
          <5> DEFINE h == Head(known[s])
          <5>2. /\ role' = [role EXCEPT ![s] = "joined"]
                /\ upstream' = [upstream EXCEPT ![s] = h]
                /\ h \in Servers /\ h # NoServer
            BY <2>6, <4>2, <3>1, <5>1 DEF Pick
          <5> HIDE DEF h
          <5> QED BY <5>2 DEF TypeOK
        <4> QED BY <4>1, <4>2
      <3> QED BY <2>6, <3>2, <3>3 DEF Pick, TypeOK, clientVars, bounds, history
    <2>7. ASSUME NEW c \in Clients, Watch(c) PROVE TypeOK'
      BY <2>7 DEF Watch, TypeOK, serverVars, bounds, history
    <2>8. ASSUME NEW c \in Clients, Reconnect(c) PROVE TypeOK'
      <3>1. list[c] # <<>> => Head(list[c]) \in Servers /\ Tail(list[c]) \in Seq(Servers)
        BY TailHolds DEF TypeOK
      <3>2. /\ client' \in [Clients -> {"attached", "watching", "cut", "stranded"}]
            /\ conn' \in [Clients -> Servers]
            /\ list' \in [Clients -> Seq(Servers)]
        <4>1. CASE list[c] = <<>>
          BY <2>8, <4>1 DEF Reconnect, TypeOK
        <4>2. CASE list[c] # <<>> /\ Up(Head(list[c]))
          <5> DEFINE h == Head(list[c])
          <5>1. /\ client' = [client EXCEPT ![c] = "attached"]
                /\ conn' = [conn EXCEPT ![c] = h]
                /\ list' = [list EXCEPT ![c] = <<>>]
                /\ h \in Servers
            BY <2>8, <3>1, <4>2 DEF Reconnect
          <5>2. <<>> \in Seq(Servers)
            OBVIOUS
          <5> HIDE DEF h
          <5> QED BY <5>1, <5>2 DEF TypeOK
        <4>3. CASE list[c] # <<>> /\ ~Up(Head(list[c]))
          BY <2>8, <3>1, <4>3 DEF Reconnect, TypeOK
        <4> QED BY <4>1, <4>2, <4>3
      <3> QED BY <2>8, <3>2 DEF Reconnect, TypeOK, serverVars, bounds, history
    <2>9. CASE UNCHANGED vars
      BY <2>9 DEF vars, serverVars, clientVars, bounds, history, TypeOK
    <2> QED BY <2>1, <2>2, <2>3, <2>4, <2>5, <2>6, <2>7, <2>8, <2>9 DEF Next
  <1> QED BY <1>1, <1>2, PTL DEF Spec

\* A replica in whatever state finds itself in its own list, so that the
\* failover loop of the constructor never takes the front of an empty deque.
THEOREM ListCorrect == Spec => []ListHoldsItself
  <1>1. Init => ListHoldsItself
    BY DEF Init, ListHoldsItself
  <1>2. TypeOK /\ ListHoldsItself /\ [Next]_vars => ListHoldsItself'
    <2> SUFFICES ASSUME TypeOK, ListHoldsItself, [Next]_vars,
                        NEW r \in Servers, role'[r] \in Waiting
                 PROVE  Contains(known'[r], r)
      BY DEF ListHoldsItself, Waiting
    <2>0. /\ known[r] \in Seq(Servers)
          /\ role[r] \in Waiting => Contains(known[r], r)
      BY DEF TypeOK, ListHoldsItself, Waiting
    <2>1. ASSUME NEW s \in Servers, NEW l \in Servers, Identify(s, l)
          PROVE  Contains(known'[r], r)
      <3>1. s # l /\ known[l] \in Seq(Servers)
        BY <2>1 DEF Identify, TypeOK
      <3>2. CASE r = s
        BY <2>1, <3>1, <3>2, AppendHolds DEF Identify, TypeOK
      <3>3. CASE r # s
        <4>1. role'[r] = role[r] /\ r # l /\ known'[r] = known[r]
          BY <2>1, <3>3 DEF Identify, TypeOK, Waiting
        <4> QED BY <2>0, <4>1
      <3> QED BY <3>2, <3>3
    <2>2. ASSUME NEW t \in telling, Announce(t) PROVE Contains(known'[r], r)
      BY <2>0, <2>2 DEF Announce, TypeOK, Waiting
    <2>3. ASSUME NEW s \in Servers, Follow(s) PROVE Contains(known'[r], r)
      BY <2>0, <2>3 DEF Follow, TypeOK, Waiting
    <2>4. ASSUME NEW s \in Servers, Crash(s) PROVE Contains(known'[r], r)
      <3>1. r \notin Dying(s)
        BY <2>4 DEF Crash, TypeOK, Waiting
      <3> QED BY <2>0, <2>4, <3>1 DEF Crash, TypeOK, Waiting
    <2>5. ASSUME NEW s \in Servers, Drop(s) PROVE Contains(known'[r], r)
      BY <2>0, <2>5 DEF Drop, TypeOK, Waiting
    <2>6. ASSUME NEW s \in Servers, Pick(s) PROVE Contains(known'[r], r)
      <3>1. CASE r = s
        <4>1. known[s] # <<>> /\ Contains(known[s], s) /\ known'[s] = Tail(known[s])
          BY <2>0, <2>6, <3>1 DEF Pick, TypeOK, Waiting
        <4>2. Head(known[s]) # s
          BY <2>6, <3>1 DEF Pick, TypeOK, Waiting
        <4> QED BY <2>0, <3>1, <4>1, <4>2, TailHolds
      <3>2. CASE r # s
        BY <2>0, <2>6, <3>2 DEF Pick, TypeOK, Waiting
      <3> QED BY <3>1, <3>2
    <2>7. ASSUME NEW c \in Clients, Watch(c) \/ Reconnect(c) PROVE Contains(known'[r], r)
      BY <2>0, <2>7 DEF Watch, Reconnect, serverVars
    <2>8. CASE UNCHANGED vars
      BY <2>0, <2>8 DEF vars, serverVars
    <2> QED BY <2>1, <2>2, <2>3, <2>4, <2>5, <2>6, <2>7, <2>8 DEF Next
  <1> QED BY <1>1, <1>2, TypeCorrect, PTL DEF Spec

\* ------------------------------------------------------ OrderElectsOne

\* q is what is left of order after its first i servers, up to some later one.
Window(q, i) ==
    /\ i + Len(q) <= Len(order)
    /\ \A k \in 1 .. Len(q) : q[k] = order[i + k]

\* s has popped the first i servers: they are dead, but for the last, which it
\* follows or is.
Passed(s, i) ==
    /\ role[s] \in {"joined", "following", "picking", "leader"}
    /\ \A k \in 1 .. i - 1 : ~Up(order[k])
    /\ i # 0 =>
        /\ role[s] = "picking" => ~Up(order[i])
        /\ role[s] \in {"joined", "following"} => order[i] = upstream[s] \/ ~Up(order[i])
        /\ role[s] = "leader" => order[i] = s
    /\ role[s] = "leader" => i # 0

\* While the first server lives, all others wait for it, and their lists are
\* prefixes of its own.
FirstLeads ==
    /\ role[First] = "leader" /\ known[First] = order
    /\ \A s \in Servers \ {First} : Up(s) =>
        /\ role[s] \in {"identifying", "joined", "following"}
        /\ upstream[s] = First
        /\ Window(known[s], 0)

\* After its death each has passed over some part of the order.
FirstIsGone ==
    /\ role[First] = "off"
    /\ \A s \in Servers : Up(s) =>
        \E i \in 0 .. Len(order) : Window(known[s], i) /\ Passed(s, i)

OrderInv == ~late /\ drops = 0 => FirstLeads \/ FirstIsGone

LEMMA InitOrder == Init => OrderInv
  <1> SUFFICES ASSUME Init PROVE FirstLeads
    BY DEF OrderInv
  <1> QED BY ClusterAssumption DEF Init, FirstLeads, Up

\* A step that leaves lists, roles, streams and the order alone.
LEMMA SameOrder ==
    ASSUME FirstLeads \/ FirstIsGone,
           UNCHANGED <<role, known, upstream, order>>
    PROVE  FirstLeads' \/ FirstIsGone'
  BY DEF FirstLeads, FirstIsGone, Window, Passed, Up

LEMMA IdentifyOrder ==
    ASSUME TypeOK, FirstLeads \/ FirstIsGone,
           NEW s \in Servers, NEW l \in Servers, Identify(s, l), ~late'
    PROVE  FirstLeads'
  <1>1. l = First /\ role[First] = "leader" /\ FirstLeads
    <2>1. l = First
      BY DEF Identify, TypeOK
    <2> QED BY <2>1 DEF Identify, FirstIsGone
  <1>2. /\ s # First
        /\ role' = [role EXCEPT ![s] = "identifying"]
        /\ upstream' = [upstream EXCEPT ![s] = First]
        /\ known' = [known EXCEPT ![First] = Append(@, s), ![s] = Append(known[First], s)]
        /\ order' = Append(order, s)
    BY <1>1 DEF Identify
  <1>3. /\ order \in Seq(Servers) /\ First \in Servers
        /\ role \in [Servers -> {"off", "identifying", "joined", "following", "picking",
                                  "leader"}]
        /\ known \in [Servers -> Seq(Servers)]
        /\ upstream \in [Servers -> Servers \cup {NoServer}]
    BY ClusterAssumption DEF TypeOK
  <1>4. role'[First] = "leader" /\ known'[First] = order' /\ known'[s] = order'
    BY <1>1, <1>2, <1>3 DEF FirstLeads
  <1>5. ASSUME NEW r \in Servers \ {First}, Up(r)'
        PROVE  /\ role'[r] \in {"identifying", "joined", "following"}
               /\ upstream'[r] = First
               /\ Window(known[r], 0)'
    <2>1. CASE r = s
      <3>1. role'[r] = "identifying" /\ upstream'[r] = First
        BY <1>2, <1>3, <2>1
      <3>2. Window(order, 0)'
        <4>1. Len(order') \in Nat
          BY <1>2, <1>3
        <4> QED BY <4>1 DEF Window
      <3> QED BY <1>4, <2>1, <3>1, <3>2 DEF Window
    <2>2. CASE r # s
      <3>1. role'[r] = role[r] /\ upstream'[r] = upstream[r] /\ known'[r] = known[r]
        BY <1>2, <1>3, <2>2
      <3>2. Window(known[r], 0)
        BY <1>1, <1>5, <3>1 DEF FirstLeads, Up
      <3>3. Window(known[r], 0)'
        <4>1. /\ Len(order') = Len(order) + 1
              /\ \A k \in 1 .. Len(order) : order'[k] = order[k]
          BY <1>2, <1>3
        <4>2. Len(known[r]) \in Nat /\ Len(order) \in Nat
          BY <1>3
        <4> QED BY <3>1, <3>2, <4>1, <4>2 DEF Window
      <3> QED BY <1>1, <1>5, <3>1, <3>3 DEF FirstLeads, Up
    <2> QED BY <2>1, <2>2
  <1> QED BY <1>4, <1>5 DEF FirstLeads

LEMMA AnnounceOrder ==
    ASSUME TypeOK, FirstLeads \/ FirstIsGone, NEW t \in telling, Announce(t)
    PROVE  FirstLeads' \/ FirstIsGone'
  <1>1. /\ UNCHANGED <<known, upstream, order>>
        /\ role \in [Servers -> {"off", "identifying", "joined", "following", "picking",
                                  "leader"}]
        /\ t.about \in Servers /\ First \in Servers
    BY ClusterAssumption DEF Announce, history, TypeOK
  <1>2. \/ role' = role
        \/ role[t.about] = "identifying" /\ role' = [role EXCEPT ![t.about] = "joined"]
    BY DEF Announce
  <1>3. CASE role' = role
    BY <1>1, <1>3, SameOrder
  <1>4. CASE role[t.about] = "identifying" /\ role' = [role EXCEPT ![t.about] = "joined"]
    <2>1. FirstLeads /\ t.about # First
      BY <1>1, <1>4 DEF FirstLeads, FirstIsGone, Passed, Up
    <2> QED BY <1>1, <1>4, <2>1 DEF FirstLeads, Window, Up
  <1> QED BY <1>2, <1>3, <1>4

LEMMA FollowOrder ==
    ASSUME TypeOK, FirstLeads \/ FirstIsGone, NEW s \in Servers, Follow(s)
    PROVE  FirstLeads' \/ FirstIsGone'
  <1>1. /\ UNCHANGED <<known, upstream, order>>
        /\ role \in [Servers -> {"off", "identifying", "joined", "following", "picking",
                                  "leader"}]
        /\ order \in Seq(Servers) /\ First \in Servers
        /\ role[s] = "joined"
        /\ role' = [role EXCEPT ![s] = IF Up(upstream[s]) THEN "following" ELSE "picking"]
    BY ClusterAssumption DEF Follow, history, TypeOK
  <1>2. CASE FirstLeads
    <2>1. s # First /\ Up(upstream[s])
      BY <1>1, <1>2 DEF FirstLeads, Up
    <2>2. role' = [role EXCEPT ![s] = "following"]
      BY <1>1, <2>1
    <2> QED BY <1>1, <1>2, <2>1, <2>2 DEF FirstLeads, Window, Up
  <1>3. CASE FirstIsGone
    <2>1. \A r \in Servers : Up(r)' <=> Up(r)
      BY <1>1 DEF Up
    <2>2. role'[First] = "off"
      BY <1>1, <1>3 DEF FirstIsGone
    <2>3. ASSUME NEW r \in Servers, Up(r)'
          PROVE  \E i \in 0 .. Len(order') : (Window(known[r], i) /\ Passed(r, i))'
      <3>1. PICK i \in 0 .. Len(order) : Window(known[r], i) /\ Passed(r, i)
        BY <1>3, <2>1, <2>3 DEF FirstIsGone
      <3>2. Window(known[r], i)'
        BY <1>1, <3>1 DEF Window
      <3>3. \A k \in 1 .. i : order[k] \in Servers
        BY <1>1
      <3>4. \A k \in 1 .. i - 1 : ~Up(order[k])'
        BY <1>1, <2>1, <3>1, <3>3 DEF Passed
      <3>5. CASE r # s
        <4>1. role'[r] = role[r] /\ upstream'[r] = upstream[r]
          BY <1>1, <3>5
        <4>2. i # 0 => (~Up(order[i])' <=> ~Up(order[i]))
          BY <1>1, <2>1, <3>3
        <4>3. Passed(r, i)'
          BY <1>1, <3>1, <3>4, <4>1, <4>2 DEF Passed
        <4> QED BY <1>1, <3>2, <4>3
      <3>6. CASE r = s
        <4>1. i # 0 => (~Up(order[i])' <=> ~Up(order[i]))
          BY <1>1, <2>1, <3>3
        <4>2. i # 0 => order[i] = upstream[s] \/ ~Up(order[i])
          BY <1>1, <3>1, <3>6 DEF Passed
        <4>3. \/ role'[s] = "following"
              \/ role'[s] = "picking" /\ (i # 0 => ~Up(order[i]))
          BY <1>1, <4>2
        <4>4. Passed(s, i)'
          BY <1>1, <3>4, <4>1, <4>2, <4>3 DEF Passed
        <4> QED BY <1>1, <3>2, <3>6, <4>4
      <3> QED BY <3>5, <3>6
    <2> QED BY <2>2, <2>3 DEF FirstIsGone
  <1> QED BY <1>2, <1>3

LEMMA CrashOrder ==
    ASSUME TypeOK, FirstLeads \/ FirstIsGone, NEW s \in Servers, Crash(s)
    PROVE  FirstLeads' \/ FirstIsGone'
  <1>1. /\ order' = order /\ order \in Seq(Servers) /\ First \in Servers
        /\ s \in Dying(s)
        /\ \A r \in Servers :
              /\ r \in Dying(s) => role'[r] = "off"
              /\ r \notin Dying(s) =>
                    /\ known'[r] = known[r] /\ upstream'[r] = upstream[r]
                    /\ IF role[r] = "following" /\ upstream[r] \in Dying(s)
                       THEN role'[r] = "picking" ELSE role'[r] = role[r]
    BY ClusterAssumption DEF Crash, Dying, history, TypeOK
  <1>2. \A r \in Servers : Up(r)' => r \notin Dying(s) /\ Up(r)
    BY <1>1 DEF Up
  <1>3. CASE FirstLeads /\ s # First
    <2>1. First \notin Dying(s)
      BY <1>3 DEF FirstLeads, Dying
    <2>2. role'[First] = "leader" /\ known'[First] = order
      BY <1>1, <1>3, <2>1 DEF FirstLeads
    <2>3. ASSUME NEW r \in Servers \ {First}, Up(r)'
          PROVE  /\ role'[r] \in {"identifying", "joined", "following"}
                 /\ upstream'[r] = First
                 /\ Window(known[r], 0)'
      BY <1>1, <1>2, <1>3, <2>1, <2>3 DEF FirstLeads, Window
    <2> QED BY <1>1, <2>2, <2>3 DEF FirstLeads
  <1>4. CASE FirstLeads /\ s = First
    <2>1. role'[First] = "off"
      BY <1>1, <1>4
    <2>2. ASSUME NEW r \in Servers, Up(r)'
          PROVE  \E i \in 0 .. Len(order') : (Window(known[r], i) /\ Passed(r, i))'
      <3>1. /\ r # First /\ r \notin Dying(First) /\ Up(r)
        BY <1>1, <1>2, <1>4, <2>2
      <3>2. role[r] \in {"joined", "following"} /\ Window(known[r], 0)
        BY <1>4, <3>1 DEF FirstLeads, Dying
      <3>3. role'[r] \in {"joined", "following", "picking"}
        BY <1>1, <1>4, <3>1, <3>2
      <3>4. Window(known[r], 0)' /\ Passed(r, 0)'
        BY <1>1, <1>4, <3>1, <3>2, <3>3 DEF Window, Passed
      <3>5. 0 \in 0 .. Len(order')
        BY <1>1
      <3> QED BY <3>4, <3>5
    <2> QED BY <2>1, <2>2 DEF FirstIsGone
  <1>5. CASE FirstIsGone
    <2>1. role'[First] = "off"
      BY <1>1, <1>5 DEF FirstIsGone
    <2>2. ASSUME NEW r \in Servers, Up(r)'
          PROVE  \E i \in 0 .. Len(order') : (Window(known[r], i) /\ Passed(r, i))'
      <3>1. r \notin Dying(s) /\ Up(r)
        BY <1>2, <2>2
      <3>2. PICK i \in 0 .. Len(order) : Window(known[r], i) /\ Passed(r, i)
        BY <1>5, <3>1 DEF FirstIsGone
      <3>3. Window(known[r], i)'
        BY <1>1, <3>1, <3>2 DEF Window
      <3>4. \A k \in 1 .. i : order[k] \in Servers
        BY <1>1
      <3>5. \A k \in 1 .. i : ~Up(order[k]) => ~Up(order[k])'
        BY <1>1, <1>2, <3>4
      <3>6. \A k \in 1 .. i - 1 : ~Up(order[k])'
        BY <3>2, <3>5 DEF Passed
      <3>7. i # 0 => (~Up(order[i]) => ~Up(order[i])')
        BY <3>5
      <3>8. CASE role[r] = "following" /\ upstream[r] \in Dying(s)
        <4>1. role'[r] = "picking"
          BY <1>1, <3>1, <3>8
        <4>2. i # 0 => ~Up(order[i])'
          BY <1>1, <1>2, <3>2, <3>4, <3>7, <3>8 DEF Passed
        <4> QED BY <1>1, <3>3, <3>6, <4>1, <4>2 DEF Passed
      <3>9. CASE ~(role[r] = "following" /\ upstream[r] \in Dying(s))
        <4>1. role'[r] = role[r] /\ upstream'[r] = upstream[r]
          BY <1>1, <3>1, <3>9
        <4> QED BY <1>1, <3>2, <3>3, <3>6, <3>7, <4>1 DEF Passed
      <3> QED BY <3>8, <3>9
    <2> QED BY <2>1, <2>2 DEF FirstIsGone
  <1> QED BY <1>3, <1>4, <1>5

LEMMA PickOrder ==
    ASSUME TypeOK, FirstLeads \/ FirstIsGone, NEW s \in Servers, Pick(s)
    PROVE  FirstIsGone'
  <1>1. FirstIsGone /\ s # First
    BY DEF FirstLeads, FirstIsGone, Pick, Up
  <1> DEFINE h == Head(known[s])
  <1>2. /\ order' = order /\ order \in Seq(Servers) /\ First \in Servers
        /\ role[s] = "picking" /\ known[s] \in Seq(Servers) /\ known[s] # <<>>
        /\ role \in [Servers -> {"off", "identifying", "joined", "following", "picking",
                                  "leader"}]
        /\ known \in [Servers -> Seq(Servers)]
        /\ upstream \in [Servers -> Servers \cup {NoServer}]
    BY ClusterAssumption DEF Pick, history, TypeOK
  <1>3. /\ known'[s] = Tail(known[s])
        /\ \/ role'[s] = "leader" /\ h = s
           \/ role'[s] = "joined" /\ upstream'[s] = h
        /\ \A r \in Servers \ {s} :
              role'[r] = role[r] /\ upstream'[r] = upstream[r] /\ known'[r] = known[r]
    BY <1>2 DEF Pick
  <1>4. \A r \in Servers : Up(r)' <=> Up(r)
    BY <1>2, <1>3 DEF Up
  <1>5. role'[First] = "off"
    BY <1>1, <1>2, <1>3 DEF FirstIsGone
  <1>6. ASSUME NEW r \in Servers, Up(r)'
        PROVE  \E i \in 0 .. Len(order') : (Window(known[r], i) /\ Passed(r, i))'
    <2>1. PICK i \in 0 .. Len(order) : Window(known[r], i) /\ Passed(r, i)
      BY <1>1, <1>4, <1>6 DEF FirstIsGone
    <2>2. \A k \in 1 .. i : order[k] \in Servers
      BY <1>2
    <2>3. \A k \in 1 .. i : ~Up(order[k])' <=> ~Up(order[k])
      BY <1>2, <1>4, <2>2
    <2>4. CASE r # s
      <3>1. Window(known[r], i)'
        BY <1>2, <1>3, <2>1, <2>4 DEF Window
      <3>2. Passed(r, i)'
        BY <1>2, <1>3, <2>1, <2>3, <2>4 DEF Passed
      <3> QED BY <1>2, <3>1, <3>2
    <2>5. CASE r = s
      <3>1. /\ Len(known[s]) \in Nat \ {0}
            /\ h = known[s][1]
            /\ Len(Tail(known[s])) = Len(known[s]) - 1
            /\ \A k \in 1 .. Len(known[s]) - 1 : Tail(known[s])[k] = known[s][k + 1]
        BY <1>2, HeadTailProperties
      <3>2. /\ i + Len(known[s]) <= Len(order)
            /\ \A k \in 1 .. Len(known[s]) : known[s][k] = order[i + k]
        BY <2>1, <2>5 DEF Window
      <3>3. i + 1 \in 1 .. Len(order) /\ order[i + 1] = h /\ Len(order) \in Nat
        BY <1>2, <3>1, <3>2
      <3>4. Window(known[s], i + 1)'
        <4>1. (i + 1) + Len(known'[s]) <= Len(order')
          BY <1>2, <1>3, <3>1, <3>2
        <4>2. ASSUME NEW k \in 1 .. Len(known'[s])
              PROVE  known'[s][k] = order'[(i + 1) + k]
          <5>1. k \in 1 .. Len(known[s]) - 1 /\ k + 1 \in 1 .. Len(known[s])
            BY <1>3, <3>1
          <5>2. known[s][k + 1] = order[i + (k + 1)] /\ i + (k + 1) = (i + 1) + k
            BY <3>2, <5>1
          <5> QED BY <1>2, <1>3, <3>1, <5>1, <5>2
        <4> QED BY <4>1, <4>2 DEF Window
      <3>5. \A k \in 1 .. i : ~Up(order[k])'
        <4>1. \A k \in 1 .. i - 1 : ~Up(order[k])
          BY <2>1 DEF Passed
        <4>2. i # 0 => ~Up(order[i])
          BY <1>2, <2>1, <2>5 DEF Passed
        <4>3. \A k \in 1 .. i : k \in 1 .. i - 1 \/ k = i
          OBVIOUS
        <4> QED BY <2>3, <4>1, <4>2, <4>3
      <3>6. Passed(s, i + 1)'
        <4>1. (i + 1) - 1 = i /\ i + 1 # 0
          OBVIOUS
        <4>2. role'[s] = "leader" => order'[i + 1] = s
          BY <1>2, <1>3, <3>3
        <4>3. role'[s] \in {"joined", "following"} => order'[i + 1] = upstream'[s]
          BY <1>2, <1>3, <3>3
        <4> QED BY <1>2, <1>3, <3>5, <4>1, <4>2, <4>3 DEF Passed
      <3> QED BY <1>2, <2>5, <3>3, <3>4, <3>6
    <2> QED BY <2>4, <2>5
  <1> QED BY <1>5, <1>6 DEF FirstIsGone

LEMMA NextOrder == TypeOK /\ OrderInv /\ [Next]_vars => OrderInv'
  <1> SUFFICES ASSUME TypeOK, OrderInv, [Next]_vars, ~late', drops' = 0
               PROVE  FirstLeads' \/ FirstIsGone'
    BY DEF OrderInv
  <1>1. ~late /\ drops = 0 /\ \A s \in Servers : ~Drop(s)
    <2>1. drops \in Nat
      BY ClusterAssumption DEF TypeOK
    <2>2. \A s \in Servers : ~Drop(s)
      BY <2>1 DEF Drop
    <2>3. ~late
      BY DEF Next, vars, history, Identify, Announce, Follow, Crash, Drop, Pick, Watch,
             Reconnect
    <2>4. drops = 0
      BY <2>2 DEF Next, vars, bounds, Identify, Announce, Follow, Crash, Pick, Watch,
                  Reconnect
    <2> QED BY <2>2, <2>3, <2>4
  <1>2. FirstLeads \/ FirstIsGone
    BY <1>1 DEF OrderInv
  <1>3. CASE \/ \E c \in Clients : Watch(c) \/ Reconnect(c)
             \/ UNCHANGED vars
    <2>1. UNCHANGED <<role, known, upstream, order>>
      BY <1>3 DEF Watch, Reconnect, vars, serverVars, history
    <2> QED BY <1>2, <2>1, SameOrder
  <1> QED BY <1>1, <1>2, <1>3, IdentifyOrder, AnnounceOrder, FollowOrder, CrashOrder,
             PickOrder DEF Next

\* As long as nobody joins a promoted server and streams end only with their
\* servers, failover by the order of joining elects one leader at most: of two,
\* the later in the order has passed over the earlier, which must be dead.
THEOREM OrderCorrect == Spec => []OrderElectsOne
  <1>1. TypeOK /\ OrderInv => OrderElectsOne
    <2> SUFFICES ASSUME TypeOK, OrderInv, ~late, drops = 0
                 PROVE  Cardinality(Leaders) <= 1
      BY DEF OrderElectsOne
    <2>1. ASSUME NEW s \in Leaders, NEW t \in Leaders PROVE s = t
      <3>1. CASE FirstLeads
        BY <2>1, <3>1 DEF FirstLeads, Leaders, Up
      <3>2. CASE FirstIsGone
        <4>1. /\ s \in Servers /\ role[s] = "leader" /\ Up(s)
              /\ t \in Servers /\ role[t] = "leader" /\ Up(t)
          BY <2>1 DEF Leaders, Up
        <4>2. PICK i \in 0 .. Len(order) : Passed(s, i)
          BY <3>2, <4>1 DEF FirstIsGone
        <4>3. PICK j \in 0 .. Len(order) : Passed(t, j)
          BY <3>2, <4>1 DEF FirstIsGone
        <4>4. /\ i # 0 /\ order[i] = s /\ \A k \in 1 .. i - 1 : ~Up(order[k])
              /\ j # 0 /\ order[j] = t /\ \A k \in 1 .. j - 1 : ~Up(order[k])
          BY <4>1, <4>2, <4>3 DEF Passed
        <4>5. ~(i < j) /\ ~(j < i)
          <5>1. order \in Seq(Servers)
            BY DEF TypeOK
          <5>2. i \in 1 .. Len(order) /\ j \in 1 .. Len(order) /\ Len(order) \in Nat
            BY <4>4, <5>1
          <5>3. i < j => i \in 1 .. j - 1
            BY <5>2
          <5>4. j < i => j \in 1 .. i - 1
            BY <5>2
          <5> QED BY <4>1, <4>4, <5>3, <5>4
        <4>6. i = j
          BY <4>5
        <4> QED BY <4>4, <4>6
      <3> QED BY <3>1, <3>2 DEF OrderInv
    <2>2. Leaders = {} \/ \E s \in Leaders : Leaders = {s}
      BY <2>1
    <2> QED BY <2>2, FS_EmptySet, FS_Singleton
  <1> QED BY <1>1, InitOrder, NextOrder, TypeCorrect, PTL DEF Spec

\* --------------------------------------------------- ClientsFindLeader

\* Every server of a client's list comes after all that joined before it.
Full(l) ==
    \A k \in 1 .. Len(l) : \E p \in 1 .. Len(order) :
        /\ order[p] = l[k]
        /\ \A j \in 1 .. p - 1 : \E m \in 1 .. k : l[m] = order[j]

\* The list misses at most the server that is being announced.
Told(l) ==
    \A j \in 1 .. Len(order) :
        telling = {} \/ j < Len(order) => \E m \in 1 .. Len(l) : l[m] = order[j]

\* After the first server's death: of those that joined before a server of the
\* list, all are dead but f, where the client's channel leads, and those that
\* precede it in the list.
Covers(l, f) ==
    \A k \in 1 .. Len(l) : \E p \in 1 .. Len(order) :
        /\ order[p] = l[k]
        /\ \A j \in 1 .. p - 1 :
              ~Up(order[j]) \/ order[j] = f \/ \E m \in 1 .. k : l[m] = order[j]

\* f is the first in the order of joining that is still up.
FirstUp(f) ==
    /\ Up(f)
    /\ \E p \in 1 .. Len(order) :
        order[p] = f /\ \A j \in 1 .. p - 1 : ~Up(order[j]) \/ order[j] = f

\* While the first server lives, all clients are with it; no two joins overlap,
\* so that the announcement under way is that of the last.
Attending ==
    /\ \A t \in telling :
        telling = {t} /\ order # <<>> /\ t.to = First /\ t.about = order[Len(order)]
    /\ \A c \in Clients :
        /\ client[c] \in {"attached", "watching"} /\ conn[c] = First
        /\ client[c] = "attached" => list[c] = <<>>
        /\ Full(list[c])
        /\ client[c] = "watching" => Told(list[c])

\* After its death a client is with the first live server of the order, or on
\* the way there.
Searching ==
    /\ telling = {}
    /\ \A c \in Clients :
        /\ client[c] \in {"attached", "watching"} => FirstUp(conn[c])
        /\ client[c] = "attached" => list[c] = <<>>
        /\ client[c] = "cut" => ~Up(conn[c])
        /\ Covers(list[c], conn[c])

ClientInv ==
    ~late /\ ~crossed /\ drops = 0 =>
        (FirstLeads /\ Attending) \/ (FirstIsGone /\ Searching)

\* What the proofs need of the types of order and list.
LEMMA ClientTypes ==
    ASSUME TypeOK
    PROVE  /\ order \in Seq(Servers) /\ Len(order) \in Nat
           /\ \A c \in Clients : list[c] \in Seq(Servers) /\ Len(list[c]) \in Nat
           /\ \A k \in 1 .. Len(order) : order[k] \in Servers
  <1>1. order \in Seq(Servers) /\ list \in [Clients -> Seq(Servers)]
    BY DEF TypeOK
  <1>2. \A q \in Seq(Servers) : Len(q) \in Nat /\ \A k \in 1 .. Len(q) : q[k] \in Servers
    OBVIOUS
  <1> QED BY <1>1, <1>2

LEMMA InitClients == Init => ClientInv
  <1> SUFFICES ASSUME Init PROVE FirstLeads /\ Attending
    BY DEF ClientInv
  <1>1. FirstLeads
    BY ClusterAssumption DEF Init, FirstLeads, Up
  <1>2. Len(<<>>) = 0
    OBVIOUS
  <1>3. \A c \in Clients : Full(list[c])
    BY <1>2 DEF Init, Full
  <1> QED BY <1>1, <1>3 DEF Init, Attending

\* A newcomer is appended to the order: what the lists hold keeps its place.
LEMMA IdentifyClients ==
    ASSUME TypeOK, Attending,
           NEW s \in Servers, NEW l \in Servers, Identify(s, l), ~late', ~crossed'
    PROVE  Attending'
  <1>1. /\ telling = {} /\ l = First
        /\ UNCHANGED <<client, conn, list>> /\ order' = Append(order, s)
    BY DEF Identify, TypeOK, clientVars
  <1> DEFINE t == [to |-> First, about |-> s, call |-> joins']
  <1>2. telling' = {t}
    BY <1>1 DEF Identify
  <1>3. t.to = First /\ t.about = s
    OBVIOUS
  <1> HIDE DEF t
  <1>4. /\ Len(order') = Len(order) + 1 /\ Len(order) \in Nat
        /\ order'[Len(order) + 1] = s /\ order' # <<>>
        /\ \A k \in 1 .. Len(order) : order'[k] = order[k]
    BY <1>1, ClientTypes
  <1>5. ASSUME NEW c \in Clients PROVE Full(list[c])'
    <2>1. Full(list[c])
      BY DEF Attending
    <2>2. ASSUME NEW k \in 1 .. Len(list[c])
          PROVE  \E p \in 1 .. Len(order') :
                    /\ order'[p] = list[c][k]
                    /\ \A j \in 1 .. p - 1 : \E m \in 1 .. k : list[c][m] = order'[j]
      <3>1. PICK p \in 1 .. Len(order) :
                    /\ order[p] = list[c][k]
                    /\ \A j \in 1 .. p - 1 : \E m \in 1 .. k : list[c][m] = order[j]
        BY <2>1 DEF Full
      <3>2. \A j \in 1 .. p - 1 : order'[j] = order[j]
        BY <1>4
      <3>3. p \in 1 .. Len(order') /\ order'[p] = order[p]
        BY <1>4
      <3> QED BY <3>1, <3>2, <3>3
    <2> QED BY <1>1, <2>2 DEF Full
  <1>6. ASSUME NEW c \in Clients, client[c] = "watching" PROVE Told(list[c])'
    <2>1. \A j \in 1 .. Len(order) : \E m \in 1 .. Len(list[c]) : list[c][m] = order[j]
      BY <1>1, <1>6 DEF Attending, Told
    <2>2. ASSUME NEW j \in 1 .. Len(order'), j < Len(order')
          PROVE  \E m \in 1 .. Len(list[c]) : list[c][m] = order'[j]
      <3>1. j \in 1 .. Len(order)
        BY <1>4, <2>2
      <3> QED BY <1>4, <2>1, <3>1
    <2>3. telling' # {}
      BY <1>2
    <2> QED BY <1>1, <2>2, <2>3 DEF Told
  <1>7. \A c \in Clients : /\ client'[c] \in {"attached", "watching"} /\ conn'[c] = First
                           /\ client'[c] = "attached" => list'[c] = <<>>
    BY <1>1 DEF Attending
  <1>8. \A u \in telling' : /\ telling' = {u} /\ order' # <<>> /\ u.to = First
                            /\ u.about = order'[Len(order')]
    BY <1>2, <1>3, <1>4
  <1> QED BY <1>1, <1>5, <1>6, <1>7, <1>8 DEF Attending

\* The announcement completes the lists of those who watch; a client that called
\* GetServers since the append hears of the newcomer twice, which is harmless.
LEMMA AnnounceClients ==
    ASSUME TypeOK, Attending, NEW t \in telling, Announce(t)
    PROVE  Attending'
  <1>1. /\ telling' = {} /\ order' = order /\ client' = client /\ conn' = conn
        /\ order # <<>> /\ t.to = First /\ t.about = order[Len(order)]
    BY DEF Announce, Attending, history
  <1>2. Len(order) \in Nat /\ Len(order) \in 1 .. Len(order)
    BY <1>1, ClientTypes
  <1>3. ASSUME NEW c \in Clients, client[c] = "watching"
        PROVE  Full(list[c])' /\ Told(list[c])'
    <2> DEFINE q == list[c]
    <2>1. list'[c] = Append(q, order[Len(order)])
      BY <1>1, <1>3 DEF Announce, Attending
    <2>2. Full(q) /\ \A j \in 1 .. Len(order) :
                        j < Len(order) => \E m \in 1 .. Len(q) : q[m] = order[j]
      BY <1>3 DEF Attending, Told
    <2>3. q \in Seq(Servers) /\ Len(q) \in Nat
      BY ClientTypes
    <2> DEFINE r == list'[c]
    <2>4. /\ Len(r) = Len(q) + 1 /\ r[Len(q) + 1] = order[Len(order)]
          /\ \A m \in 1 .. Len(q) : r[m] = q[m]
      BY <2>1, <2>3
    <2>5. Full(q) <=> \A k \in 1 .. Len(q) : \E p \in 1 .. Len(order) :
                        /\ order[p] = q[k]
                        /\ \A j \in 1 .. p - 1 : \E m \in 1 .. k : q[m] = order[j]
      BY DEF Full
    <2> HIDE DEF q, r
    <2>6. ASSUME NEW j \in 1 .. Len(order) PROVE \E m \in 1 .. Len(r) : r[m] = order[j]
      <3>1. CASE j < Len(order)
        <4>1. PICK m \in 1 .. Len(q) : q[m] = order[j]
          BY <2>2, <3>1
        <4>2. m \in 1 .. Len(r) /\ r[m] = order[j]
          BY <2>3, <2>4, <4>1
        <4> QED BY <4>2
      <3>2. CASE ~(j < Len(order))
        <4>1. j = Len(order)
          BY <1>2, <3>2
        <4>2. Len(q) + 1 \in 1 .. Len(r)
          BY <2>3, <2>4
        <4> QED BY <2>4, <4>1, <4>2
      <3> QED BY <3>1, <3>2
    <2>7. ASSUME NEW k \in 1 .. Len(r)
          PROVE  \E p \in 1 .. Len(order) :
                    /\ order[p] = r[k]
                    /\ \A j \in 1 .. p - 1 : \E m \in 1 .. k : r[m] = order[j]
      <3>1. CASE k = Len(r)
        <4>1. order[Len(order)] = r[k]
          BY <2>4, <3>1
        <4>2. \A j \in 1 .. Len(order) - 1 : j \in 1 .. Len(order)
          BY <1>2
        <4>3. \A j \in 1 .. Len(order) - 1 : \E m \in 1 .. k : r[m] = order[j]
          BY <2>6, <3>1, <4>2
        <4> QED BY <1>2, <4>1, <4>3
      <3>2. CASE k # Len(r)
        <4>1. k \in 1 .. Len(q)
          BY <2>3, <2>4, <3>2
        <4>2. PICK p \in 1 .. Len(order) :
                    /\ order[p] = q[k]
                    /\ \A j \in 1 .. p - 1 : \E m \in 1 .. k : q[m] = order[j]
          BY <2>2, <2>5, <4>1
        <4>3. \A m \in 1 .. k : m \in 1 .. Len(q)
          BY <2>3, <4>1
        <4>4. \A m \in 1 .. k : r[m] = q[m]
          BY <2>4, <4>3
        <4>5. order[p] = r[k]
          BY <2>4, <4>1, <4>2
        <4> QED BY <4>2, <4>4, <4>5
      <3> QED BY <3>1, <3>2
    <2>8. Full(list[c])'
      BY <1>1, <2>7 DEF Full, r
    <2>9. Told(list[c])'
      BY <1>1, <2>6 DEF Told, r
    <2> QED BY <2>8, <2>9
  <1>4. ASSUME NEW c \in Clients, client[c] # "watching"
        PROVE  Full(list[c])' /\ list'[c] = <<>>
    <2>1. list'[c] = list[c] /\ list[c] = <<>> /\ Full(list[c])
      BY <1>4 DEF Announce, Attending
    <2> QED BY <1>1, <2>1 DEF Full
  <1>5. \A c \in Clients : client'[c] \in {"attached", "watching"} /\ conn'[c] = First
    BY <1>1 DEF Attending
  <1>6. \A c \in Clients : client[c] # "watching" <=> client[c] = "attached"
    BY DEF Attending
  <1> QED BY <1>1, <1>3, <1>4, <1>5, <1>6 DEF Attending

\* GetServers answers with the whole order, or with what its server has not
\* popped: the servers before that are dead, or the server itself.
LEMMA WatchClients ==
    ASSUME TypeOK, (FirstLeads /\ Attending) \/ (FirstIsGone /\ Searching),
           NEW c \in Clients, Watch(c)
    PROVE  (FirstLeads /\ Attending)' \/ (FirstIsGone /\ Searching)'
  <1>1. /\ UNCHANGED <<role, known, upstream, telling, conn, order>>
        /\ client[c] = "attached" /\ client' = [client EXCEPT ![c] = "watching"]
        /\ list' = [list EXCEPT ![c] = @ \o known[conn[c]]]
    BY DEF Watch, serverVars, history
  <1>2. /\ conn[c] \in Servers /\ known[conn[c]] \in Seq(Servers)
        /\ client \in [Clients -> {"attached", "watching", "cut", "stranded"}]
        /\ list \in [Clients -> Seq(Servers)]
    BY DEF TypeOK
  <1>3. list[c] = <<>>
    BY <1>1 DEF Attending, Searching
  <1>4. list'[c] = known[conn[c]] /\ client'[c] = "watching"
    BY <1>1, <1>2, <1>3
  <1>5. \A d \in Clients \ {c} : list'[d] = list[d] /\ client'[d] = client[d]
    BY <1>1, <1>2
  <1>6. CASE FirstLeads /\ Attending
    <2>1. FirstLeads'
      BY <1>1, <1>6 DEF FirstLeads, Window, Up
    <2>2. list'[c] = order
      BY <1>4, <1>6 DEF FirstLeads, Attending
    <2>3. Full(list[c])'
      <3>1. Len(order) \in Nat
        BY ClientTypes
      <3>2. ASSUME NEW k \in 1 .. Len(order)
            PROVE  \E p \in 1 .. Len(order) :
                      /\ order[p] = order[k]
                      /\ \A j \in 1 .. p - 1 : \E m \in 1 .. k : order[m] = order[j]
        <4>1. \A j \in 1 .. k - 1 : j \in 1 .. k
          BY <3>1
        <4> QED BY <4>1
      <3>3. order' = order
        BY <1>1
      <3> QED BY ONLY <2>2, <3>2, <3>3 DEF Full
    <2>4. Told(list[c])'
      BY <1>1, <2>2 DEF Told
    <2>5. ASSUME NEW d \in Clients \ {c}
          PROVE  Full(list[d])' /\ (client'[d] = "watching" => Told(list[d])')
      <3>1. /\ order' = order /\ telling' = telling
            /\ list'[d] = list[d] /\ client'[d] = client[d]
        BY <1>1, <1>5
      <3>2. Full(list[d]) /\ (client[d] = "watching" => Told(list[d]))
        BY <1>6 DEF Attending
      <3>3. Full(list[d])'
        BY ONLY <3>1, <3>2 DEF Full
      <3>4. client'[d] = "watching" => Told(list[d])'
        BY ONLY <3>1, <3>2 DEF Told
      <3> QED BY <3>3, <3>4
    <2>6. \A d \in Clients : Full(list[d])' /\ (client'[d] = "watching" => Told(list[d])')
      BY <2>3, <2>4, <2>5
    <2>7. \A d \in Clients : /\ client'[d] \in {"attached", "watching"} /\ conn'[d] = First
                             /\ client'[d] = "attached" => list'[d] = <<>>
      BY <1>1, <1>4, <1>5, <1>6 DEF Attending
    <2>8. \A t \in telling' :
             /\ telling' = {t} /\ order' # <<>>
             /\ t.to = First /\ t.about = order'[Len(order')]
      BY <1>1, <1>6 DEF Attending
    <2> QED BY <2>1, <2>6, <2>7, <2>8 DEF Attending
  <1>7. CASE FirstIsGone /\ Searching
    <2>1. FirstIsGone'
      BY <1>1, <1>7 DEF FirstIsGone, Window, Passed, Up
    <2> DEFINE f == conn[c]
    <2>2. f \in Servers /\ Up(f) /\ FirstUp(f)
      BY <1>1, <1>2, <1>7 DEF Searching, FirstUp
    <2>3. PICK i \in 0 .. Len(order) : Window(known[f], i) /\ Passed(f, i)
      BY <1>7, <2>2 DEF FirstIsGone
    <2>4. PICK p \in 1 .. Len(order) :
             order[p] = f /\ \A j \in 1 .. p - 1 : ~Up(order[j]) \/ order[j] = f
      BY <2>2 DEF FirstUp
    <2> HIDE DEF f
    <2>5. ASSUME i # 0 PROVE ~Up(order[i]) \/ order[i] = f
      <3>1. p > i - 1
        <4>1. Up(order[p])
          BY <2>2, <2>4
        <4> QED BY <2>3, <4>1 DEF Passed
      <3>2. i \in 1 .. p - 1 \/ i = p
        BY <2>5, <3>1
      <3> QED BY <2>4, <3>2
    <2>6. \A j \in 1 .. i : ~Up(order[j]) \/ order[j] = f
      <3>1. \A j \in 1 .. i : j \in 1 .. i - 1 \/ (j = i /\ i # 0)
        OBVIOUS
      <3> QED BY <2>3, <2>5, <3>1 DEF Passed
    <2> DEFINE q == known[f]
    <2>7. /\ Len(q) \in Nat /\ Len(order) \in Nat
          /\ i + Len(q) <= Len(order)
          /\ \A k \in 1 .. Len(q) : q[k] = order[i + k]
      BY <1>2, <2>3, ClientTypes DEF Window, f
    <2> HIDE DEF q
    <2>8. ASSUME NEW k \in 1 .. Len(q)
          PROVE  \E n \in 1 .. Len(order) :
                    /\ order[n] = q[k]
                    /\ \A j \in 1 .. n - 1 :
                          ~Up(order[j]) \/ order[j] = f \/ \E m \in 1 .. k : q[m] = order[j]
      <3>1. i + k \in 1 .. Len(order) /\ order[i + k] = q[k]
        BY <2>7
      <3>2. ASSUME NEW j \in 1 .. i + k - 1
            PROVE  ~Up(order[j]) \/ order[j] = f \/ \E m \in 1 .. k : q[m] = order[j]
        <4>1. CASE j \in 1 .. i
          BY <2>6, <4>1
        <4>2. CASE j \notin 1 .. i
          <5>1. j - i \in 1 .. k /\ j - i \in 1 .. Len(q) /\ i + (j - i) = j
            BY <2>7, <4>2
          <5> QED BY <2>7, <5>1
        <4> QED BY <4>1, <4>2
      <3> QED BY <3>1, <3>2
    <2>9. Covers(list[c], conn[c])'
      <3>1. order' = order /\ role' = role /\ list'[c] = q /\ conn'[c] = f
        BY <1>1, <1>4 DEF f, q
      <3> QED BY ONLY <2>8, <3>1 DEF Covers, Up
    <2>10. \A d \in Clients \ {c} : Covers(list[d], conn[d])'
      BY <1>1, <1>5, <1>7 DEF Searching, Covers, Up
    <2>11. \A d \in Clients : Covers(list[d], conn[d])'
      BY <2>9, <2>10
    <2>12. \A d \in Clients : client'[d] \in {"attached", "watching"} => FirstUp(conn[d])'
      BY <1>1, <1>4, <1>5, <1>7 DEF Searching, FirstUp, Up
    <2>13. \A d \in Clients : /\ client'[d] = "attached" => list'[d] = <<>>
                              /\ client'[d] = "cut" => ~Up(conn[d])'
      BY <1>1, <1>4, <1>5, <1>7 DEF Searching, Up
    <2> QED BY <1>1, <1>7, <2>1, <2>11, <2>12, <2>13 DEF Searching
  <1> QED BY <1>6, <1>7

\* Only the death of the first server sends clients from one phase to the next;
\* later deaths make fewer servers that a list would have to hold.
LEMMA CrashClients ==
    ASSUME TypeOK, (FirstLeads /\ Attending) \/ (FirstIsGone /\ Searching),
           NEW s \in Servers, Crash(s)
    PROVE  (FirstLeads /\ Attending)' \/ (FirstIsGone /\ Searching)'
  <1>1. /\ order' = order /\ conn' = conn /\ list' = list
        /\ telling' = {t \in telling : t.to \notin Dying(s)}
        /\ client' = [c \in Clients |->
                        IF conn[c] \in Dying(s) /\ client[c] \in {"attached", "watching"}
                        THEN "cut" ELSE client[c]]
        /\ \A r \in Servers : r \in Dying(s) => role'[r] = "off"
        /\ \A r \in Servers : Up(r)' => Up(r)
        /\ \A r \in Servers : Up(r) /\ r \notin Dying(s) => Up(r)'
        /\ s \in Dying(s)
    BY DEF Crash, history, Up, Dying
  <1>2. FirstLeads' \/ FirstIsGone'
    BY CrashOrder
  <1>3. First \in Servers /\ \A c \in Clients : conn[c] \in Servers
    BY ClusterAssumption DEF TypeOK
  <1>4. \A k \in 1 .. Len(order) : order[k] \in Servers
    BY ClientTypes
  <1>5. CASE FirstLeads /\ Attending /\ s # First
    <2>1. First \notin Dying(s)
      BY <1>5 DEF FirstLeads, Dying
    <2>2. role'[First] # "off"
      BY <1>1, <1>3, <1>5, <2>1 DEF FirstLeads, Up
    <2>3. FirstLeads'
      BY <1>2, <2>2 DEF FirstIsGone
    <2>4. telling' = telling
      BY <1>1, <1>5, <2>1 DEF Attending
    <2>5. \A c \in Clients : client'[c] = client[c]
      BY <1>1, <1>5, <2>1 DEF Attending
    <2>6. \A c \in Clients :
            /\ client'[c] \in {"attached", "watching"} /\ conn'[c] = First
            /\ client'[c] = "attached" => list'[c] = <<>>
            /\ Full(list[c])' /\ (client'[c] = "watching" => Told(list[c])')
      <3> SUFFICES ASSUME NEW c \in Clients
                   PROVE  /\ client'[c] \in {"attached", "watching"} /\ conn'[c] = First
                          /\ client'[c] = "attached" => list'[c] = <<>>
                          /\ Full(list[c])' /\ (client'[c] = "watching" => Told(list[c])')
        OBVIOUS
      <3>1. /\ client[c] \in {"attached", "watching"} /\ conn[c] = First
            /\ client[c] = "attached" => list[c] = <<>>
            /\ Full(list[c]) /\ (client[c] = "watching" => Told(list[c]))
        BY <1>5 DEF Attending
      <3>2. client'[c] = client[c] /\ conn' = conn /\ list' = list
        BY <1>1, <2>5
      <3>3. Full(list[c])'
        BY <1>1, <3>1 DEF Full
      <3>4. Told(list[c]) => Told(list[c])'
        BY <1>1, <2>4 DEF Told
      <3> QED BY <3>1, <3>2, <3>3, <3>4
    <2>7. \A t \in telling' :
            telling' = {t} /\ order' # <<>> /\ t.to = First /\ t.about = order'[Len(order')]
      BY <1>1, <1>5, <2>4 DEF Attending
    <2> QED BY <2>3, <2>6, <2>7 DEF Attending
  <1>6. CASE FirstLeads /\ Attending /\ s = First
    <2>1. role'[First] = "off" /\ ~Up(First)'
      BY <1>1, <1>3, <1>6 DEF Up
    <2>2. FirstIsGone'
      BY <1>2, <2>1 DEF FirstLeads
    <2>3. telling' = {}
      BY <1>1, <1>6 DEF Attending
    <2>4. \A c \in Clients : client'[c] = "cut" /\ ~Up(conn[c])'
      BY <1>1, <1>6, <2>1 DEF Attending
    <2>5. ASSUME NEW c \in Clients PROVE Covers(list[c], conn[c])'
      <3>1. Full(list[c])
        BY <1>6 DEF Attending
      <3> QED BY <1>1, <3>1 DEF Full, Covers
    <2> QED BY <2>2, <2>3, <2>4, <2>5 DEF Searching
  <1>7. CASE FirstIsGone /\ Searching
    <2>1. role'[First] = "off"
      BY <1>1, <1>3, <1>7 DEF FirstIsGone, Up
    <2>2. FirstIsGone'
      BY <1>2, <2>1 DEF FirstLeads
    <2>3. telling' = {}
      BY <1>1, <1>7 DEF Searching
    <2>4. \A k \in 1 .. Len(order) : ~Up(order[k]) => ~Up(order[k])'
      BY <1>1, <1>4
    <2>5. ASSUME NEW c \in Clients PROVE Covers(list[c], conn[c])'
      <3> DEFINE q == list[c]
                 f == conn[c]
      <3>1. Covers(q, f)
        BY <1>7 DEF Searching
      <3>2. ASSUME NEW k \in 1 .. Len(q)
            PROVE  \E p \in 1 .. Len(order) :
                      /\ order[p] = q[k]
                      /\ \A j \in 1 .. p - 1 :
                            \/ ~Up(order[j])' \/ order[j] = f
                            \/ \E m \in 1 .. k : q[m] = order[j]
        <4>1. PICK p \in 1 .. Len(order) :
                      /\ order[p] = q[k]
                      /\ \A j \in 1 .. p - 1 :
                            \/ ~Up(order[j]) \/ order[j] = f
                            \/ \E m \in 1 .. k : q[m] = order[j]
          BY <3>1 DEF Covers
        <4>2. \A j \in 1 .. p - 1 : j \in 1 .. Len(order)
          BY ClientTypes
        <4> QED BY <2>4, <4>1, <4>2
      <3> QED BY <1>1, <3>2 DEF Covers, Up
    <2>6. ASSUME NEW c \in Clients, client'[c] \in {"attached", "watching"}
          PROVE  FirstUp(conn[c])'
      <3> DEFINE f == conn[c]
      <3>1. f \notin Dying(s) /\ client[c] \in {"attached", "watching"}
        BY <1>1, <2>6
      <3>2. FirstUp(f)
        BY <1>7, <3>1 DEF Searching
      <3>3. Up(f)'
        BY <1>1, <1>3, <3>1, <3>2 DEF FirstUp, Up
      <3>4. PICK p \in 1 .. Len(order) :
               order[p] = f /\ \A j \in 1 .. p - 1 : ~Up(order[j]) \/ order[j] = f
        BY <3>2 DEF FirstUp
      <3>5. \A j \in 1 .. p - 1 : j \in 1 .. Len(order)
        BY ClientTypes
      <3>6. \A j \in 1 .. p - 1 : ~Up(order[j])' \/ order[j] = f
        BY <2>4, <3>4, <3>5
      <3> QED BY <1>1, <3>3, <3>4, <3>6 DEF FirstUp, Up
    <2>7. ASSUME NEW c \in Clients, client'[c] = "cut" PROVE ~Up(conn[c])'
      <3>1. CASE client[c] = "cut"
        BY <1>1, <1>3, <1>7, <3>1 DEF Searching, Up
      <3>2. CASE client[c] # "cut"
        <4>1. conn[c] \in Dying(s)
          BY <1>1, <2>7, <3>2
        <4> QED BY <1>1, <1>3, <4>1 DEF Up
      <3> QED BY <3>1, <3>2
    <2>8. \A c \in Clients : client'[c] = "attached" => list'[c] = <<>>
      BY <1>1, <1>7 DEF Searching
    <2> QED BY <2>2, <2>3, <2>5, <2>6, <2>7, <2>8 DEF Searching
  <1> QED BY <1>5, <1>6, <1>7

\* The head of the list, if it is up, is the first of the order that is; if it is
\* not, nothing is lost with it.
LEMMA ReconnectClients ==
    ASSUME TypeOK, FirstIsGone, Searching, NEW c \in Clients, Reconnect(c)
    PROVE  Searching'
  <1>1. /\ UNCHANGED <<role, telling, order>> /\ client[c] = "cut"
        /\ telling = {}
    BY DEF Reconnect, serverVars, history, Searching
  <1>2. /\ client \in [Clients -> {"attached", "watching", "cut", "stranded"}]
        /\ conn \in [Clients -> Servers]
        /\ list \in [Clients -> Seq(Servers)]
    BY DEF TypeOK
  <1>3. ASSUME NEW d \in Clients, d # c
        PROVE  /\ client'[d] \in {"attached", "watching"} => FirstUp(conn[d])'
               /\ client'[d] = "attached" => list'[d] = <<>>
               /\ client'[d] = "cut" => ~Up(conn[d])'
               /\ Covers(list[d], conn[d])'
    <2>1. client'[d] = client[d] /\ conn'[d] = conn[d] /\ list'[d] = list[d]
      BY <1>2, <1>3 DEF Reconnect
    <2>2. /\ client[d] \in {"attached", "watching"} => FirstUp(conn[d])
          /\ client[d] = "attached" => list[d] = <<>>
          /\ client[d] = "cut" => ~Up(conn[d])
          /\ Covers(list[d], conn[d])
      BY DEF Searching
    <2>3. order' = order /\ role' = role
      BY <1>1
    <2> QED BY ONLY <2>1, <2>2, <2>3 DEF FirstUp, Covers, Up
  <1> DEFINE q == list[c]
             f == conn[c]
  <1>4. q \in Seq(Servers) /\ Len(q) \in Nat /\ ~Up(f) /\ Covers(q, f)
    BY <1>1, ClientTypes DEF Searching
  <1>5. ASSUME q # <<>>, Up(Head(q)) PROVE FirstUp(Head(q))
    <2>1. 1 \in 1 .. Len(q) /\ q[1] = Head(q)
      BY <1>4, <1>5
    <2>2. PICK p \in 1 .. Len(order) :
             /\ order[p] = Head(q)
             /\ \A j \in 1 .. p - 1 :
                   ~Up(order[j]) \/ order[j] = f \/ \E m \in 1 .. 1 : q[m] = order[j]
      BY <1>4, <2>1 DEF Covers
    <2>3. \A m \in 1 .. 1 : m = 1
      OBVIOUS
    <2>4. \A j \in 1 .. p - 1 : ~Up(order[j]) \/ order[j] = Head(q)
      BY <1>4, <2>1, <2>2, <2>3
    <2> QED BY <1>5, <2>2, <2>4 DEF FirstUp
  <1>6. ASSUME q # <<>>, ~Up(Head(q)) PROVE Covers(Tail(q), f)
    <2>1. /\ Len(Tail(q)) = Len(q) - 1 /\ Head(q) = q[1]
          /\ \A k \in 1 .. Len(q) - 1 : Tail(q)[k] = q[k + 1]
      BY <1>4, <1>6, HeadTailProperties
    <2> HIDE DEF q, f
    <2>2. ASSUME NEW k \in 1 .. Len(Tail(q))
          PROVE  \E p \in 1 .. Len(order) :
                    /\ order[p] = Tail(q)[k]
                    /\ \A j \in 1 .. p - 1 :
                          \/ ~Up(order[j]) \/ order[j] = f
                          \/ \E m \in 1 .. k : Tail(q)[m] = order[j]
      <3>1. k + 1 \in 1 .. Len(q) /\ Tail(q)[k] = q[k + 1]
        BY <1>4, <2>1
      <3>2. PICK p \in 1 .. Len(order) :
               /\ order[p] = q[k + 1]
               /\ \A j \in 1 .. p - 1 :
                     \/ ~Up(order[j]) \/ order[j] = f
                     \/ \E m \in 1 .. k + 1 : q[m] = order[j]
        BY <1>4, <3>1 DEF Covers
      <3>3. ASSUME NEW j \in 1 .. p - 1, NEW m \in 1 .. k + 1, q[m] = order[j], Up(order[j])
            PROVE  \E n \in 1 .. k : Tail(q)[n] = order[j]
        <4>1. m # 1
          BY <1>6, <2>1, <3>3
        <4>2. m - 1 \in 1 .. k /\ m - 1 \in 1 .. Len(q) - 1 /\ (m - 1) + 1 = m
          BY <1>4, <2>1, <4>1
        <4> QED BY <2>1, <3>3, <4>2
      <3> QED BY <3>1, <3>2, <3>3
    <2> QED BY <2>2 DEF Covers
  <1>7. Covers(<<>>, Head(q)) /\ Covers(<<>>, Head(q))'
    <2>1. Len(<<>>) = 0
      OBVIOUS
    <2> QED BY <2>1 DEF Covers
  <1> HIDE DEF q, f
  <1>8. /\ client'[c] \in {"attached", "watching"} => FirstUp(conn[c])'
        /\ client'[c] = "attached" => list'[c] = <<>>
        /\ client'[c] = "cut" => ~Up(conn[c])'
        /\ Covers(list[c], conn[c])'
    <2>1. order' = order /\ role' = role
      BY <1>1
    <2>2. CASE q = <<>>
      <3>1. client'[c] = "stranded" /\ conn'[c] = f /\ list'[c] = q
        BY <1>2, <2>2 DEF Reconnect, q, f
      <3>2. Covers(q, f)
        BY <1>4
      <3> QED BY ONLY <2>1, <3>1, <3>2 DEF Covers, Up
    <2>3. CASE q # <<>> /\ Up(Head(q))
      <3>1. client'[c] = "attached" /\ conn'[c] = Head(q) /\ list'[c] = <<>>
        BY <1>2, <2>3 DEF Reconnect, q
      <3>2. FirstUp(Head(q)) /\ Len(<<>>) = 0
        BY <1>5, <2>3
      <3> QED BY ONLY <2>1, <3>1, <3>2 DEF Covers, FirstUp, Up
    <2>4. CASE q # <<>> /\ ~Up(Head(q))
      <3>1. client'[c] = "cut" /\ conn'[c] = f /\ list'[c] = Tail(q)
        BY <1>1, <1>2, <2>4 DEF Reconnect, q, f
      <3>2. Covers(Tail(q), f) /\ ~Up(f)
        BY <1>4, <1>6, <2>4
      <3> DEFINE r == Tail(q)
      <3>3. Covers(r, f) /\ list'[c] = r
        BY <3>1, <3>2
      <3> HIDE DEF r
      <3>4. Covers(list[c], conn[c])'
        BY ONLY <2>1, <3>1, <3>3 DEF Covers, Up
      <3>5. ~Up(conn[c])'
        BY ONLY <2>1, <3>1, <3>2 DEF Up
      <3> QED BY <3>1, <3>4, <3>5
    <2> QED BY <2>2, <2>3, <2>4
  <1>9. telling' = {}
    BY <1>1
  <1> QED BY <1>3, <1>8, <1>9 DEF Searching

\* What no client sees: a server follows, picks, or nothing happens.
LEMMA SameClients ==
    ASSUME Attending \/ Searching,
           UNCHANGED <<telling, client, conn, list, order>>,
           \A s \in Servers : Up(s)' <=> Up(s),
           TypeOK
    PROVE  /\ Attending => Attending'
           /\ Searching => Searching'
  <1>1. ASSUME Attending PROVE Attending'
    BY <1>1 DEF Attending, Full, Told
  <1>2. ASSUME Searching PROVE Searching'
    <2>1. \A c \in Clients : conn[c] \in Servers
      BY DEF TypeOK
    <2>2. \A k \in 1 .. Len(order) : order[k] \in Servers
      BY ClientTypes
    <2>3. Len(order) \in Nat
      BY ClientTypes
    <2>4. \A p \in 1 .. Len(order) : \A j \in 1 .. p - 1 : Up(order[j])' <=> Up(order[j])
      <3>1. \A p \in 1 .. Len(order) : \A j \in 1 .. p - 1 : j \in 1 .. Len(order)
        BY <2>3
      <3> QED BY <2>2, <3>1
    <2>5. ASSUME NEW c \in Clients
          PROVE  /\ FirstUp(conn[c]) => FirstUp(conn[c])'
                 /\ Covers(list[c], conn[c])'
                 /\ Up(conn[c])' <=> Up(conn[c])
      <3>1. Covers(list[c], conn[c])
        BY <1>2 DEF Searching
      <3>2. Up(conn[c])' <=> Up(conn[c])
        BY <2>1
      <3>3. order' = order /\ list' = list /\ conn' = conn
        OBVIOUS
      <3>4. Covers(list[c], conn[c])'
        <4> DEFINE q == list[c]
                   f == conn[c]
        <4>1. Covers(q, f) /\ list'[c] = q /\ conn'[c] = f
          BY <3>1, <3>3
        <4> HIDE DEF q, f
        <4>2. ASSUME NEW k \in 1 .. Len(q)
              PROVE  \E p \in 1 .. Len(order) :
                        /\ order[p] = q[k]
                        /\ \A j \in 1 .. p - 1 :
                              \/ ~Up(order[j])' \/ order[j] = f
                              \/ \E m \in 1 .. k : q[m] = order[j]
          <5>1. PICK p \in 1 .. Len(order) :
                   /\ order[p] = q[k]
                   /\ \A j \in 1 .. p - 1 :
                         \/ ~Up(order[j]) \/ order[j] = f
                         \/ \E m \in 1 .. k : q[m] = order[j]
            BY <4>1 DEF Covers
          <5>2. \A j \in 1 .. p - 1 : Up(order[j])' <=> Up(order[j])
            BY <2>4
          <5>3. \A j \in 1 .. p - 1 : ~Up(order[j]) => ~Up(order[j])'
            BY <3>3, <5>2 DEF Up
          <5>4. \A j \in 1 .. p - 1 :
                   \/ ~Up(order[j])' \/ order[j] = f
                   \/ \E m \in 1 .. k : q[m] = order[j]
            BY ONLY <5>1, <5>3
          <5> QED BY <5>1, <5>4
        <4>3. order' = order /\ list'[c] = q /\ conn'[c] = f
          BY <4>1
        <4> QED BY ONLY <4>2, <4>3 DEF Covers, Up
      <3>5. FirstUp(conn[c]) => FirstUp(conn[c])'
        BY ONLY <2>4, <3>2, <3>3 DEF FirstUp, Up
      <3> QED BY <3>2, <3>4, <3>5
    <2> QED BY <1>2, <2>5 DEF Searching
  <1> QED BY <1>1, <1>2

LEMMA NextClients == TypeOK /\ ClientInv /\ [Next]_vars => ClientInv'
  <1> SUFFICES ASSUME TypeOK, ClientInv, [Next]_vars, ~late', ~crossed', drops' = 0
               PROVE  (FirstLeads /\ Attending)' \/ (FirstIsGone /\ Searching)'
    BY DEF ClientInv
  <1>1. ~late /\ ~crossed /\ drops = 0 /\ \A s \in Servers : ~Drop(s)
    <2>1. drops \in Nat
      BY ClusterAssumption DEF TypeOK
    <2>2. \A s \in Servers : ~Drop(s)
      BY <2>1 DEF Drop
    <2>3. ~late /\ ~crossed
      <3>1. late' = (late \/ late') /\ crossed' = (crossed \/ crossed')
        <4>1. CASE \E s, l \in Servers : Identify(s, l)
          BY <4>1 DEF Identify
        <4>2. CASE ~\E s, l \in Servers : Identify(s, l)
          <5>1. late' = late /\ crossed' = crossed
            BY <4>2 DEF Next, vars, history, Announce, Follow, Crash, Drop, Pick, Watch,
                        Reconnect
          <5>2. late \in BOOLEAN /\ crossed \in BOOLEAN
            BY DEF TypeOK
          <5> QED BY <5>1, <5>2
        <4> QED BY <4>1, <4>2
      <3> QED BY <3>1
    <2>4. drops = 0
      BY <2>2 DEF Next, vars, bounds, Identify, Announce, Follow, Crash, Pick, Watch,
                  Reconnect
    <2> QED BY <2>2, <2>3, <2>4
  <1>2. (FirstLeads /\ Attending) \/ (FirstIsGone /\ Searching)
    BY <1>1 DEF ClientInv
  <1>3. FirstLeads \/ FirstIsGone
    BY <1>2
  <1>4. ASSUME NEW s \in Servers, NEW l \in Servers, Identify(s, l)
        PROVE  FirstLeads' /\ Attending'
    <2>1. FirstLeads'
      BY <1>3, <1>4, IdentifyOrder
    <2>2. l = First /\ role[First] = "leader"
      BY <1>4 DEF Identify, TypeOK
    <2>3. Attending
      BY <1>2, <2>2 DEF FirstIsGone
    <2>4. Attending'
      BY <1>4, <2>3, IdentifyClients
    <2> QED BY <2>1, <2>4
  <1>5. ASSUME NEW t \in telling, Announce(t) PROVE FirstLeads' /\ Attending'
    <2>1. FirstLeads /\ Attending
      BY <1>2, <1>5 DEF Searching
    <2>2. Attending'
      BY <1>5, <2>1, AnnounceClients
    <2>3. FirstLeads' \/ FirstIsGone'
      BY <1>3, <1>5, AnnounceOrder
    <2>4. role'[First] # "off"
      BY <1>5, <2>1, ClusterAssumption DEF Announce, FirstLeads, TypeOK
    <2> QED BY <2>2, <2>3, <2>4 DEF FirstIsGone
  <1>6. ASSUME NEW s \in Servers, Crash(s)
        PROVE  (FirstLeads /\ Attending)' \/ (FirstIsGone /\ Searching)'
    BY <1>2, <1>6, CrashClients
  <1>7. ASSUME NEW s \in Servers, Follow(s) \/ Pick(s)
        PROVE  (FirstLeads /\ Attending)' \/ (FirstIsGone /\ Searching)'
    <2>1. UNCHANGED <<telling, client, conn, list, order>>
      BY <1>7 DEF Follow, Pick, clientVars, history
    <2>2. \A r \in Servers : Up(r)' <=> Up(r)
      BY <1>7 DEF Follow, Pick, Up, TypeOK
    <2>3. (Attending => Attending') /\ (Searching => Searching')
      BY <1>2, <2>1, <2>2, SameClients
    <2>4. FirstLeads' \/ FirstIsGone'
      BY <1>3, <1>7, FollowOrder, PickOrder
    <2>5. First \in Servers
      BY ClusterAssumption
    <2> QED BY <1>2, <2>2, <2>3, <2>4, <2>5 DEF FirstLeads, FirstIsGone, Up
  <1>8. ASSUME NEW c \in Clients, Watch(c)
        PROVE  (FirstLeads /\ Attending)' \/ (FirstIsGone /\ Searching)'
    BY <1>2, <1>8, WatchClients
  <1>9. ASSUME NEW c \in Clients, Reconnect(c)
        PROVE  (FirstLeads /\ Attending)' \/ (FirstIsGone /\ Searching)'
    <2>1. FirstIsGone /\ Searching
      BY <1>2, <1>9 DEF Attending, Reconnect
    <2>2. UNCHANGED <<role, known, upstream, order>>
      BY <1>9 DEF Reconnect, serverVars, history
    <2>3. FirstIsGone'
      BY <2>1, <2>2 DEF FirstIsGone, Window, Passed, Up
    <2> QED BY <1>9, <2>1, <2>3, ReconnectClients
  <1>10. CASE UNCHANGED vars
    <2>1. UNCHANGED <<role, known, upstream, telling, client, conn, list, order>>
      BY <1>10 DEF vars, serverVars, clientVars, history
    <2>2. FirstLeads' <=> FirstLeads
      BY <2>1 DEF FirstLeads, Window, Up
    <2>3. FirstIsGone' <=> FirstIsGone
      BY <2>1 DEF FirstIsGone, Window, Passed, Up
    <2>4. \A r \in Servers : Up(r)' <=> Up(r)
      BY <2>1 DEF Up
    <2> QED BY <1>2, <2>1, <2>2, <2>3, <2>4, SameClients
  <1> QED BY <1>1, <1>4, <1>5, <1>6, <1>7, <1>8, <1>9, <1>10 DEF Next

\* As long as nobody joins a promoted server, no two joins overlap and streams end
\* only with their servers, handle_reconnect, which takes the first server of the
\* client's list that answers a health check, leader or not, takes the one that
\* failover by the order of joining elects.
THEOREM ClientsCorrect == Spec => []ClientsFindLeader
  <1>1. TypeOK /\ ClientInv => ClientsFindLeader
    <2> SUFFICES ASSUME TypeOK, ClientInv, ~late, ~crossed, drops = 0,
                        NEW c \in Clients, client[c] \in {"attached", "watching"},
                        NEW s \in Leaders
                 PROVE  conn[c] = s
      BY DEF ClientsFindLeader
    <2>1. s \in Servers /\ role[s] = "leader" /\ Up(s)
      BY DEF Leaders, Up
    <2>2. CASE FirstLeads /\ Attending
      BY <2>1, <2>2 DEF FirstLeads, Attending
    <2>3. CASE FirstIsGone /\ Searching
      <3>1. PICK i \in 0 .. Len(order) : Passed(s, i)
        BY <2>1, <2>3 DEF FirstIsGone
      <3>2. i # 0 /\ order[i] = s /\ \A k \in 1 .. i - 1 : ~Up(order[k])
        BY <2>1, <3>1 DEF Passed
      <3>3. FirstUp(conn[c])
        BY <2>3 DEF Searching
      <3>4. PICK p \in 1 .. Len(order) :
               /\ order[p] = conn[c]
               /\ \A j \in 1 .. p - 1 : ~Up(order[j]) \/ order[j] = conn[c]
        BY <3>3 DEF FirstUp
      <3>5. Up(order[p])
        BY <3>3, <3>4 DEF FirstUp
      <3>6. p \notin 1 .. i - 1
        BY <3>2, <3>5
      <3>7. i = p \/ i \in 1 .. p - 1
        BY <3>2, <3>6
      <3> QED BY <2>1, <3>2, <3>4, <3>7
    <2> QED BY <2>2, <2>3 DEF ClientInv
  <1> QED BY <1>1, InitClients, NextClients, TypeCorrect, PTL DEF Spec

=============================================================================
