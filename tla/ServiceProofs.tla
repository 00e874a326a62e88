--------------------------- MODULE ServiceProofs ---------------------------
(***************************************************************************)
(* Transactions on the shared connection, and the streams of users, for    *)
(* any number of calls at once, replicas and streams, and whatever the     *)
(* database holds; then what calls that do not overlap can rely on.        *)
(***************************************************************************)
EXTENDS Service, SequenceTheorems, TLAPS

\* The steps of the scripts.
Steps ==
    {"begin", "commit", "rollback", "insertUser", "findUser", "markUser",
     "insertConversation", "addMembers", "insertMessage", "findReceiver", "markRead",
     "markConversation", "markMessage", "stream", "notify"}

\* What is ahead of a call: a rollback is all there is, and a begin is the
\* first step of those that commit.
Ahead(q) ==
    /\ q \in Seq(Steps)
    /\ Contains(q, "rollback") => q = <<"rollback">>
    /\ \A k \in 1 .. Len(q) : q[k] = "begin" => k = 1 /\ Contains(q, "commit")

\* Every call has a legal rest of its steps ahead.
ScriptInv ==
    /\ rest \in [Handlers -> Seq(Steps)]
    /\ \A h \in Handlers : Ahead(rest[h])

\* What is ahead of a call that is in a transaction.
Ending(q) == ~Contains(q, "begin") /\ (Contains(q, "commit") \/ Contains(q, "rollback"))

\* What is left of a sequence without its head.
LEMMA TailContains ==
    ASSUME NEW q \in Seq(Steps), q # <<>>
    PROVE  /\ Tail(q) \in Seq(Steps)
           /\ \A x : Contains(Tail(q), x) => Contains(q, x)
           /\ \A x : Contains(q, x) /\ Head(q) # x => Contains(Tail(q), x)
           /\ \A k \in 1 .. Len(Tail(q)) : k + 1 \in 1 .. Len(q) /\ Tail(q)[k] = q[k + 1]
  <1>1. /\ Tail(q) \in Seq(Steps) /\ Head(q) = q[1]
        /\ Len(q) \in Nat \ {0} /\ Len(Tail(q)) = Len(q) - 1
        /\ \A k \in 1 .. Len(q) - 1 : Tail(q)[k] = q[k + 1]
    BY HeadTailProperties
  <1>2. ASSUME NEW x, Contains(Tail(q), x) PROVE Contains(q, x)
    <2>1. PICK k \in 1 .. Len(q) - 1 : Tail(q)[k] = x
      BY <1>1, <1>2 DEF Contains
    <2>2. k + 1 \in 1 .. Len(q) /\ q[k + 1] = x
      BY <1>1, <2>1
    <2> QED BY <2>2 DEF Contains
  <1>3. ASSUME NEW x, Contains(q, x), Head(q) # x PROVE Contains(Tail(q), x)
    <2>1. PICK k \in 1 .. Len(q) : q[k] = x
      BY <1>3 DEF Contains
    <2>2. k # 1
      BY <1>1, <1>3, <2>1
    <2>3. k - 1 \in 1 .. Len(Tail(q)) /\ Tail(q)[k - 1] = x
      BY <1>1, <2>1, <2>2
    <2> QED BY <2>3 DEF Contains
  <1> QED BY <1>1, <1>2, <1>3

\* A step taken leaves a legal sequence of steps, which ends the transaction if
\* the step was not the one to do so.
LEMMA TailAhead ==
    ASSUME NEW q, Ahead(q), q # <<>>
    PROVE  /\ Ahead(Tail(q))
           /\ Head(q) = "begin" => Ending(Tail(q))
           /\ Ending(q) /\ Head(q) \notin {"commit", "rollback"} => Ending(Tail(q))
  <1>1. q \in Seq(Steps) /\ Len(q) \in Nat \ {0} /\ Head(q) = q[1]
    BY HeadTailProperties DEF Ahead
  <1>2. ~Contains(Tail(q), "begin")
    <2> SUFFICES ASSUME NEW k \in 1 .. Len(Tail(q)), Tail(q)[k] = "begin" PROVE FALSE
      BY DEF Contains
    <2>1. k + 1 \in 1 .. Len(q) /\ q[k + 1] = "begin" /\ k \in Nat \ {0}
      BY <1>1, TailContains
    <2> QED BY <2>1 DEF Ahead
  <1>3. Contains(Tail(q), "rollback") => FALSE
    <2>1. CASE Contains(q, "rollback")
      <3>1. Len(q) = 1
        BY <2>1 DEF Ahead
      <3>2. Len(Tail(q)) = 0
        BY <1>1, <3>1, HeadTailProperties
      <3> QED BY <3>2 DEF Contains
    <2>2. CASE ~Contains(q, "rollback")
      BY <1>1, <2>2, TailContains
    <2> QED BY <2>1, <2>2
  <1>4. Ahead(Tail(q))
    BY <1>1, <1>2, <1>3, TailContains DEF Ahead, Contains
  <1>5. ASSUME Head(q) = "begin" PROVE Contains(Tail(q), "commit")
    <2>1. Contains(q, "commit")
      BY <1>1, <1>5 DEF Ahead
    <2> QED BY <1>1, <1>5, <2>1, TailContains
  <1>6. ASSUME Ending(q), Head(q) \notin {"commit", "rollback"}
        PROVE  Contains(Tail(q), "commit") \/ Contains(Tail(q), "rollback")
    BY <1>1, <1>6, TailContains DEF Ending
  <1> QED BY <1>2, <1>4, <1>5, <1>6 DEF Ending

\* The scripts are legal sequences of steps, and so are the handlers' ends.
LEMMA ScriptAhead ==
    /\ \A k \in DOMAIN Script : Ahead(Script[k])
    /\ Ahead(<<>>)
    /\ Ahead(<<"rollback">>) /\ Ending(<<"rollback">>)
  <1>1. Ahead(<<>>)
    BY DEF Ahead, Contains
  <1>2. Ahead(<<"rollback">>) /\ Ending(<<"rollback">>)
    <2> DEFINE q == <<"rollback">>
    <2>1. q \in Seq(Steps) /\ Len(q) = 1 /\ q[1] = "rollback"
      BY DEF Steps
    <2> HIDE DEF q
    <2>2. Contains(q, "rollback") /\ ~Contains(q, "begin")
      BY <2>1 DEF Contains
    <2>3. Ahead(q)
      BY <2>1, <2>2 DEF Ahead, q
    <2>4. Ending(q)
      BY <2>2 DEF Ending
    <2> QED BY <2>3, <2>4 DEF q
  <1>3. Ahead(<<"insertUser", "stream">>)
    <2> DEFINE q == <<"insertUser", "stream">>
    <2>1. /\ q \in Seq(Steps) /\ Len(q) = 2
          /\ q[1] = "insertUser" /\ q[2] = "stream"
      BY DEF Steps
    <2> HIDE DEF q
    <2>2. Ahead(q)
      BY <2>1 DEF Ahead, Contains
    <2> QED BY <2>2 DEF q
  <1>4. Ahead(<<"begin", "findUser", "markUser", "commit", "stream">>)
    <2> DEFINE q == <<"begin", "findUser", "markUser", "commit", "stream">>
    <2>1. /\ q \in Seq(Steps) /\ Len(q) = 5
          /\ q[1] = "begin" /\ q[2] = "findUser" /\ q[3] = "markUser"
          /\ q[4] = "commit" /\ q[5] = "stream"
      BY DEF Steps
    <2> HIDE DEF q
    <2>2. Ahead(q)
      BY <2>1 DEF Ahead, Contains
    <2> QED BY <2>2 DEF q
  <1>5. Ahead(<<"begin", "findUser", "insertConversation", "addMembers", "commit", "stream">>)
    <2> DEFINE q == <<"begin", "findUser", "insertConversation", "addMembers", "commit", "stream">>
    <2>1. /\ q \in Seq(Steps) /\ Len(q) = 6
          /\ q[1] = "begin" /\ q[2] = "findUser" /\ q[3] = "insertConversation"
          /\ q[4] = "addMembers" /\ q[5] = "commit" /\ q[6] = "stream"
      BY DEF Steps
    <2> HIDE DEF q
    <2>2. Ahead(q)
      BY <2>1 DEF Ahead, Contains
    <2> QED BY <2>2 DEF q
  <1>6. Ahead(<<"begin", "insertMessage", "findReceiver", "commit", "stream", "notify">>)
    <2> DEFINE q == <<"begin", "insertMessage", "findReceiver", "commit", "stream", "notify">>
    <2>1. /\ q \in Seq(Steps) /\ Len(q) = 6
          /\ q[1] = "begin" /\ q[2] = "insertMessage" /\ q[3] = "findReceiver"
          /\ q[4] = "commit" /\ q[5] = "stream" /\ q[6] = "notify"
      BY DEF Steps
    <2> HIDE DEF q
    <2>2. Ahead(q)
      BY <2>1 DEF Ahead, Contains
    <2> QED BY <2>2 DEF q
  <1>7. Ahead(<<"markRead", "stream", "notify">>)
    <2> DEFINE q == <<"markRead", "stream", "notify">>
    <2>1. /\ q \in Seq(Steps) /\ Len(q) = 3
          /\ q[1] = "markRead" /\ q[2] = "stream" /\ q[3] = "notify"
      BY DEF Steps
    <2> HIDE DEF q
    <2>2. Ahead(q)
      BY <2>1 DEF Ahead, Contains
    <2> QED BY <2>2 DEF q
  <1>8. Ahead(<<"markConversation", "stream">>)
    <2> DEFINE q == <<"markConversation", "stream">>
    <2>1. /\ q \in Seq(Steps) /\ Len(q) = 2
          /\ q[1] = "markConversation" /\ q[2] = "stream"
      BY DEF Steps
    <2> HIDE DEF q
    <2>2. Ahead(q)
      BY <2>1 DEF Ahead, Contains
    <2> QED BY <2>2 DEF q
  <1>9. Ahead(<<"markMessage", "stream">>)
    <2> DEFINE q == <<"markMessage", "stream">>
    <2>1. /\ q \in Seq(Steps) /\ Len(q) = 2
          /\ q[1] = "markMessage" /\ q[2] = "stream"
      BY DEF Steps
    <2> HIDE DEF q
    <2>2. Ahead(q)
      BY <2>1 DEF Ahead, Contains
    <2> QED BY <2>2 DEF q
  <1> QED BY <1>1, <1>2, <1>3, <1>4, <1>5, <1>6, <1>7, <1>8, <1>9 DEF Script

\* The inductive invariant of the transactions.
TransactionInv == ScriptInv /\ TransactionsEnd

LEMMA InitTransaction == Init => TransactionInv
  BY ScriptAhead DEF Init, TransactionInv, ScriptInv, Ahead, TransactionsEnd

\* A step of one call, done or failed, keeps every call's way to the end of its
\* transaction, unless it is that end.
LEMMA StepAhead ==
    ASSUME ScriptInv, NEW h \in Handlers, rest[h] # <<>>, Advance(h) \/ Throw(h)
    PROVE  /\ ScriptInv'
           /\ \A g \in Handlers :
                Ending(rest[g]) /\ (g = h => Head(rest[h]) \notin {"commit", "rollback"})
                    => Ending(rest'[g])
           /\ Head(rest[h]) = "begin" /\ Advance(h) => Ending(rest'[h])
  <1>1. rest \in [Handlers -> Seq(Steps)] /\ \A g \in Handlers : Ahead(rest[g])
    BY DEF ScriptInv
  <1>2. /\ rest' \in [Handlers -> Seq(Steps)]
        /\ \A g \in Handlers \ {h} : rest'[g] = rest[g]
        /\ Ahead(rest'[h])
        /\ Ending(rest[h]) /\ Head(rest[h]) \notin {"commit", "rollback"} => Ending(rest'[h])
        /\ Head(rest[h]) = "begin" /\ Advance(h) => Ending(rest'[h])
    <2>1. CASE Advance(h)
      <3>1. rest' = [rest EXCEPT ![h] = Tail(rest[h])]
        BY <2>1 DEF Advance
      <3>2. Ahead(Tail(rest[h])) /\ Tail(rest[h]) \in Seq(Steps)
        BY <1>1, TailAhead DEF Ahead
      <3>3. rest'[h] = Tail(rest[h])
        BY <1>1, <3>1
      <3> QED BY <1>1, <3>1, <3>2, <3>3, TailAhead
    <2>2. CASE Throw(h) /\ ~Advance(h)
      <3> DEFINE e == IF Contains(rest[h], "commit") THEN <<"rollback">> ELSE <<>>
      <3>1. rest' = [rest EXCEPT ![h] = e]
        BY <2>2 DEF Throw
      <3>2. Ahead(e) /\ e \in Seq(Steps)
        <4>1. Ahead(e)
          BY ScriptAhead
        <4> QED BY <4>1 DEF Ahead
      <3>3. Ending(rest[h]) /\ Head(rest[h]) \notin {"commit", "rollback"} => Ending(e)
        <4>1. Contains(rest[h], "rollback") => Head(rest[h]) = "rollback"
          BY <1>1 DEF Ahead
        <4> QED BY <4>1, ScriptAhead DEF Ending
      <3> HIDE DEF e
      <3> QED BY <1>1, <2>2, <3>1, <3>2, <3>3
    <2> QED BY <2>1, <2>2
  <1>3. ScriptInv'
    BY <1>1, <1>2 DEF ScriptInv
  <1> QED BY <1>2, <1>3

\* A step that is neither the begin nor the end of a transaction.
LEMMA StatementStep ==
    ASSUME TransactionInv, NEW h \in Handlers, rest[h] # <<>>,
           Head(rest[h]) \notin {"commit", "rollback"},
           Advance(h) \/ Throw(h), tx' = tx, refused' = refused
    PROVE  TransactionInv'
  <1>1. ScriptInv' /\ \A g \in Handlers : Ending(rest[g]) => Ending(rest'[g])
    BY StepAhead DEF TransactionInv
  <1> QED BY <1>1 DEF TransactionInv, TransactionsEnd, InTransaction, Ending

\* One that leaves the calls and the transaction alone.
LEMMA SameTransaction ==
    ASSUME TransactionInv, UNCHANGED <<rest, tx, refused>>
    PROVE  TransactionInv'
  BY DEF TransactionInv, ScriptInv, TransactionsEnd, InTransaction

LEMMA StartStep ==
    ASSUME TransactionInv, NEW h \in Handlers, Start(h)
    PROVE  TransactionInv'
  <1>1. PICK c \in Requests : rest' = [rest EXCEPT ![h] = Script[c.kind]]
    BY DEF Start
  <1>2. Ahead(Script[c.kind])
    <2>1. c.kind \in DOMAIN Script
      BY DEF Requests, Script
    <2> QED BY <2>1, ScriptAhead
  <1> DEFINE q == Script[c.kind]
  <1>3. q \in Seq(Steps)
    BY <1>2 DEF Ahead
  <1> HIDE DEF q
  <1>4. /\ rest \in [Handlers -> Seq(Steps)]
        /\ rest' = [rest EXCEPT ![h] = q] /\ Ahead(q)
        /\ \A g \in Handlers : Ahead(rest[g])
    BY <1>1, <1>2 DEF TransactionInv, ScriptInv, q
  <1>5. ScriptInv'
    BY <1>3, <1>4 DEF ScriptInv
  <1>6. ~Ending(rest[h]) /\ tx' = tx /\ refused' = refused
    BY DEF Start, dbVars, Ending, Contains
  <1>7. \A g \in Handlers : Ending(rest[g]) => Ending(rest'[g])
    BY <1>4, <1>6
  <1> QED BY <1>5, <1>6, <1>7 DEF TransactionInv, TransactionsEnd, InTransaction, Ending

LEMMA NextTransaction == TransactionInv /\ [Next]_vars => TransactionInv'
  <1> SUFFICES ASSUME TransactionInv, [Next]_vars PROVE TransactionInv'
    OBVIOUS
  <1>1. ASSUME NEW h \in Handlers, Begin(h) PROVE TransactionInv'
    <2>1. rest[h] # <<>> /\ Head(rest[h]) = "begin" /\ refused' = refused
      BY <1>1 DEF Begin, At, history
    <2>2. CASE tx = None
      <3>1. ScriptInv' /\ Ending(rest'[h])
        BY <1>1, <2>1, <2>2, StepAhead DEF Begin, TransactionInv
      <3> QED BY <3>1 DEF TransactionInv, TransactionsEnd, InTransaction, Ending
    <2>3. CASE tx # None
      <3>1. Throw(h) /\ tx' = tx
        BY <1>1, <2>3 DEF Begin
      <3> QED BY <2>1, <3>1, StatementStep
    <2> QED BY <2>2, <2>3
  <1>2. ASSUME NEW h \in Handlers, Commit(h) PROVE TransactionInv'
    <2>1. rest[h] # <<>> /\ (Advance(h) \/ Throw(h)) /\ (tx' = None \/ refused')
      BY <1>2 DEF Commit, At
    <2>2. ScriptInv'
      BY <2>1, StepAhead DEF TransactionInv
    <2> QED BY <2>1, <2>2 DEF TransactionInv, TransactionsEnd
  <1>3. ASSUME NEW h \in Handlers, Rollback(h) PROVE TransactionInv'
    <2>1. rest[h] # <<>> /\ Advance(h) /\ tx' = None
      BY <1>3 DEF Rollback, At
    <2>2. ScriptInv'
      BY <2>1, StepAhead DEF TransactionInv
    <2> QED BY <2>1, <2>2 DEF TransactionInv, TransactionsEnd
  <1>4. ASSUME NEW h \in Handlers,
               \/ InsertUser(h) \/ FindUser(h) \/ MarkUser(h)
               \/ InsertConversation(h) \/ AddMembers(h)
               \/ InsertMessage(h) \/ FindReceiver(h)
               \/ MarkRead(h) \/ MarkConversation(h) \/ MarkMessage(h)
        PROVE  TransactionInv'
    <2>1. rest[h] # <<>> /\ Head(rest[h]) \notin {"commit", "rollback"}
      BY <1>4 DEF InsertUser, FindUser, MarkUser, InsertConversation, AddMembers,
                  InsertMessage, FindReceiver, MarkRead, MarkConversation, MarkMessage, At
    <2>2. tx' = tx /\ refused' = refused
      BY <1>4 DEF InsertUser, FindUser, MarkUser, InsertConversation, AddMembers,
                  InsertMessage, FindReceiver, MarkRead, MarkConversation, MarkMessage,
                  Statement, history
    <2>3. Advance(h) \/ Throw(h)
      BY <1>4 DEF InsertUser, FindUser, MarkUser, InsertConversation, AddMembers,
                  InsertMessage, FindReceiver, MarkRead, MarkConversation, MarkMessage,
                  Execute
    <2> QED BY <2>1, <2>2, <2>3, StatementStep
  <1>5. ASSUME NEW h \in Handlers, StreamDone(h) \/ Notify(h) PROVE TransactionInv'
    <2>1. /\ rest[h] # <<>> /\ Head(rest[h]) \notin {"commit", "rollback"}
          /\ Advance(h) /\ tx' = tx /\ refused' = refused
      BY <1>5 DEF StreamDone, Notify, At, dbVars, history
    <2> QED BY <2>1, StatementStep
  <1>6. ASSUME NEW h \in Handlers, Answer(h) PROVE TransactionInv'
    BY <1>6, SameTransaction DEF Answer, dbVars
  <1>7. ASSUME NEW h \in Handlers, NEW r \in Replicas, StreamTo(h, r)
        PROVE  TransactionInv'
    BY <1>7, SameTransaction DEF StreamTo, dbVars
  <1>8. ASSUME NEW r \in Replicas, CopyBegin(r) \/ CopyEnd(r) \/ Subscribe(r) \/ Leave(r)
        PROVE  TransactionInv'
    BY <1>8, SameTransaction
       DEF CopyBegin, CopyEnd, Subscribe, Leave, dbVars, callVars, history
  <1>9. ASSUME NEW s \in Streams, Register(s) \/ Cancel(s) \/ Deregister(s)
        PROVE  TransactionInv'
    BY <1>9, SameTransaction DEF Register, Cancel, Deregister, dbVars, callVars, history
  <1>10. CASE UNCHANGED vars
    BY <1>10, SameTransaction DEF vars, dbVars, callVars, history
  <1> QED BY <1>1, <1>2, <1>3, <1>4, <1>5, <1>6, <1>7, <1>8, <1>9, <1>10, StartStep
          DEF Next, CallStep

\* However many calls share the connection and end each other's transactions,
\* one that is open has a call that will commit it or roll it back, unless a
\* commit was refused and taken for done (database.hpp:118).
THEOREM TransactionsCorrect == Spec => []TransactionsEnd
  <1>1. TransactionInv => TransactionsEnd
    BY DEF TransactionInv
  <1> QED BY <1>1, InitTransaction, NextTransaction, PTL DEF Spec

-----------------------------------------------------------------------------
Kinds == {"message", "read"}

\* The states of a stream call.
StreamRow ==
    [st : {"unused", "open", "cancelled", "ended"},
     user : Listeners \cup {None}, kind : Kinds \cup {None}]

\* A registered stream is one that its user opened, for that kind of message.
WriterInv ==
    /\ stream \in [Streams -> StreamRow]
    /\ \A s \in Streams : stream[s].st # "unused"
                              => stream[s].user \in Listeners /\ stream[s].kind \in Kinds
    /\ writers \in [Listeners -> [Kinds -> Streams \cup {None}]]
    /\ \A u \in Listeners, k \in Kinds :
           writers[u][k] # None =>
               /\ stream[writers[u][k]].st \in {"open", "cancelled"}
               /\ stream[writers[u][k]].user = u
               /\ stream[writers[u][k]].kind = k

LEMMA InitWriter == Init => WriterInv
  <1> SUFFICES ASSUME Init PROVE WriterInv
    OBVIOUS
  <1>1. /\ stream = [s \in Streams |-> [st |-> "unused", user |-> None, kind |-> None]]
        /\ writers = [u \in Listeners |-> [message |-> None, read |-> None]]
    BY DEF Init
  <1>2. /\ [message |-> None, read |-> None] \in [Kinds -> Streams \cup {None}]
        /\ \A k \in Kinds : [message |-> None, read |-> None][k] = None
    BY DEF Kinds
  <1>3. writers \in [Listeners -> [Kinds -> Streams \cup {None}]]
    BY <1>1, <1>2
  <1>4. \A u \in Listeners, k \in Kinds : writers[u][k] = None
    BY <1>1, <1>2
  <1>5. stream \in [Streams -> StreamRow]
    BY <1>1 DEF StreamRow
  <1> QED BY <1>1, <1>3, <1>4, <1>5 DEF WriterInv

LEMMA RegisterStep ==
    ASSUME WriterInv, NEW s \in Streams, Register(s)
    PROVE  WriterInv'
  <1>1. PICK u \in Listeners, k \in Kinds :
            /\ stream' = [stream EXCEPT ![s] = [st |-> "open", user |-> u, kind |-> k]]
            /\ writers' = [writers EXCEPT ![u][k] = s]
    BY DEF Register, Kinds
  <1>2. /\ \A v \in Listeners, j \in Kinds :
               writers'[v][j] = IF v = u /\ j = k THEN s ELSE writers[v][j]
        /\ writers' \in [Listeners -> [Kinds -> Streams \cup {None}]]
    BY <1>1 DEF WriterInv
  <1>3. /\ \A q \in Streams : stream'[q] = IF q = s THEN [st |-> "open", user |-> u, kind |-> k]
                                           ELSE stream[q]
        /\ stream' \in [Streams -> StreamRow]
    BY <1>1 DEF WriterInv, StreamRow
  <1>4. \A q \in Streams : stream'[q].st # "unused"
                              => stream'[q].user \in Listeners /\ stream'[q].kind \in Kinds
    BY <1>3 DEF WriterInv
  <1>5. ASSUME NEW v \in Listeners, NEW j \in Kinds, writers'[v][j] # None
        PROVE  /\ stream'[writers'[v][j]].st \in {"open", "cancelled"}
               /\ stream'[writers'[v][j]].user = v
               /\ stream'[writers'[v][j]].kind = j
    <2>1. CASE v = u /\ j = k
      BY <1>2, <1>3, <2>1
    <2>2. CASE ~(v = u /\ j = k)
      <3>1. writers'[v][j] = writers[v][j] /\ writers[v][j] \in Streams
        BY <1>2, <1>5, <2>2 DEF WriterInv
      <3>2. stream[s].st = "unused"
        BY DEF Register
      <3>3. stream[writers[v][j]].st \in {"open", "cancelled"}
        BY <1>5, <3>1 DEF WriterInv
      <3>4. stream'[writers[v][j]] = stream[writers[v][j]]
        BY <1>3, <3>1, <3>2, <3>3
      <3>5. /\ stream[writers[v][j]].st \in {"open", "cancelled"}
            /\ stream[writers[v][j]].user = v /\ stream[writers[v][j]].kind = j
        BY <1>5, <3>1 DEF WriterInv
      <3> QED BY <3>1, <3>4, <3>5
    <2> QED BY <2>1, <2>2
  <1> QED BY <1>2, <1>3, <1>4, <1>5 DEF WriterInv

\* A stream that changes its state keeps its user and its kind.
LEMMA StateChange ==
    ASSUME WriterInv, NEW s \in Streams, NEW x \in {"cancelled", "ended"},
           stream' = [stream EXCEPT ![s].st = x]
    PROVE  /\ stream' \in [Streams -> StreamRow]
           /\ \A q \in Streams : q # s => stream'[q] = stream[q]
           /\ stream'[s].st = x /\ stream'[s].user = stream[s].user
           /\ stream'[s].kind = stream[s].kind
  <1>1. stream \in [Streams -> StreamRow] /\ stream[s] \in StreamRow
    BY DEF WriterInv
  <1> DEFINE row == [stream[s] EXCEPT !.st = x]
  <1>2. row \in StreamRow /\ row.st = x /\ row.user = stream[s].user /\ row.kind = stream[s].kind
    BY <1>1 DEF StreamRow
  <1>3. stream' = [stream EXCEPT ![s] = row]
    OBVIOUS
  <1> HIDE DEF row
  <1> QED BY <1>1, <1>2, <1>3

LEMMA CancelStep ==
    ASSUME WriterInv, NEW s \in Streams, Cancel(s)
    PROVE  WriterInv'
  <1>1. /\ stream[s].st = "open" /\ writers' = writers
        /\ stream' = [stream EXCEPT ![s].st = "cancelled"]
    BY DEF Cancel
  <1>2. /\ \A q \in Streams : q # s => stream'[q] = stream[q]
        /\ stream'[s].st = "cancelled" /\ stream'[s].user = stream[s].user
        /\ stream'[s].kind = stream[s].kind
        /\ stream' \in [Streams -> StreamRow]
    BY <1>1, StateChange
  <1> QED BY <1>1, <1>2 DEF WriterInv

LEMMA DeregisterStep ==
    ASSUME WriterInv, NEW s \in Streams, Deregister(s)
    PROVE  WriterInv'
  <1> DEFINE u == stream[s].user
             k == stream[s].kind
  <1>1. /\ stream[s].st = "cancelled" /\ u \in Listeners /\ k \in Kinds
        /\ stream' = [stream EXCEPT ![s].st = "ended"]
        /\ writers' = [writers EXCEPT ![u][k] = None]
    BY DEF Deregister, WriterInv
  <1>2. /\ \A q \in Streams : q # s => stream'[q] = stream[q]
        /\ stream'[s].st = "ended" /\ stream'[s].user = u /\ stream'[s].kind = k
        /\ stream' \in [Streams -> StreamRow]
    BY <1>1, StateChange
  <1> HIDE DEF u, k
  <1>3. /\ \A v \in Listeners, j \in Kinds :
               writers'[v][j] = IF v = u /\ j = k THEN None ELSE writers[v][j]
        /\ writers' \in [Listeners -> [Kinds -> Streams \cup {None}]]
    BY <1>1 DEF WriterInv
  <1>4. ASSUME NEW v \in Listeners, NEW j \in Kinds, writers'[v][j] # None
        PROVE  /\ stream'[writers'[v][j]].st \in {"open", "cancelled"}
               /\ stream'[writers'[v][j]].user = v
               /\ stream'[writers'[v][j]].kind = j
    <2>1. writers'[v][j] = writers[v][j] /\ writers[v][j] \in Streams /\ ~(v = u /\ j = k)
      BY <1>3, <1>4 DEF WriterInv
    <2>2. writers[v][j] # s
      BY <1>4, <2>1 DEF WriterInv, u, k
    <2> QED BY <1>2, <1>4, <2>1, <2>2 DEF WriterInv
  <1>5. \A q \in Streams : stream'[q].st # "unused"
                              => stream'[q].user \in Listeners /\ stream'[q].kind \in Kinds
    BY <1>1, <1>2 DEF WriterInv
  <1> QED BY <1>2, <1>3, <1>4, <1>5 DEF WriterInv

LEMMA NextWriter == WriterInv /\ [Next]_vars => WriterInv'
  <1> SUFFICES ASSUME WriterInv, [Next]_vars PROVE WriterInv'
    OBVIOUS
  <1>1. CASE UNCHANGED streamVars
    BY <1>1 DEF WriterInv, streamVars
  <1>2. ASSUME NEW h \in Handlers, CallStep(h) PROVE UNCHANGED streamVars
    BY <1>2 DEF CallStep, Start, Begin, Commit, Rollback, InsertUser, FindUser, MarkUser,
                InsertConversation, AddMembers, InsertMessage, FindReceiver, MarkRead,
                MarkConversation, MarkMessage, StreamDone, Notify, Answer, Statement
  <1>3. ASSUME NEW h \in Handlers, NEW r \in Replicas, StreamTo(h, r)
        PROVE  UNCHANGED streamVars
    BY <1>3 DEF StreamTo
  <1>4. ASSUME NEW r \in Replicas, CopyBegin(r) \/ CopyEnd(r) \/ Subscribe(r) \/ Leave(r)
        PROVE  UNCHANGED streamVars
    BY <1>4 DEF CopyBegin, CopyEnd, Subscribe, Leave
  <1>5. UNCHANGED vars => UNCHANGED streamVars
    BY DEF vars
  <1> QED BY <1>1, <1>2, <1>3, <1>4, <1>5, RegisterStep, CancelStep, DeregisterStep DEF Next

\* A notification finds in user_id_to_writers_ only streams whose call is still
\* running, however many a user opens and whichever of them end first
\* (impl.cpp:721-789).
THEOREM WritersCorrect == Spec => []NoDanglingWriter
  <1>1. WriterInv => NoDanglingWriter
    BY DEF WriterInv, NoDanglingWriter, Kinds
  <1> QED BY <1>1, InitWriter, NextWriter, PTL DEF Spec

-----------------------------------------------------------------------------
(* What is done to the database stays done: operations, one at a time.      *)

\* The ids of a table end at one that the next exceeds.
LEMMA NextIdFresh ==
    ASSUME NEW d, IsDatabase(d), NEW t \in Tables
    PROVE  LET id == Max(DOMAIN d[t] \cup {0}) + 1
           IN  id \in Nat \ {0} /\ \A i \in DOMAIN d[t] : i < id
  <1>1. IsTable(d[t], Columns[t])
    BY DEF IsDatabase
  <1> DEFINE S == DOMAIN d[t] \cup {0}
  <1>2. S \subseteq Nat /\ \E x \in S : \A y \in S : x >= y
    BY <1>1 DEF IsTable
  <1> HIDE DEF S
  <1>3. Max(S) \in S /\ \A y \in S : Max(S) >= y
    BY <1>2 DEF Max
  <1> QED BY <1>2, <1>3 DEF S

-----------------------------------------------------------------------------
\* What the next operation of a call on database d can be.
NextOp(d, op) ==
    \/ \E t \in Tables : \E id : \E flag \in Columns[t] \cap {"is_read", "is_deleted"} :
           op = Update(t, id, flag)
    \/ \E pairs : op = InsertMembers(pairs)
    \/ \E t \in Tables : \E row :
           /\ row = [c \in Columns[t] |-> row[c]]
           /\ op = Insert(t, Max(DOMAIN d[t] \cup {0}) + 1, row)
           /\ ~Conflicts(d, op)

\* An operation of the tables there are.
IsOp(op) ==
    \/ op.type = "update" /\ op.table \in Tables /\ op.flag \in Columns[op.table]
    \/ op.type = "insert" /\ op.table = "members"
    \/ op.type = "insert" /\ op.table \in Tables /\ DOMAIN op.row = Columns[op.table]

\* What Reflected says of the database, of any.
ReflectedIn(d, op) ==
    IF op.type = "update"
    THEN op.id \in DOMAIN d[op.table] /\ d[op.table][op.id][op.flag]
    ELSE IF op.table = "members" THEN op.pairs \subseteq d.members
    ELSE op.id \in DOMAIN d[op.table] /\
         \A f \in DOMAIN op.row \ {"is_read", "is_deleted"} :
             d[op.table][op.id][f] = op.row[f]

\* Reflected is about the database there is.
LEMMA ReflectedInDb == \A op : Reflected(op) <=> ReflectedIn(db, op)
  BY DEF Reflected, ReflectedIn

\* What was done to d stays done, and every id stays, in e.
Keeps(d, e) ==
    /\ IsDatabase(e)
    /\ \A op : IsOp(op) /\ ReflectedIn(d, op) => ReflectedIn(e, op)
    /\ \A t \in Tables : DOMAIN d[t] \subseteq DOMAIN e[t]

\* The database e is d with other rows in table t.
Replaces(e, d, t, rows) == e = [d EXCEPT ![t] = rows]

\* A table that is replaced leaves the others alone.
LEMMA Replaced ==
    ASSUME NEW d, IsDatabase(d), NEW t \in Tables, NEW rows, IsTable(rows, Columns[t]),
           NEW e, Replaces(e, d, t, rows)
    PROVE  /\ IsDatabase(e) /\ e[t] = rows /\ e.members = d.members
           /\ \A u \in Tables \ {t} : e[u] = d[u]
  <1>1. DOMAIN d = {"users", "convs", "members", "msgs"} /\ e = [d EXCEPT ![t] = rows]
    BY DEF IsDatabase, Replaces
  <1>2. /\ e[t] = rows /\ e.members = d.members
        /\ \A u \in Tables \ {t} : e[u] = d[u]
    BY <1>1 DEF Tables
  <1>3. e = [users |-> e.users, convs |-> e.convs, members |-> e.members, msgs |-> e.msgs]
    <2>1. DOMAIN e = {"users", "convs", "members", "msgs"}
      BY <1>1
    <2>2. e = [x \in DOMAIN e |-> e[x]]
      BY <1>1
    <2> QED BY <2>1, <2>2
  <1>4. \A u \in Tables : IsTable(e[u], Columns[u])
    BY <1>2 DEF IsDatabase
  <1>5. IsDatabase(e)
    BY <1>3, <1>4 DEF IsDatabase
  <1> QED BY <1>2, <1>5

\* The pairs of a conversation are added to those there are.
LEMMA MembersKept ==
    ASSUME NEW d, IsDatabase(d), NEW pairs
    PROVE  LET op == InsertMembers(pairs)
           IN  Keeps(d, Apply(d, op)) /\ IsOp(op) /\ ReflectedIn(Apply(d, op), op)
  <1> DEFINE op == InsertMembers(pairs)
             e == [d EXCEPT !.members = @ \cup pairs]
  <1>1. op.type = "insert" /\ op.table = "members" /\ op.pairs = pairs
    BY DEF InsertMembers
  <1>2. Apply(d, op) = e
    BY <1>1 DEF Apply
  <1>3. DOMAIN d = {"users", "convs", "members", "msgs"}
    BY DEF IsDatabase
  <1>4. e.members = d.members \cup pairs /\ \A u \in Tables : e[u] = d[u]
    BY <1>3 DEF Tables
  <1>5. e = [users |-> e.users, convs |-> e.convs, members |-> e.members, msgs |-> e.msgs]
    BY <1>3
  <1>6. IsDatabase(e)
    BY <1>4, <1>5 DEF IsDatabase
  <1> HIDE DEF e, op
  <1>7. ASSUME NEW o, IsOp(o), ReflectedIn(d, o) PROVE ReflectedIn(e, o)
    BY <1>4, <1>7 DEF ReflectedIn, IsOp
  <1>8. Keeps(d, e)
    BY <1>4, <1>6, <1>7 DEF Keeps
  <1>9. ReflectedIn(e, op)
    BY <1>1, <1>4 DEF ReflectedIn
  <1>10. IsOp(op)
    BY <1>1 DEF IsOp
  <1> QED BY <1>2, <1>8, <1>9, <1>10 DEF op

\* A flag that is set, in a row that is there.
LEMMA UpdateKept ==
    ASSUME NEW d, IsDatabase(d), NEW t \in Tables, NEW id,
           NEW flag \in Columns[t] \cap {"is_read", "is_deleted"}
    PROVE  LET op == Update(t, id, flag)
           IN  /\ Keeps(d, Apply(d, op)) /\ IsOp(op)
               /\ id \in DOMAIN d[t] => ReflectedIn(Apply(d, op), op)
  <1> DEFINE op == Update(t, id, flag)
             rows == [d[t] EXCEPT ![id] = [@ EXCEPT ![flag] = TRUE]]
  <1>1. op.type = "update" /\ op.table = t /\ op.id = id /\ op.flag = flag
    BY DEF Update
  <1>2. IsOp(op)
    BY <1>1 DEF IsOp
  <1>3. CASE id \notin DOMAIN d[t]
    <2>1. Apply(d, op) = d
      BY <1>1, <1>3 DEF Apply
    <2> QED BY <1>2, <1>3, <2>1 DEF Keeps
  <1>4. CASE id \in DOMAIN d[t]
    <2>1. Apply(d, op) = [d EXCEPT ![t] = rows]
      BY <1>1, <1>4 DEF Apply
    <2>2. IsTable(d[t], Columns[t])
      BY DEF IsDatabase
    <2>3. /\ DOMAIN rows = DOMAIN d[t]
          /\ \A i \in DOMAIN d[t] \ {id} : rows[i] = d[t][i]
          /\ DOMAIN d[t][id] = Columns[t]
          /\ rows[id][flag] = TRUE
          /\ \A c \in Columns[t] \ {flag} : rows[id][c] = d[t][id][c]
          /\ DOMAIN rows[id] = Columns[t]
          /\ rows[id] = [c \in Columns[t] |-> rows[id][c]]
      BY <1>4, <2>2 DEF IsTable
    <2>4. rows = [i \in DOMAIN rows |-> rows[i]]
      OBVIOUS
    <2> HIDE DEF rows
    <2>5. IsTable(rows, Columns[t])
      BY <2>2, <2>3, <2>4 DEF IsTable
    <2> HIDE DEF op
    <2> DEFINE e == Apply(d, op)
    <2> HIDE DEF e
    <2>6. /\ IsDatabase(e) /\ e[t] = rows /\ e.members = d.members
          /\ \A u \in Tables \ {t} : e[u] = d[u]
      <3>1. Replaces(e, d, t, rows)
        BY <2>1 DEF e, Replaces
      <3> QED BY <2>5, <3>1, Replaced
    <2>7. ReflectedIn(e, op)
      BY <1>1, <1>4, <2>3, <2>6 DEF ReflectedIn
    <2>8. ASSUME NEW o, IsOp(o), ReflectedIn(d, o) PROVE ReflectedIn(e, o)
      <3>1. CASE o.type = "insert" /\ o.table = "members"
        BY <2>6, <2>8, <3>1 DEF ReflectedIn
      <3>2. CASE o.type = "update" /\ o.table \in Tables /\ o.flag \in Columns[o.table]
        <4>1. o.id \in DOMAIN d[o.table] /\ d[o.table][o.id][o.flag]
          BY <2>8, <3>2 DEF ReflectedIn
        <4>2. o.id \in DOMAIN e[o.table] /\ e[o.table][o.id][o.flag]
          <5>1. CASE o.table = t /\ o.id = id
            <6>1. CASE o.flag = flag
              BY <2>3, <2>6, <4>1, <5>1, <6>1
            <6>2. CASE o.flag # flag
              BY <2>3, <2>6, <3>2, <4>1, <5>1, <6>2
            <6> QED BY <6>1, <6>2
          <5>2. CASE ~(o.table = t /\ o.id = id)
            BY <2>3, <2>6, <3>2, <4>1, <5>2
          <5> QED BY <5>1, <5>2
        <4> QED BY <3>2, <4>2 DEF ReflectedIn
      <3>3. CASE o.type = "insert" /\ o.table \in Tables /\ DOMAIN o.row = Columns[o.table]
        <4>1. o.table # "members"
          BY <3>3 DEF Tables
        <4>2. /\ o.id \in DOMAIN d[o.table]
              /\ \A f \in DOMAIN o.row \ {"is_read", "is_deleted"} :
                     d[o.table][o.id][f] = o.row[f]
          BY <2>8, <3>3, <4>1 DEF ReflectedIn
        <4>3. \A f \in DOMAIN o.row \ {"is_read", "is_deleted"} :
                     e[o.table][o.id][f] = o.row[f]
          BY <2>3, <2>6, <3>3, <4>2
        <4> QED BY <2>3, <2>6, <3>3, <4>1, <4>2, <4>3 DEF ReflectedIn
      <3> QED BY <2>8, <3>1, <3>2, <3>3 DEF IsOp
    <2>9. \A u \in Tables : DOMAIN d[u] \subseteq DOMAIN e[u]
      BY <2>3, <2>6
    <2> QED BY <1>2, <2>1, <2>6, <2>7, <2>8, <2>9 DEF Keeps, op, e
  <1> QED BY <1>3, <1>4

\* A row under the next id.
LEMMA InsertKept ==
    ASSUME NEW d, IsDatabase(d), NEW t \in Tables, NEW row,
           row = [c \in Columns[t] |-> row[c]]
    PROVE  LET op == Insert(t, Max(DOMAIN d[t] \cup {0}) + 1, row)
           IN  ~Conflicts(d, op) =>
                 Keeps(d, Apply(d, op)) /\ IsOp(op) /\ ReflectedIn(Apply(d, op), op)
  <1>1. PICK id : id = Max(DOMAIN d[t] \cup {0}) + 1
    OBVIOUS
  <1>2. id \in Nat \ {0} /\ \A i \in DOMAIN d[t] : i < id
    BY <1>1, NextIdFresh
  <1>3. PICK op : op = Insert(t, id, row)
    OBVIOUS
  <1>4. op.type = "insert" /\ op.table = t /\ op.id = id /\ op.row = row /\ t # "members"
    BY <1>3 DEF Insert, Tables
  <1>5. SUFFICES ASSUME ~Conflicts(d, op)
                 PROVE  Keeps(d, Apply(d, op)) /\ IsOp(op) /\ ReflectedIn(Apply(d, op), op)
    BY <1>1, <1>3
  <1> DEFINE rows == With(d[t], id, row)
  <1>6. PICK e : e = Apply(d, op)
    OBVIOUS
  <1>7. IsTable(d[t], Columns[t])
    BY DEF IsDatabase
  <1>8. /\ rows = [i \in DOMAIN rows |-> rows[i]]
        /\ DOMAIN rows = DOMAIN d[t] \cup {id} /\ rows[id] = row
        /\ \A i \in DOMAIN d[t] : rows[i] = d[t][i]
    <2>1. rows = [i \in DOMAIN d[t] \cup {id} |-> IF i = id THEN row ELSE d[t][i]]
      BY DEF With
    <2>2. \A i \in DOMAIN d[t] : i # id
      BY <1>2
    <2> HIDE DEF rows
    <2> QED BY <2>1, <2>2
  <1>9. Replaces(e, d, t, rows)
    BY <1>4, <1>5, <1>6 DEF Apply, Replaces
  <1> HIDE DEF rows
  <1>10. IsTable(rows, Columns[t])
    BY <1>2, <1>7, <1>8 DEF IsTable
  <1>11. /\ IsDatabase(e) /\ e[t] = rows /\ e.members = d.members
         /\ \A u \in Tables \ {t} : e[u] = d[u]
    BY <1>10, <1>9, Replaced
  <1>12. IsOp(op)
    BY <1>4 DEF IsOp
  <1>13. ReflectedIn(e, op)
    BY <1>4, <1>8, <1>11 DEF ReflectedIn
  <1>14. ASSUME NEW o, IsOp(o), ReflectedIn(d, o) PROVE ReflectedIn(e, o)
    <2>1. CASE o.type = "insert" /\ o.table = "members"
      BY <1>11, <1>14, <2>1 DEF ReflectedIn
    <2>2. CASE o.type # "members" /\ o.table \in Tables
      <3>1. /\ o.id \in DOMAIN d[o.table] => /\ o.id \in DOMAIN e[o.table]
                                             /\ e[o.table][o.id] = d[o.table][o.id]
            /\ o.table # "members"
        BY <1>8, <1>11, <2>2 DEF Tables
      <3> QED BY <1>14, <3>1 DEF ReflectedIn
    <2> QED BY <1>14, <2>1, <2>2 DEF IsOp
  <1>15. \A u \in Tables : DOMAIN d[u] \subseteq DOMAIN e[u]
    BY <1>8, <1>11
  <1> QED BY <1>6, <1>11, <1>12, <1>13, <1>14, <1>15 DEF Keeps

\* Whatever a call does next to a database keeps what was done to it.
LEMMA NextOpKept ==
    ASSUME NEW d, IsDatabase(d), NEW op, NextOp(d, op)
    PROVE  /\ Keeps(d, Apply(d, op)) /\ IsOp(op)
           /\ (op.type = "update" => op.id \in DOMAIN d[op.table])
                  => ReflectedIn(Apply(d, op), op)
  <1>1. CASE \E t \in Tables : \E id : \E flag \in Columns[t] \cap {"is_read", "is_deleted"} :
                 op = Update(t, id, flag)
    <2>1. PICK t \in Tables :
                 \E id : \E flag \in Columns[t] \cap {"is_read", "is_deleted"} :
                            op = Update(t, id, flag)
      BY <1>1
    <2>2. PICK id : \E flag \in Columns[t] \cap {"is_read", "is_deleted"} :
                       op = Update(t, id, flag)
      BY <2>1
    <2>3. PICK flag \in Columns[t] \cap {"is_read", "is_deleted"} : op = Update(t, id, flag)
      BY <2>2
    <2>4. op.type = "update" /\ op.id = id /\ op.table = t
      BY <2>3 DEF Update
    <2> QED BY <2>3, <2>4, UpdateKept
  <1>2. CASE \E pairs : op = InsertMembers(pairs)
    BY <1>2, MembersKept
  <1>3. CASE \E t \in Tables : \E row :
               /\ row = [c \in Columns[t] |-> row[c]]
               /\ op = Insert(t, Max(DOMAIN d[t] \cup {0}) + 1, row)
               /\ ~Conflicts(d, op)
    BY <1>3, InsertKept
  <1> QED BY <1>1, <1>2, <1>3 DEF NextOp

-----------------------------------------------------------------------------
(* The order of the steps of a call.                                        *)

\* The writes that come first in their call, and the reads that can fail it.
First == {"insertUser", "markUser", "insertConversation", "insertMessage",
          "markRead", "markConversation", "markMessage"}
Finds == {"findUser", "findReceiver"}

\* The steps that no call takes after a step s.
Passed(s) ==
    IF s \in First THEN First
    ELSE IF s = "addMembers" THEN First \cup {"addMembers"}
    ELSE IF s = "commit" THEN Finds \cup {"commit"}
    ELSE IF s = "stream" THEN First \cup {"addMembers", "commit", "stream"}
    ELSE {}

\* The order of what is ahead of a call: one first write, then the members; what
\* can fail, the end of the transaction, one stream.
Ordered(q) ==
    /\ \A j, k \in 1 .. Len(q) : j < k => q[k] \notin Passed(q[j])
    /\ \A x \in Finds : Contains(q, x) => Contains(q, "commit")
    /\ \A x \in First \cup {"addMembers", "commit"} : Contains(q, x) => Contains(q, "stream")

\* A script belongs to the call that names what its statements need.
Suits(q, kind) ==
    /\ Contains(q, "commit") => Contains(q, "begin")
    /\ Contains(q, "insertUser") => kind = "signup"
    /\ Contains(q, "markUser") => kind = "deleteUser"
    /\ Contains(q, "markConversation") => kind = "deleteConversation"
    /\ Contains(q, "markMessage") => kind = "deleteMessage"

\* The scripts are in order, and name the call they belong to.
LEMMA ScriptOrdered ==
    /\ \A k \in DOMAIN Script : Ordered(Script[k]) /\ Suits(Script[k], k)
    /\ Ordered(<<>>) /\ Ordered(<<"rollback">>)
  <1>1. \A q : q = <<"insertUser", "stream">>
           => Ordered(q) /\ Suits(q, "signup")
    <2> SUFFICES ASSUME NEW q, q = <<"insertUser", "stream">>
                 PROVE  Ordered(q) /\ Suits(q, "signup")
      OBVIOUS
    <2>1. /\ Len(q) = 2
          /\ q[1] = "insertUser" /\ q[2] = "stream"
      OBVIOUS
    <2> QED BY <2>1 DEF Ordered, Passed, Suits, Contains, First, Finds
  <1>2. \A q : q = <<"begin", "findUser", "markUser", "commit", "stream">>
           => Ordered(q) /\ Suits(q, "deleteUser")
    <2> SUFFICES ASSUME NEW q, q = <<"begin", "findUser", "markUser", "commit", "stream">>
                 PROVE  Ordered(q) /\ Suits(q, "deleteUser")
      OBVIOUS
    <2>1. /\ Len(q) = 5
          /\ q[1] = "begin" /\ q[2] = "findUser" /\ q[3] = "markUser"
          /\ q[4] = "commit" /\ q[5] = "stream"
      OBVIOUS
    <2> QED BY <2>1 DEF Ordered, Passed, Suits, Contains, First, Finds
  <1>3. \A q : q = <<"begin", "findUser", "insertConversation", "addMembers", "commit", "stream">>
           => Ordered(q) /\ Suits(q, "createConversation")
    <2> SUFFICES ASSUME NEW q, q = <<"begin", "findUser", "insertConversation", "addMembers", "commit", "stream">>
                 PROVE  Ordered(q) /\ Suits(q, "createConversation")
      OBVIOUS
    <2>1. /\ Len(q) = 6
          /\ q[1] = "begin" /\ q[2] = "findUser" /\ q[3] = "insertConversation"
          /\ q[4] = "addMembers" /\ q[5] = "commit" /\ q[6] = "stream"
      OBVIOUS
    <2> QED BY <2>1 DEF Ordered, Passed, Suits, Contains, First, Finds
  <1>4. \A q : q = <<"begin", "insertMessage", "findReceiver", "commit", "stream", "notify">>
           => Ordered(q) /\ Suits(q, "send")
    <2> SUFFICES ASSUME NEW q, q = <<"begin", "insertMessage", "findReceiver", "commit", "stream", "notify">>
                 PROVE  Ordered(q) /\ Suits(q, "send")
      OBVIOUS
    <2>1. /\ Len(q) = 6
          /\ q[1] = "begin" /\ q[2] = "insertMessage" /\ q[3] = "findReceiver"
          /\ q[4] = "commit" /\ q[5] = "stream" /\ q[6] = "notify"
      OBVIOUS
    <2> QED BY <2>1 DEF Ordered, Passed, Suits, Contains, First, Finds
  <1>5. \A q : q = <<"rollback">>
           => Ordered(q) /\ Suits(q, "sendEmpty")
    <2> SUFFICES ASSUME NEW q, q = <<"rollback">>
                 PROVE  Ordered(q) /\ Suits(q, "sendEmpty")
      OBVIOUS
    <2>1. /\ Len(q) = 1
          /\ q[1] = "rollback"
      OBVIOUS
    <2> QED BY <2>1 DEF Ordered, Passed, Suits, Contains, First, Finds
  <1>6. \A q : q = <<"markRead", "stream", "notify">>
           => Ordered(q) /\ Suits(q, "read")
    <2> SUFFICES ASSUME NEW q, q = <<"markRead", "stream", "notify">>
                 PROVE  Ordered(q) /\ Suits(q, "read")
      OBVIOUS
    <2>1. /\ Len(q) = 3
          /\ q[1] = "markRead" /\ q[2] = "stream" /\ q[3] = "notify"
      OBVIOUS
    <2> QED BY <2>1 DEF Ordered, Passed, Suits, Contains, First, Finds
  <1>7. \A q : q = <<"markConversation", "stream">>
           => Ordered(q) /\ Suits(q, "deleteConversation")
    <2> SUFFICES ASSUME NEW q, q = <<"markConversation", "stream">>
                 PROVE  Ordered(q) /\ Suits(q, "deleteConversation")
      OBVIOUS
    <2>1. /\ Len(q) = 2
          /\ q[1] = "markConversation" /\ q[2] = "stream"
      OBVIOUS
    <2> QED BY <2>1 DEF Ordered, Passed, Suits, Contains, First, Finds
  <1>8. \A q : q = <<"markMessage", "stream">>
           => Ordered(q) /\ Suits(q, "deleteMessage")
    <2> SUFFICES ASSUME NEW q, q = <<"markMessage", "stream">>
                 PROVE  Ordered(q) /\ Suits(q, "deleteMessage")
      OBVIOUS
    <2>1. /\ Len(q) = 2
          /\ q[1] = "markMessage" /\ q[2] = "stream"
      OBVIOUS
    <2> QED BY <2>1 DEF Ordered, Passed, Suits, Contains, First, Finds
  <1>9. Ordered(<<>>)
    BY DEF Ordered, Contains
  <1> QED BY <1>1, <1>2, <1>3, <1>4, <1>5, <1>6, <1>7, <1>8, <1>9 DEF Script

\* A step taken leaves the rest in order, and what it has passed is not ahead.
LEMMA TailOrdered ==
    ASSUME NEW q \in Seq(Steps), q # <<>>, Ordered(q)
    PROVE  /\ Ordered(Tail(q))
           /\ \A x \in Passed(Head(q)) : ~Contains(Tail(q), x)
           /\ Head(q) = "stream" => ~Contains(q, "commit")
  <1>1. /\ Tail(q) \in Seq(Steps) /\ Head(q) = q[1]
        /\ Len(q) \in Nat \ {0} /\ Len(Tail(q)) = Len(q) - 1
        /\ \A k \in 1 .. Len(q) - 1 : Tail(q)[k] = q[k + 1]
    BY HeadTailProperties
  <1>2. PICK p : p = Tail(q)
    OBVIOUS
  <1>3. \A k \in 1 .. Len(p) : k \in Nat \ {0} /\ k + 1 \in 1 .. Len(q) /\ p[k] = q[k + 1]
    BY <1>1, <1>2
  <1>4. \A x : Contains(p, x) => Contains(q, x)
    BY <1>1, <1>2, TailContains
  <1>5. \A x : Contains(q, x) /\ q[1] # x => Contains(p, x)
    BY <1>1, <1>2, TailContains
  <1>6. \A j, k \in 1 .. Len(p) : j < k => p[k] \notin Passed(p[j])
    <2> SUFFICES ASSUME NEW j \in 1 .. Len(p), NEW k \in 1 .. Len(p), j < k
                 PROVE  p[k] \notin Passed(p[j])
      OBVIOUS
    <2>1. /\ j + 1 \in 1 .. Len(q) /\ k + 1 \in 1 .. Len(q) /\ p[j] = q[j + 1]
          /\ p[k] = q[k + 1] /\ j + 1 < k + 1
      BY <1>3
    <2> QED BY <2>1 DEF Ordered
  <1>7. \A x : Contains(p, x) => x \notin Passed(q[1])
    <2> SUFFICES ASSUME NEW x, Contains(p, x) PROVE x \notin Passed(q[1])
      OBVIOUS
    <2>1. PICK k \in 1 .. Len(p) : p[k] = x
      BY DEF Contains
    <2>2. 1 \in 1 .. Len(q) /\ k + 1 \in 1 .. Len(q) /\ q[k + 1] = x /\ 1 < k + 1
      BY <1>1, <1>3, <2>1
    <2> QED BY <2>2 DEF Ordered
  <1>8. \A x \in Finds : Contains(p, x) => Contains(p, "commit")
    <2> SUFFICES ASSUME NEW x \in Finds, Contains(p, x) PROVE Contains(p, "commit")
      OBVIOUS
    <2>1. Passed("commit") = Finds \cup {"commit"}
      BY DEF Passed, First
    <2>2. q[1] # "commit"
      BY <1>7, <2>1
    <2> QED BY <1>4, <1>5, <2>2 DEF Ordered
  <1>9. \A x \in First \cup {"addMembers", "commit"} : Contains(p, x) => Contains(p, "stream")
    <2> SUFFICES ASSUME NEW x \in First \cup {"addMembers", "commit"}, Contains(p, x)
                 PROVE  Contains(p, "stream")
      OBVIOUS
    <2>1. x \in Passed("stream")
      BY DEF Passed, First
    <2>2. q[1] # "stream"
      BY <1>7, <2>1
    <2> QED BY <1>4, <1>5, <2>2 DEF Ordered
  <1>10. Ordered(p)
    BY <1>6, <1>8, <1>9 DEF Ordered
  <1>11. q[1] = "stream" => ~Contains(q, "commit")
    <2>1. "commit" \in Passed("stream")
      BY DEF Passed, First
    <2> QED BY <1>5, <1>7, <2>1
  <1> QED BY <1>1, <1>2, <1>7, <1>10, <1>11

-----------------------------------------------------------------------------
(* FoldLeft, unfolded for as many operations as a call has.                *)

\* What StreamTo does to a copy.
ReplayAll(d, q) == FoldLeft(Replay, d, q)

\* The function that the community module folds a sequence with.
IsFold(g, d, q) ==
    g = [s \in SUBSET DOMAIN q |->
            IF s = {} THEN d ELSE Replay(g[s \ {Max(s)}], q[Max(s)])]

\* The sets that a fold over at most two operations meets.
LEMMA Largest == Max({1}) = 1 /\ Max({2}) = 2 /\ Max({1, 2}) = 2
  BY DEF Max

\* A fold is such a function at the whole domain, if there is one.
LEMMA FoldExists ==
    ASSUME NEW d, NEW q, NEW w, IsFold(w, d, q)
    PROVE  \E g : IsFold(g, d, q) /\ ReplayAll(d, q) = g[DOMAIN q]
  <1> DEFINE Eq(g) ==
        g = [s \in SUBSET DOMAIN q |->
                IF s = {} THEN d ELSE Replay(g[s \ {Max(s)}], q[Max(s)])]
  <1>1. Eq(CHOOSE g : Eq(g))
    BY DEF IsFold
  <1>2. ReplayAll(d, q) = (CHOOSE g : Eq(g))[DOMAIN q]
    BY DEF ReplayAll, FoldLeft, MapThenFoldSet
  <1> QED BY <1>1, <1>2 DEF IsFold

\* Its values, where the largest elements are known.
LEMMA FoldSteps ==
    ASSUME NEW g, NEW d, NEW q, IsFold(g, d, q)
    PROVE  /\ g[{}] = d
           /\ 1 \in DOMAIN q => g[{1}] = Replay(d, q[1])
           /\ {1, 2} \subseteq DOMAIN q => g[{1, 2}] = Replay(Replay(d, q[1]), q[2])
  <1>1. \A s \in SUBSET DOMAIN q :
            g[s] = IF s = {} THEN d ELSE Replay(g[s \ {Max(s)}], q[Max(s)])
    BY DEF IsFold
  <1>2. g[{}] = d
    BY <1>1
  <1>3. {1} \ {1} = {} /\ {1, 2} \ {2} = {1} /\ {1} # {} /\ {1, 2} # {}
    OBVIOUS
  <1>4. ASSUME 1 \in DOMAIN q PROVE g[{1}] = Replay(d, q[1])
    <2>1. g[{1}] = Replay(g[{1} \ {Max({1})}], q[Max({1})])
      BY <1>1, <1>3, <1>4
    <2> QED BY <1>2, <1>3, <2>1, Largest
  <1>5. ASSUME {1, 2} \subseteq DOMAIN q
        PROVE  g[{1, 2}] = Replay(Replay(d, q[1]), q[2])
    <2>1. g[{1, 2}] = Replay(g[{1, 2} \ {Max({1, 2})}], q[Max({1, 2})])
      BY <1>1, <1>3, <1>5
    <2> QED BY <1>3, <1>4, <1>5, <2>1, Largest
  <1> QED BY <1>2, <1>4, <1>5

\* No operation leaves the database as it is.
LEMMA FoldNone ==
    ASSUME NEW d PROVE ReplayAll(d, <<>>) = d
  <1>1. PICK q : q = <<>>
    OBVIOUS
  <1>2. DOMAIN q = {}
    BY <1>1
  <1>3. IsFold([s \in SUBSET {} |-> d], d, q)
    BY <1>2 DEF IsFold
  <1> QED BY <1>1, <1>2, <1>3, FoldExists, FoldSteps

\* One operation is replayed.
LEMMA FoldOne ==
    ASSUME NEW d, NEW a PROVE ReplayAll(d, <<a>>) = Replay(d, a)
  <1>1. PICK q : q = <<a>>
    OBVIOUS
  <1>2. DOMAIN q = {1} /\ q[1] = a
    BY <1>1
  <1> DEFINE w == [s \in SUBSET {1} |-> IF s = {} THEN d ELSE Replay(d, a)]
  <1>3. IsFold(w, d, q)
    <2>1. \A s \in SUBSET {1} : s = {} \/ s = {1}
      OBVIOUS
    <2>2. w[{}] = d /\ w[{1}] = Replay(d, a) /\ w = [s \in SUBSET {1} |-> w[s]]
      <3>1. {1} # {}
        OBVIOUS
      <3> QED BY <3>1
    <2>3. {1} \ {1} = {}
      OBVIOUS
    <2> HIDE DEF w
    <2>4. w[{1}] = Replay(w[{1} \ {Max({1})}], q[Max({1})])
      BY <1>2, <2>2, <2>3, Largest
    <2>5. \A s \in SUBSET {1} :
              w[s] = IF s = {} THEN d ELSE Replay(w[s \ {Max(s)}], q[Max(s)])
      BY <2>1, <2>2, <2>4
    <2> QED BY <1>2, <2>2, <2>5 DEF IsFold
  <1> HIDE DEF w
  <1> QED BY <1>1, <1>2, <1>3, FoldExists, FoldSteps

\* Two operations are replayed one after the other.
LEMMA FoldTwo ==
    ASSUME NEW d, NEW a, NEW b
    PROVE  ReplayAll(d, <<a, b>>) = Replay(Replay(d, a), b)
  <1>1. PICK q : q = <<a, b>>
    OBVIOUS
  <1>2. DOMAIN q = {1, 2} /\ q[1] = a /\ q[2] = b
    BY <1>1
  <1> DEFINE w == [s \in SUBSET {1, 2} |->
                      IF s = {} THEN d ELSE IF s = {1} THEN Replay(d, a)
                      ELSE IF s = {2} THEN Replay(d, b) ELSE Replay(Replay(d, a), b)]
  <1>3. IsFold(w, d, q)
    <2>1. \A s \in SUBSET {1, 2} : s = {} \/ s = {1} \/ s = {2} \/ s = {1, 2}
      OBVIOUS
    <2>2. /\ w[{}] = d /\ w[{1}] = Replay(d, a) /\ w[{2}] = Replay(d, b)
          /\ w[{1, 2}] = Replay(Replay(d, a), b)
          /\ w = [s \in SUBSET {1, 2} |-> w[s]]
      <3>1. {1} # {} /\ {2} # {} /\ {1, 2} # {} /\ {1} # {2} /\ {1, 2} # {1} /\ {1, 2} # {2}
        OBVIOUS
      <3> QED BY <3>1
    <2>3. {1} \ {1} = {} /\ {2} \ {2} = {} /\ {1, 2} \ {2} = {1}
      OBVIOUS
    <2> HIDE DEF w
    <2>4. w[{1}] = Replay(w[{1} \ {Max({1})}], q[Max({1})])
      BY <1>2, <2>2, <2>3, Largest
    <2>5. w[{2}] = Replay(w[{2} \ {Max({2})}], q[Max({2})])
      BY <1>2, <2>2, <2>3, Largest
    <2>6. w[{1, 2}] = Replay(w[{1, 2} \ {Max({1, 2})}], q[Max({1, 2})])
      BY <1>2, <2>2, <2>3, Largest
    <2>7. \A s \in SUBSET {1, 2} :
              w[s] = IF s = {} THEN d ELSE Replay(w[s \ {Max(s)}], q[Max(s)])
      BY <2>1, <2>2, <2>4, <2>5, <2>6
    <2> QED BY <1>2, <2>2, <2>7 DEF IsFold
  <1> HIDE DEF w
  <1> QED BY <1>1, <1>2, <1>3, FoldExists, FoldSteps

\* One operation and another.
LEMMA AppendToOne ==
    ASSUME NEW a, NEW op PROVE Append(<<a>>, op) = <<a, op>>
  <1>1. PICK p : p = Append(<<a>>, op)
    OBVIOUS
  <1>2. PICK t : t = <<a, op>>
    OBVIOUS
  <1>3. <<a>> \in Seq({a, op}) /\ t \in Seq({a, op}) /\ Len(t) = 2 /\ t[1] = a /\ t[2] = op
    BY <1>2
  <1>4. p \in Seq({a, op}) /\ Len(p) = 2 /\ p[1] = a /\ p[2] = op
    BY <1>1, <1>3, AppendProperties
  <1>5. \A i \in 1 .. Len(p) : p[i] = t[i]
    BY <1>3, <1>4
  <1> QED BY <1>1, <1>2, <1>3, <1>4, <1>5, SeqEqual

\* Another operation is replayed after the ones before it.
LEMMA FoldAppend ==
    ASSUME NEW d, NEW q, NEW op, q = <<>> \/ \E a : q = <<a>>
    PROVE  ReplayAll(d, Append(q, op)) = Replay(ReplayAll(d, q), op)
  <1>1. CASE q = <<>>
    <2>1. Append(q, op) = <<op>>
      BY <1>1
    <2> QED BY <1>1, <2>1, FoldNone, FoldOne
  <1>2. ASSUME NEW a, q = <<a>>
        PROVE  ReplayAll(d, Append(q, op)) = Replay(ReplayAll(d, q), op)
    <2>1. Append(q, op) = <<a, op>>
      BY <1>2, AppendToOne
    <2>2. ReplayAll(d, q) = Replay(d, a)
      BY <1>2, FoldOne
    <2>3. ReplayAll(d, <<a, op>>) = Replay(Replay(d, a), op)
      BY FoldTwo
    <2> QED BY <2>1, <2>2, <2>3
  <1> QED BY <1>1, <1>2

-----------------------------------------------------------------------------
(* The steps of the calls, and what is in step with them.                  *)

\* A call's steps, its operations, the call itself, and the replicas it has
\* streamed to, in step with each other.
HandlerOk(q, o, c, s) ==
    /\ Ordered(q)
    /\ \A x \in First \cup {"begin", "rollback"} : Contains(q, x) => o = <<>>
    /\ Contains(q, "addMembers") => o = <<>> \/ \E op : o = <<op>>
    /\ Contains(q, "insertUser") => c.name \in Names
    /\ Contains(q, "markUser") => c.kind = "deleteUser"
    /\ Contains(q, "markConversation") => c.kind = "deleteConversation"
    /\ Contains(q, "markMessage") => c.kind = "deleteMessage"
    /\ c = None => q = <<>> /\ o = <<>>
    /\ s # {} => q # <<>> /\ Head(q) = "stream"
    /\ \A op \in Range(o) : IsOp(op)

\* A step taken keeps a call in step with its operations.
LEMMA AdvanceOk ==
    ASSUME NEW q \in Seq(Steps), q # <<>>, NEW o, NEW c, NEW s, HandlerOk(q, o, c, s)
    PROVE  HandlerOk(Tail(q), o, c, {})
  BY TailOrdered, TailContains DEF HandlerOk

\* The operations of a call are those it had and the new one.
LEMMA RangeOfAppend ==
    ASSUME NEW o, o = <<>> \/ \E a : o = <<a>>, NEW op
    PROVE  Range(Append(o, op)) = Range(o) \cup {op}
  <1>1. CASE o = <<>>
    <2>1. Append(o, op) = <<op>>
      BY <1>1
    <2>2. \A t : t = <<op>> => DOMAIN t = {1} /\ t[1] = op
      OBVIOUS
    <2> QED BY <1>1, <2>1, <2>2 DEF Range
  <1>2. ASSUME NEW a, o = <<a>> PROVE Range(Append(o, op)) = Range(o) \cup {op}
    <2>1. Append(o, op) = <<a, op>>
      BY <1>2, AppendToOne
    <2>2. \A t : t = <<a, op>> => DOMAIN t = {1, 2} /\ t[1] = a /\ t[2] = op
      OBVIOUS
    <2>3. DOMAIN o = {1} /\ o[1] = a
      BY <1>2
    <2> QED BY <2>1, <2>2, <2>3 DEF Range
  <1> QED BY <1>1, <1>2

\* So does a write, the first of its call or the second.
LEMMA WriteOk ==
    ASSUME NEW q \in Seq(Steps), q # <<>>, NEW o, NEW c, NEW s, HandlerOk(q, o, c, s),
           Ahead(q), Head(q) \in First \cup {"addMembers"}, NEW op, IsOp(op)
    PROVE  /\ HandlerOk(Tail(q), Append(o, op), c, {})
           /\ s = {} /\ c # None
           /\ o = <<>> \/ \E a : o = <<a>>
           /\ Range(Append(o, op)) = Range(o) \cup {op}
  <1>1. Len(q) \in Nat \ {0} /\ Head(q) = q[1] /\ Contains(q, q[1])
    BY HeadTailProperties DEF Contains
  <1>2. Head(q) # "stream" /\ Head(q) # "begin" /\ Head(q) # "rollback"
    BY DEF First
  <1>3. o = <<>> \/ \E a : o = <<a>>
    BY <1>1 DEF HandlerOk
  <1>4. ~Contains(q, "begin") /\ ~Contains(q, "rollback")
    BY <1>1, <1>2 DEF Ahead, Contains
  <1>5. \A x \in First \cup {"begin", "rollback"} : ~Contains(Tail(q), x)
    <2>1. First \subseteq Passed(Head(q)) /\ Ordered(q)
      BY DEF Passed, HandlerOk
    <2> QED BY <1>4, <2>1, TailOrdered, TailContains
  <1>6. Contains(Tail(q), "addMembers")
           => Append(o, op) = <<>> \/ \E a : Append(o, op) = <<a>>
    <2> SUFFICES ASSUME Contains(Tail(q), "addMembers") PROVE Append(o, op) = <<op>>
      OBVIOUS
    <2>1. Head(q) \in First
      <3>1. "addMembers" \in Passed("addMembers") /\ Ordered(q)
        BY DEF Passed, First, HandlerOk
      <3> QED BY <3>1, TailOrdered
    <2>2. o = <<>>
      BY <1>1, <2>1 DEF HandlerOk
    <2> QED BY <2>2
  <1>7. Range(Append(o, op)) = Range(o) \cup {op}
    BY <1>3, RangeOfAppend
  <1>8. s = {} /\ c # None
    BY <1>2 DEF HandlerOk
  <1>9. HandlerOk(Tail(q), o, c, {})
    BY AdvanceOk
  <1>10. HandlerOk(Tail(q), Append(o, op), c, {})
    BY <1>5, <1>6, <1>7, <1>8, <1>9 DEF HandlerOk
  <1> QED BY <1>3, <1>7, <1>8, <1>10

\* So does a failure, which drops the operations.
LEMMA ThrowOk ==
    ASSUME NEW q \in Seq(Steps), q # <<>>, NEW o, NEW c, NEW s, HandlerOk(q, o, c, s),
           Head(q) # "stream", NEW e \in {<<>>, <<"rollback">>}
    PROVE  HandlerOk(e, <<>>, c, s) /\ s = {} /\ c # None
  <1>1. s = {} /\ c # None
    BY DEF HandlerOk
  <1>2. Range(<<>>) = {}
    BY DEF Range
  <1>3. Ordered(e)
    BY ScriptOrdered
  <1>4. \A x : Contains(e, x) => x = "rollback"
    <2>1. CASE e = <<>>
      BY <2>1 DEF Contains
    <2>2. CASE e = <<"rollback">>
      <3>1. Len(e) = 1 /\ e[1] = "rollback"
        BY <2>2
      <3> QED BY <3>1 DEF Contains
    <2> QED BY <2>1, <2>2
  <1> QED BY <1>1, <1>2, <1>3, <1>4 DEF HandlerOk

\* The domains of the variables that calls and replicas index.
FunctionInv ==
    /\ DOMAIN call = Handlers /\ DOMAIN ops = Handlers /\ DOMAIN sent = Handlers
    /\ join \in [Replicas -> {"out", "copying", "copied", "subscribed"}]
    /\ DOMAIN copy = Replicas

\* The calls in step with their operations, on databases of the schema.
CallInv ==
    /\ FunctionInv
    /\ \A h \in Handlers : HandlerOk(rest[h], ops[h], call[h], sent[h])
    /\ IsDatabase(db) /\ (tx # None => IsDatabase(tx))
    /\ \A op \in acked : IsOp(op)

\* Names without spaces around them are what the server streams of them.
Trimmed == \A n \in Names : Trim[n] = n

\* The rows a call is about, which no other call can take away.
Known(c, d) ==
    /\ c.kind = "deleteUser" => c.user \in DOMAIN d.users
    /\ c.kind = "deleteConversation" => c.id \in DOMAIN d.convs
    /\ c.kind = "deleteMessage" => c.id \in DOMAIN d.msgs

\* The steps of a call before it streams, but for those that begin and end its
\* transaction: a write, a failure, or neither.  What a write streams is what it
\* has done, but for the spaces around a name.
Still == UNCHANGED <<tx, call, sent, join, copy, overlapped, refused, acked>>

Write(h, op) ==
    /\ rest[h] # <<>> /\ Head(rest[h]) \in First \cup {"addMembers"}
    /\ \E done :
        /\ NextOp(db, done) /\ IsOp(op) /\ (Trimmed => op = done)
        /\ db' = IF tx = None /\ Readers # {} THEN db ELSE Apply(db, done)
    /\ ops' = [ops EXCEPT ![h] = Append(ops[h], op)]
    /\ Advance(h) /\ Still
    /\ Known(call[h], db) /\ op.type = "update" => op.id \in DOMAIN db[op.table]

Fail(h) ==
    /\ rest[h] # <<>> /\ Head(rest[h]) \in First \cup Finds \cup {"begin", "commit"}
    /\ Head(rest[h]) = "begin" => tx # None
    /\ Head(rest[h]) = "commit" => tx = None
    /\ Throw(h) /\ db' = db /\ Still

Move(h) ==
    /\ rest[h] # <<>> /\ Head(rest[h]) \in Finds \cup {"notify"}
    /\ Advance(h) /\ UNCHANGED <<db, ops>> /\ Still

\* The next step is ahead.
LEMMA HeadAhead ==
    ASSUME NEW q \in Seq(Steps), q # <<>>
    PROVE  Contains(q, Head(q))
  BY HeadTailProperties DEF Contains

\* A flag of a row can be set next.
LEMMA MarkNext ==
    ASSUME NEW d, NEW t \in Tables, NEW id, NEW flag \in Columns[t] \cap {"is_read", "is_deleted"}
    PROVE  NextOp(d, Update(t, id, flag))
  BY DEF NextOp

\* A row that does not conflict can be inserted next, under the next id.
LEMMA InsertNext ==
    ASSUME NEW d, NEW t \in Tables, NEW row, row = [c \in Columns[t] |-> row[c]],
           ~Conflicts(d, Insert(t, Max(DOMAIN d[t] \cup {0}) + 1, row))
    PROVE  NextOp(d, Insert(t, Max(DOMAIN d[t] \cup {0}) + 1, row))
  BY DEF NextOp

\* Only a user's name can conflict.
LEMMA FreshNext ==
    ASSUME NEW d, IsDatabase(d), NEW t \in {"convs", "msgs"}, NEW row,
           row = [c \in Columns[t] |-> row[c]]
    PROVE  NextOp(d, Insert(t, Max(DOMAIN d[t] \cup {0}) + 1, row))
  <1>1. PICK op : op = Insert(t, Max(DOMAIN d[t] \cup {0}) + 1, row)
    OBVIOUS
  <1>2. op.table = t /\ op.id = Max(DOMAIN d[t] \cup {0}) + 1 /\ t \in Tables /\ t # "users"
    BY <1>1 DEF Insert, Tables
  <1>3. op.id \in Nat \ {0} /\ \A i \in DOMAIN d[t] : i < op.id
    BY <1>2, NextIdFresh
  <1>4. op.id \notin DOMAIN d[t]
    BY <1>3
  <1>5. ~Conflicts(d, op)
    BY <1>2, <1>4 DEF Conflicts
  <1> QED BY <1>1, <1>2, <1>5, InsertNext

\* SignupUser writes, or fails on a name that is taken.
LEMMA InsertUserStep ==
    ASSUME CallInv, ScriptInv, NEW h \in Handlers, InsertUser(h)
    PROVE  (\E op : Write(h, op)) \/ Fail(h)
  <1>1. /\ rest[h] # <<>> /\ Head(rest[h]) = "insertUser" /\ rest[h] \in Seq(Steps)
        /\ Still /\ IsDatabase(db)
    BY DEF InsertUser, At, ScriptInv, Statement, Still, joinVars, history, CallInv
  <1>2. call[h].name \in Names
    BY <1>1, HeadAhead DEF CallInv, HandlerOk
  <1>3. PICK row : row = [name |-> call[h].name, is_deleted |-> FALSE]
    OBVIOUS
  <1>4. PICK trimmed : trimmed = [name |-> Trim[call[h].name], is_deleted |-> FALSE]
    OBVIOUS
  <1>5. PICK id : id = Max(DOMAIN db["users"] \cup {0}) + 1
    OBVIOUS
  <1>6. PICK done : done = Insert("users", id, row)
    OBVIOUS
  <1>7. PICK op : op = Insert("users", id, trimmed)
    OBVIOUS
  <1>8. IF Conflicts(db, done)
        THEN Throw(h) /\ UNCHANGED db
        ELSE /\ db' = IF tx = None /\ Readers # {} THEN db ELSE Apply(db, done)
             /\ ops' = [ops EXCEPT ![h] = Append(ops[h], op)]
             /\ Advance(h)
    BY <1>3, <1>4, <1>5, <1>6, <1>7 DEF InsertUser, NextId
  <1>9. CASE Conflicts(db, done)
    BY <1>1, <1>8, <1>9 DEF Fail, First
  <1>10. CASE ~Conflicts(db, done)
    <2>1. row = [c \in Columns["users"] |-> row[c]] /\ "users" \in Tables
      BY <1>3 DEF Columns, Tables
    <2>2. NextOp(db, done)
      BY <1>5, <1>6, <1>10, <2>1, InsertNext
    <2>3. IsOp(op) /\ op.type # "update"
      BY <1>4, <1>7 DEF Insert, IsOp, Tables, Columns
    <2>4. Trimmed => op = done
      BY <1>2, <1>3, <1>4, <1>6, <1>7 DEF Trimmed
    <2>5. \E d :
             /\ NextOp(db, d) /\ IsOp(op) /\ (Trimmed => op = d)
             /\ db' = IF tx = None /\ Readers # {} THEN db ELSE Apply(db, d)
      BY <1>8, <1>10, <2>2, <2>3, <2>4
    <2> QED BY <1>1, <1>8, <1>10, <2>3, <2>5 DEF Write, First
  <1> QED BY <1>9, <1>10

\* A statement whose operation is next writes.
LEMMA ExecuteWrites ==
    ASSUME NEW h \in Handlers, NEW op, IsDatabase(db), NextOp(db, op), Execute(h, op),
           Statement,
           rest[h] # <<>>, Head(rest[h]) \in First \cup {"addMembers"},
           Known(call[h], db) /\ op.type = "update" => op.id \in DOMAIN db[op.table]
    PROVE  \E o : Write(h, o)
  <1>1. Still
    BY DEF Statement, Still, joinVars, history
  <1>2. IsOp(op)
    BY NextOpKept
  <1>3. Write(h, op)
    BY <1>1, <1>2 DEF Write, Execute
  <1> QED BY <1>3

\* The calls that delete write.
LEMMA MarkSteps ==
    ASSUME CallInv, ScriptInv, NEW h \in Handlers,
           MarkUser(h) \/ MarkConversation(h) \/ MarkMessage(h)
    PROVE  \E op : Write(h, op)
  <1>1. /\ rest[h] # <<>> /\ rest[h] \in Seq(Steps) /\ Contains(rest[h], Head(rest[h]))
        /\ IsDatabase(db)
    BY HeadAhead DEF MarkUser, MarkConversation, MarkMessage, At, ScriptInv, CallInv
  <1>2. ASSUME NEW t \in Tables, NEW id, Execute(h, Update(t, id, "is_deleted")), Statement,
               Head(rest[h]) \in First, Known(call[h], db) => id \in DOMAIN db[t]
        PROVE  \E op : Write(h, op)
    <2>1. PICK op : op = Update(t, id, "is_deleted")
      OBVIOUS
    <2>2. "is_deleted" \in Columns[t] \cap {"is_read", "is_deleted"}
      BY DEF Tables, Columns
    <2>3. NextOp(db, op)
      BY <2>1, <2>2, MarkNext
    <2>4. op.table = t /\ op.id = id
      BY <2>1 DEF Update
    <2> QED BY <1>1, <1>2, <2>1, <2>3, <2>4, ExecuteWrites
  <1>3. CASE MarkUser(h)
    <2>1. /\ Head(rest[h]) = "markUser" /\ Statement
          /\ Execute(h, Update("users", call[h].user, "is_deleted"))
      BY <1>3 DEF MarkUser, At
    <2>2. call[h].kind = "deleteUser"
      BY <1>1, <2>1 DEF CallInv, HandlerOk
    <2>3. "users" \in Tables /\ "markUser" \in First
      BY DEF Tables, First
    <2>4. Known(call[h], db) => call[h].user \in DOMAIN db["users"]
      BY <2>2 DEF Known
    <2> QED BY <1>2, <2>1, <2>3, <2>4
  <1>4. CASE MarkConversation(h)
    <2>1. /\ Head(rest[h]) = "markConversation" /\ Statement
          /\ Execute(h, Update("convs", call[h].id, "is_deleted"))
      BY <1>4 DEF MarkConversation, At
    <2>2. call[h].kind = "deleteConversation"
      BY <1>1, <2>1 DEF CallInv, HandlerOk
    <2>3. "convs" \in Tables /\ "markConversation" \in First
      BY DEF Tables, First
    <2>4. Known(call[h], db) => call[h].id \in DOMAIN db["convs"]
      BY <2>2 DEF Known
    <2> QED BY <1>2, <2>1, <2>3, <2>4
  <1>5. CASE MarkMessage(h)
    <2>1. /\ Head(rest[h]) = "markMessage" /\ Statement
          /\ Execute(h, Update("msgs", call[h].id, "is_deleted"))
      BY <1>5 DEF MarkMessage, At
    <2>2. call[h].kind = "deleteMessage"
      BY <1>1, <2>1 DEF CallInv, HandlerOk
    <2>3. "msgs" \in Tables /\ "markMessage" \in First
      BY DEF Tables, First
    <2>4. Known(call[h], db) => call[h].id \in DOMAIN db["msgs"]
      BY <2>2 DEF Known
    <2> QED BY <1>2, <2>1, <2>3, <2>4
  <1> QED BY <1>3, <1>4, <1>5

\* ReadMessages writes, or fails on a message that is not for the user.
LEMMA MarkReadStep ==
    ASSUME CallInv, NEW h \in Handlers, MarkRead(h)
    PROVE  (\E op : Write(h, op)) \/ Fail(h)
  <1>1. rest[h] # <<>> /\ Head(rest[h]) = "markRead" /\ Statement /\ IsDatabase(db)
    BY DEF MarkRead, At, CallInv
  <1>2. PICK id : id = call[h].id
    OBVIOUS
  <1>3. PICK op : op = Update("msgs", id, "is_read")
    OBVIOUS
  <1>4. op.table = "msgs" /\ op.id = id /\ "msgs" \in Tables
    BY <1>3 DEF Update, Tables
  <1>5. CASE id \in DOMAIN db.msgs /\ db.msgs[id].from # call[h].user
    <2>1. Execute(h, op)
      BY <1>2, <1>3, <1>5 DEF MarkRead
    <2>2. NextOp(db, op)
      BY <1>3, <1>4, MarkNext DEF Columns
    <2> QED BY <1>1, <1>4, <1>5, <2>1, <2>2, ExecuteWrites DEF First
  <1>6. CASE ~(id \in DOMAIN db.msgs /\ db.msgs[id].from # call[h].user)
    <2>1. Throw(h) /\ db' = db /\ Still
      BY <1>1, <1>2, <1>6 DEF MarkRead, Statement, Still, joinVars, history
    <2> QED BY <1>1, <2>1 DEF Fail, First
  <1> QED BY <1>5, <1>6

\* CreateConversation and SendMessage write.
LEMMA InsertSteps ==
    ASSUME CallInv, NEW h \in Handlers,
           InsertConversation(h) \/ InsertMessage(h) \/ AddMembers(h)
    PROVE  \E op : Write(h, op)
  <1>1. rest[h] # <<>> /\ Statement /\ IsDatabase(db)
    BY DEF InsertConversation, InsertMessage, AddMembers, At, CallInv
  <1>2. CASE InsertConversation(h)
    <2>1. PICK row : row = [is_deleted |-> FALSE]
      OBVIOUS
    <2>2. row = [c \in Columns["convs"] |-> row[c]]
      BY <2>1 DEF Columns
    <2>3. PICK op : op = Insert("convs", Max(DOMAIN db["convs"] \cup {0}) + 1, row)
      OBVIOUS
    <2>4. Execute(h, op) /\ Head(rest[h]) = "insertConversation"
      BY <1>2, <2>1, <2>3 DEF InsertConversation, NextId, At
    <2>5. NextOp(db, op)
      BY <1>1, <2>2, <2>3, FreshNext
    <2>6. op.type # "update"
      BY <2>3 DEF Insert
    <2> QED BY <1>1, <2>4, <2>5, <2>6, ExecuteWrites DEF First
  <1>3. CASE InsertMessage(h)
    <2>1. PICK row : row = [conv |-> call[h].member[1], from |-> call[h].member[2],
                            is_read |-> FALSE, is_deleted |-> FALSE]
      OBVIOUS
    <2>2. row = [c \in Columns["msgs"] |-> row[c]]
      BY <2>1 DEF Columns
    <2>3. PICK op : op = Insert("msgs", Max(DOMAIN db["msgs"] \cup {0}) + 1, row)
      OBVIOUS
    <2>4. Execute(h, op) /\ Head(rest[h]) = "insertMessage"
      BY <1>3, <2>1, <2>3 DEF InsertMessage, NextId, At
    <2>5. NextOp(db, op)
      BY <1>1, <2>2, <2>3, FreshNext
    <2>6. op.type # "update"
      BY <2>3 DEF Insert
    <2> QED BY <1>1, <2>4, <2>5, <2>6, ExecuteWrites DEF First
  <1>4. CASE AddMembers(h)
    <2>1. PICK pairs : pairs = {ops[h][1].id} \X {call[h].sender, call[h].user}
      OBVIOUS
    <2>2. PICK op : op = InsertMembers(pairs)
      OBVIOUS
    <2>3. Execute(h, op) /\ Head(rest[h]) = "addMembers"
      BY <1>4, <2>1, <2>2 DEF AddMembers, At
    <2>4. NextOp(db, op)
      BY <2>2 DEF NextOp
    <2>5. op.type # "update"
      BY <2>2 DEF InsertMembers
    <2> QED BY <1>1, <2>3, <2>4, <2>5, ExecuteWrites
  <1> QED BY <1>2, <1>3, <1>4

\* A SELECT finds its row or fails; a notification writes nothing.
LEMMA FindSteps ==
    ASSUME NEW h \in Handlers, FindUser(h) \/ FindReceiver(h) \/ Notify(h)
    PROVE  Fail(h) \/ Move(h)
  <1>1. CASE FindUser(h)
    <2>1. /\ rest[h] # <<>> /\ Head(rest[h]) = "findUser" /\ db' = db /\ Still
          /\ (Advance(h) /\ UNCHANGED ops) \/ Throw(h)
      BY <1>1 DEF FindUser, At, Statement, Still, joinVars, history
    <2> QED BY <2>1 DEF Fail, Move, Finds
  <1>2. CASE FindReceiver(h)
    <2>1. /\ rest[h] # <<>> /\ Head(rest[h]) = "findReceiver" /\ db' = db /\ Still
          /\ (Advance(h) /\ UNCHANGED ops) \/ Throw(h)
      BY <1>2 DEF FindReceiver, At, Statement, Still, joinVars, history
    <2> QED BY <2>1 DEF Fail, Move, Finds
  <1>3. CASE Notify(h)
    BY <1>3 DEF Notify, At, Still, Move, dbVars, joinVars
  <1> QED BY <1>1, <1>2, <1>3

\* No record is None.
NoneApart == {"users", "kind"} \cap DOMAIN None = {}

\* A database is not None: a transaction has one to go back to.
LEMMA DatabaseIsSome ==
    ASSUME NoneApart, NEW d, IsDatabase(d)
    PROVE  d # None
  <1>1. d = [users |-> d.users, convs |-> d.convs, members |-> d.members, msgs |-> d.msgs]
    BY DEF IsDatabase
  <1>2. DOMAIN d = {"users", "convs", "members", "msgs"}
    BY <1>1
  <1> QED BY <1>2 DEF NoneApart

\* A step of one call.
LEMMA OneCall ==
    ASSUME CallInv, NEW h \in Handlers, FunctionInv',
           \A g \in Handlers \ {h} :
               /\ rest'[g] = rest[g] /\ ops'[g] = ops[g]
               /\ call'[g] = call[g] /\ sent'[g] = sent[g],
           HandlerOk(rest'[h], ops'[h], call'[h], sent'[h]),
           IsDatabase(db'), tx' # None => IsDatabase(tx'), \A op \in acked' : IsOp(op)
    PROVE  CallInv'
  BY DEF CallInv

\* A write keeps the calls in step, and the database a database.
LEMMA WriteCall ==
    ASSUME CallInv, ScriptInv, NEW h \in Handlers, NEW op, Write(h, op)
    PROVE  /\ CallInv'
           /\ rest[h] \in Seq(Steps) /\ rest[h] # <<>> /\ sent[h] = {} /\ call[h] # None
           /\ ops[h] = <<>> \/ \E a : ops[h] = <<a>>
           /\ Range(Append(ops[h], op)) = Range(ops[h]) \cup {op}
           /\ rest'[h] = Tail(rest[h]) /\ ops'[h] = Append(ops[h], op)
           /\ IsOp(op) /\ Keeps(db, db')
  <1>1. /\ rest \in [Handlers -> Seq(Steps)] /\ rest[h] # <<>> /\ Ahead(rest[h])
        /\ Head(rest[h]) \in First \cup {"addMembers"}
        /\ HandlerOk(rest[h], ops[h], call[h], sent[h])
    BY DEF ScriptInv, Write, CallInv
  <1>2. PICK done :
            /\ NextOp(db, done) /\ IsOp(op) /\ (Trimmed => op = done)
            /\ db' = IF tx = None /\ Readers # {} THEN db ELSE Apply(db, done)
    BY DEF Write
  <1>3. IsDatabase(db) /\ Keeps(db, Apply(db, done))
    BY <1>2, NextOpKept DEF CallInv
  <1>4. Keeps(db, db')
    BY <1>2, <1>3 DEF Keeps
  <1>5. /\ HandlerOk(Tail(rest[h]), Append(ops[h], op), call[h], {})
        /\ sent[h] = {} /\ call[h] # None
        /\ ops[h] = <<>> \/ \E a : ops[h] = <<a>>
        /\ Range(Append(ops[h], op)) = Range(ops[h]) \cup {op}
    BY <1>1, <1>2, WriteOk
  <1>6. PICK q : q = Tail(rest[h])
    OBVIOUS
  <1>7. PICK o : o = Append(ops[h], op)
    OBVIOUS
  <1>8. /\ rest' = [rest EXCEPT ![h] = q] /\ ops' = [ops EXCEPT ![h] = o] /\ Still
        /\ DOMAIN ops = Handlers /\ FunctionInv
    BY <1>6, <1>7 DEF Write, Advance, CallInv, FunctionInv
  <1>9. /\ rest'[h] = q /\ ops'[h] = o
        /\ \A g \in Handlers \ {h} : rest'[g] = rest[g] /\ ops'[g] = ops[g]
        /\ DOMAIN ops' = Handlers
    BY <1>1, <1>8
  <1>10. /\ call' = call /\ sent' = sent /\ tx' = tx /\ acked' = acked
         /\ join' = join /\ copy' = copy
    BY <1>8 DEF Still
  <1>11. FunctionInv'
    BY <1>8, <1>9, <1>10 DEF FunctionInv
  <1>12. IsDatabase(db')
    BY <1>4 DEF Keeps
  <1>13. HandlerOk(rest'[h], ops'[h], call'[h], sent'[h])
    BY <1>5, <1>6, <1>7, <1>9, <1>10
  <1>14. (tx' # None => IsDatabase(tx')) /\ \A o2 \in acked' : IsOp(o2)
    BY <1>10 DEF CallInv
  <1>15. CallInv'
    BY <1>9, <1>10, <1>11, <1>12, <1>13, <1>14, OneCall
  <1> QED BY <1>1, <1>2, <1>4, <1>5, <1>6, <1>7, <1>9, <1>15

\* A call that does no more than take a step.
LEMMA AdvanceCall ==
    ASSUME CallInv, ScriptInv, NEW h \in Handlers, rest[h] # <<>>, Advance(h),
           UNCHANGED <<ops, call, join, copy, acked>>,
           (sent' = sent /\ Head(rest[h]) # "stream") \/ sent' = [sent EXCEPT ![h] = {}],
           IsDatabase(db'), tx' # None => IsDatabase(tx')
    PROVE  CallInv' /\ rest'[h] = Tail(rest[h]) /\ sent'[h] = {}
  <1>1. PICK q : q = Tail(rest[h])
    OBVIOUS
  <1>2. rest' = [rest EXCEPT ![h] = q] /\ rest \in [Handlers -> Seq(Steps)]
        /\ DOMAIN sent = Handlers /\ FunctionInv
    BY <1>1 DEF Advance, ScriptInv, CallInv, FunctionInv
  <1>3. rest'[h] = q /\ \A g \in Handlers \ {h} : rest'[g] = rest[g]
    BY <1>2
  <1>4. HandlerOk(rest[h], ops[h], call[h], sent[h])
    BY DEF CallInv
  <1>5. /\ sent'[h] = {} /\ DOMAIN sent' = Handlers
        /\ \A g \in Handlers \ {h} : sent'[g] = sent[g]
    BY <1>2, <1>4 DEF HandlerOk
  <1>6. HandlerOk(q, ops[h], call[h], {})
    BY <1>1, <1>2, <1>4, AdvanceOk
  <1>7. FunctionInv'
    BY <1>2, <1>5 DEF FunctionInv
  <1>8. \A op \in acked' : IsOp(op)
    BY DEF CallInv
  <1>9. HandlerOk(rest'[h], ops'[h], call'[h], sent'[h])
    BY <1>3, <1>5, <1>6
  <1>10. \A g \in Handlers \ {h} :
             /\ rest'[g] = rest[g] /\ ops'[g] = ops[g]
             /\ call'[g] = call[g] /\ sent'[g] = sent[g]
    BY <1>3, <1>5
  <1>11. CallInv'
    BY ONLY CallInv, <1>7, <1>8, <1>9, <1>10, IsDatabase(db'), tx' # None => IsDatabase(tx'),
            OneCall, h \in Handlers
  <1> QED BY <1>1, <1>3, <1>5, <1>11

\* A failure keeps the calls in step.
LEMMA FailCall ==
    ASSUME CallInv, ScriptInv, NEW h \in Handlers, Fail(h)
    PROVE  /\ CallInv' /\ sent[h] = {} /\ call[h] # None /\ ops'[h] = <<>>
           /\ rest'[h] = IF Contains(rest[h], "commit") THEN <<"rollback">> ELSE <<>>
  <1>1. PICK e : e = IF Contains(rest[h], "commit") THEN <<"rollback">> ELSE <<>>
    OBVIOUS
  <1>2. PICK none : none = <<>>
    OBVIOUS
  <1>3. /\ rest' = [rest EXCEPT ![h] = e] /\ ops' = [ops EXCEPT ![h] = none] /\ Still
        /\ rest \in [Handlers -> Seq(Steps)] /\ DOMAIN ops = Handlers /\ FunctionInv
    BY <1>1, <1>2 DEF Fail, Throw, ScriptInv, CallInv, FunctionInv
  <1>4. /\ rest'[h] = e /\ ops'[h] = none
        /\ \A g \in Handlers \ {h} : rest'[g] = rest[g] /\ ops'[g] = ops[g]
        /\ DOMAIN ops' = Handlers
    BY <1>3
  <1>5. /\ call' = call /\ sent' = sent /\ tx' = tx /\ acked' = acked
        /\ join' = join /\ copy' = copy
    BY <1>3 DEF Still
  <1>6. HandlerOk(rest[h], ops[h], call[h], sent[h])
    BY DEF CallInv
  <1>7. /\ rest[h] # <<>> /\ Head(rest[h]) # "stream" /\ rest[h] \in Seq(Steps) /\ db' = db
        /\ e \in {<<>>, <<"rollback">>}
    BY <1>1, <1>3 DEF Fail, First, Finds
  <1>8. HandlerOk(e, none, call[h], sent[h]) /\ sent[h] = {} /\ call[h] # None
    BY <1>2, <1>6, <1>7, ThrowOk
  <1>9. FunctionInv'
    BY <1>3, <1>4, <1>5 DEF FunctionInv
  <1>10. IsDatabase(db') /\ (tx' # None => IsDatabase(tx')) /\ \A op \in acked' : IsOp(op)
    BY <1>5, <1>7 DEF CallInv
  <1>11. CallInv'
    BY <1>4, <1>5, <1>8, <1>9, <1>10, OneCall
  <1> QED BY <1>1, <1>2, <1>4, <1>8, <1>11

\* So does a BEGIN that succeeds, and each of the steps below.
LEMMA BeginCall ==
    ASSUME CallInv, ScriptInv, NEW h \in Handlers, Begin(h), tx = None
    PROVE  CallInv' /\ rest'[h] = Tail(rest[h]) /\ sent'[h] = {}
  <1>1. /\ rest[h] # <<>> /\ Head(rest[h]) = "begin" /\ Advance(h) /\ tx' = db /\ db' = db
        /\ UNCHANGED <<ops, call, sent, join, copy, acked>>
    BY DEF Begin, At, joinVars, history
  <1>2. IsDatabase(db)
    BY DEF CallInv
  <1> QED BY <1>1, <1>2, AdvanceCall

\* A COMMIT, refused or not.
LEMMA CommitCall ==
    ASSUME CallInv, ScriptInv, NEW h \in Handlers, Commit(h), tx # None
    PROVE  CallInv' /\ rest'[h] = Tail(rest[h]) /\ sent'[h] = {}
  <1>1. /\ rest[h] # <<>> /\ Head(rest[h]) = "commit" /\ Advance(h) /\ db' = db
        /\ tx' = tx \/ tx' = None
        /\ UNCHANGED <<ops, call, sent, join, copy, acked>>
    BY DEF Commit, At, joinVars
  <1>2. IsDatabase(db) /\ IsDatabase(tx)
    BY DEF CallInv
  <1> QED BY <1>1, <1>2, AdvanceCall

\* A ROLLBACK, with a transaction open or none.
LEMMA RollbackCall ==
    ASSUME CallInv, ScriptInv, NEW h \in Handlers, Rollback(h)
    PROVE  CallInv' /\ rest'[h] = Tail(rest[h]) /\ sent'[h] = {}
  <1>1. /\ rest[h] # <<>> /\ Head(rest[h]) = "rollback" /\ Advance(h)
        /\ db' = IF tx = None THEN db ELSE tx
        /\ tx' = None
        /\ UNCHANGED <<ops, call, sent, join, copy, acked>>
    BY DEF Rollback, At, joinVars, history
  <1>2. IsDatabase(db')
    BY <1>1 DEF CallInv
  <1> QED BY <1>1, <1>2, AdvanceCall

\* A step that writes nothing.
LEMMA MoveCall ==
    ASSUME CallInv, ScriptInv, NEW h \in Handlers, Move(h)
    PROVE  CallInv' /\ rest'[h] = Tail(rest[h]) /\ sent'[h] = {}
  <1>1. /\ rest[h] # <<>> /\ Head(rest[h]) # "stream" /\ Advance(h)
        /\ UNCHANGED <<db, tx, ops, call, sent, join, copy, acked>>
    BY DEF Move, Still, Finds
  <1>2. IsDatabase(db) /\ (tx # None => IsDatabase(tx))
    BY DEF CallInv
  <1> QED BY <1>1, <1>2, AdvanceCall

\* The end of the streaming.
LEMMA StreamDoneCall ==
    ASSUME CallInv, ScriptInv, NEW h \in Handlers, StreamDone(h)
    PROVE  CallInv' /\ rest'[h] = Tail(rest[h]) /\ sent'[h] = {}
  <1>1. /\ rest[h] # <<>> /\ Advance(h) /\ sent' = [sent EXCEPT ![h] = {}]
        /\ UNCHANGED <<db, tx, ops, call, join, copy, acked>>
    BY DEF StreamDone, At, dbVars, joinVars, history
  <1>2. IsDatabase(db) /\ (tx # None => IsDatabase(tx))
    BY DEF CallInv
  <1> QED BY <1>1, <1>2, AdvanceCall

\* An answer.
LEMMA AnswerCall ==
    ASSUME CallInv, NEW h \in Handlers, Answer(h)
    PROVE  CallInv' /\ call'[h] = None /\ ops'[h] = <<>>
  <1>1. PICK none : none = <<>>
    OBVIOUS
  <1>2. /\ rest[h] = <<>> /\ call' = [call EXCEPT ![h] = None]
        /\ ops' = [ops EXCEPT ![h] = none] /\ acked' = acked \cup Range(ops[h])
        /\ UNCHANGED <<db, tx, rest, sent, join, copy>>
    BY <1>1 DEF Answer, dbVars, joinVars
  <1>3. /\ FunctionInv /\ HandlerOk(rest[h], ops[h], call[h], sent[h])
        /\ IsDatabase(db) /\ (tx # None => IsDatabase(tx)) /\ \A op \in acked : IsOp(op)
    BY DEF CallInv
  <1>4. /\ call'[h] = None /\ ops'[h] = none
        /\ \A g \in Handlers \ {h} : call'[g] = call[g] /\ ops'[g] = ops[g]
        /\ FunctionInv'
    BY <1>2, <1>3 DEF FunctionInv
  <1>5. \A op \in Range(ops[h]) : IsOp(op)
    BY <1>3 DEF HandlerOk
  <1>6. \A op \in acked' : IsOp(op)
    BY <1>2, <1>3, <1>5
  <1>7. sent[h] = {}
    BY <1>2, <1>3 DEF HandlerOk
  <1>8. Range(none) = {}
    BY <1>1 DEF Range
  <1>9. HandlerOk(rest[h], none, None, {})
    BY <1>1, <1>2, <1>8, ScriptOrdered DEF HandlerOk, Contains
  <1>10. HandlerOk(rest'[h], ops'[h], call'[h], sent'[h])
    BY <1>2, <1>4, <1>7, <1>9
  <1>11. \A g \in Handlers \ {h} :
             /\ rest'[g] = rest[g] /\ ops'[g] = ops[g]
             /\ call'[g] = call[g] /\ sent'[g] = sent[g]
    BY <1>2, <1>4
  <1>12. IsDatabase(db') /\ (tx' # None => IsDatabase(tx'))
    BY <1>2, <1>3
  <1>13. CallInv'
    BY <1>4, <1>6, <1>10, <1>11, <1>12, OneCall
  <1> QED BY <1>1, <1>4, <1>13

\* What a client asks for is about rows that are there.
LEMMA RequestKnown ==
    ASSUME NoneApart, NEW c \in Requests
    PROVE  /\ c # None /\ c.kind \in DOMAIN Script
           /\ c.kind = "signup" => c.name \in Names
           /\ Known(c, db)
  <1>1. /\ c.kind \in DOMAIN Script
        /\ c.kind = "signup" => c.name \in Names
        /\ Known(c, db)
    BY DEF Requests, Script, Known
  <1>2. "kind" \in DOMAIN c
    BY DEF Requests
  <1> QED BY <1>1, <1>2 DEF NoneApart

\* A call that starts has no operations, and asks for rows that are there.
LEMMA StartCall ==
    ASSUME NoneApart, CallInv, ScriptInv, NEW h \in Handlers, Start(h)
    PROVE  /\ CallInv' /\ call[h] = None /\ ops[h] = <<>> /\ sent[h] = {}
           /\ call'[h] # None /\ Known(call'[h], db)
           /\ Contains(rest'[h], "commit") => Contains(rest'[h], "begin")
           /\ \A g \in Handlers \ {h} : call'[g] = call[g]
  <1>1. PICK c \in Requests :
            call' = [call EXCEPT ![h] = c] /\ rest' = [rest EXCEPT ![h] = Script[c.kind]]
    BY DEF Start
  <1>2. PICK q : q = Script[c.kind]
    OBVIOUS
  <1>3. /\ c # None /\ c.kind \in DOMAIN Script /\ Known(c, db)
        /\ c.kind = "signup" => c.name \in Names
    BY RequestKnown
  <1>4. Ordered(q) /\ Suits(q, c.kind)
    BY <1>2, <1>3, ScriptOrdered
  <1>5. /\ call[h] = None /\ rest[h] = <<>>
        /\ UNCHANGED <<db, tx, ops, sent, join, copy, acked>>
        /\ FunctionInv /\ HandlerOk(rest[h], ops[h], call[h], sent[h])
        /\ IsDatabase(db) /\ (tx # None => IsDatabase(tx)) /\ \A op \in acked : IsOp(op)
        /\ rest \in [Handlers -> Seq(Steps)]
    BY DEF Start, dbVars, joinVars, CallInv, ScriptInv
  <1>6. ops[h] = <<>> /\ sent[h] = {}
    BY <1>5 DEF HandlerOk
  <1>7. HandlerOk(q, ops[h], c, sent[h])
    BY <1>3, <1>4, <1>5, <1>6 DEF HandlerOk, Suits
  <1>8. /\ call'[h] = c /\ rest'[h] = q
        /\ \A g \in Handlers \ {h} : call'[g] = call[g] /\ rest'[g] = rest[g]
        /\ FunctionInv'
    BY <1>1, <1>2, <1>5 DEF FunctionInv
  <1>9. \A g \in Handlers \ {h} :
             /\ rest'[g] = rest[g] /\ ops'[g] = ops[g]
             /\ call'[g] = call[g] /\ sent'[g] = sent[g]
    BY <1>5, <1>8
  <1>10. HandlerOk(rest'[h], ops'[h], call'[h], sent'[h])
    BY <1>5, <1>7, <1>8
  <1>11. IsDatabase(db') /\ (tx' # None => IsDatabase(tx')) /\ \A op \in acked' : IsOp(op)
    BY <1>5
  <1>12. CallInv'
    BY <1>8, <1>9, <1>10, <1>11, OneCall
  <1> QED BY <1>3, <1>4, <1>5, <1>6, <1>8, <1>12 DEF Suits

\* A stream that is written to, which changes the copy at its end.
LEMMA StreamToCall ==
    ASSUME CallInv, NEW h \in Handlers, NEW r \in Replicas, StreamTo(h, r)
    PROVE  /\ CallInv' /\ call[h] # None
           /\ copy'[r] = ReplayAll(copy[r], ops[h]) /\ sent'[h] = sent[h] \cup {r}
           /\ \A s \in Replicas \ {r} : copy'[s] = copy[s]
  <1>1. PICK n : n = ReplayAll(copy[r], ops[h])
    OBVIOUS
  <1>2. /\ copy' = [copy EXCEPT ![r] = n] /\ sent' = [sent EXCEPT ![h] = sent[h] \cup {r}]
        /\ rest[h] # <<>> /\ Head(rest[h]) = "stream"
        /\ UNCHANGED <<db, tx, call, rest, ops, join, acked>>
        /\ FunctionInv /\ HandlerOk(rest[h], ops[h], call[h], sent[h])
        /\ IsDatabase(db) /\ (tx # None => IsDatabase(tx)) /\ \A op \in acked : IsOp(op)
    BY <1>1 DEF StreamTo, At, dbVars, CallInv, ReplayAll
  <1>3. /\ copy'[r] = n /\ sent'[h] = sent[h] \cup {r}
        /\ \A g \in Handlers \ {h} : sent'[g] = sent[g]
        /\ \A s \in Replicas \ {r} : copy'[s] = copy[s]
        /\ FunctionInv'
    BY <1>2 DEF FunctionInv
  <1>4. HandlerOk(rest[h], ops[h], call[h], sent[h] \cup {r}) /\ call[h] # None
    BY <1>2 DEF HandlerOk
  <1>5. \A g \in Handlers \ {h} :
             /\ rest'[g] = rest[g] /\ ops'[g] = ops[g]
             /\ call'[g] = call[g] /\ sent'[g] = sent[g]
    BY <1>2, <1>3
  <1>6. HandlerOk(rest'[h], ops'[h], call'[h], sent'[h])
    BY <1>2, <1>3, <1>4
  <1>7. IsDatabase(db') /\ (tx' # None => IsDatabase(tx')) /\ \A op \in acked' : IsOp(op)
    BY <1>2
  <1>8. CallInv'
    BY <1>3, <1>5, <1>6, <1>7, OneCall
  <1> QED BY <1>1, <1>3, <1>4, <1>8

\* A step that leaves the calls and the database alone.
LEMMA SameCall ==
    ASSUME CallInv, UNCHANGED <<db, tx, call, rest, ops, sent, acked>>, FunctionInv'
    PROVE  CallInv'
  BY DEF CallInv

\* The steps of a replica that joins or leaves.
LEMMA JoinCall ==
    ASSUME CallInv, NEW r \in Replicas,
           CopyBegin(r) \/ CopyEnd(r) \/ Subscribe(r) \/ Leave(r)
    PROVE  CallInv'
  <1>1. FunctionInv
    BY DEF CallInv
  <1>2. FunctionInv'
    BY <1>1 DEF CopyBegin, CopyEnd, Subscribe, Leave, callVars, FunctionInv
  <1>3. UNCHANGED <<db, tx, call, rest, ops, sent, acked>>
    BY DEF CopyBegin, CopyEnd, Subscribe, Leave, dbVars, callVars, history
  <1> QED BY <1>2, <1>3, SameCall

\* The server starts with no calls and the database of the schema.
LEMMA InitCall == NoneApart /\ Init => CallInv
  <1> SUFFICES ASSUME NoneApart, Init PROVE CallInv
    OBVIOUS
  <1>1. PICK none : none = <<>>
    OBVIOUS
  <1>2. /\ db = Seed /\ tx = None /\ acked = {}
        /\ call = [h \in Handlers |-> None] /\ rest = [h \in Handlers |-> none]
        /\ ops = [h \in Handlers |-> none] /\ sent = [h \in Handlers |-> {}]
        /\ join = [r \in Replicas |-> "out"] /\ copy = [r \in Replicas |-> None]
    BY <1>1 DEF Init
  <1>3. FunctionInv
    BY <1>2 DEF FunctionInv
  <1>4. Ordered(none) /\ Range(none) = {} /\ \A x : ~Contains(none, x)
    BY <1>1, ScriptOrdered DEF Range, Contains
  <1>5. \A h \in Handlers : HandlerOk(rest[h], ops[h], call[h], sent[h])
    BY <1>1, <1>2, <1>4 DEF HandlerOk
  <1> QED BY <1>2, <1>3, <1>5, ServiceAssumption DEF CallInv

-----------------------------------------------------------------------------
(* Calls one at a time.                                                    *)

\* What a replica that listens has while call h runs alone: in a transaction
\* the database before it, from which the call's operations lead to the
\* present one; out of it, what they have yet to be applied to.
Due(h, r) ==
    IF tx # None
    THEN copy[r] = tx /\ (rest[h] = <<"rollback">> \/ ReplayAll(tx, ops[h]) = db)
    ELSE IF r \in sent[h] \/ ~Contains(rest[h], "stream") THEN copy[r] = db
    ELSE ReplayAll(copy[r], ops[h]) = db

\* Call h runs alone, and what of it has yet to reach a copy is due there.
Running(h) ==
    /\ call[h] # None /\ \A g \in Handlers \ {h} : call[g] = None
    /\ ~Joining
    /\ Contains(rest[h], "commit") /\ ~Contains(rest[h], "begin") => tx # None
    /\ \A r \in Subscribed : Due(h, r)
    /\ \A op \in Range(ops[h]) : ReflectedIn(db, op)
    /\ Known(call[h], db)
    /\ tx # None => Known(call[h], tx) /\ \A op \in acked : ReflectedIn(tx, op)

\* No call runs, and every copy is the database.
Resting == Idle /\ \A r \in Replicas : join[r] # "out" => copy[r] = db

\* What was answered Ok is in the database.
Lasting == ~refused /\ \A op \in acked : ReflectedIn(db, op)

\* What calls that do not overlap can rely on.
SerialInv == ~overlapped => Lasting /\ (Resting \/ \E h \in Handlers : Running(h))

\* A call that runs alone is the one in the transaction.
LEMMA Alone ==
    ASSUME TransactionInv, CallInv, ~refused, NEW h \in Handlers, Running(h)
    PROVE  /\ tx # None => Ending(rest[h])
           /\ Readers = {}
           /\ HandlerOk(rest[h], ops[h], call[h], sent[h])
           /\ rest[h] \in Seq(Steps) /\ Ahead(rest[h])
  <1>1. ASSUME tx # None PROVE Ending(rest[h])
    <2>1. PICK g \in Handlers : InTransaction(g)
      BY <1>1 DEF TransactionInv, TransactionsEnd
    <2>2. rest[g] # <<>>
      BY <2>1 DEF InTransaction, Contains
    <2>3. g = h
      BY <2>2 DEF Running, CallInv, HandlerOk
    <2> QED BY <2>1, <2>3 DEF InTransaction, Ending
  <1>2. Readers = {}
    BY DEF Running, Joining, Readers
  <1> QED BY <1>1, <1>2 DEF CallInv, TransactionInv, ScriptInv

\* Where the call is in a transaction, and where not.
LEMMA Inside ==
    ASSUME TransactionInv, CallInv, ~refused, NEW h \in Handlers, Running(h),
           rest[h] # <<>>, Head(rest[h]) # "rollback"
    PROVE  /\ tx # None => Contains(rest[h], "commit") /\ Head(rest[h]) \notin {"begin", "stream"}
           /\ rest[h] # <<"rollback">> /\ ~Contains(rest[h], "rollback")
           /\ Head(rest[h]) # "begin" => ~Contains(rest[h], "begin")
           /\ ~Contains(Tail(rest[h]), "begin")
           /\ Contains(rest[h], Head(rest[h]))
  <1>1. /\ tx # None => Ending(rest[h])
        /\ HandlerOk(rest[h], ops[h], call[h], sent[h])
        /\ rest[h] \in Seq(Steps) /\ Ahead(rest[h])
    BY Alone
  <1>2. /\ Len(rest[h]) \in Nat \ {0} /\ Head(rest[h]) = rest[h][1]
        /\ Len(Tail(rest[h])) = Len(rest[h]) - 1
        /\ \A k \in 1 .. Len(rest[h]) - 1 : Tail(rest[h])[k] = rest[h][k + 1]
    BY <1>1, HeadTailProperties
  <1>3. rest[h] # <<"rollback">>
    OBVIOUS
  <1>4. ~Contains(rest[h], "rollback")
    BY <1>1, <1>3 DEF Ahead
  <1>5. Contains(rest[h], Head(rest[h]))
    BY <1>1, HeadAhead
  <1>6. Head(rest[h]) # "begin" => ~Contains(rest[h], "begin")
    BY <1>1, <1>2 DEF Ahead, Contains
  <1>7. ~Contains(Tail(rest[h]), "begin")
    <2> SUFFICES ASSUME NEW k \in 1 .. Len(Tail(rest[h])), Tail(rest[h])[k] = "begin"
                 PROVE  FALSE
      BY DEF Contains
    <2>1. k + 1 \in 1 .. Len(rest[h]) /\ rest[h][k + 1] = "begin" /\ k + 1 # 1
      BY <1>2
    <2> QED BY <1>1, <2>1 DEF Ahead
  <1>8. ASSUME tx # None
        PROVE  Contains(rest[h], "commit") /\ Head(rest[h]) \notin {"begin", "stream"}
    <2>1. Contains(rest[h], "commit") /\ ~Contains(rest[h], "begin")
      BY <1>1, <1>4, <1>8 DEF Ending
    <2>2. Head(rest[h]) # "stream"
      BY <1>1, <2>1, TailOrdered DEF HandlerOk
    <2> QED BY <1>5, <2>1, <2>2
  <1> QED BY <1>3, <1>4, <1>5, <1>6, <1>7, <1>8

\* A step of the call that runs alone, which stays the only one.
LEMMA StillRunning ==
    ASSUME NEW h \in Handlers, Running(h), UNCHANGED <<call, join>>,
           Contains(rest'[h], "commit") /\ ~Contains(rest'[h], "begin") => tx' # None,
           \A r \in Subscribed : Due(h, r)',
           \A op \in Range(ops'[h]) : ReflectedIn(db', op),
           Known(call[h], db'),
           tx' # None => Known(call[h], tx') /\ \A op \in acked' : ReflectedIn(tx', op)
    PROVE  Running(h)'
  <1>1. Subscribed' = Subscribed /\ Joining' = Joining
    BY DEF Subscribed, Joining
  <1> QED BY <1>1 DEF Running

\* A write of the call that runs alone leads the copies to the new database too.
LEMMA WriteSerial ==
    ASSUME Trimmed, TransactionInv, CallInv, Lasting, NEW h \in Handlers, Running(h),
           NEW op, Write(h, op)
    PROVE  Lasting' /\ Running(h)'
  <1>1. /\ rest[h] \in Seq(Steps) /\ rest[h] # <<>> /\ sent[h] = {}
        /\ ops[h] = <<>> \/ \E a : ops[h] = <<a>>
        /\ Range(Append(ops[h], op)) = Range(ops[h]) \cup {op}
        /\ rest'[h] = Tail(rest[h]) /\ ops'[h] = Append(ops[h], op)
        /\ IsOp(op) /\ Keeps(db, db')
    BY WriteCall DEF TransactionInv
  <1>2. /\ Head(rest[h]) \in First \cup {"addMembers"} /\ NextOp(db, op) /\ Still
        /\ db' = IF tx = None /\ Readers # {} THEN db ELSE Apply(db, op)
        /\ Known(call[h], db) /\ op.type = "update" => op.id \in DOMAIN db[op.table]
    BY DEF Write
  <1>3. db' = Apply(db, op)
    BY <1>2, Alone DEF Lasting
  <1>4. /\ tx' = tx /\ call' = call /\ join' = join /\ copy' = copy /\ sent' = sent
        /\ acked' = acked /\ refused' = refused
    BY <1>2 DEF Still
  <1>5. Head(rest[h]) \notin {"rollback", "begin", "stream", "commit"}
    BY <1>2 DEF First
  <1>6. /\ rest[h] # <<"rollback">> /\ Contains(rest[h], Head(rest[h]))
        /\ ~Contains(rest[h], "begin")
    BY <1>1, <1>5, Inside DEF Lasting
  <1>7. IsDatabase(db)
    BY DEF CallInv
  <1>8. ReflectedIn(db', op)
    BY <1>2, <1>3, <1>7, NextOpKept DEF Running
  <1>9. \A o : IsOp(o) /\ ReflectedIn(db, o) => ReflectedIn(db', o)
    BY <1>1 DEF Keeps
  <1>10. Lasting'
    BY <1>4, <1>9 DEF Lasting, CallInv
  <1>11. HandlerOk(rest[h], ops[h], call[h], sent[h])
    BY DEF CallInv
  <1>12. \A o \in Range(ops'[h]) : ReflectedIn(db', o)
    BY <1>1, <1>8, <1>9, <1>11 DEF Running, HandlerOk
  <1>13. Known(call[h], db')
    <2>1. \A t \in Tables : DOMAIN db[t] \subseteq DOMAIN db'[t]
      BY <1>1 DEF Keeps
    <2>2. /\ DOMAIN db.users \subseteq DOMAIN db'.users
          /\ DOMAIN db.convs \subseteq DOMAIN db'.convs
          /\ DOMAIN db.msgs \subseteq DOMAIN db'.msgs
      BY <2>1 DEF Tables
    <2> QED BY <2>2 DEF Running, Known
  <1>14. Contains(rest'[h], "commit") /\ ~Contains(rest'[h], "begin") => tx' # None
    <2>1. Contains(rest'[h], "commit") => Contains(rest[h], "commit")
      BY <1>1, TailContains
    <2> QED BY <1>4, <1>6, <2>1 DEF Running
  <1>15. Contains(rest[h], "stream") /\ Contains(rest'[h], "stream")
    <2>1. Contains(rest[h], "stream")
      BY <1>2, <1>6, <1>11 DEF HandlerOk, Ordered
    <2> QED BY <1>1, <1>5, <2>1, TailContains
  <1>16. ASSUME NEW r \in Subscribed PROVE Due(h, r)'
    <2>1. Due(h, r) /\ Replay(db, op) = db'
      BY <1>3 DEF Running, Replay
    <2>2. \A d : ReplayAll(d, ops'[h]) = Replay(ReplayAll(d, ops[h]), op)
      <3>1. PICK q : q = ops[h]
        OBVIOUS
      <3>2. \A d : ReplayAll(d, Append(q, op)) = Replay(ReplayAll(d, q), op)
        <4>1. q = <<>> \/ \E a : q = <<a>>
          BY <1>1, <3>1
        <4> QED BY ONLY <4>1, FoldAppend
      <3> QED BY <1>1, <3>1, <3>2
    <2>3. CASE tx # None
      <3>1. copy[r] = tx /\ ReplayAll(tx, ops[h]) = db
        BY <1>6, <2>1, <2>3 DEF Due
      <3>2. ReplayAll(tx, ops'[h]) = db'
        BY <2>1, <2>2, <3>1
      <3> QED BY <1>4, <2>3, <3>1, <3>2 DEF Due
    <2>4. CASE tx = None
      <3>1. ReplayAll(copy[r], ops[h]) = db
        BY <1>1, <1>15, <2>1, <2>4 DEF Due
      <3>2. ReplayAll(copy[r], ops'[h]) = db'
        BY <2>1, <2>2, <3>1
      <3> QED BY <1>1, <1>4, <1>15, <2>4, <3>2 DEF Due
    <2> QED BY <2>3, <2>4
  <1>17. tx' # None => Known(call[h], tx') /\ \A o \in acked' : ReflectedIn(tx', o)
    BY <1>4 DEF Running
  <1>18. Running(h)'
    BY <1>4, <1>12, <1>13, <1>14, <1>16, <1>17, StillRunning
  <1> QED BY <1>10, <1>18

\* A failure of the call that runs alone will be rolled back, or has written nothing.
LEMMA FailSerial ==
    ASSUME TransactionInv, CallInv, Lasting, NEW h \in Handlers, Running(h), Fail(h)
    PROVE  Lasting' /\ Running(h)'
  <1>1. /\ sent[h] = {} /\ ops'[h] = <<>>
        /\ rest'[h] = IF Contains(rest[h], "commit") THEN <<"rollback">> ELSE <<>>
    BY FailCall DEF TransactionInv
  <1>2. /\ rest[h] # <<>> /\ Head(rest[h]) \in First \cup Finds \cup {"begin", "commit"}
        /\ Head(rest[h]) = "begin" => tx # None
        /\ Head(rest[h]) = "commit" => tx = None
        /\ db' = db /\ Still
    BY DEF Fail
  <1>3. /\ tx' = tx /\ call' = call /\ join' = join /\ copy' = copy /\ sent' = sent
        /\ acked' = acked /\ refused' = refused
    BY <1>2 DEF Still
  <1>4. Head(rest[h]) # "rollback"
    BY <1>2 DEF First, Finds
  <1>5. /\ tx # None => Contains(rest[h], "commit") /\ Head(rest[h]) # "begin"
        /\ rest[h] # <<"rollback">> /\ Contains(rest[h], Head(rest[h]))
        /\ Head(rest[h]) # "begin" => ~Contains(rest[h], "begin")
    BY <1>2, <1>4, Inside DEF Lasting
  <1>6. HandlerOk(rest[h], ops[h], call[h], sent[h])
    BY DEF CallInv
  <1>7. Head(rest[h]) \in First \cup Finds
    BY <1>2, <1>5 DEF Running
  <1>8. tx # None <=> Contains(rest[h], "commit")
    <2>1. Head(rest[h]) # "begin"
      BY <1>7 DEF First, Finds
    <2> QED BY <1>5, <2>1 DEF Running
  <1>9. ~Contains(rest'[h], "commit")
    <2>1. CASE rest'[h] = <<>>
      BY <2>1 DEF Contains
    <2>2. CASE rest'[h] = <<"rollback">>
      <3>1. PICK q : q = rest'[h]
        OBVIOUS
      <3>2. Len(q) = 1 /\ q[1] = "rollback"
        BY <2>2, <3>1
      <3> QED BY <3>1, <3>2 DEF Contains
    <2> QED BY <1>1, <2>1, <2>2
  <1>10. ASSUME NEW r \in Subscribed PROVE Due(h, r)'
    <2>1. Due(h, r)
      BY DEF Running
    <2>2. CASE tx # None
      <3>1. copy[r] = tx /\ rest'[h] = <<"rollback">>
        BY <1>1, <1>8, <2>1, <2>2 DEF Due
      <3> QED BY <1>3, <2>2, <3>1 DEF Due
    <2>3. CASE tx = None
      <3>1. Head(rest[h]) \in First /\ rest'[h] = <<>>
        BY <1>1, <1>5, <1>6, <1>7, <1>8, <2>3 DEF HandlerOk, Ordered
      <3>2. ops[h] = <<>> /\ Contains(rest[h], "stream")
        BY <1>5, <1>6, <3>1 DEF HandlerOk, Ordered
      <3>3. ReplayAll(copy[r], ops[h]) = db
        BY <1>1, <2>1, <2>3, <3>2 DEF Due
      <3>4. copy[r] = db
        BY <3>2, <3>3, FoldNone
      <3>5. ~Contains(rest'[h], "stream")
        BY <3>1 DEF Contains
      <3> QED BY <1>2, <1>3, <2>3, <3>4, <3>5 DEF Due
    <2> QED BY <2>2, <2>3
  <1>11. \A o \in Range(ops'[h]) : ReflectedIn(db', o)
    BY <1>1 DEF Range
  <1>12. /\ Known(call[h], db')
         /\ tx' # None => Known(call[h], tx') /\ \A o \in acked' : ReflectedIn(tx', o)
    BY <1>2, <1>3 DEF Running
  <1>13. Running(h)'
    BY <1>3, <1>9, <1>10, <1>11, <1>12, StillRunning
  <1>14. Lasting'
    BY <1>2, <1>3 DEF Lasting
  <1> QED BY <1>13, <1>14

\* A step that writes nothing leaves due what was due.
LEMMA MoveSerial ==
    ASSUME TransactionInv, CallInv, Lasting, NEW h \in Handlers, Running(h), Move(h)
    PROVE  Lasting' /\ Running(h)'
  <1>1. rest'[h] = Tail(rest[h])
    BY MoveCall DEF TransactionInv
  <1>2. /\ rest[h] # <<>> /\ Head(rest[h]) \in Finds \cup {"notify"} /\ ops' = ops
        /\ db' = db /\ Still
    BY DEF Move
  <1>3. /\ tx' = tx /\ call' = call /\ join' = join /\ copy' = copy /\ sent' = sent
        /\ acked' = acked /\ refused' = refused
    BY <1>2 DEF Still
  <1>4. Head(rest[h]) \notin {"rollback", "stream", "begin"}
    BY <1>2 DEF Finds
  <1>5. rest[h] # <<"rollback">> /\ ~Contains(rest[h], "begin")
    BY <1>2, <1>4, Inside DEF Lasting
  <1>6. rest[h] \in Seq(Steps)
    BY DEF TransactionInv, ScriptInv
  <1>7. /\ Contains(rest'[h], "stream") <=> Contains(rest[h], "stream")
        /\ Contains(rest'[h], "commit") => Contains(rest[h], "commit")
    BY <1>1, <1>2, <1>4, <1>6, TailContains
  <1>8. ASSUME NEW r \in Subscribed PROVE Due(h, r)'
    <2>1. Due(h, r)
      BY DEF Running
    <2> QED BY <1>2, <1>3, <1>5, <1>7, <2>1 DEF Due
  <1>9. Contains(rest'[h], "commit") /\ ~Contains(rest'[h], "begin") => tx' # None
    BY <1>3, <1>5, <1>7 DEF Running
  <1>10. /\ \A o \in Range(ops'[h]) : ReflectedIn(db', o)
         /\ Known(call[h], db')
         /\ tx' # None => Known(call[h], tx') /\ \A o \in acked' : ReflectedIn(tx', o)
    BY <1>2, <1>3 DEF Running
  <1>11. Running(h)'
    BY <1>3, <1>8, <1>9, <1>10, StillRunning
  <1>12. Lasting'
    BY <1>2, <1>3 DEF Lasting
  <1> QED BY <1>11, <1>12

\* A BEGIN finds every copy equal to the database.
LEMMA BeginSerial ==
    ASSUME NoneApart, TransactionInv, CallInv, Lasting, NEW h \in Handlers, Running(h),
           Begin(h), tx = None
    PROVE  Lasting' /\ Running(h)'
  <1>1. rest'[h] = Tail(rest[h])
    BY BeginCall DEF TransactionInv
  <1>2. /\ rest[h] # <<>> /\ Head(rest[h]) = "begin" /\ tx' = db /\ db' = db /\ ops' = ops
        /\ call' = call /\ join' = join /\ copy' = copy /\ sent' = sent
        /\ acked' = acked /\ refused' = refused
    BY DEF Begin, At, joinVars, history
  <1>3. Contains(rest[h], "begin") /\ HandlerOk(rest[h], ops[h], call[h], sent[h])
    BY <1>2, Inside DEF Lasting, CallInv
  <1>4. ops[h] = <<>> /\ sent[h] = {}
    BY <1>2, <1>3 DEF HandlerOk
  <1>5. db # None
    BY DatabaseIsSome DEF CallInv
  <1>6. ReplayAll(db, ops[h]) = db
    BY <1>4, FoldNone
  <1>7. ASSUME NEW r \in Subscribed PROVE Due(h, r)'
    <2>1. Due(h, r)
      BY DEF Running
    <2>2. ReplayAll(copy[r], ops[h]) = copy[r]
      BY <1>4, FoldNone
    <2>3. copy[r] = db
      BY <2>1, <2>2 DEF Due
    <2> QED BY <1>2, <1>5, <1>6, <2>3 DEF Due
  <1>8. tx' # None
    BY <1>2, <1>5
  <1>9. /\ \A o \in Range(ops'[h]) : ReflectedIn(db', o)
        /\ Known(call[h], db')
        /\ Known(call[h], tx') /\ \A o \in acked' : ReflectedIn(tx', o)
    BY <1>2 DEF Running, Lasting
  <1>10. Running(h)'
    BY <1>2, <1>7, <1>8, <1>9, StillRunning
  <1>11. Lasting'
    BY <1>2 DEF Lasting
  <1> QED BY <1>10, <1>11

\* A COMMIT is not refused, and leaves the operations to be streamed.
LEMMA CommitSerial ==
    ASSUME TransactionInv, CallInv, Lasting, NEW h \in Handlers, Running(h),
           Commit(h), tx # None
    PROVE  Lasting' /\ Running(h)'
  <1>1. rest'[h] = Tail(rest[h])
    BY CommitCall DEF TransactionInv
  <1>2. Readers = {}
    BY Alone DEF Lasting
  <1>3. /\ rest[h] # <<>> /\ Head(rest[h]) = "commit" /\ tx' = None /\ db' = db /\ ops' = ops
        /\ call' = call /\ join' = join /\ copy' = copy /\ sent' = sent
        /\ acked' = acked /\ refused' = refused
    BY <1>2 DEF Commit, At, joinVars
  <1>4. /\ rest[h] # <<"rollback">> /\ Contains(rest[h], "commit") /\ rest[h] \in Seq(Steps)
        /\ HandlerOk(rest[h], ops[h], call[h], sent[h])
    BY <1>3, Inside DEF Lasting, CallInv, TransactionInv, ScriptInv
  <1>5. sent[h] = {} /\ Contains(rest[h], "stream") /\ Ordered(rest[h])
    BY <1>3, <1>4 DEF HandlerOk, Ordered
  <1>6. Contains(rest'[h], "stream")
    BY <1>1, <1>3, <1>4, <1>5, TailContains
  <1>7. ~Contains(rest'[h], "commit")
    <2>1. "commit" \in Passed("commit")
      BY DEF Passed, First
    <2> QED BY <1>1, <1>3, <1>4, <1>5, <2>1, TailOrdered
  <1>8. ASSUME NEW r \in Subscribed PROVE Due(h, r)'
    <2>1. Due(h, r)
      BY DEF Running
    <2>2. copy[r] = tx /\ ReplayAll(copy[r], ops[h]) = db
      BY <1>4, <2>1 DEF Due
    <2> QED BY <1>3, <1>5, <1>6, <2>2 DEF Due
  <1>9. /\ \A o \in Range(ops'[h]) : ReflectedIn(db', o)
        /\ Known(call[h], db')
        /\ tx' # None => Known(call[h], tx') /\ \A o \in acked' : ReflectedIn(tx', o)
    BY <1>3 DEF Running
  <1>10. Running(h)'
    BY <1>3, <1>7, <1>8, <1>9, StillRunning
  <1>11. Lasting'
    BY <1>3 DEF Lasting
  <1> QED BY <1>10, <1>11

\* A ROLLBACK goes back to what the copies have.
LEMMA RollbackSerial ==
    ASSUME TransactionInv, CallInv, Lasting, NEW h \in Handlers, Running(h),
           Rollback(h)
    PROVE  Lasting' /\ Running(h)'
  <1>1. rest'[h] = Tail(rest[h])
    BY RollbackCall DEF TransactionInv
  <1>2. /\ rest[h] # <<>> /\ Head(rest[h]) = "rollback" /\ ops' = ops
        /\ db' = IF tx = None THEN db ELSE tx
        /\ tx' = None
        /\ call' = call /\ join' = join /\ copy' = copy /\ sent' = sent
        /\ acked' = acked /\ refused' = refused
    BY DEF Rollback, At, joinVars, history
  <1>3. /\ rest[h] \in Seq(Steps) /\ Ahead(rest[h])
        /\ HandlerOk(rest[h], ops[h], call[h], sent[h])
    BY Alone DEF Lasting
  <1>4. Contains(rest[h], "rollback")
    BY <1>2, <1>3, HeadAhead
  <1>5. rest[h] = <<"rollback">> /\ ops[h] = <<>> /\ sent[h] = {}
    BY <1>2, <1>3, <1>4 DEF Ahead, HandlerOk
  <1>6. rest'[h] = <<>>
    BY <1>1, <1>5
  <1>7. ~Contains(rest'[h], "commit") /\ ~Contains(rest'[h], "stream")
    BY <1>6 DEF Contains
  <1>8. ReplayAll(db, ops[h]) = db /\ \A d : ReplayAll(d, ops[h]) = d
    BY <1>5, FoldNone
  <1>9. ASSUME NEW r \in Subscribed PROVE Due(h, r)'
    <2>1. Due(h, r)
      BY DEF Running
    <2>2. copy[r] = db'
      BY <1>2, <1>8, <2>1 DEF Due
    <2> QED BY <1>2, <1>7, <2>2 DEF Due
  <1>10. \A o \in Range(ops'[h]) : ReflectedIn(db', o)
    BY <1>2, <1>5 DEF Range
  <1>11. /\ Known(call[h], db')
         /\ tx' # None => Known(call[h], tx') /\ \A o \in acked' : ReflectedIn(tx', o)
    BY <1>2 DEF Running
  <1>12. Running(h)'
    BY <1>2, <1>7, <1>9, <1>10, <1>11, StillRunning
  <1>13. Lasting'
    BY <1>2 DEF Lasting, Running
  <1> QED BY <1>12, <1>13

\* A call that streams, alone, is out of its transaction.
LEMMA Streaming ==
    ASSUME TransactionInv, CallInv, Lasting, NEW h \in Handlers, Running(h), At(h, "stream")
    PROVE  /\ tx = None /\ rest[h] \in Seq(Steps) /\ rest[h] # <<>>
           /\ Contains(rest[h], "stream") /\ ~Contains(rest[h], "commit")
           /\ ~Contains(Tail(rest[h]), "stream") /\ ~Contains(Tail(rest[h]), "commit")
  <1>1. rest[h] # <<>> /\ Head(rest[h]) = "stream"
    BY DEF At
  <1>2. /\ rest[h] \in Seq(Steps) /\ HandlerOk(rest[h], ops[h], call[h], sent[h])
    BY Alone DEF Lasting
  <1>3. tx = None
    BY <1>1, Inside DEF Lasting
  <1>4. Contains(rest[h], "stream")
    BY <1>1, <1>2, HeadAhead
  <1>5. "stream" \in Passed("stream") /\ Ordered(rest[h])
    BY <1>2 DEF Passed, First, HandlerOk
  <1>6. ~Contains(Tail(rest[h]), "stream") /\ ~Contains(rest[h], "commit")
    BY <1>1, <1>2, <1>5, TailOrdered
  <1>7. ~Contains(Tail(rest[h]), "commit")
    BY <1>1, <1>2, <1>6, TailContains
  <1> QED BY <1>1, <1>2, <1>3, <1>4, <1>6, <1>7

\* When the streaming is done every copy is the database.
LEMMA StreamDoneSerial ==
    ASSUME TransactionInv, CallInv, Lasting, NEW h \in Handlers, Running(h),
           StreamDone(h)
    PROVE  Lasting' /\ Running(h)'
  <1>1. rest'[h] = Tail(rest[h]) /\ sent'[h] = {}
    BY StreamDoneCall DEF TransactionInv
  <1>2. /\ At(h, "stream") /\ ops' = ops /\ db' = db /\ tx' = tx /\ Subscribed \subseteq sent[h]
        /\ call' = call /\ join' = join /\ copy' = copy
        /\ acked' = acked /\ refused' = refused
    BY DEF StreamDone, joinVars, dbVars, history
  <1>3. /\ tx = None /\ ~Contains(Tail(rest[h]), "stream")
        /\ ~Contains(Tail(rest[h]), "commit")
    BY <1>2, Streaming
  <1>4. ASSUME NEW r \in Subscribed PROVE Due(h, r)'
    <2>1. Due(h, r) /\ r \in sent[h]
      BY <1>2 DEF Running
    <2>2. copy[r] = db
      BY <1>3, <2>1 DEF Due
    <2> QED BY <1>1, <1>2, <1>3, <2>2 DEF Due
  <1>5. /\ \A o \in Range(ops'[h]) : ReflectedIn(db', o)
        /\ Known(call[h], db')
        /\ tx' # None => Known(call[h], tx') /\ \A o \in acked' : ReflectedIn(tx', o)
    BY <1>2 DEF Running
  <1>6. Running(h)'
    BY <1>1, <1>2, <1>3, <1>4, <1>5, StillRunning
  <1>7. Lasting'
    BY <1>2 DEF Lasting
  <1> QED BY <1>6, <1>7

\* A stream that is written to brings its copy to the database.
LEMMA StreamToSerial ==
    ASSUME TransactionInv, CallInv, Lasting, NEW h \in Handlers, Running(h),
           NEW r \in Replicas, StreamTo(h, r)
    PROVE  Lasting' /\ Running(h)'
  <1>1. /\ copy'[r] = ReplayAll(copy[r], ops[h]) /\ sent'[h] = sent[h] \cup {r}
        /\ \A s \in Replicas \ {r} : copy'[s] = copy[s]
    BY StreamToCall
  <1>2. /\ At(h, "stream") /\ r \in Subscribed \ sent[h]
        /\ ops' = ops /\ db' = db /\ tx' = tx /\ rest' = rest
        /\ call' = call /\ join' = join
        /\ acked' = acked /\ refused' = refused
    BY DEF StreamTo, dbVars
  <1>3. tx = None /\ Contains(rest[h], "stream") /\ ~Contains(rest[h], "commit")
    BY <1>2, Streaming
  <1>4. ASSUME NEW s \in Subscribed PROVE Due(h, s)'
    <2>1. Due(h, s) /\ Due(h, r) /\ s \in Replicas
      BY <1>2 DEF Running, Subscribed
    <2>2. CASE s = r
      <3>1. copy'[r] = db
        BY <1>1, <1>2, <1>3, <2>1 DEF Due
      <3> QED BY <1>1, <1>2, <1>3, <2>2, <3>1 DEF Due
    <2>3. CASE s # r
      <3>1. copy'[s] = copy[s] /\ (s \in sent'[h] <=> s \in sent[h])
        BY <1>1, <2>1, <2>3
      <3> QED BY <1>2, <1>3, <2>1, <3>1 DEF Due
    <2> QED BY <2>2, <2>3
  <1>5. /\ \A o \in Range(ops'[h]) : ReflectedIn(db', o)
        /\ Known(call[h], db')
        /\ tx' # None => Known(call[h], tx') /\ \A o \in acked' : ReflectedIn(tx', o)
    BY <1>2 DEF Running
  <1>6. Running(h)'
    BY <1>2, <1>3, <1>4, <1>5, StillRunning
  <1>7. Lasting'
    BY <1>2 DEF Lasting
  <1> QED BY <1>6, <1>7

\* An answer is reflected in the database, and leaves no call and no debt.
LEMMA AnswerSerial ==
    ASSUME TransactionInv, CallInv, Lasting, NEW h \in Handlers, Running(h), Answer(h)
    PROVE  Lasting' /\ Resting'
  <1>1. call'[h] = None /\ \A g \in Handlers \ {h} : call'[g] = None
    <2>1. call'[h] = None
      BY AnswerCall
    <2>2. call' = [call EXCEPT ![h] = None] /\ DOMAIN call = Handlers
      BY DEF Answer, CallInv, FunctionInv
    <2> QED BY <2>1, <2>2 DEF Running
  <1>2. /\ rest[h] = <<>> /\ acked' = acked \cup Range(ops[h])
        /\ db' = db /\ join' = join /\ copy' = copy /\ refused' = refused
    BY DEF Answer, dbVars, joinVars
  <1>3. ~Contains(rest[h], "stream") /\ ~Ending(rest[h])
    BY <1>2 DEF Contains, Ending
  <1>4. tx = None
    BY <1>3, Alone DEF Lasting
  <1>5. ASSUME NEW r \in Replicas, join[r] # "out" PROVE copy[r] = db
    <2>1. r \in Subscribed
      BY <1>5 DEF Running, Joining, CallInv, FunctionInv, Subscribed
    <2> QED BY <1>3, <1>4, <2>1 DEF Running, Due
  <1>6. Resting'
    BY <1>1, <1>2, <1>5 DEF Resting, Idle
  <1>7. Lasting'
    BY <1>2 DEF Lasting, Running
  <1> QED BY <1>6, <1>7

\* A call that starts alone finds every copy equal to the database.
LEMMA StartSerial ==
    ASSUME NoneApart, TransactionInv, CallInv, Lasting, Resting, NEW h \in Handlers, Start(h),
           ~overlapped'
    PROVE  Lasting' /\ Running(h)'
  <1>1. /\ ops[h] = <<>> /\ sent[h] = {} /\ call'[h] # None /\ Known(call'[h], db)
        /\ Contains(rest'[h], "commit") => Contains(rest'[h], "begin")
        /\ \A g \in Handlers \ {h} : call'[g] = call[g]
    BY StartCall DEF TransactionInv
  <1>2. /\ db' = db /\ tx' = tx /\ ops' = ops /\ sent' = sent /\ join' = join /\ copy' = copy
        /\ refused' = refused /\ acked' = acked /\ ~Joining
    BY DEF Start, dbVars, joinVars
  <1>3. tx = None
    <2>1. \A g \in Handlers : rest[g] = <<>>
      BY DEF Resting, Idle, CallInv, HandlerOk
    <2>2. \A g \in Handlers : ~InTransaction(g)
      BY <2>1 DEF InTransaction, Contains
    <2> QED BY <2>2 DEF TransactionInv, TransactionsEnd, Lasting
  <1>4. Subscribed' = Subscribed /\ Joining' = Joining
    BY <1>2 DEF Subscribed, Joining
  <1>5. ASSUME NEW r \in Subscribed PROVE Due(h, r)'
    <2>1. copy[r] = db
      BY DEF Resting, Subscribed
    <2>2. ReplayAll(copy[r], ops[h]) = db
      BY <1>1, <2>1, FoldNone
    <2> QED BY <1>2, <1>3, <2>1, <2>2 DEF Due
  <1>6. \A o \in Range(ops'[h]) : ReflectedIn(db', o)
    BY <1>1, <1>2 DEF Range
  <1>7. \A g \in Handlers \ {h} : call'[g] = None
    BY <1>1 DEF Resting, Idle
  <1>8. Running(h)'
    BY <1>1, <1>2, <1>3, <1>4, <1>5, <1>6, <1>7 DEF Running
  <1>9. Lasting'
    BY <1>2 DEF Lasting
  <1> QED BY <1>8, <1>9

\* A handler without a call can only start one.
LEMMA OnlyStart ==
    ASSUME CallInv, NEW h \in Handlers, call[h] = None
    PROVE  /\ CallStep(h) => Start(h)
           /\ \A r \in Replicas : ~StreamTo(h, r)
  <1>1. rest[h] = <<>>
    BY DEF CallInv, HandlerOk
  <1> QED BY <1>1 DEF CallStep, Begin, Commit, Rollback, InsertUser, FindUser, MarkUser,
             InsertConversation, AddMembers, InsertMessage, FindReceiver, MarkRead,
             MarkConversation, MarkMessage, StreamDone, Notify, Answer, StreamTo, At

\* What a step of a call that is running comes to.
LEMMA CallSteps ==
    ASSUME CallInv, ScriptInv, NEW h \in Handlers, CallStep(h), ~Start(h), ~Answer(h)
    PROVE  \/ \E op : Write(h, op)
           \/ Fail(h) \/ Move(h)
           \/ Begin(h) /\ tx = None
           \/ Commit(h) /\ tx # None
           \/ Rollback(h) \/ StreamDone(h)
  <1>1. CASE Begin(h) /\ tx # None
    BY <1>1 DEF Begin, At, Fail, Still, joinVars, history
  <1>2. CASE Commit(h) /\ tx = None
    BY <1>2 DEF Commit, At, Fail, Still, joinVars
  <1>3. CASE InsertUser(h)
    BY <1>3, InsertUserStep
  <1>4. CASE MarkUser(h) \/ MarkConversation(h) \/ MarkMessage(h)
    BY <1>4, MarkSteps
  <1>5. CASE MarkRead(h)
    BY <1>5, MarkReadStep
  <1>6. CASE InsertConversation(h) \/ InsertMessage(h) \/ AddMembers(h)
    BY <1>6, InsertSteps
  <1>7. CASE FindUser(h) \/ FindReceiver(h) \/ Notify(h)
    BY <1>7, FindSteps
  <1> QED BY <1>1, <1>2, <1>3, <1>4, <1>5, <1>6, <1>7 DEF CallStep

\* The calls stay in step with their operations.
LEMMA CallStepCall ==
    ASSUME NoneApart, CallInv, ScriptInv, NEW h \in Handlers, CallStep(h)
    PROVE  CallInv'
  <1>1. CASE Start(h)
    BY <1>1, StartCall
  <1>2. CASE Answer(h)
    BY <1>2, AnswerCall
  <1>3. CASE ~Start(h) /\ ~Answer(h)
    BY <1>3, CallSteps, WriteCall, FailCall, MoveCall, BeginCall, CommitCall, RollbackCall,
       StreamDoneCall
  <1> QED BY <1>1, <1>2, <1>3

\* And so they do in every step.
LEMMA NextCall ==
    ASSUME NoneApart, CallInv, ScriptInv, [Next]_vars
    PROVE  CallInv'
  <1>1. CASE UNCHANGED vars
    <2>1. FunctionInv'
      BY <1>1 DEF vars, callVars, joinVars, CallInv, FunctionInv
    <2>2. UNCHANGED <<db, tx, call, rest, ops, sent, acked>>
      BY <1>1 DEF vars, dbVars, callVars, history
    <2> QED BY <2>1, <2>2, SameCall
  <1>2. ASSUME NEW h \in Handlers, CallStep(h) PROVE CallInv'
    BY <1>2, CallStepCall
  <1>3. ASSUME NEW h \in Handlers, NEW r \in Replicas, StreamTo(h, r) PROVE CallInv'
    BY <1>3, StreamToCall
  <1>4. ASSUME NEW r \in Replicas, CopyBegin(r) \/ CopyEnd(r) \/ Subscribe(r) \/ Leave(r)
        PROVE  CallInv'
    BY <1>4, JoinCall
  <1>5. ASSUME NEW s \in Streams, Register(s) \/ Cancel(s) \/ Deregister(s) PROVE CallInv'
    <2>1. UNCHANGED <<callVars, joinVars, dbVars, history>>
      BY <1>5 DEF Register, Cancel, Deregister
    <2>2. FunctionInv'
      BY <2>1 DEF callVars, joinVars, CallInv, FunctionInv
    <2>3. UNCHANGED <<db, tx, call, rest, ops, sent, acked>>
      BY <2>1 DEF dbVars, callVars, history
    <2> QED BY <2>2, <2>3, SameCall
  <1> QED BY <1>1, <1>2, <1>3, <1>4, <1>5 DEF Next

\* A replica that joins while no call runs gets the database there is.
LEMMA JoinResting ==
    ASSUME TransactionInv, CallInv, Lasting, Resting, NEW r \in Replicas,
           CopyBegin(r) \/ CopyEnd(r) \/ Subscribe(r) \/ Leave(r)
    PROVE  Lasting' /\ Resting'
  <1>1. tx = None
    <2>1. \A g \in Handlers : rest[g] = <<>>
      BY DEF Resting, Idle, CallInv, HandlerOk
    <2>2. \A g \in Handlers : ~InTransaction(g)
      BY <2>1 DEF InTransaction, Contains
    <2> QED BY <2>2 DEF TransactionInv, TransactionsEnd, Lasting
  <1>2. db' = db /\ call' = call /\ acked' = acked /\ refused' = refused
    BY DEF CopyBegin, CopyEnd, Subscribe, Leave, dbVars, callVars, history
  <1>3. FunctionInv
    BY DEF CallInv
  <1>4. \/ CopyBegin(r) /\ join' = [join EXCEPT ![r] = "copying"] /\ copy' = [copy EXCEPT ![r] = db]
        \/ join[r] # "out" /\ copy' = copy /\ \E x : join' = [join EXCEPT ![r] = x]
        \/ join' = [join EXCEPT ![r] = "out"] /\ copy' = [copy EXCEPT ![r] = None]
    BY <1>1 DEF CopyBegin, CopyEnd, Subscribe, Leave
  <1>5. \A q \in Replicas : join'[q] # "out" => copy'[q] = db
    BY <1>3, <1>4 DEF Resting, FunctionInv
  <1> QED BY <1>2, <1>5 DEF Lasting, Resting, Idle

\* Next to a call, a replica can only leave.
LEMMA JoinRunning ==
    ASSUME CallInv, Lasting, NEW h \in Handlers, Running(h), NEW r \in Replicas,
           CopyBegin(r) \/ CopyEnd(r) \/ Subscribe(r) \/ Leave(r), ~overlapped'
    PROVE  Lasting' /\ Running(h)'
  <1>1. ~CopyBegin(r)
    BY DEF CopyBegin, Running, Idle
  <1>2. Leave(r)
    BY <1>1 DEF CopyEnd, Subscribe, Running, Joining
  <1>3. /\ UNCHANGED <<dbVars, callVars, history>>
        /\ join' = [join EXCEPT ![r] = "out"] /\ copy' = [copy EXCEPT ![r] = None]
        /\ FunctionInv
    BY <1>2 DEF Leave, CallInv
  <1>4. \A q \in Replicas \ {r} : join'[q] = join[q] /\ copy'[q] = copy[q]
    BY <1>3 DEF FunctionInv
  <1>5. join'[r] = "out"
    BY <1>3 DEF FunctionInv
  <1>6. ~Joining' /\ Subscribed' \subseteq Subscribed \ {r}
    BY <1>4, <1>5 DEF Running, Joining, Subscribed
  <1>7. /\ db' = db /\ tx' = tx /\ call' = call /\ rest' = rest /\ ops' = ops /\ sent' = sent
        /\ refused' = refused /\ acked' = acked
    BY <1>3 DEF dbVars, callVars, history
  <1>8. ASSUME NEW q \in Subscribed' PROVE Due(h, q)'
    <2>1. Due(h, q) /\ copy'[q] = copy[q]
      BY <1>4, <1>6 DEF Running, Subscribed
    <2> QED BY <1>7, <2>1 DEF Due
  <1>9. Running(h)'
    BY <1>6, <1>7, <1>8 DEF Running
  <1>10. Lasting'
    BY <1>7 DEF Lasting
  <1> QED BY <1>9, <1>10

\* A step that touches neither the calls nor the database nor the copies.
LEMMA SameSerial ==
    ASSUME SerialInv, UNCHANGED <<dbVars, callVars, joinVars, history>>
    PROVE  SerialInv'
  <1>1. /\ db' = db /\ tx' = tx /\ call' = call /\ rest' = rest /\ ops' = ops /\ sent' = sent
        /\ refused' = refused /\ acked' = acked /\ overlapped' = overlapped
        /\ join' = join /\ copy' = copy
    BY DEF dbVars, callVars, joinVars, history
  <1>2. Lasting' = Lasting /\ Resting' = Resting
    BY <1>1 DEF Lasting, Resting, Idle
  <1>3. ASSUME NEW h \in Handlers, Running(h) PROVE Running(h)'
    BY <1>1, <1>3 DEF Running, Due, Joining, Subscribed
  <1> QED BY <1>1, <1>2, <1>3 DEF SerialInv

\* A step of a call, while none has overlapped another.
LEMMA CallStepSerial ==
    ASSUME Trimmed, NoneApart, TransactionInv, CallInv, SerialInv, ~overlapped',
           NEW h \in Handlers, CallStep(h)
    PROVE  Lasting' /\ (Resting' \/ \E g \in Handlers : Running(g)')
  <1>1. ~overlapped
    BY DEF CallStep, Start, Begin, Commit, Rollback, InsertUser, FindUser, MarkUser,
           InsertConversation, AddMembers, InsertMessage, FindReceiver, MarkRead,
           MarkConversation, MarkMessage, StreamDone, Notify, Answer, Statement, history
  <1>2. Lasting /\ ScriptInv
    BY <1>1 DEF SerialInv, TransactionInv
  <1>3. CASE Resting
    <2>1. Start(h)
      BY <1>3, OnlyStart DEF Resting, Idle
    <2> QED BY <1>2, <1>3, <2>1, StartSerial
  <1>4. ASSUME NEW g \in Handlers, Running(g) PROVE Lasting' /\ (Resting' \/ Running(g)')
    <2>1. g = h
      <3>1. CASE call[h] = None
        <4>1. Start(h)
          BY <3>1, OnlyStart
        <4> QED BY <1>4, <4>1 DEF Start, Running, Idle
      <3>2. CASE call[h] # None
        BY <1>4, <3>2 DEF Running
      <3> QED BY <3>1, <3>2
    <2>2. Running(h) /\ ~Start(h)
      BY <1>4, <2>1 DEF Start, Running
    <2>3. CASE Answer(h)
      BY <1>2, <2>2, <2>3, AnswerSerial
    <2>4. CASE ~Answer(h)
      <3>1. Lasting' /\ Running(h)'
        BY <1>2, <2>2, <2>4, CallSteps, WriteSerial, FailSerial, MoveSerial, BeginSerial,
           CommitSerial, RollbackSerial, StreamDoneSerial
      <3> QED BY <2>1, <3>1
    <2> QED BY <2>3, <2>4
  <1> QED BY <1>1, <1>3, <1>4 DEF SerialInv

\* Every step keeps what calls one at a time rely on.
LEMMA NextSerial ==
    ASSUME Trimmed, NoneApart, TransactionInv, CallInv, SerialInv, [Next]_vars
    PROVE  SerialInv'
  <1>1. CASE UNCHANGED vars
    BY <1>1, SameSerial DEF vars
  <1>2. ASSUME NEW s \in Streams, Register(s) \/ Cancel(s) \/ Deregister(s) PROVE SerialInv'
    BY <1>2, SameSerial DEF Register, Cancel, Deregister
  <1>3. ASSUME NEW h \in Handlers, CallStep(h) PROVE SerialInv'
    <2>1. CASE overlapped'
      BY <2>1 DEF SerialInv
    <2>2. CASE ~overlapped'
      BY <1>3, <2>2, CallStepSerial DEF SerialInv
    <2> QED BY <2>1, <2>2
  <1>4. ASSUME NEW h \in Handlers, NEW r \in Replicas, StreamTo(h, r) PROVE SerialInv'
    <2>1. overlapped' = overlapped
      BY <1>4 DEF StreamTo
    <2>2. ASSUME NEW g \in Handlers, Running(g), Lasting PROVE Lasting' /\ Running(g)'
      <3>1. g = h
        BY <1>4, <2>2, OnlyStart DEF Running
      <3> QED BY <1>4, <2>2, <3>1, StreamToSerial
    <2>3. ~Resting
      BY <1>4, OnlyStart DEF Resting, Idle
    <2> QED BY <2>1, <2>2, <2>3 DEF SerialInv
  <1>5. ASSUME NEW r \in Replicas, CopyBegin(r) \/ CopyEnd(r) \/ Subscribe(r) \/ Leave(r)
        PROVE  SerialInv'
    <2>1. ~overlapped' => ~overlapped
      BY <1>5 DEF CopyBegin, CopyEnd, Subscribe, Leave, history
    <2>2. ASSUME NEW g \in Handlers, Running(g), Lasting, ~overlapped'
          PROVE  Lasting' /\ Running(g)'
      BY <1>5, <2>2, JoinRunning
    <2>3. Resting /\ Lasting => Resting' /\ Lasting'
      BY <1>5, JoinResting
    <2> QED BY <2>1, <2>2, <2>3 DEF SerialInv
  <1> QED BY <1>1, <1>2, <1>3, <1>4, <1>5 DEF Next

\* At the start no call runs and no replica has a copy.
LEMMA InitSerial == Init => SerialInv
  BY DEF Init, SerialInv, Lasting, Resting, Idle

\* What calls one at a time rely on holds throughout.
LEMMA SerialCorrect ==
    ASSUME Trimmed, NoneApart
    PROVE  Spec => [](CallInv /\ SerialInv)
  <1>1. Init => TransactionInv /\ CallInv /\ SerialInv
    BY InitTransaction, InitCall, InitSerial
  <1>2. TransactionInv /\ CallInv /\ SerialInv /\ [Next]_vars
           => (TransactionInv /\ CallInv /\ SerialInv)'
    BY NextTransaction, NextCall, NextSerial DEF TransactionInv
  <1> QED BY <1>1, <1>2, PTL DEF Spec

\* As long as no call runs beside another or beside a join, a replica that
\* listens has the leader's database whenever no call is running, however many
\* calls are done, fail or roll back and whenever replicas come and go; for names
\* that SignupUser streams as it stores them (impl.cpp:81-134).
THEOREM ReplicasCorrect ==
    ASSUME NoneApart, \A n \in Names : Trim[n] = n
    PROVE  Spec => []SerialReplicasAgree
  <1>1. Trimmed
    BY DEF Trimmed
  <1>2. SerialInv => SerialReplicasAgree
    BY DEF SerialInv, SerialReplicasAgree, Resting, Running, Idle, Subscribed
  <1> QED BY <1>1, <1>2, SerialCorrect, PTL

\* With such calls what was answered Ok stays done: no rollback takes it back and
\* no commit that was answered has been refused.
THEOREM CallsCorrect ==
    ASSUME NoneApart, \A n \in Names : Trim[n] = n
    PROVE  Spec => []SerialCallsLast
  <1>1. Trimmed
    BY DEF Trimmed
  <1>2. SerialInv => SerialCallsLast
    BY ReflectedInDb DEF SerialInv, SerialCallsLast, Lasting
  <1> QED BY <1>1, <1>2, SerialCorrect, PTL

-----------------------------------------------------------------------------
(* Types.                                                                  *)

\* q is what is left of s.
Rest(q, s) ==
    /\ q \in Seq(Steps) /\ s \in Seq(Steps) /\ Len(q) <= Len(s)
    /\ \A k \in 1 .. Len(q) : q[k] = s[Len(s) - Len(q) + k]

\* What is left of a script is a suffix of it.
LEMMA RestIsSuffix ==
    ASSUME NEW q, NEW s, Rest(q, s)
    PROVE  IsSuffix(q, s)
  <1>1. PICK m : m = Len(q)
    OBVIOUS
  <1>2. PICK n : n = Len(s)
    OBVIOUS
  <1>3. q \in Seq(Steps) /\ s \in Seq(Steps) /\ m \in Nat /\ n \in Nat /\ m <= n
    BY <1>1, <1>2, LenProperties DEF Rest
  <1>4. PICK p : p = Reverse(q)
    OBVIOUS
  <1>5. PICK t : t = Reverse(s)
    OBVIOUS
  <1>6. p = [i \in 1 .. m |-> q[(m - i) + 1]] /\ t = [i \in 1 .. n |-> s[(n - i) + 1]]
    BY <1>1, <1>2, <1>4, <1>5 DEF Reverse
  <1>7. p \in Seq(Steps) /\ Len(p) = m /\ t \in Seq(Steps) /\ Len(t) = n
    <2>1. /\ \A i \in 1 .. m : (m - i) + 1 \in 1 .. m
          /\ \A i \in 1 .. n : (n - i) + 1 \in 1 .. n
      BY <1>3
    <2>2. (\A k \in 1 .. m : q[k] \in Steps) /\ (\A k \in 1 .. n : s[k] \in Steps)
      BY <1>1, <1>2, <1>3, ElementOfSeq
    <2>3. p \in [1 .. m -> Steps] /\ t \in [1 .. n -> Steps]
      BY <1>6, <2>1, <2>2
    <2> QED BY <1>3, <2>3, SeqDef, LenProperties
  <1>8. \A i \in 1 .. m : p[i] = t[i]
    <2> SUFFICES ASSUME NEW i \in 1 .. m PROVE p[i] = t[i]
      OBVIOUS
    <2>1. i \in 1 .. n /\ (m - i) + 1 \in 1 .. m /\ n - m + ((m - i) + 1) = (n - i) + 1
      BY <1>3
    <2>2. q[(m - i) + 1] = s[n - m + ((m - i) + 1)]
      BY <1>1, <1>2, <2>1 DEF Rest
    <2> QED BY <1>6, <2>1, <2>2
  <1>9. SubSeq(p, 1, m) = SubSeq(t, 1, m)
    <2>1. \A i \in 1 .. m : i \in 1 .. n /\ (1 + i) - 1 = i
      BY <1>3
    <2> QED BY <1>3, <1>7, <1>8, <2>1
  <1>10. IsPrefix(p, t)
    BY <1>3, <1>7, <1>9 DEF IsPrefix
  <1> QED BY <1>4, <1>5, <1>10 DEF IsSuffix

\* A step taken leaves what is left of the same script.
LEMMA RestOfTail ==
    ASSUME NEW q, q # <<>>, NEW s, Rest(q, s)
    PROVE  Rest(Tail(q), s)
  <1>1. /\ q \in Seq(Steps) /\ s \in Seq(Steps) /\ Len(s) \in Nat /\ Len(q) <= Len(s)
        /\ Tail(q) \in Seq(Steps)
        /\ Len(q) \in Nat \ {0} /\ Len(Tail(q)) = Len(q) - 1
        /\ \A k \in 1 .. Len(q) - 1 : Tail(q)[k] = q[k + 1]
    BY HeadTailProperties, LenProperties DEF Rest
  <1>2. ASSUME NEW k \in 1 .. Len(Tail(q))
        PROVE  Tail(q)[k] = s[Len(s) - Len(Tail(q)) + k]
    <2>1. k + 1 \in 1 .. Len(q) /\ Len(s) - Len(q) + (k + 1) = Len(s) - Len(Tail(q)) + k
      BY <1>1
    <2>2. q[k + 1] = s[Len(s) - Len(q) + (k + 1)]
      BY <2>1 DEF Rest
    <2> QED BY <1>1, <2>1, <2>2
  <1> QED BY <1>1, <1>2 DEF Rest

\* A script is what is left of itself.
LEMMA RestOfItself ==
    ASSUME NEW s \in Seq(Steps)
    PROVE  Rest(s, s)
  <1>1. Len(s) \in Nat /\ \A k \in 1 .. Len(s) : Len(s) - Len(s) + k = k
    BY LenProperties
  <1> QED BY <1>1 DEF Rest

Legal(q) == q = <<>> \/ q = <<"rollback">> \/ \E k \in DOMAIN Script : Rest(q, Script[k])

\* What else the types rest on.
RangeInv ==
    /\ \A h \in Handlers : Legal(rest[h]) /\ sent[h] \subseteq Subscribed
    /\ calls \in 0 .. MaxCalls
    /\ overlapped \in BOOLEAN /\ refused \in BOOLEAN /\ crashed \in BOOLEAN

\* A step taken leaves a legal rest.
LEMMA TailLegal ==
    ASSUME NEW q \in Seq(Steps), q # <<>>, Legal(q)
    PROVE  Legal(Tail(q))
  <1>1. CASE q = <<"rollback">>
    <2>1. \A p : p = <<"rollback">> => Tail(p) = <<>>
      OBVIOUS
    <2> QED BY <1>1, <2>1 DEF Legal
  <1>2. CASE \E k \in DOMAIN Script : Rest(q, Script[k])
    BY <1>2, RestOfTail DEF Legal
  <1> QED BY <1>1, <1>2 DEF Legal

\* A script is a legal rest.
LEMMA ScriptLegal ==
    ASSUME NEW k \in DOMAIN Script PROVE Legal(Script[k])
  <1>1. Script[k] \in Seq(Steps)
    BY ScriptAhead DEF Ahead
  <1> QED BY <1>1, RestOfItself DEF Legal

\* A step of a call keeps the ranges.
LEMMA CallStepRange ==
    ASSUME RangeInv, ScriptInv, CallInv, NEW h \in Handlers, CallStep(h)
    PROVE  RangeInv'
  <1>1. \/ Start(h) \/ (rest[h] # <<>> /\ Advance(h)) \/ (rest[h] # <<>> /\ Throw(h))
        \/ rest' = rest
    BY DEF CallStep, Begin, Commit, Rollback, InsertUser, FindUser, MarkUser,
           InsertConversation, AddMembers, InsertMessage, FindReceiver, MarkRead,
           MarkConversation, MarkMessage, StreamDone, Notify, Answer, Execute, At
  <1>2. rest \in [Handlers -> Seq(Steps)] /\ DOMAIN sent = Handlers
    BY DEF ScriptInv, CallInv, FunctionInv
  <1>3. \A g \in Handlers : Legal(rest'[g])
    <2>1. ASSUME NEW q, Legal(q), rest' = [rest EXCEPT ![h] = q]
          PROVE  \A g \in Handlers : Legal(rest'[g])
      BY <1>2, <2>1 DEF RangeInv
    <2>2. CASE Start(h)
      <3>1. PICK c \in Requests : rest' = [rest EXCEPT ![h] = Script[c.kind]]
        BY <2>2 DEF Start
      <3>2. c.kind \in DOMAIN Script
        BY DEF Requests, Script
      <3> QED BY <2>1, <3>1, <3>2, ScriptLegal
    <2>3. CASE rest[h] # <<>> /\ Advance(h)
      <3>1. Legal(Tail(rest[h]))
        BY <1>2, <2>3, TailLegal DEF RangeInv
      <3> QED BY <2>1, <2>3, <3>1 DEF Advance
    <2>4. CASE Throw(h)
      <3>1. PICK e : e = IF Contains(rest[h], "commit") THEN <<"rollback">> ELSE <<>>
        OBVIOUS
      <3>2. Legal(e) /\ rest' = [rest EXCEPT ![h] = e]
        BY <2>4, <3>1 DEF Throw, Legal
      <3> QED BY <2>1, <3>2
    <2>5. CASE rest' = rest
      BY <2>5 DEF RangeInv
    <2> QED BY <1>1, <2>2, <2>3, <2>4, <2>5
  <1>4. join' = join /\ (sent' = sent \/ sent' = [sent EXCEPT ![h] = {}])
    BY DEF CallStep, Start, Begin, Commit, Rollback, InsertUser, FindUser, MarkUser,
           InsertConversation, AddMembers, InsertMessage, FindReceiver, MarkRead,
           MarkConversation, MarkMessage, StreamDone, Notify, Answer, Statement, joinVars
  <1>5. \A g \in Handlers : sent'[g] \subseteq Subscribed'
    BY <1>2, <1>4 DEF RangeInv, Subscribed
  <1>6. /\ calls' = calls \/ (calls < MaxCalls /\ calls' = calls + 1)
        /\ overlapped' = overlapped \/ overlapped' = (overlapped \/ ~Idle \/ Joining)
        /\ refused' = refused \/ refused' = TRUE
        /\ crashed' = crashed \/ crashed' \in BOOLEAN
    <2>1. CASE Commit(h) \/ Start(h)
      BY <2>1 DEF Commit, Start
    <2>2. CASE Notify(h)
      <3>1. crashed' \in BOOLEAN
        BY <2>2 DEF Notify
      <3> QED BY <2>2, <3>1 DEF Notify
    <2>3. CASE ~Commit(h) /\ ~Start(h) /\ ~Notify(h)
      BY <2>3
         DEF CallStep, Begin, Rollback, InsertUser, FindUser, MarkUser,
           InsertConversation, AddMembers, InsertMessage, FindReceiver, MarkRead,
           MarkConversation, MarkMessage, StreamDone, Answer, Statement, history
    <2> QED BY <2>1, <2>2, <2>3
  <1>7. calls' \in 0 .. MaxCalls
    BY <1>6, ServiceAssumption DEF RangeInv
  <1>8. overlapped' \in BOOLEAN
    BY <1>6 DEF RangeInv, Idle, Joining
  <1>9. refused' \in BOOLEAN /\ crashed' \in BOOLEAN
    BY <1>6 DEF RangeInv
  <1> QED BY <1>3, <1>5, <1>7, <1>8, <1>9 DEF RangeInv

\* Every step keeps the ranges.
LEMMA NextRange ==
    ASSUME RangeInv, ScriptInv, CallInv, [Next]_vars
    PROVE  RangeInv'
  <1>1. CASE UNCHANGED vars
    BY <1>1 DEF vars, callVars, joinVars, history, RangeInv, Subscribed
  <1>2. ASSUME NEW h \in Handlers, CallStep(h) PROVE RangeInv'
    BY <1>2, CallStepRange
  <1>3. ASSUME NEW h \in Handlers, NEW r \in Replicas, StreamTo(h, r) PROVE RangeInv'
    <2>1. /\ r \in Subscribed /\ sent' = [sent EXCEPT ![h] = sent[h] \cup {r}]
          /\ UNCHANGED <<rest, calls, join, overlapped, refused>> /\ crashed' \in BOOLEAN
      BY <1>3 DEF StreamTo
    <2>2. DOMAIN sent = Handlers /\ Subscribed' = Subscribed
      BY <2>1 DEF CallInv, FunctionInv, Subscribed
    <2>3. \A g \in Handlers : sent'[g] \subseteq Subscribed'
      BY <2>1, <2>2 DEF RangeInv
    <2> QED BY <2>1, <2>3 DEF RangeInv
  <1>4. ASSUME NEW r \in Replicas, CopyBegin(r) \/ CopyEnd(r) \/ Subscribe(r) \/ Leave(r)
        PROVE  RangeInv'
    <2>1. /\ UNCHANGED <<rest, calls, sent, refused, crashed>>
          /\ overlapped' = overlapped \/ overlapped' = (overlapped \/ ~Idle)
      BY <1>4 DEF CopyBegin, CopyEnd, Subscribe, Leave, callVars, history
    <2>2. overlapped' \in BOOLEAN
      BY <2>1 DEF RangeInv, Idle
    <2>3. \A g \in Handlers : sent[g] \subseteq Subscribed'
      <3>1. FunctionInv
        BY DEF CallInv
      <3>2. CASE Leave(r)
        BY <3>2 DEF Leave, StreamLocked
      <3>3. CASE ~Leave(r)
        <4>1. \A q \in Subscribed : join'[q] = "subscribed"
          BY <1>4, <3>1, <3>3 DEF CopyBegin, CopyEnd, Subscribe, Subscribed, FunctionInv
        <4> QED BY <4>1 DEF RangeInv, Subscribed
      <3> QED BY <3>2, <3>3
    <2> QED BY <2>1, <2>2, <2>3 DEF RangeInv
  <1>5. ASSUME NEW s \in Streams, Register(s) \/ Cancel(s) \/ Deregister(s) PROVE RangeInv'
    BY <1>5 DEF Register, Cancel, Deregister, callVars, joinVars, history, RangeInv, Subscribed
  <1> QED BY <1>1, <1>2, <1>3, <1>4, <1>5 DEF Next

\* And so they are at the start.
LEMMA InitRange == Init => RangeInv
  <1> SUFFICES ASSUME Init PROVE RangeInv
    OBVIOUS
  <1>1. \A h \in Handlers : Legal(rest[h]) /\ sent[h] \subseteq Subscribed
    BY DEF Init, Legal
  <1>2. calls \in 0 .. MaxCalls /\ overlapped = FALSE /\ refused = FALSE /\ crashed = FALSE
    BY ServiceAssumption DEF Init
  <1> QED BY <1>1, <1>2 DEF RangeInv

\* The variables stay in their ranges: what is ahead of a call is a rest of one of
\* the scripts or its rollback, and it has streamed to listening replicas only.
THEOREM TypeCorrect ==
    ASSUME NoneApart PROVE Spec => []TypeOK
  <1> DEFINE Inv == TransactionInv /\ CallInv /\ WriterInv /\ RangeInv
  <1>1. Init => Inv
    BY InitTransaction, InitCall, InitWriter, InitRange
  <1>2. Inv /\ [Next]_vars => Inv'
    BY NextTransaction, NextCall, NextWriter, NextRange DEF TransactionInv
  <1>3. Inv => TypeOK
    <2> SUFFICES ASSUME Inv PROVE TypeOK
      OBVIOUS
    <2>1. DOMAIN db = {"users", "convs", "members", "msgs"}
      BY DEF CallInv, IsDatabase
    <2>2. tx = None \/ DOMAIN tx = DOMAIN db
      BY <2>1 DEF CallInv, IsDatabase
    <2>3. ASSUME NEW h \in Handlers
          PROVE  /\ \E k \in DOMAIN Script : rest[h] = <<>> \/ rest[h] = <<"rollback">>
                                                \/ IsSuffix(rest[h], Script[k])
                 /\ call[h] = None => rest[h] = <<>> /\ ops[h] = <<>>
                 /\ sent[h] \subseteq Subscribed
      <3>1. "signup" \in DOMAIN Script
        BY DEF Script
      <3>2. \E k \in DOMAIN Script : rest[h] = <<>> \/ rest[h] = <<"rollback">>
                                                \/ IsSuffix(rest[h], Script[k])
        BY <3>1, RestIsSuffix DEF RangeInv, Legal
      <3> QED BY <3>2 DEF CallInv, HandlerOk, RangeInv
    <2>4. join \in [Replicas -> {"out", "copying", "copied", "subscribed"}]
      BY DEF CallInv, FunctionInv
    <2>5. \A s \in Streams : stream[s].st \in {"unused", "open", "cancelled", "ended"}
      BY DEF WriterInv, StreamRow
    <2>6. writers \in [Listeners -> [message : Streams \cup {None}, read : Streams \cup {None}]]
      <3>1. [Kinds -> Streams \cup {None}] = [message : Streams \cup {None}, read : Streams \cup {None}]
        BY DEF Kinds
      <3> QED BY <3>1 DEF WriterInv
    <2> QED BY <2>1, <2>2, <2>3, <2>4, <2>5, <2>6 DEF TypeOK, RangeInv
  <1> HIDE DEF Inv
  <1>4. (TransactionInv /\ CallInv /\ WriterInv /\ RangeInv) => Inv
    BY DEF Inv
  <1> QED BY <1>1, <1>2, <1>3, PTL DEF Spec
=============================================================================
