------------------------------ MODULE Service ------------------------------
(***************************************************************************)
(* The main service of a converse leader (exe_server/src/service/main),    *)
(* with the joining of replicas (service/link).  gRPC runs each call on a  *)
(* thread of its own; all of them use one sqlite3 connection, db_, so a    *)
(* BEGIN, COMMIT or ROLLBACK of one call acts on the statements of all.    *)
(* A call that has written streams its operations to every replica that    *)
(* listens, and then answers.                                              *)
(*                                                                         *)
(* Each call is a script of steps, one per statement it executes, and each *)
(* step is an action.  The calls that only read are left out: they change  *)
(* nothing.  A replica's stream is a FIFO that it drains by applying what  *)
(* it gets, so what was written to it is applied to its copy at once.      *)
(***************************************************************************)
EXTENDS Integers, Sequences, SequencesExt, FiniteSetsExt, TLC

CONSTANTS
    Handlers,   \* threads that run calls
    Replicas,
    Streams,    \* ReceiveMessage and ReceiveReadMessages calls
    Listeners,  \* the users who open streams
    Names,      \* what a user may sign up as
    Trim,       \* Names -> Names: the name without the spaces around it
    Seed,       \* the database when the server starts
    MaxCalls,   \* bound: calls in one behaviour
    None        \* no call, no transaction, no stream, no copy

\* The schema: rows under ids that grow, and the pairs of a conversation and
\* its member, which is what is read of conversations_users.
Tables == {"users", "convs", "msgs"}

Columns ==
    [users |-> {"name", "is_deleted"}, convs |-> {"is_deleted"},
     msgs |-> {"conv", "from", "is_read", "is_deleted"}]

IsTable(rows, columns) ==
    /\ rows = [id \in DOMAIN rows |-> rows[id]] /\ DOMAIN rows \subseteq Nat \ {0}
    /\ \A id \in DOMAIN rows : rows[id] = [c \in columns |-> rows[id][c]]
    /\ \E last \in DOMAIN rows \cup {0} : \A id \in DOMAIN rows : id <= last

IsDatabase(d) ==
    /\ d = [users |-> d.users, convs |-> d.convs, members |-> d.members, msgs |-> d.msgs]
    /\ \A t \in Tables : IsTable(d[t], Columns[t])

ASSUME ServiceAssumption == MaxCalls \in Nat /\ IsDatabase(Seed)

VARIABLES
    db,          \* what a statement of the connection reads
    tx,          \* the database before the open transaction, or None
    call,        \* the call each thread serves
    rest,        \* the steps it has yet to take
    ops,         \* the operations it will stream
    to,          \* the other user it will notify
    sent,        \* the replicas its streaming has reached
    join,        \* how far each replica has got in joining
    copy,        \* its database
    stream,      \* the stream calls
    writers,     \* user_id_to_writers_: the registered stream of each kind
    calls,       \* the number of calls so far
    overlapped,  \* history: a call ran beside another, or beside a join
    refused,     \* history: a COMMIT found the file locked
    acked,       \* history: the operations of the calls that answered Ok
    crashed      \* the process died of misusing a stream

dbVars == <<db, tx>>
callVars == <<call, rest, ops, to, sent, calls>>
joinVars == <<join, copy>>
streamVars == <<stream, writers>>
history == <<overlapped, refused, acked, crashed>>
vars == <<dbVars, callVars, joinVars, streamVars, history>>

-----------------------------------------------------------------------------
(* The database, and the operations that change it.                        *)

Insert(table, id, row) == [type |-> "insert", table |-> table, id |-> id, row |-> row]
InsertMembers(pairs) == [type |-> "insert", table |-> "members", pairs |-> pairs]
Update(table, id, flag) == [type |-> "update", table |-> table, id |-> id, flag |-> flag]

\* AUTOINCREMENT; the sequence is rolled back with the rows.
NextId(table) == Max(DOMAIN db[table] \cup {0}) + 1

\* The primary keys and UNIQUE(username).  A statement that violates one
\* changes nothing, and execute() does not report it.
Conflicts(d, op) ==
    \/ op.id \in DOMAIN d[op.table]
    \/ op.table = "users" /\ \E u \in DOMAIN d.users : d.users[u].name = op.row.name

With(rows, id, row) ==
    [i \in DOMAIN rows \cup {id} |-> IF i = id THEN row ELSE rows[i]]

Apply(d, op) ==
    IF op.type = "update"
    THEN IF op.id \in DOMAIN d[op.table]
         THEN [d EXCEPT ![op.table][op.id][op.flag] = TRUE]
         ELSE d
    ELSE IF op.table = "members" THEN [d EXCEPT !.members = @ \cup op.pairs]
    ELSE IF Conflicts(d, op) THEN d
    ELSE [d EXCEPT ![op.table] = With(@, op.id, op.row)]

\* A mutant: a replica replays insertions only.
ReplayInserts(d, op) == IF op.type = "insert" THEN Apply(d, op) ELSE d

\* The callback of a replica's GetTransactionsReader.
Replay(d, op) == Apply(d, op)

Reflected(op) ==
    IF op.type = "update"
    THEN op.id \in DOMAIN db[op.table] /\ db[op.table][op.id][op.flag]
    ELSE IF op.table = "members" THEN op.pairs \subseteq db.members
    ELSE op.id \in DOMAIN db[op.table] /\
         \A f \in DOMAIN op.row \ {"is_read", "is_deleted"} :
             db[op.table][op.id][f] = op.row[f]

\* The replicas whose snapshot is being read through the link service's
\* connection: the file is locked against commits.
Readers == {r \in Replicas : join[r] = "copying"}

Subscribed == {r \in Replicas : join[r] = "subscribed"}

-----------------------------------------------------------------------------
(* Calls.                                                                  *)

Script ==
    [signup |-> <<"insertUser", "stream">>,
     deleteUser |-> <<"begin", "findUser", "markUser", "commit", "stream">>,
     createConversation |->
        <<"begin", "findUser", "insertConversation", "addMembers", "commit", "stream">>,
     send |-> <<"begin", "insertMessage", "findReceiver", "commit", "stream", "notify">>,
     sendEmpty |-> <<"rollback">>,
     read |-> <<"markRead", "stream", "notify">>,
     deleteConversation |-> <<"markConversation", "stream">>,
     deleteMessage |-> <<"markMessage", "stream">>]

\* What clients ask for: the ids are ones the server has told them, a user
\* reads what the other wrote, and a password may be wrong.
Requests ==
    [kind : {"signup"}, name : Names]
    \cup [kind : {"deleteUser"}, user : DOMAIN db.users, right : BOOLEAN]
    \cup {c \in [kind : {"createConversation"}, sender : DOMAIN db.users,
                 user : DOMAIN db.users] : c.sender # c.user}
    \cup [kind : {"send", "sendEmpty"}, member : db.members]
    \cup {c \in [kind : {"read"}, user : DOMAIN db.users, id : DOMAIN db.msgs] :
            c.user # db.msgs[c.id].from}
    \cup [kind : {"deleteConversation"}, id : DOMAIN db.convs]
    \cup [kind : {"deleteMessage"}, id : DOMAIN db.msgs]

Idle == \A h \in Handlers : call[h] = None
Joining == \E r \in Replicas : join[r] \in {"copying", "copied"}

Init ==
    /\ db = Seed /\ tx = None
    /\ call = [h \in Handlers |-> None]
    /\ rest = [h \in Handlers |-> <<>>]
    /\ ops = [h \in Handlers |-> <<>>]
    /\ to = [h \in Handlers |-> None]
    /\ sent = [h \in Handlers |-> {}]
    /\ join = [r \in Replicas |-> "out"]
    /\ copy = [r \in Replicas |-> None]
    /\ stream = [s \in Streams |-> [st |-> "unused", user |-> None, kind |-> None]]
    /\ writers = [u \in Listeners |-> [message |-> None, read |-> None]]
    /\ calls = 0 /\ overlapped = FALSE /\ refused = FALSE /\ acked = {} /\ crashed = FALSE

Start(h) ==
    /\ call[h] = None /\ rest[h] = <<>> /\ calls < MaxCalls
    /\ \E c \in Requests :
        /\ call' = [call EXCEPT ![h] = c]
        /\ rest' = [rest EXCEPT ![h] = Script[c.kind]]
    /\ calls' = calls + 1
    /\ overlapped' = (overlapped \/ ~Idle \/ Joining)
    /\ UNCHANGED <<dbVars, ops, to, sent, joinVars, streamVars, refused, acked, crashed>>

At(h, step) == rest[h] # <<>> /\ Head(rest[h]) = step

Advance(h) == rest' = [rest EXCEPT ![h] = Tail(@)]

\* A mutant: no call rolls back.
ThrowOnly(h) ==
    /\ rest' = [rest EXCEPT ![h] = <<>>]
    /\ ops' = [ops EXCEPT ![h] = <<>>]

\* The exception handler: ROLLBACK in the calls that begin a transaction.
Throw(h) ==
    /\ rest' = [rest EXCEPT ![h] = IF Contains(@, "commit") THEN <<"rollback">> ELSE <<>>]
    /\ ops' = [ops EXCEPT ![h] = <<>>]

\* A write statement.  Outside a transaction it commits itself, and execute()
\* takes the SQLITE_BUSY of a locked file for success.
Execute(h, op) ==
    /\ db' = IF tx = None /\ Readers # {} THEN db ELSE Apply(db, op)
    /\ ops' = [ops EXCEPT ![h] = Append(@, op)]
    /\ Advance(h)

-----------------------------------------------------------------------------
(* Transactions.                                                           *)

Begin(h) ==
    /\ At(h, "begin")
    /\ IF tx = None
       THEN tx' = db /\ Advance(h) /\ UNCHANGED ops
       ELSE Throw(h) /\ UNCHANGED tx
    /\ UNCHANGED <<db, call, to, sent, calls, joinVars, streamVars, history>>

\* A mutant: the call goes on to stream with its transaction open.
CommitLater(h) ==
    /\ At(h, "commit")
    /\ Advance(h)
    /\ UNCHANGED <<dbVars, call, ops, to, sent, calls, joinVars, streamVars, history>>

\* There may be no transaction left; one that has written cannot be committed
\* while another connection reads, which execute() does not report.
Commit(h) ==
    /\ At(h, "commit")
    /\ IF tx = None
       THEN Throw(h) /\ UNCHANGED <<tx, refused>>
       ELSE /\ Advance(h)
            /\ IF Readers # {} /\ db # tx
               THEN refused' = TRUE /\ UNCHANGED tx
               ELSE tx' = None /\ UNCHANGED refused
            /\ UNCHANGED ops
    /\ UNCHANGED <<db, call, to, sent, calls, joinVars, streamVars, overlapped, acked,
                    crashed>>

\* It undoes whatever the connection has open.  With nothing open it throws
\* out of the handler, and gRPC answers with an error as well.
Rollback(h) ==
    /\ At(h, "rollback")
    /\ db' = IF tx = None THEN db ELSE tx
    /\ tx' = None
    /\ Advance(h)
    /\ UNCHANGED <<call, ops, to, sent, calls, joinVars, streamVars, history>>

-----------------------------------------------------------------------------
(* Statements.                                                             *)

\* What a statement leaves alone.
Statement == UNCHANGED <<tx, call, sent, calls, joinVars, streamVars, history>>

\* SignupUser stores the name as given and streams it trimmed.
InsertUser(h) ==
    /\ At(h, "insertUser")
    /\ LET name == call[h].name
           row(n) == Insert("users", NextId("users"), [name |-> n, is_deleted |-> FALSE])
       IN  IF Conflicts(db, row(name))
           THEN Throw(h) /\ UNCHANGED db
           ELSE /\ db' = IF tx = None /\ Readers # {} THEN db ELSE Apply(db, row(name))
                /\ ops' = [ops EXCEPT ![h] = Append(@, row(Trim[name]))]
                /\ Advance(h)
    /\ UNCHANGED to /\ Statement

\* The SELECT of DeleteUser, with its password check, and of
\* CreateConversation.
FindUser(h) ==
    /\ At(h, "findUser")
    /\ IF /\ call[h].user \in DOMAIN db.users
          /\ ~db.users[call[h].user].is_deleted
          /\ call[h].kind = "deleteUser" => call[h].right
       THEN Advance(h) /\ UNCHANGED ops
       ELSE Throw(h)
    /\ UNCHANGED <<db, to>> /\ Statement

MarkUser(h) ==
    /\ At(h, "markUser")
    /\ Execute(h, Update("users", call[h].user, "is_deleted"))
    /\ UNCHANGED to /\ Statement

InsertConversation(h) ==
    /\ At(h, "insertConversation")
    /\ Execute(h, Insert("convs", NextId("convs"), [is_deleted |-> FALSE]))
    /\ UNCHANGED to /\ Statement

AddMembers(h) ==
    /\ At(h, "addMembers")
    /\ Execute(h, InsertMembers({ops[h][1].id} \X {call[h].sender, call[h].user}))
    /\ UNCHANGED to /\ Statement

InsertMessage(h) ==
    /\ At(h, "insertMessage")
    /\ Execute(h, Insert("msgs", NextId("msgs"),
            [conv |-> call[h].member[1], from |-> call[h].member[2],
             is_read |-> FALSE, is_deleted |-> FALSE]))
    /\ UNCHANGED to /\ Statement

\* The other member of the conversation.
FindReceiver(h) ==
    /\ At(h, "findReceiver")
    /\ LET others == {m \in db.members :
                        m[1] = call[h].member[1] /\ m[2] # call[h].member[2]}
       IN  IF others = {}
           THEN Throw(h) /\ UNCHANGED to
           ELSE /\ \E m \in others : to' = [to EXCEPT ![h] = m[2]]
                /\ Advance(h) /\ UNCHANGED ops
    /\ UNCHANGED db /\ Statement

MarkRead(h) ==
    /\ At(h, "markRead")
    /\ LET id == call[h].id
       IN  IF id \in DOMAIN db.msgs /\ db.msgs[id].from # call[h].user
           THEN /\ Execute(h, Update("msgs", id, "is_read"))
                /\ to' = [to EXCEPT ![h] = db.msgs[id].from]
           ELSE Throw(h) /\ UNCHANGED <<db, to>>
    /\ Statement

MarkConversation(h) ==
    /\ At(h, "markConversation")
    /\ Execute(h, Update("convs", call[h].id, "is_deleted"))
    /\ UNCHANGED to /\ Statement

MarkMessage(h) ==
    /\ At(h, "markMessage")
    /\ Execute(h, Update("msgs", call[h].id, "is_deleted"))
    /\ UNCHANGED to /\ Statement

-----------------------------------------------------------------------------
(* Streaming, notifying, answering.                                        *)

\* One writer of cluster_writers_.  The shared lock lets two calls write to
\* one stream at a time, which gRPC does not allow.
StreamTo(h, r) ==
    /\ At(h, "stream")
    /\ r \in Subscribed \ sent[h]
    /\ copy' = [copy EXCEPT ![r] = FoldLeft(Replay, @, ops[h])]
    /\ sent' = [sent EXCEPT ![h] = @ \cup {r}]
    /\ crashed' \in (IF \E g \in Handlers \ {h} : At(g, "stream") /\ r \notin sent[g]
                     THEN BOOLEAN ELSE {FALSE})
    /\ UNCHANGED <<dbVars, call, rest, ops, to, calls, join, streamVars, overlapped,
                    refused, acked>>

StreamDone(h) ==
    /\ At(h, "stream")
    /\ Subscribed \subseteq sent[h]
    /\ sent' = [sent EXCEPT ![h] = {}]
    /\ Advance(h)
    /\ UNCHANGED <<dbVars, call, ops, to, calls, joinVars, streamVars, history>>

\* The caller of send and read, and the streams a notification is written to.
Caller(h) == IF call[h].kind = "send" THEN call[h].member[2] ELSE call[h].user

Targets(h) ==
    {writers[u][IF call[h].kind = "send" THEN "message" ELSE "read"] :
        u \in {Caller(h), to[h]} \cap Listeners} \ {None}

Notify(h) ==
    /\ At(h, "notify")
    /\ crashed' \in
        (IF \E s \in Targets(h) : stream[s].st = "ended" THEN {TRUE}
         ELSE IF \E g \in Handlers \ {h} :
                    At(g, "notify") /\ Targets(g) \cap Targets(h) # {}
              THEN BOOLEAN ELSE {FALSE})
    /\ Advance(h)
    /\ UNCHANGED <<dbVars, call, ops, to, sent, calls, joinVars, streamVars, overlapped,
                    refused, acked>>

\* Ok if the call has operations to show, else the error of an exception.
Answer(h) ==
    /\ call[h] # None /\ rest[h] = <<>>
    /\ acked' = acked \cup Range(ops[h])
    /\ call' = [call EXCEPT ![h] = None]
    /\ ops' = [ops EXCEPT ![h] = <<>>]
    /\ to' = [to EXCEPT ![h] = None]
    /\ UNCHANGED <<dbVars, rest, sent, calls, joinVars, streamVars, overlapped, refused,
                    crashed>>

-----------------------------------------------------------------------------
(* Joining.                                                                *)

\* A mutant: cluster_writers_mutex_ is not taken.
StreamUnlocked == FALSE

\* cluster_writers_ does not change while a call goes through it.
StreamLocked == \E h \in Handlers : sent[h] # {}

\* get_bytes() of IdentifyMyself: it reads what is committed.  After a COMMIT
\* was refused the file stays closed to new readers until the transaction
\* ends.
CopyBegin(r) ==
    /\ join[r] = "out"
    /\ refused => tx = None
    /\ join' = [join EXCEPT ![r] = "copying"]
    /\ copy' = [copy EXCEPT ![r] = IF tx = None THEN db ELSE tx]
    /\ overlapped' = (overlapped \/ ~Idle)
    /\ UNCHANGED <<dbVars, callVars, streamVars, refused, acked, crashed>>

CopyEnd(r) ==
    /\ join[r] = "copying"
    /\ join' = [join EXCEPT ![r] = "copied"]
    /\ UNCHANGED <<dbVars, callVars, copy, streamVars, history>>

\* GetTransactions: only what is streamed from now on reaches the replica.
Subscribe(r) ==
    /\ join[r] = "copied" /\ ~StreamLocked
    /\ join' = [join EXCEPT ![r] = "subscribed"]
    /\ UNCHANGED <<dbVars, callVars, copy, streamVars, history>>

\* The replica is gone and its GetTransactions call ends.
Leave(r) ==
    /\ join[r] = "subscribed" /\ ~StreamLocked
    /\ join' = [join EXCEPT ![r] = "out"]
    /\ copy' = [copy EXCEPT ![r] = None]
    /\ UNCHANGED <<dbVars, callVars, streamVars, history>>

-----------------------------------------------------------------------------
(* ReceiveMessage and ReceiveReadMessages.                                 *)

\* The newest stream of a kind replaces the one before it.
Register(s) ==
    /\ stream[s].st = "unused"
    /\ \E u \in Listeners, k \in {"message", "read"} :
        /\ stream' = [stream EXCEPT ![s] = [st |-> "open", user |-> u, kind |-> k]]
        /\ writers' = [writers EXCEPT ![u][k] = s]
    /\ UNCHANGED <<dbVars, callVars, joinVars, history>>

Cancel(s) ==
    /\ stream[s].st = "open"
    /\ stream' = [stream EXCEPT ![s].st = "cancelled"]
    /\ UNCHANGED <<dbVars, callVars, joinVars, writers, history>>

\* A mutant: the entry is only erased, and kept while it has another writer.
DeregisterErases(s) ==
    /\ stream[s].st = "cancelled"
    /\ stream' = [stream EXCEPT ![s].st = "ended"]
    /\ writers' = IF \E k \in {"message", "read"} :
                        k # stream[s].kind /\ writers[stream[s].user][k] # None
                  THEN writers
                  ELSE [writers EXCEPT ![stream[s].user][stream[s].kind] = None]
    /\ UNCHANGED <<dbVars, callVars, joinVars, history>>

\* Leaving the loop, it clears the user's writer of its kind, whoever set it.
\* (An entry left without writers is erased, which comes to the same.)
Deregister(s) ==
    /\ stream[s].st = "cancelled"
    /\ stream' = [stream EXCEPT ![s].st = "ended"]
    /\ writers' = [writers EXCEPT ![stream[s].user][stream[s].kind] = None]
    /\ UNCHANGED <<dbVars, callVars, joinVars, history>>

-----------------------------------------------------------------------------
CallStep(h) ==
    \/ Start(h) \/ Begin(h) \/ Commit(h) \/ Rollback(h)
    \/ InsertUser(h) \/ FindUser(h) \/ MarkUser(h)
    \/ InsertConversation(h) \/ AddMembers(h)
    \/ InsertMessage(h) \/ FindReceiver(h)
    \/ MarkRead(h) \/ MarkConversation(h) \/ MarkMessage(h)
    \/ StreamDone(h) \/ Notify(h) \/ Answer(h)

Next ==
    /\ ~crashed
    /\ \/ \E h \in Handlers : CallStep(h)
       \/ \E h \in Handlers, r \in Replicas : StreamTo(h, r)
       \/ \E r \in Replicas : CopyBegin(r) \/ CopyEnd(r) \/ Subscribe(r) \/ Leave(r)
       \/ \E s \in Streams : Register(s) \/ Cancel(s) \/ Deregister(s)

Spec == Init /\ [][Next]_vars

-----------------------------------------------------------------------------
(* Properties.                                                             *)

\* The ranges of the variables.
TypeOK ==
    /\ DOMAIN db = {"users", "convs", "members", "msgs"}
    /\ tx = None \/ DOMAIN tx = DOMAIN db
    /\ \A h \in Handlers :
        /\ \E k \in DOMAIN Script : rest[h] = <<>> \/ rest[h] = <<"rollback">>
                                      \/ IsSuffix(rest[h], Script[k])
        /\ call[h] = None => rest[h] = <<>> /\ ops[h] = <<>>
        /\ sent[h] \subseteq Subscribed
    /\ join \in [Replicas -> {"out", "copying", "copied", "subscribed"}]
    /\ \A s \in Streams : stream[s].st \in {"unused", "open", "cancelled", "ended"}
    /\ writers \in [Listeners -> [message : Streams \cup {None}, read : Streams \cup {None}]]
    /\ calls \in 0 .. MaxCalls
    /\ overlapped \in BOOLEAN /\ refused \in BOOLEAN /\ crashed \in BOOLEAN

InTransaction(h) ==
    ~Contains(rest[h], "begin") /\ (Contains(rest[h], "commit") \/ Contains(rest[h], "rollback"))

\* However calls begin, commit and roll back each other's transactions, the
\* connection is in one only while some call has yet to end it, unless a
\* commit was refused.
TransactionsEnd == tx # None => refused \/ \E h \in Handlers : InTransaction(h)

\* With calls that do not overlap each other or a join, a replica that listens
\* has the leader's database whenever no call is running.
SerialReplicasAgree ==
    ~overlapped /\ Idle => \A r \in Subscribed : copy[r] = db

\* With such calls, what was answered Ok stays done.
SerialCallsLast == ~overlapped => \A op \in acked : Reflected(op)

\* No user's registered stream belongs to a call that has returned.
NoDanglingWriter ==
    \A u \in Listeners, k \in {"message", "read"} :
        writers[u][k] # None => stream[writers[u][k]].st \in {"open", "cancelled"}

\* What was answered Ok stays done, whatever else the server does.
CallsLast == \A op \in acked : Reflected(op)

=============================================================================
