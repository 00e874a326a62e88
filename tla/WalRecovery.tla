---------------------------- MODULE WalRecovery -----------------------------
(***************************************************************************)
(* Opening, closing and crashing of a mousedb database: what the           *)
(* constructor and the destructor of Database do to the files of the data  *)
(* directory (core.cpp).  Each shard's log is a stdio stream that nothing  *)
(* flushes before it is closed, so a process that dies leaves any prefix   *)
(* of what it wrote there, perhaps ending in half a record.  An open       *)
(* merges the logs by operation id into memtables, removes each log once   *)
(* it is read, numbers its tables after the ones it finds, and truncates   *)
(* the logs.  The flush workers run from the start, before the next table  *)
(* id is known.                                                            *)
(*                                                                         *)
(* Database has the steps of a write, a flush and the destructor's race    *)
(* with the workers; here a write is one action and so is a flush.  A      *)
(* record is its operation id and the name of its write.                   *)
(***************************************************************************)
EXTENDS Integers, Sequences, SequencesExt, FiniteSetsExt

CONSTANTS
    NumShards,       \* logs, one for each cpu; the same in every session
    FlushThreshold,  \* options_.flush_threshold: entries, and also bytes
    RecordBytes,     \* what a record takes of the memtable's arena
    Garbled,         \* what reading half a record gives
    MaxWrites,       \* bound: writes in one behaviour
    MaxOpens         \* bound: times the database is opened

ASSUME RecoveryAssumption ==
    /\ NumShards \in Nat \ {0}
    /\ FlushThreshold \in Nat
    /\ RecordBytes \in Nat
    /\ MaxWrites \in Nat /\ MaxOpens \in Nat
    /\ Garbled \notin 1 .. MaxWrites

Shards == 0 .. NumShards - 1
Writes == 1 .. MaxWrites

VARIABLES
    dirs,      \* what exists: "none", the "root", or the data directory too
    logs,      \* i.wal -> its records, buffered ones included while it is open
    ssts,      \* ids of the .sst files
    phase,     \* where the process is in the constructor, or "open", ...
    fresh,     \* options_.fresh
    opened,    \* how many logs the end of the constructor has opened
    unread,    \* wals: the part of each log that is still to be replayed
    memtable,  \* the writes in memtable_
    queue,     \* the tables handed to the workers
    nextId,    \* queue_.unused_sst_id_
    listed,    \* unused_sst_id_ of the database
    oid,       \* operation_id_
    writes,    \* how many writes there have been
    opens,     \* how many times it has been opened
    replayed,  \* history: the operation ids replayed by this open, in order
    restored,  \* history: the writes it replayed
    session,   \* history: the writes acknowledged since
    early      \* history: replay handed a table to the workers

files == <<dirs, logs, ssts>>
tableVars == <<memtable, queue, nextId>>
counters == <<writes, opens>>
history == <<replayed, restored, session, early>>
opening == <<fresh, opened, listed, oid>>
vars == <<files, phase, unread, opening, tableVars, counters, history>>

-----------------------------------------------------------------------------
LoggedIn(ls) == UNION {{ls[s][i].w : i \in DOMAIN ls[s]} : s \in DOMAIN ls}

Keep(f, S) == [s \in S |-> f[s]]

\* What is on disk of a log when the process dies: a prefix, to the byte.
Cuts(log) ==
    Prefixes(log) \cup
    {[p EXCEPT ![Len(p)].w = Garbled] : p \in Prefixes(log) \ {<<>>}}

\* The process is gone, and with it all but the files.
Die ==
    /\ phase' = "down"
    /\ unread' = <<>> /\ memtable' = <<>> /\ queue' = <<>>
    /\ nextId' = 0 /\ listed' = 0 /\ oid' = 0 /\ opened' = 0
    /\ replayed' = <<>> /\ restored' = {} /\ session' = {} /\ early' = FALSE

\* internal_insert: a table with more than flush_threshold entries is queued.
InternalInsert(w) ==
    LET full == Len(memtable) + 1 > FlushThreshold
    IN  /\ memtable' = IF full THEN <<>> ELSE Append(memtable, w)
        /\ queue' = IF full THEN Append(queue, Append(memtable, w)) ELSE queue

-----------------------------------------------------------------------------
(* The constructor.                                                        *)

Init ==
    /\ dirs = "none" /\ logs = <<>> /\ ssts = {}
    /\ phase = "down" /\ fresh = FALSE /\ unread = <<>>
    /\ memtable = <<>> /\ queue = <<>> /\ nextId = 0 /\ listed = 0 /\ oid = 0
    /\ opened = 0
    /\ writes = 0 /\ opens = 0
    /\ replayed = <<>> /\ restored = {} /\ session = {} /\ early = FALSE

DataEmpty == DOMAIN logs = {} /\ ssts = {}

\* The root directory is made if it is missing; an empty data directory has
\* nothing to recover, and a fresh open does not look at the logs.
Start(f) ==
    /\ phase = "down" /\ dirs # "root" /\ opens < MaxOpens
    /\ opens' = opens + 1
    /\ fresh' = f
    /\ IF dirs = "none"
       THEN dirs' = "root" /\ phase' = "mkdir"
       ELSE /\ UNCHANGED dirs
            /\ phase' = CASE DataEmpty -> "install" [] ~DataEmpty /\ f -> "list"
                        [] OTHER -> "scan"
    /\ UNCHANGED <<logs, ssts, unread, opened, tableVars, listed, oid, writes, history>>

\* The second directory is made only together with the first: once a process
\* has died between the two, every later open throws.
Refuse == phase = "down" /\ dirs = "root" /\ UNCHANGED vars

MakeData ==
    /\ phase = "mkdir"
    /\ dirs' = "ready" /\ phase' = "install"
    /\ UNCHANGED <<logs, ssts, unread, opening, tableVars, counters, history>>

\* Each log is opened, and removed if it does not hold one header.
Scan ==
    /\ phase = "scan"
    /\ logs' = Keep(logs, {s \in DOMAIN logs : logs[s] # <<>>})
    /\ unread' = logs'
    /\ phase' = "replay"
    /\ UNCHANGED <<dirs, ssts, opening, tableVars, counters, history>>

\* A mutant: the logs are replayed in the order the directory lists them.
AnyLog(s) == unread[s] # <<>>

\* The log whose next record has the lowest operation id.
LowestOid(s) ==
    \A r \in DOMAIN unread : unread[s][1].oid <= unread[r][1].oid

\* A log with nothing left is removed before another record is replayed.
Exhausted(s) == unread[s] = <<>>

Replay(s) ==
    /\ phase = "replay"
    /\ \A r \in DOMAIN unread : ~Exhausted(r)
    /\ LowestOid(s)
    /\ InternalInsert(unread[s][1].w)
    /\ restored' = restored \cup {unread[s][1].w}
    /\ replayed' = Append(replayed, unread[s][1].oid)
    /\ early' = (early \/ queue' # queue)
    /\ unread' = [unread EXCEPT ![s] = Tail(@)]
    /\ UNCHANGED <<files, phase, opening, nextId, counters, session>>

\* A mutant: the file is removed and its entry stays in wals.
RemoveFileOnly(s) ==
    /\ phase = "replay"
    /\ Exhausted(s)
    /\ logs' = Keep(logs, DOMAIN logs \ {s})
    /\ UNCHANGED <<dirs, ssts, phase, unread, opening, tableVars, counters, history>>

RemoveLog(s) ==
    /\ phase = "replay"
    /\ Exhausted(s)
    /\ unread' = Keep(unread, DOMAIN unread \ {s})
    /\ logs' = Keep(logs, DOMAIN logs \ {s})
    /\ UNCHANGED <<dirs, ssts, phase, opening, tableVars, counters, history>>

\* Half a record has lengths that were never read; to resize to them may throw.
ReplayThrows ==
    /\ phase = "replay"
    /\ \E s \in DOMAIN unread : ~Exhausted(s) /\ unread[s][1].w = Garbled
    /\ Die
    /\ UNCHANGED <<files, fresh, counters>>

\* memtable_->used() > flush_threshold: bytes are compared with entries.
EndReplay ==
    /\ phase = "replay" /\ DOMAIN unread = {}
    /\ IF Len(memtable) * RecordBytes > FlushThreshold
       THEN /\ queue' = Append(queue, memtable)
            /\ memtable' = <<>>
            /\ early' = TRUE
       ELSE UNCHANGED <<queue, memtable, early>>
    /\ phase' = "list"
    /\ UNCHANGED <<files, unread, opening, nextId, counters, replayed, restored, session>>

\* A mutant: the largest id in use is taken for the next one.
LargestId == IF ssts = {} THEN 0 ELSE Max(ssts)

\* The directory is listed for tables.
UnusedId == IF ssts = {} THEN 1 ELSE Max(ssts) + 1

List ==
    /\ phase = "list"
    /\ listed' = UnusedId
    /\ phase' = "install"
    /\ UNCHANGED <<files, unread, fresh, opened, oid, tableVars, counters, history>>

\* queue_.set_unused_sst_id: what the workers had counted so far is forgotten.
Install ==
    /\ phase = "install"
    /\ nextId' = listed
    /\ phase' = "truncate"
    /\ UNCHANGED <<files, unread, opening, memtable, queue, counters, history>>

\* A mutant: the log is opened for appending.
AppendLog(s) ==
    logs' = [r \in DOMAIN logs \cup {s} |-> IF r \in DOMAIN logs THEN logs[r] ELSE <<>>]

\* fopen with "w".
OpenLog(s) ==
    logs' = [r \in DOMAIN logs \cup {s} |-> IF r = s THEN <<>> ELSE logs[r]]

Truncate ==
    /\ phase = "truncate"
    /\ OpenLog(opened)
    /\ opened' = opened + 1
    /\ phase' = IF opened' = NumShards THEN "open" ELSE phase
    /\ UNCHANGED <<dirs, ssts, unread, fresh, listed, oid, tableVars, counters, history>>

-----------------------------------------------------------------------------
(* The open database.                                                      *)

\* insert or erase: the record goes to a log, any of them (the one of the cpu,
\* or another when that is locked), then to the memtable.
Put(s) ==
    /\ phase = "open" /\ writes < MaxWrites
    /\ writes' = writes + 1
    /\ logs' = [logs EXCEPT ![s] = Append(@, [oid |-> oid, w |-> writes'])]
    /\ oid' = oid + 1
    /\ InternalInsert(writes')
    /\ session' = session \cup {writes'}
    /\ UNCHANGED <<dirs, ssts, phase, unread, fresh, opened, listed, nextId, opens,
                    replayed, restored, early>>

\* A worker writes the oldest table under the next id, over any file that has
\* it.  The logs keep its records all the same.
Flush ==
    /\ phase # "down" /\ queue # <<>>
    /\ queue' = Tail(queue)
    /\ ssts' = ssts \cup {nextId}
    /\ nextId' = nextId + 1
    /\ UNCHANGED <<dirs, logs, phase, unread, opening, memtable, counters, history>>

\* ~Database closes the logs, and ~Queue waits until the queue is drained;
\* the memtable is dropped.  To die while the logs are being closed is to
\* die before with some of them written.
CloseLogs ==
    /\ phase = "open"
    /\ phase' = "closing"
    /\ UNCHANGED <<files, unread, opening, tableVars, counters, history>>

Closed ==
    /\ phase = "closing" /\ queue = <<>>
    /\ Die
    /\ UNCHANGED <<files, fresh, counters>>

\* Only an open log has records that may not be on disk.
Crash ==
    /\ phase # "down"
    /\ Die
    /\ logs' \in (IF phase = "open"
                  THEN {ls \in [DOMAIN logs -> UNION {Cuts(logs[s]) : s \in DOMAIN logs}] :
                          \A s \in DOMAIN logs : ls[s] \in Cuts(logs[s])}
                  ELSE {logs})
    /\ UNCHANGED <<dirs, ssts, fresh, counters>>

Opening ==
    \/ MakeData \/ Scan \/ EndReplay \/ List \/ Install \/ Truncate
    \/ \E s \in Shards : s \in DOMAIN unread /\ (Replay(s) \/ RemoveLog(s))

Next ==
    \/ \E f \in BOOLEAN : Start(f)
    \/ Refuse \/ ReplayThrows \/ Opening
    \/ \E s \in Shards : Put(s)
    \/ Flush \/ CloseLogs \/ Closed \/ Crash

Spec == Init /\ [][Next]_vars

\* The constructor runs on, whatever the workers do.
FairSpec == Spec /\ WF_vars(Opening)

-----------------------------------------------------------------------------
(* Properties.                                                             *)

Record == [oid : Nat, w : Writes \cup {Garbled}]

Phases == {"down", "mkdir", "scan", "replay", "list", "install", "truncate",
           "open", "closing"}

\* Every variable keeps its range; a log is being replayed only while it
\* exists, and the queue's id is known once the logs are opened.
TypeOK ==
    /\ dirs \in {"none", "root", "ready"}
    /\ DOMAIN logs \subseteq Shards /\ DOMAIN unread \subseteq DOMAIN logs
    /\ \A s \in DOMAIN logs : logs[s] \in Seq(Record)
    /\ \A s \in DOMAIN unread : unread[s] \in Seq(Record)
    /\ ssts \subseteq Nat
    /\ phase \in Phases /\ fresh \in BOOLEAN /\ early \in BOOLEAN
    /\ memtable \in Seq(Writes \cup {Garbled})
    /\ queue \in Seq(Seq(Writes \cup {Garbled}))
    /\ nextId \in Nat /\ listed \in Nat /\ oid \in Nat
    /\ opened \in 0 .. NumShards
    /\ writes \in 0 .. MaxWrites /\ opens \in 0 .. MaxOpens
    /\ replayed \in Seq(Nat)
    /\ restored \subseteq Writes \cup {Garbled} /\ session \subseteq Writes
    /\ phase = "open" => DOMAIN logs = Shards

\* The records of all the logs are replayed in the order of their operation
\* ids, each once, whatever a crash has left of each log: the merge of
\* core.cpp:96-150.
ReplayInOrder ==
    \A i, j \in DOMAIN replayed : i < j => replayed[i] < replayed[j]

\* Once a database is open, no table it writes takes the place of a file,
\* of this session or an earlier one -- provided that its replay handed no
\* table to the workers, who count from 0 until core.cpp:175 tells them more.
FreshIds ==
    [][(phase \in {"open", "closing"} /\ ~early /\ nextId' = nextId + 1)
          => nextId \notin ssts]_vars

\* An open that has begun ends: the database serves or the process is gone.
OpenEnds == (phase # "down") ~> (phase \in {"open", "closing", "down"})

\* A session that is closed in order leaves its writes and nothing else, a
\* crash leaves some of them, and nothing of an earlier session comes back:
\* see SessionStore.
Mode ==
    CASE phase = "down" -> "down"
      [] phase \in {"open", "closing"} -> "up"
      [] OTHER -> IF fresh THEN "wiping" ELSE "starting"

Store == INSTANCE SessionStore WITH
    mode <- Mode,
    kept <- IF Mode = "up" THEN {} ELSE LoggedIn(logs) \cup restored,
    restored <- IF Mode = "up" THEN restored ELSE {}

Contract == Store!Spec
=============================================================================
