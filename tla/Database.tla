------------------------------ MODULE Database ------------------------------
(***************************************************************************)
(* The in-memory half of a mousedb database and its flush pipeline         *)
(* (lib_database/src/mousedb/database/core.cpp): records go to a log and   *)
(* to the current memtable; a full memtable is handed to a queue; worker   *)
(* threads take it from there, write an SSTable and its Bloom filter, list *)
(* the table and let the memtable go.  A find walks the same places in the *)
(* same direction and answers with the last writer.                        *)
(*                                                                         *)
(* Clients are the threads of the server that call insert, erase and find. *)
(* insert and erase differ only in the payload, which decides nothing, so  *)
(* both are Write.  Memtables are numbered in the order they are made and  *)
(* records in the order of their operation ids; a table is the sequence of *)
(* the ids of its records.                                                 *)
(*                                                                         *)
(* Undefined behaviour is a choice among what a build can do: a null       *)
(* memtable_ and a filter of no bits stop the process, the use of freed    *)
(* memory may stop it or read anything.                                    *)
(***************************************************************************)
EXTENDS Integers, Sequences, SequencesExt, FiniteSets

CONSTANTS
    Clients,         \* threads that call the database
    Workers,         \* flush threads, max(hardware_concurrency / 2, 1)
    Keys,
    NoKey,           \* what a client that runs no find looks for
    Stamps,          \* the HLC stamps, as numbers, that each write may carry
    FlushThreshold,  \* a memtable with more entries than this is flushed
    CompactAt,       \* tables on level 0 that make the next one compact: 4
    MaxWrites,       \* bound: writes in one behaviour
    MaxFinds         \* bound: finds at one time; none changes what another reads

ASSUME DatabaseAssumption ==
    /\ FlushThreshold \in Nat
    /\ CompactAt \in Nat
    /\ MaxWrites \in Nat
    /\ Stamps \in [1 .. MaxWrites -> SUBSET Nat]
    /\ MaxFinds \in Nat
    /\ Workers # {}
    /\ NoKey \notin Keys

VARIABLES
    wal,       \* operation id -> [key, ts]: what wal_insert logged
    tables,    \* every memtable ever made, live or freed
    memtable,  \* memtable_: the current table, 0 while it is moved from
    queue,     \* queue_: tables waiting for a worker
    working,   \* working_: tables a worker has taken
    base,      \* the deque slot of working's first element
    moved,     \* history: an erase has moved elements under other iterators
    sst,       \* the id each worker writes under, the next unused one
    filters,   \* filters_: id -> number of bits
    level0,    \* sstables_[0]: ids, in order
    cpc,       \* where each client is
    rec,       \* the record a write is storing
    ptr,       \* the table it loaded from memtable_
    seek,      \* the key a find looks for
    found,     \* the records a find has collected
    owed,      \* history: the writes of its key that had returned before it
    got,       \* its answer: the record whose value it returns, 0 for none
    wpc,       \* where each worker is
    slot,      \* its iterator into working_
    taken,     \* the table it is flushing
    life,      \* "open", then the steps of ~Database and ~Queue
    acked,     \* history: the writes that returned
    retired,   \* history: the tables whose flush ended; they are freed
    aborted    \* the process has died of undefined behaviour

memVars == <<wal, tables, memtable>>
queueVars == <<queue, working, base, moved>>
sstVars == <<sst, filters, level0>>
clientVars == <<cpc, rec, ptr, seek, found, owed, got>>
workerVars == <<wpc, slot, taken>>
vars == <<memVars, queueVars, sstVars, clientVars, workerVars, life, acked,
          retired, aborted>>

-----------------------------------------------------------------------------
(* Locks.  Each is held over more than one step only at these places.      *)

\* memtable_mutex_, between the two assignments of internal_insert.
MemtableLocked == \E c \in Clients : cpc[c] = "replace"

\* queue_mutex_, by a worker that has found nothing and is about to block.
QueueLocked == \E w \in Workers : wpc[w] = "blocking"

\* sstables_mutex_, by a worker that compact() has deadlocked with itself.
SstablesLocked == \E w \in Workers : wpc[w] = "compacting"

(* working_ is a libstdc++ deque: erase moves the elements of the shorter  *)
(* side by one, so an iterator is a slot that may come to hold another     *)
(* element.  The iterators of the other workers stay good as long as the   *)
(* element erased is the first or the last; with three or more it may be   *)
(* one between them, and from then on an iterator may name no element.     *)

At(s) == IF s - base + 1 \in DOMAIN working THEN working[s - base + 1] ELSE 0

\* A mutant: the table is dropped from the front, as if flushes ended in order.
EraseFront(s) ==
    /\ working' = Tail(working)
    /\ base' = base + 1
    /\ UNCHANGED moved

\* The element that erase takes out: for an iterator past the end the last; for
\* one before the beginning the first, over which the others are moved.
Erased(i, n) == IF i < 1 THEN 1 ELSE IF i > n THEN n ELSE i

EraseWorking(s) ==
    LET i == s - base + 1
        n == Len(working)
    IN  /\ working' = RemoveAt(working, Erased(i, n))
        /\ base' = IF i \in 1 .. n /\ i - 1 < n \div 2 THEN base + 1 ELSE base
        /\ moved' = (moved \/ (1 < i /\ i < n))

(* The records of a key, and the last writer among them.                   *)

Matching(t, k) ==
    FlattenSeq([i \in DOMAIN tables[t] |->
                   IF wal[tables[t][i]].key = k THEN <<tables[t][i]>> ELSE <<>>])

MatchingIn(ts, k) == FlattenSeq([i \in DOMAIN ts |-> Matching(ts[i], k)])

\* lww_select: the first of the largest clocks; 0 when there is none.
LwwSelect(s) ==
    IF s = <<>> THEN 0
    ELSE s[CHOOSE i \in DOMAIN s :
              /\ \A j \in DOMAIN s : wal[s[j]].ts <= wal[s[i]].ts
              /\ \A j \in 1 .. i - 1 : wal[s[j]].ts < wal[s[i]].ts]

TableOf(o) == CHOOSE t \in DOMAIN tables : Contains(tables[t], o)

\* The answer a find gives when it read memory that had been freed.
Torn == MaxWrites + 1

-----------------------------------------------------------------------------
Init ==
    /\ wal = <<>> /\ tables = << <<>> >> /\ memtable = 1
    /\ queue = <<>> /\ working = <<>> /\ base = 0 /\ moved = FALSE
    /\ sst = [next |-> 1, of |-> [w \in Workers |-> 0]]
    /\ filters = <<>> /\ level0 = <<>>
    /\ cpc = [c \in Clients |-> "idle"]
    /\ rec = [c \in Clients |-> 0]
    /\ ptr = [c \in Clients |-> 0]
    /\ seek = [c \in Clients |-> NoKey]
    /\ found = [c \in Clients |-> <<>>]
    /\ owed = [c \in Clients |-> {}]
    /\ got = [c \in Clients |-> 0]
    /\ wpc = [w \in Workers |-> "check"]
    /\ slot = [w \in Workers |-> 0]
    /\ taken = [w \in Workers |-> 0]
    /\ life = "open" /\ acked = {} /\ retired = {} /\ aborted = FALSE

\* The thread moves on to its next step.
Goto(c, step) == cpc' = [cpc EXCEPT ![c] = step]
WGoto(w, step) == wpc' = [wpc EXCEPT ![w] = step]

Asleep == {w \in Workers : wpc[w] = "asleep"}

\* queue_cv_.notify_one()
NotifyOne ==
    \/ Asleep = {} /\ UNCHANGED wpc
    \/ \E w \in Asleep : WGoto(w, "check")

Acknowledge(c) ==
    /\ Goto(c, "idle")
    /\ acked' = acked \cup {rec[c]}
    /\ rec' = [rec EXCEPT ![c] = 0]
    /\ ptr' = [ptr EXCEPT ![c] = 0]

-----------------------------------------------------------------------------
(* insert and erase.                                                       *)

\* The log entry, then memtable_-> is evaluated: no lock is held.
Write(c, k) ==
    /\ cpc[c] = "idle" /\ life = "open" /\ Len(wal) < MaxWrites
    /\ \E ts \in Stamps[Len(wal) + 1] : wal' = Append(wal, [key |-> k, ts |-> ts])
    /\ rec' = [rec EXCEPT ![c] = Len(wal')]
    /\ ptr' = [ptr EXCEPT ![c] = memtable]
    /\ Goto(c, "append")
    /\ aborted' = (memtable = 0)
    /\ UNCHANGED <<tables, memtable, queueVars, sstVars, seek, found, owed, got,
                    workerVars, life, acked, retired>>

\* KVSkipList::insert on the table the pointer led to, which may by now have
\* been handed over, flushed and freed.
AppendRecord(c) ==
    /\ cpc[c] = "append"
    /\ tables' = [tables EXCEPT ![ptr[c]] = Append(@, rec[c])]
    /\ Goto(c, "size")
    /\ aborted' \in (IF ptr[c] \in retired THEN BOOLEAN ELSE {FALSE})
    /\ UNCHANGED <<wal, memtable, queueVars, sstVars, rec, ptr, seek, found, owed,
                    got, workerVars, life, acked, retired>>

\* memtable_->size() > flush_threshold, again without the lock: the table
\* asked may not be the one the record went to.
CheckSize(c) ==
    /\ cpc[c] = "size"
    /\ aborted' = (memtable = 0)
    /\ IF memtable # 0 /\ Len(tables[memtable]) > FlushThreshold
       THEN Goto(c, "rotate") /\ UNCHANGED <<rec, ptr, acked>>
       ELSE Acknowledge(c)
    /\ UNCHANGED <<memVars, queueVars, sstVars, seek, found, owed, got,
                    workerVars, life, retired>>

\* A mutant: the table is queued and nobody is woken.
HandOverQuietly(c) ==
    /\ cpc[c] = "rotate"
    /\ ~MemtableLocked /\ ~QueueLocked
    /\ queue' = Append(queue, memtable)
    /\ memtable' = 0
    /\ Goto(c, "replace")
    /\ UNCHANGED <<wal, tables, working, base, moved, sstVars, rec, ptr, seek, found, owed,
                    got, workerVars, life, acked, retired, aborted>>

\* Under memtable_mutex_: the table moves to the queue, whatever its size is
\* by now, and one worker is woken.
HandOver(c) ==
    /\ cpc[c] = "rotate"
    /\ ~MemtableLocked /\ ~QueueLocked
    /\ queue' = Append(queue, memtable)
    /\ memtable' = 0
    /\ Goto(c, "replace")
    /\ NotifyOne
    /\ UNCHANGED <<wal, tables, working, base, moved, sstVars, rec, ptr, seek, found, owed,
                    got, slot, taken, life, acked, retired, aborted>>

\* The new table, and the lock is released.
Replace(c) ==
    /\ cpc[c] = "replace"
    /\ tables' = Append(tables, <<>>)
    /\ memtable' = Len(tables')
    /\ Acknowledge(c)
    /\ UNCHANGED <<wal, queueVars, sstVars, seek, found, owed, got, workerVars,
                    life, retired, aborted>>

-----------------------------------------------------------------------------
(* find.                                                                   *)

\* The client is inside find.
Finding(c) == cpc[c] \in {"queue", "select", "done"}

\* The current table, under the shared lock.
FindMemtable(c, k) ==
    /\ cpc[c] = "idle" /\ life = "open"
    /\ Cardinality({d \in Clients : Finding(d)}) < MaxFinds
    /\ ~MemtableLocked
    /\ seek' = [seek EXCEPT ![c] = k]
    /\ found' = [found EXCEPT ![c] = Matching(memtable, k)]
    /\ owed' = [owed EXCEPT ![c] = {o \in acked : wal[o].key = k}]
    /\ Goto(c, "queue")
    /\ UNCHANGED <<memVars, queueVars, sstVars, rec, ptr, got, workerVars, life,
                    acked, retired, aborted>>

\* A mutant: the tables being flushed are not looked at.
QueuedTables == Reverse(queue)

\* Queue::find visits the queue and then the tables being flushed, each from
\* the youngest.
UnflushedTables == Reverse(queue) \o Reverse(working)

\* With nothing found the find ends here: no SSTable is ever asked.
FindQueue(c) ==
    /\ cpc[c] = "queue"
    /\ ~QueueLocked
    /\ LET all == found[c] \o MatchingIn(UnflushedTables, seek[c])
       IN  /\ found' = [found EXCEPT ![c] = all]
           /\ Goto(c, IF all = <<>> THEN "done" ELSE "select")
    /\ UNCHANGED <<memVars, queueVars, sstVars, rec, ptr, seek, owed, got,
                    workerVars, life, acked, retired, aborted>>

\* Every listed filter is asked and the answer thrown away; a filter of no
\* bits divides by zero.  Then the clocks are read from the records found,
\* through views of tables that may have been freed since.
Select(c) ==
    /\ cpc[c] = "select"
    /\ ~SstablesLocked
    /\ LET torn == \E i \in DOMAIN found[c] : TableOf(found[c][i]) \in retired
       IN  /\ got' \in {[got EXCEPT ![c] = a] :
                         a \in {LwwSelect(found[c])} \cup (IF torn THEN {Torn} ELSE {})}
           /\ aborted' \in
                IF \E i \in DOMAIN level0 : level0[i] \in DOMAIN filters /\ filters[level0[i]] = 0
                THEN {TRUE}
                ELSE IF torn THEN BOOLEAN ELSE {FALSE}
    /\ Goto(c, "done")
    /\ UNCHANGED <<memVars, queueVars, sstVars, rec, ptr, seek, found, owed,
                    workerVars, life, acked, retired>>

Return(c) ==
    /\ cpc[c] = "done"
    /\ Goto(c, "idle")
    /\ seek' = [seek EXCEPT ![c] = NoKey]
    /\ found' = [found EXCEPT ![c] = <<>>]
    /\ owed' = [owed EXCEPT ![c] = {}]
    /\ got' = [got EXCEPT ![c] = 0]
    /\ UNCHANGED <<memVars, queueVars, sstVars, rec, ptr, workerVars, life, acked,
                    retired, aborted>>

-----------------------------------------------------------------------------
(* The flush workers.                                                      *)

Stopping == life \in {"stopped", "notified"}

\* The head of the queue moves to the end of working_.
Take(w) ==
    /\ wpc[w] = "check" /\ ~QueueLocked
    /\ queue # <<>>
    /\ queue' = Tail(queue)
    /\ working' = Append(working, Head(queue))
    /\ slot' = [slot EXCEPT ![w] = base + Len(working)]
    /\ WGoto(w, "pick")
    /\ UNCHANGED <<memVars, base, moved, sstVars, clientVars, taken, life, acked,
                    retired, aborted>>

\* A mutant: the stop flag alone ends the worker.
ExitAtOnce(w) ==
    /\ wpc[w] = "check" /\ ~QueueLocked
    /\ Stopping
    /\ WGoto(w, "exited")
    /\ UNCHANGED <<memVars, queueVars, sstVars, clientVars, slot, taken, life, acked,
                    retired, aborted>>

\* Stopped, and nothing left to flush.
Exit(w) ==
    /\ wpc[w] = "check" /\ ~QueueLocked
    /\ Stopping /\ queue = <<>>
    /\ WGoto(w, "exited")
    /\ UNCHANGED <<memVars, queueVars, sstVars, clientVars, slot, taken, life, acked,
                    retired, aborted>>

\* The predicate of queue_cv_.wait is false; the queue's lock is still held.
Block(w) ==
    /\ wpc[w] = "check" /\ ~QueueLocked
    /\ ~Stopping /\ queue = <<>>
    /\ WGoto(w, "blocking")
    /\ UNCHANGED <<memVars, queueVars, sstVars, clientVars, slot, taken, life, acked,
                    retired, aborted>>

\* It blocks and gives the lock back in one step.
Sleep(w) ==
    /\ wpc[w] = "blocking"
    /\ WGoto(w, "asleep")
    /\ UNCHANGED <<memVars, queueVars, sstVars, clientVars, slot, taken, life, acked,
                    retired, aborted>>

\* A mutant: the id is read and the counter left alone.
PickUpSameId(w) ==
    /\ wpc[w] = "pick"
    /\ taken' = [taken EXCEPT ![w] = At(slot[w])]
    /\ aborted' = (At(slot[w]) = 0)
    /\ sst' = [sst EXCEPT !.of[w] = sst.next]
    /\ WGoto(w, "write")
    /\ UNCHANGED <<memVars, queueVars, filters, level0, clientVars, slot, life, acked,
                    retired>>

\* process_memtable reads *it after the lock was released, and takes an id.
PickUp(w) ==
    /\ wpc[w] = "pick"
    /\ taken' = [taken EXCEPT ![w] = At(slot[w])]
    /\ aborted' = (At(slot[w]) = 0)
    /\ sst' = [next |-> sst.next + 1, of |-> [sst.of EXCEPT ![w] = sst.next]]
    /\ WGoto(w, "write")
    /\ UNCHANGED <<memVars, queueVars, filters, level0, clientVars, slot, life, acked,
                    retired>>

\* The worker walks the entries of its table without a lock.  The walk goes
\* wrong when a late append changes the table under it, and so does the store
\* into filters_ once the destructor has reached the members below queue_.
WriteMayCrash(w) ==
    \/ \E c \in Clients : cpc[c] = "append" /\ ptr[c] = taken[w]
    \/ life # "open"

\* filters_ with the one of the table that w is writing, two bits for an entry.
WithFilter(w) ==
    [i \in DOMAIN filters \cup {sst.of[w]} |->
        IF i = sst.of[w] THEN 2 * Len(tables[taken[w]]) ELSE filters[i]]

\* A mutant: a table with no entries gets no filter.
WriteSstUnlessEmpty(w) ==
    /\ wpc[w] = "write"
    /\ filters' = IF tables[taken[w]] = <<>> THEN filters
                  ELSE WithFilter(w)
    /\ aborted' \in (IF WriteMayCrash(w) THEN BOOLEAN ELSE {FALSE})
    /\ WGoto(w, "list")
    /\ UNCHANGED <<memVars, queueVars, sst, level0, clientVars, slot, taken, life,
                    acked, retired>>

\* The file and its filter.
WriteSst(w) ==
    /\ wpc[w] = "write"
    /\ filters' = WithFilter(w)
    /\ aborted' \in (IF WriteMayCrash(w) THEN BOOLEAN ELSE {FALSE})
    /\ WGoto(w, "list")
    /\ UNCHANGED <<memVars, queueVars, sst, level0, clientVars, slot, taken, life,
                    acked, retired>>

\* Under sstables_mutex_.  A full level 0 is compacted first, and compact
\* locks the mutex its caller holds.
ListSst(w) ==
    /\ wpc[w] = "list" /\ ~SstablesLocked
    /\ IF Len(level0) >= CompactAt
       THEN WGoto(w, "compacting") /\ UNCHANGED level0
       ELSE WGoto(w, "retire") /\ level0' = Append(level0, sst.of[w])
    /\ UNCHANGED <<memVars, queueVars, sst, filters, clientVars, slot, taken, life,
                    acked, retired, aborted>>

\* The iterator is erased and the last reference to the table goes.
Retire(w) ==
    /\ wpc[w] = "retire" /\ ~QueueLocked
    /\ EraseWorking(slot[w])
    /\ retired' = retired \cup {taken[w]}
    /\ taken' = [taken EXCEPT ![w] = 0]
    /\ slot' = [slot EXCEPT ![w] = 0]
    /\ sst' = [sst EXCEPT !.of[w] = 0]
    /\ WGoto(w, "check")
    /\ UNCHANGED <<memVars, queue, filters, level0, clientVars, life, acked, aborted>>

-----------------------------------------------------------------------------
(* ~Database: its later members go first, then ~Queue stops the workers.   *)

Advance(from, to) == life = from /\ life' = to

DestroyMembers ==
    /\ \A c \in Clients : cpc[c] = "idle"
    /\ Advance("open", "destroyed")
    /\ UNCHANGED <<memVars, queueVars, sstVars, clientVars, workerVars, acked,
                    retired, aborted>>

\* stop_flag_ is set without the queue's lock.
SetStop ==
    /\ Advance("destroyed", "stopped")
    /\ UNCHANGED <<memVars, queueVars, sstVars, clientVars, workerVars, acked,
                    retired, aborted>>

NotifyAll ==
    /\ Advance("stopped", "notified")
    /\ wpc' = [w \in Workers |-> IF w \in Asleep THEN "check" ELSE wpc[w]]
    /\ UNCHANGED <<memVars, queueVars, sstVars, clientVars, slot, taken, acked,
                    retired, aborted>>

Join ==
    /\ \A w \in Workers : wpc[w] = "exited"
    /\ Advance("notified", "closed")
    /\ UNCHANGED <<memVars, queueVars, sstVars, clientVars, workerVars, acked,
                    retired, aborted>>

-----------------------------------------------------------------------------
ClientStep(c) ==
    \/ AppendRecord(c) \/ CheckSize(c) \/ HandOver(c) \/ Replace(c)
    \/ FindQueue(c) \/ Select(c) \/ Return(c)

WorkerStep(w) ==
    \/ Take(w) \/ Exit(w) \/ Block(w) \/ Sleep(w)
    \/ PickUp(w) \/ WriteSst(w) \/ ListSst(w) \/ Retire(w)

Next ==
    /\ ~aborted
    /\ \/ \E c \in Clients, k \in Keys : Write(c, k) \/ FindMemtable(c, k)
       \/ \E c \in Clients : ClientStep(c)
       \/ \E w \in Workers : WorkerStep(w)
       \/ DestroyMembers \/ SetStop \/ NotifyAll \/ Join

Spec == Init /\ [][Next]_vars

\* Threads keep running; nothing makes a client call or close the database.
Fairness ==
    /\ \A c \in Clients : WF_vars(~aborted /\ ClientStep(c))
    /\ \A w \in Workers : WF_vars(~aborted /\ WorkerStep(w))

FairSpec == Spec /\ Fairness

-----------------------------------------------------------------------------
(* Properties.                                                             *)

\* The ranges of the variables.
TypeOK ==
    /\ wal \in Seq([key : Keys, ts : Nat])
    /\ tables \in Seq(Seq(Nat))
    /\ memtable \in 0 .. Len(tables)
    /\ queue \in Seq(Nat) /\ working \in Seq(Nat) /\ base \in Nat /\ moved \in BOOLEAN
    /\ sst \in [next : Nat \ {0}, of : [Workers -> Nat]]
    /\ DOMAIN filters \subseteq 1 .. sst.next - 1
    /\ level0 \in Seq(Nat)
    /\ cpc \in [Clients -> {"idle", "append", "size", "rotate", "replace",
                            "queue", "select", "done"}]
    /\ rec \in [Clients -> Nat] /\ ptr \in [Clients -> Nat]
    /\ seek \in [Clients -> Keys \cup {NoKey}]
    /\ found \in [Clients -> Seq(Nat)]
    /\ owed \in [Clients -> SUBSET Nat]
    /\ got \in [Clients -> Nat]
    /\ wpc \in [Workers -> {"check", "blocking", "asleep", "pick", "write", "list",
                            "compacting", "retire", "exited"}]
    /\ slot \in [Workers -> Nat] /\ taken \in [Workers -> Nat]
    /\ life \in {"open", "destroyed", "stopped", "notified", "closed"}
    /\ acked \subseteq 1 .. Len(wal)
    /\ retired \subseteq 1 .. Len(tables)
    /\ aborted \in BOOLEAN

InOnePlace ==
    \A t \in DOMAIN tables :
        Cardinality({i \in DOMAIN queue : queue[i] = t})
          + Cardinality({i \in DOMAIN working : working[i] = t})
          + Cardinality({t} \cap retired)
          + Cardinality({t} \cap {memtable}) = 1

\* Every memtable is at exactly one place of the pipeline, current, queued, being
\* flushed or flushed, for any number of workers, until an erase moves elements
\* under the iterator that another worker still holds (core.cpp:509, :613).
NoTableLost == moved \/ InOnePlace

UnflushedIsSeen ==
    \A c \in Clients :
        cpc[c] = "done" /\ ~aborted =>
            \A o \in owed[c] :
                TableOf(o) \notin retired =>
                    /\ Contains(found[c], o)
                    /\ got[c] # Torn => got[c] # 0 /\ wal[o].ts <= wal[got[c]].ts

\* A find collects every write of its key that had returned before it began and
\* whose table is not flushed, however the table moves on while the find follows
\* it, and answers with a record as late as each of them (core.cpp:232-297).
\* Writes that a late append put into a table already flushed are left out, and
\* so is what follows an erase under another worker's iterator.
FindSeesUnflushed == moved \/ UnflushedIsSeen

\* A table on level 0 has its filter: find would skip it without one.
ListedHasFilter ==
    \A i \in DOMAIN level0 : level0[i] \in DOMAIN filters

ExitedIsDrained ==
    (\A w \in Workers : wpc[w] = "exited") =>
        \A t \in DOMAIN tables : t = memtable \/ t \in retired

\* ~Queue returns only when every table handed over has been flushed, again until
\* an erase goes wrong (core.cpp:517-525).
ClosedIsDrained == moved \/ ExitedIsDrained

\* While a table is queued some worker is up, to take it or to come back for it,
\* unless compaction has locked them out: no wake-up is lost between a worker's
\* last look at the queue and its sleep (core.cpp:500-505, :531-534).
QueueIsServed ==
    queue # <<>> =>
        SstablesLocked \/
            \E w \in Workers : wpc[w] \in {"check", "pick", "write", "list", "retire"}

\* A queued table is flushed, unless compaction has stopped the pipeline, an erase
\* has gone wrong or the process has died.
FlushEnds ==
    \A t \in 1 .. MaxWrites + 1 :
        Contains(queue, t) ~> (t \in retired \/ SstablesLocked \/ moved \/ aborted)

\* A find returns, unless compaction has stopped it or the process has died.
FindEnds ==
    \A c \in Clients :
        (cpc[c] = "queue") ~> (cpc[c] = "idle" \/ SstablesLocked \/ aborted)

\* What a client relies on: what it wrote, it reads, flushed or not.
ReadsSurviveFlush ==
    \A c \in Clients :
        cpc[c] = "done" /\ got[c] # Torn /\ ~aborted =>
            \A o \in owed[c] : got[c] # 0 /\ wal[o].ts <= wal[got[c]].ts

=============================================================================
