# Specifications of cs2620

The repository holds three programs: **converse**, a replicated chat server with
a Qt client; **mousedb**, a key-value store with a log-structured engine under
servers that stamp writes with hybrid logical clocks; and **tempus**, a Lamport
clock experiment. This directory holds TLA+ modules translated from their
source, the TLC configurations that check them and the proofs TLAPS checks.
`PROJECT.json` lists the runs, the mutants, which source lines each definition
stands for, and the hazards the properties are for.

## Running

    tlc -workers 2 -config MCCluster.cfg MCCluster      # a run: cfg and module
    tlapm ClusterProofs.tla                             # a proof module

Modules named `MC*` only give values; every property is in the module it is
about. An operator whose comment begins "A mutant" is a plausible bug in the
definition that follows it; no specification uses one. They are there to show
that each property can fail (`PROJECT.json`, "mutants").

## Inventory

| Component (under `src/`) | State | Operations | Module |
|---|---|---|---|
| Hybrid clock, `mousedb/server/exe_server/src/hlc.hpp` | one 64-bit atomic word per server | `now_send`, `recv_and_merge`, both through the CAS loop of `advance` | HybridClock, AtomicClock |
| Database, `mousedb/server/lib_database/src/mousedb/database/core.cpp` | logs, `memtable_`, `queue_`, `working_`, `filters_`, `sstables_` | `insert`, `erase`, `find`, flush workers, `~Database`, `~Queue` | Database |
| Log recovery, `core.cpp:32-191` | log files, table files, `operation_id_`, `unused_sst_id_` | the constructor (scan, merge, list, install, truncate), `~Database`, death of the process | WalRecovery, SessionStore |
| Compaction, `core.cpp:364-487` | levels of tables | reached by the fifth table, where it deadlocks | one step of Database |
| Arena, `arena.cpp` | slabs, shards with spin locks, published counters | `allocate`, shard refill | ConcurrentArena, Allocator |
| Skip list, Bloom filter, `memtable.cpp`, `filter.cpp` | records in order; bits | insert, find, probe | abstracted in Database |
| mousedb server, `server.cpp` | sessions and their remotes | accept, dial, IDENTIFY, PEER, a lost session; requests | Mesh; stamps in HybridClock |
| Main service, `converse/exe_server/src/service/main` | the sqlite database on one connection, streams of users | eight calls that write, five that read, two streams | Service; answers in ClientView |
| Link service, `service/link`, `server.cpp` | `cluster_addresses`, `cluster_writers`, `client_writers` | `IdentifyMyself`, `GetTransactions`, `GetServers`, failover | Service, Cluster |
| converse client, `exe_client/src/backend.cpp`, `main.cpp`, `main.qml` | channel, list of servers, the user, the conversation on view, two models, two readers | requests, streams, posted events, `handle_reconnect` | ClientView; its following in Cluster |
| tempus, `tempus/src` | a Lamport clock, sockets, receive buffers and a queue per process | set-up, send, receive, internal events, the end | Tempus, LamportClocks |
| Logging, generated protocol code, random, empty `sstable.cpp` | none of the system's | | not modelled |

How they interact. A mousedb client sends a write with a zero stamp; the
server's `recv_and_merge` stamps it and `kv_put` inserts it in the database of
that server only (nothing is ever sent on to peers, whatever the README of
mousedb says about multi-leader replication). Several threads of the server call
one database, whose memtables take their memory from arenas and whose workers
flush them behind the callers; its logs are read when it is next opened. In
converse, gRPC runs each call on a thread of its own; a call that writes streams
its operations, under a shared lock, to every replica's `GetTransactions` stream,
then to the streams of the users concerned, whose client posts what it reads to
the thread of its window. A replica copies the leader's database once and
applies what the stream brings; when the stream ends it pops its list of servers
and follows the next, or leads. Clients hold a list of servers as well and move
along it.

What is hard here, and where the properties are aimed: unlocked reads of
`memtable_` and iterators that outlive a lock in the database; one sqlite
connection shared by threads that each believe they own the transaction; errors
taken for success (`SQLITE_BUSY`, `SQLITE_CONSTRAINT`); a failover without votes
that relies on every list having been built in the same order, against restarts
and overlapping joins; a lock-free clock whose word has fewer bits than its time;
logs that a crash cuts anywhere, merged by an id that starts again at zero, while
workers run before the constructor knows their table ids; memory handed out by
three routes under two kinds of lock; a window that learns of one message by an
answer, a stream or an event, while the conversation on view changes; servers
that learn of each other by gossip and dial one way only.

## Modules

### HybridClock, AtomicClock, HybridClockProofs

`state[n]` is the packed word of server n. A thread's call of `advance` is four
actions: begin (load the word), `ReadClock` (read the wall clock and compute the
successor), `CasSucceed`, `CasFail` (weak exchange: also spuriously). The wall
clock is any value of `WallClock` at each read, so it may stand still and step
back. `issued` records the stamps returned in the order of their exchanges.
`PhysMod` and `LogMod` are 2^48 and 2^16, made small: `Pack` truncates as the
shift does, and the counter wraps. Microseconds since 1970 need 51 bits, so the
instances have readings that do not fit the word: the stamp returned is whole,
and what the next call unpacks is not. `Remembered(i, j)` says that the word of a
server lost nothing from event i until j, and happened-before is taken along
receipts and such words only.

`AtomicClock` is the abstract specification: the clock of a server as a lock
around it would have it. A call begins with its argument, and at one later
instant moves the word to the successor of the latest of three times (the wall
clock, the word, the argument) and returns. HybridClock implements it with
`calling` for the threads whose program counter is not "idle"; the instant is
that of the exchange that succeeds. So a thread which computed its successor from
a word since replaced, or from an old reading of the wall clock, cannot be told
from one that ran alone.

### Database, DatabaseProofs

Threads are program counters; each critical section is one action unless the
thread waits or calls out inside it. Memtables are numbered in the order they
are made and never reused, a table is the sequence of the ids of its records,
and `retired` tables are freed. `working_` is a deque: a worker's iterator is a
slot number, and `EraseWorking` moves the elements that libstdc++ moves, so that
other iterators name what they would name, or another's element, or none: then the
erase takes out whatever is there (`Erased`). `moved` remembers that an erase has
moved elements while others were on either side, from when on nothing is promised
of the pipeline's tables. (The deque's array of blocks, which
iterators point into, is first moved by its 160th element; the fifth table on
level 0 stops the pipeline before.) `insert` and `erase` differ in the
payload only and are both `Write`. Undefined behaviour is a choice: a null
`memtable_` and a filter of no bits end the process (`aborted`), freed memory
ends it or reads anything (`Torn`). `compact()` locks a mutex its caller holds;
the worker stays in "compacting" for ever, as it does in the program.

### WalRecovery, SessionStore, WalRecoveryProofs

What happens to the files. `logs` are the `.wal` files, buffered records
included while they are open; `ssts` the ids of the tables. The constructor is
one action a step: `Start` (make the root directory), `MakeData`, `Scan` (drop
logs without a record), `Replay` and `RemoveLog` (the merge by operation id),
`EndReplay`, `List`, `Install` and a `Truncate` for each log. A worker's `Flush`
is possible in every one of them. `Crash` may come at any step: no stream is ever
flushed before it is closed, so an open log keeps any prefix (`Cuts`), the last
record perhaps garbled. `Refuse` is the open that throws because a process died
between making the two directories, for ever after. Database has the steps of a
write and of a flush; here each is one action, and the record of a write is its
operation id and its name.

`SessionStore` is the abstract specification: a session closed in order leaves
its writes for the next one, a session that dies leaves some of them, and nothing
of an earlier session ever comes back. (It is what the code keeps. That a flushed
table is never read again is why nothing older than a session survives.)
WalRecovery implements it under the mapping at its end: what the contract calls
`kept` is what the logs hold together with what this open has restored.

### ConcurrentArena, Allocator, ArenaProofs

Memory is a numbered slab and an offset; a region has its slab and two ends.
`allocate` is a thread's program counter through the code: peek at shard 0, try
the arena's lock, choose a shard, lock it, refill it under the arena's lock,
bump it. The lock attempts are actions of their own, so that a thread may fail to
get a lock which is free a moment later. Which shard a thread uses is the cpu
it last ran on: any. The two ways into a slab (small requests, of at most a
quarter of a slice, through a shard; others from the active slab or a slab of
their own) are the code's conditions.

`Allocator` is the abstract specification: a thread asks for some bytes and gets,
at one instant before its call ends, exactly so many of one slab, none of which
anybody was given before; slabs may be made at any time and stay as they are.
ConcurrentArena implements it (`Allocates`), with what a thread is `asked` read
from its program counter: a call gives its bytes in the step in which it ends,
`FromArena` or `Bump`.

### Service, ServiceProofs

The leader's main service and the joining of replicas. Each call is the script
of the statements it executes, and each statement is an action on the one
connection: `tx` is the database before the open transaction. BEGIN inside a
transaction and COMMIT or ROLLBACK outside fail as in sqlite. While a joining
replica's copy is read through the other connection of the process the file is
locked and commits answer `SQLITE_BUSY`, which `execute()` takes for success.
A replica's stream is a FIFO it drains by itself, so what is written to it is
applied at once. Two writes at one time on one gRPC stream, and a write to a
stream whose call has returned, may end the process (`crashed`). Calls that only
read are answers in ClientView.

### Cluster, ClusterProofs

Membership and failover. `known[s]` is `cluster_addresses` of server s;
`IdentifyMyself` is two actions, as it takes two locks: `Identify` appends the
newcomer and takes the copy that goes back, `Announce` tells the watching
clients, even when the caller has died meanwhile. `Pick` is the end of the do
loop in the constructor. `Crash` ends the streams of followers and makes the
servers that were just identifying to it exit, as the exception does. A crashed
server may be started again and joins whoever leads: joining a replica is
possible in the code and left out, as no document suggests it. `order`,
`late` and `crossed` are history: who joined the first server, in order; whether
somebody joined a promoted one; whether a join began while another had yet to be
announced. Clients watch and reconnect; they make no
requests.

Service says what goes through a replication stream and Cluster which streams
there are; they share no variables, since which server leads matters to Service
only through joining and leaving, which it has.

### ClientView, ClientViewProofs

One client's window against the server. The window's thread asks one thing at a
time (`gui` is where it is in a request) and otherwise handles one posted event;
the callbacks of the two streams run on threads of gRPC and post events. A
message can therefore be in five places: committed and not yet written to the
stream (`unsent`), in the stream, with the callback (`reader`), among the posted
events, and in an answer that was fetched before or after any of these.
`ReceiveMessage`'s callback takes its `Conversation` object before it compares:
the window may have deleted the object by then (`Freed`), and the comparison may
then come out either way. `Registered` is the server reaching the call that a
sign-in started, and `EndCancelled` the end of a call that a sign-out cancelled,
at any time after: it may take away the writer of the next session. What is stored
while there is no writer reaches nobody and is remembered in `missed`, until the
next answer with all conversations. A row of the list that is made on an unread
message asks for the conversation without saying who asks, and gets the unread ids
of the member with the lower id; `OwnIdLower` is the set of conversations in which
that is the window's user, and `overlooked` what such an answer left out of a row.

### Mesh

The sessions of mousedb's servers. A server dials whom it was told to join; the
dialled end learns of the newcomer by IDENTIFY and then tells each of its other
sessions of the newcomer and the newcomer of each of these; whoever is told of an
address dials it if that is lower than its own and there is no session with it.
The check and the session are far apart, so two sessions between two servers are
possible. A dial may fail and a session may be lost; nothing is retried. Frames
of one session are handled in order, those of two sessions in any.

### Tempus, LamportClocks, TempusProofs

Each process sets up its channels (accept the lower ranks, connect to the higher
ones; a process that cannot listen fails), runs its main loop for as many
iterations as it drew, and closes. The receiver's thread polls and gathers eight
bytes per message in whatever portions `recv` gives them: the model's unit is half
a message. When a process has ended, a write to it kills the writer with SIGPIPE
or is lost, as the sockets have it, and a receiver that finds the end of a stream
throws. History: every event with what happened before it, and the timestamps
that were sent and pushed on each channel.

`LamportClocks` is the abstract specification, the algorithm without sockets,
threads or ends: an event ticks the clock and may send its time to any others, the
next message of a channel arrives whole, with its sender, and taking one from the
inbox moves the clock past its time. Tempus implements it (`Exchanges`): a
channel's contents are the times sent that the receiver has not pushed
(`OnTheWay`), the inbox is the queue without what the histories carry (`Unread`).
A process killed while it sends to all has sent to those it reached; bytes that
do not make a message whole are no step.

## Runs

| Run | Instance | Shows |
|---|---|---|
| hlc | 2 servers, 3 threads (two racing on one word), readings 1 and 2 of which the word holds the first, 2 stamps | what happened before has the smaller stamp, along receipts and words that lost nothing; time never leads the fastest wall clock; the code implements `AtomicClock`; every call returns |
| hlc_wide | 2 servers, readings 2 and 3 of which the word holds none, 3 stamps | *violated*: the stamps of a server increase; two events of one tick get one stamp |
| db_safety | 2 clients, 3 workers, 3 writes (the second may be older), 1 find at a time, flush above 0 entries, compaction at the third table | no memtable is lost, a find sees what is acknowledged and not flushed, and a joined queue is drained, until an erase moves other workers' elements; a listed table has its filter; a queued table has a worker that is up |
| db_flush | 1 client, 1 worker, 1 write | *violated*: a flushed write is not found |
| recovery | 2 logs, 4 writes, 3 opens, flush above 1 entry, records of 2 bytes, death at any step | logs are merged in the order of writes; a table is never written over a file; the code implements `SessionStore`; an open ends |
| arena | 2 threads, 2 shards, slabs of 32 bytes, slices of 4, requests of 1, 18 and 32 | the code implements `Allocator`: each call gets exactly the bytes it asked for, nobody's before; a call returns |
| service | 2 calls at once, 1 replica, 2 streams, 1 listener | transactions end; calls that do not overlap last and reach the replica; no writer outlives its call |
| service_races | 2 calls at once | *violated*: a call answered Ok is undone by another's ROLLBACK |
| cluster | 3 servers, 4 joins, 3 crashes, 1 dropped stream, 1 client | a replica stays in its list; the order of joining elects at most one leader; a client ends at the leader; a leader returns |
| client | 2 conversations, one of them as the member with the lower id, 2 messages, 2 opens of a conversation, 1 session | the view misses no message; unread messages are counted; their conversation is listed |
| mesh | 3 servers, two joining the first, 6 connections, 1 failure | when nothing fails, every two servers end with a session and nobody dials |
| tempus | 3 processes, 1 iteration each | clocks order what happened before; the code implements `LamportClocks`: messages arrive whole, in order and with their sender; every process ends |

These configurations are no runs. They show where a property stops holding when
one of its conditions is given up, or what a larger instance says:

| Configuration | Module | What TLC finds |
|---|---|---|
| MCHybridClockChains.cfg | MCHybridClock | no error: `CausalOrder` with a third stamp, so that a chain goes from one server to the other and back (1.3 million states) |
| MCDatabaseProgress.cfg | MCDatabase | no error: under fairness a queued table is flushed (`FlushEnds`) and a find returns (`FindEnds`), unless compaction has stopped them; 1 client, 2 workers |
| MCDatabaseWorkers.cfg | MCDatabase | `UnflushedIsSeen`, which is `FindSeesUnflushed` without its condition: with three workers one's erase makes another drop a table that is not flushed |
| MCDatabaseDrain.cfg | MCDatabase | `ExitedIsDrained`, the same of `ClosedIsDrained`: all three workers have returned, and a table was never flushed |
| MCClusterSplit.cfg | MCCluster | `OneLeader`: two leaders after a restart joins a promoted server |
| MCClusterStuck.cfg | MCCluster | `LeaderAlwaysReturns`: two replicas follow each other and none leads |
| MCConcurrentArenaUnused.cfg | MCConcurrentArena | `UnusedIsTheRest`: used and unused bytes do not add up to the size, as `arena.hpp:20-26` has it |
| MCMeshChain.cfg | MCMesh | `MeshCompletes` when server 3 joins server 2 before 2's dial to 1 is answered: only the dialled end broadcasts (`server.cpp:338-342`, 377-388), so 1 and 3 never meet |
| MCMeshTwice.cfg | MCMesh | `OneSession`: two servers with two sessions |
| MCClientViewSessions.cfg | MCClientView | no error: the client's properties with a second sign-in, so that the end of the first session's calls meets the second; one conversation, one open (2.9 million states) |

Why the bounds are enough.

- hlc: the order of two stamps of one word needs two threads and a CAS that
  fails; two wall clock values give standing still and stepping back, and a reading
  that the word holds and one that it does not. A chain
  of events needs a third stamp (MCHybridClockChains.cfg). The safety properties
  are proved for all bounds.
- db_safety: a second writer finds a table the first has handed over, so that a
  table gets two records or none, and three workers hold three iterators at once,
  the least for one erase to move another's element. With three writes a table
  passes through every place while two follow it, and the third table on level 0
  reaches compaction. That the second write may have the smaller stamp lets a
  later write lose. Finds change nothing that anybody else reads, so one at a time
  (`MaxFinds`) is as good as two. What is proved is proved for any number of each. In MCDatabaseProgress.cfg two workers are enough
  to lose a wake-up.
- recovery: two logs are the least that a merge must order; four writes fill a
  table and start another; the first open writes, the second finds what a crash
  cut, and the third finds what a crash of the second's replay left behind. With
  records of two bytes a replay ends with a memtable above the threshold as well as
  below. Safety is proved for all bounds.
- arena: two threads race for a shard and for the arena, and four requests use up
  a slab, so that a refill and a new slab happen while another thread waits. The
  sizes are one for each way through the code. Safety is proved for all bounds.
- service: every hazard of the shared connection needs one call inside the
  transaction of another; a third call adds nothing but length (checked with three
  calls and no streams: 1.4 million states, the same answers).
- cluster: three servers give a replica two candidates, and the fourth join is a
  restart after a failover, without which no list is stale.
- client: a message overtakes or is overtaken when one other is on its way, and
  what is left over from one conversation shows in the next one opened; the two
  conversations are the two members' cases. A second session is in
  MCClientViewSessions.cfg, and safety is proved for all bounds.
- mesh: three servers are the least at which somebody is told of an address, and
  six connections are all they can make in the instance.
- tempus: the program has three processes, no fewer and no more; with one iteration
  each a process still receives, sends to one or both peers or ticks, and meets
  peers that have ended. The clock condition is proved for any number of both.

Deadlock is not checked: every instance stops when its bounds are used up.

Conditions in properties.

- `SerialReplicasAgree` and `SerialCallsLast` speak of calls that overlap neither
  each other nor a join; without the condition both are violated, and
  service_races shows it. The names given to `SignupUser` have no spaces around
  them (`Trim`): with them the stored and the streamed name differ.
- `OrderElectsOne`, `ClientsFindLeader` and `LeaderReturns` hold while nobody has
  joined a promoted server; the first two need that no stream drops as well, and
  `ClientsFindLeader` that joins do not overlap, since two announcements may reach
  a client in the other order.
- `CausalOrder` orders along a server's own events only while its word remembers
  them (`Remembered`). The real word never does, as no reading has fitted it since
  1978: what is left is the order along receipts, and that of the server's own
  stamps is false (hlc_wide).
- `NoTableLost`, `FindSeesUnflushed` and `ClosedIsDrained` hold until an erase in the
  middle of `working_` (`moved`): `process_memtable` keeps its iterator while the
  lock is free (`core.cpp:509`), and the erase of another worker (`core.cpp:613`)
  moves the shorter side of the deque under it. `max(hardware_concurrency() / 2, 1)`
  workers run (`core.cpp:41`), so three are common. Two never get there
  (`PairIsSafe`). `QueueIsServed` and `ListedHasFilter` need no such condition.
- `QueueIsServed`, `FlushEnds` and `FindEnds` hold until `compact()` waits for the
  mutex its own thread holds (`SstablesLocked`), which the fifth table brings about.
- `FreshIds` needs a replay that handed no table to the workers (`~early`): they
  count ids from 0 until the constructor has listed the files (`core.cpp:175`), and
  what they write before may replace a table of an earlier session. The contract
  does not suffer, as table files are never read.
- The client's properties leave out what was stored while the server had no writer
  for the user's stream since the list was last asked for (`missed`): before it
  reached the call of a session, or after the late end of an older call took the
  new one's writer away (`main/impl.cpp:743-751`). What arrives while the user is
  signed out is in the list of the next sign-in and is not left out.
  `UnreadIsListed` also leaves out what was stored already when `GetConversation`
  made the row of the member with the lower id (`overlooked`): the request does not
  say who asks, and the server answers for the other member (`backend.cpp:890`).
- `MeshCompletes` speaks of servers that all join the first, with no dial failed
  and no session lost: nothing in the code repairs either.

## Fairness

- hlc: a thread in the loop runs on, and the exchange it keeps trying on the right
  word succeeds at last (strong fairness of `CasSucceed`): the standard lets a weak
  exchange fail spuriously, and no machine does so for ever.
- MCDatabaseProgress.cfg: threads that are not blocked run; that they never starve on a mutex
  is what the scheduler gives. A sleeping worker runs only after a notification.
- recovery: the constructor runs on (`Opening`). Nothing obliges a database to be
  opened, written to, flushed or closed, nor a process to die.
- arena: each thread takes its next step, as long as it has one. A thread that
  finds a spin lock held does not step; the locks themselves are not fair, and
  `AllocateReturns` holds without it since a call takes each of them at most twice
  and the threads make a bounded number of calls.
- cluster: gRPC calls return and streams to dead servers end, so `Announce`,
  `Follow`, `Pick`, `Watch` and `Reconnect` happen; nothing obliges a server to
  join, crash or drop a stream, nor a client to call.
- mesh: a dial is answered or fails, the two ends of a connection start their
  session, and a frame that has arrived is handled: asio runs what is ready.
  Nothing obliges a server to start, nor a session to be lost.
- tempus: each process takes the next step of its set-up, its loop and its end,
  and a receiver that is told to stop does. The kernel may refuse a port:
  `Listen \/ ListenFails` is fair, neither is alone. Delivery is not fair: a
  process ends whether or not it was sent anything.

## Proofs

What is proved holds for every value of the constants that satisfies the
assumptions named; the runs check the same definitions.

`HybridClockProofs`, for any servers, threads, wall clocks, widths and number of
stamps, from `ConstantsAssumption`:

- `TypeCorrect`, and `PhysCorrect` (`PhysNeverLeads`): the word and the
  successor a thread computed never lead `fastest`. Truncation only lowers.
- `ReceiveCorrect` (`ReceiveIsLater`: a receipt is later than what it answers), if
  the counter cannot wrap (`CounterSuffices`): the successor is above the received
  stamp when it is computed, and the thread publishes exactly that successor.
- `CausalCorrect` (`CausalOrder`), from the same assumption and none on the width of
  the physical part. The order is not inductive: it says nothing of threads about
  to exchange. The strengthening says that a stamp whose word has lost nothing since
  is not above that word (`OrderInv`), that a thread's successor is above the word
  it loaded, and that the counter is at most the number of stamps issued plus one
  (`ReceiveInv`).
  An exchange succeeds only if the word is the one loaded, so what it publishes is
  above all that is remembered. Happened-before is the least set closed under
  "leads to", and the events with larger stamps are such a set.
- `WideClockNeverCounts`: when no reading of the wall clock fits the word, the stamp
  of every local event is the bare reading with counter 0 (`LocalStampIsReading`),
  since what is unpacked is below any reading. This is the shipped clock, and why
  hlc_wide finds equal stamps.
- `LinearizableCorrect` (`Linearizable`), from no assumption on the widths:
  HybridClock implements `AtomicClock`. The invariant (`Computed`) says where a
  thread's successor comes from; that the code's case analysis of three times
  (hlc.hpp:52-69) is the successor of the latest is `AdvanceIsSuccessor`.

`DatabaseProofs`, for any clients, writes, stamps and thresholds:

- `FiltersCorrect` (`ListedHasFilter`), for any workers and without assumptions: a
  worker puts the filter in before it lists the table (`FilterInv`: the id a worker
  is about to list has its filter), and filters are never taken out. It does not
  depend on the iterators into `working_`.
- `TypeCorrect`, for any workers, wherever their iterators point: what an erase takes
  out is an element of `working_`, if another's.
- `TablesCorrect` (`NoTableLost`), `FindCorrect` (`FindSeesUnflushed`) and
  `DrainCorrect` (`ClosedIsDrained`), for any number of workers, until an erase has
  moved elements under another's iterator (`moved`). The erase that does it is
  itself right; it is the next one by a worker whose element it moved that takes out
  another's table. Erases at the two ends of `working_` move nothing, and two workers
  never have more than two elements: `PairIsSafe` draws that conclusion, the three
  properties without the condition.
- `QueueCorrect` (`QueueIsServed`), for any number of workers and with no condition on
  the iterators: a worker goes to sleep only when it has seen the queue empty and
  nobody has handed a table over since, and whoever hands one over wakes a sleeper
  (`AwakeInv`, `EndInv`).

  None of these properties is inductive. The invariant, `Inv`, adds to the
  types: that iterators and elements of `working_` are one to one and name the
  table that is flushed (`WorkerInv`); that current, queued, working and retired
  tables are apart and are all there are (`PlaceInv`); that `memtable_` is null
  exactly while its lock is held (`LockInv`); that workers leave only an empty
  queue of a database nobody calls (`EndInv`); that a logged record is in exactly
  one table once its client has appended it (`RecordInv`); and what a find has seen
  at each step (`FindInv`): of what it owes, each record was found, or is in a table
  still ahead of it -- which moves from the memtable to the queue to `working_`,
  and the search looks in that order -- or is flushed. `WorkerInv`, `PlaceInv` and what
  a find has after it left the queue are claimed until `moved` only. `AwakeInv` is
  `QueueIsServed` said of the program counters.

  What a find selects is computed by folds over all tables it met. That they find
  the latest record of the key is an induction over data, which the theorems of the
  library state for an operator. Here it is carried by the order of the naturals
  instead: a nonempty set of naturals has a least element (`LeastElement`), so a
  set with 0 that is closed under successor has them all (`SetInduction`), and
  `FlattenHolds` and `LwwHolds` apply that to the set of lengths for which the fold
  is right.

`WalRecoveryProofs`, for any number of logs, writes and opens, any threshold and
size of records, from `RecoveryAssumption`. The invariant `IInv` has five parts:
the ranges (`TypeOK`), what each phase of an open has done and not done yet
(`Stages`), what the logs hold of the session that wrote them and of what was
restored (`Logged`), that operation ids grow along each log, across logs, and past
what is replayed (`InOrder`), and that the next table id is past the listed ones
(`Numbered`).

- `TypeCorrect`; `OrderCorrect` (`ReplayInOrder`): the merge takes the least head
  of the logs, which is the least record left as each log is in order, and a crash
  that cuts a log leaves a prefix.
- `FreshCorrect` (`FreshIds`), from `Numbered`.
- `ContractCorrect` (`Contract`): `WalRecovery` implements `SessionStore`. Initial
  states map to initial states; each step is one of the abstract specification's
  (`ImplementStep`, one case for each action) or leaves its variables alone: the
  steps of replay move a write from what the logs hold to what is restored.

`ArenaProofs`, for any threads, shards, sizes of slabs and slices and requests,
from `ArenaAssumption`:

- `TypeCorrect`; `RegionsApart` (`NoOverlap`): that regions do not overlap is not
  inductive by itself, as a shard's thread reads how much is left in one step and
  moves the pointer in another. The invariant adds that a lock belongs to the
  thread inside (`Locked`), that a shard has what the thread inside is about to
  take from it (`Covered`),
  that the active slab and every shard's slice lie in slabs that exist (`Placed`)
  and every region too (`Inside`). What the arena hands to a shard is then apart
  from all that was promised before, and what a shard hands out comes from its own
  slice.
- `AllocatesCorrect` (`Allocates`): ConcurrentArena implements `Allocator`. The
  region that ends a call is apart from those given before by `NoOverlap`, of the
  length asked for by `Covered`, and in a slab there is by `Placed` and `Inside`
  (`EndIsGive`); `want` does not move while the call lasts, and the other steps at
  most add a slab.

`ServiceProofs`, for any calls at once, replicas, streams and any database to
start from that has the columns of `main.sql` (`ServiceAssumption`). The first two
use no assumption; the others need `NoneApart`: the value that stands for "no
call" and "no transaction" is neither a call nor a database.

- `TransactionsCorrect` (`TransactionsEnd`): an open transaction has a call whose
  remaining steps end it, unless a COMMIT was refused. The strengthening,
  `ScriptInv`, is about what a call has ahead: BEGIN only as the first step of
  calls with a COMMIT, ROLLBACK only as the last of those that failed. So a call
  that fails inside the transaction goes on to roll it back, whoever opened it.
- `WritersCorrect` (`NoDanglingWriter`): the strengthening, `WriterInv`, says that
  a registered stream is one that its user opened for that kind and whose call has
  not ended. A call that ends clears its user's entry for its kind, whoever made
  it, so no entry outlives its call (a newer stream may lose its own).
- `TypeCorrect`: the ranges, for databases that keep their columns. A call's rest is
  always an end of its script, or the ROLLBACK of one that failed (`RangeInv`), and
  what it has still to write fits the tables (`CallInv`).
- `ReplicasCorrect` (`SerialReplicasAgree`) and `CallsCorrect` (`SerialCallsLast`),
  for names that `Trim` leaves alone: `SignupUser` streams the name it was given and
  stores another if that has spaces around it. Neither is inductive: inside a call
  the replica is behind, by what depends on how far the call is. The invariant,
  `SerialInv`, says what is due to each copy (`Due`): in a transaction the copy is
  the database before it, from which the call's operations lead to the present one,
  or there is only a rollback ahead; after COMMIT the operations are what the copy
  lacks; and once the call has streamed to it the copy is the database. What was
  answered stays because it is in the database that a rollback would go back to
  (`Running`), and because alone no COMMIT is refused (`Lasting`).

`ClusterProofs`, for any servers, clients, joins, crashes and drops, from
`ClusterAssumption`:

- `TypeCorrect`: the ranges, and that a server has an upstream exactly when it
  is up and does not lead.
- `ListCorrect` (`ListHoldsItself`): the property is inductive given the types.
  A newcomer is appended before its copy is taken; appending to a list keeps
  what is in it; `Pick` drops only heads other than the server itself, or else
  the server leads.
- `OrderCorrect` (`OrderElectsOne`): two leaders are not excluded by their number
  alone, so the invariant, `OrderInv`, speaks of the lists. While the first
  server lives, every list is a prefix of its own, kept in the history variable
  `order`, and everybody waits for it (`FirstLeads`). Once it is dead nobody can
  join without setting `late`, so servers only die, and each has passed over some
  first part of the order, whose servers are dead but for the last, which it
  follows or is (`FirstIsGone`). Of two leaders, the later in the order would
  have passed over the earlier while it lived. (`Passed` with the position of a
  list, instead of the list's content, is what makes the step of `Pick` local.)
- `ClientsCorrect` (`ClientsFindLeader`): the invariant, `ClientInv`, follows the two
  phases of `OrderInv`. While the first server lives all clients are with it, and
  their lists hold everybody who joined, in order, but for the server whose
  announcement is under way (`Attending`). After its death nothing is announced, and
  a client is with the first live server of the order or has only dead ones before
  it: of those that joined before an entry of its list, all are dead but the one it
  is connected to and those its list still has (`Searching`, `Covers`). The first
  live server of the order is the leader, as soon as there is one.

`TempusProofs`, for any number of processes and iterations, from
`TempusAssumption`:

- `TypeCorrect`; `ClockCorrect` (`ClockCondition`): the invariant, `Inv`, says that
  whatever a process knows is at most its clock (`KnownIsPast`), and that a
  timestamp, wherever it is -- half sent, in a receive buffer, in the queue -- is
  not below what its sender knew (`HalvesHonest`, `QueueHonest`). A buffer never
  keeps a whole message, so the halves that meet are of one message.
- `OrderCorrect` (`InOrder`): the invariant, `WireOrder`, says of each pair of
  processes that the buffer followed by the socket is the halves of exactly the
  messages sent and not pushed, in their order, however many bytes each `recv` took.
- `ExchangesCorrect` (`Exchanges`): Tempus implements `LamportClocks`. By `WireOrder`
  after the step, the message that a receipt makes whole is the first on its way
  (`ReceiptStep`); a send adds one for each target it reached (`EventStep`); what
  the setup, the ends and the receivers that throw do is no step (`SameForLamport`).

`ClientViewProofs`, for any conversations, messages, opens and sessions, from
`ViewAssumption`. What the properties say holds only when nothing is on its way, so
none is inductive: the invariants follow a message along its way instead. Each
step is shown to take a message off it only by putting it where it belongs, by
reading it, or by ending the session (`NextWay`).

- `TypeCorrect`: the ranges, and that the view is of one conversation. `RangeInv`
  adds what the requests and events may carry: what was fetched is of the
  conversation that is open, an event is of a message and its conversation, and
  the server says of no message that it was read before it is.
- `ViewCorrect` (`NothingMissed`): a message of the conversation on view is shown
  or the window will be told of it (`ToBeShown`), and between `GetMessages` and
  its answer's `Show` the same holds of the answer (`ViewInv`). The callback posts
  a message whatever it reads of a freed `Conversation`, so the race does not
  matter to the view. That the answer holds each message once is proved by
  counting: the number of smaller members orders a finite set of numbers
  (`SeqOfHolds`).
- `ListCorrect` (`UnreadIsListed`), for either member of a conversation: an unread
  message is among those of its row or the window will be told (`ToBeCounted`), and
  so while a request is under way that will list its conversation (`CountInv`),
  unless no stream was written for it (`missed`) or `GetConversation` left it out of
  the row (`overlooked`).
- `RowsCorrect` (`UnreadHasRow`), for either user: while the user is signed in, the
  conversation of an unread message has a row, or will get one by an event or by
  the answer that opens it (`RowInv`).

`ReceiveIsLater`, `LocalStampIsReading`, `NoOverlap` and `InOrder` have theorems and no
run lists them: in their place the runs check `CausalOrder` and the refinements.

Only model-checked: all liveness properties and whatever needs ENABLED, which the
prover does not handle; Mesh, whose `TypeOK` is its only invariant (what
matters of it is liveness). What `NoTableLost`, `FindSeesUnflushed` and `ClosedIsDrained`
say is no theorem after an erase under another's iterator: there it is false.

## Plan

Written, in this order: HybridClock, Database, Service, Cluster and their proofs;
WalRecovery with SessionStore and the refinement between them; ConcurrentArena;
Tempus; ClientView; Mesh; the proofs of all these but the last. Left:

- The client's failing requests: `channel_mutex_` held shared by a request that
   reconnects (`backend.cpp:422`) and the reader reset under its own mutex, together
   with the clients of Cluster.

## Not modelled

- The generated protobuf and gRPC code under `converse/lib_proto` (about four
  fifths of the repository's lines of C++), the build files, `random` and the empty
  `sstable.cpp`: no behaviour of the system's own. Logging changes no state.
- The client's requests that fail, and with them the locks around its channel: a
  thread there waits for itself, and no interleaving decides it. The order of rows
  and everything about layout. Passwords are right or wrong.
- Framing, heartbeats and timeouts of mousedb's sessions: the failure of a session
  is one step, whatever caused it.
- Record encoding, skip list towers and the bits of a filter: data that no property
  tells apart. `find` does nothing with a filter's answer.
- Compaction beyond the lock it waits for, and the contents of table files, which
  are written and never read.
- That `~Queue` may miss a notification and wait for ever is reachable in Database
  (`life` stays "notified"); nothing in the repository promises that the destructor
  ends, so no property speaks of it.
