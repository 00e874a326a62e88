-------------------------- MODULE WalRecoveryProofs ---------------------------
(***************************************************************************)
(* Proofs about WalRecovery, for any number of logs, writes and opens, any *)
(* threshold, and a crash at any step: the logs are merged in the order of *)
(* the writes, no table file is written over unless replay itself handed   *)
(* one to the workers, and a restart gives what SessionStore says.         *)
(***************************************************************************)
EXTENDS WalRecovery, NaturalsInduction, WellFoundedInduction, TLAPS

Up == phase \in {"open", "closing"}

\* What there is in each phase of the constructor.
Stages ==
    /\ phase \in {"scan", "replay"} => ~fresh
    /\ phase \in {"down", "mkdir"} \/ dirs = "ready"
    /\ dirs # "ready" => DOMAIN logs = {} /\ ssts = {}
    /\ phase = "mkdir" => dirs = "root"
    /\ ~Up => session = {} /\ oid = 0
    /\ phase \in {"down", "mkdir", "scan"} => restored = {} /\ replayed = <<>>
    /\ phase \in {"down", "mkdir", "scan"} => queue = <<>> /\ ~early
    /\ fresh => restored = {}
    /\ phase \notin {"truncate", "open", "closing"} => opened = 0
    /\ phase = "truncate" => opened < NumShards

\* Where the writes are: while the logs are replayed, each record is restored
\* or still to be read; from then on only a fresh open finds any in a log;
\* an open database has its session in the logs and nothing else.
Logged ==
    /\ phase = "replay" =>
           /\ DOMAIN unread = DOMAIN logs
           /\ LoggedIn(unread) \subseteq LoggedIn(logs) \cup restored
           /\ \A s \in DOMAIN logs : \A i \in DOMAIN logs[s] :
                  \/ logs[s][i].w \in restored
                  \/ \E j \in DOMAIN unread[s] : unread[s][j].w = logs[s][i].w
    /\ phase \in {"mkdir", "list", "install", "truncate"} /\ ~fresh
           => LoggedIn(logs) = {}
    /\ phase = "truncate" =>
           \A s \in Shards : s < opened => s \in DOMAIN logs /\ logs[s] = <<>>
    /\ Up => LoggedIn(logs) = session
    /\ \A w \in LoggedIn(logs) \cup restored : w = Garbled \/ w \in 1 .. writes

\* The records of a set of logs: each log's in order, and no two logs share one.
Ordered(ls) ==
    /\ \A s \in DOMAIN ls : \A i, j \in DOMAIN ls[s] :
           i < j => ls[s][i].oid < ls[s][j].oid
    /\ \A s, r \in DOMAIN ls : s # r =>
           \A i \in DOMAIN ls[s], j \in DOMAIN ls[r] : ls[s][i].oid # ls[r][j].oid

\* What is still to be replayed comes after what has been.
InOrder ==
    /\ Ordered(logs)
    /\ Up => \A s \in DOMAIN logs : \A i \in DOMAIN logs[s] : logs[s][i].oid < oid
    /\ phase = "replay" =>
           /\ Ordered(unread)
           /\ \A i \in DOMAIN replayed : \A s \in DOMAIN unread :
                  \A j \in DOMAIN unread[s] : replayed[i] < unread[s][j].oid
    /\ ReplayInOrder

\* There is a next table id, and the workers know it unless they began early.
Numbered ==
    /\ \E b \in Nat : \A i \in ssts : i < b
    /\ ~Up /\ ~early => queue = <<>>
    /\ phase = "install" /\ ~early => \A i \in ssts : i < listed
    /\ (Up \/ phase = "truncate") /\ ~early => \A i \in ssts : i < nextId

IInv == TypeOK /\ Stages /\ Logged /\ InOrder /\ Numbered

-----------------------------------------------------------------------------
\* A set of numbers below a bound has a largest one.
LEMMA LargestExists ==
    ASSUME NEW S, S \subseteq Nat, S # {}, NEW b \in Nat, \A i \in S : i < b
    PROVE  Max(S) \in S /\ \A i \in S : i <= Max(S)
<1> DEFINE T == {b - i : i \in S}
<1>1. \A i \in S : i \in Nat /\ b - i \in Nat /\ b - i \in T
  OBVIOUS
<1>2. T \subseteq Nat /\ T # {}
  BY <1>1
<1>3. PICK m \in T : \A y \in T : ~(<<y, m>> \in OpToRel(<, Nat))
  BY <1>2, NatLessThanWellFounded, WFMin
<1>4. \A y \in T : ~(y < m)
  BY <1>2, <1>3 DEF OpToRel
<1>5. PICK x \in S : m = b - x
  BY <1>3
<1>6. ASSUME NEW y \in S PROVE x >= y
  <2>1. ~(b - y < b - x)
    BY <1>1, <1>4, <1>5
  <2>2. x \in Int /\ y \in Int /\ b \in Int
    BY <1>1, <1>5, <1>6
  <2> HIDE DEF T
  <2> QED BY <2>1, <2>2
<1>7. \E z \in S : \A y \in S : z >= y
  BY <1>6
<1> QED BY <1>1, <1>7 DEF Max

\* What a crash leaves of a log: its first records, the last one perhaps garbled.
LEMMA CutFacts ==
    ASSUME NEW log \in Seq(Record), NEW c \in Cuts(log)
    PROVE  /\ c \in Seq(Record)
           /\ Len(c) <= Len(log)
           /\ \A i \in 1 .. Len(c) : /\ c[i].oid = log[i].oid
                                     /\ c[i].w = log[i].w \/ c[i].w = Garbled
<1>1. ASSUME NEW p \in Prefixes(log)
      PROVE  p \in Seq(Record) /\ Len(p) <= Len(log)
             /\ \A i \in 1 .. Len(p) : p[i] = log[i]
  BY <1>1 DEF Prefixes
<1>2. CASE c \in Prefixes(log)
  BY <1>1, <1>2
<1>3. ASSUME NEW p \in Prefixes(log), p # <<>>, c = [p EXCEPT ![Len(p)].w = Garbled]
      PROVE  /\ c \in Seq(Record) /\ Len(c) = Len(p)
             /\ \A i \in 1 .. Len(c) : /\ c[i].oid = p[i].oid
                                       /\ c[i].w = p[i].w \/ c[i].w = Garbled
  <2>1. p \in Seq(Record) /\ Len(p) \in 1 .. Len(p)
    BY <1>1, <1>3
  <2>2. p[Len(p)] \in Record
    BY <2>1
  <2>3. [p[Len(p)] EXCEPT !.w = Garbled] \in Record
    BY <2>2 DEF Record
  <2>4. c = [p EXCEPT ![Len(p)] = [p[Len(p)] EXCEPT !.w = Garbled]]
    BY <1>3
  <2>5. c \in Seq(Record) /\ Len(c) = Len(p)
    BY <2>1, <2>3, <2>4
  <2> QED BY <2>1, <2>2, <2>4, <2>5 DEF Record
<1> QED BY <1>1, <1>2, <1>3 DEF Cuts

-----------------------------------------------------------------------------
\* The empty sequence.
LEMMA Empty == DOMAIN <<>> = {} /\ \A S : <<>> \in Seq(S)
  OBVIOUS

LEMMA InitInv == Init => IInv
<1> SUFFICES ASSUME Init PROVE IInv
  OBVIOUS
<1>1. TypeOK
  <2>1. /\ logs = <<>> /\ unread = <<>> /\ ssts = {} /\ restored = {} /\ session = {}
        /\ memtable = <<>> /\ queue = <<>> /\ replayed = <<>>
        /\ nextId = 0 /\ listed = 0 /\ oid = 0 /\ opened = 0 /\ writes = 0 /\ opens = 0
        /\ dirs = "none" /\ phase = "down" /\ fresh = FALSE /\ early = FALSE
    BY DEF Init
  <2>2. /\ DOMAIN logs = {} /\ DOMAIN unread = {} /\ memtable \in Seq(Writes \cup {Garbled})
        /\ queue \in Seq(Seq(Writes \cup {Garbled})) /\ replayed \in Seq(Nat)
    BY <2>1, Empty
  <2>3. opened \in 0 .. NumShards /\ writes \in 0 .. MaxWrites /\ opens \in 0 .. MaxOpens
    BY <2>1, RecoveryAssumption
  <2> QED BY <2>1, <2>2, <2>3 DEF TypeOK, Phases
<1>2. Stages
  BY DEF Init, Stages, Up
<1>3. Logged
  BY DEF Init, Logged, Up, LoggedIn
<1>4. InOrder
  BY DEF Init, InOrder, Ordered, ReplayInOrder, Up
<1>5. Numbered
  BY DEF Init, Numbered, Up
<1> QED BY <1>1, <1>2, <1>3, <1>4, <1>5 DEF IInv

\* Memtables and queues keep their types when a record is inserted.
LEMMA InsertType ==
    ASSUME TypeOK, NEW w \in Writes \cup {Garbled}, InternalInsert(w)
    PROVE  /\ memtable' \in Seq(Writes \cup {Garbled})
           /\ queue' \in Seq(Seq(Writes \cup {Garbled}))
<1> DEFINE W == Writes \cup {Garbled}
<1>1. memtable \in Seq(W) /\ queue \in Seq(Seq(W)) /\ w \in W
  BY DEF TypeOK
<1> HIDE DEF W
<1>2. Append(memtable, w) \in Seq(W) /\ <<>> \in Seq(W)
  BY <1>1
<1>3. Append(queue, Append(memtable, w)) \in Seq(Seq(W))
  BY <1>1, <1>2
<1>4. memtable' \in Seq(W) /\ queue' \in Seq(Seq(W))
  BY <1>1, <1>2, <1>3 DEF InternalInsert
<1> QED BY <1>4 DEF W

\* The next table id is a number above those of all the files.
LEMMA UnusedIdFresh ==
    ASSUME TypeOK, Numbered
    PROVE  UnusedId \in Nat /\ \A i \in ssts : i < UnusedId
<1>1. CASE ssts = {}
  BY <1>1 DEF UnusedId
<1>2. CASE ssts # {}
  <2>1. ssts \subseteq Nat
    BY DEF TypeOK
  <2>2. PICK b \in Nat : \A i \in ssts : i < b
    BY DEF Numbered
  <2>3. Max(ssts) \in ssts /\ \A i \in ssts : i <= Max(ssts)
    BY <1>2, <2>1, <2>2, LargestExists
  <2>4. UnusedId = Max(ssts) + 1
    BY <1>2 DEF UnusedId
  <2>5. Max(ssts) \in Nat /\ \A i \in ssts : i \in Nat
    BY <2>1, <2>3
  <2> QED BY <2>3, <2>4, <2>5
<1> QED BY <1>1, <1>2

\* What a process that dies leaves of its variables.
LEMMA DeadType ==
    ASSUME TypeOK, Die, UNCHANGED <<dirs, ssts, fresh, counters>>,
           DOMAIN logs' = DOMAIN logs,
           \A s \in DOMAIN logs : logs'[s] \in Seq(Record)
    PROVE  TypeOK'
<1>1. /\ unread' = <<>> /\ restored' = {} /\ session' = {}
      /\ memtable' = <<>> /\ queue' = <<>> /\ replayed' = <<>>
      /\ nextId' = 0 /\ listed' = 0 /\ oid' = 0 /\ opened' = 0
      /\ phase' = "down" /\ early' = FALSE
  BY DEF Die
<1>2. /\ dirs' = dirs /\ ssts' = ssts /\ fresh' = fresh
      /\ writes' = writes /\ opens' = opens
  BY DEF counters
<1>3. /\ DOMAIN unread' = {} /\ memtable' \in Seq(Writes \cup {Garbled})
      /\ queue' \in Seq(Seq(Writes \cup {Garbled})) /\ replayed' \in Seq(Nat)
  BY <1>1, Empty
<1>4. opened' \in 0 .. NumShards
  BY <1>1, RecoveryAssumption
<1> QED BY <1>1, <1>2, <1>3, <1>4 DEF TypeOK, Phases

\* The logs that a crash leaves.
LEMMA CrashCuts ==
    ASSUME TypeOK, Crash
    PROVE  /\ DOMAIN logs' = DOMAIN logs
           /\ \A s \in DOMAIN logs : logs'[s] = logs[s] \/ (phase = "open" /\ logs'[s] \in Cuts(logs[s]))
           /\ phase # "open" => logs' = logs
<1>1. CASE phase = "open"
  <2>1. /\ logs' \in [DOMAIN logs -> UNION {Cuts(logs[s]) : s \in DOMAIN logs}]
        /\ \A s \in DOMAIN logs : logs'[s] \in Cuts(logs[s])
    BY <1>1 DEF Crash
  <2> QED BY <1>1, <2>1
<1>2. CASE phase # "open"
  BY <1>2 DEF Crash
<1> QED BY <1>1, <1>2

LEMMA TypeStep == IInv /\ [Next]_vars => TypeOK'
<1> SUFFICES ASSUME IInv, [Next]_vars PROVE TypeOK'
  OBVIOUS
<1>0. TypeOK /\ Stages /\ Logged /\ Numbered
  BY DEF IInv
<1>1. CASE UNCHANGED vars
  BY <1>0, <1>1 DEF TypeOK, vars, files, opening, tableVars, counters, history
<1>2. ASSUME NEW f \in BOOLEAN, Start(f) PROVE TypeOK'
  <2>1. phase' \in Phases /\ dirs' \in {"none", "root", "ready"}
        /\ phase' # "open" /\ fresh' \in BOOLEAN
    BY <1>0, <1>2 DEF TypeOK, Start, Phases
  <2>2. opens' \in 0 .. MaxOpens
    BY <1>0, <1>2, RecoveryAssumption DEF TypeOK, Start
  <2>3. UNCHANGED <<logs, ssts, unread, opened, tableVars, listed, oid, writes, history>>
    BY <1>2 DEF Start
  <2> QED BY <1>0, <2>1, <2>2, <2>3 DEF TypeOK, tableVars, history
<1>3. CASE Refuse
  BY <1>1, <1>3 DEF Refuse
<1>4. CASE ReplayThrows
  BY <1>0, <1>4, DeadType DEF ReplayThrows, files, TypeOK
<1>5. CASE MakeData
  BY <1>0, <1>5 DEF TypeOK, MakeData, Phases, opening, tableVars, counters, history
<1>6. CASE Scan
  BY <1>0, <1>6 DEF TypeOK, Scan, Keep, Phases, opening, tableVars, counters, history
<1>7. CASE EndReplay
  <2>1. memtable' \in Seq(Writes \cup {Garbled}) /\ queue' \in Seq(Seq(Writes \cup {Garbled}))
    <3> DEFINE W == Writes \cup {Garbled}
    <3>1. memtable \in Seq(W) /\ queue \in Seq(Seq(W))
      BY <1>0 DEF TypeOK
    <3> HIDE DEF W
    <3>2. Append(queue, memtable) \in Seq(Seq(W)) /\ <<>> \in Seq(W)
      BY <3>1
    <3>3. \/ queue' = Append(queue, memtable) /\ memtable' = <<>>
          \/ queue' = queue /\ memtable' = memtable
      BY <1>7 DEF EndReplay
    <3>4. memtable' \in Seq(W) /\ queue' \in Seq(Seq(W))
      BY <3>1, <3>2, <3>3
    <3> QED BY <3>4 DEF W
  <2> QED BY <1>0, <1>7, <2>1 DEF TypeOK, EndReplay, Phases, files, opening, counters
<1>8. CASE List
  BY <1>0, <1>8, UnusedIdFresh
  DEF TypeOK, List, Phases, files, tableVars, counters, history
<1>9. CASE Install
  BY <1>0, <1>9 DEF TypeOK, Install, Phases, files, opening, counters, history
<1>10. CASE Truncate
  <2>1. opened \in Shards /\ opened' \in 0 .. NumShards
    BY <1>0, <1>10, RecoveryAssumption DEF TypeOK, Stages, Truncate, Shards
  <2>2. /\ DOMAIN logs' = DOMAIN logs \cup {opened}
        /\ \A r \in DOMAIN logs' : logs'[r] = <<>> \/ (r \in DOMAIN logs /\ logs'[r] = logs[r])
    <3>1. logs' = [r \in DOMAIN logs \cup {opened} |-> IF r = opened THEN <<>> ELSE logs[r]]
      BY <1>10 DEF Truncate, OpenLog
    <3> QED BY <3>1
  <2>3. phase' = "open" => DOMAIN logs' = Shards
    BY <1>0, <1>10, <2>1, <2>2, RecoveryAssumption DEF Truncate, Logged, Shards, TypeOK
  <2>4. DOMAIN logs' \subseteq Shards /\ \A s \in DOMAIN logs' : logs'[s] \in Seq(Record)
    BY <1>0, <2>1, <2>2, Empty DEF TypeOK
  <2> QED BY <1>0, <1>10, <2>1, <2>2, <2>3, <2>4
          DEF TypeOK, Truncate, Phases, tableVars, counters, history
<1>11. ASSUME NEW s \in Shards, s \in DOMAIN unread, Replay(s) PROVE TypeOK'
  <2>1. unread[s] \in Seq(Record) /\ unread[s] # <<>>
    BY <1>0, <1>11 DEF TypeOK, Replay, Exhausted
  <2>2. unread[s][1] \in Record /\ Tail(unread[s]) \in Seq(Record)
    BY <2>1
  <2>3. unread[s][1].w \in Writes \cup {Garbled} /\ unread[s][1].oid \in Nat
    BY <2>2 DEF Record
  <2>4. memtable' \in Seq(Writes \cup {Garbled}) /\ queue' \in Seq(Seq(Writes \cup {Garbled}))
    BY <1>0, <1>11, <2>3, InsertType DEF Replay
  <2>5. DOMAIN unread' = DOMAIN unread /\ \A r \in DOMAIN unread : unread'[r] \in Seq(Record)
    BY <1>0, <1>11, <2>2 DEF Replay, TypeOK
  <2>6. replayed' \in Seq(Nat) /\ restored' \subseteq Writes \cup {Garbled} /\ early' \in BOOLEAN
    BY <1>0, <1>11, <2>3 DEF Replay, TypeOK
  <2> QED BY <1>0, <1>11, <2>4, <2>5, <2>6
          DEF TypeOK, Replay, files, opening, counters
<1>12. ASSUME NEW s \in Shards, RemoveLog(s) PROVE TypeOK'
  BY <1>0, <1>12 DEF TypeOK, RemoveLog, Keep, opening, tableVars, counters, history
<1>13. ASSUME NEW s \in Shards, Put(s) PROVE TypeOK'
  <2>1. writes' \in 1 .. MaxWrites /\ writes' \in Writes /\ oid \in Nat /\ oid' \in Nat
    BY <1>0, <1>13, RecoveryAssumption DEF Put, TypeOK, Writes
  <2>2. [oid |-> oid, w |-> writes'] \in Record
    BY <2>1 DEF Record
  <2>3. /\ DOMAIN logs' = DOMAIN logs
        /\ \A r \in DOMAIN logs : logs'[r] \in Seq(Record)
    BY <1>0, <1>13, <2>2 DEF Put, TypeOK
  <2>4. memtable' \in Seq(Writes \cup {Garbled}) /\ queue' \in Seq(Seq(Writes \cup {Garbled}))
    BY <1>0, <1>13, <2>1, InsertType DEF Put
  <2>5. /\ session' \subseteq Writes /\ writes' \in 0 .. MaxWrites /\ phase' = "open"
        /\ phase = "open"
    BY <1>0, <1>13, <2>1 DEF Put, TypeOK
  <2>6. UNCHANGED <<dirs, ssts, phase, unread, fresh, opened, listed, nextId, opens,
                    replayed, restored, early>>
    BY <1>13 DEF Put
  <2> QED BY <1>0, <2>1, <2>3, <2>4, <2>5, <2>6 DEF TypeOK
<1>14. CASE Flush
  <2>1. queue' \in Seq(Seq(Writes \cup {Garbled}))
    BY <1>0, <1>14 DEF Flush, TypeOK
  <2> QED BY <1>0, <1>14, <2>1 DEF TypeOK, Flush, opening, counters, history
<1>15. CASE CloseLogs
  BY <1>0, <1>15 DEF TypeOK, CloseLogs, Phases, files, opening, tableVars, counters, history
<1>16. CASE Closed
  BY <1>0, <1>16, DeadType DEF Closed, files, TypeOK
<1>17. CASE Crash
  <2>1. \A s \in DOMAIN logs : logs'[s] \in Seq(Record)
    BY <1>0, <1>17, CrashCuts, CutFacts DEF TypeOK
  <2>2. DOMAIN logs' = DOMAIN logs
    BY <1>0, <1>17, CrashCuts
  <2> QED BY <1>0, <1>17, <2>1, <2>2, DeadType DEF Crash
<1> QED BY <1>1, <1>2, <1>3, <1>4, <1>5, <1>6, <1>7, <1>8, <1>9, <1>10, <1>11, <1>12,
           <1>13, <1>14, <1>15, <1>16, <1>17 DEF Next, Opening

-----------------------------------------------------------------------------
LEMMA StagesStep == IInv /\ [Next]_vars => Stages'
<1> SUFFICES ASSUME IInv, [Next]_vars PROVE Stages'
  OBVIOUS
<1>0. TypeOK /\ Stages /\ Numbered
  BY DEF IInv
<1>1. CASE UNCHANGED vars
  BY <1>0, <1>1 DEF Stages, Up, vars, files, opening, tableVars, counters, history
<1>2. ASSUME NEW f \in BOOLEAN, Start(f) PROVE Stages'
  <2>1. /\ phase = "down" /\ fresh' = f /\ dirs # "root"
        /\ UNCHANGED <<logs, ssts, opened, queue, oid, replayed, restored, session, early>>
    BY <1>2 DEF Start, tableVars, history
  <2>2. \/ dirs' = "root" /\ phase' = "mkdir" /\ dirs = "none"
        \/ dirs' = dirs /\ dirs # "none" /\ phase' = "install"
        \/ dirs' = dirs /\ dirs # "none" /\ phase' = "list"
        \/ dirs' = dirs /\ dirs # "none" /\ phase' = "scan" /\ ~f
    BY <1>2 DEF Start, DataEmpty
  <2> QED BY <1>0, <2>1, <2>2 DEF Stages, Up, TypeOK
<1>3. CASE Refuse
  BY <1>1, <1>3 DEF Refuse
<1>4. CASE ReplayThrows
  BY <1>0, <1>4 DEF Stages, Up, ReplayThrows, Die, files
<1>5. CASE MakeData
  BY <1>0, <1>5 DEF Stages, Up, MakeData, opening, tableVars, counters, history
<1>6. CASE Scan
  BY <1>0, <1>6 DEF Stages, Up, Scan, Keep, opening, tableVars, counters, history
<1>7. CASE EndReplay
  BY <1>0, <1>7 DEF Stages, Up, EndReplay, files, opening, counters
<1>8. CASE List
  BY <1>0, <1>8 DEF Stages, Up, List, files, tableVars, counters, history
<1>9. CASE Install
  BY <1>0, <1>9, RecoveryAssumption DEF Stages, Up, Install, files, opening, counters, history
<1>10. CASE Truncate
  BY <1>0, <1>10, RecoveryAssumption DEF Stages, Up, Truncate, tableVars, counters, history, TypeOK
<1>11. ASSUME NEW s \in Shards, Replay(s) PROVE Stages'
  BY <1>0, <1>11 DEF Stages, Up, Replay, files, opening, counters
<1>12. ASSUME NEW s \in Shards, RemoveLog(s) PROVE Stages'
  BY <1>0, <1>12 DEF Stages, Up, RemoveLog, Keep, opening, tableVars, counters, history
<1>13. ASSUME NEW s \in Shards, Put(s) PROVE Stages'
  BY <1>0, <1>13 DEF Stages, Up, Put, TypeOK
<1>14. CASE Flush
  BY <1>0, <1>14 DEF Stages, Up, Flush, opening, counters, history
<1>15. CASE CloseLogs
  BY <1>0, <1>15 DEF Stages, Up, CloseLogs, files, opening, tableVars, counters, history
<1>16. CASE Closed
  BY <1>0, <1>16 DEF Stages, Up, Closed, Die, files
<1>17. CASE Crash
  BY <1>0, <1>17, CrashCuts DEF Stages, Up, Crash, Die
<1> QED BY <1>1, <1>2, <1>3, <1>4, <1>5, <1>6, <1>7, <1>8, <1>9, <1>10, <1>11, <1>12,
           <1>13, <1>14, <1>15, <1>16, <1>17 DEF Next, Opening

-----------------------------------------------------------------------------
\* Table ids grow; only a flush makes a file.
LEMMA NumberedStep == IInv /\ [Next]_vars => Numbered'
<1> SUFFICES ASSUME IInv, [Next]_vars PROVE Numbered'
  OBVIOUS
<1>0. TypeOK /\ Stages /\ Numbered
  BY DEF IInv
<1>1. CASE UNCHANGED vars
  BY <1>0, <1>1 DEF Numbered, Up, vars, files, opening, tableVars, counters, history
<1>2. ASSUME NEW f \in BOOLEAN, Start(f) PROVE Numbered'
  <2>1. /\ phase = "down" /\ phase' \in {"mkdir", "install", "list", "scan"}
        /\ UNCHANGED <<ssts, queue, early>>
    BY <1>2 DEF Start, tableVars, history
  <2>2. phase' = "install" => ssts = {}
    BY <1>2 DEF Start, DataEmpty
  <2> QED BY <1>0, <2>1, <2>2 DEF Numbered, Up
<1>3. CASE Refuse
  BY <1>1, <1>3 DEF Refuse
<1>4. CASE Die /\ ssts' = ssts
  BY <1>0, <1>4 DEF Numbered, Up, Die
<1>5. CASE MakeData
  BY <1>0, <1>5 DEF Numbered, Stages, Up, MakeData, opening, tableVars, counters, history
<1>6. CASE Scan
  BY <1>0, <1>6 DEF Numbered, Up, Scan, opening, tableVars, counters, history
<1>7. CASE EndReplay
  BY <1>0, <1>7 DEF Numbered, Up, EndReplay, files, opening, counters
<1>8. CASE List
  BY <1>0, <1>8, UnusedIdFresh DEF Numbered, Up, List, files, tableVars, counters, history
<1>9. CASE Install
  BY <1>0, <1>9 DEF Numbered, Up, Install, files, opening, counters, history
<1>10. CASE Truncate
  BY <1>0, <1>10 DEF Numbered, Up, Truncate, tableVars, counters, history
<1>11. ASSUME NEW s \in Shards, Replay(s) PROVE Numbered'
  BY <1>0, <1>11 DEF Numbered, Up, Replay, files, opening, counters, TypeOK
<1>12. ASSUME NEW s \in Shards, RemoveLog(s) PROVE Numbered'
  BY <1>0, <1>12 DEF Numbered, Up, RemoveLog, opening, tableVars, counters, history
<1>13. ASSUME NEW s \in Shards, Put(s) PROVE Numbered'
  BY <1>0, <1>13 DEF Numbered, Up, Put
<1>14. CASE Flush
  <2>1. /\ queue # <<>> /\ ssts' = ssts \cup {nextId} /\ nextId' = nextId + 1
        /\ UNCHANGED <<phase, early, listed>>
    BY <1>14 DEF Flush, opening, history
  <2>2. \E b \in Nat : \A i \in ssts' : i < b
    <3>1. PICK b \in Nat : \A i \in ssts : i < b
      BY <1>0 DEF Numbered
    <3>2. nextId \in Nat /\ ssts \subseteq Nat
      BY <1>0 DEF TypeOK
    <3>3. \A i \in ssts' : i < b + nextId + 1
      BY <2>1, <3>1, <3>2
    <3> QED BY <3>1, <3>2, <3>3
  <2>3. nextId \in Nat /\ ssts \subseteq Nat
    BY <1>0 DEF TypeOK
  <2>4. Up \/ early
    BY <1>0, <2>1 DEF Numbered
  <2>5. (Up \/ phase = "truncate") /\ ~early => \A i \in ssts' : i < nextId'
    <3>1. (Up \/ phase = "truncate") /\ ~early => \A i \in ssts : i < nextId
      BY <1>0 DEF Numbered
    <3> QED BY <2>1, <2>3, <3>1
  <2> QED BY <2>1, <2>2, <2>4, <2>5 DEF Numbered, Up
<1>15. CASE CloseLogs
  BY <1>0, <1>15 DEF Numbered, Up, CloseLogs, files, opening, tableVars, counters, history
<1>16. ReplayThrows \/ Closed \/ Crash => Numbered'
  BY <1>4 DEF ReplayThrows, Closed, Crash, files
<1> QED BY <1>1, <1>2, <1>3, <1>5, <1>6, <1>7, <1>8, <1>9, <1>10, <1>11, <1>12,
           <1>13, <1>14, <1>15, <1>16 DEF Next, Opening

-----------------------------------------------------------------------------
\* What is in a set of logs.
LEMMA LoggedInMembers ==
    \A ls, w : w \in LoggedIn(ls)
                  <=> \E s \in DOMAIN ls : \E i \in DOMAIN ls[s] : ls[s][i].w = w
  BY DEF LoggedIn

\* To remove a log, or to cut some short, adds no write; garbled ones apart.
LEMMA CrashLogged ==
    ASSUME TypeOK, Crash
    PROVE  LoggedIn(logs') \subseteq LoggedIn(logs) \cup {Garbled}
<1> SUFFICES ASSUME NEW w \in LoggedIn(logs'), w # Garbled PROVE w \in LoggedIn(logs)
  OBVIOUS
<1>1. PICK s \in DOMAIN logs' : \E i \in DOMAIN logs'[s] : logs'[s][i].w = w
  BY LoggedInMembers
<1>2. s \in DOMAIN logs /\ (logs'[s] = logs[s] \/ logs'[s] \in Cuts(logs[s]))
  BY CrashCuts
<1>3. logs[s] \in Seq(Record)
  BY <1>2 DEF TypeOK
<1>4. CASE logs'[s] \in Cuts(logs[s])
  <2>1. /\ logs'[s] \in Seq(Record) /\ Len(logs'[s]) <= Len(logs[s])
        /\ \A i \in 1 .. Len(logs'[s]) : \/ logs'[s][i].w = logs[s][i].w
                                         \/ logs'[s][i].w = Garbled
    BY <1>3, <1>4, CutFacts
  <2>2. PICK i \in 1 .. Len(logs'[s]) : logs'[s][i].w = w
    BY <1>1, <2>1
  <2>3. i \in DOMAIN logs[s] /\ logs[s][i].w = w
    BY <1>3, <2>1, <2>2
  <2> QED BY <1>2, <2>3, LoggedInMembers
<1>5. CASE logs'[s] = logs[s]
  BY <1>1, <1>2, <1>5, LoggedInMembers
<1> QED BY <1>2, <1>4, <1>5

\* The record that is replayed next is in a log, and its reading takes it from
\* what is to be read to what is restored.
LEMMA ReplayLogged ==
    ASSUME TypeOK, Logged, NEW s \in Shards, s \in DOMAIN unread, Replay(s)
    PROVE  /\ restored' = restored \cup {unread[s][1].w}
           /\ unread[s][1].w \in LoggedIn(logs) \cup restored
           /\ DOMAIN unread' = DOMAIN unread
           /\ \A r \in DOMAIN unread : \A i \in DOMAIN unread[r] :
                  \/ unread[r][i].w \in restored'
                  \/ \E j \in DOMAIN unread'[r] : unread'[r][j].w = unread[r][i].w
           /\ LoggedIn(unread') \subseteq LoggedIn(unread)
<1>1. unread[s] \in Seq(Record) /\ unread[s] # <<>>
  BY DEF Replay, Exhausted, TypeOK
<1>2. /\ restored' = restored \cup {unread[s][1].w}
      /\ unread' = [unread EXCEPT ![s] = Tail(@)]
      /\ phase = "replay"
  BY DEF Replay
<1>3. 1 \in DOMAIN unread[s]
  BY <1>1
<1>4. unread[s][1].w \in LoggedIn(unread)
  BY <1>3, LoggedInMembers
<1>5. DOMAIN unread' = DOMAIN unread /\ unread'[s] = Tail(unread[s])
      /\ \A r \in DOMAIN unread : r # s => unread'[r] = unread[r]
  BY <1>2
<1>6. ASSUME NEW i \in DOMAIN unread[s]
      PROVE  \/ unread[s][i].w \in restored'
             \/ \E j \in DOMAIN unread'[s] : unread'[s][j].w = unread[s][i].w
  <2>1. CASE i = 1
    BY <1>2, <2>1
  <2>2. CASE i # 1
    <3>1. i - 1 \in DOMAIN Tail(unread[s]) /\ Tail(unread[s])[i - 1] = unread[s][i]
      BY <1>1, <1>6, <2>2
    <3> QED BY <1>5, <3>1
  <2> QED BY <2>1, <2>2
<1>7. ASSUME NEW w \in LoggedIn(unread') PROVE w \in LoggedIn(unread)
  <2>0. PICK r \in DOMAIN unread' : \E i \in DOMAIN unread'[r] : unread'[r][i].w = w
    BY LoggedInMembers
  <2>1. PICK i \in DOMAIN unread'[r] : unread'[r][i].w = w
    BY <2>0
  <2>2. CASE r = s
    <3>1. i \in DOMAIN Tail(unread[s]) /\ Tail(unread[s])[i].w = w
      BY <1>5, <2>1, <2>2
    <3>2. i + 1 \in DOMAIN unread[s] /\ unread[s][i + 1].w = w
      BY <1>1, <3>1
    <3> QED BY <3>2, LoggedInMembers
  <2>3. CASE r # s
    BY <1>5, <2>1, <2>3, LoggedInMembers
  <2> QED BY <2>2, <2>3
<1>8. \A r \in DOMAIN unread : r # s => \A i \in DOMAIN unread[r] :
          \E j \in DOMAIN unread'[r] : unread'[r][j].w = unread[r][i].w
  BY <1>5
<1>9. LoggedIn(unread) \subseteq LoggedIn(logs) \cup restored
  BY <1>2 DEF Logged
<1>10. \A r \in DOMAIN unread : \A i \in DOMAIN unread[r] :
          \/ unread[r][i].w \in restored'
          \/ \E j \in DOMAIN unread'[r] : unread'[r][j].w = unread[r][i].w
  BY <1>6, <1>8
<1>11. unread[s][1].w \in LoggedIn(logs) \cup restored
  BY <1>4, <1>9
<1>12. LoggedIn(unread') \subseteq LoggedIn(unread)
  BY <1>7
<1> QED BY <1>2, <1>5, <1>10, <1>11, <1>12

\* A log that is opened loses what it has; the others keep theirs.
LEMMA TruncateLogged ==
    ASSUME TypeOK, Truncate
    PROVE  /\ DOMAIN logs' = DOMAIN logs \cup {opened}
           /\ logs'[opened] = <<>>
           /\ \A r \in DOMAIN logs : r # opened => logs'[r] = logs[r]
           /\ LoggedIn(logs') \subseteq LoggedIn(logs)
<1>1. logs' = [r \in DOMAIN logs \cup {opened} |-> IF r = opened THEN <<>> ELSE logs[r]]
  BY DEF Truncate, OpenLog
<1>2. /\ DOMAIN logs' = DOMAIN logs \cup {opened}
      /\ logs'[opened] = <<>>
      /\ \A r \in DOMAIN logs : r # opened => logs'[r] = logs[r]
  BY <1>1
<1>3. ASSUME NEW w \in LoggedIn(logs') PROVE w \in LoggedIn(logs)
  <2>1. PICK r \in DOMAIN logs' : \E i \in DOMAIN logs'[r] : logs'[r][i].w = w
    BY LoggedInMembers
  <2>2. r # opened
    BY <1>2, <2>1, Empty
  <2>3. r \in DOMAIN logs /\ logs'[r] = logs[r]
    BY <1>2, <2>1, <2>2
  <2> QED BY <2>1, <2>3, LoggedInMembers
<1> QED BY <1>2, <1>3

\* The logs and memtable of an open database hold the same writes.
LEMMA PutLogged ==
    ASSUME TypeOK, NEW s \in Shards, Put(s)
    PROVE  LoggedIn(logs') = LoggedIn(logs) \cup {writes'}
<1>1. /\ phase = "open"
      /\ logs' = [logs EXCEPT ![s] = Append(@, [oid |-> oid, w |-> writes'])]
  BY DEF Put
<1>2. DOMAIN logs = Shards /\ logs[s] \in Seq(Record)
  BY <1>1 DEF TypeOK
<1>3. /\ DOMAIN logs' = DOMAIN logs
      /\ logs'[s] = Append(logs[s], [oid |-> oid, w |-> writes'])
      /\ \A r \in DOMAIN logs : r # s => logs'[r] = logs[r]
  BY <1>1, <1>2
<1>4. /\ DOMAIN logs'[s] = DOMAIN logs[s] \cup {Len(logs[s]) + 1}
      /\ \A i \in DOMAIN logs[s] : logs'[s][i] = logs[s][i]
      /\ logs'[s][Len(logs[s]) + 1].w = writes'
  BY <1>2, <1>3
<1>5. ASSUME NEW w \in LoggedIn(logs') PROVE w \in LoggedIn(logs) \cup {writes'}
  <2>1. PICK r \in DOMAIN logs' : \E i \in DOMAIN logs'[r] : logs'[r][i].w = w
    BY LoggedInMembers
  <2>2. CASE r = s
    BY <1>3, <1>4, <2>1, <2>2, LoggedInMembers
  <2>3. CASE r # s
    BY <1>3, <2>1, <2>3, LoggedInMembers
  <2> QED BY <2>2, <2>3
<1>6. ASSUME NEW w \in LoggedIn(logs) PROVE w \in LoggedIn(logs')
  <2>1. PICK r \in DOMAIN logs : \E i \in DOMAIN logs[r] : logs[r][i].w = w
    BY LoggedInMembers
  <2>2. CASE r = s
    BY <1>3, <1>4, <2>1, <2>2, LoggedInMembers
  <2>3. CASE r # s
    BY <1>3, <2>1, <2>3, LoggedInMembers
  <2> QED BY <2>2, <2>3
<1>7. writes' \in LoggedIn(logs')
  BY <1>2, <1>3, <1>4, LoggedInMembers
<1> QED BY <1>5, <1>6, <1>7

\* A log leaves the merge when all it had is restored.
LEMMA RemoveLogged ==
    ASSUME TypeOK, Logged, NEW s \in Shards, s \in DOMAIN unread, RemoveLog(s)
    PROVE  /\ DOMAIN unread' = DOMAIN logs'
           /\ LoggedIn(unread') \subseteq LoggedIn(logs') \cup restored
           /\ LoggedIn(logs) \subseteq LoggedIn(logs') \cup restored
           /\ LoggedIn(logs') \subseteq LoggedIn(logs)
           /\ \A r \in DOMAIN logs' : logs'[r] = logs[r] /\ unread'[r] = unread[r]
<1>1. /\ phase = "replay" /\ unread[s] = <<>>
      /\ unread' = [r \in DOMAIN unread \ {s} |-> unread[r]]
      /\ logs' = [r \in DOMAIN logs \ {s} |-> logs[r]]
  BY DEF RemoveLog, Exhausted, Keep
<1>2. /\ DOMAIN unread = DOMAIN logs
      /\ LoggedIn(unread) \subseteq LoggedIn(logs) \cup restored
      /\ \A r \in DOMAIN logs : \A i \in DOMAIN logs[r] :
             \/ logs[r][i].w \in restored
             \/ \E j \in DOMAIN unread[r] : unread[r][j].w = logs[r][i].w
  BY <1>1 DEF Logged
<1>3. /\ DOMAIN unread' = DOMAIN logs'
      /\ DOMAIN logs' = DOMAIN logs \ {s}
      /\ \A r \in DOMAIN logs' : logs'[r] = logs[r] /\ unread'[r] = unread[r]
  BY <1>1, <1>2
<1>4. ASSUME NEW w \in LoggedIn(logs) PROVE w \in LoggedIn(logs') \cup restored
  <2>1. PICK r \in DOMAIN logs : \E i \in DOMAIN logs[r] : logs[r][i].w = w
    BY LoggedInMembers
  <2>2. CASE r = s
    BY <1>1, <1>2, <2>1, <2>2, Empty
  <2>3. CASE r # s
    BY <1>3, <2>1, <2>3, LoggedInMembers
  <2> QED BY <2>2, <2>3
<1>5. ASSUME NEW w \in LoggedIn(logs') PROVE w \in LoggedIn(logs)
  BY <1>3, LoggedInMembers
<1>6. ASSUME NEW w \in LoggedIn(unread') PROVE w \in LoggedIn(unread)
  BY <1>2, <1>3, LoggedInMembers
<1>7. LoggedIn(unread') \subseteq LoggedIn(logs') \cup restored
  BY <1>2, <1>4, <1>6
<1> QED BY <1>3, <1>4, <1>5, <1>7

LEMMA LoggedStep == IInv /\ [Next]_vars => Logged'
<1> SUFFICES ASSUME IInv, [Next]_vars PROVE Logged'
  OBVIOUS
<1>0. TypeOK /\ Stages /\ Logged
  BY DEF IInv
<1>1. CASE UNCHANGED vars
  BY <1>0, <1>1 DEF Logged, Up, vars, files, opening, tableVars, counters, history
<1>2. ASSUME NEW f \in BOOLEAN, Start(f) PROVE Logged'
  <2>1. /\ phase = "down" /\ fresh' = f
        /\ UNCHANGED <<logs, unread, opened, restored, session, writes>>
    BY <1>2 DEF Start, history
  <2>2. \/ phase' = "mkdir" /\ dirs = "none"
        \/ phase' = "install" /\ DOMAIN logs = {}
        \/ phase' = "list" /\ f
        \/ phase' = "scan"
    BY <1>2 DEF Start, DataEmpty
  <2>3. DOMAIN logs = {} => LoggedIn(logs) = {}
    BY LoggedInMembers
  <2> QED BY <1>0, <2>1, <2>2, <2>3 DEF Logged, Stages, Up
<1>3. CASE Refuse
  BY <1>1, <1>3 DEF Refuse
<1>4. CASE Die /\ logs' = logs /\ writes' = writes
  BY <1>0, <1>4 DEF Logged, Up, Die
<1>5. CASE MakeData
  BY <1>0, <1>5 DEF Logged, Up, MakeData, opening, tableVars, counters, history
<1>6. CASE Scan
  <2>1. /\ phase' = "replay" /\ unread' = logs'
        /\ logs' = [r \in {q \in DOMAIN logs : logs[q] # <<>>} |-> logs[r]]
        /\ UNCHANGED <<restored, writes>>
    BY <1>6 DEF Scan, Keep, counters, history
  <2>2. LoggedIn(logs') \subseteq LoggedIn(logs)
    BY <2>1, LoggedInMembers
  <2>3. \A s \in DOMAIN logs' : \A i \in DOMAIN logs'[s] :
            \E j \in DOMAIN unread'[s] : unread'[s][j].w = logs'[s][i].w
    BY <2>1
  <2>4. LoggedIn(unread') = LoggedIn(logs') /\ DOMAIN unread' = DOMAIN logs'
    BY <2>1
  <2>5. \A w \in LoggedIn(logs') \cup restored' : w = Garbled \/ w \in 1 .. writes'
    BY <1>0, <2>1, <2>2 DEF Logged
  <2> QED BY <2>1, <2>3, <2>4, <2>5 DEF Logged, Up
<1>7. CASE EndReplay
  <2>1. /\ phase = "replay" /\ DOMAIN unread = {} /\ phase' = "list"
        /\ UNCHANGED <<logs, restored, writes>>
    BY <1>7 DEF EndReplay, files, counters
  <2>2. LoggedIn(logs) = {}
    BY <1>0, <2>1, LoggedInMembers DEF Logged
  <2> QED BY <1>0, <2>1, <2>2 DEF Logged, Up
<1>8. CASE List
  BY <1>0, <1>8 DEF Logged, Up, List, files, tableVars, counters, history
<1>9. CASE Install
  BY <1>0, <1>9 DEF Logged, Stages, Up, Install, files, opening, counters, history, Shards
<1>10. CASE Truncate
  <2>1. /\ phase = "truncate" /\ opened' = opened + 1
        /\ phase' = IF opened' = NumShards THEN "open" ELSE phase
        /\ UNCHANGED <<restored, session, fresh, writes>>
    BY <1>10 DEF Truncate, counters, history
  <2>2. /\ DOMAIN logs' = DOMAIN logs \cup {opened}
        /\ logs'[opened] = <<>>
        /\ \A r \in DOMAIN logs : r # opened => logs'[r] = logs[r]
        /\ LoggedIn(logs') \subseteq LoggedIn(logs)
    BY <1>0, <1>10, TruncateLogged
  <2>3. opened \in Nat /\ NumShards \in Nat /\ opened < NumShards /\ DOMAIN logs \subseteq Shards
    BY <1>0, <2>1, RecoveryAssumption DEF TypeOK, Stages
  <2>4. \A s \in Shards : s < opened' => s \in DOMAIN logs' /\ logs'[s] = <<>>
    <3>1. \A s \in Shards : s < opened => s \in DOMAIN logs /\ logs[s] = <<>>
      BY <1>0, <2>1 DEF Logged
    <3>2. \A s \in Shards : s < opened' => s < opened \/ s = opened
      BY <2>1, <2>3 DEF Shards
    <3>3. \A s \in Shards : s < opened => s # opened
      BY <2>3 DEF Shards
    <3> QED BY <2>2, <3>1, <3>2, <3>3
  <2>5. phase' = "open" => LoggedIn(logs') = {}
    <3>1. SUFFICES ASSUME phase' = "open", NEW w \in LoggedIn(logs') PROVE FALSE
      OBVIOUS
    <3>2. opened' = NumShards
      BY <2>1, <3>1
    <3>3. \A s \in DOMAIN logs' : s \in Shards /\ s < opened'
      BY <2>2, <2>3, <3>2 DEF Shards
    <3>4. \A s \in DOMAIN logs' : logs'[s] = <<>>
      BY <2>4, <3>3
    <3> QED BY <3>1, <3>4, Empty, LoggedInMembers
  <2>6. session' = {}
    BY <1>0, <2>1 DEF Stages, Up
  <2>7. \A w \in LoggedIn(logs') \cup restored' : w = Garbled \/ w \in 1 .. writes'
    BY <1>0, <2>1, <2>2 DEF Logged
  <2>8. phase' = "truncate" /\ ~fresh' => LoggedIn(logs') = {}
    BY <1>0, <2>1, <2>2 DEF Logged
  <2>9. phase' \in {"truncate", "open"}
    BY <2>1
  <2> QED BY <2>4, <2>5, <2>6, <2>7, <2>8, <2>9 DEF Logged, Up
<1>11. ASSUME NEW s \in Shards, s \in DOMAIN unread, Replay(s) PROVE Logged'
  <2>1. /\ phase = "replay" /\ phase' = "replay" /\ logs' = logs /\ writes' = writes
    BY <1>11 DEF Replay, files, counters
  <2>2. /\ restored' = restored \cup {unread[s][1].w}
        /\ unread[s][1].w \in LoggedIn(logs) \cup restored
        /\ DOMAIN unread' = DOMAIN unread
        /\ \A r \in DOMAIN unread : \A i \in DOMAIN unread[r] :
               \/ unread[r][i].w \in restored'
               \/ \E j \in DOMAIN unread'[r] : unread'[r][j].w = unread[r][i].w
        /\ LoggedIn(unread') \subseteq LoggedIn(unread)
    BY <1>0, <1>11, ReplayLogged
  <2>3. /\ DOMAIN unread = DOMAIN logs
        /\ LoggedIn(unread) \subseteq LoggedIn(logs) \cup restored
        /\ \A r \in DOMAIN logs : \A i \in DOMAIN logs[r] :
               \/ logs[r][i].w \in restored
               \/ \E j \in DOMAIN unread[r] : unread[r][j].w = logs[r][i].w
    BY <1>0, <2>1 DEF Logged
  <2>4. DOMAIN unread' = DOMAIN logs' /\ LoggedIn(unread') \subseteq LoggedIn(logs') \cup restored'
    BY <2>1, <2>2, <2>3
  <2>5. \A r \in DOMAIN logs' : \A i \in DOMAIN logs'[r] :
            \/ logs'[r][i].w \in restored'
            \/ \E j \in DOMAIN unread'[r] : unread'[r][j].w = logs'[r][i].w
    <3> SUFFICES ASSUME NEW r \in DOMAIN logs, NEW i \in DOMAIN logs[r],
                        logs[r][i].w \notin restored'
                 PROVE  \E j \in DOMAIN unread'[r] : unread'[r][j].w = logs[r][i].w
      BY <2>1
    <3>1. PICK j \in DOMAIN unread[r] : unread[r][j].w = logs[r][i].w
      BY <2>2, <2>3
    <3> QED BY <2>2, <2>3, <3>1
  <2>6. \A w \in LoggedIn(logs') \cup restored' : w = Garbled \/ w \in 1 .. writes'
    BY <1>0, <2>1, <2>2 DEF Logged
  <2> QED BY <2>1, <2>4, <2>5, <2>6 DEF Logged, Up
<1>12. ASSUME NEW s \in Shards, s \in DOMAIN unread, RemoveLog(s) PROVE Logged'
  <2>1. /\ phase = "replay" /\ phase' = "replay"
        /\ UNCHANGED <<restored, writes>>
    BY <1>12 DEF RemoveLog, counters, history
  <2>2. /\ DOMAIN unread' = DOMAIN logs'
        /\ LoggedIn(unread') \subseteq LoggedIn(logs') \cup restored
        /\ LoggedIn(logs') \subseteq LoggedIn(logs)
        /\ \A r \in DOMAIN logs' : logs'[r] = logs[r] /\ unread'[r] = unread[r]
    BY <1>0, <1>12, RemoveLogged
  <2>3. DOMAIN logs' \subseteq DOMAIN logs
    BY <1>12 DEF RemoveLog, Keep
  <2>4. \A r \in DOMAIN logs' : \A i \in DOMAIN logs'[r] :
            \/ logs'[r][i].w \in restored'
            \/ \E j \in DOMAIN unread'[r] : unread'[r][j].w = logs'[r][i].w
    BY <1>0, <2>1, <2>2, <2>3 DEF Logged
  <2>5. \A w \in LoggedIn(logs') \cup restored' : w = Garbled \/ w \in 1 .. writes'
    BY <1>0, <2>1, <2>2 DEF Logged
  <2> QED BY <2>1, <2>2, <2>4, <2>5 DEF Logged, Up
<1>13. ASSUME NEW s \in Shards, Put(s) PROVE Logged'
  <2>1. /\ phase = "open" /\ phase' = "open" /\ writes' = writes + 1
        /\ session' = session \cup {writes'} /\ restored' = restored
    BY <1>13 DEF Put
  <2>2. LoggedIn(logs') = LoggedIn(logs) \cup {writes'}
    BY <1>0, <1>13, PutLogged
  <2>3. LoggedIn(logs') = session'
    BY <1>0, <2>1, <2>2 DEF Logged, Up
  <2>4. writes \in Nat
    BY <1>0, RecoveryAssumption DEF TypeOK
  <2>5. \A w \in LoggedIn(logs) \cup restored : w = Garbled \/ w \in 1 .. writes
    BY <1>0 DEF Logged
  <2>6. \A w : w \in 1 .. writes => w \in 1 .. writes'
    BY <2>1, <2>4
  <2>7. writes' \in 1 .. writes'
    BY <2>1, <2>4
  <2>8. \A w \in LoggedIn(logs') \cup restored' : w = Garbled \/ w \in 1 .. writes'
    BY <2>1, <2>2, <2>5, <2>6, <2>7
  <2> QED BY <2>1, <2>3, <2>8 DEF Logged, Up
<1>14. CASE Flush
  BY <1>0, <1>14 DEF Logged, Up, Flush, opening, counters, history
<1>15. CASE CloseLogs
  BY <1>0, <1>15 DEF Logged, Up, CloseLogs, files, opening, tableVars, counters, history
<1>16. CASE ReplayThrows \/ Closed
  BY <1>4, <1>16 DEF ReplayThrows, Closed, files, counters
<1>17. CASE Crash
  <2>1. phase' = "down" /\ restored' = {} /\ writes' = writes
    BY <1>17 DEF Crash, Die, counters
  <2>2. LoggedIn(logs') \subseteq LoggedIn(logs) \cup {Garbled}
    BY <1>0, <1>17, CrashLogged
  <2>3. \A w \in LoggedIn(logs') \cup restored' : w = Garbled \/ w \in 1 .. writes'
    BY <1>0, <2>1, <2>2 DEF Logged
  <2> QED BY <2>1, <2>3 DEF Logged, Up
<1> QED BY <1>1, <1>2, <1>3, <1>5, <1>6, <1>7, <1>8, <1>9, <1>10, <1>11, <1>12,
           <1>13, <1>14, <1>15, <1>16, <1>17 DEF Next, Opening

-----------------------------------------------------------------------------
\* Logs that keep only first records of ordered ones are ordered.
LEMMA OrderedParts ==
    \A ls, ms :
        /\ Ordered(ls)
        /\ DOMAIN ms \subseteq DOMAIN ls
        /\ \A s \in DOMAIN ms : \A i \in DOMAIN ms[s] :
               i \in DOMAIN ls[s] /\ ms[s][i].oid = ls[s][i].oid
        => Ordered(ms)
<1> SUFFICES ASSUME NEW ls, NEW ms, Ordered(ls), DOMAIN ms \subseteq DOMAIN ls,
                    \A s \in DOMAIN ms : \A i \in DOMAIN ms[s] :
                        i \in DOMAIN ls[s] /\ ms[s][i].oid = ls[s][i].oid
             PROVE  Ordered(ms)
  OBVIOUS
<1>1. ASSUME NEW s \in DOMAIN ms, NEW i \in DOMAIN ms[s], NEW j \in DOMAIN ms[s], i < j
      PROVE  ms[s][i].oid < ms[s][j].oid
  <2>1. ls[s][i].oid < ls[s][j].oid
    BY <1>1 DEF Ordered
  <2> QED BY <1>1, <2>1
<1>2. ASSUME NEW s \in DOMAIN ms, NEW r \in DOMAIN ms, s # r,
             NEW i \in DOMAIN ms[s], NEW j \in DOMAIN ms[r]
      PROVE  ms[s][i].oid # ms[r][j].oid
  <2>1. ls[s][i].oid # ls[r][j].oid
    BY <1>2 DEF Ordered
  <2> QED BY <1>2, <2>1
<1> QED BY <1>1, <1>2 DEF Ordered

\* A crash cuts records off the end of the logs, and garbles none's id.
LEMMA CrashOrdered == TypeOK /\ Ordered(logs) /\ Crash => Ordered(logs')
<1> SUFFICES ASSUME TypeOK, Ordered(logs), Crash PROVE Ordered(logs')
  OBVIOUS
<1>1. ASSUME NEW s \in DOMAIN logs, NEW i \in DOMAIN logs'[s]
      PROVE  i \in DOMAIN logs[s] /\ logs'[s][i].oid = logs[s][i].oid
  <2>1. CASE logs'[s] = logs[s]
    BY <1>1, <2>1
  <2>2. CASE logs'[s] \in Cuts(logs[s])
    <3>1. logs[s] \in Seq(Record)
      BY DEF TypeOK
    <3>2. /\ logs'[s] \in Seq(Record) /\ Len(logs'[s]) <= Len(logs[s])
          /\ \A k \in 1 .. Len(logs'[s]) : logs'[s][k].oid = logs[s][k].oid
      BY <2>2, <3>1, CutFacts
    <3> QED BY <1>1, <3>1, <3>2
  <2> QED BY <2>1, <2>2, CrashCuts
<1>2. DOMAIN logs' = DOMAIN logs
  BY CrashCuts
<1> QED BY <1>1, <1>2, OrderedParts

\* A write's id is above those of all the records in the logs.
LEMMA PutOrdered ==
    ASSUME TypeOK, InOrder, NEW s \in Shards, Put(s)
    PROVE  /\ Ordered(logs')
           /\ \A r \in DOMAIN logs' : \A i \in DOMAIN logs'[r] : logs'[r][i].oid < oid'
<1>1. /\ phase = "open" /\ oid' = oid + 1 /\ oid \in Nat
      /\ logs' = [logs EXCEPT ![s] = Append(@, [oid |-> oid, w |-> writes'])]
  BY DEF Put, TypeOK
<1>2. /\ DOMAIN logs = Shards
      /\ \A r \in Shards : logs[r] \in Seq(Record)
      /\ \A r \in DOMAIN logs : \A i \in DOMAIN logs[r] : logs[r][i].oid < oid
      /\ Ordered(logs)
  BY <1>1 DEF TypeOK, InOrder, Up
<1>3. /\ DOMAIN logs' = Shards
      /\ logs'[s] = Append(logs[s], [oid |-> oid, w |-> writes'])
      /\ \A r \in Shards : r # s => logs'[r] = logs[r]
  BY <1>1, <1>2
<1>4. /\ DOMAIN logs[s] = 1 .. Len(logs[s]) /\ Len(logs[s]) \in Nat
      /\ DOMAIN logs'[s] = 1 .. Len(logs[s]) + 1
      /\ \A i \in DOMAIN logs[s] : logs'[s][i] = logs[s][i]
      /\ logs'[s][Len(logs[s]) + 1].oid = oid
  BY <1>2, <1>3
<1>5. \A r \in Shards : \A i \in DOMAIN logs[r] : logs[r][i].oid \in Nat
  <2>1. \A r \in Shards : \A i \in DOMAIN logs[r] : logs[r][i] \in Record
    BY <1>2
  <2> QED BY <2>1 DEF Record
<1>6. \A r \in Shards : \A i \in DOMAIN logs'[r] :
          \/ i \in DOMAIN logs[r] /\ logs'[r][i].oid = logs[r][i].oid
          \/ r = s /\ i = Len(logs[s]) + 1 /\ logs'[r][i].oid = oid
  BY <1>3, <1>4
<1>7. \A r \in DOMAIN logs' : \A i \in DOMAIN logs'[r] : logs'[r][i].oid < oid'
  BY <1>1, <1>2, <1>3, <1>5, <1>6
<1>8. ASSUME NEW r \in Shards, NEW i \in DOMAIN logs'[r], NEW j \in DOMAIN logs'[r], i < j
      PROVE  logs'[r][i].oid < logs'[r][j].oid
  <2>1. CASE r = s /\ j = Len(logs[s]) + 1
    <3>1. i \in DOMAIN logs[r] /\ logs'[r][i].oid = logs[r][i].oid
      BY <1>4, <1>6, <1>8, <2>1
    <3> QED BY <1>2, <1>4, <2>1, <3>1
  <2>2. CASE j \in DOMAIN logs[r] /\ logs'[r][j].oid = logs[r][j].oid
    <3>1. j \in 1 .. Len(logs[r]) /\ Len(logs[r]) \in Nat
      BY <1>2, <2>2
    <3>2. i # Len(logs[s]) + 1 \/ r # s
      BY <1>4, <1>8, <3>1
    <3>3. i \in DOMAIN logs[r] /\ logs'[r][i].oid = logs[r][i].oid
      BY <1>6, <3>2
    <3> QED BY <1>2, <1>8, <2>2, <3>3 DEF Ordered
  <2> QED BY <1>6, <2>1, <2>2
<1>9. ASSUME NEW r \in Shards, NEW q \in Shards, r # q,
             NEW i \in DOMAIN logs'[r], NEW j \in DOMAIN logs'[q]
      PROVE  logs'[r][i].oid # logs'[q][j].oid
  <2>1. CASE i \in DOMAIN logs[r] /\ logs'[r][i].oid = logs[r][i].oid
             /\ j \in DOMAIN logs[q] /\ logs'[q][j].oid = logs[q][j].oid
    <3>1. logs[r][i].oid # logs[q][j].oid
      BY <1>2, <1>9, <2>1 DEF Ordered
    <3> QED BY <2>1, <3>1
  <2>2. CASE r = s /\ logs'[r][i].oid = oid
    BY <1>1, <1>2, <1>3, <1>5, <1>9, <2>2
  <2>3. CASE q = s /\ logs'[q][j].oid = oid
    BY <1>1, <1>2, <1>3, <1>5, <1>9, <2>3
  <2> QED BY <1>6, <2>1, <2>2, <2>3
<1>10. Ordered(logs')
  BY <1>3, <1>8, <1>9 DEF Ordered
<1> QED BY <1>7, <1>10

\* What is replayed next comes after what has been, and before what is left.
LEMMA ReplayOrdered ==
    ASSUME TypeOK, InOrder, NEW s \in Shards, s \in DOMAIN unread, Replay(s)
    PROVE  /\ Ordered(unread')
           /\ \A i \in DOMAIN replayed' : \A r \in DOMAIN unread' :
                  \A j \in DOMAIN unread'[r] : replayed'[i] < unread'[r][j].oid
           /\ ReplayInOrder'
<1> DEFINE n == unread[s][1].oid
<1>1. /\ phase = "replay" /\ \A r \in DOMAIN unread : unread[r] # <<>>
      /\ \A r \in DOMAIN unread : n <= unread[r][1].oid
      /\ unread' = [unread EXCEPT ![s] = Tail(@)]
      /\ replayed' = Append(replayed, n)
  BY DEF Replay, LowestOid, Exhausted
<1>2. /\ \A r \in DOMAIN unread : unread[r] \in Seq(Record)
      /\ replayed \in Seq(Nat)
  BY DEF TypeOK
<1>3. \A r \in DOMAIN unread : \A i \in DOMAIN unread[r] : unread[r][i].oid \in Nat
  <2>1. \A r \in DOMAIN unread : \A i \in DOMAIN unread[r] : unread[r][i] \in Record
    BY <1>2
  <2> QED BY <2>1 DEF Record
<1>4. \A r \in DOMAIN unread : /\ DOMAIN unread[r] = 1 .. Len(unread[r])
                               /\ Len(unread[r]) \in Nat /\ 1 \in DOMAIN unread[r]
  BY <1>1, <1>2
<1>5. /\ Ordered(unread)
      /\ \A i \in DOMAIN replayed : \A r \in DOMAIN unread :
             \A j \in DOMAIN unread[r] : replayed[i] < unread[r][j].oid
      /\ \A i, j \in DOMAIN replayed : i < j => replayed[i] < replayed[j]
  BY <1>1 DEF InOrder, ReplayInOrder
<1>6. /\ DOMAIN unread' = DOMAIN unread /\ unread'[s] = Tail(unread[s])
      /\ \A r \in DOMAIN unread : r # s => unread'[r] = unread[r]
  BY <1>1
<1>7. \A i \in DOMAIN Tail(unread[s]) :
          /\ i \in Nat /\ i > 0 /\ i + 1 \in DOMAIN unread[s]
          /\ Tail(unread[s])[i] = unread[s][i + 1]
  BY <1>2, <1>4, <1>1
<1>8. n \in Nat
  BY <1>3, <1>4
<1>9. \A r \in DOMAIN unread : \A j \in DOMAIN unread'[r] : n < unread'[r][j].oid
  <2> SUFFICES ASSUME NEW r \in DOMAIN unread, NEW j \in DOMAIN unread'[r]
               PROVE  n < unread'[r][j].oid
    OBVIOUS
  <2>1. CASE r = s
    <3>1. j \in Nat /\ j > 0 /\ j + 1 \in DOMAIN unread[s] /\ unread'[r][j] = unread[s][j + 1]
      BY <1>6, <1>7, <2>1
    <3>2. 1 < j + 1 /\ 1 \in DOMAIN unread[s]
      BY <1>4, <3>1
    <3>3. unread[s][1].oid < unread[s][j + 1].oid
      BY <1>5, <3>1, <3>2 DEF Ordered
    <3> QED BY <3>1, <3>3
  <2>2. CASE r # s
    <3>1. j \in DOMAIN unread[r] /\ unread'[r][j] = unread[r][j]
      BY <1>6, <2>2
    <3>2. n # unread[r][j].oid
      BY <1>4, <1>5, <2>2, <3>1 DEF Ordered
    <3>3. n <= unread[r][1].oid /\ unread[r][1].oid \in Nat /\ unread[r][j].oid \in Nat
      BY <1>1, <1>3, <1>4, <3>1
    <3>4. j = 1 \/ 1 < j
      BY <1>4, <3>1
    <3>5. 1 < j => unread[r][1].oid < unread[r][j].oid
      BY <1>4, <1>5, <3>1 DEF Ordered
    <3> HIDE DEF n
    <3> QED BY <1>8, <3>1, <3>2, <3>3, <3>4, <3>5
  <2> QED BY <2>1, <2>2
<1>10. \A i \in DOMAIN replayed : replayed[i] < n
  BY <1>4, <1>5
<1> HIDE DEF n
<1>11. /\ DOMAIN replayed = 1 .. Len(replayed) /\ Len(replayed) \in Nat
       /\ DOMAIN replayed' = 1 .. Len(replayed) + 1
       /\ \A i \in DOMAIN replayed : replayed'[i] = replayed[i] /\ replayed[i] \in Nat
       /\ replayed'[Len(replayed) + 1] = n
  BY <1>1, <1>2, <1>8
<1>12. \A i \in DOMAIN replayed' : i \in DOMAIN replayed \/ i = Len(replayed) + 1
  BY <1>11
<1>13. \A r \in DOMAIN unread : \A j \in DOMAIN unread'[r] : unread'[r][j].oid \in Nat
  <2> SUFFICES ASSUME NEW r \in DOMAIN unread, NEW j \in DOMAIN unread'[r]
               PROVE  unread'[r][j].oid \in Nat
    OBVIOUS
  <2>1. CASE r = s
    <3>1. j + 1 \in DOMAIN unread[s] /\ unread'[r][j] = unread[s][j + 1]
      BY <1>6, <1>7, <2>1
    <3> QED BY <1>3, <3>1
  <2>2. CASE r # s
    BY <1>3, <1>6, <2>2
  <2> QED BY <2>1, <2>2
<1>14. ASSUME NEW i \in DOMAIN replayed', NEW r \in DOMAIN unread', NEW j \in DOMAIN unread'[r]
       PROVE  replayed'[i] < unread'[r][j].oid
  <2>1. n < unread'[r][j].oid /\ unread'[r][j].oid \in Nat
    BY <1>6, <1>9, <1>13, <1>14
  <2>2. replayed'[i] = n \/ (replayed'[i] < n /\ replayed'[i] \in Nat)
    BY <1>10, <1>11, <1>12, <1>14
  <2> QED BY <1>8, <2>1, <2>2
<1>15. ReplayInOrder'
  <2> SUFFICES ASSUME NEW i \in DOMAIN replayed', NEW j \in DOMAIN replayed', i < j
               PROVE  replayed'[i] < replayed'[j]
    BY DEF ReplayInOrder
  <2>1. i \in DOMAIN replayed
    BY <1>11, <1>12
  <2>2. CASE j \in DOMAIN replayed
    BY <1>5, <1>11, <2>1, <2>2
  <2>3. CASE j = Len(replayed) + 1
    BY <1>10, <1>11, <2>1, <2>3
  <2> QED BY <1>12, <2>2, <2>3
<1>16. Ordered(unread')
  <2>1. ASSUME NEW r \in DOMAIN unread', NEW i \in DOMAIN unread'[r], NEW j \in DOMAIN unread'[r],
               i < j
        PROVE  unread'[r][i].oid < unread'[r][j].oid
    <3>1. CASE r # s
      BY <1>5, <1>6, <2>1, <3>1 DEF Ordered
    <3>2. CASE r = s
      <4>1. i \in DOMAIN Tail(unread[s]) /\ j \in DOMAIN Tail(unread[s])
        BY <1>6, <2>1, <3>2
      <4>2. /\ i + 1 \in DOMAIN unread[s] /\ unread'[r][i] = unread[s][i + 1] /\ i \in Nat
            /\ j + 1 \in DOMAIN unread[s] /\ unread'[r][j] = unread[s][j + 1] /\ j \in Nat
        BY <1>6, <1>7, <3>2, <4>1
      <4>3. i + 1 < j + 1
        BY <2>1, <4>2
      <4>4. unread[s][i + 1].oid < unread[s][j + 1].oid
        BY <1>5, <1>6, <4>2, <4>3 DEF Ordered
      <4> QED BY <4>2, <4>4
    <3> QED BY <3>1, <3>2
  <2>2. \A r \in DOMAIN unread : \A i \in DOMAIN unread'[r] :
            \E k \in DOMAIN unread[r] : unread'[r][i] = unread[r][k]
    BY <1>6, <1>7
  <2>3. ASSUME NEW r \in DOMAIN unread', NEW q \in DOMAIN unread', r # q,
               NEW i \in DOMAIN unread'[r], NEW j \in DOMAIN unread'[q]
        PROVE  unread'[r][i].oid # unread'[q][j].oid
    BY <1>5, <1>6, <2>2, <2>3 DEF Ordered
  <2> QED BY <2>1, <2>3 DEF Ordered
<1> QED BY <1>14, <1>15, <1>16

LEMMA OrderStep == IInv /\ [Next]_vars => InOrder'
<1> SUFFICES ASSUME IInv, [Next]_vars PROVE InOrder'
  OBVIOUS
<1>0. TypeOK /\ Stages /\ Logged /\ InOrder
  BY DEF IInv
<1>1. CASE UNCHANGED vars
  BY <1>0, <1>1 DEF InOrder, ReplayInOrder, Up, vars, files, opening, tableVars, counters, history
<1>2. CASE /\ UNCHANGED <<logs, replayed>>
           /\ phase' \notin {"replay", "open", "closing"}
  BY <1>0, <1>2 DEF InOrder, ReplayInOrder, Up
<1>3. CASE Die /\ Ordered(logs')
  BY <1>3 DEF InOrder, ReplayInOrder, Up, Die
<1>4. ASSUME NEW f \in BOOLEAN, Start(f) PROVE InOrder'
  BY <1>2, <1>4 DEF Start, history
<1>5. CASE Refuse
  BY <1>1, <1>5 DEF Refuse
<1>6. CASE Scan
  <2>1. /\ phase = "scan" /\ phase' = "replay" /\ unread' = logs' /\ replayed' = replayed
        /\ logs' = [r \in {q \in DOMAIN logs : logs[q] # <<>>} |-> logs[r]]
    BY <1>6 DEF Scan, Keep, history
  <2>2. Ordered(logs')
    BY <1>0, <2>1, OrderedParts DEF InOrder
  <2>3. replayed' = <<>>
    BY <1>0, <2>1 DEF Stages
  <2> QED BY <2>1, <2>2, <2>3, Empty DEF InOrder, ReplayInOrder, Up
<1>7. CASE EndReplay \/ List \/ Install \/ MakeData
  BY <1>2, <1>7 DEF EndReplay, List, Install, MakeData, files, history
<1>8. CASE Truncate
  <2>1. replayed' = replayed /\ phase' \in {"truncate", "open"} /\ session' = session
        /\ phase = "truncate"
    BY <1>8 DEF Truncate, history
  <2>2. /\ DOMAIN logs' = DOMAIN logs \cup {opened}
        /\ logs'[opened] = <<>>
        /\ \A r \in DOMAIN logs : r # opened => logs'[r] = logs[r]
    BY <1>0, <1>8, TruncateLogged
  <2>3. Ordered(logs')
    <3>1. \A r \in DOMAIN logs' : \A i \in DOMAIN logs'[r] : r # opened
      BY <2>2, Empty
    <3> QED BY <1>0, <2>2, <3>1 DEF InOrder, Ordered
  <2>4. phase' = "open" => \A s \in DOMAIN logs' : \A i \in DOMAIN logs'[s] : FALSE
    <3>1. Logged'
      BY LoggedStep
    <3>2. session' = {}
      BY <1>0, <2>1 DEF Stages, Up
    <3>3. phase' = "open" => LoggedIn(logs') = {}
      BY <3>1, <3>2 DEF Logged, Up
    <3>4. \A s \in DOMAIN logs' : \A i \in DOMAIN logs'[s] : logs'[s][i].w \in LoggedIn(logs')
      BY LoggedInMembers
    <3> QED BY <3>3, <3>4
  <2>5. Up' => \A s \in DOMAIN logs' : \A i \in DOMAIN logs'[s] : logs'[s][i].oid < oid'
    BY <2>1, <2>4 DEF Up
  <2>6. ReplayInOrder' /\ phase' # "replay"
    BY <1>0, <2>1 DEF InOrder, ReplayInOrder
  <2> QED BY <2>3, <2>5, <2>6 DEF InOrder
<1>9. ASSUME NEW s \in Shards, s \in DOMAIN unread, Replay(s) PROVE InOrder'
  <2>1. phase' = "replay" /\ logs' = logs
    BY <1>9 DEF Replay, files
  <2>2. /\ Ordered(unread')
        /\ \A i \in DOMAIN replayed' : \A r \in DOMAIN unread' :
               \A j \in DOMAIN unread'[r] : replayed'[i] < unread'[r][j].oid
        /\ ReplayInOrder'
    BY <1>0, <1>9, ReplayOrdered
  <2>3. Ordered(logs')
    BY <1>0, <2>1 DEF InOrder
  <2> QED BY <2>1, <2>2, <2>3 DEF InOrder, Up
<1>10. ASSUME NEW s \in Shards, s \in DOMAIN unread, RemoveLog(s) PROVE InOrder'
  <2>1. /\ phase = "replay" /\ phase' = "replay" /\ replayed' = replayed
        /\ DOMAIN unread' \subseteq DOMAIN unread
        /\ \A r \in DOMAIN unread' : unread'[r] = unread[r]
        /\ DOMAIN logs' \subseteq DOMAIN logs
        /\ \A r \in DOMAIN logs' : logs'[r] = logs[r]
    BY <1>10 DEF RemoveLog, Keep, history
  <2>2. Ordered(logs') /\ Ordered(unread')
    BY <1>0, <2>1, OrderedParts DEF InOrder
  <2> QED BY <1>0, <2>1, <2>2 DEF InOrder, ReplayInOrder, Up
<1>11. ASSUME NEW s \in Shards, Put(s) PROVE InOrder'
  <2>1. phase' = "open" /\ replayed' = replayed
    BY <1>11 DEF Put
  <2>2. /\ Ordered(logs')
        /\ \A r \in DOMAIN logs' : \A i \in DOMAIN logs'[r] : logs'[r][i].oid < oid'
    BY <1>0, <1>11, PutOrdered
  <2> QED BY <1>0, <2>1, <2>2 DEF InOrder, ReplayInOrder, Up
<1>12. CASE Flush
  BY <1>0, <1>12 DEF InOrder, ReplayInOrder, Up, Flush, opening, counters, history
<1>13. CASE CloseLogs
  BY <1>0, <1>13
  DEF InOrder, ReplayInOrder, Up, CloseLogs, files, opening, tableVars, counters, history
<1>14. CASE ReplayThrows \/ Closed
  BY <1>0, <1>3, <1>14 DEF ReplayThrows, Closed, files, InOrder
<1>15. CASE Crash
  BY <1>0, <1>3, <1>15, CrashOrdered DEF Crash, InOrder
<1> QED BY <1>1, <1>4, <1>5, <1>6, <1>7, <1>8, <1>9, <1>10, <1>11, <1>12, <1>13, <1>14,
           <1>15 DEF Next, Opening

LEMMA Inductive == IInv /\ [Next]_vars => IInv'
  BY TypeStep, StagesStep, LoggedStep, OrderStep, NumberedStep DEF IInv

LEMMA Invariance == Spec => []IInv
<1> QED BY InitInv, Inductive, PTL DEF Spec

-----------------------------------------------------------------------------
\* Every variable keeps its range in every reachable state of an open, a
\* session, a close or a crash.
THEOREM TypeCorrect == Spec => []TypeOK
<1>1. IInv => TypeOK
  BY DEF IInv
<1> QED BY <1>1, Invariance, PTL

\* However many logs there are, and whatever crashes have left of them, an open
\* replays the records in the order of the writes, and none twice
\* (core.cpp:96-150).
THEOREM OrderCorrect == Spec => []ReplayInOrder
<1>1. IInv => ReplayInOrder
  BY DEF IInv, InOrder
<1> QED BY <1>1, Invariance, PTL

\* An open database writes its tables under ids that no file has, unless its
\* replay handed a table to the workers before core.cpp:175 gave them an id.
THEOREM FreshCorrect == Spec => FreshIds
<1>1. IInv /\ [Next]_vars
        => [(phase \in {"open", "closing"} /\ ~early /\ nextId' = nextId + 1)
               => nextId \notin ssts]_vars
  <2> SUFFICES ASSUME IInv, phase \in {"open", "closing"}, ~early PROVE nextId \notin ssts
    OBVIOUS
  <2>1. \A i \in ssts : i < nextId
    BY DEF IInv, Numbered, Up
  <2>2. nextId \in Nat
    BY DEF IInv, TypeOK
  <2> QED BY <2>1, <2>2
<1> QED BY <1>1, Invariance, PTL DEF Spec, FreshIds

-----------------------------------------------------------------------------
\* The state of SessionStore that a state of WalRecovery stands for.
Kept == IF Mode = "up" THEN {} ELSE LoggedIn(logs) \cup restored
Restored == IF Mode = "up" THEN restored ELSE {}

LEMMA ModeUp == (Mode = "up") <=> Up
  BY DEF Mode, Up

LEMMA ImplementInit == Init => Store!Init
<1> SUFFICES ASSUME Init PROVE Store!Init
  OBVIOUS
<1>1. phase = "down" /\ logs = <<>> /\ restored = {} /\ session = {}
  BY DEF Init
<1>2. LoggedIn(logs) = {}
  BY <1>1, Empty, LoggedInMembers
<1>3. Mode = "down" /\ Kept = {} /\ Restored = {}
  BY <1>1, <1>2 DEF Mode, Kept, Restored
<1> QED BY <1>1, <1>3 DEF Store!Init, Kept, Restored

\* A step that leaves what the contract sees is a stutter of it.
LEMMA Stutter ==
    ASSUME Mode' = Mode, session' = session, Kept' = Kept, Restored' = Restored
    PROVE  UNCHANGED Store!vars
  BY DEF Store!vars, Kept, Restored

\* A step of the constructor that loses no write is a stutter.
LEMMA OpeningStutter ==
    ASSUME Mode' = Mode, Mode # "up", session' = session,
           LoggedIn(logs') \cup restored' = LoggedIn(logs) \cup restored
    PROVE  UNCHANGED Store!vars
<1>1. Kept' = Kept /\ Restored' = Restored
  BY DEF Kept, Restored
<1> QED BY <1>1, Stutter

\* A process that dies leaves no more than the contract allows.
LEMMA ImplementCrash ==
    ASSUME IInv, Die, phase # "down",
           LoggedIn(logs') \subseteq LoggedIn(logs) \cup
                                     (IF phase = "open" THEN {Garbled} ELSE {})
    PROVE  Store!Crash
<1>1. phase' = "down" /\ session' = {} /\ restored' = {}
  BY DEF Die
<1>2. Mode # "down" /\ Mode' = "down" /\ Kept' = LoggedIn(logs') /\ Restored' = {}
  BY <1>1 DEF Mode, Kept, Restored
<1>3. CASE Up
  <2>1. LoggedIn(logs) = session
    BY <1>3 DEF IInv, Logged
  <2>2. Kept' \in SUBSET (session \cup {Garbled})
    BY <1>2, <2>1
  <2> QED BY <1>1, <1>2, <1>3, <2>2, ModeUp DEF Store!Crash, Kept, Restored
<1>4. CASE ~Up
  <2>1. Kept = LoggedIn(logs) \cup restored
    BY <1>4, ModeUp DEF Kept
  <2>2. Kept' \in SUBSET Kept
    BY <1>2, <1>4, <2>1 DEF Up
  <2> QED BY <1>1, <1>2, <1>4, <2>2, ModeUp DEF Store!Crash, Kept, Restored
<1> QED BY <1>3, <1>4

LEMMA ImplementStep == IInv /\ [Next]_vars => [Store!Next]_(Store!vars)
<1> SUFFICES ASSUME IInv, [Next]_vars PROVE Store!Next \/ UNCHANGED Store!vars
  OBVIOUS
<1>0. TypeOK /\ Stages /\ Logged
  BY DEF IInv
<1>1. CASE UNCHANGED vars
  <2>1. Mode' = Mode /\ session' = session /\ Kept' = Kept /\ Restored' = Restored
    BY <1>1 DEF Mode, Kept, Restored, vars, files, opening, tableVars, counters, history
  <2> QED BY <2>1, Stutter
<1>2. ASSUME NEW f \in BOOLEAN, Start(f) PROVE Store!Next
  <2>1. /\ phase = "down" /\ phase' \in {"mkdir", "install", "list", "scan"} /\ fresh' = f
        /\ UNCHANGED <<logs, restored, session>>
    BY <1>2 DEF Start, history
  <2>2. Mode = "down" /\ Mode' \in {"starting", "wiping"}
    BY <2>1 DEF Mode
  <2>3. Kept' = Kept /\ Restored' = Restored
    BY <2>1, <2>2 DEF Kept, Restored
  <2>4. Store!Start
    BY <2>1, <2>2, <2>3 DEF Store!Start, Kept, Restored
  <2> QED BY <2>4 DEF Store!Next
<1>3. CASE Refuse
  BY <1>1, <1>3 DEF Refuse
<1>4. CASE ReplayThrows
  <2>1. phase # "down" /\ Die /\ logs' = logs
    BY <1>4 DEF ReplayThrows, files
  <2>2. Store!Crash
    BY <2>1, ImplementCrash
  <2> QED BY <2>2 DEF Store!Next
<1>5. CASE MakeData \/ EndReplay \/ List \/ Install
  <2>1. Mode' = Mode /\ Mode # "up" /\ UNCHANGED <<session, logs, restored>>
    BY <1>5 DEF MakeData, EndReplay, List, Install, Mode, files, opening, history
  <2> QED BY <2>1, OpeningStutter
<1>6. CASE Scan
  <2>1. /\ Mode' = Mode /\ Mode # "up" /\ UNCHANGED <<session, restored>>
        /\ logs' = [r \in {q \in DOMAIN logs : logs[q] # <<>>} |-> logs[r]]
    BY <1>6 DEF Scan, Keep, Mode, opening, history
  <2>2. ASSUME NEW w \in LoggedIn(logs) PROVE w \in LoggedIn(logs')
    <3>1. PICK r \in DOMAIN logs : \E i \in DOMAIN logs[r] : logs[r][i].w = w
      BY LoggedInMembers
    <3>2. r \in DOMAIN logs' /\ logs'[r] = logs[r]
      BY <2>1, <3>1, Empty
    <3> QED BY <3>1, <3>2, LoggedInMembers
  <2>3. \A w \in LoggedIn(logs') : w \in LoggedIn(logs)
    BY <2>1, LoggedInMembers
  <2>4. LoggedIn(logs') = LoggedIn(logs)
    BY <2>2, <2>3
  <2> QED BY <2>1, <2>4, OpeningStutter
<1>7. CASE Truncate
  <2>1. /\ phase = "truncate" /\ phase' \in {"truncate", "open"}
        /\ UNCHANGED <<session, restored, fresh>>
    BY <1>7 DEF Truncate, history
  <2>2. LoggedIn(logs') \subseteq LoggedIn(logs)
    BY <1>0, <1>7, TruncateLogged
  <2>3. Mode = (IF fresh THEN "wiping" ELSE "starting") /\ Kept = LoggedIn(logs) \cup restored
        /\ Restored = {}
    BY <2>1 DEF Mode, Kept, Restored
  <2>4. CASE phase' = "truncate"
    <3>1. Mode' = Mode /\ Kept' = LoggedIn(logs') \cup restored /\ Restored' = {}
      BY <2>1, <2>4 DEF Mode, Kept, Restored
    <3>2. CASE fresh
      <4>1. Kept' \in SUBSET Kept /\ Mode = "wiping"
        BY <2>2, <2>3, <3>1, <3>2
      <4>2. Store!Wipe
        BY <2>1, <2>3, <3>1, <4>1 DEF Store!Wipe, Kept, Restored
      <4> QED BY <4>2 DEF Store!Next
    <3>3. CASE ~fresh
      <4>1. LoggedIn(logs) = {} /\ LoggedIn(logs') = {}
        BY <1>0, <2>1, <2>2, <3>3 DEF Logged
      <4> QED BY <2>1, <2>3, <3>1, <4>1, Stutter
    <3> QED BY <3>2, <3>3
  <2>5. CASE phase' = "open"
    <3>1. Mode' = "up" /\ Kept' = {} /\ Restored' = restored
      BY <2>1, <2>5 DEF Mode, Kept, Restored
    <3>2. restored = IF Mode = "starting" THEN Kept ELSE {}
      <4>1. CASE fresh
        BY <1>0, <2>3, <4>1 DEF Stages
      <4>2. CASE ~fresh
        <5>1. LoggedIn(logs) = {}
          BY <1>0, <2>1, <4>2 DEF Logged
        <5> QED BY <2>3, <4>2, <5>1
      <4> QED BY <4>1, <4>2
    <3>3. Mode \in {"starting", "wiping"}
      BY <2>3
    <3>4. Store!Serve
      BY <2>1, <3>1, <3>2, <3>3 DEF Store!Serve, Kept, Restored
    <3> QED BY <3>4 DEF Store!Next
  <2> QED BY <2>1, <2>4, <2>5
<1>8. ASSUME NEW s \in Shards, s \in DOMAIN unread, Replay(s) PROVE UNCHANGED Store!vars
  <2>1. Mode' = Mode /\ Mode # "up" /\ session' = session /\ logs' = logs
    BY <1>8 DEF Replay, Mode, files, opening
  <2>2. restored' = restored \cup {unread[s][1].w} /\ unread[s][1].w \in LoggedIn(logs) \cup restored
    BY <1>0, <1>8, ReplayLogged
  <2>3. LoggedIn(logs') \cup restored' = LoggedIn(logs) \cup restored
    BY <2>1, <2>2
  <2> QED BY <2>1, <2>3, OpeningStutter
<1>9. ASSUME NEW s \in Shards, s \in DOMAIN unread, RemoveLog(s) PROVE UNCHANGED Store!vars
  <2>1. Mode' = Mode /\ Mode # "up" /\ UNCHANGED <<session, restored>>
    BY <1>9 DEF RemoveLog, Mode, opening, history
  <2>2. /\ LoggedIn(logs) \subseteq LoggedIn(logs') \cup restored
        /\ LoggedIn(logs') \subseteq LoggedIn(logs)
    BY <1>0, <1>9, RemoveLogged
  <2>3. LoggedIn(logs') \cup restored' = LoggedIn(logs) \cup restored
    BY <2>1, <2>2
  <2> QED BY <2>1, <2>3, OpeningStutter
<1>10. ASSUME NEW s \in Shards, Put(s) PROVE Store!Next
  <2>1. /\ phase = "open" /\ phase' = "open" /\ writes < MaxWrites /\ writes' = writes + 1
        /\ session' = session \cup {writes'} /\ restored' = restored
    BY <1>10 DEF Put
  <2>2. Mode = "up" /\ Mode' = "up" /\ Kept' = Kept /\ Restored' = Restored /\ Restored = restored
    BY <2>1 DEF Mode, Kept, Restored
  <2>3. writes \in Nat /\ writes' \in Writes /\ writes' # Garbled
    BY <1>0, <2>1, RecoveryAssumption DEF TypeOK, Writes
  <2>4. \A w \in session \cup restored : w = Garbled \/ w \in 1 .. writes
    BY <1>0, <2>1 DEF Logged, Up
  <2>5. writes' \notin 1 .. writes
    BY <2>1, <2>3
  <2>6. writes' \notin session \cup restored
    BY <2>3, <2>4, <2>5
  <2>7. Store!Put(writes')
    BY <2>1, <2>2, <2>6 DEF Store!Put, Kept, Restored
  <2> QED BY <2>3, <2>7 DEF Store!Next
<1>11. CASE Flush
  <2>1. UNCHANGED <<phase, fresh, logs, restored, session>>
    BY <1>11 DEF Flush, opening, history
  <2>2. Mode' = Mode /\ session' = session /\ Kept' = Kept /\ Restored' = Restored
    BY <2>1 DEF Mode, Kept, Restored
  <2> QED BY <2>2, Stutter
<1>12. CASE CloseLogs
  <2>1. phase = "open" /\ phase' = "closing" /\ UNCHANGED <<logs, restored, session>>
    BY <1>12 DEF CloseLogs, files, history
  <2>2. Mode' = Mode /\ session' = session /\ Kept' = Kept /\ Restored' = Restored
    BY <2>1 DEF Mode, Kept, Restored
  <2> QED BY <2>2, Stutter
<1>13. CASE Closed
  <2>1. phase = "closing" /\ phase' = "down" /\ logs' = logs /\ session' = {} /\ restored' = {}
    BY <1>13 DEF Closed, Die, files
  <2>2. LoggedIn(logs) = session
    BY <1>0, <2>1 DEF Logged, Up
  <2>3. Mode = "up" /\ Mode' = "down" /\ Kept' = session /\ Restored' = {}
    BY <2>1, <2>2 DEF Mode, Kept, Restored
  <2>4. Store!Close
    BY <2>1, <2>3 DEF Store!Close, Kept, Restored
  <2> QED BY <2>4 DEF Store!Next
<1>14. CASE Crash
  <2>1. Die /\ phase # "down"
    BY <1>14 DEF Crash
  <2>2. LoggedIn(logs') \subseteq LoggedIn(logs) \cup (IF phase = "open" THEN {Garbled} ELSE {})
    BY <1>0, <1>14, CrashLogged, CrashCuts
  <2>3. Store!Crash
    BY <2>1, <2>2, ImplementCrash
  <2> QED BY <2>3 DEF Store!Next
<1> QED BY <1>1, <1>2, <1>3, <1>4, <1>5, <1>6, <1>7, <1>8, <1>9, <1>10, <1>11, <1>12,
           <1>13, <1>14 DEF Next, Opening

\* Opening, closing and crashing keep the contract of SessionStore: a restart
\* finds what the last session left and nothing of an earlier one.
THEOREM ContractCorrect == Spec => Contract
<1>1. Init => Store!Init
  BY ImplementInit
<1>2. IInv /\ [Next]_vars => [Store!Next]_(Store!vars)
  BY ImplementStep
<1> QED BY <1>1, <1>2, Invariance, PTL DEF Spec, Contract, Store!Spec
=============================================================================
