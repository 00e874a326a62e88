-------------------------- MODULE ClientViewProofs --------------------------
(***************************************************************************)
(* What a window shows once nothing is on its way, for any number of       *)
(* messages, conversations and sessions.  A message is followed along its  *)
(* way to the view (ToBeShown) and to the count of its row (ToBeCounted):  *)
(* a step takes it off its way by putting it where it belongs, by reading  *)
(* it, or by ending the session.                                           *)
(***************************************************************************)
EXTENDS ClientView, Functions, SequenceTheorems, FiniteSetTheorems, TLAPS

(* Sequences by what they hold.                                             *)

LEMMA RangeOfEmpty == Range(<<>>) = {}
  BY DEF Range

\* A sequence of numbers is one of the numbers it has.
LEMMA RangeWithin ==
    ASSUME NEW T, NEW q \in Seq(T), NEW S, Range(q) \subseteq S
    PROVE  q \in Seq(S)
  BY SeqOfRange, SeqMonotonic

\* An item appended is the only one that is new.
LEMMA RangeOfAppend ==
    ASSUME NEW T, NEW q \in Seq(T), NEW e \in T
    PROVE  Append(q, e) \in Seq(T) /\ Range(Append(q, e)) = Range(q) \cup {e}
  <1>1. Append(q, e) = q \o <<e>> /\ Append(q, e) \in Seq(T)
    BY AppendIsConcat, AppendProperties
  <1>2. <<e>> \in Seq(T) /\ Range(<<e>>) = {e}
    <2>1. \A r : r = <<e>> => DOMAIN r = {1} /\ r[1] = e
      OBVIOUS
    <2> QED BY <2>1 DEF Range
  <1>3. Range(q \o <<e>>) = Range(q) \cup Range(<<e>>)
    <2> DEFINE r == <<e>>
    <2>1. r \in Seq(T)
      BY <1>2
    <2> HIDE DEF r
    <2>2. Range(q \o r) = Range(q) \cup Range(r)
      BY <2>1, RangeConcatenation
    <2> QED BY <2>2 DEF r
  <1> QED BY <1>1, <1>2, <1>3

\* The head taken off is the only item that is lost.
LEMMA RangeOfTail ==
    ASSUME NEW T, NEW q \in Seq(T), q # <<>>
    PROVE  /\ Head(q) \in T /\ Tail(q) \in Seq(T)
           /\ Range(q) = Range(Tail(q)) \cup {Head(q)}
  <1> DEFINE r == Tail(q)
  <1>1. /\ Head(q) \in T /\ r \in Seq(T) /\ Len(r) = Len(q) - 1
        /\ Len(q) \in Nat \ {0}
    BY HeadTailProperties, EmptySeq
  <1>2. Head(q) = q[1] /\ \A k \in 1 .. Len(q) - 1 : r[k] = q[k + 1]
    BY <1>1
  <1>3. Range(r) = {r[k] : k \in 1 .. Len(q) - 1} /\ Range(q) = {q[k] : k \in 1 .. Len(q)}
    <2>1. Range(r) = {r[k] : k \in 1 .. Len(r)}
      BY <1>1, RangeEquality
    <2> QED BY <1>1, <2>1, RangeEquality
  <1> HIDE DEF r
  <1>4. Range(r) \cup {Head(q)} \subseteq Range(q)
    <2>1. ASSUME NEW k \in 1 .. Len(q) - 1 PROVE r[k] \in Range(q)
      <3>1. k + 1 \in 1 .. Len(q)
        BY <1>1
      <3> QED BY <1>2, <1>3, <3>1
    <2>2. q[1] \in Range(q)
      BY <1>1, <1>3
    <2> QED BY <1>2, <1>3, <2>1, <2>2
  <1>5. ASSUME NEW k \in 1 .. Len(q) PROVE q[k] \in Range(r) \cup {Head(q)}
    <2>1. CASE k = 1
      BY <1>2, <2>1
    <2>2. CASE k # 1
      <3>1. k - 1 \in 1 .. Len(q) - 1 /\ (k - 1) + 1 = k
        BY <1>1, <2>2
      <3>2. q[k] = r[k - 1]
        BY <1>2, <3>1
      <3> QED BY <1>3, <3>1, <3>2
    <2> QED BY <2>1, <2>2
  <1>6. Range(q) = Range(r) \cup {Head(q)}
    BY <1>3, <1>4, <1>5
  <1> QED BY <1>1, <1>6 DEF r

\* A row is taken out: what is in the others stays.
LEMMA RangeOfRest ==
    ASSUME NEW q \in Seq(Nat), NEW row \in 1 .. Len(q), NEW r,
           r = [k \in 1 .. Len(q) - 1 |-> IF k < row THEN q[k] ELSE q[k + 1]]
    PROVE  /\ r \in Seq(Nat)
           /\ Range(r) \subseteq Range(q) /\ Range(q) \subseteq Range(r) \cup {q[row]}
  <1>1. Len(q) \in Nat /\ Range(q) = {q[k] : k \in 1 .. Len(q)}
    BY RangeEquality, LenProperties
  <1>2. Len(q) - 1 \in Nat
    BY <1>1
  <1>3. \A k \in 1 .. Len(q) - 1 : k \in 1 .. Len(q) /\ k + 1 \in 1 .. Len(q)
    BY <1>1
  <1>4. \A k \in 1 .. Len(q) : q[k] \in Nat
    BY ElementOfSeq
  <1>5. DOMAIN r = 1 .. Len(q) - 1
        /\ \A k \in 1 .. Len(q) - 1 : r[k] = IF k < row THEN q[k] ELSE q[k + 1]
    OBVIOUS
  <1>6. r \in [1 .. Len(q) - 1 -> Nat]
    <2>1. \A k \in 1 .. Len(q) - 1 : (IF k < row THEN q[k] ELSE q[k + 1]) \in Nat
      BY <1>3, <1>4
    <2> QED BY <2>1
  <1>7. r \in Seq(Nat)
    BY <1>2, <1>6, SeqDef
  <1>8. Range(r) = {r[k] : k \in 1 .. Len(q) - 1}
    BY <1>5 DEF Range
  <1>9. Range(r) \subseteq Range(q)
    BY <1>1, <1>3, <1>5, <1>8
  <1>10. ASSUME NEW k \in 1 .. Len(q), k # row PROVE q[k] \in Range(r)
    <2>1. CASE k < row
      <3>1. k \in 1 .. Len(q) - 1
        BY <1>1, <2>1
      <3>2. r[k] = q[k]
        BY <1>5, <2>1, <3>1
      <3> QED BY <1>8, <3>1, <3>2
    <2>2. CASE ~(k < row)
      <3>1. k - 1 \in 1 .. Len(q) - 1 /\ ~(k - 1 < row) /\ (k - 1) + 1 = k
        BY <1>1, <1>10, <2>2
      <3>2. r[k - 1] = q[k]
        BY <1>5, <3>1
      <3> QED BY <1>8, <3>1, <3>2
    <2> QED BY <2>1, <2>2
  <1> QED BY <1>1, <1>7, <1>9, <1>10

-----------------------------------------------------------------------------
(* The members of a set of numbers in their order.                          *)

Below(S, i) == Cardinality({j \in S : j < i})

\* The members of a set below one of them: fewer than the set has, and more for a
\* larger one.
LEMMA BelowIsLess ==
    ASSUME NEW S \in SUBSET Nat, IsFiniteSet(S), NEW i \in S
    PROVE  /\ Below(S, i) \in Nat /\ Below(S, i) + 1 \in 1 .. Cardinality(S)
           /\ \A j \in S : j < i => Below(S, j) < Below(S, i)
  <1>1. ASSUME NEW A \in SUBSET S, NEW B \in SUBSET S, A \subseteq B, NEW x \in B, x \notin A
        PROVE  /\ Cardinality(A) \in Nat /\ Cardinality(B) \in Nat
               /\ Cardinality(A) < Cardinality(B)
    <2>1. IsFiniteSet(A) /\ IsFiniteSet(B)
      BY FS_Subset
    <2>2. Cardinality(A) \in Nat /\ Cardinality(B) \in Nat
      BY <2>1, FS_CardinalityType
    <2>3. Cardinality(A) <= Cardinality(B) /\ (Cardinality(B) = Cardinality(A) => B = A)
      <3>1. A \in SUBSET B
        BY <1>1
      <3> QED BY <2>1, <3>1, FS_Subset
    <2>4. A # B
      BY <1>1
    <2> QED BY <2>2, <2>3, <2>4
  <1> DEFINE Lower(j) == {l \in S : l < j}
  <1>2. Lower(i) \in SUBSET S /\ i \notin Lower(i) /\ S \in SUBSET S
    OBVIOUS
  <1>3. /\ Cardinality(Lower(i)) \in Nat /\ Cardinality(S) \in Nat
        /\ Cardinality(Lower(i)) < Cardinality(S)
    <2> HIDE DEF Lower
    <2> QED BY <1>1, <1>2
  <1>4. ASSUME NEW j \in S, j < i PROVE Cardinality(Lower(j)) < Cardinality(Lower(i))
    <2>1. /\ Lower(j) \in SUBSET S /\ Lower(i) \in SUBSET S /\ Lower(j) \subseteq Lower(i)
          /\ j \in Lower(i) /\ j \notin Lower(j)
      <3>1. \A l \in S : l < j => l < i
        BY <1>4
      <3>2. j < i /\ ~(j < j)
        BY <1>4
      <3> QED BY <3>1, <3>2
    <2> HIDE DEF Lower
    <2> QED BY <1>1, <2>1
  <1>5. Cardinality(Lower(i)) + 1 \in 1 .. Cardinality(S)
    <2> DEFINE a == Cardinality(Lower(i))
               b == Cardinality(S)
    <2>1. a \in Nat /\ b \in Nat /\ a < b
      BY <1>3
    <2> HIDE DEF a, b
    <2>2. a + 1 \in 1 .. b
      BY <2>1
    <2> QED BY <2>2 DEF a, b
  <1>6. \A j : Below(S, j) = Cardinality(Lower(j))
    BY DEF Below
  <1> HIDE DEF Lower
  <1>7. Below(S, i) \in Nat /\ Below(S, i) + 1 \in 1 .. Cardinality(S)
    BY <1>3, <1>5, <1>6
  <1>8. \A j \in S : j < i => Below(S, j) < Below(S, i)
    BY <1>4, <1>6
  <1> QED BY <1>7, <1>8

\* Every place of SeqOf(S) has a member of S, and every member a place.
LEMMA SeqOfHolds ==
    ASSUME NEW S \in SUBSET Nat, IsFiniteSet(S)
    PROVE  SeqOf(S) \in Seq(Nat) /\ Range(SeqOf(S)) = S
  <1> DEFINE n == Cardinality(S)
             f == [i \in S |-> Below(S, i) + 1]
  <1>1. n \in Nat
    BY FS_CardinalityType
  <1>2. f \in [S -> 1 .. n]
    BY BelowIsLess
  <1>3. ASSUME NEW i \in S, NEW j \in S, Below(S, i) = Below(S, j) PROVE i = j
    <2>1. ~(i < j) /\ ~(j < i)
      <3>1. Below(S, i) \in Nat /\ Below(S, j) \in Nat
        BY BelowIsLess
      <3>2. i < j => Below(S, i) < Below(S, j)
        BY BelowIsLess
      <3>3. j < i => Below(S, j) < Below(S, i)
        BY BelowIsLess
      <3> QED BY <1>3, <3>1, <3>2, <3>3
    <2> QED BY <2>1
  <1>4. f \in Injection(S, 1 .. n)
    <2>1. \A i, j \in S : f[i] = f[j] => i = j
      <3> SUFFICES ASSUME NEW i \in S, NEW j \in S, f[i] = f[j] PROVE i = j
        OBVIOUS
      <3>1. Below(S, i) \in Nat /\ Below(S, j) \in Nat
        BY BelowIsLess
      <3>2. Below(S, i) + 1 = Below(S, j) + 1
        OBVIOUS
      <3>3. Below(S, i) = Below(S, j)
        BY <3>1, <3>2
      <3> QED BY <1>3, <3>3
    <2> HIDE DEF f
    <2> QED BY <1>2, <2>1 DEF Injection, IsInjective
  <1>5. IsFiniteSet(1 .. n) /\ Cardinality(1 .. n) = n
    <2>1. Cardinality(1 .. n) = IF 1 > n THEN 0 ELSE n - 1 + 1
      BY <1>1, FS_Interval
    <2>2. IsFiniteSet(1 .. n)
      BY <1>1, FS_Interval
    <2> HIDE DEF n
    <2> QED BY <1>1, <2>1, <2>2
  <1>6. f \in Surjection(S, 1 .. n)
    <2> HIDE DEF f
    <2> QED BY <1>4, <1>5, FS_Injection DEF n
  <1>7. \A k \in 1 .. n : \E i \in S : Below(S, i) + 1 = k
    <2>1. \A k \in 1 .. n : \E i \in S : f[i] = k
      <3> HIDE DEF f, n
      <3> QED BY <1>6 DEF Surjection
    <2> QED BY <2>1
  <1>8. \A k \in 1 .. n : \E i \in S : Below(S, i) = k - 1
    <2> SUFFICES ASSUME NEW k \in 1 .. n PROVE \E i \in S : Below(S, i) = k - 1
      OBVIOUS
    <2>1. PICK i \in S : Below(S, i) + 1 = k
      BY <1>7
    <2>2. Below(S, i) \in Nat
      BY BelowIsLess
    <2> QED BY <2>1, <2>2
  <1> DEFINE q == SeqOf(S)
             At(k) == CHOOSE i \in S : Below(S, i) = k - 1
  <1>9. q = [k \in 1 .. n |-> At(k)]
    BY DEF SeqOf, Below
  <1>10. \A k \in 1 .. n : At(k) \in S /\ Below(S, At(k)) = k - 1
    <2> HIDE DEF n
    <2> QED BY <1>8
  <1>11. \A i \in S : Below(S, i) + 1 \in 1 .. n /\ At(Below(S, i) + 1) = i
    <2> SUFFICES ASSUME NEW i \in S
                 PROVE  Below(S, i) + 1 \in 1 .. n /\ At(Below(S, i) + 1) = i
      OBVIOUS
    <2>1. Below(S, i) \in Nat /\ Below(S, i) + 1 \in 1 .. n
      BY BelowIsLess
    <2> DEFINE k == Below(S, i) + 1
    <2>2. k - 1 = Below(S, i) /\ k \in 1 .. n
      BY <2>1
    <2>3. At(k) \in S /\ Below(S, At(k)) = k - 1
      <3> HIDE DEF k, At, n
      <3> QED BY <1>10, <2>2
    <2>4. At(k) = i
      <3> HIDE DEF k, At, n
      <3> QED BY <1>3, <2>2, <2>3
    <2> QED BY <2>1, <2>4
  <1> HIDE DEF q, At, n, f
  <1>12. DOMAIN q = 1 .. n /\ \A k \in 1 .. n : q[k] = At(k)
    BY <1>9
  <1>13. q \in [1 .. n -> Nat]
    BY <1>9, <1>10
  <1>14. q \in Seq(Nat)
    BY <1>1, <1>13, SeqDef
  <1>15. Range(q) \subseteq S
    BY <1>10, <1>12 DEF Range
  <1>16. ASSUME NEW i \in S PROVE i \in Range(q)
    <2>1. Below(S, i) + 1 \in DOMAIN q /\ q[Below(S, i) + 1] = i
      BY <1>11, <1>12
    <2> QED BY <2>1 DEF Range
  <1>17. Range(q) = S
    BY <1>15, <1>16
  <1> QED BY <1>14, <1>17 DEF q

-----------------------------------------------------------------------------
(* The types, and what else they rest on.                                   *)

MessageRow == [conversation : Conversations, own : BOOLEAN]
EventRow == [kind : {"message", "unread", "read"},
             conversation : Conversations \cup {NoConversation}, ids : SUBSET Nat]
ObjectRow == [conversation : Conversations, unread : SUBSET Nat]

FromOther(i) == ~messages[i].own
ConversationOf(i) == messages[i].conversation
Asking == gui \in {"fetch", "mark", "show"}

\* An event about one message, and one about messages that were read.
OfMessage(e) == \E i \in Ids : e.ids = {i} /\ e.conversation = ConversationOf(i)
OfRead(e) == \A i \in e.ids : i \in Ids /\ (FromOther(i) => i \in isRead)
EventOk(e) == (e.kind = "read" /\ OfRead(e)) \/ (e.kind # "read" /\ OfMessage(e))

\* A conversation that is not created has no messages.
ServerInv ==
    /\ messages \in Seq(MessageRow)
    /\ isRead \subseteq Ids /\ deleted \subseteq Ids
    /\ unsent \subseteq Ids /\ missed \subseteq Ids
    /\ alive \subseteq Conversations \ unused /\ unused \subseteq Conversations
    /\ \A i \in Ids : ConversationOf(i) \notin unused

\* The calls that the server has for the user's streams.
CallsInv ==
    /\ pending \subseteq Streams /\ writers \subseteq Streams
    /\ ending \in [Streams -> Nat]

\* The server says of no message that it was read before it is.
StreamInv ==
    /\ CallsInv
    /\ stream \in Seq(Nat) /\ Range(stream) \subseteq Ids
    /\ readStream \in Seq(EventRow)
    /\ \A e \in Range(readStream) : e.kind = "read" /\ OfRead(e)

\* Only what others wrote is compared or marked read by the callback.
EventInv ==
    /\ posted \in Seq(EventRow) /\ \A e \in Range(posted) : EventOk(e)
    /\ reader \in [at : {"idle", "compare", "read", "show"}, id : Nat, object : Nat]
    /\ reader.at # "idle" => reader.id \in Ids
    /\ reader.at \in {"compare", "read"} => FromOther(reader.id)

\* An answer is for the conversation that is open.
SessionInv ==
    /\ signedIn \in BOOLEAN /\ sessions \in 0 .. MaxSessions
    /\ objects \in Seq(ObjectRow)
    /\ \A o \in Range(objects) : o.unread \subseteq Ids /\ o.conversation \notin unused
    /\ gui \in {"idle", "list", "fetch", "mark", "show", "send"}
    /\ Asking => signedIn /\ objects # <<>>
    /\ fetched \in Seq(Nat) /\ Range(fetched) \subseteq Ids
    /\ gui \in {"mark", "show"} => \A i \in Range(fetched) : ConversationOf(i) = Open

ShownInv ==
    /\ DOMAIN list \subseteq Conversations \ unused
    /\ \A c \in DOMAIN list : list[c] \subseteq Ids
    /\ view \in [conversation : Conversations \cup {NoConversation}, ids : Seq(Nat)]
    /\ \A i \in Range(view.ids) : i \in Ids /\ ConversationOf(i) = view.conversation

\* Only messages are overlooked.
HistoryInv == overlooked \subseteq Ids

RangeInv == ServerInv /\ StreamInv /\ EventInv /\ SessionInv /\ ShownInv

\* Messages are numbered from 1.
LEMMA IdsAreNumbers ==
    ASSUME ServerInv
    PROVE  /\ Len(messages) \in Nat /\ Ids = 1 .. Len(messages) /\ Ids \subseteq Nat
           /\ \A i \in Ids : messages[i] \in MessageRow
  <1>1. Len(messages) \in Nat /\ DOMAIN messages = 1 .. Len(messages)
    BY LenProperties DEF ServerInv
  <1>2. \A i \in 1 .. Len(messages) : messages[i] \in MessageRow
    BY ElementOfSeq DEF ServerInv
  <1>3. 1 .. Len(messages) \subseteq Nat
    BY <1>1
  <1> QED BY <1>1, <1>2, <1>3 DEF Ids

LEMMA RangeImpliesTypes ==
    ASSUME RangeInv, HistoryInv
    PROVE  TypeOK
  <1>1. stream \in Seq(Ids) /\ fetched \in Seq(Ids)
    BY RangeWithin DEF RangeInv, StreamInv, SessionInv
  <1>2. /\ view.ids \in Seq(Ids) /\ view.conversation \in Conversations \cup {NoConversation}
        /\ \A k \in DOMAIN view.ids : ConversationOf(view.ids[k]) = view.conversation
    <2>1. view.ids \in Seq(Nat) /\ view.conversation \in Conversations \cup {NoConversation}
      BY DEF RangeInv, ShownInv
    <2>2. Range(view.ids) \subseteq Ids
      BY DEF RangeInv, ShownInv
    <2>3. \A k \in DOMAIN view.ids : view.ids[k] \in Range(view.ids)
      BY DEF Range
    <2>4. \A i \in Range(view.ids) : ConversationOf(i) = view.conversation
      BY DEF RangeInv, ShownInv
    <2> QED BY <2>1, <2>2, <2>3, <2>4, RangeWithin
  <1>3. objects \in Seq([conversation : Conversations, unread : SUBSET Ids])
    <2>1. objects \in Seq(ObjectRow) /\ Range(objects) \subseteq ObjectRow
      BY RangeOfSeq DEF RangeInv, SessionInv
    <2>2. \A o \in Range(objects) : o \in [conversation : Conversations, unread : SUBSET Ids]
      <3> SUFFICES ASSUME NEW o \in Range(objects)
                   PROVE  o \in [conversation : Conversations, unread : SUBSET Ids]
        OBVIOUS
      <3>1. o \in ObjectRow /\ o.unread \subseteq Ids
        BY <2>1 DEF RangeInv, SessionInv
      <3> QED BY <3>1 DEF ObjectRow
    <2> QED BY <2>1, <2>2, RangeWithin
  <1>4. messages \in Seq([conversation : Conversations, own : BOOLEAN])
    BY DEF RangeInv, ServerInv, MessageRow
  <1>5. /\ signedIn \in BOOLEAN /\ sessions \in 0 .. MaxSessions
        /\ gui \in {"idle", "list", "fetch", "mark", "show", "send"}
    BY DEF RangeInv, SessionInv
  <1>6. /\ pending \subseteq Streams /\ writers \subseteq Streams
        /\ ending \in [Streams -> Nat]
        /\ reader.at \in {"idle", "compare", "read", "show"}
    BY DEF RangeInv, StreamInv, CallsInv, EventInv
  <1>7. /\ isRead \subseteq Ids /\ deleted \subseteq Ids
        /\ unsent \subseteq Ids /\ missed \subseteq Ids /\ overlooked \subseteq Ids
        /\ alive \subseteq Conversations \ unused /\ unused \subseteq Conversations
    BY DEF RangeInv, ServerInv, HistoryInv
  <1>8. DOMAIN list \subseteq Conversations /\ \A c \in DOMAIN list : list[c] \subseteq Ids
    BY DEF RangeInv, ShownInv
  <1> HIDE DEF RangeInv
  <1> QED BY <1>1, <1>2, <1>3, <1>4, <1>5, <1>6, <1>7, <1>8 DEF TypeOK, ConversationOf

\* At the start there are no messages, and nothing is shown.
LEMMA InitRange ==
    ASSUME Init
    PROVE  RangeInv
  <1>1. ServerInv
    <2>1. messages = <<>> /\ Ids = {} /\ messages \in Seq(MessageRow)
      BY DEF Init, Ids
    <2> QED BY <2>1 DEF Init, ServerInv
  <1>2. StreamInv
    BY RangeOfEmpty DEF Init, StreamInv, CallsInv
  <1>3. EventInv
    BY RangeOfEmpty DEF Init, EventInv, Idle
  <1>4. SessionInv
    <2>1. signedIn \in BOOLEAN /\ sessions \in 0 .. MaxSessions /\ gui = "idle" /\ ~Asking
      <3>1. 0 \in 0 .. MaxSessions
        BY ViewAssumption
      <3>2. signedIn = FALSE /\ sessions = 0 /\ gui = "idle"
        BY DEF Init
      <3> QED BY <3>1, <3>2 DEF Asking
    <2>2. objects \in Seq(ObjectRow) /\ fetched \in Seq(Nat)
      BY DEF Init
    <2>3. Range(objects) = {} /\ Range(fetched) = {}
      BY RangeOfEmpty DEF Init
    <2> QED BY <2>1, <2>2, <2>3 DEF SessionInv
  <1>5. ShownInv
    <2>1. view \in [conversation : Conversations \cup {NoConversation}, ids : Seq(Nat)]
      BY DEF Init
    <2>2. Range(view.ids) = {}
      BY RangeOfEmpty DEF Init
    <2>3. DOMAIN list = {}
      BY DEF Init
    <2> QED BY <2>1, <2>2, <2>3 DEF ShownInv
  <1> QED BY <1>1, <1>2, <1>3, <1>4, <1>5 DEF RangeInv

-----------------------------------------------------------------------------
(* What a step does to the server, and to what it leaves alone.             *)

\* The server keeps its messages, and what was read or deleted.
Grows ==
    /\ Ids \subseteq Ids' /\ \A i \in Ids : messages'[i] = messages[i]
    /\ isRead \subseteq isRead' /\ deleted \subseteq deleted'
    /\ unused' \subseteq unused

\* A new message has yet to be written to the stream.
NewIsUnsent == \A i \in Ids' \ Ids : i \in unsent'

ServerSame == UNCHANGED <<messages, isRead, deleted, alive, unused, unsent, missed>>
StreamSame == UNCHANGED <<pending, writers, ending, stream, readStream>>
EventSame == UNCHANGED <<posted, reader>>
SessionSame == UNCHANGED <<signedIn, sessions, objects, gui, fetched>>
ShownSame == UNCHANGED <<list, view>>

\* A step that leaves a part alone keeps what is said of it.
LEMMA ServerKept ==
    ASSUME ServerInv, ServerSame
    PROVE  ServerInv' /\ Grows /\ NewIsUnsent
  BY DEF ServerInv, ServerSame, Grows, NewIsUnsent, Ids, ConversationOf

\* What was read stays read, and a message keeps its conversation.
LEMMA EventKept ==
    ASSUME Grows, NEW e
    PROVE  (OfRead(e) => OfRead(e)') /\ (EventOk(e) => EventOk(e)')
  BY DEF Grows, OfRead, EventOk, OfMessage, FromOther, ConversationOf

LEMMA StreamKept ==
    ASSUME StreamInv, Grows, StreamSame
    PROVE  StreamInv'
  <1>1. \A e \in Range(readStream) : e.kind = "read" /\ OfRead(e)'
    BY EventKept DEF StreamInv
  <1>2. Range(stream) \subseteq Ids'
    BY DEF StreamInv, Grows
  <1> QED BY <1>1, <1>2 DEF StreamInv, CallsInv, StreamSame

LEMMA EventsKept ==
    ASSUME EventInv, Grows, EventSame
    PROVE  EventInv'
  <1>1. \A e \in Range(posted) : EventOk(e)'
    BY EventKept DEF EventInv
  <1>2. /\ reader.at # "idle" => reader.id \in Ids'
        /\ reader.at \in {"compare", "read"} => FromOther(reader.id)'
    BY DEF EventInv, Grows, EventSame, FromOther
  <1> QED BY <1>1, <1>2 DEF EventInv, EventSame

LEMMA SessionKept ==
    ASSUME SessionInv, Grows, SessionSame
    PROVE  SessionInv'
  <1>1. \A o \in Range(objects) : o.unread \subseteq Ids' /\ o.conversation \notin unused'
    BY DEF SessionInv, Grows
  <1>2. Range(fetched) \subseteq Ids'
    BY DEF SessionInv, Grows
  <1>3. Open' = Open
    BY DEF SessionSame, Open
  <1>4. gui \in {"mark", "show"} => \A i \in Range(fetched) : ConversationOf(i)' = Open'
    BY <1>3 DEF SessionInv, Grows, ConversationOf
  <1> QED BY <1>1, <1>2, <1>4 DEF SessionInv, SessionSame, Asking

LEMMA ShownKept ==
    ASSUME ShownInv, Grows, ShownSame
    PROVE  ShownInv'
  <1>1. \A c \in DOMAIN list : list[c] \subseteq Ids'
    BY DEF ShownInv, Grows
  <1>2. \A i \in Range(view.ids) : i \in Ids' /\ ConversationOf(i)' = view.conversation
    BY DEF ShownInv, Grows, ConversationOf
  <1>3. DOMAIN list \subseteq Conversations \ unused'
    BY DEF ShownInv, Grows
  <1> QED BY <1>1, <1>2, <1>3 DEF ShownInv, ShownSame

\* A message is stored: it is the last one, and it is unsent.
LEMMA StoreServer ==
    ASSUME ServerInv, NEW c \in Conversations \ unused, NEW own \in BOOLEAN, Store(c, own)
    PROVE  ServerInv' /\ Grows /\ NewIsUnsent /\ StreamSame
  <1> DEFINE m == [conversation |-> c, own |-> own]
             n == Len(messages) + 1
  <1>1. m \in MessageRow /\ m.conversation = c
    BY DEF MessageRow
  <1>2. /\ Ids = 1 .. Len(messages) /\ Len(messages) \in Nat /\ messages \in Seq(MessageRow)
    BY IdsAreNumbers DEF ServerInv
  <1>3. messages' = Append(messages, m) /\ unsent' = unsent \cup {n}
        /\ UNCHANGED <<isRead, deleted, alive, unused, missed>> /\ StreamSame
    BY DEF Store, StreamSame
  <1> HIDE DEF m
  <1>4. /\ messages' \in Seq(MessageRow) /\ Len(messages') = n
        /\ \A i \in 1 .. Len(messages) : messages'[i] = messages[i]
        /\ messages'[n] = m
    BY <1>1, <1>2, <1>3, AppendProperties
  <1>5. Ids' = 1 .. n
    BY <1>4, LenProperties DEF Ids
  <1>6. Ids' = Ids \cup {n}
    BY <1>2, <1>5
  <1> HIDE DEF n
  <1>7. Grows /\ NewIsUnsent
    BY <1>2, <1>3, <1>4, <1>6 DEF Grows, NewIsUnsent
  <1>8. \A i \in Ids' : ConversationOf(i)' \notin unused'
    BY <1>1, <1>2, <1>3, <1>4, <1>6 DEF ServerInv, ConversationOf
  <1>9. ServerInv'
    BY <1>3, <1>4, <1>6, <1>8 DEF ServerInv
  <1> QED BY <1>3, <1>7, <1>9

\* A conversation is created.
LEMMA CreateServer ==
    ASSUME ServerInv, NEW c \in unused, unused' = unused \ {c}, alive' = alive \cup {c},
           UNCHANGED <<messages, isRead, deleted, unsent, missed>>
    PROVE  ServerInv' /\ Grows /\ NewIsUnsent
  BY DEF ServerInv, Grows, NewIsUnsent, Ids, ConversationOf

\* Messages are marked read before the stream says so.
LEMMA ReadServer ==
    ASSUME ServerInv, StreamInv, NEW c \in Conversations \cup {NoConversation},
           NEW ids \in SUBSET Ids, MarkRead(c, ids)
    PROVE  /\ ServerInv' /\ Grows /\ NewIsUnsent /\ StreamInv'
           /\ \A i \in ids : FromOther(i) => i \in isRead'
           /\ stream' = stream
  <1>1. ServerInv' /\ Grows /\ NewIsUnsent
    BY DEF MarkRead, ServerInv, Grows, NewIsUnsent, Ids, ConversationOf
  <1>2. \A i \in ids : FromOther(i) => i \in isRead'
    BY DEF MarkRead, FromOther
  <1> DEFINE e == Event("read", c, ids)
  <1>3. e \in EventRow /\ e.kind = "read" /\ e.ids = ids
    BY IdsAreNumbers DEF Event, EventRow
  <1>4. readStream' = readStream \/ readStream' = Append(readStream, e)
    BY DEF MarkRead
  <1>5. /\ stream' = stream /\ messages' = messages
        /\ UNCHANGED <<pending, writers, ending>>
    BY DEF MarkRead
  <1> HIDE DEF e
  <1>6. OfRead(e)'
    BY <1>2, <1>3, <1>5 DEF OfRead, FromOther, Ids
  <1>7. \A x \in Range(readStream) : x.kind = "read" /\ OfRead(x)'
    BY <1>1, EventKept DEF StreamInv
  <1>8. readStream' \in Seq(EventRow) /\ Range(readStream') \subseteq Range(readStream) \cup {e}
    <2>1. readStream \in Seq(EventRow)
      BY DEF StreamInv
    <2>2. /\ Append(readStream, e) \in Seq(EventRow)
          /\ Range(Append(readStream, e)) = Range(readStream) \cup {e}
      BY <1>3, <2>1, RangeOfAppend
    <2> QED BY <1>4, <2>1, <2>2
  <1>9. Range(stream) \subseteq Ids'
    BY <1>1 DEF StreamInv, Grows
  <1>10. StreamInv'
    <2>1. \A x \in Range(readStream') : x.kind = "read" /\ OfRead(x)'
      BY <1>3, <1>6, <1>7, <1>8
    <2> QED BY <1>5, <1>8, <1>9, <2>1 DEF StreamInv, CallsInv
  <1> QED BY <1>1, <1>2, <1>5, <1>10

-----------------------------------------------------------------------------
Steady == RangeInv' /\ Grows /\ NewIsUnsent

\* A step has to be looked at for the parts that it disturbs.
LEMMA PartsKept ==
    ASSUME RangeInv, ServerSame \/ (ServerInv' /\ Grows /\ NewIsUnsent),
           StreamSame \/ StreamInv', EventSame \/ EventInv',
           SessionSame \/ SessionInv', ShownSame \/ ShownInv'
    PROVE  Steady
  <1>1. ServerInv' /\ Grows /\ NewIsUnsent
    BY ServerKept DEF RangeInv
  <1>2. StreamInv' /\ EventInv'
    BY <1>1, StreamKept, EventsKept DEF RangeInv
  <1>3. SessionInv' /\ ShownInv'
    BY <1>1, SessionKept, ShownKept DEF RangeInv
  <1> QED BY <1>1, <1>2, <1>3 DEF RangeInv, Steady

\* The conversation that is open was created, and its object keeps ids the server has.
LEMMA OpenIsCreated ==
    ASSUME SessionInv, objects # <<>>
    PROVE  /\ Open = objects[Len(objects)].conversation /\ Open \in Conversations \ unused
           /\ objects[Len(objects)] \in ObjectRow
           /\ objects[Len(objects)].unread \subseteq Ids
  <1>1. objects \in Seq(ObjectRow) /\ Len(objects) \in 1 .. Len(objects)
    BY EmptySeq DEF SessionInv
  <1>2. objects[Len(objects)] \in ObjectRow /\ objects[Len(objects)] \in Range(objects)
    BY <1>1, ElementOfSeq, RangeEquality
  <1>3. /\ objects[Len(objects)].unread \subseteq Ids
        /\ objects[Len(objects)].conversation \notin unused
    BY <1>2 DEF SessionInv
  <1> QED BY <1>2, <1>3 DEF Open, ObjectRow

LEMMA OpenType ==
    ASSUME SessionInv
    PROVE  Open \in Conversations \cup {NoConversation}
  <1>1. CASE objects = <<>>
    BY <1>1 DEF Open
  <1>2. CASE objects # <<>>
    BY <1>2, OpenIsCreated
  <1> QED BY <1>1, <1>2

\* The server's own steps.
LEMMA PeerSendsRange ==
    ASSUME RangeInv, NEW c \in Conversations, PeerSends(c)
    PROVE  Steady
  <1>1. ServerInv' /\ Grows /\ NewIsUnsent /\ StreamSame
    <2>1. Store(c, FALSE) /\ c \in Conversations \ unused /\ FALSE \in BOOLEAN
      BY DEF PeerSends
    <2> QED BY <2>1, StoreServer DEF RangeInv
  <1>2. EventSame /\ SessionSame /\ ShownSame
    BY DEF PeerSends, EventSame, SessionSame, ShownSame, guiVars, shownVars
  <1> QED BY <1>1, <1>2, PartsKept

\* One lemma for each action, from what it leaves alone and what it changes.
LEMMA PeerCreatesRange ==
    ASSUME RangeInv, NEW c \in Conversations, PeerCreates(c)
    PROVE  Steady
  <1>1. ServerInv' /\ Grows /\ NewIsUnsent
    <2>1. /\ c \in unused /\ unused' = unused \ {c} /\ alive' = alive \cup {c}
          /\ UNCHANGED <<messages, isRead, deleted, unsent, missed>>
      BY DEF PeerCreates, streamVars
    <2> QED BY <2>1, CreateServer DEF RangeInv
  <1>2. StreamSame /\ EventSame /\ SessionSame /\ ShownSame
    BY DEF PeerCreates, StreamSame, EventSame, SessionSame, ShownSame, streamVars,
           guiVars, shownVars
  <1> QED BY <1>1, <1>2, PartsKept

LEMMA NotifyRange ==
    ASSUME RangeInv, NEW i \in unsent, Notify(i)
    PROVE  Steady
  <1>1. i \in Ids /\ i \in Nat
    BY IdsAreNumbers DEF RangeInv, ServerInv
  <1>2. /\ unsent' = unsent \ {i}
        /\ UNCHANGED <<serverVars, pending, writers, ending, readStream>>
        /\ \/ stream' = Append(stream, i) /\ missed' = missed
           \/ missed' = missed \cup {i} /\ stream' = stream
    BY DEF Notify
  <1>3. ServerInv' /\ Grows /\ NewIsUnsent
    <2>1. ServerInv
      BY DEF RangeInv
    <2> QED BY <1>1, <1>2, <2>1
         DEF ServerInv, Grows, NewIsUnsent, Ids, ConversationOf, serverVars
  <1>4. stream' \in Seq(Nat) /\ Range(stream') \subseteq Ids
    <2>1. stream \in Seq(Nat) /\ Range(stream) \subseteq Ids
      BY DEF RangeInv, StreamInv
    <2>2. Append(stream, i) \in Seq(Nat) /\ Range(Append(stream, i)) = Range(stream) \cup {i}
      BY <1>1, <2>1, RangeOfAppend
    <2> QED BY <1>1, <1>2, <2>1, <2>2
  <1>5. StreamInv'
    <2>1. \A e \in Range(readStream) : e.kind = "read" /\ OfRead(e)'
      BY <1>3, EventKept DEF RangeInv, StreamInv
    <2>2. Range(stream') \subseteq Ids'
      BY <1>3, <1>4 DEF Grows
    <2>3. CallsInv /\ readStream \in Seq(EventRow)
      BY DEF RangeInv, StreamInv
    <2> QED BY <1>2, <1>4, <2>1, <2>2, <2>3 DEF StreamInv, CallsInv
  <1>6. EventSame /\ SessionSame /\ ShownSame
    BY DEF Notify, EventSame, SessionSame, ShownSame, guiVars, shownVars
  <1> QED BY <1>3, <1>5, <1>6, PartsKept

\* A call begins or ends, and nothing else.
LEMMA CallsRange ==
    ASSUME RangeInv, CallsInv', ServerSame, EventSame, SessionSame, ShownSame,
           UNCHANGED <<stream, readStream>>
    PROVE  Steady
  <1>1. Grows
    BY ServerKept DEF RangeInv
  <1>2. \A e \in Range(readStream) : e.kind = "read" /\ OfRead(e)'
    BY <1>1, EventKept DEF RangeInv, StreamInv
  <1>3. stream \in Seq(Nat) /\ Range(stream) \subseteq Ids' /\ readStream \in Seq(EventRow)
    BY <1>1 DEF RangeInv, StreamInv, Grows
  <1>4. StreamInv'
    BY <1>2, <1>3 DEF StreamInv
  <1> QED BY <1>4, PartsKept

LEMMA RegisteredRange ==
    ASSUME RangeInv, NEW w \in Streams, Registered(w)
    PROVE  Steady
  <1>1. ServerSame /\ EventSame /\ SessionSame /\ ShownSame
    BY DEF Registered, ServerSame, EventSame, SessionSame, ShownSame, serverVars,
           guiVars, shownVars
  <1>2. CallsInv' /\ UNCHANGED <<stream, readStream>>
    BY DEF Registered, RangeInv, StreamInv, CallsInv
  <1> QED BY <1>1, <1>2, CallsRange

LEMMA EndCancelledRange ==
    ASSUME RangeInv, NEW w \in Streams, EndCancelled(w)
    PROVE  Steady
  <1>1. ServerSame /\ EventSame /\ SessionSame /\ ShownSame
    BY DEF EndCancelled, ServerSame, EventSame, SessionSame, ShownSame, serverVars,
           guiVars, shownVars
  <1>2. CallsInv /\ ending[w] > 0 /\ ending' = [ending EXCEPT ![w] = @ - 1]
        /\ pending' = pending /\ writers' = writers \ {w}
        /\ UNCHANGED <<stream, readStream>>
    BY DEF EndCancelled, RangeInv, StreamInv
  <1>3. ending[w] - 1 \in Nat
    BY <1>2 DEF CallsInv
  <1>4. CallsInv'
    BY <1>2, <1>3 DEF CallsInv
  <1> QED BY <1>1, <1>2, <1>4, CallsRange

-----------------------------------------------------------------------------
\* The window's requests.

LEMMA SignInRange ==
    ASSUME RangeInv, SignIn
    PROVE  Steady
  <1>1. ServerSame /\ EventSame /\ ShownSame
    BY DEF SignIn, ServerSame, EventSame, ShownSame, serverVars, shownVars
  <1>2. SessionInv'
    <2>1. Grows
      BY <1>1, ServerKept DEF RangeInv
    <2>2. sessions' \in 0 .. MaxSessions
      <3>1. sessions \in 0 .. MaxSessions /\ sessions < MaxSessions /\ MaxSessions \in Nat
            /\ sessions' = sessions + 1
        BY ViewAssumption DEF RangeInv, SessionInv, SignIn
      <3> QED BY <3>1
    <2>3. signedIn' = TRUE /\ gui' = "list" /\ objects' = objects /\ fetched' = fetched
      BY DEF SignIn
    <2>4. \A o \in Range(objects) : o.unread \subseteq Ids' /\ o.conversation \notin unused'
      BY <2>1 DEF Grows, RangeInv, SessionInv
    <2>5. objects \in Seq(ObjectRow) /\ fetched \in Seq(Nat) /\ Range(fetched) \subseteq Ids'
      BY <2>1 DEF Grows, RangeInv, SessionInv
    <2> QED BY <2>2, <2>3, <2>4, <2>5 DEF SessionInv, Asking
  <1>3. StreamInv'
    <2>1. Grows
      BY <1>1, ServerKept DEF RangeInv
    <2>2. \A e \in Range(readStream) : e.kind = "read" /\ OfRead(e)'
      BY <2>1, EventKept DEF RangeInv, StreamInv
    <2>3. /\ stream \in Seq(Nat) /\ Range(stream) \subseteq Ids'
          /\ readStream \in Seq(EventRow)
      BY <2>1 DEF RangeInv, StreamInv, Grows
    <2>4. CallsInv' /\ UNCHANGED <<stream, readStream>>
      BY DEF SignIn, RangeInv, StreamInv, CallsInv
    <2> QED BY <2>2, <2>3, <2>4 DEF StreamInv
  <1> QED BY <1>1, <1>2, <1>3, PartsKept

\* A change of where the window is that no answer depends on.
LEMMA GuiRange ==
    ASSUME RangeInv, Grows, gui' \in {"idle", "list", "send"},
           UNCHANGED <<signedIn, sessions, objects>>,
           fetched' = fetched \/ fetched' = <<>>
    PROVE  SessionInv'
  <1>1. \A o \in Range(objects) : o.unread \subseteq Ids' /\ o.conversation \notin unused'
    BY DEF Grows, RangeInv, SessionInv
  <1>2. fetched' \in Seq(Nat) /\ Range(fetched') \subseteq Ids'
    <2>1. fetched \in Seq(Nat) /\ Range(fetched) \subseteq Ids'
      BY DEF Grows, RangeInv, SessionInv
    <2>2. <<>> \in Seq(Nat)
      OBVIOUS
    <2> QED BY <2>1, <2>2, RangeOfEmpty
  <1>3. /\ signedIn \in BOOLEAN /\ sessions \in 0 .. MaxSessions
        /\ objects \in Seq(ObjectRow)
    BY DEF RangeInv, SessionInv
  <1> QED BY <1>1, <1>2, <1>3 DEF SessionInv, Asking

\* What was missed so far is forgotten with the answer.
LEMMA GetConversationsRange ==
    ASSUME RangeInv, GetConversations
    PROVE  Steady
  <1>1. StreamSame /\ EventSame
    BY DEF GetConversations, StreamSame, EventSame
  <1>2. ServerInv' /\ Grows /\ NewIsUnsent
    BY DEF GetConversations, RangeInv, ServerInv, Grows, NewIsUnsent, Ids, ConversationOf,
           serverVars
  <1>3. SessionInv'
    BY <1>2, GuiRange DEF GetConversations
  <1>4. ShownInv'
    <2>1. /\ DOMAIN list' = alive
          /\ \A c \in alive : list'[c] = UnreadOf(c, FALSE)
          /\ view' = view
      BY DEF GetConversations
    <2>2. alive \subseteq Conversations \ unused' /\ \A c : UnreadOf(c, FALSE) \subseteq Ids'
      BY <1>2 DEF UnreadOf, Grows, RangeInv, ServerInv
    <2>3. \A i \in Range(view.ids) : i \in Ids' /\ ConversationOf(i)' = view.conversation
      BY <1>2 DEF RangeInv, ShownInv, Grows, ConversationOf
    <2>4. view \in [conversation : Conversations \cup {NoConversation}, ids : Seq(Nat)]
      BY DEF RangeInv, ShownInv
    <2> QED BY <2>1, <2>2, <2>3, <2>4 DEF ShownInv
  <1> QED BY <1>1, <1>2, <1>3, <1>4, PartsKept

LEMMA SignOutRange ==
    ASSUME RangeInv, SignOut
    PROVE  Steady
  <1>1. ServerSame /\ EventSame
    BY DEF SignOut, ServerSame, EventSame, serverVars
  <1>2. StreamInv'
    <2>1. writers' = {} /\ stream' = <<>> /\ readStream' = <<>>
      BY DEF SignOut
    <2>2. Range(stream') = {} /\ Range(readStream') = {}
      BY <2>1, RangeOfEmpty
    <2>3. stream' \in Seq(Nat) /\ readStream' \in Seq(EventRow)
      BY <2>1
    <2>4. CallsInv'
      <3>1. CallsInv /\ pending' = {} /\ writers' = {}
            /\ ending' = [w \in Streams |-> ending[w] + 1]
        BY DEF SignOut, RangeInv, StreamInv
      <3>2. \A w \in Streams : ending[w] + 1 \in Nat
        BY <3>1 DEF CallsInv
      <3> QED BY <3>1, <3>2 DEF CallsInv
    <2> QED BY <2>1, <2>2, <2>3, <2>4 DEF StreamInv
  <1>3. SessionInv'
    <2>1. Grows
      BY <1>1, ServerKept DEF RangeInv
    <2>2. signedIn' = FALSE /\ objects' = <<>> /\ gui = "idle"
          /\ UNCHANGED <<gui, fetched, sessions>>
      BY DEF SignOut, guiVars
    <2>3. objects' \in Seq(ObjectRow) /\ Range(objects') = {}
      BY <2>2, RangeOfEmpty
    <2>4. fetched \in Seq(Nat) /\ Range(fetched) \subseteq Ids' /\ sessions \in 0 .. MaxSessions
      BY <2>1 DEF Grows, RangeInv, SessionInv
    <2> QED BY <2>2, <2>3, <2>4 DEF SessionInv, Asking
  <1>4. ShownInv'
    <2>1. DOMAIN list' = {} /\ view' = [conversation |-> NoConversation, ids |-> <<>>]
      BY DEF SignOut
    <2>2. /\ view' \in [conversation : Conversations \cup {NoConversation}, ids : Seq(Nat)]
          /\ Range(view'.ids) = {}
      BY <2>1, RangeOfEmpty
    <2> QED BY <2>1, <2>2 DEF ShownInv
  <1> QED BY <1>1, <1>2, <1>3, <1>4, PartsKept

\* A conversation is opened.
LEMMA OpenRange ==
    ASSUME RangeInv, ServerInv', Grows, NewIsUnsent, NEW o \in ObjectRow,
           objects' = Append(objects, o), o.unread \subseteq Ids, o.conversation \notin unused',
           signedIn, gui' = "fetch", UNCHANGED <<fetched, signedIn, sessions>>
    PROVE  SessionInv' /\ Open' = o.conversation
  <1>1. objects \in Seq(ObjectRow)
    BY DEF RangeInv, SessionInv
  <1>2. /\ objects' \in Seq(ObjectRow) /\ Range(objects') = Range(objects) \cup {o}
        /\ objects' # <<>>
    BY <1>1, RangeOfAppend, AppendProperties
  <1>3. Open' = o.conversation
    <2>1. Len(objects') = Len(objects) + 1 /\ objects'[Len(objects) + 1] = o
      BY <1>1, AppendProperties
    <2> QED BY <1>2, <2>1 DEF Open
  <1>4. \A x \in Range(objects') : x.unread \subseteq Ids' /\ x.conversation \notin unused'
    BY <1>2 DEF Grows, RangeInv, SessionInv
  <1>5. fetched \in Seq(Nat) /\ Range(fetched) \subseteq Ids' /\ sessions \in 0 .. MaxSessions
    BY DEF Grows, RangeInv, SessionInv
  <1>6. SessionInv'
    BY <1>2, <1>4, <1>5 DEF SessionInv, Asking
  <1> QED BY <1>3, <1>6

\* Opening a conversation puts its object last.
LEMMA ClickRange ==
    ASSUME RangeInv, NEW c \in Conversations, Click(c)
    PROVE  Steady /\ Open' = c
  <1>1. ServerSame /\ StreamSame /\ EventSame /\ ShownSame
    BY DEF Click, ServerSame, StreamSame, EventSame, ShownSame, serverVars, streamVars,
           shownVars
  <1>2. ServerInv' /\ Grows /\ NewIsUnsent
    BY <1>1, ServerKept DEF RangeInv
  <1> DEFINE o == [conversation |-> c, unread |-> list[c]]
  <1>3. c \notin unused /\ list[c] \subseteq Ids /\ list[c] \in SUBSET Nat
    BY IdsAreNumbers DEF Click, RangeInv, ShownInv
  <1>4. o \in ObjectRow /\ o.conversation = c /\ o.unread \subseteq Ids
    BY <1>3 DEF ObjectRow
  <1>5. /\ objects' = Append(objects, o) /\ signedIn /\ gui' = "fetch"
        /\ UNCHANGED <<fetched, signedIn, sessions>> /\ unused' = unused
    BY <1>1 DEF Click, ServerSame
  <1> HIDE DEF o
  <1>6. SessionInv' /\ Open' = c
    BY <1>2, <1>3, <1>4, <1>5, OpenRange
  <1> QED BY <1>1, <1>6, PartsKept

LEMMA CreateRange ==
    ASSUME RangeInv, NEW c \in Conversations, CreateConversation(c)
    PROVE  Steady /\ Open' = c
  <1>1. StreamSame /\ EventSame /\ ShownSame
    BY DEF CreateConversation, StreamSame, EventSame, ShownSame, streamVars, shownVars
  <1>2. ServerInv' /\ Grows /\ NewIsUnsent
    <2>1. /\ c \in unused /\ unused' = unused \ {c} /\ alive' = alive \cup {c}
          /\ UNCHANGED <<messages, isRead, deleted, unsent, missed>>
      BY DEF CreateConversation, streamVars
    <2> QED BY <2>1, CreateServer DEF RangeInv
  <1> DEFINE o == [conversation |-> c, unread |-> {}]
  <1>3. o \in ObjectRow /\ o.conversation = c /\ o.unread \subseteq Ids
    BY DEF ObjectRow
  <1>4. /\ objects' = Append(objects, o) /\ signedIn /\ gui' = "fetch"
        /\ UNCHANGED <<fetched, signedIn, sessions>> /\ c \notin unused'
    BY DEF CreateConversation
  <1> HIDE DEF o
  <1>5. SessionInv' /\ Open' = c
    BY <1>2, <1>3, <1>4, OpenRange
  <1> QED BY <1>1, <1>2, <1>5, PartsKept

-----------------------------------------------------------------------------
\* What GetMessages answers: all there is of the conversation that is open.
LEMMA FetchedAll ==
    ASSUME RangeInv, GetMessages
    PROVE  /\ fetched' \in Seq(Nat)
           /\ Range(fetched') = {i \in Ids \ deleted : ConversationOf(i) = Open}
  <1> DEFINE S == {i \in Ids \ deleted : ConversationOf(i) = Open}
  <1>1. S \in SUBSET Ids /\ S \in SUBSET Nat
    BY IdsAreNumbers DEF RangeInv
  <1>2. IsFiniteSet(Ids)
    BY IdsAreNumbers, FS_Interval DEF RangeInv
  <1>3. IsFiniteSet(S)
    BY <1>1, <1>2, FS_Subset
  <1>4. fetched' = SeqOf(S)
    BY DEF GetMessages, ConversationOf
  <1> HIDE DEF S
  <1>5. fetched' \in Seq(Nat) /\ Range(fetched') = S
    BY <1>1, <1>3, <1>4, SeqOfHolds
  <1> QED BY <1>5 DEF S

LEMMA GetMessagesRange ==
    ASSUME RangeInv, GetMessages
    PROVE  Steady
  <1>1. ServerSame /\ StreamSame /\ EventSame /\ ShownSame
    BY DEF GetMessages, ServerSame, StreamSame, EventSame, ShownSame, serverVars,
           streamVars, shownVars
  <1>2. SessionInv'
    <2>1. Grows
      BY <1>1, ServerKept DEF RangeInv
    <2>2. /\ UNCHANGED <<signedIn, sessions, objects>> /\ gui' \in {"show", "mark"}
          /\ signedIn /\ objects # <<>>
      BY DEF GetMessages, RangeInv, SessionInv, Asking
    <2>3. Open' = Open
      BY <2>2 DEF Open
    <2>4. fetched' \in Seq(Nat) /\ Range(fetched') \subseteq Ids'
      BY <2>1, FetchedAll DEF Grows
    <2>5. \A i \in Range(fetched') : ConversationOf(i)' = Open'
      BY <2>1, <2>3, FetchedAll DEF Grows, ConversationOf
    <2>6. \A o \in Range(objects) : o.unread \subseteq Ids' /\ o.conversation \notin unused'
      BY <2>1 DEF Grows, RangeInv, SessionInv
    <2>7. objects \in Seq(ObjectRow) /\ sessions \in 0 .. MaxSessions /\ signedIn \in BOOLEAN
      BY DEF RangeInv, SessionInv
    <2> QED BY <2>2, <2>4, <2>5, <2>6, <2>7 DEF SessionInv, Asking
  <1> QED BY <1>1, <1>2, PartsKept

LEMMA ReadUnreadRange ==
    ASSUME RangeInv, ReadUnread
    PROVE  Steady
  <1>1. objects # <<>> /\ signedIn /\ gui = "mark"
    BY DEF ReadUnread, RangeInv, SessionInv, Asking
  <1>2. ServerInv' /\ Grows /\ NewIsUnsent /\ StreamInv'
    <2>1. objects[Len(objects)].unread \in SUBSET Ids /\ Open \in Conversations
      BY <1>1, OpenIsCreated DEF RangeInv
    <2>2. MarkRead(Open, objects[Len(objects)].unread)
      BY DEF ReadUnread
    <2> QED BY <2>1, <2>2, ReadServer DEF RangeInv
  <1>3. EventSame /\ ShownSame
    BY DEF ReadUnread, EventSame, ShownSame, shownVars
  <1>4. SessionInv'
    <2>1. UNCHANGED <<signedIn, sessions, objects, fetched>> /\ gui' = "show"
      BY DEF ReadUnread
    <2>2. Open' = Open
      BY <2>1 DEF Open
    <2>3. Range(fetched) \subseteq Ids' /\ \A i \in Range(fetched) : ConversationOf(i)' = Open
      BY <1>1, <1>2 DEF Grows, RangeInv, SessionInv, ConversationOf
    <2>4. \A o \in Range(objects) : o.unread \subseteq Ids' /\ o.conversation \notin unused'
      BY <1>2 DEF Grows, RangeInv, SessionInv
    <2>5. /\ objects \in Seq(ObjectRow) /\ sessions \in 0 .. MaxSessions
          /\ signedIn \in BOOLEAN /\ fetched \in Seq(Nat)
      BY DEF RangeInv, SessionInv
    <2> QED BY <1>1, <2>1, <2>2, <2>3, <2>4, <2>5 DEF SessionInv, Asking
  <1> QED BY <1>2, <1>3, <1>4, PartsKept

\* One conversation of the list gets other unread ids.
LEMMA ListRange ==
    ASSUME ShownInv, Grows, NEW c \in Conversations \ unused', NEW ids \in SUBSET Ids',
           list' = With(list, c, ids)
    PROVE  /\ DOMAIN list' \subseteq Conversations \ unused'
           /\ \A d \in DOMAIN list' : list'[d] \subseteq Ids'
  <1>1. DOMAIN list' = DOMAIN list \cup {c} /\ list'[c] = ids
        /\ \A d \in DOMAIN list : d # c => list'[d] = list[d]
    BY DEF With
  <1>2. /\ DOMAIN list \subseteq Conversations \ unused'
        /\ \A d \in DOMAIN list : list[d] \subseteq Ids'
    BY DEF ShownInv, Grows
  <1> QED BY <1>1, <1>2

LEMMA ViewSame ==
    ASSUME ShownInv, Grows, view' = view
    PROVE  /\ view' \in [conversation : Conversations \cup {NoConversation}, ids : Seq(Nat)]
           /\ \A i \in Range(view'.ids) :
                  i \in Ids' /\ ConversationOf(i)' = view'.conversation
  BY DEF ShownInv, Grows, ConversationOf

LEMMA ListSame ==
    ASSUME ShownInv, Grows, list' = list
    PROVE  /\ DOMAIN list' \subseteq Conversations \ unused'
           /\ \A d \in DOMAIN list' : list'[d] \subseteq Ids'
  BY DEF ShownInv, Grows

\* The answer is what the view shows, so it must be of the conversation that is open.
LEMMA ShowRange ==
    ASSUME RangeInv, Show
    PROVE  Steady
  <1>1. ServerSame /\ StreamSame /\ EventSame
    BY DEF Show, ServerSame, StreamSame, EventSame, serverVars, streamVars
  <1>2. Grows
    BY <1>1, ServerKept DEF RangeInv
  <1>3. SessionInv'
    BY <1>2, GuiRange DEF Show
  <1>4. /\ Open \in Conversations \ unused'
        /\ fetched \in Seq(Nat)
        /\ \A i \in Range(fetched) : i \in Ids' /\ ConversationOf(i)' = Open
    <2>1. objects # <<>> /\ gui = "show"
      BY DEF Show, RangeInv, SessionInv, Asking
    <2>2. Open \in Conversations \ unused'
      BY <1>2, <2>1, OpenIsCreated DEF Grows, RangeInv
    <2> QED BY <1>2, <2>1, <2>2 DEF Grows, RangeInv, SessionInv, ConversationOf
  <1>5. /\ DOMAIN list' \subseteq Conversations \ unused'
        /\ \A d \in DOMAIN list' : list'[d] \subseteq Ids'
    <2>1. list' = list \/ list' = With(list, Open, {})
      BY DEF Show
    <2>2. {} \in SUBSET Ids'
      OBVIOUS
    <2> QED BY <1>2, <1>4, <2>1, <2>2, ListSame, ListRange DEF RangeInv
  <1>6. ShownInv'
    <2>1. view' = [conversation |-> Open, ids |-> fetched]
      BY DEF Show
    <2>2. view'.conversation = Open /\ view'.ids = fetched
      BY <2>1
    <2>3. view' \in [conversation : Conversations \cup {NoConversation}, ids : Seq(Nat)]
      BY <1>4, <2>1
    <2> QED BY <1>4, <1>5, <2>2, <2>3 DEF ShownInv
  <1> QED BY <1>1, <1>3, <1>6, PartsKept

LEMMA SendRange ==
    ASSUME RangeInv, Send
    PROVE  Steady
  <1>1. objects # <<>>
    BY DEF Send, Open
  <1>2. ServerInv' /\ Grows /\ NewIsUnsent /\ StreamSame
    <2>1. Store(Open, TRUE) /\ Open \in Conversations \ unused /\ TRUE \in BOOLEAN
      BY <1>1, OpenIsCreated DEF Send, RangeInv
    <2> QED BY <2>1, StoreServer DEF RangeInv
  <1>3. EventSame /\ ShownSame
    BY DEF Send, EventSame, ShownSame, shownVars
  <1>4. SessionInv'
    BY <1>2, GuiRange DEF Send
  <1> QED BY <1>2, <1>3, <1>4, PartsKept

LEMMA SentRange ==
    ASSUME RangeInv, Sent
    PROVE  Steady
  <1>1. ServerSame /\ StreamSame /\ EventSame /\ ShownSame
    BY DEF Sent, ServerSame, StreamSame, EventSame, ShownSame, serverVars,
           streamVars, shownVars
  <1>2. Grows
    BY <1>1, ServerKept DEF RangeInv
  <1>3. SessionInv'
    BY <1>2, GuiRange DEF Sent
  <1> QED BY <1>1, <1>3, PartsKept

\* The row that is taken out of the view.
LEMMA DeletedRow ==
    ASSUME RangeInv, NEW row, DeleteMessage(row)
    PROVE  /\ view.ids[row] \in Range(view.ids) /\ deleted' = deleted \cup {view.ids[row]}
           /\ view'.conversation = view.conversation /\ view'.ids \in Seq(Nat)
           /\ view' \in [conversation : Conversations \cup {NoConversation}, ids : Seq(Nat)]
           /\ Range(view'.ids) \subseteq Range(view.ids)
           /\ Range(view.ids) \subseteq Range(view'.ids) \cup {view.ids[row]}
  <1> DEFINE q == view.ids
             r == [k \in 1 .. Len(q) - 1 |-> IF k < row THEN q[k] ELSE q[k + 1]]
  <1>1. /\ view \in [conversation : Conversations \cup {NoConversation}, ids : Seq(Nat)]
        /\ q \in Seq(Nat)
    BY DEF RangeInv, ShownInv
  <1>2. row \in 1 .. Len(q) /\ row \in DOMAIN q
    BY <1>1, LenProperties DEF DeleteMessage
  <1>3. view' = [view EXCEPT !.ids = r] /\ deleted' = deleted \cup {q[row]}
    BY DEF DeleteMessage
  <1>4. /\ r \in Seq(Nat) /\ Range(r) \subseteq Range(q)
        /\ Range(q) \subseteq Range(r) \cup {q[row]}
    <2>1. PICK x : x = r
      OBVIOUS
    <2>2. PICK p : p = q
      OBVIOUS
    <2>3. /\ p \in Seq(Nat) /\ row \in 1 .. Len(p)
          /\ x = [k \in 1 .. Len(p) - 1 |-> IF k < row THEN p[k] ELSE p[k + 1]]
      BY <1>1, <1>2, <2>1, <2>2
    <2>4. /\ x \in Seq(Nat) /\ Range(x) \subseteq Range(p)
          /\ Range(p) \subseteq Range(x) \cup {p[row]}
      BY <2>3, RangeOfRest
    <2> QED BY <2>1, <2>2, <2>4
  <1>5. q[row] \in Range(q)
    BY <1>2 DEF Range
  <1> HIDE DEF r
  <1>6. view' \in [conversation : Conversations \cup {NoConversation}, ids : Seq(Nat)]
        /\ view'.conversation = view.conversation /\ view'.ids = r
    BY <1>1, <1>3, <1>4
  <1> QED BY <1>3, <1>4, <1>5, <1>6

LEMMA DeleteMessageRange ==
    ASSUME RangeInv, NEW row, DeleteMessage(row)
    PROVE  Steady
  <1>1. StreamSame /\ EventSame /\ SessionSame
    BY DEF DeleteMessage, StreamSame, EventSame, SessionSame, streamVars, guiVars
  <1>2. \A i \in Range(view.ids) : i \in Ids /\ ConversationOf(i) = view.conversation
    BY DEF RangeInv, ShownInv
  <1>3. ServerInv' /\ Grows /\ NewIsUnsent
    <2>1. /\ deleted' = deleted \cup {view.ids[row]} /\ view.ids[row] \in Ids
          /\ UNCHANGED <<messages, isRead, alive, unused, unsent, missed>>
      BY <1>2, DeletedRow DEF DeleteMessage, streamVars
    <2>2. ServerInv
      BY DEF RangeInv
    <2> QED BY <2>1, <2>2 DEF ServerInv, Grows, NewIsUnsent, Ids, ConversationOf
  <1>4. ShownInv'
    <2>1. \A i \in Range(view'.ids) : i \in Ids' /\ ConversationOf(i)' = view'.conversation
      BY <1>2, <1>3, DeletedRow DEF Grows, ConversationOf
    <2>2. list' = list
      BY DEF DeleteMessage
    <2>3. /\ DOMAIN list' \subseteq Conversations \ unused'
          /\ \A d \in DOMAIN list' : list'[d] \subseteq Ids'
      BY <1>3, <2>2, ListSame DEF RangeInv
    <2> QED BY <2>1, <2>3, DeletedRow DEF ShownInv
  <1> QED BY <1>1, <1>3, <1>4, PartsKept

LEMMA DeleteConversationRange ==
    ASSUME RangeInv, NEW c \in Conversations, DeleteConversation(c)
    PROVE  Steady
  <1>1. StreamSame /\ EventSame /\ SessionSame
    BY DEF DeleteConversation, StreamSame, EventSame, SessionSame, streamVars, guiVars
  <1>2. ServerInv' /\ Grows /\ NewIsUnsent
    <2>1. /\ alive' = alive \ {c}
          /\ UNCHANGED <<messages, isRead, deleted, unused, unsent, missed>>
      BY DEF DeleteConversation, streamVars
    <2>2. ServerInv
      BY DEF RangeInv
    <2> QED BY <2>1, <2>2 DEF ServerInv, Grows, NewIsUnsent, Ids, ConversationOf
  <1>3. ShownInv'
    <2>1. view' = view /\ DOMAIN list' = DOMAIN list \ {c}
          /\ \A d \in DOMAIN list' : list'[d] = list[d]
      BY DEF DeleteConversation
    <2>2. /\ DOMAIN list' \subseteq Conversations \ unused'
          /\ \A d \in DOMAIN list' : list'[d] \subseteq Ids'
      BY <1>2, <2>1 DEF RangeInv, ShownInv, Grows
    <2> QED BY <1>2, <2>1, <2>2, ViewSame DEF RangeInv, ShownInv
  <1> QED BY <1>1, <1>2, <1>3, PartsKept

-----------------------------------------------------------------------------
(* Events.                                                                  *)

\* The event that is handled is gone from those posted.
LEMMA HandleEvents ==
    ASSUME RangeInv, NEW kind, Handle(kind)
    PROVE  /\ ServerSame /\ StreamSame /\ SessionSame /\ Grows /\ EventInv'
           /\ Head(posted) \in EventRow /\ EventOk(Head(posted))
           /\ Head(posted).kind = kind
           /\ Range(posted) = Range(posted') \cup {Head(posted)} /\ reader' = reader
  <1>1. ServerSame /\ StreamSame /\ SessionSame /\ reader' = reader
    BY DEF Handle, ServerSame, StreamSame, SessionSame, serverVars, streamVars, guiVars
  <1>2. Grows
    BY <1>1, ServerKept DEF RangeInv
  <1>3. posted' = Tail(posted) /\ posted # <<>> /\ Head(posted).kind = kind
    BY DEF Handle
  <1>4. posted \in Seq(EventRow) /\ \A e \in Range(posted) : EventOk(e)
    BY DEF RangeInv, EventInv
  <1>5. /\ Head(posted) \in EventRow /\ posted' \in Seq(EventRow)
        /\ Range(posted) = Range(posted') \cup {Head(posted)}
    BY <1>3, <1>4, RangeOfTail
  <1>6. \A e \in Range(posted') : EventOk(e)'
    BY <1>2, <1>4, <1>5, EventKept
  <1>7. /\ reader.at # "idle" => reader.id \in Ids'
        /\ reader.at \in {"compare", "read"} => FromOther(reader.id)'
    BY <1>1, <1>2 DEF RangeInv, EventInv, Grows, FromOther
  <1>8. EventInv'
    BY <1>1, <1>5, <1>6, <1>7 DEF RangeInv, EventInv
  <1> QED BY <1>1, <1>2, <1>3, <1>4, <1>5, <1>8

\* The message of an event about one.
LEMMA MessageOfEvent ==
    ASSUME NEW e, OfMessage(e)
    PROVE  \E i \in Ids : /\ e.ids = {i} /\ (CHOOSE j \in e.ids : TRUE) = i
                          /\ e.conversation = ConversationOf(i)
  BY DEF OfMessage

\* An event is of one message and its conversation, so the view stays of one.
LEMMA HandleMessageRange ==
    ASSUME RangeInv, HandleMessage
    PROVE  Steady
  <1>1. Handle("message") /\ list' = list
    BY DEF HandleMessage
  <1>2. /\ ServerSame /\ StreamSame /\ SessionSame /\ Grows /\ EventInv'
        /\ EventOk(Head(posted)) /\ Head(posted).kind = "message"
    BY <1>1, HandleEvents
  <1>3. PICK i \in Ids : /\ (CHOOSE j \in Head(posted).ids : TRUE) = i
                         /\ Head(posted).conversation = ConversationOf(i)
    BY <1>2, MessageOfEvent DEF EventOk
  <1>4. \/ view' = view
        \/ /\ view' = [view EXCEPT !.ids = Append(view.ids, i)]
           /\ view.conversation = ConversationOf(i)
    BY <1>3 DEF HandleMessage
  <1>5. CASE view' = view
    <2>1. ShownInv'
      BY <1>1, <1>2, <1>5, ListSame, ViewSame DEF RangeInv, ShownInv
    <2> QED BY <1>2, <2>1, PartsKept
  <1>6. CASE view' = [view EXCEPT !.ids = Append(view.ids, i)]
             /\ view.conversation = ConversationOf(i)
    <2>1. /\ view \in [conversation : Conversations \cup {NoConversation}, ids : Seq(Nat)]
          /\ i \in Nat
      BY IdsAreNumbers DEF RangeInv, ShownInv
    <2>2. /\ Append(view.ids, i) \in Seq(Nat)
          /\ Range(Append(view.ids, i)) = Range(view.ids) \cup {i}
      BY <2>1, RangeOfAppend
    <2> DEFINE q == Append(view.ids, i)
    <2> HIDE DEF q
    <2>3. /\ view' \in [conversation : Conversations \cup {NoConversation}, ids : Seq(Nat)]
          /\ view'.conversation = view.conversation /\ view'.ids = q
      BY <1>6, <2>1, <2>2 DEF q
    <2>4. \A j \in Range(q) : j \in Ids' /\ ConversationOf(j)' = view.conversation
      BY <1>2, <1>6, <2>2 DEF q, Grows, RangeInv, ShownInv, ConversationOf
    <2>5. ShownInv'
      BY <1>1, <1>2, <2>3, <2>4, ListSame DEF RangeInv, ShownInv
    <2> QED BY <1>2, <2>5, PartsKept
  <1> QED BY <1>4, <1>5, <1>6

LEMMA HandleUnreadRange ==
    ASSUME RangeInv, HandleUnread
    PROVE  Steady
  <1>1. Handle("unread") /\ view' = view
    BY DEF HandleUnread
  <1>2. /\ ServerSame /\ StreamSame /\ SessionSame /\ Grows /\ EventInv'
        /\ EventOk(Head(posted)) /\ Head(posted).kind = "unread"
    BY <1>1, HandleEvents
  <1>3. PICK i \in Ids : Head(posted).ids = {i} /\ Head(posted).conversation = ConversationOf(i)
    BY <1>2, MessageOfEvent DEF EventOk
  <1> DEFINE c == ConversationOf(i)
  <1>4. c \in Conversations \ unused'
    <2>1. ConversationOf(i) \notin unused /\ messages[i] \in MessageRow
      BY IdsAreNumbers DEF RangeInv, ServerInv
    <2>2. unused' \subseteq unused
      BY <1>2 DEF Grows
    <2> QED BY <2>1, <2>2 DEF ConversationOf, MessageRow
  <1>5. \/ list' = list
        \/ c \in DOMAIN list /\ list' = With(list, c, list[c] \cup {i})
        \/ list' = With(list, c, UnreadOf(c, c \in OwnIdLower))
    BY <1>3 DEF HandleUnread
  <1> HIDE DEF c
  <1>6. /\ DOMAIN list' \subseteq Conversations \ unused'
        /\ \A d \in DOMAIN list' : list'[d] \subseteq Ids'
    <2>1. CASE list' = list
      BY <1>2, <2>1, ListSame DEF RangeInv
    <2>2. CASE c \in DOMAIN list /\ list' = With(list, c, list[c] \cup {i})
      <3>1. list[c] \cup {i} \in SUBSET Ids'
        BY <1>2, <2>2 DEF RangeInv, ShownInv, Grows
      <3> QED BY <1>2, <1>4, <2>2, <3>1, ListRange DEF RangeInv
    <2>3. CASE list' = With(list, c, UnreadOf(c, c \in OwnIdLower))
      <3>1. UnreadOf(c, c \in OwnIdLower) \in SUBSET Ids'
        BY <1>2 DEF UnreadOf, Grows
      <3> QED BY <1>2, <1>4, <2>3, <3>1, ListRange DEF RangeInv
    <2> QED BY <1>5, <2>1, <2>2, <2>3
  <1>7. ShownInv'
    BY <1>1, <1>2, <1>6, ViewSame DEF RangeInv, ShownInv
  <1> QED BY <1>2, <1>7, PartsKept

\* Unread ids are only taken away.
LEMMA HandleReadRange ==
    ASSUME RangeInv, HandleRead
    PROVE  Steady
  <1>1. Handle("read") /\ view' = view
    BY DEF HandleRead
  <1>2. ServerSame /\ StreamSame /\ SessionSame /\ Grows /\ EventInv'
    BY <1>1, HandleEvents
  <1> DEFINE c == Head(posted).conversation
  <1>3. \/ list' = list
        \/ c \in DOMAIN list /\ list' = With(list, c, list[c] \ Head(posted).ids)
    BY DEF HandleRead
  <1>4. /\ DOMAIN list' \subseteq Conversations \ unused'
        /\ \A d \in DOMAIN list' : list'[d] \subseteq Ids'
    <2> HIDE DEF c
    <2>1. CASE list' = list
      BY <1>2, <2>1, ListSame DEF RangeInv
    <2>2. CASE c \in DOMAIN list /\ list' = With(list, c, list[c] \ Head(posted).ids)
      <3>1. list[c] \ Head(posted).ids \in SUBSET Ids' /\ c \in Conversations \ unused'
        BY <1>2, <2>2 DEF RangeInv, ShownInv, Grows
      <3> QED BY <1>2, <2>2, <3>1, ListRange DEF RangeInv
    <2> QED BY <1>3, <2>1, <2>2
  <1>5. ShownInv'
    BY <1>1, <1>2, <1>4, ViewSame DEF RangeInv, ShownInv
  <1> QED BY <1>2, <1>5, PartsKept

\* An event is posted.
LEMMA PostEvents ==
    ASSUME RangeInv, Grows, NEW e \in EventRow, EventOk(e)', posted' = Append(posted, e)
    PROVE  /\ posted' \in Seq(EventRow) /\ \A x \in Range(posted') : EventOk(x)'
           /\ Range(posted') = Range(posted) \cup {e}
  <1>1. posted \in Seq(EventRow) /\ \A x \in Range(posted) : EventOk(x)
    BY DEF RangeInv, EventInv
  <1>2. posted' \in Seq(EventRow) /\ Range(posted') = Range(posted) \cup {e}
    BY <1>1, RangeOfAppend
  <1>3. \A x \in Range(posted) : EventOk(x)'
    BY <1>1, EventKept
  <1> QED BY <1>2, <1>3

\* An event about a message that the server has.
LEMMA EventOfMessage ==
    ASSUME ServerInv, NEW i \in Ids, NEW kind \in {"message", "unread"}
    PROVE  /\ Event(kind, ConversationOf(i), {i}) \in EventRow
           /\ EventOk(Event(kind, ConversationOf(i), {i}))
           /\ Event(kind, ConversationOf(i), {i}).kind = kind
           /\ Event(kind, ConversationOf(i), {i}).ids = {i}
  <1>1. ConversationOf(i) \in Conversations /\ i \in Nat
    BY IdsAreNumbers DEF ConversationOf, MessageRow
  <1> QED BY <1>1 DEF Event, EventRow, EventOk, OfMessage

-----------------------------------------------------------------------------
\* The callbacks.

LEMMA ReceiveRange ==
    ASSUME RangeInv, Receive
    PROVE  Steady /\ Range(stream) = Range(stream') \cup {Head(stream)}
  <1>1. ServerSame /\ SessionSame /\ ShownSame
    BY DEF Receive, ServerSame, SessionSame, ShownSame, serverVars, guiVars, shownVars
  <1>2. Grows
    BY <1>1, ServerKept DEF RangeInv
  <1>3. /\ Head(stream) \in Nat /\ stream' \in Seq(Nat)
        /\ Range(stream) = Range(stream') \cup {Head(stream)} /\ Range(stream) \subseteq Ids
    BY RangeOfTail DEF Receive, RangeInv, StreamInv
  <1>4. StreamInv'
    <2>1. \A e \in Range(readStream) : e.kind = "read" /\ OfRead(e)'
      BY <1>2, EventKept DEF RangeInv, StreamInv
    <2>2. Range(stream') \subseteq Ids'
      BY <1>2, <1>3 DEF Grows
    <2>3. CallsInv /\ readStream \in Seq(EventRow)
          /\ UNCHANGED <<pending, writers, ending, readStream>>
      BY DEF Receive, RangeInv, StreamInv
    <2> QED BY <1>3, <2>1, <2>2, <2>3 DEF StreamInv, CallsInv
  <1>5. EventInv'
    <2> DEFINE i == Head(stream)
    <2>1. /\ reader' = [at |-> IF messages[i].own THEN "show" ELSE "compare",
                        id |-> i, object |-> Len(objects)]
          /\ posted' = posted /\ Len(objects) \in Nat
      BY LenProperties DEF Receive, RangeInv, SessionInv
    <2>2. i \in Ids' /\ messages'[i] = messages[i] /\ i \in Nat
      BY <1>2, <1>3 DEF Grows
    <2> HIDE DEF i
    <2>3. reader' \in [at : {"idle", "compare", "read", "show"}, id : Nat, object : Nat]
          /\ reader'.id = i /\ (reader'.at \in {"compare", "read"} => ~messages[i].own)
      BY <2>1, <2>2
    <2>4. posted \in Seq(EventRow) /\ \A e \in Range(posted) : EventOk(e)'
      BY <1>2, EventKept DEF RangeInv, EventInv
    <2> QED BY <2>1, <2>2, <2>3, <2>4 DEF EventInv, FromOther
  <1> QED BY <1>1, <1>3, <1>4, <1>5, PartsKept

\* Whatever the comparison with a freed object says, the message is marked read or
\* posted as unread.
LEMMA CompareRange ==
    ASSUME RangeInv, Compare
    PROVE  /\ Steady /\ ServerSame
           /\ reader.at = "compare" /\ reader'.id = reader.id
           /\ \/ reader'.at = "read" /\ posted' = posted
              \/ /\ reader'.at = "show"
                 /\ \E e \in EventRow :
                        /\ e.kind = "unread" /\ e.ids = {reader.id}
                        /\ Range(posted') = Range(posted) \cup {e}
  <1>1. ServerSame /\ StreamSame /\ SessionSame /\ ShownSame
    BY DEF Compare, ServerSame, StreamSame, SessionSame, ShownSame, serverVars, streamVars,
           guiVars, shownVars
  <1>2. ServerInv' /\ Grows
    BY <1>1, ServerKept DEF RangeInv
  <1>3. reader.at = "compare" /\ reader.id \in Ids /\ FromOther(reader.id)
        /\ reader \in [at : {"idle", "compare", "read", "show"}, id : Nat, object : Nat]
    BY DEF Compare, RangeInv, EventInv
  <1>4. PICK e \in EventRow :
            /\ e = Event("unread", ConversationOf(reader.id), {reader.id})
            /\ EventOk(e) /\ e.kind = "unread" /\ e.ids = {reader.id}
    BY <1>3, EventOfMessage DEF RangeInv
  <1>5. PICK same \in BOOLEAN :
            /\ reader' = [reader EXCEPT !.at = IF same THEN "read" ELSE "show"]
            /\ posted' = IF same THEN posted ELSE Append(posted, e)
    BY <1>4 DEF Compare, ConversationOf
  <1>6. /\ reader' \in [at : {"idle", "compare", "read", "show"}, id : Nat, object : Nat]
        /\ reader'.id = reader.id /\ reader'.at = IF same THEN "read" ELSE "show"
    BY <1>3, <1>5
  <1>7. reader.id \in Ids' /\ ~messages'[reader.id].own
    BY <1>2, <1>3 DEF Grows, FromOther
  <1>8. CASE same
    <2>1. posted \in Seq(EventRow) /\ \A x \in Range(posted) : EventOk(x)'
      BY <1>2, EventKept DEF RangeInv, EventInv
    <2>2. posted' = posted /\ reader'.at = "read"
      BY <1>5, <1>6, <1>8
    <2>3. EventInv'
      BY <1>6, <1>7, <2>1, <2>2 DEF EventInv, FromOther
    <2> QED BY <1>1, <1>3, <1>6, <2>2, <2>3, PartsKept
  <1>9. CASE ~same
    <2>1. posted' = Append(posted, e) /\ reader'.at = "show"
      BY <1>5, <1>6, <1>9
    <2>2. EventOk(e)'
      BY <1>2, <1>4, EventKept
    <2>3. /\ posted' \in Seq(EventRow) /\ \A x \in Range(posted') : EventOk(x)'
          /\ Range(posted') = Range(posted) \cup {e}
      BY <1>2, <1>4, <2>1, <2>2, PostEvents
    <2>4. EventInv'
      BY <1>6, <1>7, <2>1, <2>3 DEF EventInv
    <2> QED BY <1>1, <1>3, <1>4, <1>6, <2>1, <2>3, <2>4, PartsKept
  <1> QED BY <1>8, <1>9

LEMMA ReadAtOnceRange ==
    ASSUME RangeInv, ReadAtOnce
    PROVE  /\ Steady /\ reader.id \in isRead'
           /\ reader'.at = "show" /\ reader'.id = reader.id /\ stream' = stream
  <1>1. /\ reader.at = "read" /\ reader.id \in Ids /\ FromOther(reader.id)
        /\ reader \in [at : {"idle", "compare", "read", "show"}, id : Nat, object : Nat]
    BY DEF ReadAtOnce, RangeInv, EventInv
  <1>2. /\ ServerInv' /\ Grows /\ NewIsUnsent /\ StreamInv' /\ stream' = stream
        /\ \A i \in {reader.id} : FromOther(i) => i \in isRead'
    <2>1. Open \in Conversations \cup {NoConversation}
      BY OpenType DEF RangeInv
    <2>2. {reader.id} \in SUBSET Ids /\ MarkRead(Open, {reader.id})
      BY <1>1 DEF ReadAtOnce
    <2> QED BY <2>1, <2>2, ReadServer DEF RangeInv
  <1>3. SessionSame /\ ShownSame
    BY DEF ReadAtOnce, SessionSame, ShownSame, shownVars, guiVars
  <1>4. reader' = [reader EXCEPT !.at = "show"] /\ posted' = posted
    BY DEF ReadAtOnce
  <1>5. /\ reader' \in [at : {"idle", "compare", "read", "show"}, id : Nat, object : Nat]
        /\ reader'.id = reader.id /\ reader'.at = "show"
    BY <1>1, <1>4
  <1>6. EventInv'
    <2>1. posted \in Seq(EventRow) /\ \A x \in Range(posted) : EventOk(x)'
      BY <1>2, EventKept DEF RangeInv, EventInv
    <2>2. reader.id \in Ids'
      BY <1>1, <1>2 DEF Grows
    <2> QED BY <1>4, <1>5, <2>1, <2>2 DEF EventInv
  <1> QED BY <1>1, <1>2, <1>3, <1>5, <1>6, PartsKept

LEMMA EmitRange ==
    ASSUME RangeInv, Emit
    PROVE  /\ Steady /\ reader.at = "show" /\ reader'.at = "idle"
           /\ \E e \in EventRow : /\ e.kind = "message" /\ e.ids = {reader.id}
                                  /\ Range(posted') = Range(posted) \cup {e}
  <1>1. ServerSame /\ StreamSame /\ SessionSame /\ ShownSame
    BY DEF Emit, ServerSame, StreamSame, SessionSame, ShownSame, serverVars, streamVars,
           guiVars, shownVars
  <1>2. Grows
    BY <1>1, ServerKept DEF RangeInv
  <1>3. reader.at = "show" /\ reader.id \in Ids
    BY DEF Emit, RangeInv, EventInv
  <1>4. PICK e \in EventRow :
            /\ e = Event("message", ConversationOf(reader.id), {reader.id})
            /\ EventOk(e) /\ e.kind = "message" /\ e.ids = {reader.id}
    BY <1>3, EventOfMessage DEF RangeInv
  <1>5. posted' = Append(posted, e) /\ reader' = [at |-> "idle", id |-> 0, object |-> 0]
    BY <1>4 DEF Emit, ConversationOf, Idle
  <1>6. EventOk(e)'
    BY <1>2, <1>4, EventKept
  <1>7. /\ posted' \in Seq(EventRow) /\ \A x \in Range(posted') : EventOk(x)'
        /\ Range(posted') = Range(posted) \cup {e}
    BY <1>2, <1>4, <1>5, <1>6, PostEvents
  <1>8. reader'.at = "idle"
        /\ reader' \in [at : {"idle", "compare", "read", "show"}, id : Nat, object : Nat]
    BY <1>5
  <1>9. EventInv'
    BY <1>7, <1>8 DEF EventInv
  <1> QED BY <1>1, <1>3, <1>4, <1>7, <1>8, <1>9, PartsKept

LEMMA ReceiveReadRange ==
    ASSUME RangeInv, ReceiveRead
    PROVE  Steady /\ Range(posted) \subseteq Range(posted')
  <1>1. ServerSame /\ SessionSame /\ ShownSame
    BY DEF ReceiveRead, ServerSame, SessionSame, ShownSame, serverVars, guiVars, shownVars
  <1>2. Grows
    BY <1>1, ServerKept DEF RangeInv
  <1>3. PICK e \in EventRow :
            /\ e = Head(readStream) /\ readStream' \in Seq(EventRow)
            /\ Range(readStream) = Range(readStream') \cup {e}
    BY RangeOfTail DEF ReceiveRead, RangeInv, StreamInv
  <1>4. posted' = Append(posted, e) /\ UNCHANGED <<pending, writers, ending, stream, reader>>
    BY <1>3 DEF ReceiveRead
  <1>5. e.kind = "read" /\ OfRead(e)
    BY <1>3 DEF RangeInv, StreamInv
  <1>6. EventOk(e)'
    BY <1>2, <1>5, EventKept DEF EventOk
  <1>7. /\ posted' \in Seq(EventRow) /\ \A x \in Range(posted') : EventOk(x)'
        /\ Range(posted') = Range(posted) \cup {e}
    BY <1>2, <1>3, <1>4, <1>6, PostEvents
  <1>8. StreamInv'
    <2>1. \A x \in Range(readStream') : x.kind = "read" /\ OfRead(x)'
      BY <1>2, <1>3, EventKept DEF RangeInv, StreamInv
    <2>2. /\ CallsInv /\ stream \in Seq(Nat)
          /\ Range(stream) \subseteq Ids'
      BY <1>2 DEF RangeInv, StreamInv, Grows
    <2> QED BY <1>3, <1>4, <2>1, <2>2 DEF StreamInv, CallsInv
  <1>9. EventInv'
    <2>1. /\ reader.at # "idle" => reader.id \in Ids'
          /\ reader.at \in {"compare", "read"} => ~messages'[reader.id].own
          /\ reader \in [at : {"idle", "compare", "read", "show"}, id : Nat, object : Nat]
      BY <1>2 DEF RangeInv, EventInv, Grows, FromOther
    <2> QED BY <1>4, <1>7, <2>1 DEF EventInv, FromOther
  <1> QED BY <1>1, <1>7, <1>8, <1>9, PartsKept

-----------------------------------------------------------------------------
\* Every step keeps the types, and what the server has.
LEMMA NextRange ==
    ASSUME RangeInv, Next
    PROVE  Steady
  <1>1. CASE \E c \in Conversations : PeerSends(c)
    BY <1>1, PeerSendsRange
  <1>2. CASE \E c \in Conversations : PeerCreates(c)
    BY <1>2, PeerCreatesRange
  <1>3. CASE \E c \in Conversations : Click(c)
    BY <1>3, ClickRange
  <1>4. CASE \E c \in Conversations : CreateConversation(c)
    BY <1>4, CreateRange
  <1>5. CASE \E c \in Conversations : DeleteConversation(c)
    BY <1>5, DeleteConversationRange
  <1>6. CASE \E i \in unsent : Notify(i)
    BY <1>6, NotifyRange
  <1>7. CASE \E w \in Streams : Registered(w)
    BY <1>7, RegisteredRange
  <1>8. CASE SignIn
    BY <1>8, SignInRange
  <1>9. CASE GetConversations
    BY <1>9, GetConversationsRange
  <1>10. CASE SignOut
    BY <1>10, SignOutRange
  <1>11. CASE GetMessages
    BY <1>11, GetMessagesRange
  <1>12. CASE ReadUnread
    BY <1>12, ReadUnreadRange
  <1>13. CASE Show
    BY <1>13, ShowRange
  <1>14. CASE Send
    BY <1>14, SendRange
  <1>15. CASE Sent
    BY <1>15, SentRange
  <1>16. CASE \E row \in 1 .. MaxMessages : DeleteMessage(row)
    BY <1>16, DeleteMessageRange
  <1>17. CASE HandleMessage
    BY <1>17, HandleMessageRange
  <1>18. CASE HandleUnread
    BY <1>18, HandleUnreadRange
  <1>19. CASE HandleRead
    BY <1>19, HandleReadRange
  <1>20. CASE Receive
    BY <1>20, ReceiveRange
  <1>21. CASE Compare
    BY <1>21, CompareRange
  <1>22. CASE ReadAtOnce
    BY <1>22, ReadAtOnceRange
  <1>23. CASE Emit
    BY <1>23, EmitRange
  <1>24. CASE ReceiveRead
    BY <1>24, ReceiveReadRange
  <1>25. CASE \E w \in Streams : EndCancelled(w)
    BY <1>25, EndCancelledRange
  <1> QED BY <1>1, <1>2, <1>3, <1>4, <1>5, <1>6, <1>7, <1>8,
             <1>9, <1>10, <1>11, <1>12, <1>13, <1>14, <1>15, <1>16,
             <1>17, <1>18, <1>19, <1>20, <1>21, <1>22, <1>23, <1>24, <1>25
          DEF Next

LEMMA StepRange ==
    ASSUME RangeInv, [Next]_vars
    PROVE  RangeInv'
  <1>1. CASE Next
    BY <1>1, NextRange DEF Steady
  <1>2. CASE UNCHANGED vars
    <2>1. ServerSame /\ StreamSame /\ EventSame /\ SessionSame /\ ShownSame
      BY <1>2 DEF vars, serverVars, streamVars, shownVars, guiVars, ServerSame, StreamSame,
                  EventSame, SessionSame, ShownSame
    <2> QED BY <2>1, PartsKept DEF Steady
  <1> QED BY <1>1, <1>2

-----------------------------------------------------------------------------
(* What a step does to the view, the list and the request.                  *)

ViewStep ==
    \/ view' = view \/ HandleMessage \/ Show \/ SignOut
    \/ \E row \in 1 .. MaxMessages : DeleteMessage(row)

AnswerStep ==
    \/ gui' \notin {"mark", "show"} \/ GetMessages
    \/ gui \in {"mark", "show"} /\ UNCHANGED <<fetched, objects>>

ListStep ==
    \/ list' = list \/ GetConversations \/ SignOut \/ Show \/ HandleUnread \/ HandleRead
    \/ \E c \in Conversations : DeleteConversation(c)

AskingStep ==
    /\ Asking' => \/ Asking /\ objects' = objects
                  \/ \E c \in Conversations : Click(c) \/ CreateConversation(c)
    /\ Asking => Show \/ (Asking' /\ objects' = objects)

HistoryStep ==
    /\ missed \subseteq missed' \/ GetConversations
    /\ overlooked \subseteq overlooked' \/ SignOut
    /\ overlooked' \subseteq overlooked \cup Ids

SessionStep ==
    /\ signedIn' /\ gui' # "list" => (signedIn /\ gui # "list") \/ GetConversations
    /\ ~signedIn' \/ gui' = "list" => ~signedIn \/ gui = "list" \/ SignOut
    /\ alive' \subseteq alive \cup unused

\* Which actions change the view, the list and the request: one case for each.
LEMMA NextSteps ==
    ASSUME Next
    PROVE  ViewStep /\ AnswerStep /\ ListStep /\ AskingStep /\ HistoryStep /\ SessionStep
  <1> USE DEF ViewStep, AnswerStep, ListStep, AskingStep, HistoryStep, SessionStep, Asking
  <1>1. CASE \E c \in Conversations : PeerSends(c)
    BY <1>1 DEF PeerSends, Store, serverVars, streamVars, guiVars, shownVars
  <1>2. CASE \E c \in Conversations : PeerCreates(c)
    BY <1>2 DEF PeerCreates, serverVars, streamVars, guiVars, shownVars
  <1>3. CASE \E c \in Conversations : Click(c)
    BY <1>3 DEF Click, serverVars, streamVars, guiVars, shownVars
  <1>4. CASE \E c \in Conversations : CreateConversation(c)
    <2>1. PICK c \in Conversations : CreateConversation(c)
      BY <1>4
    <2>2. /\ UNCHANGED <<list, view, overlooked, missed>> /\ gui' = "fetch" /\ gui = "idle"
          /\ signedIn /\ signedIn' = signedIn /\ alive' = alive \cup {c} /\ c \in unused
      BY <2>1 DEF CreateConversation, streamVars, shownVars
    <2> QED BY <2>1, <2>2
  <1>5. CASE \E c \in Conversations : DeleteConversation(c)
    BY <1>5 DEF DeleteConversation, serverVars, streamVars, guiVars, shownVars
  <1>6. CASE \E i \in unsent : Notify(i)
    BY <1>6 DEF Notify, serverVars, streamVars, guiVars, shownVars
  <1>7. CASE \E w \in Streams : Registered(w)
    BY <1>7 DEF Registered, serverVars, streamVars, guiVars, shownVars
  <1>8. CASE SignIn
    BY <1>8 DEF SignIn, serverVars, streamVars, guiVars, shownVars
  <1>9. CASE GetConversations
    BY <1>9 DEF GetConversations, serverVars, streamVars, guiVars, shownVars
  <1>10. CASE SignOut
    BY <1>10 DEF SignOut, serverVars, streamVars, guiVars, shownVars
  <1>11. CASE GetMessages
    BY <1>11 DEF GetMessages, serverVars, streamVars, guiVars, shownVars
  <1>12. CASE ReadUnread
    BY <1>12 DEF ReadUnread, MarkRead, serverVars, streamVars, guiVars, shownVars
  <1>13. CASE Show
    BY <1>13 DEF Show, serverVars, streamVars, guiVars, shownVars
  <1>14. CASE Send
    BY <1>14 DEF Send, Store, serverVars, streamVars, guiVars, shownVars
  <1>15. CASE Sent
    BY <1>15 DEF Sent, serverVars, streamVars, guiVars, shownVars
  <1>16. CASE \E row \in 1 .. MaxMessages : DeleteMessage(row)
    <2>1. /\ UNCHANGED <<list, overlooked, missed, alive, gui, fetched, objects, signedIn>>
          /\ gui = "idle" /\ signedIn
      BY <1>16 DEF DeleteMessage, streamVars, guiVars
    <2> QED BY <1>16, <2>1
  <1>17. CASE HandleMessage
    BY <1>17 DEF HandleMessage, Handle, serverVars, streamVars, guiVars, shownVars
  <1>18. CASE HandleUnread
    BY <1>18 DEF HandleUnread, UnreadOf, Handle, serverVars, streamVars, guiVars, shownVars
  <1>19. CASE HandleRead
    BY <1>19 DEF HandleRead, Handle, serverVars, streamVars, guiVars, shownVars
  <1>20. CASE Receive
    BY <1>20 DEF Receive, serverVars, streamVars, guiVars, shownVars
  <1>21. CASE Compare
    BY <1>21 DEF Compare, serverVars, streamVars, guiVars, shownVars
  <1>22. CASE ReadAtOnce
    BY <1>22 DEF ReadAtOnce, MarkRead, serverVars, streamVars, guiVars, shownVars
  <1>23. CASE Emit
    BY <1>23 DEF Emit, serverVars, streamVars, guiVars, shownVars
  <1>24. CASE ReceiveRead
    BY <1>24 DEF ReceiveRead, serverVars, streamVars, guiVars, shownVars
  <1>25. CASE \E w \in Streams : EndCancelled(w)
    BY <1>25 DEF EndCancelled, serverVars, streamVars, guiVars, shownVars
  <1> QED BY <1>1, <1>2, <1>3, <1>4, <1>5, <1>6, <1>7, <1>8,
             <1>9, <1>10, <1>11, <1>12, <1>13, <1>14, <1>15, <1>16,
             <1>17, <1>18, <1>19, <1>20, <1>21, <1>22, <1>23, <1>24, <1>25
          DEF Next

\* The variables stay in their ranges, and the view shows messages of its own
\* conversation only: getMessagesResponse and receiveMessageResponse (main.cpp) put
\* there what the request and the stream delivered, whichever comes first.
THEOREM TypeCorrect == Spec => []TypeOK
  <1>1. Init => RangeInv /\ HistoryInv
    BY InitRange DEF Init, HistoryInv
  <1>2. RangeInv /\ HistoryInv /\ [Next]_vars
            => RangeInv' /\ HistoryInv'
    <2> SUFFICES ASSUME RangeInv, HistoryInv, [Next]_vars
                 PROVE  HistoryInv'
      BY StepRange
    <2>1. CASE Next
      BY <2>1, NextRange, NextSteps DEF Steady, Grows, HistoryStep, HistoryInv
    <2>2. CASE UNCHANGED vars
      BY <2>2 DEF vars, serverVars, shownVars, Ids, HistoryInv
    <2> QED BY <2>1, <2>2
  <1>3. RangeInv /\ HistoryInv => TypeOK
    BY RangeImpliesTypes
  <1> QED BY <1>1, <1>2, <1>3, PTL DEF Spec

-----------------------------------------------------------------------------
(* The ways of a message to the window.                                     *)

Posted(kind, i) == \E e \in Range(posted) : e.kind = kind /\ i \in e.ids
Streamed(i) == i \in unsent \/ i \in Range(stream)

\* The window will be told to show message i.
ToBeShown(i) ==
    Streamed(i) \/ (reader.at # "idle" /\ reader.id = i) \/ Posted("message", i)

\* The window will be told that i is unread, or the server that it is read.
ToBeCounted(i) ==
    Streamed(i) \/ (reader.at \in {"compare", "read"} /\ reader.id = i) \/ Posted("unread", i)

\* A message leaves its way by being shown, counted or read, or with the session.
ShownWay(i) ==
    ToBeShown(i) =>
        ToBeShown(i)' \/ SignOut \/ (HandleMessage /\ i \in Head(posted).ids)
CountedWay(i) ==
    ToBeCounted(i) =>
        \/ ToBeCounted(i)' \/ SignOut \/ i \in isRead' \/ ~FromOther(i)
        \/ HandleUnread /\ i \in Head(posted).ids

\* Nothing is taken from any place.
LEMMA WaySame ==
    ASSUME NEW i, unsent \subseteq unsent', Range(stream) \subseteq Range(stream'),
           Range(posted) \subseteq Range(posted'), reader' = reader
    PROVE  ShownWay(i) /\ CountedWay(i)
  BY DEF ShownWay, CountedWay, ToBeShown, ToBeCounted, Streamed, Posted

\* A message goes from the server to the stream, or is missed.
LEMMA NotifyWay ==
    ASSUME RangeInv, NEW i \in Ids \ missed', NEW j \in unsent, Notify(j)
    PROVE  ShownWay(i) /\ CountedWay(i)
  <1>1. /\ unsent' = unsent \ {j} /\ posted' = posted /\ reader' = reader
        /\ stream' = Append(stream, j) \/ (missed' = missed \cup {j} /\ stream' = stream)
    BY DEF Notify
  <1>2. stream \in Seq(Nat) /\ j \in Nat
    BY IdsAreNumbers DEF RangeInv, StreamInv, ServerInv
  <1>3. Range(Append(stream, j)) = Range(stream) \cup {j}
    BY <1>2, RangeOfAppend
  <1>4. Range(stream) \subseteq Range(stream') /\ (i = j => i \in Range(stream'))
    BY <1>1, <1>3
  <1>5. Streamed(i) => Streamed(i)'
    BY <1>1, <1>4 DEF Streamed
  <1> QED BY <1>1, <1>5 DEF ShownWay, CountedWay, ToBeShown, ToBeCounted, Posted

\* From the stream to the callback,
LEMMA ReceiveWay ==
    ASSUME RangeInv, NEW i \in Ids, Receive
    PROVE  ShownWay(i) /\ CountedWay(i)
  <1>1. /\ Range(stream) = Range(stream') \cup {Head(stream)}
        /\ unsent' = unsent /\ posted' = posted /\ reader = Idle
        /\ reader'.id = Head(stream)
        /\ reader'.at = IF messages[Head(stream)].own THEN "show" ELSE "compare"
    BY ReceiveRange DEF Receive
  <1>2. reader.at = "idle"
    BY <1>1 DEF Idle
  <1>3. Streamed(i) => Streamed(i)' \/ i = Head(stream)
    BY <1>1 DEF Streamed
  <1>4. Posted("message", i)' = Posted("message", i) /\ Posted("unread", i)' = Posted("unread", i)
    BY <1>1 DEF Posted
  <1>5. i = Head(stream) => reader'.id = i /\ reader'.at # "idle"
                            /\ (reader'.at = "compare" \/ ~FromOther(i))
    BY <1>1 DEF FromOther
  <1> QED BY <1>2, <1>3, <1>4, <1>5 DEF ShownWay, CountedWay, ToBeShown, ToBeCounted

\* then to the posted events, or on to be marked read,
LEMMA CompareWay ==
    ASSUME RangeInv, NEW i \in Ids, Compare
    PROVE  ShownWay(i) /\ CountedWay(i)
  <1>1. /\ reader.at = "compare" /\ reader'.id = reader.id
        /\ \/ reader'.at = "read" /\ posted' = posted
           \/ /\ reader'.at = "show"
              /\ \E e \in EventRow : /\ e.kind = "unread" /\ e.ids = {reader.id}
                                     /\ Range(posted') = Range(posted) \cup {e}
    BY CompareRange
  <1>2. unsent' = unsent /\ stream' = stream
    BY DEF Compare, streamVars
  <1>3. Range(posted) \subseteq Range(posted')
    BY <1>1
  <1>4. reader'.at # "idle" /\ (reader.id = i => reader'.at = "read" \/ Posted("unread", i)')
    BY <1>1 DEF Posted
  <1>5. /\ Posted("message", i) => Posted("message", i)'
        /\ Posted("unread", i) => Posted("unread", i)'
        /\ Streamed(i) => Streamed(i)'
    BY <1>2, <1>3 DEF Posted, Streamed
  <1> QED BY <1>1, <1>4, <1>5 DEF ShownWay, CountedWay, ToBeShown, ToBeCounted

\* and it is read when it is marked,
LEMMA ReadAtOnceWay ==
    ASSUME RangeInv, NEW i \in Ids, ReadAtOnce
    PROVE  ShownWay(i) /\ CountedWay(i)
  <1>1. /\ reader.id \in isRead' /\ reader'.at = "show" /\ reader'.id = reader.id
        /\ stream' = stream /\ posted' = posted /\ unsent' = unsent
    BY ReadAtOnceRange DEF ReadAtOnce, MarkRead
  <1>2. /\ Posted("message", i) => Posted("message", i)'
        /\ Posted("unread", i) => Posted("unread", i)'
        /\ Streamed(i) => Streamed(i)'
    BY <1>1 DEF Posted, Streamed
  <1> QED BY <1>1, <1>2 DEF ShownWay, CountedWay, ToBeShown, ToBeCounted

\* and posted to be shown either way.
LEMMA EmitWay ==
    ASSUME RangeInv, NEW i \in Ids, Emit
    PROVE  ShownWay(i) /\ CountedWay(i)
  <1>1. /\ reader.at = "show"
        /\ \E e \in EventRow : /\ e.kind = "message" /\ e.ids = {reader.id}
                               /\ Range(posted') = Range(posted) \cup {e}
    BY EmitRange
  <1>2. unsent' = unsent /\ stream' = stream
    BY DEF Emit, streamVars
  <1>3. reader.id = i => Posted("message", i)'
    BY <1>1 DEF Posted
  <1>4. /\ Posted("message", i) => Posted("message", i)'
        /\ Posted("unread", i) => Posted("unread", i)'
        /\ Streamed(i) => Streamed(i)'
    BY <1>1, <1>2 DEF Posted, Streamed
  <1> QED BY <1>1, <1>3, <1>4 DEF ShownWay, CountedWay, ToBeShown, ToBeCounted

\* An event that is handled was of one kind.
LEMMA HandleWay ==
    ASSUME RangeInv, NEW i \in Ids, NEW kind, Handle(kind)
    PROVE  /\ ToBeShown(i) => ToBeShown(i)' \/ (kind = "message" /\ i \in Head(posted).ids)
           /\ ToBeCounted(i) => ToBeCounted(i)' \/ (kind = "unread" /\ i \in Head(posted).ids)
  <1>1. /\ Head(posted).kind = kind /\ reader' = reader
        /\ Range(posted) = Range(posted') \cup {Head(posted)}
    BY HandleEvents
  <1>2. unsent' = unsent /\ stream' = stream
    BY DEF Handle, streamVars
  <1>3. \A k : Posted(k, i) => Posted(k, i)' \/ (kind = k /\ i \in Head(posted).ids)
    BY <1>1 DEF Posted
  <1>4. /\ Posted("message", i)
             => Posted("message", i)' \/ (kind = "message" /\ i \in Head(posted).ids)
        /\ Posted("unread", i)
             => Posted("unread", i)' \/ (kind = "unread" /\ i \in Head(posted).ids)
    BY <1>1 DEF Posted
  <1>5. Streamed(i) => Streamed(i)'
    BY <1>2 DEF Streamed
  <1> QED BY <1>1, <1>4, <1>5 DEF ToBeShown, ToBeCounted

\* No step loses a message that was not missed.
LEMMA NextWay ==
    ASSUME RangeInv, Next, NEW i \in Ids \ missed'
    PROVE  ShownWay(i) /\ CountedWay(i)
  <1>1. CASE \E c \in Conversations : PeerSends(c)
    BY <1>1, WaySame DEF PeerSends, Store, streamVars
  <1>2. CASE \E c \in Conversations : PeerCreates(c)
    BY <1>2, WaySame DEF PeerCreates, streamVars
  <1>3. CASE \E c \in Conversations : Click(c)
    BY <1>3, WaySame DEF Click, streamVars
  <1>4. CASE \E c \in Conversations : CreateConversation(c)
    BY <1>4, WaySame DEF CreateConversation, streamVars
  <1>5. CASE \E c \in Conversations : DeleteConversation(c)
    BY <1>5, WaySame DEF DeleteConversation, streamVars
  <1>6. CASE \E j \in unsent : Notify(j)
    BY <1>6, NotifyWay
  <1>7. CASE \E w \in Streams : Registered(w)
    BY <1>7, WaySame DEF Registered, streamVars
  <1>8. CASE SignIn
    BY <1>8, WaySame DEF SignIn, streamVars
  <1>9. CASE GetConversations
    BY <1>9, WaySame DEF GetConversations, streamVars
  <1>10. CASE SignOut
    BY <1>10 DEF ShownWay, CountedWay
  <1>11. CASE GetMessages
    BY <1>11, WaySame DEF GetMessages, streamVars
  <1>12. CASE ReadUnread
    BY <1>12, WaySame DEF ReadUnread, MarkRead, streamVars
  <1>13. CASE Show
    BY <1>13, WaySame DEF Show, streamVars
  <1>14. CASE Send
    BY <1>14, WaySame DEF Send, Store, streamVars
  <1>15. CASE Sent
    BY <1>15, WaySame DEF Sent, streamVars
  <1>16. CASE \E row \in 1 .. MaxMessages : DeleteMessage(row)
    BY <1>16, WaySame DEF DeleteMessage, streamVars
  <1>17. CASE HandleMessage
    BY <1>17, HandleWay DEF HandleMessage, ShownWay, CountedWay
  <1>18. CASE HandleUnread
    BY <1>18, HandleWay DEF HandleUnread, ShownWay, CountedWay
  <1>19. CASE HandleRead
    BY <1>19, HandleWay DEF HandleRead, ShownWay, CountedWay
  <1>20. CASE Receive
    BY <1>20, ReceiveWay
  <1>21. CASE Compare
    BY <1>21, CompareWay
  <1>22. CASE ReadAtOnce
    BY <1>22, ReadAtOnceWay
  <1>23. CASE Emit
    BY <1>23, EmitWay
  <1>24. CASE ReceiveRead
    BY <1>24, ReceiveReadRange, WaySame DEF ReceiveRead
  <1>25. CASE \E w \in Streams : EndCancelled(w)
    BY <1>25, WaySame DEF EndCancelled
  <1> QED BY <1>1, <1>2, <1>3, <1>4, <1>5, <1>6, <1>7, <1>8,
             <1>9, <1>10, <1>11, <1>12, <1>13, <1>14, <1>15, <1>16,
             <1>17, <1>18, <1>19, <1>20, <1>21, <1>22, <1>23, <1>24, <1>25
          DEF Next

-----------------------------------------------------------------------------
(* The view.                                                                *)

\* Of the conversation on view every message is shown, or the window will be
\* told of it; and so with an answer, for the conversation that is open.
ViewInv ==
    \A i \in Ids \ (deleted \cup missed) :
        /\ ConversationOf(i) = view.conversation => i \in Range(view.ids) \/ ToBeShown(i)
        /\ gui \in {"mark", "show"} /\ ConversationOf(i) = Open
             => i \in Range(fetched) \/ ToBeShown(i)

\* Before a session has its list, no conversation is on view.
NoView == ~signedIn \/ gui = "list" => view.conversation = NoConversation

\* Handling an event keeps what is on view and adds the message of the event, if
\* it is of the same conversation.
ShownMessage(i) ==
    /\ view'.conversation = view.conversation
    /\ i \in Range(view.ids) => i \in Range(view'.ids)
    /\ i \in Head(posted).ids /\ ConversationOf(i) = view.conversation
         => i \in Range(view'.ids)

\* The event of a message of the conversation on view is appended to it.
LEMMA HandledIsShown ==
    ASSUME RangeInv, HandleMessage, NEW i \in Ids
    PROVE  ShownMessage(i)
  <1>1. Handle("message")
    BY DEF HandleMessage
  <1>2. EventOk(Head(posted)) /\ Head(posted).kind = "message"
    BY <1>1, HandleEvents
  <1>3. PICK j \in Ids : /\ Head(posted).ids = {j} /\ (CHOOSE x \in Head(posted).ids : TRUE) = j
                         /\ Head(posted).conversation = ConversationOf(j)
    BY <1>2, MessageOfEvent DEF EventOk
  <1>4. view' = IF view.conversation = ConversationOf(j)
                THEN [view EXCEPT !.ids = Append(view.ids, j)] ELSE view
    BY <1>3 DEF HandleMessage
  <1>5. /\ view \in [conversation : Conversations \cup {NoConversation}, ids : Seq(Nat)]
        /\ view.ids \in Seq(Nat) /\ j \in Nat
    BY IdsAreNumbers DEF RangeInv, ShownInv
  <1>6. Range(Append(view.ids, j)) = Range(view.ids) \cup {j}
    BY <1>5, RangeOfAppend
  <1>7. /\ view'.conversation = view.conversation
        /\ view'.ids = IF view.conversation = ConversationOf(j)
                       THEN Append(view.ids, j) ELSE view.ids
    BY <1>4, <1>5
  <1> QED BY <1>3, <1>6, <1>7 DEF ShownMessage

\* A conversation comes on view by an answer, which is the session's.
LEMMA NoViewNext ==
    ASSUME RangeInv, NoView, Next
    PROVE  NoView'
  <1>1. ViewStep /\ SessionStep
    BY NextSteps
  <1> SUFFICES ASSUME ~signedIn' \/ gui' = "list"
               PROVE  view'.conversation = NoConversation
    BY DEF NoView
  <1>2. CASE SignOut
    BY <1>2 DEF SignOut
  <1>3. CASE ~SignOut
    <2>1. view.conversation = NoConversation
      BY <1>1, <1>3 DEF SessionStep, NoView
    <2>2. CASE view' = view
      BY <2>1, <2>2
    <2>3. CASE HandleMessage
      <3>1. view \in [conversation : Conversations \cup {NoConversation}, ids : Seq(Nat)]
        BY DEF RangeInv, ShownInv
      <3> QED BY <2>1, <2>3, <3>1 DEF HandleMessage
    <2>4. CASE Show
      BY <2>4 DEF Show, RangeInv, SessionInv, Asking
    <2>5. CASE \E row \in 1 .. MaxMessages : DeleteMessage(row)
      <3>1. PICK row \in 1 .. MaxMessages : DeleteMessage(row)
        BY <2>5
      <3>2. view'.conversation = view.conversation
        BY <3>1, DeletedRow
      <3> QED BY <2>1, <3>2
    <2> QED BY <1>1, <1>3, <2>2, <2>3, <2>4, <2>5 DEF ViewStep
  <1> QED BY <1>2, <1>3

\* The view stays complete: by the answer, or by what is on its way beside it.
LEMMA ViewNext ==
    ASSUME RangeInv, NoView, ViewInv, Next
    PROVE  ViewInv'
  <1>1. Grows /\ NewIsUnsent /\ HistoryStep
    BY NextRange, NextSteps DEF Steady
  <1> SUFFICES ASSUME NEW i \in Ids' \ (deleted' \cup missed')
               PROVE  /\ ConversationOf(i)' = view'.conversation
                            => i \in Range(view'.ids) \/ ToBeShown(i)'
                      /\ gui' \in {"mark", "show"} /\ ConversationOf(i)' = Open'
                            => i \in Range(fetched') \/ ToBeShown(i)'
    BY DEF ViewInv
  <1>2. CASE i \notin Ids
    <2>1. i \in unsent'
      BY <1>1, <1>2 DEF NewIsUnsent
    <2> QED BY <2>1 DEF ToBeShown, Streamed
  <1>3. CASE i \in Ids /\ GetConversations
    <2>1. view'.conversation = NoConversation /\ gui' = "idle" /\ UNCHANGED messages
      BY <1>3 DEF NoView, GetConversations, serverVars
    <2>2. ConversationOf(i)' \in Conversations
      BY <1>3, <2>1, IdsAreNumbers DEF RangeInv, ConversationOf, MessageRow
    <2> QED BY <2>1, <2>2, ViewAssumption
  <1>4. CASE i \in Ids /\ ~GetConversations
    <2>1. /\ i \in Ids \ (deleted \cup missed) /\ ConversationOf(i)' = ConversationOf(i)
      BY <1>1, <1>4 DEF Grows, HistoryStep, ConversationOf
    <2>2. ShownWay(i)
      BY <1>4, NextWay
    <2>3. ViewStep /\ AnswerStep
      BY NextSteps
    <2>4. /\ ConversationOf(i) = view.conversation => i \in Range(view.ids) \/ ToBeShown(i)
          /\ gui \in {"mark", "show"} /\ ConversationOf(i) = Open
               => i \in Range(fetched) \/ ToBeShown(i)
      BY <2>1 DEF ViewInv
    <2>5. ConversationOf(i) \in Conversations
      BY <1>4, IdsAreNumbers DEF RangeInv, ConversationOf, MessageRow
    <2>6. ConversationOf(i) = view'.conversation => i \in Range(view'.ids) \/ ToBeShown(i)'
      <3>1. CASE SignOut
        <4>1. view'.conversation = NoConversation
          BY <3>1 DEF SignOut
        <4> QED BY <2>5, <4>1, ViewAssumption
      <3>2. CASE HandleMessage
        <4>1. ShownMessage(i)
          BY <1>4, <3>2, HandledIsShown
        <4>2. ~SignOut
          BY <3>2 DEF HandleMessage, Handle, SignOut
        <4> QED BY <2>2, <2>4, <4>1, <4>2 DEF ShownMessage, ShownWay
      <3>3. CASE Show
        <4>1. view'.conversation = Open /\ view'.ids = fetched /\ gui = "show"
          BY <3>3 DEF Show
        <4>2. ~HandleMessage /\ ~SignOut
          BY <4>1 DEF HandleMessage, Handle, SignOut
        <4> QED BY <2>2, <2>4, <4>1, <4>2 DEF ShownWay
      <3>4. CASE \E row \in 1 .. MaxMessages : DeleteMessage(row)
        <4>1. PICK row \in 1 .. MaxMessages : DeleteMessage(row)
          BY <3>4
        <4>2. /\ view'.conversation = view.conversation
              /\ i \in Range(view.ids) => i \in Range(view'.ids)
          BY <4>1, DeletedRow
        <4>3. ToBeShown(i) => ToBeShown(i)'
          BY <4>1 DEF DeleteMessage, streamVars, ToBeShown, Streamed, Posted
        <4> QED BY <2>4, <4>2, <4>3
      <3>5. CASE view' = view /\ ~SignOut /\ ~HandleMessage
        BY <2>2, <2>4, <3>5 DEF ShownWay
      <3> QED BY <2>3, <3>1, <3>2, <3>3, <3>4, <3>5 DEF ViewStep
    <2>7. gui' \in {"mark", "show"} /\ ConversationOf(i) = Open'
             => i \in Range(fetched') \/ ToBeShown(i)'
      <3>1. CASE GetMessages
        <4>1. Open' = Open
          BY <3>1 DEF GetMessages, Open
        <4> QED BY <2>1, <3>1, <4>1, FetchedAll
      <3>2. CASE gui \in {"mark", "show"} /\ UNCHANGED <<fetched, objects>>
        <4>1. Open' = Open
          BY <3>2 DEF Open
        <4>2. ~HandleMessage /\ ~SignOut
          BY <3>2 DEF HandleMessage, Handle, SignOut
        <4> QED BY <2>2, <2>4, <3>2, <4>1, <4>2 DEF ShownWay
      <3> QED BY <2>3, <3>1, <3>2 DEF AnswerStep
    <2> QED BY <2>1, <2>6, <2>7
  <1> QED BY <1>2, <1>3, <1>4

\* Once nothing is on its way, the conversation on view is complete: no interleaving
\* of GetMessages, of the stream's callback (backend.cpp:613-646), which may compare
\* with a Conversation that is gone, and of the events it posts leaves a message out,
\* but those of the session that the server had no stream to write to, before it got to
\* the call (main/impl.cpp:727) or after the end of an older one took the writer away
\* (:743-751).
THEOREM ViewCorrect == Spec => []NothingMissed
  <1>1. Init => RangeInv /\ NoView /\ ViewInv
    <2>1. Init => Ids = {}
      BY DEF Init, Ids
    <2>2. Init => NoView
      BY DEF Init, NoView
    <2> QED BY <2>1, <2>2, InitRange DEF ViewInv
  <1>2. RangeInv /\ NoView /\ ViewInv /\ [Next]_vars
            => RangeInv' /\ NoView' /\ ViewInv'
    <2> SUFFICES ASSUME RangeInv, NoView, ViewInv, [Next]_vars
                 PROVE  RangeInv' /\ NoView' /\ ViewInv'
      OBVIOUS
    <2>1. CASE UNCHANGED vars
      <3>1. NoView' /\ ViewInv'
        BY <2>1 DEF NoView, ViewInv, vars, serverVars, streamVars, shownVars, guiVars, Ids, Open,
                    ConversationOf, ToBeShown, Streamed, Posted
      <3> QED BY <2>1, <3>1, StepRange
    <2> QED BY <2>1, StepRange, NoViewNext, ViewNext
  <1>3. RangeInv /\ ViewInv => NothingMissed
    <2> SUFFICES ASSUME ViewInv, Quiet, NEW i \in Ids \ (deleted \cup missed),
                        messages[i].conversation = view.conversation
                 PROVE  \E k \in DOMAIN view.ids : view.ids[k] = i
      BY DEF NothingMissed
    <2>1. ~ToBeShown(i)
      BY RangeOfEmpty DEF Quiet, ToBeShown, Streamed, Posted, Idle
    <2>2. i \in Range(view.ids)
      BY <2>1 DEF ViewInv, ConversationOf
    <2> QED BY <2>2 DEF Range
  <1> QED BY <1>1, <1>2, <1>3, PTL DEF Spec

-----------------------------------------------------------------------------
(* The list.                                                                *)

Unread(i) == FromOther(i) /\ i \notin isRead \cup missed
Listed(i) == ConversationOf(i) \in DOMAIN list
Counted(i) == i \in list[ConversationOf(i)] \/ i \in overlooked \/ ToBeCounted(i)

\* An unread message is among the unread ones of its row, or will be, or was
\* overlooked when the row was made; it will
\* be too if the row is yet to come with the answer that opens its conversation.
CountInv ==
    \A i \in Ids : Unread(i) =>
        /\ Listed(i) => Counted(i)
        /\ ~Listed(i) /\ Asking /\ ConversationOf(i) = Open => ToBeCounted(i)

\* Its conversation has a row, or will have one.
RowInv ==
    signedIn /\ gui # "list" =>
        \A i \in Ids : Unread(i) /\ ConversationOf(i) \in alive =>
            Listed(i) \/ ToBeCounted(i) \/ (Asking /\ ConversationOf(i) = Open)

\* What is unread now was unread before, if it was there.
LEMMA UnreadBefore ==
    ASSUME RangeInv, Next, ~GetConversations, NEW i \in Ids, Unread(i)'
    PROVE  Unread(i) /\ ConversationOf(i)' = ConversationOf(i) /\ i \in Ids \ missed'
  <1>1. Grows /\ missed \subseteq missed'
    BY NextRange, NextSteps DEF Steady, HistoryStep
  <1> QED BY <1>1 DEF Grows, Unread, FromOther, ConversationOf

\* What is to be counted stays so, unless it is handled.
LEMMA UnreadWay ==
    ASSUME RangeInv, Next, ~GetConversations, NEW i \in Ids, Unread(i)', ToBeCounted(i)
    PROVE  ToBeCounted(i)' \/ SignOut \/ (HandleUnread /\ i \in Head(posted).ids)
  <1>1. CountedWay(i) /\ Unread(i) /\ i \notin isRead'
    BY UnreadBefore, NextWay DEF Unread
  <1> QED BY <1>1 DEF CountedWay, Unread

\* The event is of one message, and the row that of its conversation.
LEMMA HandledUnread ==
    ASSUME RangeInv, HandleUnread
    PROVE  \E j \in Ids :
               LET c == ConversationOf(j)
               IN  /\ Head(posted).ids = {j}
                   /\ \/ c \in DOMAIN list /\ list' = With(list, c, list[c] \cup {j})
                      \/ /\ c \notin DOMAIN list /\ signedIn
                         /\ list' = With(list, c, UnreadOf(c, c \in OwnIdLower))
                         /\ overlooked' = overlooked \cup
                                (UnreadOf(c, FALSE) \ UnreadOf(c, c \in OwnIdLower))
                      \/ c \notin DOMAIN list /\ ~signedIn /\ list' = list
  <1>1. Handle("unread")
    BY DEF HandleUnread
  <1>2. EventOk(Head(posted)) /\ Head(posted).kind = "unread"
    BY <1>1, HandleEvents
  <1>3. PICK j \in Ids : Head(posted).ids = {j} /\ Head(posted).conversation = ConversationOf(j)
    BY <1>2 DEF EventOk, OfMessage
  <1> QED BY <1>3 DEF HandleUnread

\* A request that waits for its answer leaves the list alone.
LEMMA AskingList ==
    ASSUME ListStep, Asking, Asking'
    PROVE  list' = list /\ ~SignOut /\ ~HandleUnread
  BY DEF ListStep, Asking, GetConversations, SignOut, Show, HandleUnread, HandleRead, Handle,
         DeleteConversation

-----------------------------------------------------------------------------
\* The row gets the message, or is made anew: then it has the unread ones but for
\* those that are overlooked.
LEMMA HandleUnreadCount ==
    ASSUME RangeInv, Next, HandleUnread, NEW i \in Ids, Unread(i)',
           Listed(i) => Counted(i), ConversationOf(i) \in DOMAIN list'
    PROVE  i \in list'[ConversationOf(i)] \/ i \in overlooked' \/ ToBeCounted(i)'
  <1>1. ~SignOut /\ ~GetConversations
    BY DEF HandleUnread, Handle, SignOut, GetConversations
  <1>2. Unread(i) /\ overlooked \subseteq overlooked'
    BY <1>1, UnreadBefore, NextSteps DEF HistoryStep
  <1>3. PICK j \in Ids :
            /\ Head(posted).ids = {j}
            /\ \/ /\ ConversationOf(j) \in DOMAIN list
                  /\ list' = With(list, ConversationOf(j), list[ConversationOf(j)] \cup {j})
               \/ /\ ConversationOf(j) \notin DOMAIN list
                  /\ list' = With(list, ConversationOf(j),
                                  UnreadOf(ConversationOf(j), ConversationOf(j) \in OwnIdLower))
                  /\ overlooked' = overlooked \cup
                         (UnreadOf(ConversationOf(j), FALSE)
                          \ UnreadOf(ConversationOf(j), ConversationOf(j) \in OwnIdLower))
               \/ ConversationOf(j) \notin DOMAIN list /\ list' = list
    BY HandledUnread
  <1>4. ToBeCounted(i) /\ i # j => ToBeCounted(i)'
    BY <1>1, <1>3, UnreadWay
  <1>5. i \in UnreadOf(ConversationOf(i), FALSE)
    BY <1>2, IdsAreNumbers DEF RangeInv, UnreadOf, Unread, FromOther, ConversationOf, MessageRow
  <1>6. CASE list' = list /\ ConversationOf(j) \notin DOMAIN list
    BY <1>2, <1>4, <1>6 DEF Listed, Counted
  <1>7. CASE /\ ConversationOf(j) \in DOMAIN list
             /\ list' = With(list, ConversationOf(j), list[ConversationOf(j)] \cup {j})
    BY <1>2, <1>4, <1>7 DEF With, Listed, Counted
  <1>8. CASE /\ ConversationOf(j) \notin DOMAIN list
             /\ list' = With(list, ConversationOf(j),
                             UnreadOf(ConversationOf(j), ConversationOf(j) \in OwnIdLower))
             /\ overlooked' = overlooked \cup
                    (UnreadOf(ConversationOf(j), FALSE)
                     \ UnreadOf(ConversationOf(j), ConversationOf(j) \in OwnIdLower))
    BY <1>2, <1>4, <1>5, <1>8 DEF With, Listed, Counted
  <1> QED BY <1>3, <1>6, <1>7, <1>8

\* A row that is made for a new conversation has no unread messages that are not on
\* their way.
LEMMA ShowCount ==
    ASSUME RangeInv, Next, Show, NEW i \in Ids, Unread(i)', Listed(i) => Counted(i),
           ~Listed(i) /\ Asking /\ ConversationOf(i) = Open => ToBeCounted(i),
           ConversationOf(i) \in DOMAIN list'
    PROVE  i \in list'[ConversationOf(i)] \/ i \in overlooked' \/ ToBeCounted(i)'
  <1>1. ~SignOut /\ ~HandleUnread /\ ~GetConversations /\ Asking /\ overlooked' = overlooked
    BY DEF Show, SignOut, HandleUnread, Handle, GetConversations, Asking
  <1>2. ToBeCounted(i) => ToBeCounted(i)'
    BY <1>1, UnreadWay
  <1>3. list' = list \/ (list' = With(list, Open, {}) /\ Open \notin DOMAIN list)
    BY DEF Show
  <1> QED BY <1>1, <1>2, <1>3 DEF With, Listed, Counted

\* Only messages that were read are taken from a row.
LEMMA HandleReadCount ==
    ASSUME RangeInv, Next, HandleRead, NEW i \in Ids, Unread(i)', Listed(i) => Counted(i),
           ConversationOf(i) \in DOMAIN list'
    PROVE  i \in list'[ConversationOf(i)] \/ i \in overlooked' \/ ToBeCounted(i)'
  <1>1. Handle("read")
    BY DEF HandleRead
  <1>2. EventOk(Head(posted)) /\ Head(posted).kind = "read"
    BY <1>1, HandleEvents
  <1>3. ~SignOut /\ ~HandleUnread /\ ~GetConversations /\ overlooked' = overlooked
    BY <1>1 DEF HandleRead, HandleUnread, Handle, SignOut, GetConversations
  <1>4. i \notin Head(posted).ids
    BY <1>2, <1>3, UnreadBefore DEF EventOk, OfRead, Unread
  <1>5. ToBeCounted(i) => ToBeCounted(i)'
    BY <1>3, UnreadWay
  <1> DEFINE c == Head(posted).conversation
  <1>6. list' = list \/ (c \in DOMAIN list /\ list' = With(list, c, list[c] \ Head(posted).ids))
    BY DEF HandleRead
  <1> HIDE DEF c
  <1> QED BY <1>3, <1>4, <1>5, <1>6 DEF With, Listed, Counted

\* Unread messages stay counted or on their way.
LEMMA CountNext ==
    ASSUME RangeInv, CountInv, Next
    PROVE  CountInv'
  <1>1. Grows /\ NewIsUnsent
    BY NextRange DEF Steady
  <1>2. ListStep /\ AskingStep /\ HistoryStep
    BY NextSteps
  <1> SUFFICES ASSUME NEW i \in Ids', Unread(i)'
               PROVE  /\ Listed(i)' => Counted(i)'
                      /\ ~Listed(i)' /\ Asking' /\ ConversationOf(i)' = Open'
                            => ToBeCounted(i)'
    BY DEF CountInv
  <1>3. CASE i \notin Ids
    <2>1. i \in unsent'
      BY <1>1, <1>3 DEF NewIsUnsent
    <2> QED BY <2>1 DEF Counted, ToBeCounted, Streamed
  <1>4. CASE i \in Ids /\ GetConversations
    <2>1. Ids' = Ids /\ UNCHANGED <<messages, isRead>> /\ gui' = "idle"
          /\ list' = [c \in alive |-> UnreadOf(c, FALSE)]
      BY <1>4 DEF GetConversations, serverVars, Ids
    <2>2. i \in UnreadOf(ConversationOf(i), FALSE) /\ ConversationOf(i)' = ConversationOf(i)
      BY <1>4, <2>1, IdsAreNumbers
         DEF RangeInv, UnreadOf, Unread, FromOther, ConversationOf, MessageRow
    <2> QED BY <2>1, <2>2 DEF Listed, Counted, Asking
  <1>5. CASE i \in Ids /\ ~GetConversations
    <2>1. Unread(i) /\ ConversationOf(i)' = ConversationOf(i)
      BY <1>5, UnreadBefore
    <2>2. /\ Listed(i) => Counted(i)
          /\ ~Listed(i) /\ Asking /\ ConversationOf(i) = Open => ToBeCounted(i)
      BY <1>5, <2>1 DEF CountInv
    <2>3. ToBeCounted(i) /\ ~SignOut /\ ~HandleUnread => ToBeCounted(i)'
      BY <1>5, UnreadWay
    <2>4. Listed(i)' => Counted(i)'
      <3> SUFFICES ASSUME ConversationOf(i) \in DOMAIN list'
                   PROVE  \/ i \in list'[ConversationOf(i)] \/ i \in overlooked'
                          \/ ToBeCounted(i)'
        BY <2>1 DEF Listed, Counted
      <3>1. CASE SignOut
        BY <3>1 DEF SignOut
      <3>2. CASE HandleUnread
        BY <1>5, <2>2, <3>2, HandleUnreadCount
      <3>3. CASE Show
        BY <1>5, <2>2, <3>3, ShowCount
      <3>4. CASE HandleRead
        BY <1>5, <2>2, <3>4, HandleReadCount
      <3>5. CASE GetConversations
        BY <1>5, <3>5
      <3>6. CASE \E c \in Conversations : DeleteConversation(c)
        <4>1. PICK c \in Conversations : DeleteConversation(c)
          BY <3>6
        <4>2. ~SignOut /\ ~HandleUnread
          <5>1. c \in DOMAIN list /\ c \notin DOMAIN list'
            BY <4>1 DEF DeleteConversation
          <5>2. HandleUnread => DOMAIN list \subseteq DOMAIN list'
            BY DEF HandleUnread, With
          <5>3. ~SignOut
            BY <4>1 DEF DeleteConversation, SignOut
          <5> QED BY <5>1, <5>2, <5>3
        <4>3. list' = [d \in DOMAIN list \ {c} |-> list[d]]
          BY <4>1 DEF DeleteConversation
        <4> QED BY <1>2, <2>2, <2>3, <4>2, <4>3 DEF Listed, Counted, HistoryStep
      <3>7. CASE list' = list /\ ~SignOut /\ ~HandleUnread
        BY <1>2, <2>2, <2>3, <3>7 DEF Listed, Counted, HistoryStep
      <3> QED BY <1>2, <3>1, <3>2, <3>3, <3>4, <3>5, <3>6, <3>7 DEF ListStep
    <2>5. ~Listed(i)' /\ Asking' /\ ConversationOf(i)' = Open' => ToBeCounted(i)'
      <3> SUFFICES ASSUME ConversationOf(i) \notin DOMAIN list', Asking',
                          ConversationOf(i) = Open'
                   PROVE  ToBeCounted(i)'
        BY <2>1 DEF Listed
      <3>1. CASE Asking /\ objects' = objects
        <4>1. list' = list /\ ~SignOut /\ ~HandleUnread /\ Open' = Open
          BY <1>2, <3>1, AskingList DEF Open
        <4> QED BY <2>2, <2>3, <3>1, <4>1 DEF Listed
      <3>2. CASE \E c \in Conversations : Click(c)
        <4>1. PICK c \in Conversations : Click(c)
          BY <3>2
        <4>2. Open' = c /\ c \in DOMAIN list /\ list' = list
          BY <4>1, ClickRange DEF Click, shownVars
        <4> QED BY <4>2
      <3>3. CASE \E c \in Conversations : CreateConversation(c)
        <4>1. PICK c \in Conversations : CreateConversation(c)
          BY <3>3
        <4>2. Open' = c /\ c \in unused
          BY <4>1, CreateRange DEF CreateConversation
        <4> QED BY <1>5, <4>2 DEF RangeInv, ServerInv
      <3> QED BY <1>2, <3>1, <3>2, <3>3 DEF AskingStep
    <2> QED BY <2>4, <2>5
  <1> QED BY <1>3, <1>4, <1>5

-----------------------------------------------------------------------------
\* A row goes with its conversation only.
LEMMA RowKept ==
    ASSUME RangeInv, ListStep, NEW c \in DOMAIN list, c \in alive', signedIn'
    PROVE  c \in DOMAIN list'
  <1>1. CASE GetConversations
    BY <1>1 DEF GetConversations, serverVars
  <1>2. CASE SignOut
    BY <1>2 DEF SignOut
  <1>3. CASE Show
    BY <1>3 DEF Show, With
  <1>4. CASE HandleUnread
    BY <1>4 DEF HandleUnread, With
  <1>5. CASE HandleRead
    BY <1>5 DEF HandleRead, With
  <1>6. CASE \E d \in Conversations : DeleteConversation(d)
    BY <1>6 DEF DeleteConversation
  <1> QED BY <1>1, <1>2, <1>3, <1>4, <1>5, <1>6 DEF ListStep

\* And their conversation keeps its row, or gets one.
LEMMA RowNext ==
    ASSUME RangeInv, RowInv, Next
    PROVE  RowInv'
  <1>1. Grows /\ NewIsUnsent
    BY NextRange DEF Steady
  <1>2. ListStep /\ AskingStep /\ SessionStep
    BY NextSteps
  <1> SUFFICES ASSUME signedIn', gui' # "list",
                      NEW i \in Ids', Unread(i)', ConversationOf(i)' \in alive'
               PROVE  \/ Listed(i)' \/ ToBeCounted(i)'
                      \/ Asking' /\ ConversationOf(i)' = Open'
    BY DEF RowInv
  <1>3. CASE i \notin Ids
    <2>1. i \in unsent'
      BY <1>1, <1>3 DEF NewIsUnsent
    <2> QED BY <2>1 DEF ToBeCounted, Streamed
  <1>4. CASE i \in Ids /\ GetConversations
    BY <1>4 DEF GetConversations, serverVars, Listed, ConversationOf
  <1>5. CASE i \in Ids /\ ~GetConversations
    <2>1. Unread(i) /\ ConversationOf(i)' = ConversationOf(i)
      BY <1>5, UnreadBefore
    <2>2. ConversationOf(i) \in alive' /\ ConversationOf(i) \in alive
      BY <1>2, <1>5, <2>1 DEF SessionStep, RangeInv, ServerInv
    <2>3. CASE signedIn /\ gui # "list"
      <3>1. Listed(i) \/ ToBeCounted(i) \/ (Asking /\ ConversationOf(i) = Open)
        BY <1>5, <2>1, <2>2, <2>3 DEF RowInv
      <3>2. CASE Listed(i)
        BY <1>2, <2>1, <2>2, <3>2, RowKept DEF Listed
      <3>3. CASE ToBeCounted(i)
        <4>1. ~SignOut
          BY DEF SignOut
        <4>2. CASE HandleUnread /\ i \in Head(posted).ids
          <5>1. ConversationOf(i) \in DOMAIN list'
            BY <2>3, <4>2, HandledUnread DEF With
          <5> QED BY <2>1, <5>1 DEF Listed
        <4> QED BY <1>5, <3>3, <4>1, <4>2, UnreadWay
      <3>4. CASE Asking /\ ConversationOf(i) = Open
        <4>1. CASE Show
          <5>1. Open \in DOMAIN list'
            BY <4>1 DEF Show, With
          <5> QED BY <2>1, <3>4, <5>1 DEF Listed
        <4>2. CASE Asking' /\ objects' = objects
          BY <2>1, <3>4, <4>2 DEF Open
        <4> QED BY <1>2, <3>4, <4>1, <4>2 DEF AskingStep
      <3> QED BY <3>1, <3>2, <3>3, <3>4
    <2> QED BY <1>2, <1>5, <2>3 DEF SessionStep
  <1> QED BY <1>3, <1>4, <1>5

\* Nothing changes.
LEMMA ListStutter ==
    ASSUME UNCHANGED vars
    PROVE  (CountInv => CountInv') /\ (RowInv => RowInv')
  BY DEF CountInv, RowInv, vars, serverVars, streamVars, shownVars, guiVars, Ids, Open, Unread,
         Listed, Counted, Asking, FromOther, ConversationOf, ToBeCounted, Streamed, Posted

\* When nothing is on its way, nothing is still to be counted.
LEMMA QuietIsCounted ==
    ASSUME Quiet, NEW i
    PROVE  ~ToBeCounted(i)
  BY RangeOfEmpty DEF Quiet, ToBeCounted, Streamed, Posted, Idle

\* Once nothing is on its way, a row of the list counts every message the server holds
\* unread, for either member of a conversation, but for two kinds: those that no stream
\* was written for since the list was asked for (missed), and those that were stored
\* when the row was made by GetConversation, which is not told who asks and answers for
\* the member with the lower id (backend.cpp:884-918, overlooked).
THEOREM ListCorrect == Spec => []UnreadIsListed
  <1>1. Init => RangeInv /\ CountInv
    <2>1. Init => Ids = {}
      BY DEF Init, Ids
    <2> QED BY <2>1, InitRange DEF CountInv
  <1>2. RangeInv /\ CountInv /\ [Next]_vars => RangeInv' /\ CountInv'
    BY StepRange, CountNext, ListStutter
  <1>3. RangeInv /\ CountInv => UnreadIsListed
    <2> SUFFICES ASSUME RangeInv, CountInv, Quiet, NEW c \in DOMAIN list,
                        NEW i \in UnreadOf(c, FALSE) \ (missed \cup overlooked)
                 PROVE  i \in list[c]
      BY DEF UnreadIsListed
    <2>1. i \in Ids /\ Unread(i) /\ ConversationOf(i) = c
      BY DEF UnreadOf, Unread, FromOther, ConversationOf
    <2> QED BY <2>1, QuietIsCounted DEF CountInv, Counted, Listed
  <1> QED BY <1>1, <1>2, <1>3, PTL DEF Spec

\* Once nothing is on its way, a message that the client was told of has a row to be
\* counted in, or was read, or its conversation was deleted: the row comes with the
\* list, with the answer that opens a conversation, or by asking when unreadMessage
\* names a conversation that is not listed (main.cpp:96-109).
THEOREM RowsCorrect == Spec => []UnreadHasRow
  <1>1. Init => RangeInv /\ RowInv
    <2>1. Init => Ids = {}
      BY DEF Init, Ids
    <2> QED BY <2>1, InitRange DEF RowInv
  <1>2. RangeInv /\ RowInv /\ [Next]_vars => RangeInv' /\ RowInv'
    BY StepRange, RowNext, ListStutter
  <1>3. RangeInv /\ RowInv => UnreadHasRow
    <2> SUFFICES ASSUME RowInv, Quiet, NEW i \in Ids \ (isRead \cup missed),
                        ~messages[i].own, messages[i].conversation \in alive
                 PROVE  messages[i].conversation \in DOMAIN list
      BY DEF UnreadHasRow
    <2>1. Unread(i) /\ ConversationOf(i) \in alive /\ ~ToBeCounted(i)
      BY QuietIsCounted DEF Unread, FromOther, ConversationOf
    <2>2. signedIn /\ gui # "list" /\ ~Asking
      BY DEF Quiet, Asking
    <2>3. Listed(i)
      BY <2>1, <2>2 DEF RowInv
    <2> QED BY <2>3 DEF Listed, ConversationOf
  <1> QED BY <1>1, <1>2, <1>3, PTL DEF Spec
=============================================================================
