----------------------------- MODULE ClientView ------------------------------
(***************************************************************************)
(* What a converse client shows (exe_client/src/backend.cpp, main.cpp,     *)
(* main.qml) and what its server has.  The window's thread asks one thing  *)
(* at a time and shows the answer; two streams of the server are read by   *)
(* threads of gRPC, whose callbacks post events to the window's thread.    *)
(* A message may be in an answer, in a stream, in the posted events, or on *)
(* the server thread between its COMMIT and the stream's Write.            *)
(*                                                                         *)
(* The server is module Service's; here it is its answers and its streams. *)
(* Messages are numbered as they are stored.                               *)
(***************************************************************************)
EXTENDS Integers, Sequences, FiniteSets

CONSTANTS
    Conversations,
    NoConversation,  \* conversation_ and conversation_id_ when null
    OwnIdLower,      \* those with a user whose id is above the window's user's
    MaxMessages,     \* bound: messages
    MaxOpens,        \* bound: conversations opened in a session
    MaxSessions      \* bound: times the user signs in

ASSUME ViewAssumption ==
    /\ NoConversation \notin Conversations
    /\ OwnIdLower \subseteq Conversations
    /\ MaxMessages \in Nat /\ MaxOpens \in Nat /\ MaxSessions \in Nat

VARIABLES
    messages,   \* server: [conversation, own] of each message
    isRead,     \* server: messages.is_read
    deleted,    \* server: messages.is_deleted
    unsent,     \* server: messages committed and not written to the stream yet
    alive,      \* server: conversations that are not deleted
    unused,     \* server: conversations that are not created yet
    pending,    \* server: the session's calls for streams that it has not got to
    writers,    \* server: which of the session's two streams it has registered
    ending,     \* server: for each stream, the cancelled calls that have not ended
    stream,     \* ReceiveMessage: the messages on their way
    readStream, \* ReceiveReadMessages: the sets of ids on their way
    signedIn,   \* user_ is set
    sessions,   \* times the user has signed in
    objects,    \* the Conversation objects of the session, the last one being
                \* conversation_: the id and the unread ids each was made with
    list,       \* conversations_model: unread ids by conversation listed
    view,       \* messages_model: its conversation and its messages
    gui,        \* where the window's thread is in a request
    fetched,    \* what GetMessages answered
    posted,     \* events posted to the window's thread
    reader,     \* where ReceiveMessage's callback is
    missed,     \* history: messages of the session that no stream was written
                \* for, there being no writer
    overlooked  \* history: unread messages that an answer to GetConversation
                \* left out

serverVars == <<messages, isRead, deleted, alive, unused>>
streamVars == <<unsent, pending, writers, ending, stream, readStream, missed>>
shownVars == <<list, view, overlooked>>
guiVars == <<gui, fetched>>
vars == <<serverVars, streamVars, shownVars, guiVars, posted, reader,
          signedIn, sessions, objects>>

Streams == {"messages", "reads"}
Ids == DOMAIN messages
Open == IF objects = <<>> THEN NoConversation ELSE objects[Len(objects)].conversation
UnreadOf(c, own) ==
    {i \in Ids : messages[i].conversation = c /\ messages[i].own = own /\ i \notin isRead}
SeqOf(S) == \* the members of a set of numbers in their order
    [k \in 1 .. Cardinality(S) |-> CHOOSE i \in S : Cardinality({j \in S : j < i}) = k - 1]
With(f, c, ids) == [d \in DOMAIN f \cup {c} |-> IF d = c THEN ids ELSE f[d]]

Idle == [at |-> "idle", id |-> 0, object |-> 0]
Event(kind, c, ids) == [kind |-> kind, conversation |-> c, ids |-> ids]

-----------------------------------------------------------------------------
Init ==
    /\ messages = <<>> /\ isRead = {} /\ deleted = {} /\ unsent = {}
    /\ unused \in SUBSET Conversations /\ alive = Conversations \ unused
    /\ pending = {} /\ writers = {} /\ ending = [w \in Streams |-> 0]
    /\ stream = <<>> /\ readStream = <<>> /\ missed = {}
    /\ signedIn = FALSE /\ sessions = 0 /\ objects = <<>>
    /\ list = [c \in {} |-> {}] /\ overlooked = {}
    /\ view = [conversation |-> NoConversation, ids |-> <<>>]
    /\ gui = "idle" /\ fetched = <<>>
    /\ posted = <<>> /\ reader = Idle

(* The server.                                                             *)

Store(c, own) ==
    /\ Len(messages) < MaxMessages
    /\ messages' = Append(messages, [conversation |-> c, own |-> own])
    /\ unsent' = unsent \cup {Len(messages) + 1}
    /\ UNCHANGED <<isRead, deleted, alive, unused, pending, writers, ending, stream,
                   readStream, missed>>

\* The other user sends, also into a conversation that was deleted.
PeerSends(c) ==
    /\ c \notin unused
    /\ Store(c, FALSE)
    /\ UNCHANGED <<shownVars, guiVars, posted, reader, signedIn, sessions, objects>>

\* The other user creates a conversation: nobody tells this client of it.
PeerCreates(c) ==
    /\ c \in unused
    /\ unused' = unused \ {c} /\ alive' = alive \cup {c}
    /\ UNCHANGED <<messages, isRead, deleted, streamVars, shownVars, guiVars,
                   posted, reader, signedIn, sessions, objects>>

\* SendMessage's Write, for a user whose stream is registered.
Notify(i) ==
    /\ i \in unsent
    /\ unsent' = unsent \ {i}
    /\ IF "messages" \in writers
       THEN stream' = Append(stream, i) /\ UNCHANGED missed
       ELSE missed' = missed \cup {i} /\ UNCHANGED stream
    /\ UNCHANGED <<serverVars, pending, writers, ending, readStream, shownVars,
                   guiVars, posted, reader, signedIn, sessions, objects>>

\* The server gets to one of the calls that the session began with.
Registered(w) ==
    /\ w \in pending
    /\ pending' = pending \ {w} /\ writers' = writers \cup {w}
    /\ UNCHANGED <<serverVars, unsent, ending, stream, readStream, missed, shownVars,
                   guiVars, posted, reader, signedIn, sessions, objects>>

\* A cancelled call ends, and clears the user's writer, whosever that is now.
EndCancelled(w) ==
    /\ ending[w] > 0
    /\ ending' = [ending EXCEPT ![w] = @ - 1]
    /\ writers' = writers \ {w}
    /\ UNCHANGED <<serverVars, unsent, pending, stream, readStream, missed, shownVars,
                   guiVars, posted, reader, signedIn, sessions, objects>>

\* ReadMessages, for whatever conversation it is told: the ids decide.  It
\* fails, and tells nobody, when none is another user's.  Its COMMIT and its
\* Write are one step.
MarkRead(c, ids) ==
    /\ isRead' = isRead \cup {i \in ids : ~messages[i].own}
    /\ readStream' = IF "reads" \in writers /\ \E i \in ids : ~messages[i].own
                     THEN Append(readStream, Event("read", c, ids)) ELSE readStream
    /\ UNCHANGED <<messages, deleted, alive, unused, unsent, pending, writers, ending,
                   stream, missed>>

-----------------------------------------------------------------------------
(* The window's thread: requests.                                          *)

\* SigninUser: set_user starts the streams and announces the user, ...
SignIn ==
    /\ ~signedIn /\ gui = "idle" /\ sessions < MaxSessions
    /\ signedIn' = TRUE /\ sessions' = sessions + 1
    /\ pending' = Streams
    /\ gui' = "list"
    /\ UNCHANGED <<serverVars, unsent, writers, ending, stream, readStream, missed,
                   shownVars, fetched, posted, reader, objects>>

\* ... whereupon the window asks for the conversations: whatever was not told to
\* the client so far is in this answer or in one to come.
GetConversations ==
    /\ gui = "list"
    /\ list' = [c \in alive |-> UnreadOf(c, FALSE)]
    /\ gui' = "idle" /\ missed' = {}
    /\ UNCHANGED <<serverVars, unsent, pending, writers, ending, stream, readStream,
                   view, overlooked, fetched, posted, reader, signedIn, sessions, objects>>

\* set_user(nullptr) cancels the streams and awaits them, a callback included.
\* The server's calls end later.
SignOut ==
    /\ signedIn /\ gui = "idle" /\ reader = Idle
    /\ signedIn' = FALSE /\ objects' = <<>>
    /\ list' = [c \in {} |-> {}] /\ overlooked' = {}
    /\ view' = [conversation |-> NoConversation, ids |-> <<>>]
    /\ pending' = {} /\ writers' = {} /\ ending' = [w \in Streams |-> ending[w] + 1]
    /\ stream' = <<>> /\ readStream' = <<>>
    /\ UNCHANGED <<serverVars, unsent, missed, guiVars, posted, reader, sessions>>

\* A click: set_conversation with the unread ids that the list has now.
Click(c) ==
    /\ signedIn /\ gui = "idle" /\ c \in DOMAIN list /\ Len(objects) < MaxOpens
    /\ objects' = Append(objects, [conversation |-> c, unread |-> list[c]])
    /\ gui' = "fetch"
    /\ UNCHANGED <<serverVars, streamVars, shownVars, fetched, posted, reader,
                   signedIn, sessions>>

\* CreateConversation: its answer is opened before it is listed.
CreateConversation(c) ==
    /\ signedIn /\ gui = "idle" /\ c \in unused /\ Len(objects) < MaxOpens
    /\ unused' = unused \ {c} /\ alive' = alive \cup {c}
    /\ objects' = Append(objects, [conversation |-> c, unread |-> {}])
    /\ gui' = "fetch"
    /\ UNCHANGED <<messages, isRead, deleted, streamVars, shownVars, fetched,
                   posted, reader, signedIn, sessions>>

\* GetMessages, which onConversationChanged calls.
GetMessages ==
    /\ gui = "fetch"
    /\ fetched' = SeqOf({i \in Ids \ deleted : messages[i].conversation = Open})
    /\ gui' = IF objects[Len(objects)].unread = {} THEN "show" ELSE "mark"
    /\ UNCHANGED <<serverVars, streamVars, shownVars, posted, reader, signedIn,
                   sessions, objects>>

\* ReadMessages for the unread ids that conversation_ was made with.
ReadUnread ==
    /\ gui = "mark"
    /\ MarkRead(Open, objects[Len(objects)].unread)
    /\ gui' = "show"
    /\ UNCHANGED <<shownVars, fetched, posted, reader, signedIn, sessions, objects>>

\* getMessagesResponse; the old Conversation is deleted after it, and then one
\* that was created is listed.
Show ==
    /\ gui = "show"
    /\ view' = [conversation |-> Open, ids |-> fetched]
    /\ list' = IF Open \in DOMAIN list THEN list ELSE With(list, Open, {})
    /\ gui' = "idle" /\ fetched' = <<>>
    /\ UNCHANGED <<serverVars, streamVars, overlooked, posted, reader, signedIn,
                   sessions, objects>>

\* SendMessage answers after the streams were written to.
Send ==
    /\ signedIn /\ gui = "idle" /\ Open # NoConversation
    /\ Store(Open, TRUE)
    /\ gui' = "send"
    /\ UNCHANGED <<shownVars, fetched, posted, reader, signedIn, sessions, objects>>

Sent ==
    /\ gui = "send" /\ \A i \in unsent : ~messages[i].own
    /\ gui' = "idle"
    /\ UNCHANGED <<serverVars, streamVars, shownVars, fetched, posted, reader,
                   signedIn, sessions, objects>>

\* DeleteMessage and MessagesModel::remove, by the row of the menu's message.
DeleteMessage(row) ==
    /\ signedIn /\ gui = "idle" /\ row \in DOMAIN view.ids
    /\ deleted' = deleted \cup {view.ids[row]}
    /\ view' = [view EXCEPT !.ids =
           [k \in 1 .. Len(@) - 1 |-> IF k < row THEN @[k] ELSE @[k + 1]]]
    /\ UNCHANGED <<messages, isRead, alive, unused, streamVars, list, overlooked,
                   guiVars, posted, reader, signedIn, sessions, objects>>

DeleteConversation(c) ==
    /\ signedIn /\ gui = "idle" /\ c \in DOMAIN list
    /\ alive' = alive \ {c}
    /\ list' = [d \in DOMAIN list \ {c} |-> list[d]]
    /\ UNCHANGED <<messages, isRead, deleted, unused, streamVars, view, overlooked,
                   guiVars, posted, reader, signedIn, sessions, objects>>

-----------------------------------------------------------------------------
(* The window's thread: posted events, in their order.                     *)

Handle(kind) ==
    /\ gui = "idle" /\ posted # <<>> /\ Head(posted).kind = kind
    /\ posted' = Tail(posted)
    /\ UNCHANGED <<serverVars, streamVars, guiVars, reader, signedIn, sessions, objects>>

\* A mutant: shown whatever conversation is on view.
HandleMessageOfAny ==
    /\ Handle("message")
    /\ view' = IF view.conversation # NoConversation
               THEN [view EXCEPT !.ids = Append(@, CHOOSE i \in Head(posted).ids : TRUE)]
               ELSE view
    /\ UNCHANGED <<list, overlooked>>

\* receiveMessageResponse: shown if its conversation is the one on view.
HandleMessage ==
    /\ Handle("message")
    /\ view' = IF view.conversation = Head(posted).conversation
               THEN [view EXCEPT !.ids = Append(@, CHOOSE i \in Head(posted).ids : TRUE)]
               ELSE view
    /\ UNCHANGED <<list, overlooked>>

\* A mutant: a conversation that is not listed is left alone.
HandleUnreadListed ==
    /\ Handle("unread")
    /\ LET c == Head(posted).conversation
       IN  list' = IF c \in DOMAIN list
                   THEN With(list, c, list[c] \cup Head(posted).ids) ELSE list
    /\ UNCHANGED <<view, overlooked>>

\* unreadMessage: an unknown conversation is asked for.  GetConversation is
\* not told the user: the unread ids are those of the member with the lower id.
HandleUnread ==
    /\ Handle("unread")
    /\ LET c == Head(posted).conversation
           answer == UnreadOf(c, c \in OwnIdLower)
       IN  \/ /\ c \in DOMAIN list
              /\ list' = With(list, c, list[c] \cup Head(posted).ids)
              /\ UNCHANGED overlooked
           \/ /\ c \notin DOMAIN list /\ signedIn
              /\ list' = With(list, c, answer)
              /\ overlooked' = overlooked \cup (UnreadOf(c, FALSE) \ answer)
           \/ /\ c \notin DOMAIN list /\ ~signedIn
              /\ UNCHANGED <<list, overlooked>>
    /\ UNCHANGED view

\* A mutant: what was read is taken for all that was unread.
HandleReadAll ==
    /\ Handle("read")
    /\ LET c == Head(posted).conversation
       IN  list' = IF c \in DOMAIN list THEN With(list, c, {}) ELSE list
    /\ UNCHANGED <<view, overlooked>>

\* receiveReadMessagesResponse.
HandleRead ==
    /\ Handle("read")
    /\ LET c == Head(posted).conversation
       IN  list' = IF c \in DOMAIN list THEN With(list, c, list[c] \ Head(posted).ids)
                   ELSE list
    /\ UNCHANGED <<view, overlooked>>

-----------------------------------------------------------------------------
(* The readers' threads.                                                   *)

\* ReceiveMessage's callback loads conversation_; its own message is shown.
Receive ==
    /\ reader = Idle /\ stream # <<>>
    /\ stream' = Tail(stream)
    /\ reader' = [at |-> IF messages[Head(stream)].own THEN "show" ELSE "compare",
                  id |-> Head(stream), object |-> Len(objects)]
    /\ UNCHANGED <<serverVars, unsent, pending, writers, ending, readStream, missed,
                   shownVars, guiVars, posted, signedIn, sessions, objects>>

\* The window's thread deletes a Conversation once another is shown.
Freed(k) ==
    \/ k < Len(objects) - 1
    \/ k = Len(objects) - 1 /\ gui \notin {"fetch", "mark", "show"}

\* Is it for the conversation that is open?  The object may be gone by now:
\* then what is read of it may be anything.
Compare ==
    LET c == messages[reader.id].conversation
    IN  /\ reader.at = "compare"
        /\ \E same \in BOOLEAN :
               /\ reader.object = 0 => ~same
               /\ reader.object # 0 /\ ~Freed(reader.object)
                      => same = (objects[reader.object].conversation = c)
               /\ reader' = [reader EXCEPT !.at = IF same THEN "read" ELSE "show"]
               /\ posted' = IF same THEN posted
                            ELSE Append(posted, Event("unread", c, {reader.id}))
        /\ UNCHANGED <<serverVars, streamVars, shownVars, guiVars, signedIn,
                       sessions, objects>>

\* requestReadMessages, with the id of whatever conversation_ is now.
ReadAtOnce ==
    /\ reader.at = "read"
    /\ MarkRead(Open, {reader.id})
    /\ reader' = [reader EXCEPT !.at = "show"]
    /\ UNCHANGED <<shownVars, guiVars, posted, signedIn, sessions, objects>>

\* A mutant: a message that was marked read at once is not shown.
EmitUnlessOpen ==
    /\ reader.at = "show"
    /\ posted' = IF messages[reader.id].own \/ Open # messages[reader.id].conversation
                 THEN Append(posted, Event("message", messages[reader.id].conversation,
                                           {reader.id}))
                 ELSE posted
    /\ reader' = Idle
    /\ UNCHANGED <<serverVars, streamVars, shownVars, guiVars, signedIn, sessions, objects>>

Emit ==
    /\ reader.at = "show"
    /\ posted' = Append(posted, Event("message", messages[reader.id].conversation,
                                      {reader.id}))
    /\ reader' = Idle
    /\ UNCHANGED <<serverVars, streamVars, shownVars, guiVars, signedIn, sessions, objects>>

\* ReceiveReadMessages' callback.
ReceiveRead ==
    /\ readStream # <<>>
    /\ posted' = Append(posted, Head(readStream))
    /\ readStream' = Tail(readStream)
    /\ UNCHANGED <<serverVars, unsent, pending, writers, ending, stream, missed,
                   shownVars, guiVars, reader, signedIn, sessions, objects>>

-----------------------------------------------------------------------------
Next ==
    \/ \E c \in Conversations : PeerSends(c) \/ PeerCreates(c) \/ Click(c)
                             \/ CreateConversation(c) \/ DeleteConversation(c)
    \/ \E i \in unsent : Notify(i)
    \/ \E w \in Streams : Registered(w) \/ EndCancelled(w)
    \/ SignIn \/ GetConversations \/ SignOut
    \/ GetMessages \/ ReadUnread \/ Show \/ Send \/ Sent
    \/ \E row \in 1 .. MaxMessages : DeleteMessage(row)
    \/ HandleMessage \/ HandleUnread \/ HandleRead
    \/ Receive \/ Compare \/ ReadAtOnce \/ Emit \/ ReceiveRead

Spec == Init /\ [][Next]_vars

-----------------------------------------------------------------------------
(* Properties.                                                             *)

\* Every variable keeps its range, and a message is shown of the conversation
\* that is open only.
TypeOK ==
    /\ messages \in Seq([conversation : Conversations, own : BOOLEAN])
    /\ isRead \subseteq Ids /\ deleted \subseteq Ids
    /\ unsent \subseteq Ids /\ missed \subseteq Ids /\ overlooked \subseteq Ids
    /\ alive \subseteq Conversations \ unused /\ unused \subseteq Conversations
    /\ pending \subseteq Streams /\ writers \subseteq Streams
    /\ ending \in [Streams -> Nat]
    /\ stream \in Seq(Ids)
    /\ signedIn \in BOOLEAN /\ sessions \in 0 .. MaxSessions
    /\ objects \in Seq([conversation : Conversations, unread : SUBSET Ids])
    /\ DOMAIN list \subseteq Conversations
    /\ \A c \in DOMAIN list : list[c] \subseteq Ids
    /\ view.conversation \in Conversations \cup {NoConversation}
    /\ view.ids \in Seq(Ids)
    /\ \A k \in DOMAIN view.ids : messages[view.ids[k]].conversation = view.conversation
    /\ gui \in {"idle", "list", "fetch", "mark", "show", "send"}
    /\ fetched \in Seq(Ids)
    /\ reader.at \in {"idle", "compare", "read", "show"}

\* Nothing is on its way from the server to the window.
Quiet ==
    /\ signedIn /\ gui = "idle" /\ reader = Idle
    /\ unsent = {} /\ stream = <<>> /\ readStream = <<>> /\ posted = <<>>

\* The conversation on view is complete: each of its messages was in the
\* answer to GetMessages or was appended, whichever way it came, unless no
\* stream was written for it because the session's call was not registered
\* yet, or was no longer.
NothingMissed ==
    Quiet => \A i \in Ids \ (deleted \cup missed) :
                 messages[i].conversation = view.conversation
                     => \E k \in DOMAIN view.ids : view.ids[k] = i

\* A message of another user that the server holds unread is among the unread
\* ones of its conversation, when that is listed, whichever of the two members
\* of the conversation the window is for, unless no stream was written for it
\* since the list was asked for, there being no writer (missed), or the row was
\* made by GetConversation for the member with the lower id when the message
\* was already stored (overlooked).
UnreadIsListed ==
    Quiet => \A c \in DOMAIN list :
                 UnreadOf(c, FALSE) \ (missed \cup overlooked) \subseteq list[c]

\* A message that the server told the client of has its conversation listed,
\* or was read, or the conversation was deleted.
UnreadHasRow ==
    Quiet => \A i \in Ids \ (isRead \cup missed) :
                 ~messages[i].own /\ messages[i].conversation \in alive
                     => messages[i].conversation \in DOMAIN list
=============================================================================
