SPECIFICATION Spec
CONSTANTS
    Conversations = {c1, c2}
    NoConversation = NoConversation
    OwnIdLower = {c1}
    MaxMessages = 2
    MaxOpens = 2
    MaxSessions = 1
INVARIANTS
    TypeOK
    NothingMissed
    UnreadIsListed
    UnreadHasRow
CHECK_DEADLOCK FALSE
