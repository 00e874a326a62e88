SPECIFICATION Spec
CONSTANTS
    Conversations = {c1}
    NoConversation = NoConversation
    OwnIdLower = {c1}
    MaxMessages = 2
    MaxOpens = 1
    MaxSessions = 2
INVARIANTS
    TypeOK
    NothingMissed
    UnreadIsListed
    UnreadHasRow
CHECK_DEADLOCK FALSE
