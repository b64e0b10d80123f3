CONSTANTS
    r1 = r1
    r2 = r2
    r3 = r3
    v1 = v1
    c1 = c1
    c2 = c2
    k1 = k1
    None = None
    ResponseIds = {r1, r2, r3}
    ConversationIds = {v1}
    Clients = {c1, c2}
    Limits <- SmallLimits
    Chain <- SmallChain
    MaxNodes = 8
    Documents <- SomeDocuments
    Scripts <- SomeScripts
    Replies <- SomeReplies
    PendingLimit = 1
SPECIFICATION Spec
INVARIANTS
    EchoIsAccepted
    HistoryCanBeResent
    AcceptedFitsTheLimits
    ConversationsAreFreed
    SequentialTurnsStayInBounds
    TranscriptIsComplete
CHECK_DEADLOCK FALSE
