SPECIFICATION Spec
CONSTANTS
    Responses = {r1, r2}
    Tenants = {t1, t2}
    None = None
    Conversations = {c1, c2}
    Outputs = {done}
    MaxConversations = 1
    MaxEvents = 5
SYMMETRY ConversationSymmetry
INVARIANTS
    MarkerIsAnnounced
    TurnsDoNotOverlap
    StartedTurnsAreAccountedFor
    TurnsArchivedOnce
PROPERTIES
    HistoryIsAppendOnly
