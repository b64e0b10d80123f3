CONSTANTS
    r1 = r1
    None = None
    Responses = {r1}
    Tenants = {}
    Id = r1
    Bodies <- NoBodies
    TerminalBodies <- NoBodies
    Capacity = 6
    MaxLogs = 1
    RetainFor = 1
    TombstoneFactor = 1
    MaxCalls = 4
    Asides = {"reasoning"}
    MaxAsides = 1
    Page = 3
SPECIFICATION Spec
INVARIANTS
    FunnelsAgree
    SeenTokensAreArchived
    ArchivedOnce
    OnlyLaterOutputIsUnchecked
    AnswersAreTrue
CHECK_DEADLOCK FALSE
