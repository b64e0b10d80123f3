SPECIFICATION FairSpec
CONSTANTS
    Responses = {r1}
    Tenants = {t1}
    None = None
    Agents = {r1}
    Keys = {r1}
    Specs = {turn}
    Usages = {0, 1, 2}
    HeartbeatTtl = 0
    MaxRecords = 2
    PendingLimits = {2}
    Bodies = {"created", "in_progress", "delta", "completed", "incomplete", "failed"}
    TerminalBodies = {"completed", "incomplete", "failed"}
    Capacity = 3
    MaxLogs = 2
    RetainFor = 1
    TombstoneFactor = 2
    Conversations = {c1}
    Outputs = {0, 1, 2}
    MaxConversations = 1
    MaxEvents = 6
    Owner = t1
    ConvOf <- OneConversation
    KeyOf <- OwnKey
    Stored = {r1}
    MaxDepth = 3
    MaxDeltas = 2
    RunOutcomes = {"completed", "incomplete"}
    Cancellable = {r1}
    Deletable = {}
    Droppable = {}
    Degradable = FALSE
    MaxCrashes = 2
    Ticking = TRUE
INVARIANTS
    StreamAgreesWithLedger
    CompletedTurnsKeepTheirOutput
PROPERTIES
    LedgerSpec
    EveryResponseEnds
    EveryMarkerIsFreed
    EveryStreamEnds
