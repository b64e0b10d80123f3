SPECIFICATION Spec
CONSTANTS
    Responses = {r1, r2}
    Tenants = {t1}
    None = None
    Agents = {r1, r2}
    Keys = {r1, r2}
    Specs = {turn}
    Usages = {0, 1}
    HeartbeatTtl = 0
    MaxRecords = 2
    PendingLimits = {2}
    Bodies = {"created", "in_progress", "delta", "completed", "incomplete", "failed"}
    TerminalBodies = {"completed", "incomplete", "failed"}
    Capacity = 6
    MaxLogs = 2
    RetainFor = 0
    TombstoneFactor = 2
    Conversations = {c1}
    Outputs = {0, 1}
    MaxConversations = 1
    MaxEvents = 6
    Owner = t1
    ConvOf <- OneConversation
    KeyOf <- OwnKey
    Stored = {r1, r2}
    MaxDepth = 3
    MaxDeltas = 1
    RunOutcomes = {"completed"}
    Cancellable = {}
    Deletable = {}
    Droppable = {}
    Degradable = FALSE
    MaxCrashes = 0
    Ticking = FALSE
INVARIANTS
    OneTurnAtATime
