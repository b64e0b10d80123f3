SPECIFICATION Spec
CONSTANTS
    Responses = {r1}
    Tenants = {t1}
    None = None
    Agents = {r1}
    Keys = {r1}
    Specs = {turn}
    Usages = {0, 1}
    HeartbeatTtl = 0
    MaxRecords = 2
    PendingLimits = {2}
    Bodies = {"created", "in_progress", "delta", "completed", "incomplete", "failed"}
    TerminalBodies = {"completed", "incomplete", "failed"}
    Capacity = 6
    MaxLogs = 2
    RetainFor = 1
    TombstoneFactor = 1
    Conversations = {c1}
    Outputs = {0, 1}
    MaxConversations = 1
    MaxEvents = 6
    Owner = t1
    ConvOf <- OneConversation
    KeyOf <- OwnKey
    Stored = {r1}
    MaxDepth = 3
    MaxDeltas = 1
    RunOutcomes = {"completed"}
    Cancellable = {r1}
    Deletable = {r1}
    Droppable = {c1}
    Degradable = TRUE
    MaxCrashes = 0
    Ticking = TRUE
INVARIANTS
    StreamAgreesWithLedger
    TailHasCommitted
