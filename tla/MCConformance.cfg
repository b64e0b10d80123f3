SPECIFICATION Spec
CONSTANTS
    Passes = 1
    Racers = 4
    Limit = 2
    Slots = 7
    Responses <- Minted
    Keys <- Minted
    Tenants <- Minted
    Conversations <- Minted
    Agents = {1, 2, 3, 4, 5, 6, 7, 8, 9, 10, 11, 12, 13, 14, 15, 16, 17, 18, 19, 20, 21, 22, 23, 24}
    None = None
    Specs = {spec}
    Usages = {0, 1}
    HeartbeatTtl = 1
    MaxRecords = 100
    PendingLimits = {50}
    Bodies = {"created", "delta"}
    TerminalBodies = {}
    Capacity = 5
    MaxLogs = 100
    RetainFor = 1
    TombstoneFactor = 2
    Outputs = {0, 1}
    MaxConversations = 100
    MaxEvents = 4
INVARIANT ContractHolds
