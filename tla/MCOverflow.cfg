CONSTANTS
    r1 = r1
    None = None
    Responses = {r1}
    Tenants = {}
    Id = r1
    Bodies <- NoBodies
    TerminalBodies <- NoBodies
    Capacity = 4
    MaxLogs = 1
    RetainFor = 1
    TombstoneFactor = 1
    MaxCalls = 2
    Asides = {"reasoning"}
    MaxAsides = 1
    Page = 3
SPECIFICATION Spec
INVARIANTS CompletedOutputIsRetained
CHECK_DEADLOCK FALSE
