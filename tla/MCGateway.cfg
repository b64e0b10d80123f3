CONSTANTS
    r1 = r1
    r2 = r2
    s1 = s1
    s2 = s2
    c1 = c1
    c2 = c2
    None = None
    Responses = {r1, r2}
    Slots = {s1, s2}
    Intervals = {0, 2}
    Ttl = 1
    Budget = 1
    Connections = {c1, c2}
    Agendas <- SomeAgendas
    Configs <- SomeConfigs
    Keys <- BothKeys
    DrainTimeout = 1
SPECIFICATION Spec
INVARIANTS
    HealthyRunsAreNotReaped
    StopIsBounded
    DrainWaitsForTheAccepted
CHECK_DEADLOCK FALSE
PROPERTIES
    AbandonedRunsEnd
    OnlyStreamsHoldAnExit
