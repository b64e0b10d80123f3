SPECIFICATION FairSpec
CONSTANTS
    Responses = {r1, r2}
    Tenants = {}
    None = None
    Bodies = {delta, terminal}
    TerminalBodies = {terminal}
    Capacity = 2
    MaxLogs = 1
    RetainFor = 1
    TombstoneFactor = 2
    Subscribers = {s1}
    Starts <- MCStarts
    Batch = 2
    CloseAges = {0, 1}
    MaxAppends = 4
    MaxDrops = 1
INVARIANTS
    RingHoldsTheTail
    NoSilentGap
PROPERTIES
    SubscribersAreReleased
