SPECIFICATION Spec
CONSTANTS
    Responses = {r1, r2, r3}
    Agents = {a1, a2}
    Keys = {k1, k2}
    Tenants = {t1, t2}
    Specs = {s1}
    Usages = {0, 1}
    None = None
    HeartbeatTtl = 0
    MaxRecords = 2
    PendingLimits = {0, 2}
    UsageCap = 1
SYMMETRY LedgerSymmetry
INVARIANTS
    QueuedExactlyOnce
    AtMostOneGrant
    FenceAdmitsOnlyTheOwner
    OneResponsePerKey
PROPERTIES
    RecordsOnlyMoveForward
