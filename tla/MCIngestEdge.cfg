SPECIFICATION EdgeSpec
CONSTANTS
    Sites = {s1}
    SeedSites = {}
    Creators = {c1}
    Apis = {a1, a2}
    Requests = {r1, r2, r3}
    Batches = {b1}
    Loads = {x1}
    Faults = {"redis", "redis_resend", "kafka", "forget", "restart", "db", "redis_loss"}
    MaxFaults = 3
SYMMETRY Symmetry
INVARIANTS
    EdgeTypeOK
    ClaimsAreBacked
    CopiesAreExcused
    LoggedSitesAreKnown
CHECK_DEADLOCK FALSE
