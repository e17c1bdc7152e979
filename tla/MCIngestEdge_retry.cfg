SPECIFICATION EdgeSpec
CONSTANTS
    Sites = {s1}
    SeedSites = {s1}
    Creators = {}
    Apis = {a1}
    Requests = {r1, r2}
    Batches = {b1}
    Loads = {x1}
    Faults = {"kafka"}
    MaxFaults = 1
INVARIANTS
    RetryAnswered202IsSafe
CHECK_DEADLOCK FALSE
