SPECIFICATION EdgeSpec
CONSTANTS
    Sites = {s1}
    SeedSites = {s1}
    Creators = {}
    Apis = {a1}
    Requests = {r1}
    Batches = {b1}
    Loads = {x1}
    Faults = {"redis"}
    MaxFaults = 1
PROPERTIES
    ColdProcessFallsBack
CHECK_DEADLOCK FALSE
