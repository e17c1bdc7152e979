SPECIFICATION PipelineSpec
CONSTANTS
    p1 = p1
    p2 = p2
    Sites = {s1}
    SeedSites = {s1}
    Creators = {}
    Apis = {a1}
    Requests = {r1, r2}
    Batches = {b1}
    Codes = {p1, p2}
    Instants = {1}
    Loads <- MCLoadsEdited
    Heavy = {}
    MonthOf <- MCMonthOf
    Consumers = {k1}
    MaxLog = 2
    MaxMonth = 1
    Faults = {"forget"}
    MaxFaults = 1
INVARIANTS
    PayloadChangeIsDropped
CHECK_DEADLOCK FALSE
