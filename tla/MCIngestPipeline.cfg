SPECIFICATION PipelineFairSpec
CONSTANTS
    p1 = p1
    p2 = p2
    Sites = {s1, s2}
    SeedSites = {s1}
    Creators = {c1}
    Apis = {a1}
    Requests = {r1, r2}
    Batches = {b1}
    Codes = {p1, p2}
    Instants = {1}
    Loads <- MCLoadsPoison
    Heavy <- MCHeavy
    MonthOf <- MCMonthOf
    Consumers = {k1, k2}
    MaxLog = 2
    MaxMonth = 1
    Faults = {"kafka", "crash", "commit", "rebalance"}
    MaxFaults = 2
INVARIANTS
    GivenUpSitesWereNew
PROPERTIES
    EndToEndLedger
    AcceptedIsStored
CHECK_DEADLOCK FALSE
