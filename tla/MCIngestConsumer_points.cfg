SPECIFICATION Spec
CONSTANTS
    p1 = p1
    p2 = p2
    Sites = {s1}
    Batches = {b1}
    Codes = {p1, p2}
    Instants = {1, 2}
    Loads <- MCLoadsOne
    Heavy = {}
    MonthOf <- MCMonthOf
    Consumers = {c1, c2}
    MaxLog = 2
    MaxMonth = 1
    Faults = {"rebalance"}
    MaxFaults = 1
INVARIANTS
    EveryCodeIsResolved
CHECK_DEADLOCK FALSE
