SPECIFICATION FairSpec
CONSTANTS
    p1 = p1
    p2 = p2
    Sites = {s1}
    Batches = {b1, b2}
    Codes = {p1, p2}
    Instants = {1, 2}
    Loads <- MCLoadsPoison
    Heavy <- MCHeavy
    MonthOf <- MCMonthOf
    Consumers = {c1}
    MaxLog = 2
    MaxMonth = 1
    Faults = {}
    MaxFaults = 0
PROPERTIES
    PoisonDoesNotBlock
CHECK_DEADLOCK FALSE
