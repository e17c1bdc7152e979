SPECIFICATION Spec
CONSTANTS
    p1 = p1
    p2 = p2
    Sites = {s1}
    Batches = {b1}
    Codes = {p1, p2}
    Instants = {1, 2}
    Loads <- MCLoadsMixed
    Heavy <- MCHeavy
    MonthOf <- MCMonthOf
    Consumers = {c1, c2}
    MaxLog = 2
    MaxMonth = 2
    Faults = {"db", "commit", "crash", "rebalance"}
    MaxFaults = 3
SYMMETRY Symmetry
INVARIANTS
    ConsumerTypeOK
    OutboxCountsOnce
    DeltasCountOnce
    LateRowsAreStale
    PointsExist
    NothingSkippedSinceStart
    PersistedIsStored
PROPERTIES
    CommittedNeverRegresses
    LedgerSpec
CHECK_DEADLOCK FALSE
