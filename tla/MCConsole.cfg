SPECIFICATION ConsoleFairSpec
CONSTANTS
    Faults = {"net", "refuse", "error", "db", "redis", "forget"}
    MaxFaults = 2
    Drafts = {d1, d2}
    Blank = none
    SiteOf <- MCSiteOf
    MaxBatchIds = 5
    MaxCalls = 3
    Slugs <- MCSlugs
    Seeds <- MCSeeds
    PageSize = 1
    MaxSites = 3
    MaxFetches = 2
    MaxCreates = 2
    Months = 2
    MaxWire = 1
    MaxBatches = 2
    Polls = {p1, p2}
INVARIANTS
    ConsoleTypeOK
    EntryAcceptedOnce
    QueuedIsAccepted
    RetryIsOffered
    ListingIsExact
    FormTellsTheTruth
    ReadingIsBetween
    ClosedMonthsAreExact
PROPERTIES
    SubmissionEnds
    WatchedRowCatchesUp
CHECK_DEADLOCK FALSE
