SPECIFICATION RegistrySpec
CONSTANTS
    Sites = {s1, s2}
    SeedSites = {s1}
    Creators = {c1, c2, c3}
    Apis = {a1, a2}
    Faults = {"redis", "db", "restart", "redis_loss"}
    MaxFaults = 3
SYMMETRY Symmetry
INVARIANTS
    RegistryTypeOK
    RowsAreAdvertised
    PhantomsComeFromCreations
    OneCreationPerSlug
    OpenCreationHasNoRow
CHECK_DEADLOCK FALSE
