SPECIFICATION RelaysFairSpec
CONSTANTS
    b1 = b1
    b2 = b2
    e1 = e1
    e2 = e2
    e3 = e3
    e4 = e4
    f1 = f1
    BatchIds = {b1, b2}
    MaxKeys = 1
    OutboxWorkers = {w1, w2}
    OutboxIds = {e1, e2, e3, e4}
    EventOf <- MCEventOf
    OutboxBatch = 2
    MetricsWorkers = {m1}
    MetricsIds = {d1}
    MetricsBatch = 2
    GuardTtl = 3
    AlertWorkers = {a1}
    AlertBatch = 2
    ConsumerAlerts <- MCConsumerAlerts
    MaxAttempts = 2
    BackoffBase = 1
    BackoffCap = 1
    Jitter = 0
    Day = 2
    Year = 3
    MaxBacklog = 2
    Faults = {"post", "redis", "db", "crash", "receiver"}
    MaxFaults = 3
INVARIANTS
    RelaysTypeOK
    SendsAreAccounted
    DeliveredWasRaised
    ExhaustionIsReported
    DeltasAddedOnce
    RaisedOnce
PROPERTIES
    AtLeastOnceDelivery
    EveryRowIsDelivered
CHECK_DEADLOCK FALSE
