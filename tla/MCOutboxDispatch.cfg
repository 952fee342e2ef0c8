CONSTANTS
    r1 = r1
    r2 = r2
    e1 = e1
    e2 = e2
    Replicas = {r1, r2}
    Events = {e1, e2}
    BatchSize = 2
    Lease = 1
    RetryDelay = 1
    Retention = 1
    CleanupBatchSize = 1
    MaxFaults = 2
SPECIFICATION FairSpec
INVARIANTS RuntimeInvariant
PROPERTIES ImplementsEventDelivery StopEnds
CHECK_DEADLOCK FALSE
