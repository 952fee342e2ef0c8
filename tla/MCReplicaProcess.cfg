CONSTANTS
    a = a
    b = b
    w = w
    Nobody = Nobody
    Replicas = {a, b}
    Workers = {w}
    Self = a
    AutoUp = TRUE
    LockTTL = 3
    JobTimeout = 2
    MaxFaults = 1
SPECIFICATION ProcessSpec
INVARIANTS OneAtATime LifecycleInvariant CleanExit
PROPERTIES JobRunsAgain StopEnds
