CONSTANTS
    Nodes = {r1, r2}
    a = a
    b = b
    c = c
    RouteIds = {a, b, c}
    Releases <- TwoReleases
    MaxDeploys = 3
    MaxFailures = 1
    NoRoute = NoRoute
SPECIFICATION FairSyncSpec
INVARIANTS LastSyncListed GoneIsInactive
PROPERTIES EveryReplicaStarts
CHECK_DEADLOCK FALSE
