CONSTANTS
    c1 = c1
    c2 = c2
    Calls = {c1, c2}
    Mixes <- MCMixes
    MaxAttempts = 2
    FailureThreshold = 2
SPECIFICATION FairClientSpec
INVARIANTS CallInvariant
PROPERTIES TripIsEarned CallLiveness
