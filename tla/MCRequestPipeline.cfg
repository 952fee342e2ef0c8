CONSTANTS
    r1 = r1
    r2 = r2
    r3 = r3
    k1 = k1
    NoRequest = NoRequest
    NoKey = NoKey
    Requests = {r1, r2, r3}
    Keys = {k1}
    Prints = {"same", "other"}
    Subjects = {"alice", "bob"}
    ResultTTL = 2
    Loads <- MCLoads
    MaxFaults = 1
SPECIFICATION FairSpec
INVARIANTS AuthorizedBeforeReplay RecordInvariant OneExecutionPerKey
PROPERTIES EveryRequestAnswered
