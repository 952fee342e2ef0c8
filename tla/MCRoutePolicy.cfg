CONSTANTS
    x1 = x1
    x2 = x2
    r1 = r1
    r2 = r2
    w1 = w1
    w2 = w2
    None = None
    Routes = {x1, x2}
    Replicas = {r1}
    Writers = {w1, w2}
    MaxSets = 3
SPECIFICATION FairSpec
INVARIANTS NoBlindSet WriterSeesItsWrite
PROPERTIES SnapshotsNeverGoBack PollConverges
