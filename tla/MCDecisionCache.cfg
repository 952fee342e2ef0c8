CONSTANTS
    s1 = s1
    s2 = s2
    k1 = k1
    k2 = k2
    r1 = r1
    r2 = r2
    q1 = q1
    q2 = q2
    w1 = w1
    None = None
    Replicas = {r1}
    Tenants = {"tenant"}
    Subjects = {s1, s2}
    Keys = {k1, k2}
    TenantOf <- MCTenantOf
    SubjectOf <- MCSubjectOf
    Requests = {q1, q2}
    Writers = {w1}
    TTL = 2
    LoadBound = 1
    MaxVersion = 1
SPECIFICATION FairSpec
INVARIANTS BoundedStaleness LabelNotBehindGrants
PROPERTIES EventuallyCoherent
