CONSTANTS
    p1 = p1
    r1 = r1
    rp1 = rp1
    b1 = b1
    b2 = b2
    g1 = g1
    c1 = c1
    c2 = c2
    NoRow = NoRow
    Tenants = {"platform", "tenant"}
    Platform = "platform"
    Permissions = {p1}
    Roles = {r1}
    RolePermissions = {rp1}
    Bindings = {b1, b2}
    SubjectGroups = {g1}
    TenantOf <- MCTwoTenants
    Parents <- MCParents
    Clients = {c1, c2}
    MaxOps = 2
SPECIFICATION FairSpec
INVARIANTS EveryVersionAccounted NoLostUpdate AnswersAreTruthful NoDanglingReference
PROPERTIES ImplementsPolicyLog MutationsTerminate
