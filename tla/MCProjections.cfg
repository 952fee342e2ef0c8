CONSTANTS
    e1 = e1
    e2 = e2
    e3 = e3
    e4 = e4
    e5 = e5
    k1 = k1
    m1 = m1
    m2 = m2
    c1 = c1
    c2 = c2
    NoEvent = NoEvent
    NoMember = NoMember
    Events = {e1, e2, e3, e4, e5}
    TenantEvents = {e1, e2, e3}
    Keys = {k1}
    Tenants = {"tenant"}
    NewTenant = "tenant"
    Members = {m1, m2}
    Deployments <- MCDeployments
    KeyOf <- MCKeyOf
    SubjectOf <- MCSubjectOf
    TenantOf <- MCTenantOf
    ChangeOf <- MCChangeOf
    StampOf <- MCStampOf
    OwnerOf <- MCOwnerOf
    Handlers = {c1, c2}
    MaxChanges = 1
    MaxFaults = 1
SPECIFICATION ConsumersSpec
INVARIANTS NewestWins AcknowledgedIsInvalidated BootstrapInvariant
PROPERTIES ImplementsMembershipRegister EventsApplied
