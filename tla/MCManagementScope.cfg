CONSTANTS
    None = None
    member = member
    orphan = orphan
    stray = stray
    root = root
    agent = agent
    daemon = daemon
    Tenants = {"t1", "t2", "platform"}
    Platform = "platform"
    Principals = {member, orphan, stray, root, agent, daemon}
    TypeOf <- MCTypeOf
    TenantOf <- MCTenantOf
    HasMembership <- MCHasMembership
SPECIFICATION ScopeSpec
INVARIANTS ActsWhereChecked ScopeInvariant
