CONSTANTS
    Permissions <- MCPermissions
    Roles <- MCRoles
    Units = {"u1", "u2"}
    NoUnit = "none"
    Policies <- MCPolicies
    Requests <- MCRequests
SPECIFICATION Spec
INVARIANTS OrderDoesNotMatter ShownIsAllowed
CHECK_DEADLOCK FALSE
