-------------------------- MODULE MCManagementScope --------------------------
(* An instance of ManagementScope for TLC: every shape of caller.  member   *)
(* has a tenant and a membership, orphan a tenant without membership, stray *)
(* a membership without tenant, root neither; agent is a tenant's service   *)
(* account and daemon a system of the platform.                             *)
EXTENDS ManagementScope

CONSTANTS member, orphan, stray, root, agent, daemon

MCTypeOf == [p \in Principals |-> CASE p = agent -> "service_account"
                                    [] p = daemon -> "system"
                                    [] OTHER -> "user"]

MCTenantOf == [p \in Principals |-> IF p \in {member, orphan, agent} THEN "t1" ELSE None]

MCHasMembership == [p \in Principals |-> p \in {member, stray}]

=============================================================================
