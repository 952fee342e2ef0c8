---------------------------- MODULE MCPolicyStore ----------------------------
(* The instance of PolicyStore for TLC: a permission, a role, their pair   *)
(* and a binding of the platform contend for one version row; a group      *)
(* membership of another tenant uses a second one, and a binding of that   *)
(* tenant names the platform's role.                                       *)
EXTENDS PolicyStore

CONSTANTS p1, r1, rp1, b1, b2, g1, c1, c2

MCTwoTenants == [r \in Rows |-> IF r \in {b2, g1} THEN "tenant" ELSE Platform]

MCParents == [r \in Rows |-> CASE r = rp1 -> {p1, r1}
                               [] r \in {b1, b2} -> {r1}
                               [] OTHER -> {}]

=============================================================================
