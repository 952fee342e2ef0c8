--------------------------- MODULE MCDecisionCache ---------------------------
(* Instances of DecisionCache for TLC.                                     *)
EXTENDS DecisionCache

CONSTANTS s1, s2, k1, k2, r1, r2, q1, q2, w1

\* Two subjects of one tenant, one key each.
MCTenantOf == [s \in Subjects |-> "tenant"]
MCSubjectOf == [k \in Keys |-> IF k = k1 THEN s1 ELSE s2]

=============================================================================
