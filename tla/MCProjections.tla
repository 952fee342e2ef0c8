---------------------------- MODULE MCProjections ----------------------------
(* The instance of Projections for TLC.                                    *)
EXTENDS Projections, TLC

CONSTANTS e1, e2, e3, e4, e5, k1, m1, m2, c1, c2

\* About one membership: an event without a time and two newer ones of the
\* same time; one the projection does not handle and one it cannot read.
MCKeyOf == [e \in Events |-> k1]
MCChangeOf == (e1 :> "member_added") @@ (e2 :> "member_removed") @@ (e3 :> "member_added")
                @@ (e4 :> "other") @@ (e5 :> "undecodable")
MCStampOf == [e \in Events |-> IF e = e1 THEN 0 ELSE 1]
MCSubjectOf == [k \in Keys |-> "subject"]
MCTenantOf == [k \in Keys |-> "tenant"]

\* The tenant is announced twice, with two owners; e3 names none.
MCOwnerOf == [e \in TenantEvents |-> CASE e = e1 -> m1 [] e = e2 -> m2 [] OTHER -> NoMember]

Deployment(database, groups, tenants) ==
    [driver |-> database, groups |-> groups, tenants |-> tenants]

\* Two group events of different and two of the same time, the ones without
\* effect beside a good one; the tenant's events on both databases; and both
\* kinds of event at once.
MCDeployments ==
    {Deployment("postgres", {e1, e2}, {}), Deployment("postgres", {e2, e3}, {}),
     Deployment("postgres", {e2, e4, e5}, {}), Deployment("postgres", {}, {e1, e2, e3}),
     Deployment("mysql", {}, {e1, e2}), Deployment("postgres", {e2}, {e1})}

=============================================================================
