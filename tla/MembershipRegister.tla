-------------------------- MODULE MembershipRegister --------------------------
(***************************************************************************)
(* What the group projection promises the decision queries: every group    *)
(* event takes effect in ONE step and only once; of the events about one   *)
(* group membership the one with the latest time stamp decides, in         *)
(* whatever order they arrive; each of them makes the next policy version  *)
(* of its tenant, among those that other transactions make.                *)
(***************************************************************************)
EXTENDS Naturals

CONSTANTS
    Events,     \* the group events that say something about a membership
    Keys,       \* (tenant, membership, group)
    Tenants,
    KeyOf,      \* the key an event is about
    TenantOf,   \* the tenant of a key
    StatusOf,   \* the status an event gives to its key
    StampOf     \* occurred_at of an event

VARIABLES
    member,     \* member[k]: status and time stamp of the deciding event
    version,    \* version[t]: policy version
    applied     \* the events that have taken effect

vars == <<member, version, applied>>

Absent == [status |-> "absent", stamp |-> 0]

Init ==
    /\ member = [k \in Keys |-> Absent]
    /\ version = [t \in Tenants |-> 0]
    /\ applied = {}

\* An event replaces what an event of the same time or an earlier one said.
Merged(row, e) ==
    IF row.status = "absent" \/ StampOf[e] >= row.stamp
    THEN [status |-> StatusOf[e], stamp |-> StampOf[e]]
    ELSE row

TakeEffect(e) ==
    /\ e \notin applied
    /\ applied' = applied \cup {e}
    /\ member' = [member EXCEPT ![KeyOf[e]] = Merged(@, e)]
    /\ version' = [version EXCEPT ![TenantOf[KeyOf[e]]] = @ + 1]

\* Any other change of a tenant: the bootstrap of its owner, the management
\* API.
OtherChange(t) ==
    /\ version' = [version EXCEPT ![t] = @ + 1]
    /\ UNCHANGED <<member, applied>>

Next ==
    \/ \E e \in Events : TakeEffect(e)
    \/ \E t \in Tenants : OtherChange(t)

Spec == Init /\ [][Next]_vars

=============================================================================
