----------------------------- MODULE Projections -----------------------------
(***************************************************************************)
(* The durable consumers eventRuntime.start registers, in every replica,   *)
(* running at the same time: GroupProjection for the groups of             *)
(* tenant-service and TenantBootstrap for the tenants it creates, with the *)
(* management API beside the latter.                                       *)
(*                                                                         *)
(* Their event ids differ and they write different tables, but for one     *)
(* row: the policy version of the tenant.  Whoever bumps it keeps it       *)
(* locked until its transaction ends.                                      *)
(***************************************************************************)
EXTENDS GroupProjection

CONSTANTS
    TenantEvents,           \* TenantCreated events of a tenant
    NewTenant,              \* that tenant, which may have groups as well
    Members, NoMember,      \* its memberships
    OwnerOf,                \* owner membership an event names
    Deployments,            \* the database and the events that arrive
    MaxChanges              \* bound: management operations in a behaviour

VARIABLES
    driver, reserved, created, bootstrapped, g, changes

groupVars == <<pending, processed, member, owed, h>>
tenantVars == <<driver, reserved, created, bootstrapped, g, changes>>
allVars == <<groupVars, tenantVars, version, faults>>

Tenant == INSTANCE TenantBootstrap WITH
              Events <- TenantEvents, row <- reserved, pending <- created,
              processed <- bootstrapped, h <- g

ASSUME TenantAssumption ==
    /\ Tenant!BootstrapAssumption
    /\ Deployments \subseteq [driver : {"postgres", "mysql"}, groups : SUBSET Events,
                             tenants : SUBSET TenantEvents]

ConsumersInit ==
    /\ \E d \in Deployments : driver = d.driver /\ pending = d.groups /\ created = d.tenants
    /\ Init
    /\ Tenant!Init

\* A transaction of the consumer holds the version row of the tenant.
GroupsHold == \E c \in Handlers : HoldsVersion(c, NewTenant)
TenantsHold == \E c \in Handlers : Tenant!HoldsVersion(c)

\* Seeded fault: the bump does not wait for the other consumer's transaction.
CreatedWithoutLock(step) == step /\ UNCHANGED <<driver, groupVars>>

\* A step of either consumer; what needs the version row waits for it.
Groups(step) ==
    /\ step
    /\ UNCHANGED tenantVars
    /\ TenantsHold => ~GroupsHold'

Created(step) ==
    /\ step
    /\ UNCHANGED <<driver, groupVars>>
    /\ GroupsHold => ~TenantsHold' /\ UNCHANGED changes

ConsumersNext == Groups(Next) \/ Created(Tenant!Next)

\* A handler that can go on does, in each consumer; the stream hands out an
\* unacknowledged event that can be applied again and again, whatever else it
\* hands out; faults are transient.
ConsumersSpec ==
    /\ ConsumersInit
    /\ [][ConsumersNext]_allVars
    /\ \A c \in Handlers : /\ WF_allVars(Groups(Progress(c)))
                           /\ WF_allVars(Created(Tenant!Progress(c)))
    /\ \A e \in Effective : SF_allVars(\E c \in Handlers : Groups(Deliver(c, e)))
    /\ \A e \in Tenant!Owned : SF_allVars(\E c \in Handlers : Created(Tenant!Deliver(c, e)))

-----------------------------------------------------------------------------
(* Properties of both consumers; the others are GroupProjection's.         *)

\* markProcessedEvent and BumpPolicyVersion share a transaction: the policy
\* version of a tenant has grown once for each event either consumer recorded
\* about it and once for each management operation.  No redelivery bumps it
\* again, none is recorded without it, and no transaction overwrites the bump
\* of another.
OneVersionPerChange ==
    \A t \in Tenants :
        version[t] = Cardinality({e \in processed : TenantOf[KeyOf[e]] = t})
                     + IF t = NewTenant THEN Cardinality(bootstrapped) + changes ELSE 0

\* BootstrapTenantOwner: once an event is recorded its owner has the reserved
\* role, permission, pair and binding, whatever the management API created
\* or revoked between the statements (but see there for MySQL); and nothing
\* is granted twice: the version counts what was recorded.
BootstrapInvariant ==
    /\ Tenant!TypeOK
    /\ Tenant!GrantIsWhole
    /\ OneVersionPerChange

\* Apply of both consumers, retried: every event about a membership is applied
\* and leaves the stream, however often its deliveries fail, and so does every
\* event of a new tenant unless the management API took the key of a reserved
\* row first.
EventsApplied == EveryEventApplied /\ Tenant!OwnerEventuallyGranted

=============================================================================
