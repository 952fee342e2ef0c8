--------------------------- MODULE TenantBootstrap ---------------------------
(***************************************************************************)
(* internal/authorization/tenant_bootstrap_projection.go and               *)
(* SQLRepository.BootstrapTenantOwner: a TenantCreated event gives the     *)
(* owner of a new tenant the reserved role with its */* permission.        *)
(*                                                                         *)
(* The four rows have ids derived from the tenant, and each INSERT leaves  *)
(* an existing row alone: ON CONFLICT DO NOTHING where the database checks *)
(* foreign keys all the same, INSERT IGNORE where it does not complain of  *)
(* them either.  The management API works on the same tenant before,       *)
(* between and after the deliveries of the event; it may have taken the    *)
(* code or the resource and action of a reserved row under an id of its    *)
(* own (a "foreign" row), since a permission or a role may be created for  *)
(* any tenant id.                                                          *)
(*                                                                         *)
(* One tenant: the rows of two tenants have nothing in common.  Its policy *)
(* version is one of those the other consumer bumps as well (Projections). *)
(***************************************************************************)
EXTENDS Naturals, FiniteSets

CONSTANTS
    Tenants,
    NewTenant,      \* the tenant
    Events,         \* its TenantCreated events
    Members,        \* memberships of the tenant
    NoMember,
    NoEvent,
    OwnerOf,        \* owner membership an event names, NoMember if it has none
    Handlers,       \* concurrent invocations of Apply, in any replica
    MaxChanges,     \* bound: management operations in a behaviour
    MaxFaults       \* bound: faults in a behaviour

\* What the constants have to be.
BootstrapAssumption ==
    /\ NewTenant \in Tenants
    /\ OwnerOf \in [Events -> Members \cup {NoMember}]
    /\ NoMember \notin Members
    /\ {"permission", "role", "role permission"} \cap Members = {}
    /\ NoEvent \notin Events
    /\ MaxChanges \in Nat
    /\ MaxFaults \in Nat

\* The reserved rows: permission, role, their pair, and a binding per member.
Permission == "permission"
Role == "role"
Pair == "role permission"
Rows == {Permission, Role, Pair} \cup Members

\* The rows a row references.
Parents(r) ==
    CASE r = Pair -> {Permission, Role}
      [] r \in Members -> {Role}
      [] OTHER -> {}

VARIABLES
    driver,     \* the configured database, "postgres" (and kingbase) or "mysql"
    row,        \* row[r]: the committed row with r's unique key
    version,    \* authorization_policy_versions, counted from the start
    pending,    \* events the stream has not seen acknowledged
    processed,  \* authorization_processed_events
    h,          \* h[c]: the invocation c is executing
    changes,    \* management operations so far
    faults      \* faults so far

vars == <<driver, row, version, pending, processed, h, changes, faults>>

\* "foreign": the key is taken by a row with another id.
Status == {"absent", "active", "revoked", "foreign"}

PC == {"idle", "received", "marked", "permission", "role", "pair", "binding",
       "bumped", "applied"}
Handler == [pc : PC, event : Events \cup {NoEvent}, wrote : SUBSET Rows, pv : Nat]
Idle == [pc |-> "idle", event |-> NoEvent, wrote |-> {}, pv |-> 0]

\* The events that name an owner.
Owned == {e \in Events : OwnerOf[e] # NoMember}
Owner(c) == OwnerOf[h[c].event]
InTx(c) == h[c].pc \in {"marked", "permission", "role", "pair", "binding", "bumped"}
Holds(c, r) == InTx(c) /\ r \in h[c].wrote
HoldsEvent(c, e) == InTx(c) /\ h[c].event = e
HoldsVersion(c) == h[c].pc = "bumped"

Release(c) == h' = [h EXCEPT ![c] = Idle]
Fault == faults < MaxFaults /\ faults' = faults + 1
stored == <<row, version, processed, changes>>

-----------------------------------------------------------------------------
(* The stream and the entry of Apply.                                      *)

Deliver(c, e) ==
    /\ h[c].pc = "idle"
    /\ e \in pending
    /\ h' = [h EXCEPT ![c] = [Idle EXCEPT !.pc = "received", !.event = e]]
    /\ UNCHANGED <<pending, faults, stored>>

\* No owner membership: an error, and another delivery.
Reject(c) ==
    /\ h[c].pc = "received"
    /\ Owner(c) = NoMember
    /\ Release(c)
    /\ UNCHANGED <<pending, faults, stored>>

MarkProcessed(c) ==
    /\ h[c].pc = "received"
    /\ Owner(c) # NoMember
    /\ \A d \in Handlers \ {c} : ~HoldsEvent(d, h[c].event)
    /\ h' = [h EXCEPT ![c].pc = IF h[c].event \in processed THEN "applied" ELSE "marked"]
    /\ UNCHANGED <<pending, faults, stored>>

-----------------------------------------------------------------------------
(* BootstrapTenantOwner: four INSERTs in this order.                       *)

\* What the transaction of c sees: its own rows and the committed ones.
Own(c, r) == r \in h[c].wrote \/ row[r] \in {"active", "revoked"}

\* Seeded fault: PostgreSQL is believed to skip a missing parent as well.
InsertUnchecked(c, r, next) ==
    /\ \A d \in Handlers \ {c} : ~Holds(d, r)
    /\ h' = [h EXCEPT ![c].pc = next,
                      ![c].wrote = IF row[r] = "absent" /\ \A p \in Parents(r) : Own(c, p)
                                   THEN @ \cup {r} ELSE @]
    /\ UNCHANGED <<pending, faults, stored>>

\* An existing row with r's key is left alone; a missing parent is an error
\* on PostgreSQL, which ends the transaction, and a skipped row on MySQL.
Insert(c, r, next) ==
    /\ \A d \in Handlers \ {c} : ~Holds(d, r)
    /\ h' = [h EXCEPT ![c] =
               IF row[r] # "absent" THEN [@ EXCEPT !.pc = next]
               ELSE IF \A p \in Parents(r) : Own(c, p)
                    THEN [@ EXCEPT !.pc = next, !.wrote = h[c].wrote \cup {r}]
               ELSE IF driver = "mysql" THEN [@ EXCEPT !.pc = next] ELSE Idle]
    /\ UNCHANGED <<pending, faults, stored>>

\* Seeded fault: the role takes the place of the permission.
InsertRoleTwice(c) == h[c].pc = "marked" /\ Insert(c, Role, "permission")

InsertPermission(c) == h[c].pc = "marked" /\ Insert(c, Permission, "permission")
InsertRole(c) == h[c].pc = "permission" /\ Insert(c, Role, "role")
InsertPair(c) == h[c].pc = "role" /\ Insert(c, Pair, "pair")
InsertBinding(c) == h[c].pc = "pair" /\ Insert(c, Owner(c), "binding")

BumpPolicyVersion(c) ==
    /\ h[c].pc = "binding"
    /\ \A d \in Handlers \ {c} : ~HoldsVersion(d)
    /\ h' = [h EXCEPT ![c].pc = "bumped", ![c].pv = version[NewTenant] + 1]
    /\ UNCHANGED <<pending, faults, stored>>

-----------------------------------------------------------------------------
(* The end of the transaction and of Apply.                                *)

Store(c) ==
    /\ row' = [r \in Rows |-> IF r \in h[c].wrote THEN "active" ELSE row[r]]
    /\ processed' = processed \cup {h[c].event}
    /\ version' = [version EXCEPT ![NewTenant] = h[c].pv]

Commit(c) ==
    /\ h[c].pc = "bumped"
    /\ Store(c)
    /\ h' = [h EXCEPT ![c].pc = "applied"]
    /\ UNCHANGED <<pending, changes, faults>>

CommitUnacknowledged(c) ==
    /\ h[c].pc = "bumped"
    /\ Fault
    /\ Store(c)
    /\ Release(c)
    /\ UNCHANGED <<pending, changes>>

\* The owner's cached decisions are dropped and the event acknowledged.
Acknowledge(c) ==
    /\ h[c].pc = "applied"
    /\ pending' = pending \ {h[c].event}
    /\ Release(c)
    /\ UNCHANGED <<faults, stored>>

\* A database error, the end of the context or of the process, or a lost
\* acknowledgement: rollback, and another delivery.
Fail(c) ==
    /\ h[c].pc # "idle"
    /\ Fault
    /\ Release(c)
    /\ UNCHANGED <<pending, stored>>

-----------------------------------------------------------------------------
(* The management API on the same tenant; a mutation waits for the rows    *)
(* and for the version row of an open bootstrap transaction.               *)

Manage(r, s) ==
    /\ changes < MaxChanges
    /\ \A c \in Handlers : ~Holds(c, r) /\ ~HoldsVersion(c)
    /\ row' = [row EXCEPT ![r] = s]
    /\ version' = [version EXCEPT ![NewTenant] = @ + 1]
    /\ changes' = changes + 1
    /\ UNCHANGED <<pending, processed, h, faults>>

\* CreatePermission or CreateRole with the code, or the resource and action,
\* of the reserved row: a uuid of its own.
CreateForeign(r) ==
    /\ r \in {Permission, Role}
    /\ row[r] = "absent"
    /\ Manage(r, "foreign")

\* UpdatePermission and UpdateRole to disabled, RevokeRolePermission,
\* RevokeBinding.
Revoke(r) ==
    /\ row[r] = "active"
    /\ Manage(r, "revoked")

-----------------------------------------------------------------------------

Init ==
    /\ driver \in {"postgres", "mysql"}
    /\ row = [r \in Rows |-> "absent"]
    /\ version = [t \in Tenants |-> 0]
    /\ pending \in SUBSET Events
    /\ processed = {}
    /\ h = [c \in Handlers |-> Idle]
    /\ changes = 0
    /\ faults = 0

Progress(c) ==
    \/ Reject(c)
    \/ MarkProcessed(c)
    \/ InsertPermission(c)
    \/ InsertRole(c)
    \/ InsertPair(c)
    \/ InsertBinding(c)
    \/ BumpPolicyVersion(c)
    \/ Commit(c)
    \/ Acknowledge(c)

\* Everything is acknowledged and the management operations are used up.
Drained ==
    /\ pending = {}
    /\ \A c \in Handlers : h[c].pc = "idle"
    /\ UNCHANGED vars

Next ==
    /\ \/ \E c \in Handlers :
            \/ Progress(c)
            \/ CommitUnacknowledged(c)
            \/ Fail(c)
            \/ \E e \in Events : Deliver(c, e)
       \/ \E r \in Rows : CreateForeign(r) \/ Revoke(r)
       \/ Drained
    /\ UNCHANGED driver

-----------------------------------------------------------------------------
(* Properties.                                                             *)

\* Every variable has its type.
TypeOK ==
    /\ driver \in {"postgres", "mysql"}
    /\ row \in [Rows -> Status]
    /\ version \in [Tenants -> Nat]
    /\ pending \subseteq Events
    /\ processed \subseteq Events
    /\ h \in [Handlers -> Handler]
    /\ changes \in 0..MaxChanges
    /\ faults \in 0..MaxFaults

\* BootstrapTenantOwner, all or nothing: once the event is recorded, the
\* owner has the reserved role, its permission and a binding, although each
\* INSERT leaves existing rows alone and whatever the management API created
\* meanwhile.  On MySQL, where INSERT IGNORE also skips a row whose parent is
\* missing, part of the grant may be recorded if another row has taken the
\* key of the reserved permission or role.
GrantIsWhole ==
    \A e \in processed :
        \/ \A r \in {Permission, Role, Pair, OwnerOf[e]} : row[r] \in {"active", "revoked"}
        \/ driver = "mysql" /\ \E r \in {Permission, Role} : row[r] = "foreign"

\* Unless the management API took the key of a reserved row first, the owner
\* is granted the role and the event leaves the stream.
OwnerEventuallyGranted ==
    \A e \in Owned :
        e \in pending
            ~> \/ e \in processed \ pending
               \/ row[Permission] = "foreign"
               \/ row[Role] = "foreign"

=============================================================================
