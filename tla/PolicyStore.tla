----------------------------- MODULE PolicyStore -----------------------------
(***************************************************************************)
(* The policy tables of authorization-service and the transactions that    *)
(* change them: the mutations of internal/authorization/service.go, the    *)
(* group projection and the platform-administrator command, all of them    *)
(* running concurrently on one SQL database.                               *)
(*                                                                         *)
(* A mutation reads outside its transaction, then runs                     *)
(*    write the row -> bump the tenant's policy version -> insert the      *)
(*    outbox event -> commit                                               *)
(* and each of those statements is a step here.  A written row and a       *)
(* bumped version row stay locked until the transaction ends; another      *)
(* transaction waits and then sees the committed row (READ COMMITTED, and  *)
(* the current reads of InnoDB updates).                                   *)
(*                                                                         *)
(* Policy versions are counted from the initial state.                     *)
(***************************************************************************)
EXTENDS Integers

CONSTANTS
    Tenants,            \* tenant identifiers
    Platform,           \* the reserved tenant __platform__
    Permissions,        \* rows, each named by its unique key
    Roles,
    RolePermissions,
    Bindings,
    SubjectGroups,      \* rows of authorization_subject_groups
    TenantOf,           \* the tenant of a row
    Parents,            \* the rows a row references by id, of whatever tenant
    NoRow,
    Clients,            \* concurrent handler invocations
    MaxOps              \* bound: operations begun in a behaviour

Rows == Permissions \cup Roles \cup RolePermissions \cup Bindings \cup SubjectGroups

ASSUME StoreAssumption ==
    /\ Platform \in Tenants
    /\ TenantOf \in [Rows -> Tenants]
    /\ Parents \in [Rows -> SUBSET Rows]
    /\ \A r \in Permissions \cup Roles \cup SubjectGroups : Parents[r] = {}
    /\ NoRow \notin Rows
    /\ MaxOps \in Nat

VARIABLES
    row,        \* row[r]: the committed row
    version,    \* version[t]: the committed policy version
    events,     \* authorization_outbox_events
    quiet,      \* history: committed changes that have no event
    tx,         \* tx[c]: the invocation c is executing
    started     \* operations begun so far

vars == <<row, version, events, quiet, tx, started>>

-----------------------------------------------------------------------------
(* State.                                                                  *)

Status == {"absent", "active", "disabled", "revoked", "removed"}
Row == [status : Status, version : Nat]
Absent == [status |-> "absent", version |-> 0]
Change == [tenant : Tenants, version : Nat, row : Rows]

PC == {"idle", "planned", "written", "bumped", "staged", "committed", "done"}
Op == {"none", "insert", "update", "upsert", "project"}
Result == {"none", "ok", "existing", "notfound", "stale", "conflict",
           "internal", "unavailable"}

Tx == [pc : PC, op : Op, row : Rows \cup {NoRow}, status : Status,
       expected : Nat, image : Row, pv : Nat, announce : BOOLEAN,
       applied : BOOLEAN, result : Result]

Idle == [pc |-> "idle", op |-> "none", row |-> NoRow, status |-> "absent",
         expected |-> 0, image |-> Absent, pv |-> 0, announce |-> FALSE,
         applied |-> FALSE, result |-> "none"]

Present(r) == row[r].version > 0
Active(r) == row[r].status = "active"

\* A lookup finds the row p that r names by its id only in r's own tenant.
Found(p, r) == Present(p) /\ TenantOf[p] = TenantOf[r]
ParentsFound(r) == \A p \in Parents[r] : Found(p, r)

\* Row and version locks are held from the statement that takes them to the
\* end of the transaction.
HoldsRow(c, r) == tx[c].pc \in {"written", "bumped", "staged"} /\ tx[c].row = r
HoldsVersion(c, t) == tx[c].pc \in {"bumped", "staged"} /\ TenantOf[tx[c].row] = t

-----------------------------------------------------------------------------
(* Helpers of the handlers.                                                *)

Begin(c, t) ==
    /\ tx[c].pc = "idle"
    /\ started < MaxOps
    /\ started' = started + 1
    /\ tx' = [tx EXCEPT ![c] = t]
    /\ UNCHANGED <<row, version, events, quiet>>

\* A handler that goes on to its transaction.
Plan(op, r, s, e, announce) ==
    [Idle EXCEPT !.pc = "planned", !.op = op, !.row = r, !.status = s,
                 !.expected = e, !.announce = announce]

\* A handler that returns before its transaction.
Refuse(r, res) == [Idle EXCEPT !.pc = "done", !.row = r, !.result = res]

-----------------------------------------------------------------------------
(* The handlers up to mutate: reads outside the transaction.               *)

CreatePermission(c, r) ==
    /\ r \in Permissions
    /\ Begin(c, Plan("insert", r, "active", 0, TRUE))

CreateRole(c, r) ==
    /\ r \in Roles
    /\ Begin(c, Plan("insert", r, "active", 0, TRUE))

\* Seeded fault: the role is looked up by its id alone.
CreateBindingById(c, r) ==
    /\ r \in Bindings
    /\ Begin(c, IF \A p \in Parents[r] : Present(p)
                THEN Plan("insert", r, "active", 0, TRUE)
                ELSE Refuse(r, "notfound"))

CreateBinding(c, r) ==
    /\ r \in Bindings
    /\ Begin(c, IF ParentsFound(r) THEN Plan("insert", r, "active", 0, TRUE)
                ELSE Refuse(r, "notfound"))

\* The caller names a row it has seen and the version it saw; the row has
\* gone on since, or not.
UpdatePermission(c, r, s, v) ==
    /\ r \in Permissions
    /\ s \in {"active", "disabled"}
    /\ Begin(c, IF Present(r) THEN Plan("update", r, s, v, TRUE)
                ELSE Refuse(r, "notfound"))

UpdateRole(c, r, s, v) ==
    /\ r \in Roles
    /\ s \in {"active", "disabled"}
    /\ Begin(c, IF Present(r) THEN Plan("update", r, s, v, TRUE)
                ELSE Refuse(r, "notfound"))

\* An active pair is returned as it is, a revoked one is updated from the
\* version just read, a missing one is inserted.
GrantRolePermission(c, r) ==
    /\ r \in RolePermissions
    /\ Begin(c, IF ~ParentsFound(r) THEN Refuse(r, "notfound")
                ELSE IF Active(r) THEN Refuse(r, "existing")
                ELSE IF Present(r) THEN Plan("update", r, "active", row[r].version, TRUE)
                ELSE Plan("insert", r, "active", 0, TRUE))

RevokeRolePermission(c, r, v) ==
    /\ r \in RolePermissions
    /\ Begin(c, IF Present(r) THEN Plan("update", r, "revoked", v, TRUE)
                ELSE Refuse(r, "notfound"))

RevokeBinding(c, r, v) ==
    /\ r \in Bindings
    /\ Begin(c, IF Present(r) THEN Plan("update", r, "revoked", v, TRUE)
                ELSE Refuse(r, "notfound"))

\* bootstrap-admin: restores the binding whatever its state, no event.
GrantPlatformSuperAdmin(c, r) ==
    /\ r \in Bindings
    /\ TenantOf[r] = Platform
    /\ Begin(c, IF \A p \in Parents[r] : Found(p, r) /\ Active(p)
                THEN Plan("upsert", r, "active", 0, FALSE)
                ELSE Refuse(r, "internal"))

\* GroupProjection.Apply for an event it has not processed yet, no outbox
\* event.
ApplyGroupEvent(c, r, s) ==
    /\ r \in SubjectGroups
    /\ s \in {"active", "removed"}
    /\ Begin(c, Plan("project", r, s, 0, FALSE))

-----------------------------------------------------------------------------
(* The transaction.                                                        *)

Applies(t) ==
    \/ t.op = "insert" /\ ~Present(t.row)
    \/ t.op = "update" /\ row[t.row].version = t.expected
    \/ t.op \in {"upsert", "project"}

\* Triggers number the row: 1 on insert, OLD.version + 1 on update.  A group
\* event older than the row it meets leaves the row alone.
Images(t) ==
    {[status |-> t.status, version |-> row[t.row].version + 1]}
        \cup (IF t.op = "project" /\ Present(t.row) THEN {row[t.row]} ELSE {})

Answer(c, res) ==
    tx' = [tx EXCEPT ![c].pc = "done", ![c].result = res]

\* Seeded fault: the statement does not wait for the row.
WriteWithoutLock(c) ==
    /\ tx[c].pc = "planned"
    /\ \/ /\ Applies(tx[c])
          /\ \E image \in Images(tx[c]) :
                tx' = [tx EXCEPT ![c].pc = "written", ![c].image = image]
       \/ /\ ~Applies(tx[c])
          /\ Answer(c, IF tx[c].op = "insert" THEN "conflict" ELSE "stale")
    /\ UNCHANGED <<row, version, events, quiet, started>>

\* The operation passed to mutate: one INSERT or one UPDATE ... AND version=?.
Write(c) ==
    /\ tx[c].pc = "planned"
    /\ \A d \in Clients \ {c} : ~HoldsRow(d, tx[c].row)
    /\ \/ /\ Applies(tx[c])
          /\ \E image \in Images(tx[c]) :
                tx' = [tx EXCEPT ![c].pc = "written", ![c].image = image]
       \/ /\ ~Applies(tx[c])
          /\ Answer(c, IF tx[c].op = "insert" THEN "conflict" ELSE "stale")
    /\ UNCHANGED <<row, version, events, quiet, started>>

\* Seeded fault: the version is read and incremented without its row lock.
BumpWithoutLock(c) ==
    /\ tx[c].pc = "written"
    /\ tx' = [tx EXCEPT ![c].pc = "bumped",
                        ![c].pv = version[TenantOf[tx[c].row]] + 1]
    /\ UNCHANGED <<row, version, events, quiet, started>>

BumpPolicyVersion(c) ==
    /\ tx[c].pc = "written"
    /\ \A d \in Clients \ {c} : ~HoldsVersion(d, TenantOf[tx[c].row])
    /\ tx' = [tx EXCEPT ![c].pc = "bumped",
                        ![c].pv = version[TenantOf[tx[c].row]] + 1]
    /\ UNCHANGED <<row, version, events, quiet, started>>

AddOutbox(c) ==
    /\ tx[c].pc = "bumped"
    /\ tx[c].announce
    /\ tx' = [tx EXCEPT ![c].pc = "staged"]
    /\ UNCHANGED <<row, version, events, quiet, started>>

\* Seeded fault: a transaction without an event is never committed.
ReadyOnceStaged(c) == tx[c].pc = "staged"

ReadyToCommit(c) ==
    \/ tx[c].pc = "staged"
    \/ tx[c].pc = "bumped" /\ ~tx[c].announce

\* What the database makes visible when it commits c's transaction.
Apply(c) ==
    LET t == tx[c]
        change == [tenant |-> TenantOf[t.row], version |-> t.pv, row |-> t.row]
    IN  /\ row' = [row EXCEPT ![t.row] = t.image]
        /\ version' = [version EXCEPT ![TenantOf[t.row]] = t.pv]
        /\ events' = IF t.announce THEN events \cup {change} ELSE events
        /\ quiet' = IF t.announce THEN quiet ELSE quiet \cup {change}

Commit(c) ==
    /\ ReadyToCommit(c)
    /\ Apply(c)
    /\ tx' = [tx EXCEPT ![c].pc = "committed", ![c].applied = TRUE]
    /\ UNCHANGED started

\* The database commits and the acknowledgement is lost: Within returns an
\* error, so mutate neither invalidates nor notifies.
CommitUnacknowledged(c) ==
    /\ ReadyToCommit(c)
    /\ Apply(c)
    /\ tx' = [tx EXCEPT ![c].pc = "done", ![c].applied = TRUE,
                        ![c].result = "internal"]
    /\ UNCHANGED started

\* A statement fails, the context ends or the process dies: rollback.
Rollback(c) ==
    /\ tx[c].pc \in {"planned", "written", "bumped", "staged"}
    /\ Answer(c, "internal")
    /\ UNCHANGED <<row, version, events, quiet, started>>

\* Seeded fault: a log failure after the commit is reported as a stale write.
FinishAsStale(c, res) ==
    /\ tx[c].pc = "committed"
    /\ res \in (IF tx[c].announce THEN {"ok", "stale"} ELSE {"ok"})
    /\ Answer(c, res)
    /\ UNCHANGED <<row, version, events, quiet, started>>

\* After the commit: the caches (module DecisionCache), the operation and the
\* security log, and for most handlers a last read of the row.  A log that
\* must not be lost and is lost turns the answer into "unavailable", a failed
\* read into "internal"; neither undoes anything.
Finish(c, res) ==
    /\ tx[c].pc = "committed"
    /\ res \in (IF tx[c].announce THEN {"ok", "unavailable", "internal"} ELSE {"ok"})
    /\ Answer(c, res)
    /\ UNCHANGED <<row, version, events, quiet, started>>

Return(c) ==
    /\ tx[c].pc = "done"
    /\ tx' = [tx EXCEPT ![c] = Idle]
    /\ UNCHANGED <<row, version, events, quiet, started>>

-----------------------------------------------------------------------------

\* Any set of rows whose references hold, as earlier operations left it.
Init ==
    /\ row \in [Rows -> {Absent, [status |-> "active", version |-> 1]}]
    /\ \A r \in Rows : Present(r) => ParentsFound(r)
    /\ version = [t \in Tenants |-> 0]
    /\ events = {}
    /\ quiet = {}
    /\ tx = [c \in Clients |-> Idle]
    /\ started = 0

Handle(c, r) ==
    \/ CreatePermission(c, r)
    \/ CreateRole(c, r)
    \/ CreateBinding(c, r)
    \/ GrantRolePermission(c, r)
    \/ GrantPlatformSuperAdmin(c, r)
    \/ \E s \in Status : ApplyGroupEvent(c, r, s)
    \/ \E v \in 1..(MaxOps + 1) :
        \/ RevokeRolePermission(c, r, v)
        \/ RevokeBinding(c, r, v)
        \/ \E s \in Status : UpdatePermission(c, r, s, v) \/ UpdateRole(c, r, s, v)

Step(c) ==
    \/ Write(c)
    \/ BumpPolicyVersion(c)
    \/ AddOutbox(c)
    \/ Commit(c)
    \/ CommitUnacknowledged(c)
    \/ Rollback(c)
    \/ \E res \in Result : Finish(c, res)
    \/ Return(c)

\* The operations of the bound are used up.
Exhausted ==
    /\ started = MaxOps
    /\ \A c \in Clients : tx[c].pc = "idle"
    /\ UNCHANGED vars

Next ==
    \/ \E c \in Clients : Step(c) \/ \E r \in Rows : Handle(c, r)
    \/ Exhausted

Spec == Init /\ [][Next]_vars

\* A handler's goroutine runs until it returns, and the lock queues of
\* PostgreSQL and InnoDB serve waiters in order: a transaction that keeps
\* finding the row or the version row free again gets it.
Fairness ==
    \A c \in Clients :
        /\ SF_vars(Write(c))
        /\ SF_vars(BumpPolicyVersion(c))
        /\ WF_vars(AddOutbox(c))
        /\ WF_vars(Commit(c))
        /\ WF_vars(\E res \in Result : Finish(c, res))
        /\ WF_vars(Return(c))

FairSpec == Spec /\ Fairness

-----------------------------------------------------------------------------
(* Properties.                                                             *)

\* Every variable has its type.
TypeOK ==
    /\ row \in [Rows -> Row]
    /\ version \in [Tenants -> Nat]
    /\ events \subseteq Change
    /\ quiet \subseteq Change
    /\ tx \in [Clients -> Tx]
    /\ started \in 0..MaxOps

\* mutate: a tenant's policy versions are numbered 1, 2, 3, ... without a gap
\* or a repetition, each made by one change, and a change made through the
\* management API has its outbox event, however the transactions interleave
\* and whichever of them fail.
EveryVersionAccounted ==
    LET changes == events \cup quiet
    IN  /\ events \cap quiet = {}
        /\ \A e \in changes : e.version \in 1..version[e.tenant]
        /\ \A e, f \in changes :
              e.tenant = f.tenant /\ e.version = f.version => e = f
        /\ \A t \in Tenants : \A v \in 1..version[t] :
              \E e \in changes : e.tenant = t /\ e.version = v

\* affected(): an UPDATE ... AND version = ? that was accepted still meets,
\* when its transaction commits, the very version its caller named; nobody's
\* committed change is overwritten unseen.
NoLostUpdate ==
    \A c \in Clients :
        /\ tx[c].pc \in {"written", "bumped", "staged"}
        /\ tx[c].op = "update"
        => row[tx[c].row].version = tx[c].expected

\* The version column of a row counts its changes: a step changes a row only
\* to its next version, and never makes it disappear.
RowVersionsGrowByOne ==
    [][\A r \in Rows : row'[r] # row[r] => row'[r].version = row[r].version + 1]_vars

\* What the caller may conclude from the answer: "ok" was committed; stale,
\* conflict and not-found were not, so the caller may correct and repeat.
\* (Internal and unavailable say nothing: see CommitUnacknowledged, Finish.)
AnswersAreTruthful ==
    \A c \in Clients : tx[c].pc = "done" =>
        /\ tx[c].result = "ok" => tx[c].applied
        /\ tx[c].result \in {"existing", "notfound", "stale", "conflict"} => ~tx[c].applied

\* A visible binding or role permission refers to a role and a permission
\* that are visible too and of its own tenant.  The foreign keys of migration
\* 000002 compare no tenant, so one tenant's binding could carry another
\* tenant's role: only the lookups prevent it, which CreateBinding and
\* GrantRolePermission make before their transaction begins.
NoDanglingReference == \A r \in Rows : Present(r) => ParentsFound(r)

\* Row lock, then version lock: every handler that entered its transaction
\* gets to answer; no two of them wait for each other.
MutationsTerminate ==
    \A c \in Clients : tx[c].pc = "planned" ~> tx[c].pc = "done"

\* The interleaved transactions look like a log of atomic changes.
Log == INSTANCE PolicyLog WITH version <- version, events <- events
ImplementsPolicyLog == Log!Spec

=============================================================================
