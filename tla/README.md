# Verification of authorization-service

TLA+ models of authorization-service, checked with TLC on small instances and,
where marked, proved with TLAPS for every value of the constants. `PROJECT.json`
lists the runs, maps every definition to the lines it models, and records the
hazards each property is aimed at. Paths below are relative to `src/`.

## 1. The system

authorization-service keeps the roles and permissions of many tenants in a SQL
database (MySQL, PostgreSQL or Kingbase), answers "may this subject do this?" and
lets administrators change the policy over HTTP and gRPC. It runs as several
replicas over one database and one Redis.

| Component | State | Operations | Correct when |
|---|---|---|---|
| Policy store and mutations (`internal/authorization/service.go`, `repository.go`, `internal/database/transaction.go`) | tables of permissions, roles, role permissions, bindings; one policy version per tenant; outbox | create, update, grant, revoke; each runs *write row, bump version, insert event, commit* | versions have no gap or duplicate, each has its change and event, no update is lost, answers are truthful |
| Decision cache (`service.go`, `decision_cache_runtime.go`) | per replica: map from check to decision with expiry; a loop that listens to Redis and polls | check, invalidate tenant or subject, notify, repair | a stale decision is served only for a bounded time, all replicas converge |
| Management API (`internal/transport/http/authorization_handler.go`, `enforcer.go`) | none beyond the request | 32 management routes, 4 decision routes | an operation acts in the tenant in which the caller was authorized |
| Grant resolution (`service.go:543-628`, `repository.go:300-336`) | none | merge the grants a subject holds into one decision | the decision does not depend on the order of grants |
| Group projection (`group_projection.go`) | membership-group rows, processed event ids | apply an event | redelivered and reordered events leave the newest state |
| Tenant bootstrap (`tenant_bootstrap_projection.go`) | owner role, grants and binding of a new tenant | apply an event | all or nothing, once |
| Platform administrator command (`internal/bootstrap/admin.go`) | binding row | grant or restore | version bumped with the row |
| Route policies (`internal/routepolicy`) | route and policy tables; per replica a compiled snapshot and a revision | set, refresh, poll, sync routes at start | snapshots do not go back, the writer sees its write |
| HTTP and gRPC pipelines (`internal/transport`) | idempotency records, rate-limit counters in Redis | authenticate, authorize, limit, replay | at most one execution per idempotency key, no replay to a caller who is not authorized |
| Event runtime (`internal/app/eventbus.go`) | outbox rows, goroutines, the bus | start, dispatch, clean up, consume, stop | every event is published at least once; nothing uses what stop closed |
| Outbound clients (`internal/outbound`, `internal/grpcclient`) | a circuit breaker per client | call, retry, back off | a retry has no second effect, the breaker trips for good reason and recovers |
| Scheduler (`internal/scheduler`, `internal/cache`) | a Redis lock | run the job, lock, extend, unlock | one run at a time, and again and again |
| Wiring (`internal/app/app.go`) | hooks, handles, listeners | construct, start, roll back, stop | work is let in when everything is ready and let out before anything closes |
| Migrations, health, configuration, authentication, observability | little or none | parse, probe, verify | not modelled, see section 7 |

How they interact. A mutation commits to the database, then drops its tenant's
entries from the local cache and publishes on Redis; the other replicas drop
theirs when they hear it, and otherwise when a poll notices a changed policy
version or when the entry expires. Projections commit the same way but only drop
the subject's entries of the local replica, and the administrator command drops
nothing. Every route check of the management API is itself a decision and goes
through the cache.

What is hard here: statements of concurrent transactions interleave; reads happen
before the transaction that relies on them; a commit may succeed and be reported
as failed; a decision may be computed before a change and stored after the
invalidation; notifications are lost; replicas restart; the tenant that was
authorized and the tenant that is acted upon travel separately.

## 2. Modules

### PolicyLog
The promise of the store: the policy of a tenant is a sequence of versions, a
change is one step that makes the next version, and a change through the API also
leaves one event carrying that version (`Announce`); projections and the
administrator command leave none (`Bump`).

### PolicyStore
The transactions. `row`, `version` and `events` are the committed tables;
`tx[c]` is a handler invocation with its program counter, the version it named or
read, the row image it has written and the policy version it has bumped. `quiet`
is a history variable: the committed changes that have no event.

Each handler is an action that reads *outside* the transaction and either answers
or plans a write (`CreatePermission` ... `RevokeBinding`, `GrantPlatformSuperAdmin`,
`ApplyGroupEvent`). The transaction is then `Write`, `BumpPolicyVersion`,
`AddOutbox`, `Commit`, one statement each. A written row and a bumped version row
are locked until the transaction ends (`HoldsRow`, `HoldsVersion`), as PostgreSQL
and InnoDB do; a waiting statement then sees the committed row, so an `UPDATE ...
AND version = ?` that waited finds no row and answers stale. `Rollback` may
happen at any statement. `CommitUnacknowledged` is a commit whose answer is lost:
`Within` reports an error although the change is there. `Finish` is the rest of
`mutate`: the operation and security logs and the last read, none of which undo
anything. Row versions are numbered by the triggers of migration 7 (`Images`).

`GetRole` and `GetPermission` look for an id in one tenant (`Found`), so a handler
that names a row of another tenant answers not found. The foreign keys of migration
000002 hold ids alone: that a binding or a role permission stays within its tenant
rests on these lookups (`NoDanglingReference`), and the joins of `GrantResolution`
rest on it in turn.

Policy versions are counted from the initial state. A row is named by its unique
key, so a second insert of the key is a conflict, also when the row is revoked:
the unique indexes do not look at the status. Field validation, filters, paging
and wording are not modelled.

### DecisionCache
The caches of all replicas. A decision is abstracted to the policy version its
grants were read at and the version it is labelled with; a third component is the
ticks it has left. A check is `Lookup`, `Evict` (the expired entry is deleted
under the write lock, later than it was seen), `ReadGrants`, `ReadVersion` (the
two queries of `Resolve`, which share no transaction) and `StoreDecision`; `Fail`
leaves it without caching. A mutation is `Commit`, `InvalidateTenant`, `Notify`;
`Notify` reaches any subset of the replicas. A projection is `ProjectionCommit`,
`ProjectionInvalidate`. `SilentCommit` is the administrator command, or a commit
whose acknowledgement was lost. The runtime loop is `HandleMessage`, `RepairScan`
(one label per tenant, the highest), `RepairTenant` and `RepairFails`. `Restart`
empties a replica. `Tick` is time; `superseded` is a history variable, the ticks
since a version stopped being current.

`LoadBound` bounds the time from a lookup to the store of its result. For HTTP it
is the request timeout (`middleware.go:230-240`), which cancels the two queries;
a gRPC check is bounded by the deadline of its caller and by the database's own
timeouts, and the bound then is the largest of these.

### ManagementScope
One request at a time: a principal calls a route, naming a tenant and, on a "my"
route, a scope. The sets of routes record for every handler which check stands
before its operation and whether it hands the resolved tenant or the tenant of
the body to the service. `Allow` finds the subject of the check; `Serve` is
`enforceInteractiveTenant` followed by the operation. Whether a permission is
there is a free choice (`Allow` or `Deny`), so the properties hold for every
policy. A batch check goes round `NextCheck`. `None` as the named tenant stands
for a blank string, which passes the binding `required` and is trimmed away. The
gRPC management methods behave as the plain routes; the gRPC `Check` methods,
which serve other services, are not bound to the caller and are not part of
`DecisionRoutes`.

### RoutePolicy
`policy` is the committed table, `job[p]` what a caller of `Set` or the loop of a
replica is doing, `snapshot`, `revision` and `up` the state of a replica's
`Manager`, `pending` the messages Redis has delivered. A policy is abstracted to
the number of its version, counted from the initial state, and to the stamp of
its `updated_at`; a snapshot entry is the version its expression was read at and
the version its permission references were read at, because these are two
queries. `Set` is *plan, write, commit, refresh, notify, answer*: `WritePolicy`
waits for the row that `SELECT ... FOR UPDATE` locks, `CommitUnacknowledged` and
`Rollback` end without refresh. `RefreshSource` is `ReadPolicies` (takes the
mutex), `Install` (references, compilation, replacement), `ReadRevision` (releases
it), each of which may fail, also because an expression and references of
different versions do not compile. `HandleMessage` and `Poll` are the two cases of
the loop; `Restart` kills the replica with its requests and loads again before it
serves. Expressions are not evaluated. The table of known routes, on which no
snapshot depends, is the subject of `RouteSync`.

`masked` is a history variable that names what the poll cannot see. The revision
is read after the snapshot and is the greatest `updated_at`, the time of a
statement: a commit that falls between the queries of a refresh, or that carries
an older stamp than one already recorded, leaves the poll nothing to compare. A
message or the next change repairs it; `PollConverges` excludes exactly these
commits.

### RouteSync
`SyncRoutes`, which every replica runs at start: one transaction marks the active
routes inactive (`Scan`, `Deactivate`, `Deactivated`) and then looks for each
route of the release and inserts or updates it (`Select`, `Insert`, `Update`).
`proc[r]` is the process with its uncommitted writes, `row` the committed table.
The isolation is READ COMMITTED, the default of PostgreSQL and Kingbase (MySQL's
default differs and is not modelled): a statement waits for rows another
transaction has written and then looks again. Syncs of two releases block, violate
the unique key and deadlock; the detector aborts one of a cycle (`DeadlockAbort`)
and its replica fails to start and is restarted. `RestartsBackOff` says that a
restart waits until the syncs under way have ended, as an orchestrator's growing
restart delay makes it do in the end; it is a premise of `EveryReplicaStarts`, not
a part of the model.

### GroupProjection and MembershipRegister
`MembershipRegister` is the promise: an event takes effect in one step and once,
and the newest event about a membership decides. `GroupProjection` is `Apply`
statement by statement on several replicas: `MarkProcessed` (an event id that is
recorded already ends the transaction), `UpsertMembershipGroup`,
`BumpPolicyVersion`, `Commit`; `InvalidateSubject` after it. `Deliver` hands out
any unacknowledged event to any idle handler, so deliveries are repeated,
reordered and concurrent. `Fail` loses a handler at any point; after
`CommitUnacknowledged` the event is recorded but its subject not invalidated, which
the next delivery makes up for. A handler stands for its replica, and each replica
has a cache of its own: `owed` holds the pairs of a replica and a committed event
whose subject that replica has not dropped since, and `InvalidateSubject` settles
the debt of one replica only. Nothing is announced to the others, whose entries
last until a poll or their expiry (`DecisionCache`). A missing `occurred_at` is
1970 (the `IsZero` test of the code does not see it), stamp 0 in the model.

### TenantBootstrap
`Apply` and `BootstrapTenantOwner`: four inserts that leave existing rows alone,
while the management API creates rows under the reserved keys (`CreateForeign`) or
revokes reserved ones (`Revoke`). `driver`, the configured database, decides what
an insert does when the row it references is missing: PostgreSQL and Kingbase
refuse it, `INSERT IGNORE` of MySQL skips it.

### Projections
The two consumers in one behaviour, as the event runtime registers them on every
replica: `GroupProjection` and an instance of `TenantBootstrap`, with the management
API beside them. Their events and tables are disjoint but for the tenant's policy
version, one row that both bump: whoever has bumped it keeps it until its
transaction ends and the others wait (`Groups`, `Created`). `Deployments` are the
choices of database and of the events that arrive; faults are counted over both.
To `MembershipRegister` a bump of the tenant consumer or of the management API is an
`OtherChange`, a version that no membership event made.

### RequestPipeline
A request passes the stages of its chain (`HTTPChain`, `UnaryChain`,
`StreamChain`), the sequence of middleware or interceptors that can refuse it, and
then, when it carries a key, `IdempotencyExecution`: `Begin` acquires, replays or
refuses; the handler runs; `Persist` stores the answer if the record still has
this owner. Records have an owner, a fingerprint and a time to live. `load` is the
configuration of the service together with the requests that are sent to it; it is
chosen in the initial state and stays. The route
policy may change between two requests, a handler may panic, time out or die with
its process, Redis may be away at `Begin` or at `Persist`, and a client repeats a
request whose answer leaves the outcome open.

### OutboundCall
A breaker around a retry loop, shared by several calls; `client` is the client they
use and `kind[c]` what a caller calls. `Send` puts an attempt on
the wire, `Arrive` brings it to the upstream, perhaps after its caller has given
up or another attempt has arrived; `doWithRetry` decides on another attempt,
`waitBackoff`/`waitRetry` may meet the end of the context, and the result is
reported to the breaker. The two clients differ in the results their breaker
leaves out and in whether the idempotency key travels with the call. Two choices
of the breaker library are assumed, marked external: a result that is left out
does not change its state, and for gRPC it may or may not show the nil error of a
success to `IsExcluded`. `charged` is a history variable: the failed calls the
closed breaker has counted against its upstream.

### EventDelivery and OutboxDispatch
`EventDelivery` is the promise: a committed event waits and then reaches the
stream; it neither disappears nor overtakes its commit. `OutboxDispatch` is the
event runtime on several replicas over one table: `start` and its failures, the
dispatch loop (claim for a lease, publish, mark), the cleaner, the consumers,
`cancel`/`Return`/`stop`, crashes at every point. The outbox library is known from
its configuration and the columns of its table only.

### GrantResolution
The two joins and the loops of `CheckWithAttributes` and `CheckPermissionCodes`.
Rows arrive in any order; a condition is empty, depends on the attributes, or is
broken. A caller that was answered about permission codes may go on to a check
(`GoOn`); `shown` are the codes it was shown. `StoreAssumption` is what the store's
operations guarantee of its rows, for the joins compare the tenant of the binding
only: that a binding names a role and a role holds permissions of one tenant is
`NoDanglingReference` of `PolicyStore`, that a code names one permission of a tenant
is a unique index.

### ScheduledJob
The cron job under the Redis lock, and callers of `Lock` and `Extend`. The key has
an owner's token and a time to live; calls and answers are lost, replicas die,
unlocks come late. The one assumption is the code's own: the deadline of a run
(30 s) is shorter than the life of the key (a minute).

### AppLifecycle
Construction, start hooks in order, roll-back of a start that failed, signal, stop
hooks in reverse, shutdown timeout. `alive` are the requests, jobs and goroutines
under way and `Uses` what each needs; every option is enabled.

### ReplicaProcess
One process with its job: `AppLifecycle` composed with the replica `Self` of
`ScheduledJob`. Cron fires while the scheduler's hook is started (`CronFires`), the
job is one of the workers its stop hook waits for (`RunSample`), and a process that
exits or dies in the middle of the job leaves the key to Redis (`Abandoned`). The
other replicas and lock holders go on around it.

## 3. Runs

| Run | Checks | Shows |
|---|---|---|
| `policy_store` | `EveryVersionAccounted NoLostUpdate AnswersAreTruthful NoDanglingReference ImplementsPolicyLog MutationsTerminate` | two handlers, two operations on the platform's permission, role, pair and binding and on another tenant's group membership and binding, which names the platform's role, from every initial set of rows; nobody waits for ever |
| `decision_cache` | `BoundedStaleness LabelNotBehindGrants EventuallyCoherent` | two checks race with a mutation; every notification and poll may fail |
| `decision_cache_poll` | `PollRepairsMissedInvalidation` | **violated**, see findings |
| `management_scope` | `ActsWhereChecked ScopeInvariant` | six shapes of caller, every route, three tenants and none |
| `route_policy` | `NoBlindSet WriterSeesItsWrite SnapshotsNeverGoBack PollConverges` | two writers, the loop of one replica, two routes, three calls of `Set`, restarts, failed refreshes; the poll alone brings the replica to the last policy, but for the commits named above |
| `route_sync` | `LastSyncListed GoneIsInactive EveryReplicaStarts` | two replicas, two releases of three routes, three deployments, a failure, deadlocks; replicas whose syncs exclude each other all come up when restarts back off |
| `projections` | `NewestWins AcknowledgedIsInvalidated BootstrapInvariant ImplementsMembershipRegister EventsApplied` | two handlers of each consumer, a fault and a management operation, in six deployments: group events of equal and missing times, one that is ignored and one that cannot be decoded; tenant events with two owners and none, both kinds of database; events of both kinds at once |
| `request_pipeline` | `AuthorizedBeforeReplay RecordInvariant OneExecutionPerKey EveryRequestAnswered` | five loads: a request, its retry and a stranger with the same key over HTTP; the same over gRPC with a record that expires under the handler; requests without a key; requests each stage refuses |
| `outbound` | `CallInvariant TripIsEarned CallLiveness` | two callers of one HTTP or gRPC client, again and again; late arrivals, timeouts, cancellations |
| `outbox` | `RuntimeInvariant ImplementsEventDelivery StopEnds` | two replicas, two events, two faults; the refinement is of the fair `EventDelivery`, so it includes that every event is delivered |
| `grant_resolution` | `OrderDoesNotMatter ShownIsAllowed` | every policy over six bindings and six role permissions of two tenants, every row order; a check by a caller that was shown its codes |
| `process` | `OneAtATime LifecycleInvariant CleanExit JobRunsAgain StopEnds` | the whole life of a process and its job, beside another replica and a worker that extends its lock, with a fault |

Type invariants. Where `TypeOK` is a theorem of its own (section 5) its run does not
repeat it; in the other modules it is a conjunct of `ScopeInvariant`,
`BootstrapInvariant`, `RecordInvariant`, `CallInvariant`, `RuntimeInvariant` and
`LifecycleInvariant`, beside the named properties these are made of, and is proved
with them.

Bounds. *Two handlers* are enough for every conflict of the store: a lock has one
holder and one waiter, an optimistic update one rival. *Two operations* (`MaxOps`)
on any initial set of rows are a change and the rival that relied on what it
replaced; the second tenant lets holders of different version rows meet, and has a
row that names one of the first. The
safety of longer histories is what the theorems of section 5 add. *TTL 2,
LoadBound 1* let an entry be filled late, age, expire and be replaced, and a label
and its grants differ; *two keys* let entries of different age coexist, which the
poll needs. Staleness is local to a replica, so the run has one, which hears a
notification or does not. Snapshots, mutex and loop of the route policies are local
to a replica too; *two writers and a loop* are three rivals for its mutex, and
*three calls of `Set`* (`MaxSets`) let one commit while a second refreshes and a
third holds a version that has gone stale. *Two handlers and a fault* are a holder,
a waiter and a redelivery for the projections; *three group events* are an undated
one and two of equal time, which can come in either order; *one event of each kind*
lets either consumer, or the management API, find the version row held by the other. *Three requests with one
key* are an owner, a retry that may take its place, and a stranger; the processing
time to live is longer than a handler in one load and shorter in another. *A
threshold of two* lets one call's two attempts be confused with two failed calls.
*Lease 1, RetryDelay 1, Retention 1* let a lease expire under its holder and a row
be purged before a late mark. *LockTTL 3, JobTimeout 2* let a key be extended,
expire and be taken while an old unlock is under way. *Three deployments* let a
third sync meet what two racing ones left. `AppLifecycle` has no bound: its state
space is finite. No symmetry is used, since every run but two checks a liveness
property. Deadlock is not checked where a behaviour may end: all events delivered
and purged, a check decided, no deployment left.

Fairness. `PolicyStore`: a handler's goroutine runs until it returns (weak
fairness), and the databases serve lock waiters in order (strong fairness of
`Write` and `BumpPolicyVersion`, which are enabled again and again while others
come and go). `DecisionCache`: the clock goes on and a started check runs on;
nothing is assumed of Redis, of the poll or of the writer. `RoutePolicy`: the
ticker of a loop keeps firing (weak fairness of `Poll`); the database does not
fail for ever, so a query that a loop tries again and again succeeds, and the
mutex, which writers come and go for, is granted (strong fairness of the three
queries); a writer that holds the mutex lets it go. Nothing is assumed of Redis:
`HandleMessage` has no fairness. `Projections`: a handler that can go on does (weak
fairness), and the durable stream hands out an unacknowledged event again and
again, whatever else it hands out (strong fairness of each event's delivery);
faults are finitely many. `RequestPipeline`: handlers
return, clients repeat, time goes on; outages end. `OutboundCall`: attempts and
waits end by their timeouts, and the breaker's open timeout passes; an
upstream that failed recovers in the end, and callers go on calling. `OutboxDispatch`: the
tickers fire and a goroutine looks at its context again. `RouteSync`: a replica that
failed is restarted and statements end; that restarts come to back off is a premise
of `EveryReplicaStarts`, for without it two replicas can deadlock each other's syncs
for ever, which the code has no retry against. `ReplicaProcess`: hooks return once
they may, work that was told to end ends, time passes; elsewhere the cron schedule
fires and Redis expires keys. The shutdown timeout may pass and is not counted on.

## 4. Findings

* `decision_cache_poll`. `cachedTenantVersions` (`service.go:680-691`) keeps the
  *highest* label of a tenant and `repair` compares only that with the database.
  An entry of an older policy is hidden by one of the current policy: k1 is
  cached, a mutation's notification is lost, k2 is cached afterwards, and the
  poll finds nothing to repair. `TestDecisionCacheRuntimePollRepairsMissedInvalidation`
  states that a poll repairs a missed invalidation; it does so with one entry.
  The entry still expires (`BoundedStaleness`).

Observations made while modelling that are not runs of their own; the properties
named say where they are excepted:

* Nine "my" handlers authorize the requested scope, discard the tenant it resolved
  to and pass the tenant of the body (`authorization_handler.go:711`); for
  `permission_scope=platform` the service (`service.go:93`) then refuses every one
  of them, although their documentation says "tenant or platform scope" (`:489`).
  They refuse too much, never too little, so `ActsWhereChecked` holds.
* `README.md:220` says redelivery cannot "duplicate or partially apply the grant".
  On MySQL the inserts of `BootstrapTenantOwner` are `INSERT IGNORE`, which also
  turns a missing parent into a warning: when a permission or role of the tenant
  holds a reserved code under another id, the rows that reference the reserved id
  are skipped, the event is recorded and the owner keeps part of the grant
  (`GrantIsWhole`). PostgreSQL refuses the insert and rolls back.
* `README.md:245` allows POST retries for calls that carry an idempotency key. The
  HTTP client retries when the *context* holds a key (`http.go:139`) and does not
  put the key on the request, so the upstream cannot recognise the repetition
  (`EffectOnce`); the gRPC client does copy it.
* A code that navigation is shown is not always followed by an allowed check: when
  the condition of another of the caller's grants cannot be evaluated the check
  fails with an error (`service.go:609-611`), though it is never denied
  (`ShownIsAllowed`).
* A projection invalidates the replica that handled the event and tells no other
  (`group_projection.go:74-76`), so `AcknowledgedIsInvalidated` is about the replica
  that acknowledges; the others may serve the old decision for the time
  `BoundedStaleness` allows.
* A call of the HTTP client with an absolute path fails inside the breaker, so a
  caller that goes on making it opens the breaker of a healthy upstream
  (`BreakerRecovers`).
* `breakerInterceptor` leaves out every code that is not listed, `OK` among them.
  Whether a successful probe closes the breaker depends on whether the breaker
  library shows `IsExcluded` the nil error; `BreakerRecovers` is about HTTP only.

## 5. Proofs

Eight modules hold the proofs. `PolicyStoreProofs`, `DecisionCacheProofs` and
`GrantResolutionProofs` are about the module of that name. `RouteProofs` is about
`RoutePolicy` and about `RouteSync`. `ProjectionsProofs` is
about `Projections`, with both consumers and the management API running.
`ReplicaProcessProofs` is about `ReplicaProcess`, that is `AppLifecycle` composed
with `ScheduledJob`, and about `ScheduledJob` alone. `RequestPipelineProofs` is
about `RequestPipeline` and about `ManagementScope`. `EgressProofs` is
about `OutboxDispatch` and about `OutboundCall`. The second module of each of these
three pairs names its specification so that both can be extended side by side
(`SyncSpec`, `ScopeSpec`, `ClientSpec`). They prove, for every
number of tenants, rows, handlers, replicas, keys, checks, routes, releases, events,
requests, callers and policies, every TTL and every bound:

| Theorem | States | Argument |
|---|---|---|
| **PolicyStoreProofs** | | |
| `TypeCorrect` | `TypeOK` | inductive with the refinement of `tx` by its program counter (`TypeInv`) |
| `VersionsAccounted` | `EveryVersionAccounted` | a bumped transaction is the only holder of its version row (`VersionLocks`) and holds the successor of the committed version (`NextVersion`); so the commit adds exactly the missing version |
| `UpdatesNotLost` | `NoLostUpdate` | a written row is held by one transaction (`RowLocks`), so nobody commits a version of it in between |
| `TruthfulAnswers` | `AnswersAreTruthful` | `applied` is set by the commit alone (`AppliedAtCommit`), and no definite refusal follows a commit |
| `RowsGrowByOne` | `RowVersionsGrowByOne` | the image written is still the successor of the committed row (`NextImage`) |
| `ReferencesHold` | `NoDanglingReference` | rows do not disappear, so what a handler looked up before its transaction is still there when it commits (`PlannedParents`); a row's tenant never changes, so it is still of the same tenant |
| `StoreImplementsLog` | `ImplementsPolicyLog` | `Commit` and `CommitUnacknowledged` map to `Announce` or `Bump`, all other steps to stuttering; needs `NextVersion` |
| **DecisionCacheProofs** | | |
| `CacheTypeCorrect` | `TypeOK` | inductive with the shape of loading requests |
| `StalenessBounded` | `BoundedStaleness` | `LoadingBound`: while a check is loading, its grants have been superseded no longer than it has been under way; `StoreDecision` turns this into the bound of the entry, `Tick` ages both sides |
| `LabelsSound` | `LabelNotBehindGrants` | the same fact for loading checks: versions only grow between the two queries |
| **GrantResolutionProofs** | | |
| `TypeCorrect` | `TypeOK` | a conjunct of `Inv`, with the shape of a decision at each point (`Shape`) |
| `Deterministic` | `OrderDoesNotMatter` | the decision is at every moment the reference applied to the rows seen so far; the order has left no other trace |
| `ShownCodesAllowed` | `ShownIsAllowed` | every code collected, and the wildcard, has an unconditional row behind it (`CodeInv`), also after the caller went on (`ShownInv`); the join of a check of what the permission covers contains that row (`ShownIsFound`, which needs `StoreAssumption`), so the loop ends allowed unless another row's condition ends it in an error |
| **RouteProofs** | | |
| `RouteTypeCorrect` | `TypeOK` of `RoutePolicy` | inductive with `RouteKnown` and `LoopAtHome`: a busy writer has a route, a loop refreshes its own replica |
| `SetsNotBlind` | `NoBlindSet` | a row has one holder (`RowLocks`), so no other commit moves its version |
| `WritesInForce` | `WriterSeesItsWrite` | `WriterOK` follows a change from commit through load to installation; a later refresh cannot take it away, because what it installs is not older (`InstallGrows`) |
| `SnapshotsMonotone` | `SnapshotsNeverGoBack` | one refresh per replica (`RefreshLocks`), so the snapshot it replaces is the one it was not older than when it read (`LoadOK`); references are read at installation and no snapshot is ahead of the table (`NotAhead`) |
| `SyncTypeCorrect` | `SyncTypeOK` | a conjunct of the invariant `SyncInv` |
| `NothingHalfListed` | `LastSyncListed` | a row has one writer, so the rows a sync has written are still its own when it commits and no other sync has deactivated them unseen |
| `ExactWithoutRace` | `GoneIsInactive` | a sync's scan saw every active row unless another committed meanwhile, which `raced` records |
| **ProjectionsProofs** | | |
| `TypeCorrect` | `TypeOK` of `GroupProjection` | inductive with `Exclusive`; all five theorems rest on `ConsumersInv`, the invariants of the two consumers and `Joint`: the version row has one holder among both |
| `NewestDecides` | `NewestWins` | `HandlerInv`: what a transaction will write is the merge of its event into the row that is still committed |
| `InvalidatedFirst` | `AcknowledgedIsInvalidated` | a handled invocation's event is not owed by its own replica, and only it is acknowledged |
| `Linearizable` | `ImplementsMembershipRegister` | both commits map to `TakeEffect`, a commit of the tenant consumer and a management operation to `OtherChange`, all other steps to stuttering |
| `OwnerGrantedWhole` | `BootstrapInvariant` | `StageInv`: a transaction that is past an insert has left a reserved row there, or knows of the row that was in the way; `WroteInv` and `Apart`: what it has not committed nobody else writes; `RowsInv`: a reserved row has its parents; `OneVersionPerChange` because a bump is the successor of the committed version and its row is not shared (`Joint`) |
| **ReplicaProcessProofs** | | |
| `TypeCorrect` | `TypeOK` of `ScheduledJob` | a conjunct of the invariant |
| `LockHeld` | `LockOutlivesJob` | what is left of a working run's deadline is less than what is left of its key |
| `MutualExclusion` | `OneAtATime` | from `LockOutlivesJob`: a key has one owner |
| `ProcessInvariant` | `ProcInv` | the invariants of lock and life cycle with the fact that joins them (`JobInv`): the job is one of the workers exactly while it runs |
| `MutualExclusionInProcess` | `OneAtATime`, of `ProcessSpec` | a step of the life cycle leaves the job alone or ends it as a death does |
| `LifecycleSafe` | `LifecycleInvariant` | what is open, listening and alive is determined by how far the hooks have come (`LifeInv`) |
| `StopsCleanly` | `CleanExit` | the same; without faults the key is the process's own only while its job works or unlocks |
| **RequestPipelineProofs** | | |
| `ClearedBeforeReplay` | `AuthorizedBeforeReplay` | `Fine`: a request past the place of the route policy in its chain was let through by it, and so was one with an answer that tells something |
| `RecordsFaithful` | `RecordInvariant` | `Owned`: a record's owner has its key and its fingerprint, and a finished record its owner's answer |
| `OneExecution` | `OneExecutionPerKey` | `Held`: a running handler's key has a processing record that it owns, and what the record has left and the handler's age make up the time to live; so it cannot expire before the handler's timeout, and has one owner |
| `ActsInCheckedTenant` | `ActsWhereChecked` | `Checked`, `Compared`: the subject the check left behind is the caller's, the context is marked with its tenant exactly if a scope was checked, and the service compared the target with that mark or with the caller |
| `UsersKeepToThemselves` | `ScopeInvariant` | the same, with what the three checks make of a user (`SubjectFound`) |
| **EgressProofs** | | |
| `NothingUsesClosedBus` | `RuntimeInvariant` | `Lived`: the bus is open exactly while the runtime is up or stopping, and goroutines live only then |
| `NoEventLost` | `Delivery!Spec`, the safety part of `ImplementsEventDelivery` | `Backed`: what is about to be marked, is marked or is purged is in the stream, and what is claimed or in the stream was committed; then `Append` maps to `Commit`, the first publication to `Deliver`, all other steps to stuttering |
| `AtMostOnce` | `CallInvariant` | `Tried`: the attempts on the wire and at the upstream are different ones among those made, another one is made only below `maxAttempts`, and effects are at most as many as arrivals, or one if the key travels |
| `TripsEarned` | `TripIsEarned` | `Counted`: a closed breaker has counted no more failures than there were, and what it counts is a failure (`CountedIsFailure`) |

Most invariants are not inductive alone: `EveryVersionAccounted` says nothing of a
transaction that has bumped and not committed, `BoundedStaleness` nothing of a
check that has read and not stored, `WriterSeesItsWrite` nothing of a refresh that
has read and not installed, `NewestWins` nothing of a transaction that has computed
its row and not committed, `OneExecutionPerKey` nothing of a record that is about to
expire, `ActsWhereChecked` nothing of a request between check and operation,
`EffectOnce` nothing of an attempt that is still on the wire. The conjunctions
named `...Inv` in the proof modules are.

The assumptions are those named in the component modules, which TLC evaluates in
every run. Four assumptions say
what the schema and the code guarantee and a small instance would not show: rows
other than role permissions and bindings have no foreign keys (`StoreAssumption`
of `PolicyStore`, migration 000002), rows that reference each other are of one tenant
(`StoreAssumption` of `GrantResolution`, proved of the store as `ReferencesHold`),
the names of a tenant's reserved rows are not those of members (`BootstrapAssumption`), and a request has some fingerprint
(`PipelineAssumption`).

`TypeOK`, `SyncTypeOK`, `RowVersionsGrowByOne` and `LockOutlivesJob` are left to the
proofs; the other properties in the table are also
checked by a run, where a seeded fault shows that each can fail.

Only model-checked: the properties that need fairness (`MutationsTerminate`,
`EventuallyCoherent`, `PollConverges`, `EveryReplicaStarts`, `EventsApplied`,
`EveryRequestAnswered`, `CallLiveness`, `StopEnds`, `JobRunsAgain`, and of
`ImplementsEventDelivery` that every event is delivered), which are out of reach of
the prover. Every safety property a passing run checks is also proved.

## 6. Plan

1. `NothingUsesClosedBus` and `StopsCleanly` speak of the bus and of the handles of
   a process in two modules; a theorem about a process that contains the event
   runtime would need them composed.
2. Facts that liveness rests on and that are safety: that a waiting transaction
   always has a holder that can go on, that a circle of syncs has a victim.

## 7. Not modelled

* Migrations: a wrapper around golang-migrate. That they run before anything is
  opened is in `AppLifecycle`; the triggers that number rows are in `PolicyStore`.
* Health probes, metrics, traces, logs, request ids: no state another part uses.
* Configuration: parsing and validation without state. The limits the models rely
  on appear as assumptions (`validateClientPolicy`, `Validate`, `newMutex`).
* Authentication: token verification by a library; the models start from the
  authenticated principal, and a stage of `RequestPipeline` refuses the others.
* The methods of the gRPC server convert messages and call the same service as the
  HTTP handlers; their chain, discovery and life cycle are modelled.
* The arithmetic of the rate limiter, the expression language, the outbox store,
  the bus, the breaker and the lock script are libraries outside the repository;
  the last four are modelled from how they are used and marked external.
* What a consumer does after `Consume` has returned an error: its goroutine ends
  (`ConsumeFails`) and is not started again. `EventsApplied` is about consumers that run.
* Generated API documents.
