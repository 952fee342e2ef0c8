------------------------------ MODULE RouteSync ------------------------------
(***************************************************************************)
(* Route discovery: Repository.SyncRoutes, which every replica runs for    *)
(* the routes of its release before it serves.  One transaction marks the  *)
(* active routes of the service and protocol inactive and then, for each   *)
(* route of the release, looks for its row and inserts or updates it.      *)
(* Replicas of several releases start side by side.                        *)
(*                                                                         *)
(* The transaction has the database's default isolation, READ COMMITTED in *)
(* PostgreSQL and Kingbase: each statement sees what is committed when it  *)
(* starts, waits for the rows another transaction has written and looks at *)
(* them again.  The order of the rows in an UPDATE is the database's; the  *)
(* order of the routes is that of a Go map (GetServiceInfo).               *)
(***************************************************************************)
EXTENDS Naturals, FiniteSets

CONSTANTS
    Nodes,          \* where replicas run
    RouteIds,       \* the identities NewRoute derives from method and path
    Releases,       \* the sets of routes that releases of the service have
    MaxDeploys,     \* bound: deployments in a behaviour
    MaxFailures,    \* bound: failures of the database or of a process
    NoRoute

ASSUME SyncAssumption ==
    /\ Releases \subseteq SUBSET RouteIds /\ {} \notin Releases
    /\ MaxDeploys \in Nat /\ MaxFailures \in Nat
    /\ NoRoute \notin RouteIds

VARIABLES
    row,        \* row[x]: committed status in route_definitions
    proc,       \* proc[r]: the replica's process and its transaction
    deploys, failures,
    last,       \* history: the release synchronised last, or {}
    raced       \* history: another sync committed while the last one ran

syncVars == <<row, proc, deploys, failures, last, raced>>

Status == {"none", "active", "inactive"}
Unwritten == [x \in RouteIds |-> "none"]
Process == [pc : {"off", "down", "scan", "deactivate", "upsert", "up"},
            release : SUBSET RouteIds, todo : SUBSET RouteIds,
            doing : RouteIds \cup {NoRoute}, found : BOOLEAN, waiting : BOOLEAN,
            writes : [RouteIds -> Status], raced : BOOLEAN]
Idle(pc, release) ==
    [pc |-> pc, release |-> release, todo |-> {}, doing |-> NoRoute, found |-> FALSE,
     waiting |-> FALSE, writes |-> Unwritten, raced |-> FALSE]

Running(r) == proc[r].pc \in {"scan", "deactivate", "upsert"}
Active == {x \in RouteIds : row[x] = "active"}

\* Row and unique-index locks: an uncommitted write keeps the others waiting,
\* and who waits comes before who does not yet.
HasWritten(q, x) == proc[q].writes[x] # "none"
Waits(q, x) == proc[q].waiting /\ proc[q].doing = x
Free(r, x) ==
    /\ \A q \in Nodes \ {r} : ~HasWritten(q, x)
    /\ HasWritten(r, x) \/ Waits(r, x) \/ \A q \in Nodes : ~Waits(q, x)
Write(r, x, s) ==
    proc' = [proc EXCEPT ![r].writes[x] = s, ![r].doing = NoRoute, ![r].waiting = FALSE,
                         ![r].todo = @ \ {x}]

\* A migration has listed some of the routes.
SyncInit ==
    /\ row \in [RouteIds -> {"none", "active"}] /\ last = {} /\ raced = FALSE
    /\ proc = [r \in Nodes |-> Idle("off", {})]
    /\ deploys = 0 /\ failures = 0

-----------------------------------------------------------------------------

\* A release is started where nothing, or another release, ran.
Deploy(r, release) ==
    /\ proc[r].pc \in {"off", "up"} /\ deploys < MaxDeploys
    /\ deploys' = deploys + 1
    /\ proc' = [proc EXCEPT ![r] = Idle("scan", release)]
    /\ UNCHANGED <<row, failures, last, raced>>

\* OnStart failed, the process ended; it is started again.
StartAgain(r) ==
    /\ proc[r].pc = "down"
    /\ proc' = [proc EXCEPT ![r] = Idle("scan", @.release)]
    /\ UNCHANGED <<row, deploys, failures, last, raced>>

\* Seeded fault: only the release's own routes are marked inactive.
ScanOwn(r) ==
    /\ proc[r].pc = "scan"
    /\ proc' = [proc EXCEPT ![r].pc = "deactivate", ![r].todo = Active \cap proc[r].release]
    /\ UNCHANGED <<row, deploys, failures, last, raced>>

\* UPDATE ... SET status='inactive' finds the active rows.
Scan(r) ==
    /\ proc[r].pc = "scan"
    /\ proc' = [proc EXCEPT ![r].pc = "deactivate", ![r].todo = Active]
    /\ UNCHANGED <<row, deploys, failures, last, raced>>

\* Seeded fault: the row is not looked for.
SelectNothing(r, x) ==
    /\ proc[r].pc \in {"deactivate", "upsert"}
    /\ proc[r].doing = NoRoute /\ x \in proc[r].todo
    /\ proc' = [proc EXCEPT ![r].doing = x, ![r].found = FALSE]
    /\ UNCHANGED <<row, deploys, failures, last, raced>>

\* The UPDATE comes to its next row; the loop takes its next route and
\* SELECTs it.
Select(r, x) ==
    /\ proc[r].pc \in {"deactivate", "upsert"}
    /\ proc[r].doing = NoRoute /\ x \in proc[r].todo
    /\ proc' = [proc EXCEPT ![r].doing = x, ![r].found = row[x] # "none" \/ HasWritten(r, x)]
    /\ UNCHANGED <<row, deploys, failures, last, raced>>

\* Seeded fault: the UPDATE is executed on the pool and not on tx.
DeactivateOutside(r) ==
    LET x == proc[r].doing IN
    /\ proc[r].pc = "deactivate" /\ x # NoRoute /\ Free(r, x)
    /\ row' = [row EXCEPT ![x] = "inactive"]
    /\ Write(r, x, "none")
    /\ UNCHANGED <<deploys, failures, last, raced>>

\* The row is locked and, if it still is active, marked.
Deactivate(r) ==
    LET x == proc[r].doing IN
    /\ proc[r].pc = "deactivate" /\ x # NoRoute /\ Free(r, x)
    /\ Write(r, x, IF row[x] = "active" THEN "inactive" ELSE "none")
    /\ UNCHANGED <<row, deploys, failures, last, raced>>

\* A statement comes to a row that is locked.
Wait(r) ==
    /\ Running(r) /\ proc[r].doing # NoRoute /\ ~proc[r].waiting
    /\ \E q \in Nodes \ {r} : HasWritten(q, proc[r].doing)
    /\ proc' = [proc EXCEPT ![r].waiting = TRUE]
    /\ UNCHANGED <<row, deploys, failures, last, raced>>

Deactivated(r) ==
    /\ proc[r].pc = "deactivate" /\ proc[r].todo = {}
    /\ proc' = [proc EXCEPT ![r].pc = "upsert", ![r].todo = proc[r].release]
    /\ UNCHANGED <<row, deploys, failures, last, raced>>

\* Within: fn returned an error.
RolledBack(r) == [proc EXCEPT ![r] = Idle("down", @.release)]

\* INSERT where SELECT found no row.  A row that was inserted meanwhile
\* violates the primary key.
Insert(r) ==
    LET x == proc[r].doing IN
    /\ proc[r].pc = "upsert" /\ x # NoRoute /\ ~proc[r].found /\ Free(r, x)
    /\ IF row[x] = "none" THEN Write(r, x, "active") ELSE proc' = RolledBack(r)
    /\ UNCHANGED <<row, deploys, failures, last, raced>>

Update(r) ==
    LET x == proc[r].doing IN
    /\ proc[r].pc = "upsert" /\ x # NoRoute /\ proc[r].found /\ Free(r, x)
    /\ Write(r, x, "active")
    /\ UNCHANGED <<row, deploys, failures, last, raced>>

\* The commit; its acknowledgement may be lost, and then the start fails.
CommitSync(r) ==
    /\ proc[r].pc = "upsert" /\ proc[r].todo = {}
    /\ row' = [x \in RouteIds |-> IF HasWritten(r, x) THEN proc[r].writes[x] ELSE row[x]]
    /\ last' = proc[r].release /\ raced' = proc[r].raced
    /\ \E pc \in {"up", "down"} :
         /\ pc = "down" => failures < MaxFailures
         /\ failures' = failures + IF pc = "down" THEN 1 ELSE 0
         /\ proc' = [q \in Nodes |->
                       IF q = r THEN Idle(pc, proc[r].release)
                       ELSE [proc[q] EXCEPT !.raced = @ \/ proc[q].pc \in {"deactivate", "upsert"}]]
    /\ UNCHANGED deploys

\* A statement fails, or the process dies.
Fail(r) ==
    /\ Running(r) /\ failures < MaxFailures
    /\ failures' = failures + 1
    /\ proc' = RolledBack(r)
    /\ UNCHANGED <<row, deploys, last, raced>>

\* The database aborts one of the transactions that wait in a circle.
WaitsFor(r, q) == \E x \in RouteIds : q # r /\ Waits(r, x) /\ HasWritten(q, x)
DeadlockAbort(r) ==
    /\ \E S \in SUBSET Nodes :
         /\ r \in S
         /\ \A p \in S : (\E q \in S : WaitsFor(p, q)) /\ (\E q \in S : WaitsFor(q, p))
    /\ proc' = RolledBack(r)
    /\ UNCHANGED <<row, deploys, failures, last, raced>>

-----------------------------------------------------------------------------
SyncRoutes(r) ==
    \/ Scan(r) \/ Deactivate(r) \/ Wait(r) \/ Deactivated(r) \/ Insert(r) \/ Update(r)
    \/ CommitSync(r) \/ DeadlockAbort(r) \/ StartAgain(r)
    \/ \E x \in RouteIds : Select(r, x)

SyncNext ==
    \E r \in Nodes :
      \/ SyncRoutes(r) \/ Fail(r)
      \/ \E release \in Releases : Deploy(r, release)

SyncSpec == SyncInit /\ [][SyncNext]_syncVars

\* The statements of a replica return unless they wait for a row, the database
\* breaks circles, and the orchestrator starts failed processes again.
FairSyncSpec == SyncSpec /\ \A r \in Nodes : WF_syncVars(SyncRoutes(r))

-----------------------------------------------------------------------------
(* Properties.                                                             *)

\* Every variable has its type; a process that is not in SyncRoutes has no
\* open transaction.
SyncTypeOK ==
    /\ row \in [RouteIds -> Status]
    /\ proc \in [Nodes -> Process]
    /\ deploys \in 0..MaxDeploys /\ failures \in 0..MaxFailures
    /\ last \subseteq RouteIds /\ raced \in BOOLEAN
    /\ \A r \in Nodes : Running(r) \/ proc[r] = Idle(proc[r].pc, proc[r].release)

\* Whoever lists the routes, at any time, sees every route of the release
\* that was synchronised last: a sync in progress, failed, aborted or lost
\* never shows half of its work.
LastSyncListed == last \subseteq Active

\* A route the release does not have any more is inactive after its sync,
\* unless another sync committed while this one ran.  (Then the routes that
\* one inserted, which the first UPDATE could not see, stay active.)
GoneIsInactive == ~raced /\ last # {} => Active = last

\* Restarts wait longer than a sync takes, as those of an orchestrator that
\* backs off come to do.
RestartsBackOff ==
    \A r \in Nodes :
      proc[r].pc = "down" /\ proc'[r].pc = "scan" => \A q \in Nodes : ~Running(q)

\* Replicas that start at the same time may exclude each other by a unique
\* violation or a deadlock, but every one of them comes up if restarts come
\* to back off.  (Without that two replicas can deadlock again and again: the
\* rows of an UPDATE and the routes of a map come in a new order every time.)
EveryReplicaStarts ==
    <>[][RestartsBackOff]_syncVars =>
      \A r \in Nodes : proc[r].pc = "scan" ~> proc[r].pc = "up"

=============================================================================
