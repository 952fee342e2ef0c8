----------------------------- MODULE RoutePolicy -----------------------------
(***************************************************************************)
(* The route policies: internal/routepolicy and its startup in             *)
(* internal/transport.  Set changes a policy and its permission references *)
(* in one transaction; every replica evaluates its requests against a      *)
(* compiled snapshot, which RefreshSource replaces after a local Set, on a *)
(* Redis message, when a poll finds another revision, and at startup.      *)
(*                                                                         *)
(* RefreshSource holds a mutex and makes three queries without a           *)
(* transaction: the policies, their references, and the revision, which is *)
(* the greatest updated_at.  updated_at is the time of a statement, so     *)
(* transactions may commit in another order than their stamps.             *)
(*                                                                         *)
(* What a Set wrote (expression, status, references) is its version,       *)
(* counted from the initial state; a snapshot entry is the version of its  *)
(* expression and the version of its references.                           *)
(***************************************************************************)
EXTENDS Integers

CONSTANTS
    Routes,
    Replicas,
    Writers,        \* concurrent calls of Set
    None,
    MaxSets         \* bound: calls of Set in a behaviour

ASSUME RouteAssumption ==
    /\ None \notin Routes \cup Replicas
    /\ Writers \cap Replicas = {}
    /\ MaxSets \in Nat

VARIABLES
    policy,     \* policy[x]: version and stamp of the committed policy
    clock,      \* the stamps given so far
    started,    \* calls of Set so far
    job,        \* job[p]: what a writer, or the loop of a replica, is doing
    snapshot,   \* snapshot[r][x]: Manager.snapshot
    revision,   \* revision[r]: Manager.revision
    up,         \* up[r]: the replica has loaded policies and serves
    pending,    \* pending[r]: messages Redis has delivered to the replica
    masked      \* masked[r]: history, a commit the poll of r cannot notice

vars == <<policy, clock, started, job, snapshot, revision, up, pending, masked>>

-----------------------------------------------------------------------------

Policy == [version : Nat, stamp : Nat]
Entry == [expr : Nat, refs : Nat]
Blank == [x \in Routes |-> 0]

PC == {"idle", "planned", "written", "waiting", "policies", "installed",
       "refreshed", "answered"}
Job == [pc : PC, replica : Replicas, route : Routes \cup {None}, expected : Nat,
        stamp : Nat, expr : [Routes -> Nat],
        result : {"none", "ok", "stale", "internal", "unavailable"}]
At(r, pc) == [pc |-> pc, replica |-> r, route |-> None, expected |-> 0, stamp |-> 0,
              expr |-> Blank, result |-> "none"]

\* Manager.refresh is held from the first query to the end of the third.
Holds(p, r) == job[p].pc \in {"policies", "installed"} /\ job[p].replica = r
HoldsRow(w, x) == job[w].pc = "written" /\ job[w].route = x

\* Repository.Revision: the policy with the greatest updated_at.
Latest(x) == \A y \in Routes : policy[y].stamp <= policy[x].stamp

Versions == [x \in Routes |-> policy[x].version]
Current(r) == \A x \in Routes :
                 snapshot[r][x] = [expr |-> policy[x].version, refs |-> policy[x].version]

-----------------------------------------------------------------------------
(* Service.Set and Repository.Set.                                         *)

\* The caller names the version it saw.
Set(w, r, x, e) ==
    /\ job[w].pc = "idle"
    /\ up[r]
    /\ started < MaxSets
    /\ started' = started + 1
    /\ job' = [job EXCEPT ![w] = [At(r, "planned") EXCEPT !.route = x, !.expected = e]]
    /\ UNCHANGED <<policy, clock, snapshot, revision, up, pending, masked>>

Answer(w, res) == job' = [job EXCEPT ![w].pc = "answered", ![w].result = res]

\* Seeded fault: the row is read without FOR UPDATE and written blindly.
WritePolicyUnlocked(w) ==
    /\ job[w].pc = "planned"
    /\ IF policy[job[w].route].version = job[w].expected
       THEN /\ clock' = clock + 1
            /\ job' = [job EXCEPT ![w].pc = "written", ![w].stamp = clock + 1]
       ELSE Answer(w, "stale") /\ UNCHANGED clock
    /\ UNCHANGED <<policy, started, snapshot, revision, up, pending, masked>>

\* SELECT ... FOR UPDATE, the comparison, the UPDATE of the policy and the
\* writes of its references.
WritePolicy(w) ==
    /\ job[w].pc = "planned"
    /\ \A v \in Writers \ {w} : ~HoldsRow(v, job[w].route)
    /\ IF policy[job[w].route].version = job[w].expected
       THEN /\ clock' = clock + 1
            /\ job' = [job EXCEPT ![w].pc = "written", ![w].stamp = clock + 1]
       ELSE Answer(w, "stale") /\ UNCHANGED clock
    /\ UNCHANGED <<policy, started, snapshot, revision, up, pending, masked>>

\* The commit.  The poll of a replica cannot notice it when the replica has
\* already recorded a later stamp, or is about to record this one for the
\* snapshot it has just installed.
Apply(w) ==
    /\ job[w].pc = "written"
    /\ policy' = [policy EXCEPT ![job[w].route] =
                    [version |-> job[w].expected + 1, stamp |-> job[w].stamp]]
    /\ masked' = [r \in Replicas |->
                    \/ masked[r]
                    \/ job[w].stamp <= revision[r]
                    \/ \E p \in Writers \cup Replicas :
                          job[p].pc = "installed" /\ job[p].replica = r]
    /\ UNCHANGED <<clock, started, snapshot, revision, up, pending>>

\* Set goes on to RefreshSource.
Commit(w) ==
    /\ Apply(w)
    /\ job' = [job EXCEPT ![w].pc = "waiting"]

\* The acknowledgement is lost: no refresh and no notification.
CommitUnacknowledged(w) ==
    /\ Apply(w)
    /\ Answer(w, "internal")

Rollback(w) ==
    /\ job[w].pc \in {"planned", "written"}
    /\ Answer(w, "internal")
    /\ UNCHANGED <<policy, clock, started, snapshot, revision, up, pending, masked>>

\* Redis delivers to the replicas that are subscribed just now; a failed
\* publish is logged only.  A lost operation log makes the answer
\* "unavailable".
Notify(w) ==
    /\ job[w].pc = "refreshed"
    /\ \E heard \in SUBSET {r \in Replicas : up[r]} :
          pending' = [r \in Replicas |-> IF r \in heard THEN pending[r] + 1 ELSE pending[r]]
    /\ \E res \in {"ok", "unavailable"} : Answer(w, res)
    /\ UNCHANGED <<policy, clock, started, snapshot, revision, up, masked>>

Return(w) ==
    /\ job[w].pc = "answered"
    /\ job' = [job EXCEPT ![w] = At(job[w].replica, "idle")]
    /\ UNCHANGED <<policy, clock, started, snapshot, revision, up, pending, masked>>

-----------------------------------------------------------------------------
(* RefreshSource, called by a writer or by the loop of a replica.          *)

\* Seeded fault: the refresh does not take the mutex.
ReadPoliciesUnlocked(p) ==
    /\ job[p].pc = "waiting"
    /\ job' = [job EXCEPT ![p].pc = "policies", ![p].expr = Versions]
    /\ UNCHANGED <<policy, clock, started, snapshot, revision, up, pending, masked>>

ReadPolicies(p) ==
    /\ job[p].pc = "waiting"
    /\ \A q \in (Writers \cup Replicas) \ {p} : ~Holds(q, job[p].replica)
    /\ job' = [job EXCEPT ![p].pc = "policies", ![p].expr = Versions]
    /\ UNCHANGED <<policy, clock, started, snapshot, revision, up, pending, masked>>

\* The references are read, everything is compiled and the snapshot is
\* replaced.
Install(p) ==
    LET r == job[p].replica IN
    /\ job[p].pc = "policies"
    /\ snapshot' = [snapshot EXCEPT ![r] =
            [x \in Routes |-> [expr |-> job[p].expr[x], refs |-> policy[x].version]]]
    /\ masked' = [masked EXCEPT ![r] = job[p].expr # Versions]
    /\ job' = [job EXCEPT ![p].pc = "installed", ![p].expr = Blank]
    /\ UNCHANGED <<policy, clock, started, revision, up, pending>>

\* The greatest updated_at is recorded and the mutex released.
ReadRevision(p) ==
    LET r == job[p].replica IN
    /\ job[p].pc = "installed"
    /\ \E x \in Routes :
          /\ Latest(x)
          /\ revision' = [revision EXCEPT ![r] = policy[x].stamp]
    /\ job' = [job EXCEPT ![p].pc = IF p \in Writers THEN "refreshed" ELSE "idle"]
    /\ up' = [up EXCEPT ![r] = TRUE]
    /\ UNCHANGED <<policy, clock, started, snapshot, pending, masked>>

\* Seeded fault: a failed refresh is reported as success.
RefreshFailsSilently(p) ==
    /\ job[p].pc \in {"waiting", "policies", "installed"}
    /\ IF p \in Writers THEN Answer(p, "ok")
       ELSE job' = [job EXCEPT ![p] = At(p, IF up[p] THEN "idle" ELSE "waiting")]
    /\ UNCHANGED <<policy, clock, started, snapshot, revision, up, pending, masked>>

\* A query fails, or expressions and references of different versions do not
\* compile.  A writer answers "unavailable" and notifies nobody; a loop waits
\* for the next message or poll; a start fails and is tried again.
RefreshFails(p) ==
    /\ job[p].pc \in {"waiting", "policies", "installed"}
    /\ IF p \in Writers THEN Answer(p, "unavailable")
       ELSE job' = [job EXCEPT ![p] = At(p, IF up[p] THEN "idle" ELSE "waiting")]
    /\ UNCHANGED <<policy, clock, started, snapshot, revision, up, pending, masked>>

-----------------------------------------------------------------------------
(* Manager.Run and the life of a replica.                                  *)

HandleMessage(r) ==
    /\ job[r].pc = "idle"
    /\ pending[r] > 0
    /\ pending' = [pending EXCEPT ![r] = @ - 1]
    /\ job' = [job EXCEPT ![r].pc = "waiting"]
    /\ UNCHANGED <<policy, clock, started, snapshot, revision, up, masked>>

\* Seeded fault: the poll only notices policies it has never loaded any of.
PollOnce(r) ==
    /\ job[r].pc = "idle"
    /\ \E x \in Routes : Latest(x) /\ policy[x].stamp # revision[r] /\ revision[r] = 0
    /\ job' = [job EXCEPT ![r].pc = "waiting"]
    /\ UNCHANGED <<policy, clock, started, snapshot, revision, up, pending, masked>>

\* The greatest updated_at differs from the recorded one.
Poll(r) ==
    /\ job[r].pc = "idle"
    /\ \E x \in Routes : Latest(x) /\ policy[x].stamp # revision[r]
    /\ job' = [job EXCEPT ![r].pc = "waiting"]
    /\ UNCHANGED <<policy, clock, started, snapshot, revision, up, pending, masked>>

\* The process dies with its requests and is started again: SyncRoutes, which
\* no snapshot depends on, and RefreshSource before it serves.
Restart(r) ==
    /\ job' = [p \in Writers \cup Replicas |->
                IF p = r THEN At(r, "waiting")
                ELSE IF p \in Writers /\ job[p].replica = r THEN At(r, "idle")
                ELSE job[p]]
    /\ snapshot' = [snapshot EXCEPT ![r] = [x \in Routes |-> [expr |-> 0, refs |-> 0]]]
    /\ revision' = [revision EXCEPT ![r] = 0]
    /\ up' = [up EXCEPT ![r] = FALSE]
    /\ pending' = [pending EXCEPT ![r] = 0]
    /\ masked' = [masked EXCEPT ![r] = FALSE]
    /\ UNCHANGED <<policy, clock, started>>

-----------------------------------------------------------------------------

Init ==
    /\ policy = [x \in Routes |-> [version |-> 0, stamp |-> 0]]
    /\ clock = 0
    /\ started = 0
    /\ \E r \in Replicas :
          job = [p \in Writers \cup Replicas |->
                    IF p \in Writers THEN At(r, "idle") ELSE At(p, "waiting")]
    /\ snapshot = [r \in Replicas |-> [x \in Routes |-> [expr |-> 0, refs |-> 0]]]
    /\ revision = [r \in Replicas |-> 0]
    /\ up = [r \in Replicas |-> FALSE]
    /\ pending = [r \in Replicas |-> 0]
    /\ masked = [r \in Replicas |-> FALSE]

Change(w) ==
    \/ \E r \in Replicas, x \in Routes, e \in 0..MaxSets : Set(w, r, x, e)
    \/ WritePolicy(w)
    \/ Commit(w)
    \/ CommitUnacknowledged(w)
    \/ Rollback(w)
    \/ Notify(w)
    \/ Return(w)

RefreshSource(p) ==
    \/ ReadPolicies(p)
    \/ Install(p)
    \/ ReadRevision(p)
    \/ RefreshFails(p)

Next ==
    \/ \E w \in Writers : Change(w)
    \/ \E p \in Writers \cup Replicas : RefreshSource(p)
    \/ \E r \in Replicas : HandleMessage(r) \/ Poll(r) \/ Restart(r)

Spec == Init /\ [][Next]_vars

\* The loop of a replica runs on and its ticker keeps firing; the database does
\* not fail for ever, so a query that is tried again and again succeeds; and a
\* writer that holds the mutex lets it go.
Fairness ==
    /\ \A r \in Replicas :
          /\ WF_vars(Poll(r))
          /\ SF_vars(ReadPolicies(r))
          /\ SF_vars(Install(r))
          /\ SF_vars(ReadRevision(r))
    /\ \A w \in Writers : WF_vars(Install(w) \/ ReadRevision(w) \/ RefreshFails(w))

FairSpec == Spec /\ Fairness

-----------------------------------------------------------------------------
(* Properties.                                                             *)

\* Every variable has its type.
TypeOK ==
    /\ policy \in [Routes -> Policy]
    /\ clock \in Nat
    /\ started \in Nat
    /\ job \in [Writers \cup Replicas -> Job]
    /\ snapshot \in [Replicas -> [Routes -> Entry]]
    /\ revision \in [Replicas -> Nat]
    /\ up \in [Replicas -> BOOLEAN]
    /\ pending \in [Replicas -> Nat]
    /\ masked \in [Replicas -> BOOLEAN]

\* SELECT ... FOR UPDATE: while a Set has written and not committed, the policy
\* still is the one its caller named; no committed policy is overwritten
\* unseen.
NoBlindSet ==
    \A w \in Writers :
        job[w].pc = "written" => policy[job[w].route].version = job[w].expected

\* Set answers success only after the replica that answers evaluates requests
\* against the policy it wrote, or a later one, expression and references
\* both, whatever other refreshes run on that replica at the same time.
WriterSeesItsWrite ==
    \A w \in Writers : job[w].result = "ok" =>
        LET e == snapshot[job[w].replica][job[w].route]
        IN  e.expr > job[w].expected /\ e.refs > job[w].expected

\* Manager.refresh: a serving replica never goes back to an older policy, for
\* all that refreshes from a writer, a message and a poll overlap.
SnapshotsNeverGoBack ==
    [][\A r \in Replicas, x \in Routes :
          up[r] /\ up'[r] =>
             /\ snapshot[r][x].expr <= snapshot'[r][x].expr
             /\ snapshot[r][x].refs <= snapshot'[r][x].refs]_vars

\* Run: without a single message, after failed refreshes and lost
\* acknowledgements, the poll brings every replica to the last policy for good,
\* unless the last commit was masked: it fell between the queries of a refresh
\* or had an older stamp than a commit already recorded.
PollConverges ==
    \A r \in Replicas : <>[](up[r] /\ ~masked[r] => Current(r))

=============================================================================
