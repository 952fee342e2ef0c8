---------------------------- MODULE DecisionCache ----------------------------
(***************************************************************************)
(* The decision caches of the replicas of authorization-service: the map   *)
(* of internal/authorization/service.go, the requests that read and fill   *)
(* it, the mutations that drop entries after their commit, and the runtime *)
(* of decision_cache_runtime.go, which hears of other replicas' mutations  *)
(* through Redis and polls the policy version.                             *)
(*                                                                         *)
(* The policy of a tenant is its sequence of versions (module PolicyLog,   *)
(* which PolicyStore implements).  A decision is abstracted to the version *)
(* its grants were read at and the version it is labelled with.            *)
(*                                                                         *)
(* Time passes in ticks.  TTL is decision_cache_ttl; LoadBound bounds the  *)
(* time from a lookup to the store of its result: the HTTP request timeout *)
(* cancels the two queries of Resolve.                                     *)
(***************************************************************************)
EXTENDS Integers

CONSTANTS
    Replicas,
    Tenants,
    Subjects,
    Keys,           \* cache keys: tenant, subject, resource, action, attributes
    TenantOf,       \* the tenant of a subject
    SubjectOf,      \* the subject of a key
    None,           \* no entry, no request, no writer
    Requests,       \* concurrent authorization checks
    Writers,        \* concurrent mutations and projections
    TTL,
    LoadBound,
    MaxVersion      \* bound: policy versions per tenant

Horizon == TTL + LoadBound + 1      \* ages beyond it are not told apart
Version == 0..MaxVersion
Entry == [grants : Version, version : Version, ttl : 0..TTL]

ASSUME CacheAssumption ==
    /\ TenantOf \in [Subjects -> Tenants]
    /\ SubjectOf \in [Keys -> Subjects]
    /\ None \notin Entry \cup Replicas \cup Keys \cup Subjects \cup Tenants
    /\ TTL \in Nat \ {0}
    /\ LoadBound \in Nat
    /\ MaxVersion \in Nat

VARIABLES
    version,    \* version[t]: the committed policy version
    superseded, \* superseded[t][v]: history, ticks since v stopped being current
    cache,      \* cache[r][k]: Service.cache of replica r
    req,        \* req[q]: the check q is executing
    wr,         \* wr[w]: the mutation or projection w is executing
    inbox,      \* inbox[r]: invalidations Redis has delivered to r
    loop        \* loop[r]: DecisionCacheRuntime.run of r

vars == <<version, superseded, cache, req, wr, inbox, loop>>

-----------------------------------------------------------------------------

KeyTenant(k) == TenantOf[SubjectOf[k]]
Live(e) == e # None /\ e.ttl > 0

Loading == {"expired", "missed", "read", "resolved"}
Request == [pc : {"idle"} \cup Loading, replica : Replicas \cup {None},
            key : Keys \cup {None}, grants : Version, version : Version,
            age : 0..LoadBound]
IdleRequest == [pc |-> "idle", replica |-> None, key |-> None, grants |-> 0,
                version |-> 0, age |-> 0]

Writer == [pc : {"idle", "committed", "invalidated", "projected"},
           replica : Replicas \cup {None}, target : Tenants \cup Subjects \cup {None},
           version : Version]
IdleWriter == [pc |-> "idle", replica |-> None, target |-> None, version |-> 0]

Message == [tenant : Tenants, version : Version]

Loop == [todo : SUBSET Tenants, seen : [Tenants -> Version]]
AtSelect == [todo |-> {}, seen |-> [t \in Tenants |-> 0]]

\* Every entry of the replica whose key has the prefix is deleted, under the
\* write lock.
DropTenant(c, t) == [k \in Keys |-> IF KeyTenant(k) = t THEN None ELSE c[k]]
DropSubject(c, s) == [k \in Keys |-> IF SubjectOf[k] = s THEN None ELSE c[k]]

-----------------------------------------------------------------------------
(* CheckWithAttributes.                                                    *)

\* Seeded fault: a hit renews the entry.
LookupSliding(q, r, k) ==
    /\ req[q].pc = "idle"
    /\ IF Live(cache[r][k])
       THEN /\ cache' = [cache EXCEPT ![r][k].ttl = TTL]
            /\ UNCHANGED req
       ELSE /\ req' = [req EXCEPT ![q] = [IdleRequest EXCEPT
                            !.pc = IF cache[r][k] = None THEN "missed" ELSE "expired",
                            !.replica = r, !.key = k]]
            /\ UNCHANGED cache
    /\ UNCHANGED <<version, superseded, wr, inbox, loop>>

\* cachedDecision up to the release of the read lock.  A hit answers and
\* changes nothing.
Lookup(q, r, k) ==
    /\ req[q].pc = "idle"
    /\ ~Live(cache[r][k])
    /\ req' = [req EXCEPT ![q] = [IdleRequest EXCEPT
                    !.pc = IF cache[r][k] = None THEN "missed" ELSE "expired",
                    !.replica = r, !.key = k]]
    /\ UNCHANGED <<version, superseded, cache, wr, inbox, loop>>

\* The expired entry is deleted under the write lock; by then the key may
\* hold another one.
Evict(q) ==
    /\ req[q].pc = "expired"
    /\ cache' = [cache EXCEPT ![req[q].replica][req[q].key] = None]
    /\ req' = [req EXCEPT ![q].pc = "missed"]
    /\ UNCHANGED <<version, superseded, wr, inbox, loop>>

\* The two queries of Resolve; they share no transaction.
ReadGrants(q) ==
    /\ req[q].pc = "missed"
    /\ req' = [req EXCEPT ![q].pc = "read",
                          ![q].grants = version[KeyTenant(req[q].key)]]
    /\ UNCHANGED <<version, superseded, cache, wr, inbox, loop>>

\* Seeded fault: every error of the second query is taken for "no row".
ReadVersionIgnoringErrors(q) ==
    /\ req[q].pc = "read"
    /\ \E v \in {0, version[KeyTenant(req[q].key)]} :
          req' = [req EXCEPT ![q].pc = "resolved", ![q].version = v]
    /\ UNCHANGED <<version, superseded, cache, wr, inbox, loop>>

ReadVersion(q) ==
    /\ req[q].pc = "read"
    /\ req' = [req EXCEPT ![q].pc = "resolved",
                          ![q].version = version[KeyTenant(req[q].key)]]
    /\ UNCHANGED <<version, superseded, cache, wr, inbox, loop>>

\* A query fails, a condition cannot be evaluated or the deadline passes:
\* nothing is cached.
Fail(q) ==
    /\ req[q].pc \in {"missed", "read", "resolved"}
    /\ req' = [req EXCEPT ![q] = IdleRequest]
    /\ UNCHANGED <<version, superseded, cache, wr, inbox, loop>>

\* Whatever the key holds by now is replaced; denials are cached too.
StoreDecision(q) ==
    /\ req[q].pc = "resolved"
    /\ cache' = [cache EXCEPT ![req[q].replica][req[q].key] =
                    [grants |-> req[q].grants, version |-> req[q].version, ttl |-> TTL]]
    /\ req' = [req EXCEPT ![q] = IdleRequest]
    /\ UNCHANGED <<version, superseded, wr, inbox, loop>>

-----------------------------------------------------------------------------
(* Changes of the policy.                                                  *)

NewVersion(t) ==
    /\ version[t] < MaxVersion
    /\ version' = [version EXCEPT ![t] = @ + 1]

\* mutate: the commit, then invalidateTenant, then notify.
Commit(w, r, t) ==
    /\ wr[w].pc = "idle"
    /\ NewVersion(t)
    /\ wr' = [wr EXCEPT ![w] = [pc |-> "committed", replica |-> r, target |-> t,
                                version |-> version[t] + 1]]
    /\ UNCHANGED <<superseded, cache, req, inbox, loop>>

InvalidateTenant(w) ==
    /\ wr[w].pc = "committed"
    /\ cache' = [cache EXCEPT ![wr[w].replica] = DropTenant(@, wr[w].target)]
    /\ wr' = [wr EXCEPT ![w].pc = "invalidated"]
    /\ UNCHANGED <<version, superseded, req, inbox, loop>>

\* Redis delivers to the replicas that are subscribed just now, to none when
\* the publish fails; the publisher hears itself.
Notify(w) ==
    /\ wr[w].pc = "invalidated"
    /\ \E heard \in SUBSET Replicas :
          inbox' = [r \in Replicas |-> IF r \in heard
                        THEN inbox[r] \cup {[tenant |-> wr[w].target, version |-> wr[w].version]}
                        ELSE inbox[r]]
    /\ wr' = [wr EXCEPT ![w] = IdleWriter]
    /\ UNCHANGED <<version, superseded, cache, req, loop>>

\* GroupProjection.Apply and TenantBootstrapProjection.Apply: the commit,
\* then InvalidateSubject on this replica; nobody is notified.
ProjectionCommit(w, r, s) ==
    /\ wr[w].pc = "idle"
    /\ NewVersion(TenantOf[s])
    /\ wr' = [wr EXCEPT ![w] = [pc |-> "projected", replica |-> r, target |-> s,
                                version |-> version[TenantOf[s]] + 1]]
    /\ UNCHANGED <<superseded, cache, req, inbox, loop>>

ProjectionInvalidate(w) ==
    /\ wr[w].pc = "projected"
    /\ cache' = [cache EXCEPT ![wr[w].replica] = DropSubject(@, wr[w].target)]
    /\ wr' = [wr EXCEPT ![w] = IdleWriter]
    /\ UNCHANGED <<version, superseded, req, inbox, loop>>

\* bootstrap-admin, or a commit whose acknowledgement is lost.
SilentCommit(t) ==
    /\ NewVersion(t)
    /\ UNCHANGED <<superseded, cache, req, wr, inbox, loop>>

\* The RPC, or a redelivered event that was processed before.
InvalidateSubject(r, s) ==
    /\ cache' = [cache EXCEPT ![r] = DropSubject(@, s)]
    /\ UNCHANGED <<version, superseded, req, wr, inbox, loop>>

-----------------------------------------------------------------------------
(* DecisionCacheRuntime.                                                   *)

\* The version in the message is not looked at.
HandleMessage(r) ==
    /\ loop[r].todo = {}
    /\ \E m \in inbox[r] :
          /\ inbox' = [inbox EXCEPT ![r] = @ \ {m}]
          /\ cache' = [cache EXCEPT ![r] = DropTenant(@, m.tenant)]
    /\ UNCHANGED <<version, superseded, req, wr, loop>>

Cached(r, t) == {k \in Keys : KeyTenant(k) = t /\ cache[r][k] # None}

\* cachedTenantVersions: the HIGHEST label among the entries of a tenant,
\* expired ones included.
TenantVersions(r) ==
    {f \in [Tenants -> Version] : \A t \in Tenants :
        /\ \A k \in Cached(r, t) : cache[r][k].version <= f[t]
        /\ IF Cached(r, t) = {} THEN f[t] = 0
           ELSE \E k \in Cached(r, t) : cache[r][k].version = f[t]}

RepairScan(r) ==
    /\ loop[r].todo = {}
    /\ \E f \in TenantVersions(r) :
          loop' = [loop EXCEPT ![r] = [todo |-> {t \in Tenants : Cached(r, t) # {}},
                                       seen |-> f]]
    /\ UNCHANGED <<version, superseded, cache, req, wr, inbox>>

\* One iteration of repair: the version is read and, when it differs, the
\* tenant's entries are dropped.
RepairTenant(r, t) ==
    /\ t \in loop[r].todo
    /\ loop' = [loop EXCEPT ![r].todo = @ \ {t}, ![r].seen[t] = 0]
    /\ cache' = IF version[t] # loop[r].seen[t]
                THEN [cache EXCEPT ![r] = DropTenant(@, t)] ELSE cache
    /\ UNCHANGED <<version, superseded, req, wr, inbox>>

\* The read fails: this tenant waits for the next poll.
RepairFails(r, t) ==
    /\ t \in loop[r].todo
    /\ loop' = [loop EXCEPT ![r].todo = @ \ {t}, ![r].seen[t] = 0]
    /\ UNCHANGED <<version, superseded, cache, req, wr, inbox>>

\* The process of a replica dies and is started again: its memory is empty
\* and what Redis had for it is lost.
Restart(r) ==
    /\ cache' = [cache EXCEPT ![r] = [k \in Keys |-> None]]
    /\ req' = [q \in Requests |->
                IF req[q].replica = r THEN IdleRequest ELSE req[q]]
    /\ wr' = [w \in Writers |->
                IF wr[w].replica = r THEN IdleWriter ELSE wr[w]]
    /\ inbox' = [inbox EXCEPT ![r] = {}]
    /\ loop' = [loop EXCEPT ![r] = AtSelect]
    /\ UNCHANGED <<version, superseded>>

-----------------------------------------------------------------------------

Older(n, bound) == IF n < bound THEN n + 1 ELSE bound

AgeEntry(e) == IF e # None /\ e.ttl > 0 THEN [e EXCEPT !.ttl = @ - 1] ELSE e

Tick ==
    /\ \A q \in Requests : req[q].pc \in Loading => req[q].age < LoadBound
    /\ cache' = [r \in Replicas |-> [k \in Keys |-> AgeEntry(cache[r][k])]]
    /\ req' = [q \in Requests |->
                IF req[q].pc \in Loading THEN [req[q] EXCEPT !.age = @ + 1] ELSE req[q]]
    /\ superseded' = [t \in Tenants |-> [v \in Version |->
                IF v < version[t] THEN Older(superseded[t][v], Horizon)
                ELSE superseded[t][v]]]
    /\ UNCHANGED <<version, wr, inbox, loop>>

Init ==
    /\ version = [t \in Tenants |-> 0]
    /\ superseded = [t \in Tenants |-> [v \in Version |-> 0]]
    /\ cache = [r \in Replicas |-> [k \in Keys |-> None]]
    /\ req = [q \in Requests |-> IdleRequest]
    /\ wr = [w \in Writers |-> IdleWriter]
    /\ inbox = [r \in Replicas |-> {}]
    /\ loop = [r \in Replicas |-> AtSelect]

Check(q) ==
    \/ \E r \in Replicas, k \in Keys : Lookup(q, r, k)
    \/ Evict(q)
    \/ ReadGrants(q)
    \/ ReadVersion(q)
    \/ Fail(q)
    \/ StoreDecision(q)

Change(w) ==
    \/ \E r \in Replicas, t \in Tenants : Commit(w, r, t)
    \/ \E r \in Replicas, s \in Subjects : ProjectionCommit(w, r, s)
    \/ InvalidateTenant(w)
    \/ Notify(w)
    \/ ProjectionInvalidate(w)

Run(r) ==
    \/ HandleMessage(r)
    \/ RepairScan(r)
    \/ \E t \in Tenants : RepairTenant(r, t) \/ RepairFails(r, t)

Next ==
    \/ \E q \in Requests : Check(q)
    \/ \E w \in Writers : Change(w)
    \/ \E t \in Tenants : SilentCommit(t)
    \/ \E r \in Replicas : Run(r) \/ Restart(r)
    \/ \E r \in Replicas, s \in Subjects : InvalidateSubject(r, s)
    \/ Tick

Spec == Init /\ [][Next]_vars

\* The goroutine of a check runs to its end, and the clock goes on.
Fairness ==
    /\ WF_vars(Tick)
    /\ \A q \in Requests :
          WF_vars(Evict(q) \/ ReadGrants(q) \/ ReadVersion(q) \/ StoreDecision(q))

FairSpec == Spec /\ Fairness

-----------------------------------------------------------------------------
(* Properties.                                                             *)

\* Every variable has its type.
TypeOK ==
    /\ version \in [Tenants -> Version]
    /\ superseded \in [Tenants -> [Version -> 0..Horizon]]
    /\ cache \in [Replicas -> [Keys -> Entry \cup {None}]]
    /\ req \in [Requests -> Request]
    /\ wr \in [Writers -> Writer]
    /\ inbox \in [Replicas -> SUBSET Message]
    /\ loop \in [Replicas -> Loop]

\* cachedDecision and storeDecision: whatever notifications are lost, whatever
\* requests race with whatever invalidations, a decision is not served from
\* the cache longer than TTL + LoadBound after the policy it was computed from
\* was replaced.  (With x ticks to live left: TTL - x + LoadBound.)
BoundedStaleness ==
    \A r \in Replicas, k \in Keys :
        LET e == cache[r][k] IN
            Live(e) /\ e.grants < version[KeyTenant(k)]
            => superseded[KeyTenant(k)][e.grants] <= TTL - e.ttl + LoadBound

\* Resolve reads the grants before the version: a decision is never labelled
\* with an older policy than the one it was computed from, and never with one
\* that was not committed.
LabelNotBehindGrants ==
    \A r \in Replicas, k \in Keys :
        cache[r][k] # None
        => cache[r][k].grants <= cache[r][k].version
           /\ cache[r][k].version <= version[KeyTenant(k)]

\* Once the policy stops changing, every replica answers from it for good,
\* without a single notification or poll getting through.
EventuallyCoherent ==
    <>[](\A r \in Replicas, k \in Keys :
            Live(cache[r][k]) => cache[r][k].grants = version[KeyTenant(k)])

\* TestDecisionCacheRuntimePollRepairsMissedInvalidation: when no invalidation
\* is on its way to a replica, a poll that read the policy version of a tenant
\* leaves the replica only decisions of that version.
PollRepairsMissedInvalidation ==
    [][\A r \in Replicas, t \in Tenants :
          RepairTenant(r, t) /\ inbox[r] = {} /\ (\A w \in Writers : wr[w].pc = "idle")
          => \A k \in Cached(r, t) : Live(cache'[r][k]) => cache'[r][k].version = version[t]]_vars

=============================================================================
