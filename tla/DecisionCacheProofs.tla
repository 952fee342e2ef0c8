------------------------- MODULE DecisionCacheProofs -------------------------
(***************************************************************************)
(* Proofs about DecisionCache, for any number of replicas, tenants,        *)
(* subjects, keys, requests, writers and versions, any TTL and any load    *)
(* bound.                                                                  *)
(***************************************************************************)
EXTENDS DecisionCache, TLAPS

\* A request that is loading, and a writer that is not idle, know what they
\* work on.
Named ==
    /\ \A q \in Requests : req[q].pc \in Loading => req[q].replica \in Replicas /\ req[q].key \in Keys
    /\ \A w \in Writers : wr[w].pc # "idle" => wr[w].replica \in Replicas
    /\ \A w \in Writers : wr[w].pc \in {"committed", "invalidated"} => wr[w].target \in Tenants
    /\ \A w \in Writers : wr[w].pc = "projected" => wr[w].target \in Subjects

TypeInv == TypeOK /\ Named

LEMMA TenantTyped == \A k \in Keys : KeyTenant(k) \in Tenants
  BY CacheAssumption DEF KeyTenant

LEMMA DropTyped ==
    ASSUME NEW c \in [Keys -> Entry \cup {None}]
    PROVE  /\ \A t : DropTenant(c, t) \in [Keys -> Entry \cup {None}]
           /\ \A s : DropSubject(c, s) \in [Keys -> Entry \cup {None}]
  BY DEF DropTenant, DropSubject

LEMMA IdleTyped == IdleRequest \in Request /\ IdleWriter \in Writer /\ AtSelect \in Loop
  BY CacheAssumption DEF IdleRequest, Request, IdleWriter, Writer, AtSelect, Loop, Version

LEMMA InitType == Init => TypeInv
<1> SUFFICES ASSUME Init PROVE TypeInv
  OBVIOUS
<1>1. TypeOK
  BY IdleTyped, CacheAssumption DEF Init, TypeOK, Version, Horizon
<1>2. Named
  BY DEF Init, Named, IdleRequest, IdleWriter, Loading
<1> QED
  BY <1>1, <1>2 DEF TypeInv

LEMMA CheckType ==
    ASSUME TypeInv, NEW q \in Requests, Check(q)
    PROVE  TypeInv'
<1> USE DEF TypeInv, TypeOK
<1>0. req[q] \in Request /\ \A t \in Tenants : version[t] \in Version
  OBVIOUS
<1>u. UNCHANGED <<version, superseded, wr, inbox, loop>>
  BY DEF Check, Lookup, Evict, ReadGrants, ReadVersion, Fail, StoreDecision
<1>1. ASSUME NEW x \in Request, req' = [req EXCEPT ![q] = x],
             cache' \in [Replicas -> [Keys -> Entry \cup {None}]],
             x.pc \in Loading => x.replica \in Replicas /\ x.key \in Keys
      PROVE  TypeInv'
  BY <1>1, <1>u DEF Named
<1>2. ASSUME NEW r \in Replicas, NEW k \in Keys, Lookup(q, r, k)
      PROVE  TypeInv'
  <2> DEFINE x == [IdleRequest EXCEPT
                    !.pc = IF cache[r][k] = None THEN "missed" ELSE "expired",
                    !.replica = r, !.key = k]
  <2>1. x \in Request /\ x.replica = r /\ x.key = k
    BY IdleTyped DEF Request, IdleRequest, Loading
  <2>2. req' = [req EXCEPT ![q] = x] /\ cache' = cache
    BY <1>2 DEF Lookup
  <2> HIDE DEF x
  <2> QED
    BY <1>1, <2>1, <2>2
<1>3. CASE Evict(q)
  <2> DEFINE x == [req[q] EXCEPT !.pc = "missed"]
  <2>1. req[q].replica \in Replicas /\ req[q].key \in Keys
    BY <1>3 DEF Evict, Named, Loading
  <2>2. x \in Request /\ x.replica = req[q].replica /\ x.key = req[q].key
    BY <1>0 DEF Request, Loading
  <2>3. req' = [req EXCEPT ![q] = x]
    BY <1>3 DEF Evict
  <2>4. cache' \in [Replicas -> [Keys -> Entry \cup {None}]]
    BY <1>3, <2>1 DEF Evict
  <2> HIDE DEF x
  <2> QED
    BY <1>1, <2>1, <2>2, <2>3, <2>4
<1>4. CASE ReadGrants(q)
  <2> DEFINE x == [req[q] EXCEPT !.pc = "read", !.grants = version[KeyTenant(req[q].key)]]
  <2>1. req[q].replica \in Replicas /\ req[q].key \in Keys
    BY <1>4 DEF ReadGrants, Named, Loading
  <2>2. x \in Request /\ x.replica = req[q].replica /\ x.key = req[q].key
    BY <1>0, <2>1, TenantTyped DEF Request, Loading
  <2>3. req' = [req EXCEPT ![q] = x] /\ cache' = cache
    BY <1>4 DEF ReadGrants
  <2> HIDE DEF x
  <2> QED
    BY <1>1, <2>1, <2>2, <2>3
<1>5. CASE ReadVersion(q)
  <2> DEFINE x == [req[q] EXCEPT !.pc = "resolved", !.version = version[KeyTenant(req[q].key)]]
  <2>1. req[q].replica \in Replicas /\ req[q].key \in Keys
    BY <1>5 DEF ReadVersion, Named, Loading
  <2>2. x \in Request /\ x.replica = req[q].replica /\ x.key = req[q].key
    BY <1>0, <2>1, TenantTyped DEF Request, Loading
  <2>3. req' = [req EXCEPT ![q] = x] /\ cache' = cache
    BY <1>5 DEF ReadVersion
  <2> HIDE DEF x
  <2> QED
    BY <1>1, <2>1, <2>2, <2>3
<1>6. CASE Fail(q)
  BY <1>1, <1>6, IdleTyped DEF Fail, IdleRequest, Loading
<1>7. CASE StoreDecision(q)
  <2>1. req[q].replica \in Replicas /\ req[q].key \in Keys
    BY <1>7 DEF StoreDecision, Named, Loading
  <2>2. [grants |-> req[q].grants, version |-> req[q].version, ttl |-> TTL] \in Entry
    BY <1>0, CacheAssumption DEF Request, Entry
  <2>3. cache' \in [Replicas -> [Keys -> Entry \cup {None}]]
    BY <1>7, <2>1, <2>2 DEF StoreDecision
  <2>4. req' = [req EXCEPT ![q] = IdleRequest]
    BY <1>7 DEF StoreDecision
  <2> QED
    BY <1>1, <2>3, <2>4, IdleTyped DEF IdleRequest, Loading
<1> QED
  BY <1>2, <1>3, <1>4, <1>5, <1>6, <1>7 DEF Check

LEMMA NewVersionType ==
    ASSUME TypeInv, NEW t \in Tenants, NewVersion(t)
    PROVE  version[t] + 1 \in Version /\ version' \in [Tenants -> Version]
  BY CacheAssumption DEF TypeInv, TypeOK, NewVersion, Version

LEMMA ChangeType ==
    ASSUME TypeInv, NEW w \in Writers, Change(w)
    PROVE  TypeInv'
<1> USE DEF TypeInv, TypeOK
<1>0. wr[w] \in Writer
  OBVIOUS
<1>u. UNCHANGED <<superseded, req, loop>>
  BY DEF Change, Commit, InvalidateTenant, Notify, ProjectionCommit, ProjectionInvalidate
<1>1. ASSUME NEW x \in Writer, wr' = [wr EXCEPT ![w] = x],
             version' \in [Tenants -> Version],
             cache' \in [Replicas -> [Keys -> Entry \cup {None}]],
             inbox' \in [Replicas -> SUBSET Message],
             x.pc # "idle" => x.replica \in Replicas,
             x.pc \in {"committed", "invalidated"} => x.target \in Tenants,
             x.pc = "projected" => x.target \in Subjects
      PROVE  TypeInv'
  BY <1>1, <1>u DEF Named
<1>2. ASSUME NEW r \in Replicas, NEW t \in Tenants, Commit(w, r, t)
      PROVE  TypeInv'
  <2> DEFINE x == [pc |-> "committed", replica |-> r, target |-> t, version |-> version[t] + 1]
  <2>1. version[t] + 1 \in Version /\ version' \in [Tenants -> Version]
    BY <1>2, NewVersionType DEF Commit
  <2>2. x \in Writer
    BY <2>1 DEF Writer
  <2> QED
    BY <1>1, <1>2, <2>1, <2>2 DEF Commit
<1>3. ASSUME NEW r \in Replicas, NEW s \in Subjects, ProjectionCommit(w, r, s)
      PROVE  TypeInv'
  <2> DEFINE x == [pc |-> "projected", replica |-> r, target |-> s,
                   version |-> version[TenantOf[s]] + 1]
  <2>1. version[TenantOf[s]] + 1 \in Version /\ version' \in [Tenants -> Version]
    BY <1>3, NewVersionType, CacheAssumption DEF ProjectionCommit
  <2>2. x \in Writer
    BY <2>1 DEF Writer
  <2> QED
    BY <1>1, <1>3, <2>1, <2>2 DEF ProjectionCommit
<1>4. CASE InvalidateTenant(w)
  <2> DEFINE x == [wr[w] EXCEPT !.pc = "invalidated"]
  <2>1. wr[w].replica \in Replicas /\ wr[w].target \in Tenants
    BY <1>4 DEF InvalidateTenant, Named
  <2>2. x \in Writer /\ x.pc = "invalidated" /\ x.replica = wr[w].replica /\ x.target = wr[w].target
    BY <1>0 DEF Writer
  <2>3. cache' \in [Replicas -> [Keys -> Entry \cup {None}]]
    BY <1>4, <2>1, DropTyped DEF InvalidateTenant
  <2>4. wr' = [wr EXCEPT ![w] = x] /\ UNCHANGED <<version, inbox>>
    BY <1>4 DEF InvalidateTenant
  <2> HIDE DEF x
  <2> QED
    BY <1>1, <2>1, <2>2, <2>3, <2>4
<1>5. CASE Notify(w)
  <2>1. wr[w].target \in Tenants /\ wr[w].version \in Version
    BY <1>0, <1>5 DEF Notify, Named, Writer
  <2>2. inbox' \in [Replicas -> SUBSET Message]
    BY <1>5, <2>1 DEF Notify, Message
  <2>3. wr' = [wr EXCEPT ![w] = IdleWriter] /\ UNCHANGED <<version, cache>>
    BY <1>5 DEF Notify
  <2> QED
    BY <1>1, <2>2, <2>3, IdleTyped DEF IdleWriter
<1>6. CASE ProjectionInvalidate(w)
  <2>1. wr[w].replica \in Replicas
    BY <1>6 DEF ProjectionInvalidate, Named
  <2>2. cache' \in [Replicas -> [Keys -> Entry \cup {None}]]
    BY <1>6, <2>1, DropTyped DEF ProjectionInvalidate
  <2>3. wr' = [wr EXCEPT ![w] = IdleWriter] /\ UNCHANGED <<version, inbox>>
    BY <1>6 DEF ProjectionInvalidate
  <2> QED
    BY <1>1, <2>2, <2>3, IdleTyped DEF IdleWriter
<1> QED
  BY <1>2, <1>3, <1>4, <1>5, <1>6 DEF Change

LEMMA RunType ==
    ASSUME TypeInv, NEW r \in Replicas, Run(r)
    PROVE  TypeInv'
<1> USE DEF TypeInv, TypeOK
<1>0. loop[r] \in Loop /\ cache[r] \in [Keys -> Entry \cup {None}]
  OBVIOUS
<1>u. UNCHANGED <<version, superseded, req, wr>>
  BY DEF Run, HandleMessage, RepairScan, RepairTenant, RepairFails
<1>1. ASSUME cache' \in [Replicas -> [Keys -> Entry \cup {None}]],
             inbox' \in [Replicas -> SUBSET Message],
             loop' \in [Replicas -> Loop]
      PROVE  TypeInv'
  BY <1>1, <1>u DEF Named
<1>2. CASE HandleMessage(r)
  <2>1. cache' \in [Replicas -> [Keys -> Entry \cup {None}]]
    BY <1>0, <1>2, DropTyped DEF HandleMessage
  <2>2. inbox' \in [Replicas -> SUBSET Message] /\ loop' = loop
    BY <1>2 DEF HandleMessage
  <2> QED
    BY <1>1, <2>1, <2>2
<1>3. CASE RepairScan(r)
  <2>1. PICK f \in [Tenants -> Version] :
            loop' = [loop EXCEPT ![r] = [todo |-> {t \in Tenants : Cached(r, t) # {}}, seen |-> f]]
    BY <1>3 DEF RepairScan, TenantVersions
  <2>2. [todo |-> {t \in Tenants : Cached(r, t) # {}}, seen |-> f] \in Loop
    BY DEF Loop
  <2> QED
    BY <1>1, <1>3, <2>1, <2>2 DEF RepairScan
<1>4. ASSUME NEW t \in Tenants, RepairTenant(r, t) \/ RepairFails(r, t)
      PROVE  TypeInv'
  <2>1. loop' = [loop EXCEPT ![r].todo = @ \ {t}, ![r].seen[t] = 0] /\ inbox' = inbox
    BY <1>4 DEF RepairTenant, RepairFails
  <2>a. [loop[r].seen EXCEPT ![t] = 0] \in [Tenants -> Version]
    BY <1>0, CacheAssumption DEF Loop, Version
  <2>b. loop[r].todo \ {t} \in SUBSET Tenants
    BY <1>0 DEF Loop
  <2>2. [loop[r] EXCEPT !.todo = @ \ {t}, !.seen[t] = 0] \in Loop
    BY <1>0, <2>a, <2>b DEF Loop
  <2>3. loop' \in [Replicas -> Loop]
    BY <2>1, <2>2
  <2>c. cache' = cache \/ cache' = [cache EXCEPT ![r] = DropTenant(@, t)]
    BY <1>4 DEF RepairTenant, RepairFails
  <2>4. cache' \in [Replicas -> [Keys -> Entry \cup {None}]]
    BY <1>0, <2>c, DropTyped
  <2> QED
    BY <1>1, <2>1, <2>3, <2>4
<1> QED
  BY <1>2, <1>3, <1>4 DEF Run

LEMMA AgeTyped ==
    ASSUME NEW e \in Entry \cup {None}
    PROVE  /\ AgeEntry(e) \in Entry \cup {None}
           /\ AgeEntry(e) = None <=> e = None
           /\ e # None => /\ AgeEntry(e).grants = e.grants
                          /\ AgeEntry(e).version = e.version
                          /\ Live(AgeEntry(e)) => Live(e) /\ AgeEntry(e).ttl = e.ttl - 1
<1>1. CASE e # None /\ e.ttl > 0
  <2>1. e \in Entry
    BY <1>1
  <2>2. [e EXCEPT !.ttl = @ - 1] \in Entry
    BY <1>1, <2>1, CacheAssumption DEF Entry
  <2>3. /\ AgeEntry(e) = [e EXCEPT !.ttl = @ - 1]
        /\ [e EXCEPT !.ttl = @ - 1] # None
    BY <1>1, <2>2, CacheAssumption DEF AgeEntry
  <2>4. AgeEntry(e).grants = e.grants /\ AgeEntry(e).version = e.version
        /\ AgeEntry(e).ttl = e.ttl - 1
    BY <2>1, <2>3 DEF Entry
  <2> QED
    BY <1>1, <2>1, <2>2, <2>3, <2>4 DEF Live
<1>2. CASE ~(e # None /\ e.ttl > 0)
  BY <1>2 DEF AgeEntry, Live
<1> QED
  BY <1>1, <1>2

LEMMA TickType ==
    ASSUME TypeInv, Tick
    PROVE  TypeInv'
<1> USE DEF TypeInv, TypeOK
<1>1. cache' \in [Replicas -> [Keys -> Entry \cup {None}]]
  BY AgeTyped DEF Tick
<1>2. ASSUME NEW q \in Requests
      PROVE  /\ req'[q] \in Request
             /\ req'[q].pc = req[q].pc
             /\ req'[q].replica = req[q].replica
             /\ req'[q].key = req[q].key
  <2>1. req[q] \in Request
    OBVIOUS
  <2>2. CASE req[q].pc \in Loading
    <3>0. req[q].age \in 0..LoadBound /\ req[q].age < LoadBound
      BY <2>1, <2>2 DEF Tick, Request
    <3>1. req[q].age + 1 \in 0..LoadBound
      BY <3>0, CacheAssumption
    <3> QED
      BY <2>1, <2>2, <3>1 DEF Tick, Request
  <2>3. CASE req[q].pc \notin Loading
    BY <2>1, <2>3 DEF Tick
  <2> QED
    BY <2>2, <2>3
<1>3. req' \in [Requests -> Request]
  BY <1>2 DEF Tick
<1>4. superseded' \in [Tenants -> [Version -> 0..Horizon]]
  <2>1. Horizon \in Nat
    BY CacheAssumption DEF Horizon
  <2>2. \A n \in 0..Horizon : Older(n, Horizon) \in 0..Horizon
    BY <2>1 DEF Older
  <2> QED
    BY <2>2 DEF Tick
<1>5. UNCHANGED <<version, wr, inbox, loop>>
  BY DEF Tick
<1> QED
  BY <1>1, <1>2, <1>3, <1>4, <1>5 DEF Named

LEMMA StepType ==
    ASSUME TypeInv, [Next]_vars
    PROVE  TypeInv'
<1>1. CASE UNCHANGED vars
  BY <1>1 DEF vars, TypeInv, TypeOK, Named
<1>2. ASSUME NEW t \in Tenants, SilentCommit(t)
      PROVE  TypeInv'
  <2>1. version' \in [Tenants -> Version]
    BY <1>2, NewVersionType DEF SilentCommit
  <2> QED
    BY <1>2, <2>1 DEF SilentCommit, TypeInv, TypeOK, Named
<1>3. ASSUME NEW r \in Replicas, Restart(r)
      PROVE  TypeInv'
  <2>1. TypeOK'
    BY <1>3, IdleTyped DEF Restart, TypeInv, TypeOK
  <2>2. Named'
    BY <1>3 DEF Restart, TypeInv, TypeOK, Named, IdleRequest, IdleWriter, Loading
  <2> QED
    BY <2>1, <2>2 DEF TypeInv
<1>4. ASSUME NEW r \in Replicas, NEW s \in Subjects, InvalidateSubject(r, s)
      PROVE  TypeInv'
  <2>1. cache' \in [Replicas -> [Keys -> Entry \cup {None}]]
    BY <1>4, DropTyped DEF InvalidateSubject, TypeInv, TypeOK
  <2> QED
    BY <1>4, <2>1 DEF InvalidateSubject, TypeInv, TypeOK, Named
<1> QED
  BY <1>1, <1>2, <1>3, <1>4, CheckType, ChangeType, RunType, TickType DEF Next

\* Every state of the caches is well typed, for all values of the constants.
THEOREM CacheTypeCorrect == Spec => []TypeOK
<1>1. Init => TypeInv
  BY InitType
<1>2. TypeInv /\ [Next]_vars => TypeInv'
  BY StepType
<1>3. TypeInv => TypeOK
  BY DEF TypeInv
<1> QED
  BY <1>1, <1>2, <1>3, PTL DEF Spec

-----------------------------------------------------------------------------
(* The inductive invariant behind the staleness bound: the same bound for  *)
(* the requests that are still loading, measured by their own age.         *)

\* A version that is current has not been superseded yet.
CurrentNotSuperseded ==
    \A t \in Tenants, v \in Version : v >= version[t] => superseded[t][v] = 0

\* What a request has read, and for how long it may have been outdated.
LoadingBound ==
    \A q \in Requests : req[q].pc \in {"read", "resolved"} =>
        LET t == KeyTenant(req[q].key) IN
            /\ req[q].grants <= version[t]
            /\ req[q].grants < version[t] => superseded[t][req[q].grants] <= req[q].age
            /\ req[q].pc = "resolved" => /\ req[q].grants <= req[q].version
                                         /\ req[q].version <= version[t]

StaleInv == TypeInv /\ CurrentNotSuperseded /\ LoadingBound
            /\ LabelNotBehindGrants /\ BoundedStaleness

LEMMA InitStale == Init => StaleInv
<1> SUFFICES ASSUME Init PROVE StaleInv
  OBVIOUS
<1>1. TypeInv
  BY InitType
<1>2. CurrentNotSuperseded /\ LoadingBound /\ LabelNotBehindGrants /\ BoundedStaleness
  BY DEF Init, CurrentNotSuperseded, LoadingBound, LabelNotBehindGrants, BoundedStaleness,
         IdleRequest, Live
<1> QED
  BY <1>1, <1>2 DEF StaleInv

LEMMA EntryFacts ==
    ASSUME TypeInv, NEW r \in Replicas, NEW k \in Keys, cache[r][k] # None
    PROVE  /\ cache[r][k] \in Entry
           /\ cache[r][k].grants \in Version
           /\ cache[r][k].version \in Version
           /\ cache[r][k].ttl \in 0..TTL
  BY DEF TypeInv, TypeOK, Entry

\* A step that makes a new version and touches neither cache nor requests.
LEMMA StaleNewVersion ==
    ASSUME StaleInv, TypeInv', NEW t \in Tenants, NewVersion(t),
           UNCHANGED <<superseded, cache, req>>
    PROVE  StaleInv'
<1> USE CacheAssumption DEF StaleInv
<1>1. /\ \A u \in Tenants : version[u] \in Version /\ version[u] \in Int /\ version'[u] \in Int
      /\ version' = [version EXCEPT ![t] = @ + 1]
      /\ \A u \in Tenants : version'[u] = IF u = t THEN version[u] + 1 ELSE version[u]
  BY DEF TypeInv, TypeOK, NewVersion, Version
<1>2. CurrentNotSuperseded'
  BY <1>1 DEF CurrentNotSuperseded, Version
<1>3. LoadingBound'
  <2> SUFFICES ASSUME NEW q \in Requests, req[q].pc \in {"read", "resolved"}
               PROVE  LET u == KeyTenant(req[q].key) IN
                        /\ req[q].grants <= version'[u]
                        /\ req[q].grants < version'[u] => superseded[u][req[q].grants] <= req[q].age
                        /\ req[q].pc = "resolved" => /\ req[q].grants <= req[q].version
                                                     /\ req[q].version <= version'[u]
    BY DEF LoadingBound, KeyTenant
  <2> DEFINE u == KeyTenant(req[q].key)
  <2>1. u \in Tenants
    BY TenantTyped DEF TypeInv, Named, Loading
  <2>2. req[q].grants \in Version /\ req[q].version \in Version /\ req[q].age \in 0..LoadBound
    BY DEF TypeInv, TypeOK, Request
  <2>3. /\ req[q].grants <= version[u]
        /\ req[q].grants < version[u] => superseded[u][req[q].grants] <= req[q].age
        /\ req[q].pc = "resolved" => /\ req[q].grants <= req[q].version
                                     /\ req[q].version <= version[u]
    BY DEF LoadingBound
  <2>4. req[q].grants = version[u] => superseded[u][req[q].grants] = 0
    BY <1>1, <2>1, <2>2 DEF CurrentNotSuperseded, Version
  <2> HIDE DEF u
  <2> QED
    BY <1>1, <2>1, <2>2, <2>3, <2>4 DEF Version, u
<1>4. LabelNotBehindGrants'
  BY <1>1, TenantTyped, EntryFacts DEF LabelNotBehindGrants, Version, KeyTenant
<1>5. BoundedStaleness'
  <2> SUFFICES ASSUME NEW r \in Replicas, NEW k \in Keys, Live(cache[r][k]),
                      cache[r][k].grants < version'[KeyTenant(k)]
               PROVE  superseded[KeyTenant(k)][cache[r][k].grants] <= TTL - cache[r][k].ttl + LoadBound
    BY DEF BoundedStaleness, KeyTenant, Live
  <2>1. KeyTenant(k) \in Tenants /\ cache[r][k] # None
    BY TenantTyped DEF Live
  <2>2. /\ cache[r][k].grants \in Version /\ cache[r][k].ttl \in 0..TTL
        /\ cache[r][k].version \in Version
    BY <2>1, EntryFacts
  <2>3. cache[r][k].grants <= version[KeyTenant(k)]
    BY <1>1, <2>1, <2>2 DEF LabelNotBehindGrants, Version
  <2>4. CASE cache[r][k].grants < version[KeyTenant(k)]
    BY <2>4 DEF BoundedStaleness
  <2>5. CASE cache[r][k].grants = version[KeyTenant(k)]
    <3>1. superseded[KeyTenant(k)][cache[r][k].grants] = 0
      BY <1>1, <2>1, <2>2, <2>5 DEF CurrentNotSuperseded, Version
    <3> QED
      BY <2>2, <3>1
  <2> QED
    BY <1>1, <2>1, <2>2, <2>3, <2>4, <2>5 DEF Version
<1> QED
  BY <1>2, <1>3, <1>4, <1>5

\* A step that only drops entries, and moves requests only to where they
\* have read nothing.
LEMMA StaleDrop ==
    ASSUME StaleInv, TypeInv', UNCHANGED <<version, superseded>>,
           \A q \in Requests : req'[q].pc \in {"read", "resolved"} => req'[q] = req[q],
           \A r \in Replicas, k \in Keys : cache'[r][k] = None \/ cache'[r][k] = cache[r][k]
    PROVE  StaleInv'
<1> USE DEF StaleInv
<1>1. CurrentNotSuperseded'
  BY DEF CurrentNotSuperseded
<1>2. LoadingBound'
  BY DEF LoadingBound, KeyTenant
<1>3. LabelNotBehindGrants'
  BY DEF LabelNotBehindGrants, KeyTenant
<1>4. BoundedStaleness'
  BY DEF BoundedStaleness, KeyTenant, Live
<1> QED
  BY <1>1, <1>2, <1>3, <1>4

LEMMA StaleCheck ==
    ASSUME StaleInv, TypeInv', NEW q \in Requests, Check(q)
    PROVE  StaleInv'
<1> USE DEF StaleInv
<1>0. req[q] \in Request /\ req \in [Requests -> Request]
      /\ \A t \in Tenants : version[t] \in Version
  BY DEF TypeInv, TypeOK
<1>1. CASE \E r \in Replicas, k \in Keys : Lookup(q, r, k)
  BY <1>0, <1>1, StaleDrop DEF Lookup, IdleRequest
<1>2. CASE Evict(q)
  <2>1. \A r \in Replicas, k \in Keys : cache'[r][k] = None \/ cache'[r][k] = cache[r][k]
    BY <1>2 DEF Evict, TypeInv, TypeOK
  <2>2. \A p \in Requests : req'[p].pc \in {"read", "resolved"} => req'[p] = req[p]
    BY <1>0, <1>2 DEF Evict, Request
  <2> QED
    BY <1>2, <2>1, <2>2, StaleDrop DEF Evict
<1>3. CASE Fail(q)
  BY <1>0, <1>3, StaleDrop DEF Fail, IdleRequest
<1>4. CASE ReadGrants(q)
  <2>1. req[q].key \in Keys /\ KeyTenant(req[q].key) \in Tenants
    BY <1>4, TenantTyped DEF ReadGrants, TypeInv, Named, Loading
  <2>2. /\ req'[q].pc = "read" /\ req'[q].key = req[q].key
        /\ req'[q].grants = version[KeyTenant(req[q].key)]
        /\ \A p \in Requests \ {q} : req'[p] = req[p]
    BY <1>0, <1>4 DEF ReadGrants, Request
  <2>3. UNCHANGED <<version, superseded, cache>>
    BY <1>4 DEF ReadGrants
  <2>4. version[KeyTenant(req[q].key)] \in Int
    BY <1>0, <2>1 DEF Version
  <2>5. LoadingBound'
    BY <2>2, <2>3, <2>4 DEF LoadingBound, KeyTenant
  <2> QED
    BY <2>3, <2>5 DEF CurrentNotSuperseded, LabelNotBehindGrants, BoundedStaleness, KeyTenant, Live
<1>5. CASE ReadVersion(q)
  <2>1. req[q].key \in Keys /\ KeyTenant(req[q].key) \in Tenants
    BY <1>5, TenantTyped DEF ReadVersion, TypeInv, Named, Loading
  <2>2. /\ req'[q].pc = "resolved" /\ req'[q].key = req[q].key
        /\ req'[q].grants = req[q].grants /\ req'[q].age = req[q].age
        /\ req'[q].version = version[KeyTenant(req[q].key)]
        /\ \A p \in Requests \ {q} : req'[p] = req[p]
    BY <1>0, <1>5 DEF ReadVersion, Request
  <2>3. UNCHANGED <<version, superseded, cache>> /\ req[q].pc = "read"
    BY <1>5 DEF ReadVersion
  <2>4. version[KeyTenant(req[q].key)] \in Int
    BY <1>0, <2>1 DEF Version
  <2>5. LoadingBound'
    BY <2>2, <2>3, <2>4 DEF LoadingBound, KeyTenant
  <2> QED
    BY <2>3, <2>5 DEF CurrentNotSuperseded, LabelNotBehindGrants, BoundedStaleness, KeyTenant, Live
<1>6. CASE StoreDecision(q)
  <2> DEFINE rr == req[q].replica
             kk == req[q].key
             e == [grants |-> req[q].grants, version |-> req[q].version, ttl |-> TTL]
  <2>1. rr \in Replicas /\ kk \in Keys /\ KeyTenant(kk) \in Tenants
    BY <1>6, TenantTyped DEF StoreDecision, TypeInv, Named, Loading
  <2>2. /\ req[q].age \in 0..LoadBound
        /\ req[q].grants \in Version /\ req[q].version \in Version
    BY <1>0 DEF Request
  <2>3. /\ req[q].grants <= req[q].version
        /\ req[q].version <= version[KeyTenant(kk)]
        /\ req[q].grants < version[KeyTenant(kk)]
              => superseded[KeyTenant(kk)][req[q].grants] <= req[q].age
    BY <1>6 DEF StoreDecision, LoadingBound
  <2>4. UNCHANGED <<version, superseded>>
    BY <1>6 DEF StoreDecision
  <2>5. \A r \in Replicas, k \in Keys :
            cache'[r][k] = IF r = rr /\ k = kk THEN e ELSE cache[r][k]
    BY <1>6, <2>1 DEF StoreDecision, TypeInv, TypeOK
  <2>6. \A p \in Requests : req'[p] = IF p = q THEN IdleRequest ELSE req[p]
    BY <1>6, <1>0 DEF StoreDecision
  <2>7. CurrentNotSuperseded' /\ LoadingBound'
    BY <2>4, <2>6 DEF CurrentNotSuperseded, LoadingBound, KeyTenant, IdleRequest
  <2>8. LabelNotBehindGrants'
    BY <2>3, <2>4, <2>5 DEF LabelNotBehindGrants, KeyTenant
  <2>9. e.ttl = TTL /\ e.grants = req[q].grants
    OBVIOUS
  <2>10. superseded \in [Tenants -> [Version -> 0..Horizon]]
    BY DEF TypeInv, TypeOK
  <2>11. e.grants < version[KeyTenant(kk)] =>
            superseded[KeyTenant(kk)][e.grants] <= TTL - e.ttl + LoadBound
    BY <2>1, <2>2, <2>3, <2>9, <2>10, CacheAssumption DEF Horizon
  <2> HIDE DEF e
  <2>12. BoundedStaleness'
    BY <2>4, <2>5, <2>11 DEF BoundedStaleness, KeyTenant, Live
  <2> QED
    BY <2>7, <2>8, <2>12
<1> QED
  BY <1>1, <1>2, <1>3, <1>4, <1>5, <1>6 DEF Check

\* A tick ages a superseded version by at most one, a loading request by one
\* and an entry by one.
LEMMA StaleTick ==
    ASSUME StaleInv, TypeInv', Tick
    PROVE  StaleInv'
<1> USE DEF StaleInv
<1>0. /\ \A t \in Tenants : version[t] \in Version /\ version[t] \in Int
      /\ \A t \in Tenants, v \in Version : superseded[t][v] \in 0..Horizon
      /\ Horizon \in Nat
      /\ version' = version
  BY CacheAssumption DEF TypeInv, TypeOK, Version, Horizon, Tick
<1>1. \A t \in Tenants, v \in Version :
          superseded'[t][v] = IF v < version[t] THEN Older(superseded[t][v], Horizon)
                              ELSE superseded[t][v]
  BY DEF Tick
<1>2. \A t \in Tenants, v \in Version : superseded'[t][v] <= superseded[t][v] + 1
                                        /\ superseded'[t][v] \in Int
  BY <1>0, <1>1 DEF Older
<1>3. CurrentNotSuperseded'
  BY <1>0, <1>1 DEF CurrentNotSuperseded, Version
<1>4. LoadingBound'
  <2> SUFFICES ASSUME NEW q \in Requests, req'[q].pc \in {"read", "resolved"}
               PROVE  LET u == KeyTenant(req'[q].key) IN
                        /\ req'[q].grants <= version[u]
                        /\ req'[q].grants < version[u] => superseded'[u][req'[q].grants] <= req'[q].age
                        /\ req'[q].pc = "resolved" => /\ req'[q].grants <= req'[q].version
                                                      /\ req'[q].version <= version[u]
    BY <1>0 DEF LoadingBound, KeyTenant
  <2>0. req[q] \in Request
    BY DEF TypeInv, TypeOK
  <2>1. /\ req[q].pc \in {"read", "resolved"} /\ req'[q].pc = req[q].pc
        /\ req'[q].key = req[q].key /\ req'[q].grants = req[q].grants
        /\ req'[q].version = req[q].version /\ req'[q].age = req[q].age + 1
    <3>1. req[q].pc \in Loading
      BY <2>0 DEF Tick, Loading
    <3>2. req'[q] = [req[q] EXCEPT !.age = @ + 1]
      BY <3>1 DEF Tick
    <3> QED
      BY <2>0, <3>2 DEF Request
  <2> DEFINE u == KeyTenant(req[q].key)
  <2>2. u \in Tenants
    BY <2>1, TenantTyped DEF TypeInv, Named, Loading
  <2>3. /\ req[q].grants <= version[u]
        /\ req[q].grants < version[u] => superseded[u][req[q].grants] <= req[q].age
        /\ req[q].pc = "resolved" => /\ req[q].grants <= req[q].version
                                     /\ req[q].version <= version[u]
    BY <2>1 DEF LoadingBound
  <2>4. req[q].grants \in Version /\ req[q].age \in Int
    BY <2>0 DEF Request
  <2>5. req[q].grants < version[u] => superseded'[u][req[q].grants] <= req[q].age + 1
    BY <1>0, <1>2, <2>2, <2>3, <2>4
  <2> QED
    BY <2>1, <2>3, <2>5
<1>5. \A r \in Replicas, k \in Keys :
          /\ cache'[r][k] = AgeEntry(cache[r][k])
          /\ cache[r][k] \in Entry \cup {None}
  BY DEF Tick, TypeInv, TypeOK
<1>6. LabelNotBehindGrants'
  BY <1>0, <1>5, AgeTyped DEF LabelNotBehindGrants, KeyTenant
<1>7. BoundedStaleness'
  <2> SUFFICES ASSUME NEW r \in Replicas, NEW k \in Keys, Live(cache'[r][k]),
                      cache'[r][k].grants < version[KeyTenant(k)]
               PROVE  superseded'[KeyTenant(k)][cache'[r][k].grants]
                          <= TTL - cache'[r][k].ttl + LoadBound
    BY <1>0 DEF BoundedStaleness, KeyTenant, Live
  <2>1. cache[r][k] # None
    BY <1>5, AgeTyped DEF Live
  <2>2. /\ Live(cache[r][k])
        /\ cache'[r][k].grants = cache[r][k].grants
        /\ cache'[r][k].ttl = cache[r][k].ttl - 1
    BY <1>5, <2>1, AgeTyped
  <2>3. KeyTenant(k) \in Tenants /\ cache[r][k].grants \in Version /\ cache[r][k].ttl \in 0..TTL
    BY <2>1, TenantTyped, EntryFacts
  <2>4. superseded[KeyTenant(k)][cache[r][k].grants] <= TTL - cache[r][k].ttl + LoadBound
    BY <2>2 DEF BoundedStaleness
  <2> QED
    BY <1>0, <1>2, <2>2, <2>3, <2>4, CacheAssumption
<1> QED
  BY <1>3, <1>4, <1>6, <1>7

LEMMA StaleStep ==
    ASSUME StaleInv, [Next]_vars
    PROVE  StaleInv'
<1>t. TypeInv /\ TypeInv'
  BY StepType DEF StaleInv
<1>0. cache \in [Replicas -> [Keys -> Entry \cup {None}]]
  BY <1>t DEF TypeInv, TypeOK
<1>1. CASE UNCHANGED vars
  BY <1>t, <1>1, StaleDrop DEF vars
<1>2. ASSUME NEW t \in Tenants, SilentCommit(t)
      PROVE  StaleInv'
  BY <1>t, <1>2, StaleNewVersion DEF SilentCommit
<1>3. ASSUME NEW w \in Writers, Change(w)
      PROVE  StaleInv'
  <2>1. ASSUME NEW r \in Replicas, NEW t \in Tenants, Commit(w, r, t)
        PROVE  StaleInv'
    BY <1>t, <2>1, StaleNewVersion DEF Commit
  <2>2. ASSUME NEW r \in Replicas, NEW s \in Subjects, ProjectionCommit(w, r, s)
        PROVE  StaleInv'
    BY <1>t, <2>2, StaleNewVersion, CacheAssumption DEF ProjectionCommit
  <2>3. CASE InvalidateTenant(w)
    <3>1. \A r \in Replicas, k \in Keys : cache'[r][k] = None \/ cache'[r][k] = cache[r][k]
      BY <1>0, <2>3 DEF InvalidateTenant, DropTenant
    <3> QED
      BY <1>t, <2>3, <3>1, StaleDrop DEF InvalidateTenant
  <2>4. CASE Notify(w)
    BY <1>t, <2>4, StaleDrop DEF Notify
  <2>5. CASE ProjectionInvalidate(w)
    <3>1. \A r \in Replicas, k \in Keys : cache'[r][k] = None \/ cache'[r][k] = cache[r][k]
      BY <1>0, <2>5 DEF ProjectionInvalidate, DropSubject
    <3> QED
      BY <1>t, <2>5, <3>1, StaleDrop DEF ProjectionInvalidate
  <2> QED
    BY <1>3, <2>1, <2>2, <2>3, <2>4, <2>5 DEF Change
<1>4. ASSUME NEW r \in Replicas, Run(r)
      PROVE  StaleInv'
  <2>1. \A p \in Replicas, k \in Keys : cache'[p][k] = None \/ cache'[p][k] = cache[p][k]
    <3>1. cache' = cache \/ \E t : cache' = [cache EXCEPT ![r] = DropTenant(@, t)]
      BY <1>4 DEF Run, HandleMessage, RepairScan, RepairTenant, RepairFails
    <3> QED
      BY <1>0, <3>1 DEF DropTenant
  <2>2. UNCHANGED <<version, superseded, req>>
    BY <1>4 DEF Run, HandleMessage, RepairScan, RepairTenant, RepairFails
  <2> QED
    BY <1>t, <2>1, <2>2, StaleDrop
<1>5. ASSUME NEW r \in Replicas, Restart(r)
      PROVE  StaleInv'
  <2>1. \A p \in Replicas, k \in Keys : cache'[p][k] = None \/ cache'[p][k] = cache[p][k]
    BY <1>0, <1>5 DEF Restart
  <2>2. \A q \in Requests : req'[q].pc \in {"read", "resolved"} => req'[q] = req[q]
    BY <1>5 DEF Restart, IdleRequest
  <2> QED
    BY <1>t, <1>5, <2>1, <2>2, StaleDrop DEF Restart
<1>6. ASSUME NEW r \in Replicas, NEW s \in Subjects, InvalidateSubject(r, s)
      PROVE  StaleInv'
  <2>1. \A p \in Replicas, k \in Keys : cache'[p][k] = None \/ cache'[p][k] = cache[p][k]
    BY <1>0, <1>6 DEF InvalidateSubject, DropSubject
  <2> QED
    BY <1>t, <1>6, <2>1, StaleDrop DEF InvalidateSubject
<1>7. CASE \E q \in Requests : Check(q)
  BY <1>t, <1>7, StaleCheck
<1>8. CASE Tick
  BY <1>t, <1>8, StaleTick
<1> QED
  BY <1>1, <1>2, <1>3, <1>4, <1>5, <1>6, <1>7, <1>8 DEF Next

\* Whatever is lost, delayed, raced or restarted, no replica serves a decision
\* longer than TTL + LoadBound after its policy was replaced.
THEOREM StalenessBounded == Spec => []BoundedStaleness
<1>1. Init => StaleInv
  BY InitStale
<1>2. StaleInv /\ [Next]_vars => StaleInv'
  BY StaleStep
<1>3. StaleInv => BoundedStaleness
  BY DEF StaleInv
<1> QED
  BY <1>1, <1>2, <1>3, PTL DEF Spec

\* Resolve: the version a cached decision is labelled with was committed, and
\* is not older than the policy the decision was computed from.
THEOREM LabelsSound == Spec => []LabelNotBehindGrants
<1>1. Init => StaleInv
  BY InitStale
<1>2. StaleInv /\ [Next]_vars => StaleInv'
  BY StaleStep
<1>3. StaleInv => LabelNotBehindGrants
  BY DEF StaleInv
<1> QED
  BY <1>1, <1>2, <1>3, PTL DEF Spec

=============================================================================
