----------------------------- MODULE RouteProofs -----------------------------
(***************************************************************************)
(* Proofs about the routes: RoutePolicy, for any number of routes,         *)
(* replicas, writers and calls of Set, and RouteSync, for any number of    *)
(* routes, releases and replicas.                                          *)
(***************************************************************************)
EXTENDS RoutePolicy, RouteSync, TLAPS

Actors == Writers \cup Replicas

\* A writer that is busy or has answered knows its route.
RouteKnown ==
    \A w \in Writers :
        /\ job[w].pc # "idle" => job[w].route \in Routes
        /\ job[w].pc = "idle" => job[w].result = "none"

\* The loop of a replica refreshes that replica.
LoopAtHome == \A r \in Replicas : job[r].replica = r

TypeInv == TypeOK /\ RouteKnown /\ LoopAtHome

LEMMA InitType == Init => TypeInv
<1> SUFFICES ASSUME Init PROVE TypeInv
  OBVIOUS
<1> USE RouteAssumption
<1>1. PICK r \in Replicas :
          job = [p \in Writers \cup Replicas |->
                    IF p \in Writers THEN At(r, "idle") ELSE At(p, "waiting")]
  BY DEF Init
<1>2. \A q \in Replicas : At(q, "idle") \in Job /\ At(q, "waiting") \in Job
  BY DEF At, Job, PC, Blank
<1>3. job \in [Writers \cup Replicas -> Job]
  BY <1>1, <1>2
<1>4. RouteKnown /\ LoopAtHome
  BY <1>1 DEF RouteKnown, LoopAtHome, At
<1> QED
  BY <1>3, <1>4 DEF Init, TypeInv, TypeOK, Policy, Entry

\* A writer's answer keeps the types.
LEMMA AnswerType ==
    ASSUME TypeInv, NEW w \in Writers, job[w].pc # "idle",
           NEW res \in {"ok", "stale", "internal", "unavailable"}, Answer(w, res)
    PROVE  /\ job' \in [Writers \cup Replicas -> Job]
           /\ RouteKnown'
           /\ LoopAtHome'
<1> USE RouteAssumption DEF TypeInv, TypeOK
<1>1. job[w] \in Job
  OBVIOUS
<1>2. [job[w] EXCEPT !.pc = "answered", !.result = res] \in Job
  BY <1>1 DEF Job, PC
<1>3. job' \in [Writers \cup Replicas -> Job]
  BY <1>2 DEF Answer
<1>4. RouteKnown'
  BY DEF Answer, RouteKnown
<1>5. LoopAtHome'
  BY DEF Answer, LoopAtHome
<1> QED
  BY <1>3, <1>4, <1>5

LEMMA StepType ==
    ASSUME TypeInv, [Next]_vars
    PROVE  TypeInv'
<1> USE RouteAssumption DEF TypeInv, TypeOK
<1>0. \A q \in Replicas, pc \in PC : At(q, pc) \in Job
  BY DEF At, Job, Blank
<1>1. CASE UNCHANGED vars
  BY <1>1 DEF vars, RouteKnown, LoopAtHome
<1>2. ASSUME NEW w \in Writers, Change(w)
      PROVE  TypeInv'
  <2>0. job[w] \in Job
    OBVIOUS
  <2>1. ASSUME NEW r \in Replicas, NEW x \in Routes, NEW e \in 0..MaxSets, Set(w, r, x, e)
        PROVE  TypeInv'
    <3>1. [At(r, "planned") EXCEPT !.route = x, !.expected = e] \in Job
      <4>1. At(r, "planned") \in Job /\ e \in Nat
        BY <1>0 DEF PC
      <4> QED
        BY <4>1 DEF Job
    <3>2. job' \in [Writers \cup Replicas -> Job]
      BY <2>1, <3>1 DEF Set
    <3>3. RouteKnown' /\ LoopAtHome'
      BY <2>1 DEF Set, RouteKnown, LoopAtHome, At
    <3> QED
      BY <2>1, <3>2, <3>3 DEF Set
  <2>2. CASE WritePolicy(w)
    <3>1. CASE policy[job[w].route].version = job[w].expected
      <4>0. clock + 1 \in Nat
        OBVIOUS
      <4>1. [job[w] EXCEPT !.pc = "written", !.stamp = clock + 1] \in Job
        BY <2>0, <4>0 DEF Job, PC
      <4>2. job' = [job EXCEPT ![w].pc = "written", ![w].stamp = clock + 1]
        BY <2>2, <3>1 DEF WritePolicy
      <4>3. RouteKnown'
        BY <2>2, <4>2 DEF WritePolicy, RouteKnown
      <4>4. LoopAtHome'
        BY <4>2 DEF LoopAtHome
      <4>5. job' \in [Writers \cup Replicas -> Job]
        BY <4>1, <4>2
      <4> QED
        BY <2>2, <3>1, <4>0, <4>3, <4>4, <4>5 DEF WritePolicy
    <3>2. CASE policy[job[w].route].version # job[w].expected
      <4>1. Answer(w, "stale") /\ job[w].pc # "idle"
        BY <2>2, <3>2 DEF WritePolicy
      <4> QED
        BY <2>2, <3>2, <4>1, AnswerType DEF WritePolicy
    <3> QED
      BY <3>1, <3>2
  <2>3. ASSUME Apply(w)
        PROVE  policy' \in [Routes -> Policy] /\ masked' \in [Replicas -> BOOLEAN]
    <3>1. [version |-> job[w].expected + 1, stamp |-> job[w].stamp] \in Policy
      BY <2>0 DEF Job, Policy
    <3> QED
      BY <2>3, <3>1 DEF Apply
  <2>4. CASE Commit(w)
    <3>1. [job[w] EXCEPT !.pc = "waiting"] \in Job
      BY <2>0 DEF Job, PC
    <3>2. RouteKnown' /\ LoopAtHome'
      BY <2>4 DEF Commit, Apply, RouteKnown, LoopAtHome
    <3> QED
      BY <2>3, <2>4, <3>1, <3>2 DEF Commit, Apply
  <2>5. CASE CommitUnacknowledged(w)
    <3>1. Answer(w, "internal") /\ job[w].pc # "idle"
      BY <2>5 DEF CommitUnacknowledged, Apply
    <3> QED
      BY <2>3, <2>5, <3>1, AnswerType DEF CommitUnacknowledged, Apply
  <2>6. CASE Rollback(w)
    <3>1. Answer(w, "internal") /\ job[w].pc # "idle"
      BY <2>6 DEF Rollback
    <3> QED
      BY <2>6, <3>1, AnswerType DEF Rollback
  <2>7. CASE Notify(w)
    <3>1. PICK res \in {"ok", "unavailable"} : Answer(w, res)
      BY <2>7 DEF Notify
    <3>2. job[w].pc # "idle"
      BY <2>7 DEF Notify
    <3>3. pending' \in [Replicas -> Nat]
      BY <2>7 DEF Notify
    <3> QED
      BY <2>7, <3>1, <3>2, <3>3, AnswerType DEF Notify
  <2>8. CASE Return(w)
    <3>1. At(job[w].replica, "idle") \in Job
      BY <1>0, <2>0 DEF Job, PC
    <3>2. RouteKnown' /\ LoopAtHome'
      BY <2>8 DEF Return, RouteKnown, LoopAtHome, At
    <3> QED
      BY <2>8, <3>1, <3>2 DEF Return
  <2> QED
    BY <1>2, <2>1, <2>2, <2>4, <2>5, <2>6, <2>7, <2>8 DEF Change
<1>3. ASSUME NEW p \in Writers \cup Replicas, RefreshSource(p)
      PROVE  TypeInv'
  <2>0. job[p] \in Job /\ job[p].replica \in Replicas /\ Versions \in [Routes -> Nat]
    BY DEF Job, Versions, Policy
  <2>1. CASE ReadPolicies(p)
    <3>1. [job[p] EXCEPT !.pc = "policies", !.expr = Versions] \in Job
      BY <2>0 DEF Job, PC
    <3>2. RouteKnown' /\ LoopAtHome'
      BY <2>1 DEF ReadPolicies, RouteKnown, LoopAtHome
    <3> QED
      BY <2>1, <3>1, <3>2 DEF ReadPolicies
  <2>2. CASE Install(p)
    <3>1. [job[p] EXCEPT !.pc = "installed", !.expr = Blank] \in Job
      BY <2>0 DEF Job, PC, Blank
    <3>2. RouteKnown' /\ LoopAtHome'
      BY <2>2 DEF Install, RouteKnown, LoopAtHome
    <3>3. [x \in Routes |-> [expr |-> job[p].expr[x], refs |-> policy[x].version]]
              \in [Routes -> Entry]
      BY <2>0 DEF Job, Entry, Policy
    <3> QED
      BY <2>0, <2>2, <3>1, <3>2, <3>3 DEF Install
  <2>3. CASE ReadRevision(p)
    <3>1. \A pc \in PC : [job[p] EXCEPT !.pc = pc] \in Job
      BY <2>0 DEF Job
    <3>2. job' \in [Writers \cup Replicas -> Job]
      BY <2>3, <3>1 DEF ReadRevision, PC
    <3>3. RouteKnown' /\ LoopAtHome'
      BY <2>3 DEF ReadRevision, RouteKnown, LoopAtHome
    <3>4. revision' \in [Replicas -> Nat]
      BY <2>0, <2>3 DEF ReadRevision, Policy
    <3> QED
      BY <2>0, <2>3, <3>2, <3>3, <3>4 DEF ReadRevision
  <2>4. CASE RefreshFails(p)
    <3>1. CASE p \in Writers
      <4>1. Answer(p, "unavailable") /\ job[p].pc # "idle"
        BY <2>4, <3>1 DEF RefreshFails
      <4> QED
        BY <2>4, <3>1, <4>1, AnswerType DEF RefreshFails
    <3>2. CASE p \notin Writers
      <4>1. p \in Replicas /\ At(p, "idle") \in Job /\ At(p, "waiting") \in Job
        BY <1>0, <3>2 DEF PC
      <4>2. job' = [job EXCEPT ![p] = At(p, IF up[p] THEN "idle" ELSE "waiting")]
        BY <2>4, <3>2 DEF RefreshFails
      <4>3. RouteKnown'
        BY <3>2, <4>2 DEF RouteKnown
      <4>4. LoopAtHome'
        BY <4>1, <4>2 DEF LoopAtHome, At
      <4> QED
        BY <2>4, <3>2, <4>1, <4>2, <4>3, <4>4 DEF RefreshFails
    <3> QED
      BY <3>1, <3>2
  <2> QED
    BY <1>3, <2>1, <2>2, <2>3, <2>4 DEF RefreshSource
<1>4. ASSUME NEW r \in Replicas, HandleMessage(r) \/ Poll(r)
      PROVE  TypeInv'
  <2>0. job[r] \in Job
    OBVIOUS
  <2>1. [job[r] EXCEPT !.pc = "waiting"] \in Job
    BY <2>0 DEF Job, PC
  <2>2. job' = [job EXCEPT ![r].pc = "waiting"]
    BY <1>4 DEF HandleMessage, Poll
  <2>3. RouteKnown'
    BY <2>2 DEF RouteKnown
  <2>4. LoopAtHome'
    BY <2>2 DEF LoopAtHome
  <2>5. job' \in [Writers \cup Replicas -> Job]
    BY <2>1, <2>2
  <2>6. pending' \in [Replicas -> Nat]
    BY <1>4 DEF HandleMessage, Poll
  <2> QED
    BY <1>4, <2>3, <2>4, <2>5, <2>6 DEF HandleMessage, Poll
<1>5. ASSUME NEW r \in Replicas, Restart(r)
      PROVE  TypeInv'
  <2>1. At(r, "idle") \in Job /\ At(r, "waiting") \in Job
    BY <1>0 DEF PC
  <2>2. RouteKnown' /\ LoopAtHome'
    BY <1>5 DEF Restart, RouteKnown, LoopAtHome, At
  <2> QED
    BY <1>5, <2>1, <2>2 DEF Restart, Entry
<1> QED
  BY <1>1, <1>2, <1>3, <1>4, <1>5 DEF Next

\* RoutePolicy keeps its types.
THEOREM RouteTypeCorrect == Spec => []TypeOK
<1>1. Init => TypeInv
  BY InitType
<1>2. TypeInv /\ [Next]_vars => TypeInv'
  BY StepType
<1>3. TypeInv => TypeOK
  BY DEF TypeInv
<1> QED
  BY <1>1, <1>2, <1>3, PTL DEF Spec

-----------------------------------------------------------------------------
(* Safety.                                                                 *)

\* A row is locked by one Set at a time, the mutex of a replica by one refresh.
RowLocks ==
    \A v, w \in Writers :
        job[v].pc = "written" /\ job[w].pc = "written" /\ job[v].route = job[w].route
        => v = w

Refreshing == {"policies", "installed"}

RefreshLocks ==
    \A p, q \in Actors :
        /\ job[p].pc \in Refreshing
        /\ job[q].pc \in Refreshing
        /\ job[p].replica = job[q].replica
        => p = q

\* No snapshot is ahead of the database.
NotAhead ==
    \A r \in Replicas, x \in Routes :
        /\ snapshot[r][x].expr <= policy[x].version
        /\ snapshot[r][x].refs <= policy[x].version

InForce(t) ==
    /\ snapshot[t.replica][t.route].expr > t.expected
    /\ snapshot[t.replica][t.route].refs > t.expected

\* A refresh has read policies that are not older than the snapshot it is going
\* to replace.
LoadOK(t) ==
    t.pc = "policies" =>
        \A x \in Routes : /\ snapshot[t.replica][x].expr <= t.expr[x]
                          /\ t.expr[x] <= policy[x].version

\* How far the change of a writer has got: named, committed, loaded, in force.
WriterOK(t) ==
    /\ t.pc = "written" => policy[t.route].version = t.expected
    /\ t.pc \in {"waiting", "policies"} => policy[t.route].version > t.expected
    /\ t.pc = "policies" => t.expr[t.route] > t.expected
    /\ t.pc \in {"installed", "refreshed"} \/ t.result = "ok" => InForce(t)

SafeInv ==
    /\ TypeInv
    /\ RowLocks
    /\ RefreshLocks
    /\ NotAhead
    /\ \A p \in Actors : LoadOK(job[p])
    /\ \A w \in Writers : WriterOK(job[w])

LEMMA InitSafe == Init => SafeInv
<1> SUFFICES ASSUME Init PROVE SafeInv
  OBVIOUS
<1> USE RouteAssumption
<1>0. TypeInv
  BY InitType
<1>1. PICK r \in Replicas :
          job = [p \in Writers \cup Replicas |->
                    IF p \in Writers THEN At(r, "idle") ELSE At(p, "waiting")]
  BY DEF Init
<1>2. RowLocks
  BY <1>1 DEF RowLocks, At
<1>3. RefreshLocks
  BY <1>1 DEF RefreshLocks, Refreshing, Actors, At
<1>4. NotAhead
  <2>1. \A q \in Replicas, x \in Routes :
            /\ snapshot[q][x] = [expr |-> 0, refs |-> 0]
            /\ policy[x] = [version |-> 0, stamp |-> 0]
    BY DEF Init
  <2> QED
    BY <2>1 DEF NotAhead
<1>5. \A p \in Actors : LoadOK(job[p])
  BY <1>1 DEF LoadOK, Actors, At
<1>6. \A w \in Writers : WriterOK(job[w])
  BY <1>1 DEF WriterOK, At
<1> QED
  BY <1>0, <1>2, <1>3, <1>4, <1>5, <1>6 DEF SafeInv

\* A step that changes one job, and neither policies nor snapshots.
LEMMA JobStep ==
    ASSUME SafeInv, TypeInv', NEW p \in Actors, NEW t,
           job' = [job EXCEPT ![p] = t],
           UNCHANGED <<policy, snapshot>>,
           LoadOK(t),
           p \in Writers => WriterOK(t),
           t.pc = "written" => \A v \in Writers \ {p} : ~HoldsRow(v, t.route),
           t.pc \in Refreshing => \A q \in Actors \ {p} : ~Holds(q, t.replica)
    PROVE  SafeInv'
<1> USE RouteAssumption
<1>0. /\ \A q \in Actors : job'[q] = IF q = p THEN t ELSE job[q]
      /\ policy' = policy
      /\ snapshot' = snapshot
  BY DEF SafeInv, TypeInv, TypeOK, Actors
<1>1. RowLocks'
  BY <1>0 DEF SafeInv, RowLocks, HoldsRow, Actors
<1>2. RefreshLocks'
  BY <1>0 DEF SafeInv, RefreshLocks, Refreshing, Holds
<1>3. NotAhead'
  BY <1>0 DEF SafeInv, NotAhead
<1>4. \A q \in Actors : LoadOK(job[q])'
  BY <1>0 DEF SafeInv, LoadOK
<1>5. \A w \in Writers : WriterOK(job[w])'
  BY <1>0 DEF SafeInv, WriterOK, InForce, Actors
<1> QED
  BY <1>1, <1>2, <1>3, <1>4, <1>5 DEF SafeInv

LEMMA CommitStep ==
    ASSUME SafeInv, TypeInv', NEW w \in Writers, Commit(w) \/ CommitUnacknowledged(w)
    PROVE  SafeInv'
<1> USE RouteAssumption
<1> DEFINE t == job'[w]
<1>0. /\ Apply(w) /\ job[w].pc = "written" /\ w \in Actors
      /\ job[w].route \in Routes /\ job[w].expected \in Nat
      /\ \A x \in Routes : policy[x].version \in Nat
  BY DEF Commit, CommitUnacknowledged, Apply, Actors, SafeInv, TypeInv, TypeOK, RouteKnown,
         Job, Policy
<1>1. /\ snapshot' = snapshot
      /\ policy[job[w].route].version = job[w].expected
      /\ \A x \in Routes \ {job[w].route} : policy'[x] = policy[x]
      /\ policy'[job[w].route].version = job[w].expected + 1
  BY <1>0 DEF Apply, SafeInv, TypeInv, TypeOK, WriterOK
<1>2. \A x \in Routes : /\ policy[x].version <= policy'[x].version
                        /\ x # job[w].route => policy'[x].version = policy[x].version
                        /\ policy'[x].version \in Nat
  BY <1>0, <1>1
<1>3. /\ \A q \in Actors \ {w} : job'[q] = job[q]
      /\ t.pc \in {"waiting", "answered"}
      /\ t.route = job[w].route /\ t.expected = job[w].expected
      /\ t.result # "ok" \/ t.result = job[w].result
      /\ t.replica = job[w].replica
  BY <1>0 DEF Commit, CommitUnacknowledged, Answer, Actors, SafeInv, TypeInv, TypeOK, Job
<1>4. RowLocks'
  BY <1>0, <1>3 DEF SafeInv, RowLocks, Actors
<1>5. RefreshLocks'
  BY <1>0, <1>3 DEF SafeInv, RefreshLocks, Refreshing
<1>6. NotAhead'
  <2> SUFFICES ASSUME NEW r \in Replicas, NEW x \in Routes
               PROVE  /\ snapshot[r][x].expr <= policy'[x].version
                      /\ snapshot[r][x].refs <= policy'[x].version
    BY <1>1 DEF NotAhead
  <2>1. /\ snapshot[r][x].expr <= policy[x].version
        /\ snapshot[r][x].refs <= policy[x].version
        /\ snapshot[r][x].expr \in Nat /\ snapshot[r][x].refs \in Nat
    BY DEF SafeInv, NotAhead, TypeInv, TypeOK, Entry
  <2> QED
    BY <1>0, <1>2, <2>1
<1>7. ASSUME NEW q \in Actors
      PROVE  LoadOK(job[q])'
  <2>1. CASE q = w
    BY <1>3, <2>1 DEF LoadOK
  <2>2. CASE q # w
    <3>1. LoadOK(job[q]) /\ job'[q] = job[q] /\ job[q] \in Job
      BY <1>3, <2>2 DEF SafeInv, TypeInv, TypeOK, Actors
    <3>2. \A x \in Routes : job[q].expr[x] \in Nat
      BY <3>1 DEF Job
    <3> QED
      BY <1>0, <1>1, <1>2, <3>1, <3>2 DEF LoadOK
  <2> QED
    BY <2>1, <2>2
<1>8. ASSUME NEW v \in Writers
      PROVE  WriterOK(job[v])'
  <2>0. WriterOK(job[v])
    BY DEF SafeInv
  <2>1. CASE v = w
    BY <1>0, <1>1, <1>3, <2>0, <2>1 DEF WriterOK, InForce
  <2>2. CASE v # w
    <3>1. job'[v] = job[v] /\ job[v].expected \in Nat
      BY <1>3, <2>2 DEF SafeInv, TypeInv, TypeOK, Actors, Job
    <3>2. job[v].pc # "idle" => job[v].route \in Routes
      BY DEF SafeInv, TypeInv, RouteKnown
    <3>3. job[v].pc = "written" => job[v].route # job[w].route
      BY <1>0, <2>2 DEF SafeInv, RowLocks
    <3>4. InForce(job[v]) => InForce(job[v])'
      BY <1>1, <3>1 DEF InForce
    <3>5. job[v].pc = "written" => policy'[job[v].route].version = job[v].expected
      BY <1>2, <2>0, <3>2, <3>3 DEF WriterOK
    <3>6. job[v].pc \in {"waiting", "policies"}
              => policy'[job[v].route].version > job[v].expected
      BY <1>0, <1>2, <2>0, <3>1, <3>2 DEF WriterOK
    <3> QED
      BY <2>0, <3>1, <3>4, <3>5, <3>6 DEF WriterOK
  <2> QED
    BY <2>1, <2>2
<1> QED
  BY <1>4, <1>5, <1>6, <1>7, <1>8 DEF SafeInv

\* What a refresh installs is not older than what it replaces.
LEMMA InstallGrows ==
    ASSUME SafeInv, NEW p \in Actors, Install(p)
    PROVE  \A r \in Replicas, x \in Routes :
               /\ snapshot[r][x].expr <= snapshot'[r][x].expr
               /\ snapshot[r][x].refs <= snapshot'[r][x].refs
               /\ snapshot'[r][x].expr <= policy[x].version
               /\ snapshot'[r][x].refs <= policy[x].version
               /\ snapshot[r][x].expr \in Nat /\ snapshot[r][x].refs \in Nat
               /\ snapshot'[r][x].expr \in Nat /\ snapshot'[r][x].refs \in Nat
<1> SUFFICES ASSUME NEW r \in Replicas, NEW x \in Routes
             PROVE  /\ snapshot[r][x].expr <= snapshot'[r][x].expr
                    /\ snapshot[r][x].refs <= snapshot'[r][x].refs
                    /\ snapshot'[r][x].expr <= policy[x].version
                    /\ snapshot'[r][x].refs <= policy[x].version
                    /\ snapshot[r][x].expr \in Nat /\ snapshot[r][x].refs \in Nat
                    /\ snapshot'[r][x].expr \in Nat /\ snapshot'[r][x].refs \in Nat
  OBVIOUS
<1>0. /\ job[p] \in Job
      /\ snapshot[r][x].expr \in Nat /\ snapshot[r][x].refs \in Nat
      /\ policy[x].version \in Nat
  BY DEF SafeInv, TypeInv, TypeOK, Actors, Entry, Policy
<1>1. job[p].expr[x] \in Nat
  BY <1>0 DEF Job
<1>2. /\ snapshot[r][x].expr <= policy[x].version
      /\ snapshot[r][x].refs <= policy[x].version
  BY DEF SafeInv, NotAhead
<1>3. CASE r = job[p].replica
  <2>1. snapshot'[r][x] = [expr |-> job[p].expr[x], refs |-> policy[x].version]
    BY <1>3 DEF Install, SafeInv, TypeInv, TypeOK
  <2>2. snapshot[r][x].expr <= job[p].expr[x] /\ job[p].expr[x] <= policy[x].version
    BY <1>3 DEF SafeInv, LoadOK, Install
  <2> QED
    BY <1>0, <1>1, <1>2, <2>1, <2>2
<1>4. CASE r # job[p].replica
  <2>1. snapshot'[r] = snapshot[r]
    BY <1>4 DEF Install, SafeInv, TypeInv, TypeOK
  <2> QED
    BY <1>0, <1>2, <2>1
<1> QED
  BY <1>3, <1>4

LEMMA InstallStep ==
    ASSUME SafeInv, TypeInv', NEW p \in Actors, Install(p)
    PROVE  SafeInv'
<1> USE RouteAssumption
<1>0. /\ job[p] \in Job /\ job[p].replica \in Replicas
      /\ job[p].pc = "policies"
      /\ policy' = policy
  BY DEF Install, SafeInv, TypeInv, TypeOK, Actors, Job
<1>1. /\ \A q \in Actors \ {p} : job'[q] = job[q]
      /\ job'[p].pc = "installed"
      /\ job'[p].route = job[p].route /\ job'[p].expected = job[p].expected
      /\ job'[p].replica = job[p].replica /\ job'[p].result = job[p].result
  BY <1>0 DEF Install, SafeInv, TypeInv, TypeOK, Actors, Job
<1>2. RowLocks'
  BY <1>1 DEF SafeInv, RowLocks, Actors
<1>3. RefreshLocks'
  BY <1>0, <1>1 DEF SafeInv, RefreshLocks, Refreshing
<1>4. NotAhead'
  BY <1>0, InstallGrows DEF NotAhead
<1>5. ASSUME NEW q \in Actors
      PROVE  LoadOK(job[q])'
  <2>1. CASE q = p
    BY <1>1, <2>1 DEF LoadOK
  <2>2. CASE q # p
    <3>1. SUFFICES ASSUME job[q].pc = "policies"
                   PROVE  LoadOK(job[q])'
      BY <1>1, <2>2 DEF LoadOK
    <3>2. job[q].replica # job[p].replica
      BY <1>0, <2>2, <3>1 DEF SafeInv, RefreshLocks, Refreshing
    <3>3. job[q].replica \in Replicas
      BY DEF SafeInv, TypeInv, TypeOK, Actors, Job
    <3>4. snapshot'[job[q].replica] = snapshot[job[q].replica]
      BY <3>2, <3>3 DEF Install, SafeInv, TypeInv, TypeOK
    <3> QED
      BY <1>0, <1>1, <2>2, <3>4 DEF SafeInv, LoadOK
  <2> QED
    BY <2>1, <2>2
<1>6. ASSUME NEW v \in Writers
      PROVE  WriterOK(job[v])'
  <2>0. WriterOK(job[v]) /\ v \in Actors
    BY DEF SafeInv, Actors
  <2>1. /\ job[v].pc # "idle" => job[v].route \in Routes
        /\ job[v].pc = "idle" => job[v].result = "none"
        /\ job[v].replica \in Replicas /\ job[v].expected \in Nat
    BY <2>0 DEF SafeInv, TypeInv, TypeOK, RouteKnown, Actors, Job
  <2>2. CASE v = p
    <3>1. /\ snapshot'[job[p].replica][job[p].route]
                = [expr |-> job[p].expr[job[p].route], refs |-> policy[job[p].route].version]
          /\ policy[job[p].route].version > job[p].expected
          /\ job[p].expr[job[p].route] > job[p].expected
      BY <1>0, <2>0, <2>1, <2>2 DEF Install, WriterOK, SafeInv, TypeInv, TypeOK
    <3>2. InForce(job[v])'
      BY <1>1, <2>2, <3>1 DEF InForce
    <3> QED
      BY <1>1, <2>2, <3>2 DEF WriterOK
  <2>3. CASE v # p
    <3>1. job'[v] = job[v]
      BY <1>1, <2>0, <2>3
    <3>2. ASSUME InForce(job[v]), job[v].pc # "idle"
          PROVE  InForce(job[v])'
      BY <2>1, <3>1, <3>2, InstallGrows DEF InForce
    <3>3. job[v].pc \in {"installed", "refreshed"} \/ job[v].result = "ok" => InForce(job[v])'
      BY <2>0, <2>1, <3>2 DEF WriterOK
    <3> QED
      BY <1>0, <2>0, <3>1, <3>3 DEF WriterOK
  <2> QED
    BY <2>2, <2>3
<1> QED
  BY <1>2, <1>3, <1>4, <1>5, <1>6 DEF SafeInv

LEMMA RestartStep ==
    ASSUME SafeInv, TypeInv', NEW r \in Replicas, Restart(r)
    PROVE  SafeInv'
<1> USE RouteAssumption
<1>0. /\ policy' = policy
      /\ \A q \in Replicas \ {r} : snapshot'[q] = snapshot[q]
      /\ \A x \in Routes : snapshot'[r][x] = [expr |-> 0, refs |-> 0]
  BY DEF Restart, SafeInv, TypeInv, TypeOK
<1>1. \A q \in Actors :
         \/ job'[q].pc \in {"idle", "waiting"} /\ job'[q].result = "none"
            /\ (q \in Writers => job'[q].pc = "idle")
         \/ job'[q] = job[q] /\ job[q].replica \in Replicas \ {r}
  BY DEF Restart, At, Actors, SafeInv, TypeInv, TypeOK, LoopAtHome, Job
<1>2. RowLocks'
  BY <1>1 DEF SafeInv, RowLocks, Actors
<1>3. RefreshLocks'
  BY <1>1 DEF SafeInv, RefreshLocks, Refreshing
<1>4. NotAhead'
  <2> SUFFICES ASSUME NEW q \in Replicas, NEW x \in Routes
               PROVE  /\ snapshot'[q][x].expr <= policy[x].version
                      /\ snapshot'[q][x].refs <= policy[x].version
    BY <1>0 DEF NotAhead
  <2>1. policy[x].version \in Nat
    BY DEF SafeInv, TypeInv, TypeOK, Policy
  <2>2. CASE q = r
    BY <1>0, <2>1, <2>2
  <2>3. CASE q # r
    BY <1>0, <2>3 DEF SafeInv, NotAhead
  <2> QED
    BY <2>2, <2>3
<1>5. \A q \in Actors : LoadOK(job[q])'
  BY <1>0, <1>1 DEF SafeInv, LoadOK
<1>6. \A v \in Writers : WriterOK(job[v])'
  BY <1>0, <1>1 DEF SafeInv, WriterOK, InForce, Actors
<1> QED
  BY <1>2, <1>3, <1>4, <1>5, <1>6 DEF SafeInv

\* An answer other than success.
LEMMA RefusalStep ==
    ASSUME SafeInv, TypeInv', NEW w \in Writers, Answer(w, "stale") \/ Answer(w, "internal")
               \/ Answer(w, "unavailable"), UNCHANGED <<policy, snapshot>>
    PROVE  SafeInv'
<1>1. PICK res \in {"stale", "internal", "unavailable"} : Answer(w, res)
  OBVIOUS
<1> DEFINE t == [job[w] EXCEPT !.pc = "answered", !.result = res]
<1>2. job[w] \in Job /\ w \in Actors
  BY DEF SafeInv, TypeInv, TypeOK, Actors
<1>3. job' = [job EXCEPT ![w] = t]
  BY <1>1 DEF Answer
<1>4. t.pc = "answered" /\ t.result = res
  BY <1>2 DEF Job
<1>5. LoadOK(t) /\ WriterOK(t)
  BY <1>4 DEF LoadOK, WriterOK
<1> HIDE DEF t
<1> QED
  BY <1>2, <1>3, <1>4, <1>5, JobStep DEF Refreshing

LEMMA ChangeStep ==
    ASSUME SafeInv, TypeInv', NEW w \in Writers, Change(w)
    PROVE  SafeInv'
<1> USE RouteAssumption
<1>0. job[w] \in Job /\ w \in Actors /\ WriterOK(job[w])
  BY DEF SafeInv, TypeInv, TypeOK, Actors
<1>1. ASSUME NEW r \in Replicas, NEW x \in Routes, NEW e \in 0..MaxSets, Set(w, r, x, e)
      PROVE  SafeInv'
  <2> DEFINE t == [At(r, "planned") EXCEPT !.route = x, !.expected = e]
  <2>1. t.pc = "planned" /\ t.result = "none"
    BY DEF At
  <2>2. LoadOK(t) /\ WriterOK(t)
    BY <2>1 DEF LoadOK, WriterOK
  <2>3. job' = [job EXCEPT ![w] = t] /\ UNCHANGED <<policy, snapshot>>
    BY <1>1 DEF Set
  <2> HIDE DEF t
  <2> QED
    BY <1>0, <2>1, <2>2, <2>3, JobStep DEF Refreshing
<1>2. CASE WritePolicy(w)
  <2>1. CASE policy[job[w].route].version = job[w].expected
    <3> DEFINE t == [job[w] EXCEPT !.pc = "written", !.stamp = clock + 1]
    <3>1. /\ t.pc = "written" /\ t.route = job[w].route /\ t.expected = job[w].expected
          /\ t.result = job[w].result /\ t.replica = job[w].replica
      BY <1>0 DEF Job
    <3>2. LoadOK(t) /\ WriterOK(t)
      BY <1>0, <2>1, <3>1 DEF LoadOK, WriterOK, InForce
    <3>3. /\ job' = [job EXCEPT ![w] = t] /\ UNCHANGED <<policy, snapshot>>
          /\ \A v \in Writers \ {w} : ~HoldsRow(v, t.route)
      BY <1>2, <2>1, <3>1 DEF WritePolicy
    <3> HIDE DEF t
    <3> QED
      BY <1>0, <3>1, <3>2, <3>3, JobStep DEF Refreshing
  <2>2. CASE policy[job[w].route].version # job[w].expected
    BY <1>2, <2>2, RefusalStep DEF WritePolicy
  <2> QED
    BY <2>1, <2>2
<1>3. CASE Commit(w) \/ CommitUnacknowledged(w)
  BY <1>3, CommitStep
<1>4. CASE Rollback(w)
  BY <1>4, RefusalStep DEF Rollback
<1>5. CASE Notify(w)
  <2>1. PICK res \in {"ok", "unavailable"} : Answer(w, res)
    BY <1>5 DEF Notify
  <2> DEFINE t == [job[w] EXCEPT !.pc = "answered", !.result = res]
  <2>2. /\ t.pc = "answered" /\ t.route = job[w].route /\ t.expected = job[w].expected
        /\ t.replica = job[w].replica
    BY <1>0 DEF Job
  <2>3. LoadOK(t) /\ WriterOK(t)
    BY <1>0, <1>5, <2>2 DEF LoadOK, WriterOK, InForce, Notify
  <2>4. job' = [job EXCEPT ![w] = t]
    BY <2>1 DEF Answer
  <2>5. UNCHANGED <<policy, snapshot>>
    BY <1>5 DEF Notify
  <2> HIDE DEF t
  <2> QED
    BY <1>0, <2>2, <2>3, <2>4, <2>5, JobStep DEF Refreshing
<1>6. CASE Return(w)
  <2> DEFINE t == At(job[w].replica, "idle")
  <2>1. t.pc = "idle" /\ t.result = "none"
    BY DEF At
  <2>2. LoadOK(t) /\ WriterOK(t)
    BY <2>1 DEF LoadOK, WriterOK
  <2>3. job' = [job EXCEPT ![w] = t] /\ UNCHANGED <<policy, snapshot>>
    BY <1>6 DEF Return
  <2> HIDE DEF t
  <2> QED
    BY <1>0, <2>1, <2>2, <2>3, JobStep DEF Refreshing
<1> QED
  BY <1>1, <1>2, <1>3, <1>4, <1>5, <1>6 DEF Change

LEMMA RefreshStep ==
    ASSUME SafeInv, TypeInv', NEW p \in Actors, RefreshSource(p)
    PROVE  SafeInv'
<1> USE RouteAssumption
<1>0. /\ job[p] \in Job
      /\ LoadOK(job[p])
      /\ p \in Writers => WriterOK(job[p])
  BY DEF SafeInv, TypeInv, TypeOK, Actors
<1>1. CASE ReadPolicies(p)
  <2> DEFINE t == [job[p] EXCEPT !.pc = "policies", !.expr = Versions]
  <2>1. /\ t.pc = "policies" /\ t.route = job[p].route /\ t.expected = job[p].expected
        /\ t.result = job[p].result /\ t.replica = job[p].replica /\ t.expr = Versions
        /\ t.replica \in Replicas
    BY <1>0 DEF Job
  <2>2. \A x \in Routes : t.expr[x] = policy[x].version /\ policy[x].version \in Nat
    BY <2>1 DEF Versions, SafeInv, TypeInv, TypeOK, Policy
  <2>3. /\ job' = [job EXCEPT ![p] = t] /\ UNCHANGED <<policy, snapshot>>
        /\ job[p].pc = "waiting"
        /\ \A q \in Actors \ {p} : ~Holds(q, t.replica)
    BY <1>1, <2>1 DEF ReadPolicies, Actors
  <2> HIDE DEF t
  <2>4. LoadOK(t)
    BY <2>1, <2>2 DEF LoadOK, SafeInv, NotAhead
  <2>5. ASSUME p \in Writers
        PROVE  WriterOK(t)
    <3>1. t.route \in Routes
      BY <2>1, <2>3, <2>5 DEF SafeInv, TypeInv, RouteKnown
    <3>2. policy[t.route].version > t.expected
      BY <1>0, <2>1, <2>3, <2>5 DEF WriterOK
    <3>3. t.result = "ok" => InForce(t)
      BY <1>0, <2>1, <2>5 DEF WriterOK, InForce
    <3> QED
      BY <2>1, <2>2, <3>1, <3>2, <3>3 DEF WriterOK
  <2> QED
    BY <2>1, <2>3, <2>4, <2>5, JobStep
<1>2. CASE Install(p)
  BY <1>2, InstallStep
<1>3. CASE ReadRevision(p)
  <2> DEFINE t == [job[p] EXCEPT !.pc = IF p \in Writers THEN "refreshed" ELSE "idle"]
  <2>1. /\ t.pc = IF p \in Writers THEN "refreshed" ELSE "idle"
        /\ t.route = job[p].route /\ t.expected = job[p].expected
        /\ t.result = job[p].result /\ t.replica = job[p].replica
    BY <1>0 DEF Job
  <2>2. /\ job' = [job EXCEPT ![p] = t] /\ UNCHANGED <<policy, snapshot>>
        /\ job[p].pc = "installed"
    BY <1>3 DEF ReadRevision
  <2> HIDE DEF t
  <2>3. LoadOK(t) /\ (p \in Writers => WriterOK(t))
    BY <1>0, <2>1, <2>2 DEF LoadOK, WriterOK, InForce
  <2> QED
    BY <2>1, <2>2, <2>3, JobStep DEF Refreshing
<1>4. CASE RefreshFails(p)
  <2>1. CASE p \in Writers
    BY <1>4, <2>1, RefusalStep DEF RefreshFails
  <2>2. CASE p \notin Writers
    <3> DEFINE t == At(p, IF up[p] THEN "idle" ELSE "waiting")
    <3>1. t.pc \in {"idle", "waiting"}
      BY DEF At
    <3>2. LoadOK(t)
      BY <3>1 DEF LoadOK
    <3>3. job' = [job EXCEPT ![p] = t] /\ UNCHANGED <<policy, snapshot>>
      BY <1>4, <2>2 DEF RefreshFails
    <3> HIDE DEF t
    <3> QED
      BY <2>2, <3>1, <3>2, <3>3, JobStep DEF Refreshing
  <2> QED
    BY <2>1, <2>2
<1> QED
  BY <1>1, <1>2, <1>3, <1>4 DEF RefreshSource

LEMMA StepSafe == SafeInv /\ [Next]_vars => SafeInv'
<1> SUFFICES ASSUME SafeInv, [Next]_vars
             PROVE  SafeInv'
  OBVIOUS
<1> USE RouteAssumption
<1>0. TypeInv /\ TypeInv'
  BY StepType DEF SafeInv
<1>1. CASE UNCHANGED vars
  BY <1>0, <1>1 DEF vars, SafeInv, RowLocks, RefreshLocks, NotAhead, LoadOK, WriterOK, InForce
<1>2. ASSUME NEW w \in Writers, Change(w)
      PROVE  SafeInv'
  BY <1>0, <1>2, ChangeStep
<1>3. ASSUME NEW p \in Writers \cup Replicas, RefreshSource(p)
      PROVE  SafeInv'
  BY <1>0, <1>3, RefreshStep DEF Actors
<1>4. ASSUME NEW r \in Replicas, HandleMessage(r) \/ Poll(r)
      PROVE  SafeInv'
  <2> DEFINE t == [job[r] EXCEPT !.pc = "waiting"]
  <2>1. job[r] \in Job /\ r \in Actors /\ r \notin Writers
    BY <1>0 DEF TypeInv, TypeOK, Actors
  <2>2. t.pc = "waiting"
    BY <2>1 DEF Job
  <2>3. job' = [job EXCEPT ![r] = t] /\ UNCHANGED <<policy, snapshot>>
    BY <1>4 DEF HandleMessage, Poll
  <2> HIDE DEF t
  <2>4. LoadOK(t)
    BY <2>2 DEF LoadOK
  <2> QED
    BY <1>0, <2>1, <2>2, <2>3, <2>4, JobStep DEF Refreshing
<1>5. ASSUME NEW r \in Replicas, Restart(r)
      PROVE  SafeInv'
  BY <1>0, <1>5, RestartStep
<1> QED
  BY <1>1, <1>2, <1>3, <1>4, <1>5 DEF Next

LEMMA SafeInvariant == Spec => []SafeInv
<1> QED
  BY InitSafe, StepSafe, PTL DEF Spec

\* SELECT ... FOR UPDATE, however many calls of Set meet on a route: what a Set
\* is about to overwrite is the version its caller named.
THEOREM SetsNotBlind == Spec => []NoBlindSet
<1>1. SafeInv => NoBlindSet
  BY DEF SafeInv, WriterOK, NoBlindSet
<1> QED
  BY <1>1, SafeInvariant, PTL

\* A successful Set is in force on the replica that answers, whatever writers,
\* messages, polls, failures and restarts its refresh met.
THEOREM WritesInForce == Spec => []WriterSeesItsWrite
<1>1. SafeInv => WriterSeesItsWrite
  BY DEF SafeInv, WriterOK, InForce, WriterSeesItsWrite
<1> QED
  BY <1>1, SafeInvariant, PTL

\* The mutex of RefreshSource: a serving replica never goes back to an older
\* policy.
THEOREM SnapshotsMonotone == Spec => SnapshotsNeverGoBack
<1> DEFINE Grows == \A r \in Replicas, x \in Routes :
                up[r] /\ up'[r] =>
                   /\ snapshot[r][x].expr <= snapshot'[r][x].expr
                   /\ snapshot[r][x].refs <= snapshot'[r][x].refs
<1>1. SafeInv /\ [Next]_vars => [Grows]_vars
  <2> SUFFICES ASSUME SafeInv, Next
               PROVE  Grows
    OBVIOUS
  <2> USE RouteAssumption
  <2>0. \A r \in Replicas, x \in Routes :
            snapshot[r][x].expr \in Nat /\ snapshot[r][x].refs \in Nat
    BY DEF SafeInv, TypeInv, TypeOK, Entry
  <2>1. CASE snapshot' = snapshot
    BY <2>0, <2>1
  <2>2. ASSUME NEW p \in Actors, Install(p)
        PROVE  Grows
    BY <2>2, InstallGrows
  <2>3. ASSUME NEW r \in Replicas, Restart(r)
        PROVE  Grows
    <3>1. /\ up'[r] = FALSE
          /\ \A q \in Replicas \ {r} : snapshot'[q] = snapshot[q]
      BY <2>3 DEF Restart, SafeInv, TypeInv, TypeOK
    <3> QED
      BY <2>0, <3>1
  <2>4. \/ snapshot' = snapshot
        \/ \E p \in Actors : Install(p)
        \/ \E r \in Replicas : Restart(r)
    BY DEF Next, Change, RefreshSource, Set, WritePolicy, Commit, CommitUnacknowledged, Apply,
           Rollback, Notify, Return, ReadPolicies, ReadRevision, RefreshFails, HandleMessage,
           Poll, Actors
  <2> QED
    BY <2>1, <2>2, <2>3, <2>4
<1> QED
  BY <1>1, SafeInvariant, PTL DEF Spec, SnapshotsNeverGoBack

-----------------------------------------------------------------------------
(* What SyncRoutes (module RouteSync) commits, for any number of replicas,  *)
(* routes and releases.                                                     *)
(*                                                                          *)
(* The two properties speak of committed rows.  What makes them inductive   *)
(* is the state of the open transactions: which routes a transaction has    *)
(* marked so far, and, as long as no other sync committed, that the active  *)
(* rows it has not marked are still before it.                              *)

Marked(r, s) == {x \in RouteIds : proc[r].writes[x] = s}

\* The transaction of r, in the UPDATE and in the loop.
TxInv(r) ==
    /\ proc[r].doing \in proc[r].todo \cup {NoRoute}
    /\ proc[r].pc \notin {"deactivate", "upsert"} =>
         proc[r].writes = Unwritten /\ ~proc[r].raced /\ proc[r].doing = NoRoute
    /\ proc[r].pc = "deactivate" =>
         /\ Marked(r, "active") = {}
         /\ ~proc[r].raced => Active \subseteq proc[r].todo \cup Marked(r, "inactive")
    /\ proc[r].pc = "upsert" =>
         /\ proc[r].todo \subseteq proc[r].release
         /\ Marked(r, "active") = proc[r].release \ proc[r].todo
         /\ ~proc[r].raced => Active \subseteq Marked(r, "active") \cup Marked(r, "inactive")

SyncInv ==
    /\ SyncTypeOK /\ LastSyncListed /\ GoneIsInactive
    /\ \A r \in Nodes : TxInv(r)

\* A step that changes one process and nothing else keeps the invariant if
\* the process keeps its part.
LEMMA OneProcess ==
    ASSUME SyncInv, NEW r \in Nodes, NEW P,
           proc' = [proc EXCEPT ![r] = P], P \in Process,
           UNCHANGED <<row, last, raced>>,
           deploys' \in 0..MaxDeploys, failures' \in 0..MaxFailures,
           P.pc \in {"scan", "deactivate", "upsert"} \/ P = Idle(P.pc, P.release),
           TxInv(r)'
    PROVE  SyncInv'
<1>1. proc'[r] = P /\ \A q \in Nodes \ {r} : proc'[q] = proc[q]
  BY DEF SyncInv, SyncTypeOK
<1>2. SyncTypeOK'
  BY <1>1 DEF SyncInv, SyncTypeOK, Running
<1>3. LastSyncListed' /\ GoneIsInactive'
  BY DEF SyncInv, LastSyncListed, GoneIsInactive, Active
<1>4. \A q \in Nodes : TxInv(q)'
  <2> SUFFICES ASSUME NEW q \in Nodes \ {r}
               PROVE  TxInv(q)'
    OBVIOUS
  <2> QED
    BY <1>1 DEF SyncInv, TxInv, Marked, Active
<1> QED
  BY <1>2, <1>3, <1>4 DEF SyncInv

LEMMA SyncInitInv == SyncInit => SyncInv
<1> SUFFICES ASSUME SyncInit
             PROVE  SyncInv
  OBVIOUS
<1>1. \A r \in Nodes : proc[r] = Idle("off", {})
  BY DEF SyncInit
<1>2. Idle("off", {}) \in Process
  BY DEF Idle, Process, Unwritten, Status
<1>3. SyncTypeOK
  <2>1. row \in [RouteIds -> Status]
    BY DEF SyncInit, Status
  <2>2. proc \in [Nodes -> Process]
    BY <1>2 DEF SyncInit
  <2>3. deploys \in 0..MaxDeploys /\ failures \in 0..MaxFailures
    BY SyncAssumption DEF SyncInit
  <2>4. Idle("off", {}) = Idle(Idle("off", {}).pc, Idle("off", {}).release)
    BY DEF Idle
  <2> QED
    BY <1>1, <2>1, <2>2, <2>3, <2>4 DEF SyncInit, SyncTypeOK
<1>4. LastSyncListed /\ GoneIsInactive
  BY DEF SyncInit, LastSyncListed, GoneIsInactive
<1>5. \A r \in Nodes : TxInv(r)
  BY <1>1 DEF TxInv, Idle
<1> QED
  BY <1>3, <1>4, <1>5 DEF SyncInv

\* Becoming idle, or scanning, gives up the transaction.
LEMMA BecomesIdle ==
    ASSUME SyncInv, NEW r \in Nodes, NEW pc \in {"off", "down", "scan", "up"},
           NEW release \in SUBSET RouteIds,
           proc' = [proc EXCEPT ![r] = Idle(pc, release)],
           UNCHANGED <<row, last, raced>>,
           deploys' \in 0..MaxDeploys, failures' \in 0..MaxFailures
    PROVE  SyncInv'
<1> DEFINE P == Idle(pc, release)
<1>1. proc'[r] = P
  BY DEF SyncInv, SyncTypeOK
<1>2. TxInv(r)'
  BY <1>1 DEF TxInv, Idle
<1>3. P \in Process /\ P = Idle(P.pc, P.release)
  BY DEF Idle, Process, Unwritten, Status
<1> HIDE DEF P
<1> QED
  BY <1>2, <1>3, OneProcess DEF P

\* What a process record is made of.
LEMMA ProcessType ==
    ASSUME SyncInv, NEW r \in Nodes
    PROVE  /\ proc[r] \in Process
           /\ proc[r].release \in SUBSET RouteIds /\ proc[r].todo \in SUBSET RouteIds
           /\ proc[r].doing \in RouteIds \cup {NoRoute} /\ proc[r].writes \in [RouteIds -> Status]
           /\ proc[r].raced \in BOOLEAN /\ proc[r].found \in BOOLEAN
BY DEF SyncInv, SyncTypeOK, Process

LEMMA SyncScan ==
    ASSUME SyncInv, NEW r \in Nodes, Scan(r)
    PROVE  SyncInv'
<1> DEFINE P == [proc[r] EXCEPT !.pc = "deactivate", !.todo = Active]
<1>1. proc' = [proc EXCEPT ![r] = P]
  BY DEF Scan, SyncInv, SyncTypeOK
<1>2. P \in Process /\ P.pc = "deactivate"
  BY ProcessType DEF Process, Active
<1>3. proc'[r] = P /\ Active' = Active
  BY <1>1 DEF Scan, SyncInv, SyncTypeOK, Active
<1>4. P.writes = Unwritten /\ ~P.raced /\ P.doing = NoRoute /\ P.todo = Active
  BY ProcessType DEF Scan, SyncInv, TxInv, Process
<1>5. TxInv(r)'
  BY <1>2, <1>3, <1>4 DEF TxInv, Marked, Unwritten
<1> QED
  BY <1>1, <1>2, <1>5, OneProcess DEF Scan, SyncInv, SyncTypeOK

\* Taking the next row or route, and waiting for it, change no mark.
LEMMA SameMarks ==
    ASSUME SyncInv, NEW r \in Nodes, NEW d \in proc[r].todo, NEW f \in BOOLEAN, NEW w \in BOOLEAN,
           proc[r].pc \in {"deactivate", "upsert"},
           proc' = [proc EXCEPT ![r] = [@ EXCEPT !.doing = d, !.found = f, !.waiting = w]],
           UNCHANGED <<row, deploys, failures, last, raced>>
    PROVE  SyncInv'
<1> DEFINE P == [proc[r] EXCEPT !.doing = d, !.found = f, !.waiting = w]
<1>1. proc' = [proc EXCEPT ![r] = P]
  BY DEF SyncInv, SyncTypeOK
<1>2. P \in Process
  BY ProcessType DEF Process
<1>3. proc'[r] = P /\ Active' = Active
  BY <1>1 DEF SyncInv, SyncTypeOK, Active
<1>4. /\ P.pc = proc[r].pc /\ P.writes = proc[r].writes /\ P.raced = proc[r].raced
      /\ P.todo = proc[r].todo /\ P.release = proc[r].release /\ P.doing = d
  BY ProcessType DEF Process
<1>5. TxInv(r)'
  BY <1>3, <1>4 DEF TxInv, Marked, SyncInv
<1> HIDE DEF P
<1> QED
  BY <1>1, <1>2, <1>4, <1>5, OneProcess DEF SyncInv, SyncTypeOK

LEMMA SyncSelect ==
    ASSUME SyncInv, NEW r \in Nodes, NEW x \in RouteIds, Select(r, x)
    PROVE  SyncInv'
<1> DEFINE f == row[x] # "none" \/ HasWritten(r, x)
<1>1. proc' = [proc EXCEPT ![r] = [@ EXCEPT !.doing = x, !.found = f, !.waiting = proc[r].waiting]]
  BY ProcessType DEF Select, SyncInv, SyncTypeOK, Process
<1>2. f \in BOOLEAN /\ proc[r].waiting \in BOOLEAN
  BY ProcessType DEF Process
<1> HIDE DEF f
<1> QED
  BY <1>1, <1>2, SameMarks DEF Select

LEMMA SyncWait ==
    ASSUME SyncInv, NEW r \in Nodes, Wait(r)
    PROVE  SyncInv'
<1>1. proc[r].pc \in {"deactivate", "upsert"} /\ proc[r].doing \in proc[r].todo
  BY DEF Wait, Running, SyncInv, TxInv
<1>2. proc' = [proc EXCEPT ![r] = [@ EXCEPT !.doing = proc[r].doing, !.found = proc[r].found,
                                         !.waiting = TRUE]]
  BY ProcessType DEF Wait, SyncInv, SyncTypeOK, Process
<1> QED
  BY <1>1, <1>2, ProcessType, SameMarks DEF Wait

LEMMA SyncDeactivated ==
    ASSUME SyncInv, NEW r \in Nodes, Deactivated(r)
    PROVE  SyncInv'
<1> DEFINE P == [proc[r] EXCEPT !.pc = "upsert", !.todo = proc[r].release]
<1>1. proc' = [proc EXCEPT ![r] = P]
  BY DEF Deactivated, SyncInv, SyncTypeOK
<1>2. P \in Process /\ P.pc = "upsert"
  BY ProcessType DEF Process
<1>3. proc'[r] = P /\ Active' = Active
  BY <1>1 DEF Deactivated, SyncInv, SyncTypeOK, Active
<1>4. /\ P.writes = proc[r].writes /\ P.raced = proc[r].raced
      /\ P.todo = proc[r].release /\ P.release = proc[r].release /\ P.doing = NoRoute
  BY ProcessType DEF Deactivated, SyncInv, TxInv, Process
<1> HIDE DEF P
<1>5. TxInv(r)'
  <2>1. Marked(r, "active")' = Marked(r, "active") /\ Marked(r, "inactive")' = Marked(r, "inactive")
    BY <1>3, <1>4 DEF Marked
  <2>2. Marked(r, "active") = {} /\ (~proc[r].raced => Active \subseteq Marked(r, "inactive"))
    BY DEF Deactivated, SyncInv, TxInv
  <2> QED
    BY <1>2, <1>3, <1>4, <2>1, <2>2 DEF TxInv
<1> QED
  BY <1>1, <1>2, <1>5, OneProcess DEF Deactivated, SyncInv, SyncTypeOK

\* A mark: the UPDATE marks a row inactive, or passes over one another sync
\* has changed meanwhile; the loop marks a route of the release active.
LEMMA SyncWrite ==
    ASSUME SyncInv, NEW r \in Nodes, NEW x \in proc[r].todo, NEW s \in Status, Write(r, x, s),
           \/ proc[r].pc = "deactivate" /\ s = IF row[x] = "active" THEN "inactive" ELSE "none"
           \/ proc[r].pc = "upsert" /\ s = "active",
           UNCHANGED <<row, deploys, failures, last, raced>>
    PROVE  SyncInv'
<1> DEFINE P == [proc[r] EXCEPT !.writes = [@ EXCEPT ![x] = s], !.doing = NoRoute,
                                !.waiting = FALSE, !.todo = @ \ {x}]
<1>0. x \in RouteIds
  BY ProcessType
<1>1. proc' = [proc EXCEPT ![r] = P]
  BY ProcessType DEF Write, SyncInv, SyncTypeOK, Process
<1>2. P \in Process
  BY <1>0, ProcessType DEF Process
<1>3. proc'[r] = P /\ Active' = Active
  BY <1>1 DEF SyncInv, SyncTypeOK, Active
<1>4. /\ P.pc = proc[r].pc /\ P.raced = proc[r].raced /\ P.release = proc[r].release
      /\ P.writes = [proc[r].writes EXCEPT ![x] = s]
      /\ P.todo = proc[r].todo \ {x} /\ P.doing = NoRoute
  BY ProcessType DEF Process
<1>5. Marked(r, "active")' = {y \in RouteIds : P.writes[y] = "active"}
      /\ Marked(r, "inactive")' = {y \in RouteIds : P.writes[y] = "inactive"}
  BY <1>3 DEF Marked
<1>6. \A y \in RouteIds : P.writes[y] = IF y = x THEN s ELSE proc[r].writes[y]
  BY <1>4, ProcessType
<1> HIDE DEF P
<1>7. CASE proc[r].pc = "deactivate"
  <2>1. Marked(r, "active") = {} /\ (~proc[r].raced => Active \subseteq proc[r].todo \cup Marked(r, "inactive"))
    BY <1>7 DEF SyncInv, TxInv
  <2>2. Marked(r, "active")' = {}
    BY <1>5, <1>6, <1>7, <2>1 DEF Marked
  <2>3. ~proc[r].raced => Active \subseteq P.todo \cup Marked(r, "inactive")'
    BY <1>4, <1>5, <1>6, <1>7, <2>1 DEF Marked, Active
  <2>4. TxInv(r)'
    BY <1>3, <1>4, <1>7, <2>2, <2>3 DEF TxInv
  <2> QED
    BY <1>1, <1>2, <1>4, <1>7, <2>4, OneProcess DEF SyncInv, SyncTypeOK
<1>8. CASE proc[r].pc = "upsert"
  <2>1. /\ proc[r].todo \subseteq proc[r].release
        /\ Marked(r, "active") = proc[r].release \ proc[r].todo
        /\ ~proc[r].raced => Active \subseteq Marked(r, "active") \cup Marked(r, "inactive")
    BY <1>8 DEF SyncInv, TxInv
  <2>2. Marked(r, "active")' = P.release \ P.todo
    BY <1>0, <1>4, <1>5, <1>6, <1>8, <2>1, ProcessType DEF Marked
  <2>3. ~proc[r].raced => Active \subseteq Marked(r, "active")' \cup Marked(r, "inactive")'
    BY <1>5, <1>6, <1>8, <2>1 DEF Marked, Active
  <2>4. TxInv(r)'
    BY <1>3, <1>4, <1>8, <2>1, <2>2, <2>3 DEF TxInv
  <2> QED
    BY <1>1, <1>2, <1>4, <1>8, <2>4, OneProcess DEF SyncInv, SyncTypeOK
<1> QED
  BY <1>7, <1>8

LEMMA SyncCommit ==
    ASSUME SyncInv, NEW r \in Nodes, CommitSync(r)
    PROVE  SyncInv'
<1>1. PICK pc \in {"up", "down"} :
        /\ pc = "down" => failures < MaxFailures
        /\ failures' = failures + IF pc = "down" THEN 1 ELSE 0
        /\ proc' = [q \in Nodes |->
                      IF q = r THEN Idle(pc, proc[r].release)
                      ELSE [proc[q] EXCEPT !.raced = @ \/ proc[q].pc \in {"deactivate", "upsert"}]]
  BY DEF CommitSync
<1>2. proc'[r] = Idle(pc, proc[r].release)
  BY <1>1
<1>3. ASSUME NEW q \in Nodes \ {r}
      PROVE  /\ proc'[q] \in Process
             /\ proc'[q].raced <=> proc[q].raced \/ proc[q].pc \in {"deactivate", "upsert"}
             /\ proc'[q].pc = proc[q].pc /\ proc'[q].release = proc[q].release
             /\ proc'[q].todo = proc[q].todo /\ proc'[q].doing = proc[q].doing
             /\ proc'[q].writes = proc[q].writes
             /\ proc[q].pc \notin {"deactivate", "upsert"} => proc'[q] = proc[q]
  <2> DEFINE b == proc[q].raced \/ proc[q].pc \in {"deactivate", "upsert"}
  <2>1. proc'[q] = [proc[q] EXCEPT !.raced = b]
    BY <1>1
  <2>2. proc[q] \in Process /\ b \in BOOLEAN
    BY ProcessType
  <2>3. proc[q].pc \notin {"deactivate", "upsert"} => b = proc[q].raced
    BY ProcessType
  <2> HIDE DEF b
  <2>4. /\ proc'[q] \in Process /\ proc'[q].raced = b
        /\ proc'[q].pc = proc[q].pc /\ proc'[q].release = proc[q].release
        /\ proc'[q].todo = proc[q].todo /\ proc'[q].doing = proc[q].doing
        /\ proc'[q].writes = proc[q].writes
    BY <2>1, <2>2 DEF Process
  <2>5. b = proc[q].raced => proc'[q] = proc[q]
    BY <2>1, <2>2 DEF Process
  <2> QED
    BY <2>3, <2>4, <2>5 DEF b
<1>4. SyncTypeOK'
  <2>1. Idle(pc, proc[r].release) \in Process
    BY ProcessType DEF Idle, Process, Unwritten, Status
  <2>2. proc' \in [Nodes -> Process]
    BY <1>1, <1>2, <1>3, <2>1
  <2>3. row' \in [RouteIds -> Status]
    BY ProcessType DEF CommitSync, SyncInv, SyncTypeOK
  <2>4. deploys' \in 0..MaxDeploys /\ failures' \in 0..MaxFailures
    BY <1>1, SyncAssumption DEF SyncInv, CommitSync, SyncTypeOK
  <2>5. last' \subseteq RouteIds /\ raced' \in BOOLEAN
    BY ProcessType DEF CommitSync
  <2>6. Running(r)' \/ proc'[r] = Idle(proc'[r].pc, proc'[r].release)
    BY <1>2 DEF Idle
  <2>7. \A q \in Nodes \ {r} : Running(q)' \/ proc'[q] = Idle(proc'[q].pc, proc'[q].release)
    BY <1>3 DEF SyncInv, SyncTypeOK, Running
  <2> QED
    BY <2>2, <2>3, <2>4, <2>5, <2>6, <2>7 DEF SyncTypeOK
<1>5. \A x \in RouteIds : row'[x] = IF proc[r].writes[x] # "none" THEN proc[r].writes[x] ELSE row[x]
  BY DEF CommitSync, HasWritten
<1>6. /\ Marked(r, "active") = proc[r].release
      /\ ~proc[r].raced => Active \subseteq Marked(r, "active") \cup Marked(r, "inactive")
  BY DEF CommitSync, SyncInv, TxInv
<1>7. LastSyncListed'
  BY <1>5, <1>6 DEF CommitSync, LastSyncListed, Active, Marked
<1>8. GoneIsInactive'
  <2>1. ~proc[r].raced => Active' = proc[r].release
    BY <1>5, <1>6 DEF Active, Marked
  <2> QED
    BY <2>1 DEF CommitSync, GoneIsInactive
<1>9. ASSUME NEW q \in Nodes
      PROVE  TxInv(q)'
  <2>1. CASE q = r
    BY <1>2, <2>1 DEF TxInv, Idle
  <2>2. CASE q # r
    <3>1. Marked(q, "active")' = Marked(q, "active") /\ TxInv(q)
      BY <1>3, <2>2 DEF Marked, SyncInv
    <3> QED
      BY <1>3, <2>2, <3>1 DEF TxInv
  <2> QED
    BY <2>1, <2>2
<1> QED
  BY <1>4, <1>7, <1>8, <1>9 DEF SyncInv

\* Giving up the transaction, by an error, a failure or the database.
LEMMA SyncRolledBack ==
    ASSUME SyncInv, NEW r \in Nodes, proc' = RolledBack(r), UNCHANGED <<row, deploys, last, raced>>,
           failures' \in 0..MaxFailures
    PROVE  SyncInv'
<1>1. proc' = [proc EXCEPT ![r] = Idle("down", proc[r].release)]
  BY DEF RolledBack, SyncInv, SyncTypeOK
<1>2. deploys' \in 0..MaxDeploys
  BY DEF SyncInv, SyncTypeOK
<1> QED
  BY <1>1, <1>2, ProcessType, BecomesIdle

LEMMA SyncStep == SyncInv /\ [SyncNext]_syncVars => SyncInv'
<1> SUFFICES ASSUME SyncInv, [SyncNext]_syncVars
             PROVE  SyncInv'
  OBVIOUS
<1>0. deploys \in 0..MaxDeploys /\ failures \in 0..MaxFailures
  BY DEF SyncInv, SyncTypeOK
<1>1. ASSUME NEW r \in Nodes, NEW release \in Releases, Deploy(r, release)
      PROVE  SyncInv'
  <2>1. deploys' \in 0..MaxDeploys /\ failures' \in 0..MaxFailures
    BY <1>0, <1>1, SyncAssumption DEF Deploy
  <2> QED
    BY <1>1, <2>1, BecomesIdle, SyncAssumption DEF Deploy
<1>2. ASSUME NEW r \in Nodes, StartAgain(r)
      PROVE  SyncInv'
  <2>1. proc' = [proc EXCEPT ![r] = Idle("scan", proc[r].release)]
    BY <1>2 DEF StartAgain, SyncInv, SyncTypeOK
  <2> QED
    BY <1>0, <1>2, <2>1, ProcessType, BecomesIdle DEF StartAgain
<1>3. ASSUME NEW r \in Nodes, Fail(r)
      PROVE  SyncInv'
  <2>1. failures' \in 0..MaxFailures
    BY <1>0, <1>3, SyncAssumption DEF Fail
  <2> QED
    BY <1>3, <2>1, SyncRolledBack DEF Fail
<1>4. ASSUME NEW r \in Nodes, DeadlockAbort(r)
      PROVE  SyncInv'
  BY <1>0, <1>4, SyncRolledBack DEF DeadlockAbort
<1>5. ASSUME NEW r \in Nodes, Deactivate(r)
      PROVE  SyncInv'
  <2>1. proc[r].doing \in proc[r].todo
    BY <1>5 DEF Deactivate, SyncInv, TxInv
  <2> QED
    BY <1>5, <2>1, SyncWrite DEF Deactivate, Status
<1>6. ASSUME NEW r \in Nodes, Insert(r)
      PROVE  SyncInv'
  <2>1. proc[r].doing \in proc[r].todo
    BY <1>6 DEF Insert, SyncInv, TxInv
  <2>2. CASE Write(r, proc[r].doing, "active")
    BY <1>6, <2>1, <2>2, SyncWrite DEF Insert, Status
  <2>3. CASE proc' = RolledBack(r)
    BY <1>0, <1>6, <2>3, SyncRolledBack DEF Insert
  <2> QED
    BY <1>6, <2>2, <2>3 DEF Insert
<1>7. ASSUME NEW r \in Nodes, Update(r)
      PROVE  SyncInv'
  <2>1. proc[r].doing \in proc[r].todo
    BY <1>7 DEF Update, SyncInv, TxInv
  <2> QED
    BY <1>7, <2>1, SyncWrite DEF Update, Status
<1>8. CASE UNCHANGED syncVars
  BY <1>8 DEF syncVars, SyncInv, SyncTypeOK, LastSyncListed, GoneIsInactive,
              Active, TxInv, Marked, Running
<1> QED
  BY <1>1, <1>2, <1>3, <1>4, <1>5, <1>6, <1>7, <1>8,
     SyncScan, SyncSelect, SyncWait, SyncDeactivated, SyncCommit DEF SyncNext, SyncRoutes

\* The variables keep to their types, and no transaction outlives SyncRoutes.
THEOREM SyncTypeCorrect == SyncSpec => []SyncTypeOK
<1>1. SyncInv => SyncTypeOK
  BY DEF SyncInv
<1> QED
  BY <1>1, SyncInitInv, SyncStep, PTL DEF SyncSpec

\* Every route of the release synchronised last is listed as active, at any
\* time and for any number of syncs in progress.
THEOREM NothingHalfListed == SyncSpec => []LastSyncListed
<1>1. SyncInv => LastSyncListed
  BY DEF SyncInv
<1> QED
  BY <1>1, SyncInitInv, SyncStep, PTL DEF SyncSpec

\* After a sync that no other one overtook, exactly its routes are active.
THEOREM ExactWithoutRace == SyncSpec => []GoneIsInactive
<1>1. SyncInv => GoneIsInactive
  BY DEF SyncInv
<1> QED
  BY <1>1, SyncInitInv, SyncStep, PTL DEF SyncSpec

=============================================================================
