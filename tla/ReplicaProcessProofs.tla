-------------------------- MODULE ReplicaProcessProofs --------------------------
(***************************************************************************)
(* Mutual exclusion of the scheduled job, for any number of replicas and   *)
(* workers, any lock expiry and any job deadline that is shorter; and the  *)
(* life cycle of the process that runs it.                                 *)
(*                                                                         *)
(* OneAtATime is not inductive: that nobody else works has to be read off  *)
(* the key.  TypeOK and LockOutlivesJob together are, and imply it.        *)
(***************************************************************************)
EXTENDS ReplicaProcess, Sequences, TLAPS

Inv == TypeOK /\ LockOutlivesJob

\* A free key means that nobody works.
LEMMA FreeMeansIdle ==
    ASSUME Inv, key.owner = Nobody
    PROVE  \A q \in Procs : run[q].pc # "working"
BY JobAssumption DEF Inv, LockOutlivesJob

\* The initial state is in the invariant.
LEMMA InitInv == Init => Inv
BY JobAssumption DEF Init, Inv, TypeOK, LockOutlivesJob, Free, Idle, newMutex

\* Taking the key while it is free keeps the invariant: the new holder has
\* the whole expiry before it and at most its deadline to work.
LEMMA TakingKeepsInv ==
    ASSUME Inv, NEW p \in Procs, run[p].pc = "acquire", SetNX(p), At(p, "working"),
           UNCHANGED faults
    PROVE  Inv'
<1>1. \A q \in Procs : run[q].pc # "working"
  BY FreeMeansIdle DEF SetNX
<1>2. TypeOK'
  BY JobAssumption DEF Inv, TypeOK, SetNX, At, newMutex
<1>3. LockOutlivesJob'
  BY <1>1, JobAssumption DEF Inv, TypeOK, LockOutlivesJob, SetNX, At
<1> QED
  BY <1>2, <1>3 DEF Inv

\* Whoever stops without touching the key leaves the invariant to the others.
LEMMA StoppingKeepsInv ==
    ASSUME Inv, NEW p \in Procs, run' = [run EXCEPT ![p] = Idle], UNCHANGED key,
           faults' \in 0..MaxFaults
    PROVE  Inv'
BY JobAssumption DEF Inv, TypeOK, LockOutlivesJob, Idle

\* A failure that is counted stays within the bound.
LEMMA FaultBounded ==
    ASSUME Inv, Fault
    PROVE  faults' \in 0..MaxFaults
BY JobAssumption DEF Inv, TypeOK, Fault

\* Every step keeps the invariant.
LEMMA StepInv == Inv /\ [Next]_vars => Inv'
<1> SUFFICES ASSUME Inv, [Next]_vars
             PROVE  Inv'
  OBVIOUS
<1> USE JobAssumption
<1>1. CASE Tick
  <2>1. \A p \in Procs : run'[p].pc = run[p].pc /\ run'[p].left = Shorter(run[p].left)
    BY <1>1 DEF Tick, Inv, TypeOK
  <2>2. TypeOK'
    BY <1>1 DEF Tick, Inv, TypeOK, Expire, Shorter, Free
  <2>3. LockOutlivesJob'
    <3> SUFFICES ASSUME NEW p \in Procs, run'[p].pc = "working"
                 PROVE  key'.owner = p /\ run'[p].left < key'.ttl
      BY DEF LockOutlivesJob
    <3>1. run[p].left > 0 /\ run[p].left < key.ttl /\ key.owner = p
      BY <1>1, <2>1 DEF Tick, Inv, LockOutlivesJob
    <3>2. key' = [key EXCEPT !.ttl = @ - 1]
      BY <1>1, <3>1 DEF Tick, Expire, Inv, TypeOK
    <3> QED
      BY <2>1, <3>1, <3>2 DEF Inv, TypeOK, Shorter
  <2> QED
    BY <2>2, <2>3 DEF Inv
<1>2. ASSUME NEW p \in Procs, Trigger(p)
      PROVE  Inv'
  BY <1>2 DEF Trigger, Inv, TypeOK, LockOutlivesJob
<1>3. ASSUME NEW p \in Procs, TryLock(p) \/ Lock(p)
      PROVE  Inv'
  BY <1>3, TakingKeepsInv DEF TryLock, Lock
<1>4. ASSUME NEW p \in Procs, Skip(p) \/ LockGivesUp(p)
      PROVE  Inv'
  <2>1. faults' \in 0..MaxFaults
    BY <1>4 DEF Skip, LockGivesUp, Inv, TypeOK
  <2> QED
    BY <1>4, <2>1, StoppingKeepsInv DEF Skip, LockGivesUp
<1>5. ASSUME NEW p \in Procs, Finish(p)
      PROVE  Inv'
  BY <1>5 DEF Finish, At, Inv, TypeOK, LockOutlivesJob
<1>6. ASSUME NEW p \in Procs, Unlock(p)
      PROVE  Inv'
  <2>1. TypeOK'
    BY <1>6 DEF Unlock, Inv, TypeOK, Free, Idle
  <2>2. LockOutlivesJob'
    BY <1>6 DEF Unlock, Inv, TypeOK, LockOutlivesJob, Free, Idle
  <2> QED
    BY <2>1, <2>2 DEF Inv
<1>7. ASSUME NEW p \in Procs, Extend(p)
      PROVE  Inv'
  <2>1. TypeOK'
    BY <1>7 DEF Extend, At, Inv, TypeOK, newMutex
  <2>2. LockOutlivesJob'
    BY <1>7 DEF Extend, At, Inv, TypeOK, LockOutlivesJob
  <2> QED
    BY <2>1, <2>2 DEF Inv
<1>8. ASSUME NEW p \in Procs, TryLockFails(p)
      PROVE  Inv'
  <2>1. faults' \in 0..MaxFaults
    BY <1>8, FaultBounded DEF TryLockFails
  <2>2. CASE UNCHANGED key
    BY <1>8, <2>1, <2>2, StoppingKeepsInv DEF TryLockFails
  <2>3. CASE SetNX(p)
    <3>1. \A q \in Procs : run[q].pc # "working"
      BY <2>3, FreeMeansIdle DEF SetNX
    <3>2. TypeOK'
      BY <1>8, <2>1, <2>3 DEF TryLockFails, SetNX, Inv, TypeOK, Idle, newMutex
    <3>3. LockOutlivesJob'
      BY <1>8, <3>1 DEF TryLockFails, Inv, TypeOK, LockOutlivesJob, Idle
    <3> QED
      BY <3>2, <3>3 DEF Inv
  <2> QED
    BY <1>8, <2>2, <2>3 DEF TryLockFails
<1>9. ASSUME NEW p \in Procs, UnlockFails(p) \/ Crash(p)
      PROVE  Inv'
  <2>1. faults' \in 0..MaxFaults
    BY <1>9, FaultBounded DEF UnlockFails, Crash
  <2> QED
    BY <1>9, <2>1, StoppingKeepsInv DEF UnlockFails, Crash
<1>10. CASE UNCHANGED vars
  BY <1>10 DEF vars, Inv, TypeOK, LockOutlivesJob
<1> QED
  BY <1>1, <1>2, <1>3, <1>4, <1>5, <1>6, <1>7, <1>8, <1>9, <1>10 DEF Next, Step

\* The variables keep to their types: the key has an owner exactly while it
\* has time left.
THEOREM TypeCorrect == Spec => []TypeOK
<1>1. Inv => TypeOK
  BY DEF Inv
<1> QED
  BY <1>1, InitInv, StepInv, PTL DEF Spec

\* A run that works has more time on its Redis key than on its deadline.
THEOREM LockHeld == Spec => []LockOutlivesJob
<1>1. Inv => LockOutlivesJob
  BY DEF Inv
<1> QED
  BY <1>1, InitInv, StepInv, PTL DEF Spec

\* Two runs of the job never overlap, on however many replicas, through lost
\* Redis answers, crashes and late unlocks.
THEOREM MutualExclusion == Spec => []OneAtATime
<1>1. Inv => OneAtATime
  BY DEF Inv, LockOutlivesJob, OneAtATime
<1> QED
  BY <1>1, InitInv, StepInv, PTL DEF Spec

-----------------------------------------------------------------------------
(* The life cycle of the process.                                         *)

Handles == {"database", "bus", "redis", "outbound"}
Listeners == {"scheduler", "grpc", "http"}

\* The place in New of the component a handle, a listener or a worker belongs to.
Place(x) ==
    CASE x = "database" -> 1
      [] x \in {"bus", "consumers"} -> 2
      [] x = "redis" -> 3
      [] x = "decisions" -> 4
      [] x = "outbound" -> 5
      [] x \in {"scheduler", "job"} -> 6
      [] x \in {"grpc", "grpcCall"} -> 7
      [] x \in {"http", "request", "refresher"} -> 8

\* What place each name has.
LEMMA Places ==
    /\ Place("database") = 1 /\ Place("bus") = 2 /\ Place("consumers") = 2
    /\ Place("redis") = 3 /\ Place("decisions") = 4 /\ Place("outbound") = 5
    /\ Place("scheduler") = 6 /\ Place("job") = 6
    /\ Place("grpc") = 7 /\ Place("grpcCall") = 7
    /\ Place("http") = 8 /\ Place("request") = 8 /\ Place("refresher") = 8
BY DEF Place

\* The list of New.
LEMMA Order ==
    /\ Len(App!New) = 8
    /\ App!New[1] = "database" /\ App!New[2] = "events" /\ App!New[3] = "redis"
    /\ App!New[4] = "decisions" /\ App!New[5] = "outbound" /\ App!New[6] = "scheduler"
    /\ App!New[7] = "grpc" /\ App!New[8] = "http"
BY DEF App!New

\* What the component at a place opens, listens on and starts.
LEMMA Tables ==
    ASSUME NEW i \in 1..8
    PROVE  /\ App!Opens(App!New[i]) = {x \in Handles \ {"bus"} : Place(x) = i}
           /\ App!Listens(App!New[i]) = {x \in Listeners : Place(x) = i}
           /\ App!Spawns(App!New[i]) = {x \in {"consumers", "decisions", "refresher"} : Place(x) = i}
           /\ (IF App!New[i] = "events" THEN {"bus"} ELSE {}) = {x \in {"bus"} : Place(x) = i}
           /\ App!New[i] \in {"grpc", "http"} <=> i \in {7, 8}
<1>1. i \in {1, 2, 3, 4, 5, 6, 7, 8}
  OBVIOUS
<1>2. App!Opens(App!New[i]) = {x \in Handles \ {"bus"} : Place(x) = i}
  <2>1. \A c : App!Opens(c) = IF c \in {"database", "redis", "outbound"} THEN {c} ELSE {}
    BY DEF App!Opens
  <2> QED
    BY <1>1, <2>1, Order, Places DEF Handles
<1>3. App!Listens(App!New[i]) = {x \in Listeners : Place(x) = i}
  <2>1. \A c : App!Listens(c) = IF c \in Listeners THEN {c} ELSE {}
    BY DEF App!Listens, Listeners
  <2> QED
    BY <1>1, <2>1, Order, Places DEF Listeners
<1>4. App!Spawns(App!New[i]) = {x \in {"consumers", "decisions", "refresher"} : Place(x) = i}
  BY <1>1, Order, Places DEF App!Spawns
<1>5. (IF App!New[i] = "events" THEN {"bus"} ELSE {}) = {x \in {"bus"} : Place(x) = i}
  BY <1>1, Order, Places
<1>6. App!New[i] \in {"grpc", "http"} <=> i \in {7, 8}
  BY <1>1, Order
<1> QED
  BY <1>2, <1>3, <1>4, <1>5, <1>6

\* Everything but the bus is opened by a constructor.
Constructed == Handles \ {"bus"}

\* Before a process exits: how far construction, start and stop have come
\* tells what is open, who listens and who is alive.
Placed ==
    /\ \A x \in Handles : Place(x) <= started => x \in open
    /\ \A c \in listening : Place(c) <= started /\ (halting => Place(c) < started)
    /\ \A w \in alive \ {"refresher"} : Place(w) <= started
    /\ "refresher" \in alive => started = 8 \/ "refresher" \in told \/ outcome = "failed"

\* What is special about each phase.
Phases ==
    /\ phase = "construct" =>
         started = 0 /\ outcome = "ok" /\ {x \in Constructed : Place(x) <= built} \subseteq open
    /\ phase \in {"start", "run"} => outcome = "ok" /\ Constructed \subseteq open
    /\ phase = "run" => started = 8
    /\ phase \in {"start", "run", "stop"} => built = 8
    /\ phase \in {"construct", "start", "run"} => ~halting
    /\ phase = "stop" /\ outcome = "ok" => \A x \in open : Place(x) <= started
    /\ phase = "stop" /\ halting /\ started = 8 => "refresher" \in told

BeforeExit ==
    /\ App!TypeOK
    /\ built > 0 => migrated
    /\ started > 6 => loaded
    /\ phase # "exit" /\ Placed /\ Phases

LifeInv ==
    /\ App!TypeOK
    /\ built > 0 => migrated
    /\ started > 6 => loaded
    /\ phase # "exit" => Placed /\ Phases
    /\ App!ServesWhenReady /\ App!NoUseAfterClose /\ App!CleanExit

\* What each worker uses, and what comes in through each listener.
LEMMA WhatWorkersUse ==
    /\ App!Uses("consumers") = {"database", "bus"}
    /\ App!Uses("decisions") = {"database", "redis"}
    /\ App!Uses("refresher") = {"database", "redis"}
    /\ App!Uses("job") = {"redis"}
    /\ App!Uses("grpcCall") = Handles
    /\ App!Uses("request") = Handles
    /\ App!Work("grpc") = "grpcCall" /\ App!Work("http") = "request"
    /\ App!Work("scheduler") = "job"
BY DEF App!Uses, App!Work, Handles

\* In every phase before the exit the placement implies what is promised.
LEMMA PlacedIsSafe ==
    BeforeExit => LifeInv
<1> SUFFICES ASSUME BeforeExit
             PROVE  LifeInv
  OBVIOUS
<1>0. /\ App!TypeOK /\ (built > 0 => migrated) /\ (started > 6 => loaded)
      /\ phase # "exit" /\ Placed /\ Phases
  BY DEF BeforeExit
<1>1. App!ServesWhenReady
  <2> SUFFICES ASSUME NEW c \in listening, c \in {"grpc", "http"}
               PROVE  migrated /\ loaded /\ Handles \subseteq open
    BY <1>0, WhatWorkersUse DEF App!ServesWhenReady
  <2>1. started >= 7 /\ started \in 0..8 /\ started <= built
    BY <1>0, Places, Order DEF Placed, App!TypeOK
  <2>2. Handles \subseteq open
    BY <1>0, <2>1, Places DEF Placed, Handles
  <2>3. built > 0 /\ started > 6
    BY <2>1, <1>0, Order DEF App!TypeOK
  <2> QED
    BY <1>0, <2>2, <2>3, Zenon
<1>2. App!NoUseAfterClose
  <2> SUFFICES ASSUME NEW w \in alive
               PROVE  \/ App!Uses(w) \subseteq open
                      \/ w = "refresher" /\ (w \in told \/ outcome = "failed")
    BY DEF App!NoUseAfterClose
  <2>1. w \in {"consumers", "decisions", "refresher", "grpcCall", "request", "job"}
    BY <1>0 DEF App!TypeOK, App!Goroutines
  <2>2. started \in 0..8
    BY <1>0, Order DEF App!TypeOK
  <2>3. CASE w = "refresher"
    BY <1>0, <2>2, <2>3, WhatWorkersUse, Places DEF Placed, Handles
  <2>4. CASE w # "refresher"
    <3>1. Place(w) <= started
      BY <1>0, <2>4 DEF Placed
    <3> QED
      BY <1>0, <2>1, <2>2, <2>4, <3>1, WhatWorkersUse, Places DEF Placed, Handles
  <2> QED
    BY <2>3, <2>4
<1>3. App!CleanExit
  BY <1>0 DEF App!CleanExit
<1> QED
  BY <1>0, <1>1, <1>2, <1>3 DEF LifeInv

\* The same in the next state.
LEMMA NextPlacedIsSafe == BeforeExit' => LifeInv'
BY PlacedIsSafe, PTL

\* A process that has done nothing yet is in the invariant.
LEMMA InitLife == App!Init => LifeInv
<1> SUFFICES ASSUME App!Init
             PROVE  LifeInv
  OBVIOUS
<1>1. App!TypeOK
  <2>1. {migrated, halting, loaded} \subseteq BOOLEAN
    BY DEF App!Init
  <2> QED
    BY <2>1, Order DEF App!Init, App!TypeOK
<1>2. Placed /\ Phases
  BY Places DEF App!Init, Placed, Phases, Handles, Constructed
<1> QED
  BY <1>1, <1>2, PlacedIsSafe DEF App!Init, BeforeExit

\* Construction.
LEMMA ConstructLife ==
    ASSUME LifeInv, phase # "exit", App!Migrate \/ App!Construct
    PROVE  LifeInv'
<1>1. built \in 0..8 /\ started = 0 /\ Placed /\ Phases /\ App!TypeOK
  BY Order DEF LifeInv, Phases, App!TypeOK, App!Migrate, App!Construct
<1>2. CASE App!Migrate
  <2>1. App!TypeOK'
    BY <1>1, <1>2 DEF App!Migrate, App!TypeOK
  <2>2. Placed' /\ Phases'
    BY <1>1, <1>2 DEF App!Migrate, Placed, Phases
  <2> QED
    BY <1>1, <1>2, <2>1, <2>2, NextPlacedIsSafe DEF App!Migrate, LifeInv, BeforeExit
<1>3. CASE App!Construct
  <2>1. App!Opens(App!New[built + 1]) = {x \in Constructed : Place(x) = built + 1}
    BY <1>1, <1>3, Order, Tables DEF App!Construct, Constructed
  <2>2. open' = open \cup {x \in Constructed : Place(x) = built + 1}
    BY <1>3, <2>1 DEF App!Construct
  <2>3. App!TypeOK'
    <3>1. {migrated, halting, loaded}' \subseteq BOOLEAN
      BY <1>1, <1>3 DEF App!Construct, App!TypeOK
    <3>2. open' \subseteq {"database", "redis", "outbound", "bus"}
      BY <1>1, <2>2 DEF App!TypeOK, Constructed, Handles
    <3> QED
      BY <1>1, <1>3, <3>1, <3>2, Order DEF App!Construct, App!TypeOK
  <2>4. \A x \in Constructed : Place(x) \in 1..8
    BY Places DEF Constructed, Handles
  <2>5. Placed'
    BY <1>1, <1>3, <2>2 DEF App!Construct, Placed
  <2>6. Phases'
    BY <1>1, <1>3, <2>2, <2>4, Order DEF App!Construct, Phases
  <2> QED
    BY <1>1, <1>3, <2>3, <2>5, <2>6, NextPlacedIsSafe DEF App!Construct, LifeInv, BeforeExit
<1> QED
  BY <1>2, <1>3

\* A start hook.
LEMMA StartLife ==
    ASSUME LifeInv, phase # "exit", App!OnStart
    PROVE  LifeInv'
<1>1. /\ started \in 0..7 /\ built = 8 /\ outcome = "ok" /\ ~halting /\ migrated
      /\ Placed /\ Phases /\ App!TypeOK /\ Constructed \subseteq open
  BY Order DEF LifeInv, Phases, App!TypeOK, App!OnStart
<1> DEFINE i == started + 1
<1>2. i \in 1..8
  BY <1>1
<1>3. open' = open \cup {x \in {"bus"} : Place(x) = i}
  BY <1>2, Tables DEF App!OnStart
<1>4. listening' = listening \cup {x \in Listeners : Place(x) = i}
  BY <1>2, Tables DEF App!OnStart
<1>5. alive' = alive \cup {x \in {"consumers", "decisions", "refresher"} : Place(x) = i}
  BY <1>2, Tables DEF App!OnStart
<1>6. loaded' = (loaded \/ i \in {7, 8})
  BY <1>2, Tables DEF App!OnStart, App!Loads
<1>7. started' = i /\ phase' \in {"start", "run"} /\ (phase' = "run" <=> i = 8)
  BY <1>1, Order DEF App!OnStart
<1>8. UNCHANGED <<migrated, built, halting, told, outcome>>
  BY DEF App!OnStart
<1> HIDE DEF i
<1>9. App!TypeOK'
  <2>1. {migrated, halting, loaded}' \subseteq BOOLEAN
    BY <1>1, <1>6, <1>8 DEF App!TypeOK
  <2>2. open' \subseteq Handles /\ listening' \subseteq Listeners
    BY <1>1, <1>3, <1>4 DEF App!TypeOK, Handles, Listeners
  <2>3. alive' \subseteq App!Goroutines
    BY <1>1, <1>5 DEF App!TypeOK, App!Goroutines
  <2> QED
    BY <1>1, <1>2, <1>7, <1>8, <2>1, <2>2, <2>3, Order DEF App!TypeOK, Handles, Listeners
<1>11. (built > 0 => migrated)' /\ (started > 6 => loaded)'
  <2>1. started' > 6 => i \in {7, 8}
    BY <1>2, <1>7
  <2> QED
    BY <1>1, <1>6, <1>8, <2>1, Zenon
<1>12. Placed'
  <2>1. \A x \in Handles : Place(x) <= started' => x \in open'
    BY <1>1, <1>2, <1>3, <1>7, Places DEF Constructed, Handles, Placed, i
  <2>2. \A c \in listening' : Place(c) <= started' /\ (halting' => Place(c) < started')
    BY <1>1, <1>2, <1>4, <1>7, <1>8, Places DEF Placed, i, Listeners, App!TypeOK
  <2>3. \A w \in alive' \ {"refresher"} : Place(w) <= started'
    BY <1>1, <1>2, <1>5, <1>7, Places DEF Placed, i, App!TypeOK, App!Goroutines
  <2>4. "refresher" \in alive' => started' = 8 \/ "refresher" \in told' \/ outcome' = "failed"
    BY <1>1, <1>5, <1>7, <1>8, Places DEF Placed, i
  <2> QED
    BY <2>1, <2>2, <2>3, <2>4 DEF Placed
<1>13. Phases'
  BY <1>1, <1>2, <1>3, <1>7, <1>8 DEF Phases
<1> QED
  BY <1>7, <1>9, <1>11, <1>12, <1>13, NextPlacedIsSafe DEF BeforeExit

\* A start hook that fails, and the signal: the stop begins.
LEMMA StopBegins ==
    ASSUME LifeInv, phase # "exit", App!OnStartFails \/ App!Signal
    PROVE  LifeInv'
<1>1. /\ started \in 0..8 /\ built = 8 /\ ~halting /\ migrated
      /\ Placed /\ Phases /\ App!TypeOK /\ (started > 6 => loaded)
  BY Order DEF LifeInv, Phases, App!TypeOK, App!OnStartFails, App!Signal
<1>2. /\ UNCHANGED <<migrated, built, started, halting, open, loaded, listening, told>>
      /\ phase' = "stop"
  BY DEF App!OnStartFails, App!Signal
<1>3. CASE App!OnStartFails
  <2>1. outcome' = "failed"
    BY <1>3 DEF App!OnStartFails
  <2>2. alive' \in {alive, alive \cup {"refresher"}}
    <3>1. CASE UNCHANGED alive
      BY <3>1
    <3>2. CASE alive' = alive \cup App!Spawns("http")
      BY <3>2 DEF App!Spawns
    <3> QED
      BY <1>3, <3>1, <3>2 DEF App!OnStartFails
  <2>3. App!TypeOK'
    BY <1>1, <1>2, <2>1, <2>2 DEF App!TypeOK, App!Goroutines
  <2>4. Placed' /\ Phases'
    BY <1>1, <1>2, <2>1, <2>2 DEF Placed, Phases
  <2> QED
    BY <1>1, <1>2, <2>3, <2>4, NextPlacedIsSafe DEF BeforeExit
<1>4. CASE App!Signal
  <2>1. UNCHANGED <<alive, outcome>> /\ started = 8
    BY <1>1, <1>4 DEF App!Signal, Phases
  <2>2. App!TypeOK'
    BY <1>1, <1>2, <2>1 DEF App!TypeOK
  <2>3. \A x \in open : Place(x) <= 8
    BY <1>1, Places DEF App!TypeOK
  <2>4. Placed' /\ Phases'
    BY <1>1, <1>2, <2>1, <2>3 DEF Placed, Phases
  <2> QED
    BY <1>1, <1>2, <2>2, <2>4, NextPlacedIsSafe DEF BeforeExit
<1> QED
  BY <1>3, <1>4

\* A stop hook begins: its listener closes and its goroutines are cancelled.
LEMMA StoppingLife ==
    ASSUME LifeInv, phase # "exit", App!OnStop
    PROVE  LifeInv'
<1>1. /\ started \in 1..8 /\ Placed /\ Phases /\ App!TypeOK
      /\ (built > 0 => migrated) /\ (started > 6 => loaded)
  BY Order DEF LifeInv, App!TypeOK, App!OnStop
<1>2. listening' = listening \ {x \in Listeners : Place(x) = started}
  BY <1>1, Tables DEF App!OnStop, App!Last
<1>3. told' = told \cup {x \in {"consumers", "decisions", "refresher"} : Place(x) = started}
  BY <1>1, Tables DEF App!OnStop, App!Last, App!Told
<1>4. /\ UNCHANGED <<phase, migrated, built, started, open, loaded, alive, outcome>>
      /\ halting' = TRUE /\ phase = "stop"
  BY DEF App!OnStop
<1>5. App!TypeOK'
  <2>1. told' \subseteq App!Goroutines
    BY <1>1, <1>3 DEF App!TypeOK, App!Goroutines
  <2>2. {migrated, halting, loaded}' \subseteq BOOLEAN
    BY <1>1, <1>4 DEF App!TypeOK
  <2>3. listening' \subseteq {"grpc", "http", "scheduler"}
    BY <1>1, <1>2 DEF App!TypeOK
  <2> QED
    BY <1>1, <1>4, <2>1, <2>2, <2>3 DEF App!TypeOK
<1>6. Placed'
  <2>1. \A c \in listening' : Place(c) < started
    <3> SUFFICES ASSUME NEW c \in listening'
                 PROVE  Place(c) < started
      OBVIOUS
    <3>1. Place(c) <= started /\ Place(c) # started /\ Place(c) \in Nat
      BY <1>1, <1>2, Places DEF Placed, Listeners, App!TypeOK
    <3> QED
      BY <1>1, <3>1
  <2>2. \A c \in listening' : Place(c) <= started
    BY <1>1, <1>2 DEF Placed
  <2> QED
    BY <1>1, <1>3, <1>4, <2>1, <2>2 DEF Placed
<1>7. Phases'
  BY <1>1, <1>3, <1>4, Places DEF Phases
<1> QED
  BY <1>1, <1>4, <1>5, <1>6, <1>7, NextPlacedIsSafe DEF BeforeExit

\* What a stop hook that returns has waited for.
LEMMA DrainedWorkers ==
    ASSUME LifeInv, started \in 1..8, App!Drained(App!New[started]),
           NEW w \in alive \ {"refresher"}, Placed
    PROVE  Place(w) < started
<1>1. w \in {"consumers", "decisions", "grpcCall", "request", "job"} /\ Place(w) <= started
  BY DEF LifeInv, App!TypeOK, App!Goroutines, Placed
<1>2. ASSUME Place(w) = started
      PROVE  FALSE
  <2>1. CASE w \in {"consumers", "decisions"}
    <3>1. started \in {2, 4} /\ App!New[started] \in {"events", "decisions"}
      BY <1>2, <2>1, Order, Places
    <3>2. w \in App!Spawns(App!New[started])
      BY <1>2, <2>1, Tables
    <3> QED
      BY <3>1, <3>2 DEF App!Drained
  <2>2. CASE w \in {"grpcCall", "request", "job"}
    <3>1. App!New[started] \in Listeners /\ w = App!Work(App!New[started])
      BY <1>2, <2>2, Order, Places, WhatWorkersUse DEF Listeners
    <3>2. App!Listens(App!New[started]) # {}
      BY <3>1 DEF App!Listens, Listeners
    <3> QED
      BY <3>1, <3>2 DEF App!Drained
  <2> QED
    BY <1>1, <2>1, <2>2
<1> QED
  BY <1>1, <1>2, Places

\* A stop hook returns: its handles close.
LEMMA StoppedLife ==
    ASSUME LifeInv, phase # "exit", App!Stopped
    PROVE  LifeInv'
<1>1. /\ started \in 1..8 /\ Placed /\ Phases /\ App!TypeOK
      /\ (built > 0 => migrated) /\ (started > 6 => loaded)
  BY Order DEF LifeInv, App!TypeOK, App!Stopped
<1>2. open' = open \ {x \in Handles : Place(x) = started}
  <2>1. App!Opens(App!New[started]) = {x \in Handles \ {"bus"} : Place(x) = started}
    BY <1>1, Tables
  <2>2. (IF App!New[started] = "events" THEN {"bus"} ELSE {}) = {x \in {"bus"} : Place(x) = started}
    BY <1>1, Tables
  <2> QED
    BY <2>1, <2>2 DEF App!Stopped, App!Last, Handles
<1>3. /\ UNCHANGED <<phase, migrated, built, loaded, listening, alive, told, outcome>>
      /\ halting' = FALSE /\ phase = "stop" /\ halting /\ started' = started - 1
  BY DEF App!Stopped
<1>4. \A w \in alive \ {"refresher"} : Place(w) <= started - 1
  <2> SUFFICES ASSUME NEW w \in alive \ {"refresher"}
               PROVE  Place(w) <= started - 1
    OBVIOUS
  <2>1. Place(w) < started
    BY <1>1, DrainedWorkers DEF App!Stopped, App!Last
  <2>2. Place(w) \in Nat
    BY <1>1, Places DEF App!TypeOK, App!Goroutines
  <2> QED
    BY <1>1, <2>1, <2>2
<1>5. App!TypeOK'
  <2>1. {migrated, halting, loaded}' \subseteq BOOLEAN
    BY <1>1, <1>3 DEF App!TypeOK
  <2>2. open' \subseteq {"database", "redis", "outbound", "bus"}
    BY <1>1, <1>2 DEF App!TypeOK
  <2> QED
    BY <1>1, <1>3, <2>1, <2>2, Order DEF App!TypeOK
<1>6. Placed'
  <2>1. \A x \in Handles : Place(x) <= started' => x \in open'
    BY <1>1, <1>2, <1>3, Places DEF Placed, Handles
  <2>2. \A c \in listening' : Place(c) <= started'
    BY <1>1, <1>3, Places DEF Placed, App!TypeOK
  <2>3. "refresher" \in alive' => "refresher" \in told' \/ outcome' = "failed"
    BY <1>1, <1>3 DEF Placed, Phases
  <2> QED
    BY <1>3, <1>4, <2>1, <2>2, <2>3 DEF Placed
<1>7. Phases'
  <2>1. outcome = "ok" => \A x \in open' : Place(x) <= started'
    BY <1>1, <1>2, <1>3, Places DEF Phases, App!TypeOK, Handles
  <2> QED
    BY <1>1, <1>3, <2>1 DEF Phases
<1> QED
  <2>1. started' > 6 => loaded
    BY <1>1, <1>3
  <2> QED
    BY <1>1, <1>3, <1>5, <1>6, <1>7, <2>1, NextPlacedIsSafe DEF BeforeExit

\* Work comes in through a listener, or ends.
LEMMA WorkLife ==
    ASSUME LifeInv, phase # "exit",
           \/ \E c \in Listeners : App!Arrive(c)
           \/ \E w \in App!Goroutines : App!Done(w)
    PROVE  LifeInv'
<1>1. /\ started \in 0..8 /\ Placed /\ Phases /\ App!TypeOK
      /\ (built > 0 => migrated) /\ (started > 6 => loaded)
  BY Order DEF LifeInv, App!TypeOK
<1>2. UNCHANGED <<phase, migrated, built, started, halting, open, loaded, listening, told, outcome>>
  BY DEF App!Arrive, App!Done
<1>3. \A w \in alive' \ alive : w # "refresher" /\ w \in App!Goroutines /\ Place(w) <= started
  <2>1. CASE \E c \in Listeners : App!Arrive(c)
    <3>1. PICK c \in Listeners : App!Arrive(c)
      BY <2>1
    <3>2. alive' = alive \cup {App!Work(c)} /\ Place(c) <= started
      BY <1>1, <3>1 DEF App!Arrive, Placed
    <3>3. /\ Place(App!Work(c)) = Place(c) /\ App!Work(c) # "refresher"
          /\ App!Work(c) \in App!Goroutines
      BY Places, WhatWorkersUse DEF Listeners, App!Goroutines
    <3> QED
      BY <3>2, <3>3
  <2>2. CASE \E w \in App!Goroutines : App!Done(w)
    BY <2>2 DEF App!Done
  <2> QED
    BY <2>1, <2>2
<1>4. App!TypeOK' /\ Placed' /\ Phases'
  BY <1>1, <1>2, <1>3 DEF App!TypeOK, Placed, Phases
<1> QED
  BY <1>1, <1>2, <1>4, NextPlacedIsSafe DEF BeforeExit

\* The process ends: what it promised still holds of what it leaves behind.
LEMMA ExitLife ==
    ASSUME LifeInv, phase # "exit", phase' = "exit",
           UNCHANGED <<migrated, built, started, halting, open, loaded, listening, alive, told>>,
           \/ outcome' \in {"failed", "timeout"} /\ (outcome = "failed" => outcome' = "failed")
           \/ phase = "stop" /\ started = 0 /\ outcome' = outcome
    PROVE  LifeInv'
<1>1. /\ Placed /\ Phases /\ App!TypeOK
  BY DEF LifeInv
<1>2. App!TypeOK'
  BY <1>1 DEF App!TypeOK
<1>3. App!ServesWhenReady'
  BY DEF LifeInv, App!ServesWhenReady, App!Uses
<1>4. App!NoUseAfterClose'
  BY DEF LifeInv, App!NoUseAfterClose, App!Uses
<1>5. App!CleanExit'
  <2> SUFFICES ASSUME outcome' = "ok"
               PROVE  open = {} /\ listening = {} /\ alive \subseteq told
    BY DEF App!CleanExit
  <2>1. phase = "stop" /\ started = 0 /\ outcome = "ok"
    OBVIOUS
  <2>2. /\ \A x \in open : Place(x) \in 1..8 /\ Place(x) <= 0
        /\ \A x \in listening : Place(x) \in 1..8 /\ Place(x) <= 0
        /\ \A x \in alive \ {"refresher"} : Place(x) \in 1..8 /\ Place(x) <= 0
    BY <1>1, <2>1, Places DEF App!TypeOK, Placed, Phases, App!Goroutines
  <2>3. "refresher" \in alive => "refresher" \in told
    BY <1>1, <2>1 DEF Placed
  <2> QED
    BY <2>2, <2>3
<1> QED
  BY <1>2, <1>3, <1>4, <1>5 DEF LifeInv

\* Every step of the life cycle.
LEMMA LifeStep ==
    ASSUME LifeInv, phase # "exit", App!Next
    PROVE  LifeInv'
<1>1. CASE App!ConstructFails \/ App!TimedOut \/ App!Exit
  <2>1. outcome \in {"ok", "failed", "timeout"}
    BY DEF LifeInv, App!TypeOK
  <2>2. CASE App!ConstructFails
    BY <2>2, ExitLife DEF App!ConstructFails
  <2>3. CASE App!TimedOut
    BY <2>1, <2>3, ExitLife DEF App!TimedOut
  <2>4. CASE App!Exit
    BY <2>4, ExitLife DEF App!Exit
  <2> QED
    BY <1>1, <2>2, <2>3, <2>4
<1>2. App!Next => \/ App!Migrate \/ App!Construct \/ App!OnStart \/ App!OnStop
                  \/ App!Stopped \/ App!Exit \/ App!ConstructFails \/ App!OnStartFails
                  \/ App!Signal \/ App!TimedOut
                  \/ \E c \in Listeners : App!Arrive(c)
                  \/ \E w \in App!Goroutines : App!Done(w)
  BY DEF App!Next, App!Proceed, Listeners
<1> QED
  BY <1>1, <1>2, ConstructLife, StartLife, StopBegins, StoppingLife, StoppedLife, WorkLife

\* Nothing happens to the life cycle.
LEMMA StillLife == LifeInv /\ UNCHANGED lifeVars => LifeInv'
BY DEF LifeInv, lifeVars, App!TypeOK, Placed, Phases, App!ServesWhenReady,
       App!NoUseAfterClose, App!CleanExit, App!Uses

-----------------------------------------------------------------------------
(* The process: the job is one of the workers, as long as it is alive.     *)

\* cron's view of the job and the lock's view agree, and the lock is given
\* back by whoever ends without a failure.
JobInv ==
    /\ run[Self].pc = "idle" => run[Self] = Idle
    /\ phase # "exit" => ("job" \in alive <=> run[Self].pc # "idle")
    /\ phase = "exit" => run[Self] = Idle
    /\ faults = 0 /\ key.owner = Self =>
         run[Self].pc \in {"working", "unlock"} \/ (phase = "exit" /\ outcome # "ok")

ProcInv == Inv /\ LifeInv /\ JobInv

\* The process and its surroundings begin in the invariant.
LEMMA InitProc == ProcessInit => ProcInv
<1> SUFFICES ASSUME ProcessInit
             PROVE  ProcInv
  OBVIOUS
<1>1. Inv /\ LifeInv
  BY InitInv, InitLife DEF ProcessInit
<1>2. JobInv
  BY JobAssumption, ProcessAssumption
  DEF ProcessInit, Init, App!Init, JobInv, Idle, Free, Procs
<1> QED
  BY <1>1, <1>2 DEF ProcInv

\* The process ends and its job is abandoned.
LEMMA AbandonedProc ==
    ASSUME ProcInv, phase # "exit", phase' = "exit", Abandoned, faults' \in 0..MaxFaults,
           LifeInv', outcome' = "ok" => "job" \notin alive /\ UNCHANGED faults
    PROVE  ProcInv'
<1>1. Self \in Procs
  BY ProcessAssumption DEF Procs
<1>2. Inv'
  BY <1>1, StoppingKeepsInv DEF Abandoned, ProcInv
<1>3. run'[Self] = Idle /\ UNCHANGED key
  BY <1>1 DEF Abandoned, ProcInv, Inv, TypeOK
<1>4. JobInv'
  BY <1>3 DEF JobInv, ProcInv, Idle
<1> QED
  BY <1>2, <1>4 DEF ProcInv

\* A step of the life cycle that is not the job's.
LEMMA LifecycleProc ==
    ASSUME ProcInv, phase # "exit", App!Next,
           IF phase' = "exit" THEN Abandoned /\ UNCHANGED faults ELSE UNCHANGED vars,
           "job" \in alive' <=> "job" \in alive,
           phase' = "exit" /\ outcome' = "ok" => App!Exit
    PROVE  ProcInv'
<1>1. LifeInv'
  BY LifeStep DEF ProcInv
<1>2. CASE phase' = "exit"
  <2>1. outcome' = "ok" => "job" \notin alive
    BY <1>2, Places DEF App!Exit, ProcInv, LifeInv, Placed
  <2>2. faults' \in 0..MaxFaults /\ Abandoned /\ UNCHANGED faults
    BY <1>2 DEF ProcInv, Inv, TypeOK
  <2> QED
    BY <1>1, <1>2, <2>1, <2>2, AbandonedProc
<1>3. CASE phase' # "exit"
  <2>1. UNCHANGED vars
    BY <1>3
  <2>2. Inv'
    BY <2>1, StepInv DEF ProcInv
  <2>3. JobInv'
    BY <1>3, <2>1 DEF JobInv, ProcInv, vars
  <2> QED
    BY <1>1, <2>2, <2>3 DEF ProcInv
<1> QED
  BY <1>2, <1>3

\* Construction, hooks, arrivals and returns that are not the job's.
LEMMA LifecycleSteps ==
    ASSUME ProcInv,
           Proceed \/ Fails \/ Signal \/ Arrive \/ (\E w \in Others : Done(w))
    PROVE  ProcInv'
<1>1. /\ phase # "exit"
      /\ IF phase' = "exit" THEN Abandoned /\ UNCHANGED faults ELSE UNCHANGED vars
  BY DEF Proceed, Fails, Signal, Arrive, Done, Lifecycle, Live
<1>2. started \in 0..8 /\ outcome \in {"ok", "failed", "timeout"}
  BY Order DEF ProcInv, LifeInv, App!TypeOK
<1>3. CASE Proceed
  <2>1. App!Proceed /\ App!Next
    BY <1>3 DEF Proceed, Lifecycle, App!Next
  <2>2. "job" \in alive' <=> "job" \in alive
    BY <2>1, <1>2, Order, Tables DEF App!Proceed, App!Migrate, App!Construct, App!OnStart,
                                App!OnStop, App!Stopped, App!Exit
  <2>3. phase' = "exit" => App!Exit
    BY <1>1, <2>1, Order DEF App!Proceed, App!Migrate, App!Construct, App!OnStart,
                                App!OnStop, App!Stopped
  <2> QED
    BY <1>1, <2>1, <2>2, <2>3, LifecycleProc
<1>4. CASE Fails
  <2>1. (App!ConstructFails \/ App!OnStartFails \/ App!TimedOut) /\ App!Next
    BY <1>4 DEF Fails, Lifecycle, App!Next
  <2>2. outcome' # "ok"
    BY <1>2, <2>1 DEF App!ConstructFails, App!OnStartFails, App!TimedOut
  <2>3. "job" \in alive' <=> "job" \in alive
    <3>1. "job" \notin App!Spawns("http")
      BY DEF App!Spawns
    <3> QED
      BY <2>1, <3>1 DEF App!ConstructFails, App!OnStartFails, App!TimedOut
  <2> QED
    BY <1>1, <2>1, <2>2, <2>3, LifecycleProc
<1>5. CASE Signal
  <2>1. App!Signal /\ App!Next
    BY <1>5 DEF Signal, Lifecycle, App!Next
  <2> QED
    BY <1>1, <2>1, LifecycleProc DEF App!Signal
<1>6. CASE Arrive
  <2>1. PICK c \in {"grpc", "http"} : App!Arrive(c)
    BY <1>6 DEF Arrive, Lifecycle
  <2>2. App!Next /\ App!Work(c) # "job"
    BY <2>1 DEF App!Next, App!Work
  <2> QED
    BY <1>1, <2>1, <2>2, LifecycleProc DEF App!Arrive
<1>7. CASE \E w \in Others : Done(w)
  <2>1. PICK w \in Others : App!Done(w)
    BY <1>7 DEF Done, Lifecycle
  <2>2. App!Next /\ w # "job"
    BY <2>1 DEF App!Next, Others
  <2> QED
    BY <1>1, <2>1, <2>2, LifecycleProc DEF App!Done
<1> QED
  BY <1>3, <1>4, <1>5, <1>6, <1>7

\* The process is killed.
LEMMA DieProc ==
    ASSUME ProcInv, Die
    PROVE  ProcInv'
<1>1. LifeInv'
  BY ExitLife DEF Die, Live, ProcInv
<1>2. faults' \in 0..MaxFaults
  BY FaultBounded DEF Die, ProcInv
<1> QED
  BY <1>1, <1>2, AbandonedProc DEF Die, Live

\* cron fires: the job is a worker from now on.
LEMMA CronFiresProc ==
    ASSUME ProcInv, CronFires
    PROVE  ProcInv'
<1>1. phase # "exit" /\ App!Arrive("scheduler") /\ Trigger(Self) /\ Self \in Procs
  BY ProcessAssumption DEF CronFires, Live, Procs
<1>2. LifeInv'
  BY <1>1, WorkLife DEF ProcInv, Listeners
<1>3. Inv'
  BY <1>1, StepInv DEF ProcInv, Next
<1>4. JobInv'
  BY <1>1, WhatWorkersUse DEF ProcInv, JobInv, Trigger, App!Arrive, Idle, Inv, TypeOK
<1> QED
  BY <1>2, <1>3, <1>4 DEF ProcInv

\* A step of the job.
LEMMA JobProc ==
    ASSUME ProcInv, RunSample \/ RunSampleFails
    PROVE  ProcInv'
<1>1. /\ phase # "exit" /\ Self \in Procs
      /\ Step(Self) \/ TryLockFails(Self) \/ UnlockFails(Self)
      /\ IF run'[Self] = Idle THEN App!Done("job") ELSE UNCHANGED lifeVars
  BY ProcessAssumption DEF RunSample, RunSampleFails, JobStep, Live, Procs
<1>2. LifeInv'
  BY <1>1, WorkLife, StillLife DEF ProcInv, App!Goroutines
<1>3. Inv'
  BY <1>1, StepInv DEF ProcInv, Next
<1>4. UNCHANGED <<phase, outcome>>
  BY <1>1 DEF App!Done, lifeVars
<1>5. run[Self].pc # "idle" /\ (run'[Self].pc = "idle" <=> run'[Self] = Idle)
  BY <1>1 DEF ProcInv, Inv, TypeOK, Step, TryLock, Skip, Lock, LockGivesUp, Finish,
              Unlock, TryLockFails, UnlockFails, At, Idle
<1>6. "job" \in alive' <=> run'[Self].pc # "idle"
  BY <1>1, <1>5 DEF App!Done, lifeVars, ProcInv, JobInv
<1>7. faults' = 0 /\ key'.owner = Self => run'[Self].pc \in {"working", "unlock"}
  BY <1>1, JobAssumption, ProcessAssumption
  DEF ProcInv, JobInv, Inv, TypeOK, Step, TryLock, Skip, Lock, LockGivesUp, Finish,
      Unlock, TryLockFails, UnlockFails, At, Idle, SetNX, Fault, Free, Procs
<1> QED
  BY <1>1, <1>2, <1>3, <1>4, <1>5, <1>6, <1>7 DEF ProcInv, JobInv

\* The others go on, and time passes.
LEMMA ElsewhereProc ==
    ASSUME ProcInv, (\E p \in Procs \ {Self} : Elsewhere(p)) \/ TimePasses
    PROVE  ProcInv'
<1>1. UNCHANGED lifeVars /\ Self \in Procs
  BY ProcessAssumption DEF Elsewhere, TimePasses, Procs
<1>2. LifeInv'
  BY <1>1, StillLife DEF ProcInv
<1>3. CASE TimePasses
  <2>1. Inv'
    BY <1>3, StepInv DEF ProcInv, Next, TimePasses
  <2>2. /\ run'[Self] = [run[Self] EXCEPT !.left = Shorter(@)]
        /\ run[Self] = Idle => run'[Self] = Idle
    BY <1>1, <1>3 DEF TimePasses, Tick, Idle, Shorter
  <2>3. key'.owner \in {key.owner, Nobody} /\ UNCHANGED faults
    BY <1>3 DEF TimePasses, Tick, Expire, Free, ProcInv, Inv, TypeOK
  <2>4. run'[Self].pc = run[Self].pc
    BY <1>1, <2>2 DEF ProcInv, Inv, TypeOK
  <2>5. JobInv'
    BY <1>1, <2>2, <2>3, <2>4, JobAssumption DEF JobInv, ProcInv, lifeVars
  <2> QED
    BY <1>2, <2>1, <2>5 DEF ProcInv
<1>4. CASE \E p \in Procs \ {Self} : Elsewhere(p)
  <2>1. PICK p \in Procs \ {Self} : Elsewhere(p)
    BY <1>4
  <2>2. Inv'
    BY <2>1, StepInv DEF ProcInv, Next, Elsewhere
  <2>3. run'[Self] = run[Self]
    BY <1>1, <2>1 DEF ProcInv, Inv, TypeOK, Elsewhere, Step, Trigger, TryLock, Skip, Lock,
       LockGivesUp, Finish, Unlock, TryLockFails, UnlockFails, Extend, Crash, At
  <2>4. faults' = 0 => faults = 0
    BY <2>1 DEF ProcInv, Inv, TypeOK, Elsewhere, Step, Trigger, TryLock, Skip, Lock,
       LockGivesUp, Finish, Unlock, TryLockFails, UnlockFails, Extend, Crash, Fault
  <2>5. key'.owner = Self => key.owner = Self
    BY <1>1, <2>1, JobAssumption
    DEF ProcInv, Inv, TypeOK, Elsewhere, Step, Trigger, TryLock, Skip, Lock, LockGivesUp,
        Finish, Unlock, TryLockFails, UnlockFails, Extend, Crash, SetNX, Free
  <2>6. JobInv'
    BY <1>1, <2>3, <2>4, <2>5 DEF JobInv, ProcInv, lifeVars
  <2> QED
    BY <1>2, <2>2, <2>6 DEF ProcInv
<1> QED
  BY <1>3, <1>4

\* Every step of the process, its surroundings included.
LEMMA ProcStep == ProcInv /\ [ProcessNext]_allVars => ProcInv'
<1> SUFFICES ASSUME ProcInv, [ProcessNext]_allVars
             PROVE  ProcInv'
  OBVIOUS
<1>1. CASE UNCHANGED allVars
  <2>1. UNCHANGED vars /\ UNCHANGED lifeVars
    BY <1>1 DEF allVars
  <2>2. Inv' /\ LifeInv'
    BY <2>1, StepInv, StillLife DEF ProcInv
  <2>3. JobInv'
    BY <2>1 DEF JobInv, ProcInv, vars, lifeVars
  <2> QED
    BY <2>2, <2>3 DEF ProcInv
<1> QED
  BY <1>1, LifecycleSteps, DieProc, CronFiresProc, JobProc, ElsewhereProc DEF ProcessNext

\* ProcInv holds in every state the process reaches.
THEOREM ProcessInvariant == ProcessSpec => []ProcInv
BY InitProc, ProcStep, PTL DEF ProcessSpec

\* Two runs of the job never overlap, also when one of the replicas starts
\* and stops as app.go has it and takes its job with it wherever it is.
THEOREM MutualExclusionInProcess == ProcessSpec => []OneAtATime
<1>1. ProcInv => OneAtATime
  BY DEF ProcInv, Inv, LockOutlivesJob, OneAtATime
<1> QED
  BY <1>1, ProcessInvariant, PTL

\* NewServer and the stop hooks: no server answers before everything it uses
\* is ready, and nobody uses what a stop or a failed start has closed.
THEOREM LifecycleSafe == ProcessSpec => []LifecycleInvariant
<1>1. ProcInv => LifecycleInvariant
  BY DEF ProcInv, LifeInv, LifecycleInvariant
<1> QED
  BY <1>1, ProcessInvariant, PTL

\* A stop in time leaves nothing open and nobody untold, and the lock of the
\* job is given back wherever the job was.
THEOREM StopsCleanly == ProcessSpec => []CleanExit
<1>1. ProcInv => CleanExit
  <2> SUFFICES ASSUME ProcInv, phase = "exit", outcome = "ok", faults = 0, key.owner = Self
               PROVE  FALSE
    BY DEF ProcInv, LifeInv, CleanExit
  <2> QED
    BY DEF ProcInv, JobInv, Idle
<1> QED
  BY <1>1, ProcessInvariant, PTL

=============================================================================
