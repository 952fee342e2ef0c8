----------------------------- MODULE ScheduledJob -----------------------------
(***************************************************************************)
(* The sample job of internal/scheduler/scheduler.go on several replicas,  *)
(* kept apart by the Redis lock of internal/cache/redis.go: a key with the *)
(* holder's token that expires.  Redis may lose a call or its answer, a    *)
(* replica may die at any step, and a late unlock meets the lock of the    *)
(* next holder.  Besides the cron runs there are callers of the locker's   *)
(* blocking Lock, which may Extend while they work.                        *)
(*                                                                         *)
(* Time is what is left of each deadline.                                  *)
(***************************************************************************)
EXTENDS Naturals, FiniteSets

CONSTANTS
    Replicas,       \* cron runners: TryLock, then the job
    Workers,        \* callers of Lock and Extend
    LockTTL,        \* expiry of the key: a minute
    JobTimeout,     \* deadline of a run: half a minute
    MaxFaults,      \* bound on crashes and lost Redis calls
    Nobody

Procs == Replicas \cup Workers

\* newMutex refuses a TTL that is not positive.
newMutex == LockTTL > 0

ASSUME JobAssumption ==
    /\ {LockTTL, JobTimeout, MaxFaults} \subseteq Nat /\ newMutex
    /\ JobTimeout < LockTTL
    /\ Nobody \notin Procs /\ Replicas \cap Workers = {}

VARIABLES
    key,        \* the Redis key: [owner, ttl], owner is its random token
    run,        \* run[p]: where p is and what is left of its deadline
    faults

vars == <<key, run, faults>>

Free == [owner |-> Nobody, ttl |-> 0]
Idle == [pc |-> "idle", left |-> 0]

Init ==
    /\ key = Free
    /\ run = [p \in Procs |-> Idle]
    /\ faults = 0

Fault == faults < MaxFaults /\ faults' = faults + 1

At(p, pc) == run' = [run EXCEPT ![p].pc = pc]

\* SET NX PX with a fresh token.
SetNX(p) == key.owner = Nobody /\ key' = [owner |-> p, ttl |-> LockTTL]

-----------------------------------------------------------------------------
\* The schedule fires.  SkipIfStillRunning keeps a second run out.  (Without
\* Redis there is no locker, and every replica runs the job.)
Trigger(p) ==
    /\ run[p].pc = "idle"
    /\ run' = [run EXCEPT ![p] = [pc |-> "acquire", left |-> JobTimeout]]
    /\ UNCHANGED <<key, faults>>

TryLock(p) ==
    /\ run[p].pc = "acquire" /\ p \in Replicas
    /\ SetNX(p)
    /\ At(p, "working")
    /\ UNCHANGED faults

\* Contention: the run is skipped.
Skip(p) ==
    /\ run[p].pc = "acquire" /\ p \in Replicas
    /\ key.owner # Nobody
    /\ run' = [run EXCEPT ![p] = Idle]
    /\ UNCHANGED <<key, faults>>

\* Lock retries until it gets the key ...
Lock(p) ==
    /\ run[p].pc = "acquire" /\ p \in Workers
    /\ SetNX(p)
    /\ At(p, "working")
    /\ UNCHANGED faults

\* ... or its context ends or redsync's tries are used up.
LockGivesUp(p) ==
    /\ run[p].pc = "acquire" /\ p \in Workers
    /\ run' = [run EXCEPT ![p] = Idle]
    /\ UNCHANGED <<key, faults>>

\* The call fails: the run ends with an error, and the key may be set all
\* the same, with a token nobody will ever give back.
TryLockFails(p) ==
    /\ run[p].pc = "acquire" /\ Fault
    /\ UNCHANGED key \/ SetNX(p)
    /\ run' = [run EXCEPT ![p] = Idle]

\* Extend resets the expiry if the key is still p's.  A job that hears it is
\* not has to stop.
Extend(p) ==
    /\ run[p].pc = "working" /\ p \in Workers
    /\ IF key.owner = p
       THEN /\ key' = [key EXCEPT !.ttl = LockTTL]
            /\ run' = [run EXCEPT ![p].left = JobTimeout]
       ELSE At(p, "unlock") /\ UNCHANGED key
    /\ UNCHANGED faults

\* The job returns, also when its context ends.
Finish(p) ==
    /\ run[p].pc = "working"
    /\ At(p, "unlock")
    /\ UNCHANGED <<key, faults>>

\* Seeded fault: the key is deleted without comparing the token.
UnlockAnyone(p) ==
    /\ run[p].pc = "unlock"
    /\ key' = Free
    /\ run' = [run EXCEPT ![p] = Idle]
    /\ UNCHANGED faults

\* Deleted only if the token is p's; otherwise "no longer owned" is logged.
Unlock(p) ==
    /\ run[p].pc = "unlock"
    /\ key' = IF key.owner = p THEN Free ELSE key
    /\ run' = [run EXCEPT ![p] = Idle]
    /\ UNCHANGED faults

\* The deferred unlock fails or times out and is only logged.
UnlockFails(p) ==
    /\ run[p].pc = "unlock" /\ Fault
    /\ run' = [run EXCEPT ![p] = Idle]
    /\ UNCHANGED key

Crash(p) ==
    /\ run[p].pc # "idle" /\ Fault
    /\ run' = [run EXCEPT ![p] = Idle]
    /\ UNCHANGED key

\* Seeded fault: a key without expiry.
ExpireNever(k) == k

\* The key expires when nothing is left of its TTL.
Expire(k) == IF k.ttl <= 1 THEN Free ELSE [k EXCEPT !.ttl = @ - 1]

Shorter(n) == IF n = 0 THEN 0 ELSE n - 1

\* Time passes, but no job works past its deadline.  The deferred unlock is
\* not bound by it and may come at any later time.
Tick ==
    /\ \A p \in Procs : run[p].pc = "working" => run[p].left > 0
    /\ key # Free \/ \E p \in Procs : run[p].left > 0
    /\ key' = Expire(key)
    /\ run' = [p \in Procs |-> [run[p] EXCEPT !.left = Shorter(@)]]
    /\ UNCHANGED faults

-----------------------------------------------------------------------------
Step(p) ==
    \/ TryLock(p) \/ Skip(p) \/ Lock(p) \/ LockGivesUp(p)
    \/ Finish(p) \/ Unlock(p)

Next ==
    \/ Tick
    \/ \E p \in Procs :
         \/ Trigger(p) \/ Step(p) \/ Extend(p)
         \/ TryLockFails(p) \/ UnlockFails(p) \/ Crash(p)

Spec == Init /\ [][Next]_vars

-----------------------------------------------------------------------------
\* Every variable keeps to its type; a free key has no time left.
TypeOK ==
    /\ key \in [owner : Procs \cup {Nobody}, ttl : 0..LockTTL]
    /\ key.ttl = 0 <=> key.owner = Nobody
    /\ run \in [Procs -> [pc : {"idle", "acquire", "working", "unlock"}, left : 0..JobTimeout]]
    /\ faults \in 0..MaxFaults

\* Two holders never work at the same time, although a key can be left
\* behind by a lost answer, expire under a slow unlock, and be deleted late.
OneAtATime ==
    \A p, q \in Procs : run[p].pc = "working" /\ run[q].pc = "working" => p = q

\* The key outlives the work done under it: a run that is still working has
\* more time on its key than on its deadline.
LockOutlivesJob ==
    \A p \in Procs : run[p].pc = "working" => key.owner = p /\ run[p].left < key.ttl

\* A run that died or could not unlock keeps nobody out for good: work under
\* the lock goes on.  (A run of the job may be skipped every time, if another
\* caller always has the lock when the schedule fires.)
JobRunsAgain == []<>(\E p \in Procs : run[p].pc = "working")

=============================================================================
