---------------------------- MODULE ReplicaProcess ----------------------------
(***************************************************************************)
(* One process of the service with the job its scheduler runs: the life    *)
(* cycle of app.go (AppLifecycle) composed with the job and its Redis lock *)
(* (ScheduledJob).  The process is the replica Self; the other replicas    *)
(* and lock holders go on around it, also after it has ended.              *)
(*                                                                         *)
(* cron starts the job while the scheduler hook is started, the job is one *)
(* of the workers the hook's OnStop waits for, and a process that ends     *)
(* before the job does takes the job with it, wherever it was.             *)
(***************************************************************************)
EXTENDS ScheduledJob

CONSTANTS Self, AutoUp

ASSUME ProcessAssumption == Self \in Replicas /\ AutoUp \in BOOLEAN

VARIABLES phase, migrated, built, started, halting, open, loaded, listening,
          alive, told, outcome

App == INSTANCE AppLifecycle

lifeVars == <<phase, migrated, built, started, halting, open, loaded, listening,
              alive, told, outcome>>
allVars == <<vars, lifeVars>>

Live == phase # "exit"

\* The process ends, and with it what its job was doing; Redis keeps the key.
Abandoned == run' = [run EXCEPT ![Self] = Idle] /\ UNCHANGED key

-----------------------------------------------------------------------------

\* cron calls runSample.
CronFires == Live /\ App!Arrive("scheduler") /\ Trigger(Self)

\* A step of runSample; when it returns, cron's Stop no longer waits for it.
JobStep(step) ==
    /\ Live /\ step
    /\ IF run'[Self] = Idle THEN App!Done("job") ELSE UNCHANGED lifeVars

RunSample == JobStep(Step(Self))
RunSampleFails == JobStep(TryLockFails(Self) \/ UnlockFails(Self))

\* Construction, hooks, and everything that is not the job.
Lifecycle(step) ==
    /\ Live /\ step
    /\ IF phase' = "exit" THEN Abandoned /\ UNCHANGED faults ELSE UNCHANGED vars

Proceed == Lifecycle(App!Proceed)
Fails == Lifecycle(App!ConstructFails \/ App!OnStartFails \/ App!TimedOut)
Signal == Lifecycle(App!Signal)
Arrive == \E c \in {"grpc", "http"} : Lifecycle(App!Arrive(c))
Done(w) == Lifecycle(App!Done(w))

\* The process is killed.
Die ==
    /\ Live /\ Fault
    /\ Abandoned
    /\ phase' = "exit" /\ outcome' = "failed"
    /\ UNCHANGED <<migrated, built, started, halting, open, loaded, listening, alive, told>>

\* The other replicas, and the callers of Lock.
Elsewhere(p) ==
    /\ \/ Trigger(p) \/ Step(p) \/ Extend(p)
       \/ TryLockFails(p) \/ UnlockFails(p) \/ Crash(p)
    /\ UNCHANGED lifeVars

TimePasses == Tick /\ UNCHANGED lifeVars

-----------------------------------------------------------------------------
ProcessInit == Init /\ App!Init

Others == App!Goroutines \ {"job"}

ProcessNext ==
    \/ Proceed \/ Fails \/ Signal \/ Arrive \/ Die
    \/ \E w \in Others : Done(w)
    \/ CronFires \/ RunSample \/ RunSampleFails
    \/ \E p \in Procs \ {Self} : Elsewhere(p)
    \/ TimePasses

\* Hooks return once they may and what was let in ends, the timeout of a stop
\* not counted on; elsewhere the schedule keeps firing and runs make progress;
\* time passes.
ProcessSpec ==
    /\ ProcessInit /\ [][ProcessNext]_allVars
    /\ WF_allVars(Proceed) /\ WF_allVars(RunSample) /\ WF_allVars(TimePasses)
    /\ \A w \in Others : WF_allVars(Done(w))
    /\ \A p \in Procs \ {Self} :
         /\ WF_allVars(Trigger(p) /\ UNCHANGED lifeVars)
         /\ WF_allVars(Step(p) /\ UNCHANGED lifeVars)

-----------------------------------------------------------------------------
(* Properties of the process; those of the lock are ScheduledJob's.        *)

\* NewServer and the stop hooks: no server answers before the schema is
\* migrated, the route policies are loaded and everything a request uses is
\* open; and nothing works with a handle that was closed before it, in a stop
\* or in the rollback of a failed start, but a refresher the HTTP hook does
\* not wait for.
LifecycleInvariant ==
    /\ App!TypeOK
    /\ App!ServesWhenReady
    /\ App!NoUseAfterClose

\* A process that stops in time leaves nothing open and nobody untold, and, if
\* its calls of Redis succeed, it gives the lock back, whatever its job was
\* doing when the signal came (OnStop of the scheduler and the deferred
\* Unlock): the next replica need not wait for the key to expire.
CleanExit ==
    /\ App!CleanExit
    /\ phase = "exit" /\ outcome = "ok" /\ faults = 0 => key.owner # Self

\* Every stop ends without the help of the timeout: no hook waits for
\* something that waits for a later hook, and the job ends by its deadline.
StopEnds == App!StopEnds

=============================================================================
