----------------------------- MODULE AppLifecycle -----------------------------
(***************************************************************************)
(* Start and stop of the process: internal/app/app.go and the hooks of the *)
(* components it wires (event runtime, decision cache, outbound registry,  *)
(* scheduler, gRPC and HTTP server).  fx runs the modules' invocations in  *)
(* the order New lists them, each of which builds one component; hooks     *)
(* start in that order and stop in the reverse.  A start that fails stops  *)
(* what was started before it; a stop that exceeds ShutdownTimeout ends    *)
(* the process.                                                            *)
(*                                                                         *)
(* Every option is enabled.  The logger, the tracer and the token verifier *)
(* only have a stop hook that closes them, and no part in the order below. *)
(***************************************************************************)
EXTENDS Naturals, Sequences, FiniteSets

CONSTANT AutoUp     \* migration.auto_up

\* The invocations of fx.New, after the migration.
New == <<"database", "events", "redis", "decisions", "outbound", "scheduler",
         "grpc", "http">>

\* What a constructor opens (database.Open, cache.Open, NewRegistry).
Opens(c) == {c} \cap {"database", "redis", "outbound"}

\* Whom a hook's OnStart lets in, and the goroutines it starts.
Listens(c) == {c} \cap {"grpc", "http", "scheduler"}
Spawns(c) ==
    CASE c = "events" -> {"consumers"}
      [] c = "decisions" -> {"decisions"}
      [] c = "http" -> {"refresher"}
      [] OTHER -> {}

\* What comes in through a listener, and what each worker uses.  Consumers
\* write the database and drop entries of their own process's cache; they
\* announce nothing through Redis.
Work(c) == CASE c = "grpc" -> "grpcCall" [] c = "http" -> "request" [] OTHER -> "job"
Uses(w) ==
    CASE w = "consumers" -> {"database", "bus"}
      [] w \in {"decisions", "refresher"} -> {"database", "redis"}
      [] w = "job" -> {"redis"}
      [] OTHER -> {"database", "redis", "bus", "outbound"}

Goroutines == {"consumers", "decisions", "refresher", "grpcCall", "request", "job"}

VARIABLES
    phase,      \* "construct", "start", "run", "stop" or "exit"
    migrated,
    built,      \* constructors that ran
    started,    \* hooks that started and are not stopped
    halting,    \* the hook at `started' has begun to stop
    open,       \* open handles, the bus included
    loaded,     \* the route policies were loaded
    listening, alive, told,   \* told: cancelled
    outcome     \* how the process ends, or "ok"

vars == <<phase, migrated, built, started, halting, open, loaded, listening,
          alive, told, outcome>>

Init ==
    /\ phase = "construct" /\ migrated = FALSE
    /\ built = 0 /\ started = 0 /\ halting = FALSE
    /\ open = {} /\ loaded = FALSE
    /\ listening = {} /\ alive = {} /\ told = {}
    /\ outcome = "ok"

-----------------------------------------------------------------------------
(* Construction.                                                           *)

\* runStartupMigration comes before anything is opened.
Migrate ==
    /\ phase = "construct" /\ ~migrated
    /\ migrated' = TRUE
    /\ UNCHANGED <<phase, built, started, halting, open, loaded, listening, alive, told, outcome>>

\* The migration, a ping or another constructor fails: fx.New reports it and
\* the process ends.  Open and NewRegistry close what they had opened.
ConstructFails ==
    /\ phase = "construct"
    /\ \/ ~migrated /\ AutoUp
       \/ migrated /\ built < Len(New)
    /\ phase' = "exit" /\ outcome' = "failed"
    /\ UNCHANGED <<migrated, built, started, halting, open, loaded, listening, alive, told>>

Construct ==
    /\ phase = "construct" /\ migrated /\ built < Len(New)
    /\ built' = built + 1
    /\ open' = open \cup Opens(New[built + 1])
    /\ phase' = IF built + 1 = Len(New) THEN "start" ELSE phase
    /\ UNCHANGED <<migrated, started, halting, loaded, listening, alive, told, outcome>>

-----------------------------------------------------------------------------
(* Start hooks.                                                            *)

\* SyncRoutes and RefreshSource, before either server listens.
Loads(c) == loaded \/ c \in {"grpc", "http"}

OnStart ==
    /\ phase = "start" /\ started < Len(New)
    /\ LET c == New[started + 1] IN
         /\ alive' = alive \cup Spawns(c)
         /\ open' = open \cup (IF c = "events" THEN {"bus"} ELSE {})
         /\ listening' = listening \cup Listens(c)
         /\ loaded' = Loads(c)
    /\ started' = started + 1
    /\ phase' = IF started + 1 = Len(New) THEN "run" ELSE phase
    /\ UNCHANGED <<migrated, built, halting, told, outcome>>

\* The bus, the route store or the address is not available.  fx stops the
\* hooks before this one; its own OnStop does not run, so a refresher whose
\* server could not listen is never told.
OnStartFails ==
    /\ phase = "start" /\ started < Len(New)
    /\ LET c == New[started + 1] IN
         /\ c \in {"events", "grpc", "http"}
         /\ \/ UNCHANGED alive
            \/ c = "http" /\ alive' = alive \cup Spawns(c)
    /\ phase' = "stop" /\ outcome' = "failed"
    /\ UNCHANGED <<migrated, built, started, halting, open, loaded, listening, told>>

-----------------------------------------------------------------------------
(* Work.                                                                   *)

Arrive(c) ==
    /\ c \in listening
    /\ alive' = alive \cup {Work(c)} /\ alive' # alive
    /\ UNCHANGED <<phase, migrated, built, started, halting, open, loaded, listening, told, outcome>>

\* A request, a call or a job ends; a goroutine ends when it was told to.
Done(w) ==
    /\ w \in alive /\ (w \in {"grpcCall", "request", "job"} \/ w \in told)
    /\ alive' = alive \ {w}
    /\ UNCHANGED <<phase, migrated, built, started, halting, open, loaded, listening, told, outcome>>

Signal ==
    /\ phase = "run" /\ phase' = "stop"
    /\ UNCHANGED <<migrated, built, started, halting, open, loaded, listening, alive, told, outcome>>

-----------------------------------------------------------------------------
(* Stop hooks, from the last one started.                                  *)

Last == New[started]

\* Seeded fault: stop waits without r.cancel.
ToldNobody(c) == told

Told(c) == told \cup Spawns(c)

\* The listener closes, the component's goroutines are cancelled.
OnStop ==
    /\ phase = "stop" /\ started > 0 /\ ~halting
    /\ halting' = TRUE
    /\ listening' = listening \ Listens(Last)
    /\ told' = Told(Last)
    /\ UNCHANGED <<phase, migrated, built, started, open, loaded, alive, outcome>>

\* Seeded fault: nobody waits.
DrainedAtOnce(c) == TRUE

\* Seeded fault: the context cron's Stop returns is not waited for.
DrainedButJobs(c) ==
    /\ c \in {"grpc", "http"} => Work(c) \notin alive
    /\ c \in {"events", "decisions"} => Spawns(c) \cap alive = {}

\* Shutdown, GracefulStop and cron's Stop wait for what came in through them,
\* the event runtime and the decision cache for their goroutines; the HTTP
\* hook does not wait for the refresher.
Drained(c) ==
    /\ Listens(c) # {} => Work(c) \notin alive
    /\ c \in {"events", "decisions"} => Spawns(c) \cap alive = {}

\* The hook returns; handles close.
Stopped ==
    /\ phase = "stop" /\ started > 0 /\ halting /\ Drained(Last)
    /\ halting' = FALSE /\ started' = started - 1
    /\ open' = open \ (Opens(Last) \cup (IF Last = "events" THEN {"bus"} ELSE {}))
    /\ UNCHANGED <<phase, migrated, built, loaded, listening, alive, told, outcome>>

\* ShutdownTimeout: the gRPC server is stopped hard, the hooks that are left
\* do not run.
TimedOut ==
    /\ phase = "stop" /\ started > 0
    /\ phase' = "exit" /\ outcome' = IF outcome = "ok" THEN "timeout" ELSE outcome
    /\ UNCHANGED <<migrated, built, started, halting, open, loaded, listening, alive, told>>

Exit ==
    /\ phase = "stop" /\ started = 0
    /\ phase' = "exit"
    /\ UNCHANGED <<migrated, built, started, halting, open, loaded, listening, alive, told, outcome>>

-----------------------------------------------------------------------------
Proceed == Migrate \/ Construct \/ OnStart \/ OnStop \/ Stopped \/ Exit

Next ==
    \/ Proceed \/ ConstructFails \/ OnStartFails \/ Signal \/ TimedOut
    \/ \E c \in {"grpc", "http", "scheduler"} : Arrive(c)
    \/ \E w \in Goroutines : Done(w)

\* After exit nothing moves any more.
Spec == Init /\ [][Next /\ phase # "exit"]_vars

-----------------------------------------------------------------------------
\* Every variable keeps to its type.
TypeOK ==
    /\ phase \in {"construct", "start", "run", "stop", "exit"}
    /\ {migrated, halting, loaded} \subseteq BOOLEAN
    /\ built \in 0..Len(New) /\ started \in 0..Len(New) /\ started <= built
    /\ open \subseteq {"database", "redis", "outbound", "bus"}
    /\ listening \subseteq {"grpc", "http", "scheduler"}
    /\ alive \subseteq Goroutines /\ told \subseteq Goroutines
    /\ outcome \in {"ok", "failed", "timeout"}

\* Nothing works with a handle that was closed, in a stop or in the rollback
\* of a failed start.  The exception is the code's own: the refresher is
\* cancelled and not waited for, or, when its server could not listen, not
\* even cancelled.
NoUseAfterClose ==
    \A w \in alive :
      Uses(w) \subseteq open \/ (w = "refresher" /\ (w \in told \/ outcome = "failed"))

\* No server answers before the schema is migrated, the route policies are
\* loaded and everything a request uses is open.
ServesWhenReady ==
    listening \cap {"grpc", "http"} # {} =>
      migrated /\ loaded /\ Uses("request") \subseteq open

\* A process that stops in time leaves nothing open, nobody listening, and
\* nobody who was not told to end.
CleanExit ==
    phase = "exit" /\ outcome = "ok" =>
      open = {} /\ listening = {} /\ alive \subseteq told

\* Every stop ends without the help of the timeout: no hook waits for
\* something that waits for a later hook.
StopEnds == (phase = "stop") ~> (phase = "exit")

=============================================================================
