---------------------------- MODULE OutboxDispatch ----------------------------
(***************************************************************************)
(* The event runtime of internal/app/eventbus.go on several replicas that  *)
(* share one outbox table: start and stop, the dispatch loop, the cleaner, *)
(* the two consumers and their end.  The outbox library is known from its  *)
(* configuration (BatchSize, Lease, RetryDelay, Retention) and the columns *)
(* of authorization_outbox_events: a claim moves available_at into the     *)
(* future, a publication sets published_at, and only published rows are    *)
(* purged.                                                                 *)
(*                                                                         *)
(* Time is kept as what is left of each delay, so that it needs no bound.  *)
(***************************************************************************)
EXTENDS Naturals, FiniteSets

CONSTANTS
    Events,             \* outbox events
    Replicas,           \* processes that run the event runtime
    BatchSize, Lease, RetryDelay, Retention, CleanupBatchSize,
    MaxFaults           \* bound on crashes, stops, failed calls

\* Config.Validate refuses an enabled event bus with any other settings.
Validate ==
    {BatchSize, Lease, RetryDelay, Retention, CleanupBatchSize} \subseteq Nat \ {0}

ASSUME OutboxAssumption == Validate /\ MaxFaults \in Nat

VARIABLES
    row,        \* row[e]: its state, what is left until available_at and,
                \*   once published, until its retention ends
    stream,     \* events the stream has accepted at least once
    rt,         \* rt[r]: eventRuntime of r: life cycle, bus, goroutines
    claimed,    \* claimed[r]: what is left of the batch RunOnce works on
    sent,       \* sent[r]: published by RunOnce, not yet marked
    faults

vars == <<row, stream, rt, claimed, sent, faults>>

Goroutines == {"dispatch", "clean", "groups", "tenants"}
Down == [state |-> "down", bus |-> "nil", live |-> {}]

Longest == IF Lease > RetryDelay THEN Lease ELSE RetryDelay

Init ==
    /\ row = [e \in Events |-> [state |-> "absent", wait |-> 0, keep |-> 0]]
    /\ stream = {}
    /\ rt = [r \in Replicas |-> Down]
    /\ claimed = [r \in Replicas |-> {}]
    /\ sent = [r \in Replicas |-> {}]
    /\ faults = 0

Fault == faults < MaxFaults /\ faults' = faults + 1

\* A management transaction commits its event (PolicyStore).
Append(e) ==
    /\ row[e].state = "absent"
    /\ row' = [row EXCEPT ![e].state = "pending"]
    /\ UNCHANGED <<stream, rt, claimed, sent, faults>>

-----------------------------------------------------------------------------
(* Life cycle.                                                             *)

start(r) ==
    /\ rt[r].state \in {"down", "stopped", "failed"}
    /\ rt' = [rt EXCEPT ![r] = [state |-> "up", bus |-> "open", live |-> Goroutines]]
    /\ UNCHANGED <<row, stream, claimed, sent, faults>>

\* The stream cannot be reached, or the dispatcher is refused: the bus is
\* closed and never kept.  A cleaner that is refused comes after r.bus is
\* set: the runtime keeps a closed bus.
startFails(r) ==
    /\ rt[r].state = "down" /\ Fault
    /\ \E bus \in {"nil", "closed"} :
         rt' = [rt EXCEPT ![r] = [state |-> "failed", bus |-> bus, live |-> {}]]
    /\ UNCHANGED <<row, stream, claimed, sent>>

\* stop cancels the context all goroutines share, ...
cancel(r) ==
    /\ rt[r].state = "up" /\ Fault
    /\ rt' = [rt EXCEPT ![r].state = "stopping"]
    /\ UNCHANGED <<row, stream, claimed, sent>>

\* Seeded fault: the cleaner waits for its ticker only.
ReturnButCleaner(r, g) ==
    /\ rt[r].state = "stopping" /\ g \in rt[r].live \ {"clean"}
    /\ rt' = [rt EXCEPT ![r].live = @ \ {g}]
    /\ claimed' = IF g = "dispatch" THEN [claimed EXCEPT ![r] = {}] ELSE claimed
    /\ sent' = IF g = "dispatch" THEN [sent EXCEPT ![r] = {}] ELSE sent
    /\ UNCHANGED <<row, stream, faults>>

\* ... each goroutine returns at its next look at the context, which ends a
\* batch that is under way, ...
Return(r, g) ==
    /\ rt[r].state = "stopping" /\ g \in rt[r].live
    /\ rt' = [rt EXCEPT ![r].live = @ \ {g}]
    /\ claimed' = IF g = "dispatch" THEN [claimed EXCEPT ![r] = {}] ELSE claimed
    /\ sent' = IF g = "dispatch" THEN [sent EXCEPT ![r] = {}] ELSE sent
    /\ UNCHANGED <<row, stream, faults>>

\* Seeded fault: the bus is closed without waiting for the goroutines.
stopWithoutWait(r) ==
    /\ rt[r].state = "stopping"
    /\ rt' = [rt EXCEPT ![r].state = "stopped", ![r].bus = "closed"]
    /\ UNCHANGED <<row, stream, claimed, sent, faults>>

\* ... and the bus is closed when all have returned.
stop(r) ==
    /\ rt[r].state = "stopping" /\ rt[r].live = {}
    /\ rt' = [rt EXCEPT ![r].state = "stopped", ![r].bus = "closed"]
    /\ UNCHANGED <<row, stream, claimed, sent, faults>>

\* The process dies: nothing is released, the lease has to run out.
Crash(r) ==
    /\ rt[r].state \in {"up", "stopping"} /\ Fault
    /\ rt' = [rt EXCEPT ![r] = Down]
    /\ claimed' = [claimed EXCEPT ![r] = {}]
    /\ sent' = [sent EXCEPT ![r] = {}]
    /\ UNCHANGED <<row, stream>>

\* bus.Consume returns an error: it is logged and that goroutine ends, the
\* others go on.
ConsumeFails(r, g) ==
    /\ rt[r].state = "up" /\ g \in rt[r].live \cap {"groups", "tenants"} /\ Fault
    /\ rt' = [rt EXCEPT ![r].live = @ \ {g}]
    /\ UNCHANGED <<row, stream, claimed, sent>>

-----------------------------------------------------------------------------
(* One round of the dispatch loop: dispatcher.RunOnce.                     *)

Running(r, g) == rt[r].state \in {"up", "stopping"} /\ g \in rt[r].live

Due(e) == row[e].state = "pending" /\ row[e].wait = 0

\* A batch of due rows, leased to r.
dispatch(r) ==
    /\ Running(r, "dispatch") /\ rt[r].state = "up"
    /\ claimed[r] = {} /\ sent[r] = {}
    /\ \E batch \in SUBSET {e \in Events : Due(e)} :
         /\ batch # {} /\ Cardinality(batch) <= BatchSize
         /\ claimed' = [claimed EXCEPT ![r] = batch]
         /\ row' = [e \in Events |->
                      IF e \in batch THEN [row[e] EXCEPT !.wait = Lease] ELSE row[e]]
    /\ UNCHANGED <<stream, rt, sent, faults>>

\* The stream accepts the event (or recognises its identifier).
Publish(r, e) ==
    /\ Running(r, "dispatch") /\ e \in claimed[r]
    /\ stream' = stream \cup {e}
    /\ claimed' = [claimed EXCEPT ![r] = @ \ {e}]
    /\ sent' = [sent EXCEPT ![r] = @ \cup {e}]
    /\ UNCHANGED <<row, rt, faults>>

\* The answer is an error or does not come: the event may be in the stream.
\* The row waits for RetryDelay, unless it was purged in the meantime.
PublishFails(r, e) ==
    /\ Running(r, "dispatch") /\ e \in claimed[r] /\ Fault
    /\ \E accepted \in SUBSET {e} : stream' = stream \cup accepted
    /\ claimed' = [claimed EXCEPT ![r] = @ \ {e}]
    /\ row' = IF row[e].state = "pending"
              THEN [row EXCEPT ![e].wait = RetryDelay] ELSE row
    /\ UNCHANGED <<rt, sent>>

\* published_at is set, unless another replica was faster.
MarkPublished(r, e) ==
    /\ Running(r, "dispatch") /\ e \in sent[r]
    /\ sent' = [sent EXCEPT ![r] = @ \ {e}]
    /\ row' = IF row[e].state = "pending"
              THEN [row EXCEPT ![e] = [state |-> "published", wait |-> 0, keep |-> Retention]]
              ELSE row
    /\ UNCHANGED <<stream, rt, claimed, faults>>

\* The mark is lost: the lease has to run out and the event is sent again.
MarkFails(r, e) ==
    /\ Running(r, "dispatch") /\ e \in sent[r] /\ Fault
    /\ sent' = [sent EXCEPT ![r] = @ \ {e}]
    /\ UNCHANGED <<row, stream, rt, claimed>>

-----------------------------------------------------------------------------
\* Seeded fault: the age of a row decides, not whether it was published.
PurgeableByAge == {e \in Events : row[e].state \in {"pending", "published"} /\ row[e].keep = 0}

Purgeable == {e \in Events : row[e].state = "published" /\ row[e].keep = 0}

\* One round of the cleaner: a batch of published rows past their retention.
clean(r) ==
    /\ Running(r, "clean")
    /\ \E batch \in SUBSET Purgeable :
         /\ batch # {} /\ Cardinality(batch) <= CleanupBatchSize
         /\ row' = [e \in Events |->
                      IF e \in batch THEN [row[e] EXCEPT !.state = "purged", !.wait = 0] ELSE row[e]]
    /\ UNCHANGED <<stream, rt, claimed, sent, faults>>

Shorter(n) == IF n = 0 THEN 0 ELSE n - 1

Tick ==
    /\ \E e \in Events : row[e].wait > 0 \/ row[e].keep > 0
    /\ row' = [e \in Events |-> [row[e] EXCEPT !.wait = Shorter(@), !.keep = Shorter(@)]]
    /\ UNCHANGED <<stream, rt, claimed, sent, faults>>

-----------------------------------------------------------------------------
\* What the dispatch goroutine does next by itself.
Work(r) == dispatch(r) \/ \E e \in Events : Publish(r, e) \/ MarkPublished(r, e)

WindDown(r) == stop(r) \/ \E g \in Goroutines : Return(r, g)

Next ==
    \/ \E e \in Events : Append(e)
    \/ Tick
    \/ \E r \in Replicas :
         \/ start(r) \/ startFails(r) \/ cancel(r) \/ Crash(r)
         \/ Work(r) \/ WindDown(r) \/ clean(r)
         \/ \E g \in Goroutines : ConsumeFails(r, g)
         \/ \E e \in Events : PublishFails(r, e) \/ MarkFails(r, e)

Spec == Init /\ [][Next]_vars

\* A process that ended is started again, the tickers keep calling the loops,
\* time passes, and the stream answers once the faults are used up.
FairSpec ==
    /\ Spec
    /\ WF_vars(Tick)
    /\ \A r \in Replicas :
         WF_vars(start(r)) /\ WF_vars(Work(r)) /\ WF_vars(WindDown(r))

-----------------------------------------------------------------------------
\* Every variable keeps to its type, and no delay exceeds its setting.
TypeOK ==
    /\ row \in [Events -> [state : {"absent", "pending", "published", "purged"},
                           wait : 0..Longest, keep : 0..Retention]]
    /\ stream \subseteq Events
    /\ rt \in [Replicas -> [state : {"down", "up", "stopping", "stopped", "failed"},
                            bus : {"nil", "open", "closed"}, live : SUBSET Goroutines]]
    /\ claimed \in [Replicas -> SUBSET Events]
    /\ sent \in [Replicas -> SUBSET Events]
    /\ faults \in 0..MaxFaults

\* Where an event stands between the transaction that wrote it and the
\* stream: lost if its row is marked or gone and the stream never had it.
StatusOf(e) ==
    CASE e \in stream -> "delivered"
      [] e \notin stream /\ row[e].state = "absent" -> "absent"
      [] e \notin stream /\ row[e].state = "pending" -> "waiting"
      [] OTHER -> "lost"

Delivery == INSTANCE EventDelivery WITH status <- [e \in Events |-> StatusOf(e)]

\* However dispatchers on several replicas claim, lose their lease, crash
\* between publishing and marking, and clean up behind one another, no
\* committed event is lost, and with the fairness above every one reaches the
\* stream (dispatch, clean).
ImplementsEventDelivery == Delivery!FairSpec

\* stop cancels, waits and closes: no goroutine of the runtime is left to use
\* a bus that is closed, whatever it was doing when stop was called.
NoUseAfterClose ==
    \A r \in Replicas : rt[r].bus # "open" => rt[r].live = {}

\* Stopping always comes to an end: no goroutine waits for another.
StopEnds == \A r \in Replicas : (rt[r].state = "stopping") ~> (rt[r].state # "stopping")

\* eventRuntime: its parts keep to their types, and nothing uses what stop has
\* closed, however starts fail and stops fall into a batch.
RuntimeInvariant ==
    /\ TypeOK
    /\ NoUseAfterClose

=============================================================================
