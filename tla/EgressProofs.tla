----------------------------- MODULE EgressProofs -----------------------------
(***************************************************************************)
(* Proofs about what leaves the service: the outbox dispatcher             *)
(* (OutboxDispatch), for any number of events and replicas, and an         *)
(* outbound client (OutboundCall), for any number of callers.              *)
(***************************************************************************)
EXTENDS OutboxDispatch, OutboundCall, FiniteSetTheorems, TLAPS

-----------------------------------------------------------------------------
(* The outbox.                                                             *)

\* The goroutines run while the bus is open, and only the dispatch loop has
\* a batch.
Lived(r) ==
    /\ rt[r].state \in {"up", "stopping"} <=> rt[r].bus = "open"
    /\ rt[r].bus # "open" => rt[r].live = {}
    /\ "dispatch" \notin rt[r].live => claimed[r] = {} /\ sent[r] = {}

\* What RunOnce works on was committed, what it is about to mark and what is
\* marked or gone is in the stream, and nothing comes into the stream before
\* it was committed.
Backed ==
    /\ \A r \in Replicas : sent[r] \subseteq stream
    /\ \A r \in Replicas : \A e \in claimed[r] : row[e].state # "absent"
    /\ \A e \in Events : row[e].state \in {"published", "purged"} => e \in stream
    /\ \A e \in stream : row[e].state # "absent"

Inv ==
    /\ TypeOK
    /\ \A r \in Replicas : Lived(r)
    /\ Backed

Row == [state : {"absent", "pending", "published", "purged"},
        wait : 0..Longest, keep : 0..Retention]
Runtime == [state : {"down", "up", "stopping", "stopped", "failed"},
            bus : {"nil", "open", "closed"}, live : SUBSET Goroutines]

LEMMA Delays ==
    /\ Longest \in Nat /\ Retention \in Nat /\ MaxFaults \in Nat
    /\ Lease \in 0..Longest /\ RetryDelay \in 0..Longest
BY OutboxAssumption DEF Validate, Longest

LEMMA OutboxInit == Init => Inv
BY Delays DEF Init, Inv, TypeOK, Down, Lived, Backed, Goroutines

\* A step of the life cycle: the runtime of r is changed, its batch stays or
\* is dropped.
LEMMA LifeKeeps ==
    ASSUME Inv, NEW r \in Replicas, NEW new \in Runtime,
           rt' = [rt EXCEPT ![r] = new],
           new.state \in {"up", "stopping"} <=> new.bus = "open",
           new.bus # "open" => new.live = {},
           \/ UNCHANGED <<claimed, sent>> /\ ("dispatch" \notin new.live => "dispatch" \notin rt[r].live)
           \/ claimed' = [claimed EXCEPT ![r] = {}] /\ sent' = [sent EXCEPT ![r] = {}],
           faults' \in 0..MaxFaults,
           UNCHANGED <<row, stream>>
    PROVE  Inv'
<1>1. /\ claimed' \in [Replicas -> SUBSET Events] /\ sent' \in [Replicas -> SUBSET Events]
      /\ \A q \in Replicas : claimed'[q] \subseteq claimed[q] /\ sent'[q] \subseteq sent[q]
  BY DEF Inv, TypeOK
<1>2. rt' \in [Replicas -> Runtime]
  BY DEF Inv, TypeOK, Runtime
<1>3. TypeOK'
  BY <1>1, <1>2 DEF Inv, TypeOK, Runtime
<1>4. ASSUME NEW q \in Replicas PROVE Lived(q)'
  BY <1>1, <1>2 DEF Inv, TypeOK, Lived
<1>5. Backed'
  BY <1>1 DEF Inv, TypeOK, Backed
<1> QED
  BY <1>3, <1>4, <1>5 DEF Inv

\* A step that changes rows, each of them from pending to published to purged
\* and only if the event is in the stream.
LEMMA RowsKeep ==
    ASSUME Inv, row' \in [Events -> Row], UNCHANGED rt,
           stream' \subseteq Events, stream \subseteq stream',
           \A e \in Events : row'[e].state # row[e].state =>
               row'[e].state # "absent" /\ (row'[e].state # "pending" => e \in stream'),
           claimed' \in [Replicas -> SUBSET Events], sent' \in [Replicas -> SUBSET Events],
           \A q \in Replicas : "dispatch" \notin rt[q].live => claimed'[q] = {} /\ sent'[q] = {},
           \A q \in Replicas : sent'[q] \subseteq stream',
           \A q \in Replicas : \A e \in claimed'[q] : row[e].state # "absent",
           \A e \in stream' : row[e].state # "absent",
           faults' \in 0..MaxFaults
    PROVE  Inv'
<1>1. TypeOK'
  BY DEF Inv, TypeOK, Row
<1>2. ASSUME NEW q \in Replicas PROVE Lived(q)'
  BY DEF Inv, Lived
<1>3. /\ \A q \in Replicas : \A e \in claimed'[q] : row'[e].state # "absent"
      /\ \A e \in stream' : row'[e].state # "absent"
  BY DEF Inv, TypeOK
<1>4. \A e \in Events : row'[e].state \in {"published", "purged"} => e \in stream'
  BY DEF Inv, Backed
<1> QED
  BY <1>1, <1>2, <1>3, <1>4 DEF Inv, Backed

\* The actions of the life cycle.
LifeCycle(r) ==
    \/ start(r) \/ startFails(r) \/ cancel(r) \/ Crash(r) \/ stop(r)
    \/ \E g \in Goroutines : Return(r, g) \/ ConsumeFails(r, g)

LEMMA LifeCycleKeeps ==
    ASSUME Inv, NEW r \in Replicas, LifeCycle(r)
    PROVE  Inv'
<1> USE Delays
<1>0. rt[r] \in Runtime /\ Lived(r) /\ faults \in 0..MaxFaults
  BY DEF Inv, TypeOK, Runtime
<1>1. CASE start(r)
  <2>1. [state |-> "up", bus |-> "open", live |-> Goroutines] \in Runtime
    BY DEF Runtime
  <2> QED
    BY <1>0, <1>1, <2>1, LifeKeeps DEF start, Lived, Goroutines
<1>2. CASE startFails(r)
  <2>1. PICK bus \in {"nil", "closed"} :
            rt' = [rt EXCEPT ![r] = [state |-> "failed", bus |-> bus, live |-> {}]]
    BY <1>2 DEF startFails
  <2>2. [state |-> "failed", bus |-> bus, live |-> {}] \in Runtime
    BY DEF Runtime
  <2>3. faults' \in 0..MaxFaults
    BY <1>0, <1>2 DEF startFails, Fault
  <2>4. rt[r].live = {}
    BY <1>0, <1>2 DEF startFails, Lived
  <2> QED
    BY <1>2, <2>1, <2>2, <2>3, <2>4, LifeKeeps DEF startFails
<1>3. CASE cancel(r)
  <2> DEFINE new == [rt[r] EXCEPT !.state = "stopping"]
  <2>1. new \in Runtime /\ rt' = [rt EXCEPT ![r] = new]
    BY <1>0, <1>3 DEF cancel, Runtime
  <2>2. faults' \in 0..MaxFaults
    BY <1>0, <1>3 DEF cancel, Fault
  <2>3. new.state = "stopping" /\ new.bus = "open" /\ new.live = rt[r].live
    BY <1>0, <1>3 DEF cancel, Lived, Runtime
  <2> HIDE DEF new
  <2> QED
    BY <1>3, <2>1, <2>2, <2>3, LifeKeeps DEF cancel
<1>4. CASE Crash(r)
  <2>1. Down \in Runtime /\ Down.state = "down" /\ Down.bus = "nil" /\ Down.live = {}
    BY DEF Down, Runtime
  <2>2. faults' \in 0..MaxFaults
    BY <1>0, <1>4 DEF Crash, Fault
  <2> QED
    BY <1>4, <2>1, <2>2, LifeKeeps DEF Crash
<1>5. CASE stop(r)
  <2> DEFINE new == [rt[r] EXCEPT !.state = "stopped", !.bus = "closed"]
  <2>1. new \in Runtime /\ rt' = [rt EXCEPT ![r] = new]
    BY <1>0, <1>5 DEF stop, Runtime
  <2>2. new.state = "stopped" /\ new.bus = "closed" /\ new.live = {} /\ rt[r].live = {}
    BY <1>0, <1>5 DEF stop, Runtime
  <2> HIDE DEF new
  <2> QED
    BY <1>0, <1>5, <2>1, <2>2, LifeKeeps DEF stop
<1>6. ASSUME NEW g \in Goroutines, Return(r, g) \/ ConsumeFails(r, g)
      PROVE  Inv'
  <2> DEFINE new == [rt[r] EXCEPT !.live = @ \ {g}]
  <2>1. new \in Runtime /\ rt' = [rt EXCEPT ![r] = new]
    BY <1>0, <1>6 DEF Return, ConsumeFails, Runtime
  <2>2. new.state = rt[r].state /\ new.bus = "open" /\ new.live = rt[r].live \ {g}
    BY <1>0, <1>6 DEF Return, ConsumeFails, Lived, Runtime
  <2>3. rt[r].state \in {"up", "stopping"}
    BY <1>6 DEF Return, ConsumeFails
  <2>4. faults' \in 0..MaxFaults
    BY <1>0, <1>6 DEF Return, ConsumeFails, Fault
  <2> HIDE DEF new
  <2>5. CASE g = "dispatch"
    BY <1>6, <2>1, <2>2, <2>3, <2>4, <2>5, LifeKeeps DEF Return, ConsumeFails
  <2>6. CASE g # "dispatch"
    BY <1>6, <2>1, <2>2, <2>3, <2>4, <2>6, LifeKeeps DEF Return, ConsumeFails
  <2> QED
    BY <2>5, <2>6
<1> QED
  BY <1>1, <1>2, <1>3, <1>4, <1>5, <1>6 DEF LifeCycle

\* The facts every step on rows and batches starts from.
LEMMA Outset ==
    ASSUME Inv
    PROVE  /\ row \in [Events -> Row] /\ stream \subseteq Events /\ faults \in 0..MaxFaults
           /\ claimed \in [Replicas -> SUBSET Events] /\ sent \in [Replicas -> SUBSET Events]
           /\ \A q \in Replicas : "dispatch" \notin rt[q].live => claimed[q] = {} /\ sent[q] = {}
           /\ \A q \in Replicas : sent[q] \subseteq stream
           /\ \A q \in Replicas : \A e \in claimed[q] : row[e].state # "absent"
           /\ \A e \in stream : row[e].state # "absent"
BY DEF Inv, TypeOK, Row, Lived, Backed

LEMMA AppendKeeps ==
    ASSUME Inv, NEW e \in Events, Append(e)
    PROVE  Inv'
<1>1. [row[e] EXCEPT !.state = "pending"] \in Row
  BY Outset DEF Row
<1>2. row' = [row EXCEPT ![e] = [row[e] EXCEPT !.state = "pending"]]
  BY Outset DEF Append
<1>3. row' \in [Events -> Row] /\ \A x \in Events : row'[x].state = IF x = e THEN "pending" ELSE row[x].state
  BY <1>1, <1>2, Outset DEF Row
<1> QED
  BY <1>3, Outset, RowsKeep DEF Append

LEMMA DispatchKeeps ==
    ASSUME Inv, NEW r \in Replicas, dispatch(r)
    PROVE  Inv'
<1>1. PICK batch \in SUBSET {e \in Events : Due(e)} :
          /\ claimed' = [claimed EXCEPT ![r] = batch]
          /\ row' = [e \in Events |->
                       IF e \in batch THEN [row[e] EXCEPT !.wait = Lease] ELSE row[e]]
  BY DEF dispatch
<1>2. \A e \in Events : [row[e] EXCEPT !.wait = Lease] \in Row
                        /\ [row[e] EXCEPT !.wait = Lease].state = row[e].state
  BY Outset, Delays DEF Row
<1>3. row' \in [Events -> Row] /\ \A x \in Events : row'[x].state = row[x].state
  BY <1>1, <1>2, Outset
<1>4. claimed' \in [Replicas -> SUBSET Events] /\ \A e \in claimed'[r] : row[e].state # "absent"
  BY <1>1, Outset DEF Due
<1>5. \A q \in Replicas : \A e \in claimed'[q] : row[e].state # "absent"
  BY <1>1, <1>4, Outset
<1>6. \A q \in Replicas : "dispatch" \notin rt[q].live => claimed'[q] = {}
  BY <1>1, Outset DEF dispatch, Running
<1> QED
  BY <1>3, <1>4, <1>5, <1>6, Outset, RowsKeep DEF dispatch

LEMMA PublishKeeps ==
    ASSUME Inv, NEW r \in Replicas, NEW e \in Events, Publish(r, e)
    PROVE  Inv'
<1>1. /\ claimed' = [claimed EXCEPT ![r] = claimed[r] \ {e}]
      /\ sent' = [sent EXCEPT ![r] = sent[r] \cup {e}]
      /\ stream' = stream \cup {e} /\ "dispatch" \in rt[r].live /\ e \in claimed[r]
      /\ UNCHANGED <<row, rt, faults>>
  BY Outset DEF Publish, Running
<1>2. /\ claimed' \in [Replicas -> SUBSET Events] /\ sent' \in [Replicas -> SUBSET Events]
      /\ \A q \in Replicas : claimed'[q] \subseteq claimed[q] /\ sent'[q] \subseteq stream'
      /\ \A q \in Replicas : "dispatch" \notin rt[q].live => claimed'[q] = {} /\ sent'[q] = {}
  BY <1>1, Outset
<1> QED
  BY <1>1, <1>2, Outset, RowsKeep

LEMMA PublishFailsKeeps ==
    ASSUME Inv, NEW r \in Replicas, NEW e \in Events, PublishFails(r, e)
    PROVE  Inv'
<1>1. /\ claimed' = [claimed EXCEPT ![r] = claimed[r] \ {e}] /\ e \in claimed[r]
      /\ stream \subseteq stream' /\ stream' \subseteq stream \cup {e}
      /\ UNCHANGED <<rt, sent>>
  BY Outset DEF PublishFails
<1>2. faults' \in 0..MaxFaults
  BY Outset, Delays DEF PublishFails, Fault
<1>3. [row[e] EXCEPT !.wait = RetryDelay] \in Row
      /\ [row[e] EXCEPT !.wait = RetryDelay].state = row[e].state
  BY Outset, Delays DEF Row
<1>4. row' = row \/ row' = [row EXCEPT ![e] = [row[e] EXCEPT !.wait = RetryDelay]]
  BY Outset DEF PublishFails
<1>5. row' \in [Events -> Row] /\ \A x \in Events : row'[x].state = row[x].state
  BY <1>3, <1>4, Outset
<1>6. /\ claimed' \in [Replicas -> SUBSET Events]
      /\ \A q \in Replicas : claimed'[q] \subseteq claimed[q]
  BY <1>1, Outset
<1> QED
  BY <1>1, <1>2, <1>5, <1>6, Outset, RowsKeep

LEMMA MarkKeeps ==
    ASSUME Inv, NEW r \in Replicas, NEW e \in Events, MarkPublished(r, e) \/ MarkFails(r, e)
    PROVE  Inv'
<1> DEFINE marked == [state |-> "published", wait |-> 0, keep |-> Retention]
<1>1. /\ sent' = [sent EXCEPT ![r] = sent[r] \ {e}] /\ e \in sent[r]
      /\ UNCHANGED <<stream, rt, claimed>>
  BY Outset DEF MarkPublished, MarkFails
<1>2. faults' \in 0..MaxFaults
  BY Outset, Delays DEF MarkPublished, MarkFails, Fault
<1>3. marked \in Row /\ marked.state = "published"
  BY Delays DEF Row
<1>4. row' = row \/ row' = [row EXCEPT ![e] = marked]
  BY DEF MarkPublished, MarkFails
<1> HIDE DEF marked
<1>5. /\ row' \in [Events -> Row]
      /\ \A x \in Events : row'[x].state = row[x].state \/ (x = e /\ row'[x].state = "published")
  BY <1>3, <1>4, Outset
<1>6. /\ sent' \in [Replicas -> SUBSET Events]
      /\ \A q \in Replicas : sent'[q] \subseteq sent[q]
  BY <1>1, Outset
<1> QED
  BY <1>1, <1>2, <1>5, <1>6, Outset, RowsKeep

LEMMA PurgedRow ==
    ASSUME NEW x \in Row
    PROVE  /\ [x EXCEPT !.state = "purged", !.wait = 0] \in Row
           /\ [x EXCEPT !.state = "purged", !.wait = 0].state = "purged"
<1>1. 0 \in 0..Longest
  BY Delays
<1>2. [x EXCEPT !.state = "purged", !.wait = 0].state = "purged"
  BY DEF Row
<1>3. [x EXCEPT !.state = "purged", !.wait = 0] \in Row
  BY <1>1 DEF Row
<1> QED
  BY <1>2, <1>3

LEMMA CleanKeeps ==
    ASSUME Inv, NEW r \in Replicas, clean(r)
    PROVE  Inv'
<1>1. PICK batch \in SUBSET Purgeable :
          row' = [e \in Events |->
                    IF e \in batch THEN [row[e] EXCEPT !.state = "purged", !.wait = 0] ELSE row[e]]
  BY DEF clean
<1>2. \A e \in Events : /\ [row[e] EXCEPT !.state = "purged", !.wait = 0] \in Row
                        /\ [row[e] EXCEPT !.state = "purged", !.wait = 0].state = "purged"
  BY Outset, PurgedRow
<1>3. \A e \in batch : e \in stream
  BY DEF Purgeable, Inv, Backed
<1>4. /\ row' \in [Events -> Row]
      /\ \A x \in Events : \/ row'[x].state = row[x].state
                           \/ x \in stream /\ row'[x].state = "purged"
  BY <1>1, <1>2, <1>3, Outset
<1> QED
  BY <1>4, Outset, RowsKeep DEF clean

LEMMA TickKeeps ==
    ASSUME Inv, Tick
    PROVE  Inv'
<1>1. ASSUME NEW e \in Events
      PROVE  Shorter(row[e].wait) \in 0..Longest /\ Shorter(row[e].keep) \in 0..Retention
  <2>1. row[e].wait \in 0..Longest /\ row[e].keep \in 0..Retention
    BY Outset DEF Row
  <2> QED
    BY <2>1, Delays DEF Shorter
<1>2. row' = [e \in Events |-> [row[e] EXCEPT !.wait = Shorter(row[e].wait), !.keep = Shorter(row[e].keep)]]
  BY Outset DEF Tick, Row
<1>3. row' \in [Events -> Row] /\ \A x \in Events : row'[x].state = row[x].state
  BY <1>1, <1>2, Outset DEF Row
<1> QED
  BY <1>3, Outset, RowsKeep DEF Tick

LEMMA OutboxStep == Inv /\ [Next]_vars => Inv'
<1> SUFFICES ASSUME Inv, [Next]_vars
             PROVE  Inv'
  OBVIOUS
<1>1. CASE UNCHANGED vars
  BY <1>1 DEF vars, Inv, TypeOK, Lived, Backed
<1>2. ASSUME NEW r \in Replicas,
             \/ start(r) \/ startFails(r) \/ cancel(r) \/ Crash(r) \/ WindDown(r)
             \/ \E g \in Goroutines : ConsumeFails(r, g)
      PROVE  Inv'
  BY <1>2, LifeCycleKeeps DEF LifeCycle, WindDown
<1>3. ASSUME NEW r \in Replicas, Work(r) \/ clean(r)
      PROVE  Inv'
  BY <1>3, DispatchKeeps, PublishKeeps, MarkKeeps, CleanKeeps DEF Work
<1>4. ASSUME NEW r \in Replicas, NEW e \in Events, PublishFails(r, e) \/ MarkFails(r, e)
      PROVE  Inv'
  BY <1>4, PublishFailsKeeps, MarkKeeps
<1> QED
  BY <1>1, <1>2, <1>3, <1>4, AppendKeeps, TickKeeps DEF Next

\* Nothing uses a bus that stop has closed, on any number of replicas and
\* wherever a stop or a failed start falls.
THEOREM NothingUsesClosedBus == Spec => []RuntimeInvariant
<1>1. Inv => RuntimeInvariant
  BY DEF Inv, Lived, RuntimeInvariant, NoUseAfterClose
<1> QED
  BY <1>1, OutboxInit, OutboxStep, PTL DEF Spec

-----------------------------------------------------------------------------
(* The refinement.  Under the invariant no event is lost, so that what      *)
(* StatusOf says depends on the stream and the presence of the row alone.   *)

Standing(e) ==
    IF e \in stream THEN "delivered"
    ELSE IF row[e].state = "absent" THEN "absent" ELSE "waiting"

LEMMA StatusKnown == Inv => \A e \in Events : StatusOf(e) = Standing(e)
<1> SUFFICES ASSUME Inv, NEW e \in Events
             PROVE  StatusOf(e) = Standing(e)
  OBVIOUS
<1>1. row[e].state \in {"absent", "pending"} \/ e \in stream
  BY DEF Inv, TypeOK, Backed
<1>2. CASE e \in stream
  BY <1>2, Zenon DEF StatusOf, Standing
<1>3. CASE e \notin stream /\ row[e].state = "absent"
  BY <1>3, Zenon DEF StatusOf, Standing
<1>4. CASE e \notin stream /\ row[e].state = "pending"
  <2>1. row[e].state # "absent"
    BY <1>4
  <2>2. StatusOf(e) = "waiting"
    BY <1>4, <2>1, Zenon DEF StatusOf
  <2> QED
    BY <1>4, <2>1, <2>2 DEF Standing
<1> QED
  BY <1>1, <1>2, <1>3, <1>4

LEMMA OutboxImplements ==
    ASSUME Inv, Inv', [Next]_vars
    PROVE  [Delivery!Next]_([e \in Events |-> StatusOf(e)])
<1> DEFINE status == [e \in Events |-> StatusOf(e)]
<1>1. status = [e \in Events |-> Standing(e)]
  BY StatusKnown
<1>2. (\A e \in Events : StatusOf(e) = Standing(e))'
  BY StatusKnown, PTL
<1>3. status' = [e \in Events |-> Standing(e)']
  BY <1>2
<1>4. ASSUME \A e \in Events : Standing(e)' = Standing(e)
      PROVE  status' = status
  BY <1>1, <1>3, <1>4
<1>5. ASSUME NEW e \in Events, Append(e)
      PROVE  Delivery!Commit(e)
  <2>1. Standing(e) = "absent" /\ Standing(e)' = "waiting"
    BY <1>5 DEF Append, Standing, Inv, TypeOK, Backed
  <2>2. \A x \in Events \ {e} : Standing(x)' = Standing(x)
    BY <1>5 DEF Append, Standing, Inv, TypeOK
  <2>3. status[e] = "absent" /\ status' = [status EXCEPT ![e] = "waiting"]
    BY <1>1, <1>3, <2>1, <2>2
  <2> QED
    BY <2>3 DEF Delivery!Commit
<1>6. ASSUME NEW r \in Replicas, NEW e \in Events, Publish(r, e) \/ PublishFails(r, e)
      PROVE  Delivery!Deliver(e) \/ status' = status
  <2>1. /\ stream' = stream \/ stream' = stream \cup {e}
        /\ \A x \in Events : row'[x].state = row[x].state
        /\ row[e].state # "absent"
    <3>1. stream' = stream \/ stream' = stream \cup {e}
      BY <1>6 DEF Publish, PublishFails
    <3>2. \A x \in Events : row'[x].state = row[x].state
      <4>1. row' = row \/ row' = [row EXCEPT ![e] = [row[e] EXCEPT !.wait = RetryDelay]]
        BY <1>6, Outset DEF Publish, PublishFails
      <4>2. [row[e] EXCEPT !.wait = RetryDelay].state = row[e].state
        BY Outset DEF Row
      <4> QED
        BY <4>1, <4>2, Outset
    <3>3. row[e].state # "absent"
      BY <1>6 DEF Publish, PublishFails, Inv, Backed
    <3> QED
      BY <3>1, <3>2, <3>3
  <2>2. CASE stream' = stream
    BY <1>4, <2>1, <2>2 DEF Standing
  <2>3. CASE e \notin stream /\ stream' = stream \cup {e}
    <3>1. Standing(e) = "waiting" /\ Standing(e)' = "delivered"
      BY <2>1, <2>3 DEF Standing
    <3>2. \A x \in Events \ {e} : Standing(x)' = Standing(x)
      BY <2>1, <2>3 DEF Standing
    <3>3. status[e] = "waiting" /\ status' = [status EXCEPT ![e] = "delivered"]
      BY <1>1, <1>3, <3>1, <3>2
    <3> QED
      BY <3>3 DEF Delivery!Deliver
  <2> QED
    BY <2>1, <2>2, <2>3
<1>7. ASSUME UNCHANGED stream, \A x \in Events : row'[x].state = "absent" <=> row[x].state = "absent"
      PROVE  status' = status
  BY <1>4, <1>7 DEF Standing
<1>8. ASSUME NEW r \in Replicas, NEW e \in Events, MarkPublished(r, e) \/ MarkFails(r, e)
      PROVE  status' = status
  BY <1>7, <1>8 DEF MarkPublished, MarkFails, Inv, TypeOK
<1>9. ASSUME NEW r \in Replicas, dispatch(r) \/ clean(r)
      PROVE  status' = status
  <2>1. CASE dispatch(r)
    <3>1. PICK batch \in SUBSET {e \in Events : Due(e)} :
              row' = [e \in Events |->
                        IF e \in batch THEN [row[e] EXCEPT !.wait = Lease] ELSE row[e]]
      BY <2>1 DEF dispatch
    <3>2. \A x \in Events : row'[x].state = row[x].state
      BY <3>1 DEF Inv, TypeOK
    <3> QED
      BY <1>7, <2>1, <3>2 DEF dispatch
  <2>2. CASE clean(r)
    <3>1. PICK batch \in SUBSET Purgeable :
              row' = [e \in Events |->
                        IF e \in batch THEN [row[e] EXCEPT !.state = "purged", !.wait = 0] ELSE row[e]]
      BY <2>2 DEF clean
    <3>2. \A x \in Events : row'[x].state = "absent" <=> row[x].state = "absent"
      BY <3>1, Outset, PurgedRow DEF Purgeable
    <3> QED
      BY <1>7, <2>2, <3>2 DEF clean
  <2> QED
    BY <1>9, <2>1, <2>2
<1>10. ASSUME Tick PROVE status' = status
  BY <1>7, <1>10 DEF Tick, Inv, TypeOK
<1>11. ASSUME NEW r \in Replicas,
              \/ start(r) \/ startFails(r) \/ cancel(r) \/ Crash(r) \/ WindDown(r)
              \/ \E g \in Goroutines : ConsumeFails(r, g)
       PROVE  status' = status
  BY <1>7, <1>11 DEF start, startFails, cancel, Crash, WindDown, stop, Return, ConsumeFails
<1>12. ASSUME UNCHANGED vars PROVE status' = status
  BY <1>7, <1>12 DEF vars
<1> HIDE DEF status
<1>13. (\E e \in Events : Delivery!Commit(e) \/ Delivery!Deliver(e)) \/ status' = status
  <2>1. CASE \E e \in Events : Append(e)
    BY <1>5, <2>1
  <2>2. ASSUME NEW r \in Replicas, Work(r)
        PROVE  (\E e \in Events : Delivery!Commit(e) \/ Delivery!Deliver(e)) \/ status' = status
    BY <1>6, <1>8, <1>9, <2>2 DEF Work
  <2>3. ASSUME NEW r \in Replicas, NEW e \in Events, PublishFails(r, e) \/ MarkFails(r, e)
        PROVE  Delivery!Deliver(e) \/ status' = status
    BY <1>6, <1>8, <2>3
  <2> QED
    <3>1. CASE Next
      <4>1. CASE Tick
        BY <1>10, <4>1
      <4>2. ASSUME NEW r \in Replicas,
                   \/ start(r) \/ startFails(r) \/ cancel(r) \/ Crash(r)
                   \/ Work(r) \/ WindDown(r) \/ clean(r)
                   \/ \E g \in Goroutines : ConsumeFails(r, g)
                   \/ \E e \in Events : PublishFails(r, e) \/ MarkFails(r, e)
            PROVE  (\E e \in Events : Delivery!Commit(e) \/ Delivery!Deliver(e)) \/ status' = status
        BY <1>9, <1>11, <2>2, <2>3, <4>2
      <4> QED
        BY <2>1, <3>1, <4>1, <4>2 DEF Next
    <3> QED
      BY <1>12, <3>1
<1> QED
  BY <1>13 DEF Delivery!Next, status

\* However dispatchers share the table, lose leases, crash between publishing
\* and marking and clean up behind one another, no committed event is lost on
\* its way and none is announced before it was committed: the outbox takes
\* the steps of EventDelivery only.
THEOREM NoEventLost == Spec => Delivery!Spec
<1>1. Init => Delivery!Init
  <2> SUFFICES ASSUME Init PROVE Delivery!Init
    OBVIOUS
  <2>1. \A e \in Events : Standing(e) = "absent"
    BY DEF Init, Standing
  <2>2. \A e \in Events : StatusOf(e) = "absent"
    BY <2>1, OutboxInit, StatusKnown
  <2> QED
    BY <2>2 DEF Delivery!Init
<1>2. Inv /\ Inv' /\ [Next]_vars => [Delivery!Next]_([e \in Events |-> StatusOf(e)])
  BY OutboxImplements
<1> QED
  BY <1>1, <1>2, OutboxInit, OutboxStep, PTL DEF Spec, Delivery!Spec

-----------------------------------------------------------------------------
(* An outbound client (module OutboundCall).  That a call takes effect at   *)
(* most once follows from how often it is sent: the attempts on the wire    *)
(* and at the upstream are different ones among those the retry loop made,  *)
(* and the loop makes another only below maxAttempts.  That a trip is       *)
(* earned follows from comparing the breaker's count with the history.      *)

CallState == [pc : {"idle", "send", "flight", "backoff", "returned"},
              attempt : 0..MaxAttempts, result : Results, current : BOOLEAN]
Breaker == [state : {"closed", "open", "half"}, failures : 0..(FailureThreshold - 1)]

\* How far the retry loop of c may be, and what can be at the upstream.
Tried(c) ==
    /\ call[c].attempt <= maxAttempts(c)
    /\ call[c].pc \in {"send", "backoff"} => call[c].attempt < maxAttempts(c)
    /\ call[c].pc = "idle" => call[c].attempt = 0
    /\ wire[c] \cup seen[c] \subseteq 1..call[c].attempt
    /\ wire[c] \cap seen[c] = {}
    /\ applied[c] <= Cardinality(seen[c])
    /\ CarriesKey(c) => applied[c] <= 1

\* A closed breaker counts no more failures than there were.
Counted == breaker.state = "closed" => breaker.failures <= charged

ClientInv ==
    /\ ClientTypeOK
    /\ \A c \in Calls : Tried(c)
    /\ Counted

\* The trip of the breaker in this step, if it is one, was earned.
Earned == breaker.state = "closed" /\ breaker'.state = "open" => charged' >= FailureThreshold

LEMMA Settings ==
    ASSUME ClientInv
    PROVE  /\ MaxAttempts \in 1..5 /\ FailureThreshold \in Nat /\ FailureThreshold >= 1
           /\ \A c \in Calls : maxAttempts(c) \in 1..MaxAttempts
BY ClientAssumption DEF validateClientPolicy, maxAttempts

LEMMA ClientTypes ==
    ASSUME ClientInv
    PROVE  /\ call \in [Calls -> CallState] /\ breaker \in Breaker
           /\ wire \in [Calls -> SUBSET (1..MaxAttempts)]
           /\ seen \in [Calls -> SUBSET (1..MaxAttempts)]
           /\ applied \in [Calls -> 0..MaxAttempts]
           /\ charged \in 0..FailureThreshold /\ healthy \in BOOLEAN
           /\ client \in {"http", "grpc"} /\ kind \in Mixes
BY DEF ClientInv, ClientTypeOK, CallState, Breaker

LEMMA ClientInitInv == ClientInit => ClientInv
<1> SUFFICES ASSUME ClientInit
             PROVE  ClientInv
  OBVIOUS
<1>1. /\ MaxAttempts \in 1..5 /\ FailureThreshold \in Nat /\ FailureThreshold >= 1
      /\ \A c \in Calls : maxAttempts(c) \in 1..MaxAttempts
  BY ClientAssumption DEF validateClientPolicy, maxAttempts
<1>2. Idle \in CallState
  BY <1>1 DEF Idle, CallState, Results
<1>3. call \in [Calls -> CallState]
  BY <1>2 DEF ClientInit
<1>4. breaker \in Breaker /\ 0 \in 0..MaxAttempts /\ 0 \in 0..FailureThreshold
  BY <1>1 DEF ClientInit, Breaker
<1>5. ClientTypeOK
  BY <1>3, <1>4 DEF ClientInit, ClientTypeOK, CallState, Breaker
<1>6. ASSUME NEW c \in Calls PROVE Tried(c)
  BY <1>1, FS_EmptySet DEF ClientInit, Tried, Idle
<1> QED
  BY <1>5, <1>6 DEF ClientInv, Counted, ClientInit

\* A step at which nothing is sent and nothing arrives.
LEMMA CallMoves ==
    ASSUME ClientInv, UNCHANGED <<client, kind, wire, seen, applied>>,
           call' \in [Calls -> CallState],
           \A d \in Calls : call'[d].attempt = call[d].attempt,
           \A d \in Calls : \/ call'[d].pc = call[d].pc
                           \/ call'[d].pc = "returned"
                           \/ /\ call'[d].pc \in {"send", "backoff"}
                              /\ call[d].attempt < maxAttempts(d),
           breaker' \in Breaker, charged' \in 0..FailureThreshold, healthy' \in BOOLEAN,
           Counted'
    PROVE  ClientInv'
<1>1. ClientTypeOK'
  BY ClientTypes DEF ClientTypeOK, CallState, Breaker
<1>2. ASSUME NEW c \in Calls PROVE Tried(c)'
  BY ClientTypes DEF ClientInv, Tried, maxAttempts, retryableMethod,
                     retryGRPCMethod, CarriesKey
<1> QED
  BY <1>1, <1>2 DEF ClientInv

\* The results a call can come to.
Ending(r) ==
    /\ r \in Results \ {"none", "rejected"}
    /\ r = "other" => client = "grpc"

\* What the breaker counts as a failure is one.
LEMMA CountedIsFailure ==
    ASSUME NEW r, Ending(r), r \notin IsExcluded \cup {"ok"}, client \in {"http", "grpc"}
    PROVE  r \in UpstreamFailures
BY DEF Ending, Results, IsExcluded, HTTPExcluded, GRPCExcluded,
       UpstreamFailures

\* The end of a call, as its caller and the breaker see it.
LEMMA ExecuteKeeps ==
    ASSUME ClientInv, NEW c \in Calls, NEW r, Ending(r), execute(c, r),
           UNCHANGED <<client, kind, wire, seen, applied, healthy>>
    PROVE  ClientInv' /\ Earned
<1> DEFINE calls == [call EXCEPT ![c] = [call[c] EXCEPT !.pc = "returned", !.result = r]]
<1> DEFINE fresh == [d \in Calls |-> [calls[d] EXCEPT !.current = FALSE]]
<1>0. /\ FailureThreshold \in Nat /\ FailureThreshold >= 1
      /\ breaker \in Breaker /\ charged \in 0..FailureThreshold /\ healthy \in BOOLEAN
      /\ call \in [Calls -> CallState] /\ client \in {"http", "grpc"}
  BY Settings, ClientTypes
<1>1. calls = [call EXCEPT ![c].pc = "returned", ![c].result = r]
  BY <1>0
<1>2. /\ \/ /\ ~call[c].current \/ r \in IsExcluded \cup MaybeExcluded
            /\ call' = calls /\ UNCHANGED breaker
         \/ /\ call[c].current /\ r = "ok"
            /\ OnSuccess(calls)
         \/ /\ call[c].current /\ r \notin IsExcluded \cup {"ok"}
            /\ OnFailure(calls)
      /\ Charge(c, r)
  BY <1>1 DEF execute
<1>3. call' = calls \/ call' = fresh
  BY <1>2 DEF OnSuccess, OnFailure, NewGeneration
<1>4. [call[c] EXCEPT !.pc = "returned", !.result = r] \in CallState
      /\ [call[c] EXCEPT !.pc = "returned", !.result = r].pc = "returned"
      /\ [call[c] EXCEPT !.pc = "returned", !.result = r].attempt = call[c].attempt
  BY <1>0 DEF CallState, Ending
<1>5. /\ calls \in [Calls -> CallState]
      /\ \A d \in Calls : calls[d].attempt = call[d].attempt
      /\ \A d \in Calls : calls[d].pc = call[d].pc \/ calls[d].pc = "returned"
  BY <1>0, <1>4
<1> HIDE DEF calls
<1>6. ASSUME NEW x \in CallState
      PROVE  /\ [x EXCEPT !.current = FALSE] \in CallState
             /\ [x EXCEPT !.current = FALSE].attempt = x.attempt
             /\ [x EXCEPT !.current = FALSE].pc = x.pc
  BY DEF CallState
<1>7. /\ fresh \in [Calls -> CallState]
      /\ \A d \in Calls : fresh[d].attempt = call[d].attempt
      /\ \A d \in Calls : fresh[d].pc = call[d].pc \/ fresh[d].pc = "returned"
  BY <1>5, <1>6
<1> HIDE DEF fresh
<1>8. charged' \in 0..FailureThreshold
  BY <1>0, <1>2 DEF Charge
<1>9. breaker' \in Breaker /\ Counted' /\ Earned
  <2>0. /\ breaker.state \in {"closed", "open", "half"} /\ breaker.failures \in 0..(FailureThreshold - 1)
        /\ breaker.state = "closed" => breaker.failures <= charged
    BY <1>0 DEF Breaker, ClientInv, Counted
  <2>1. charged' >= charged \/ breaker.state = "half"
    BY <1>0, <1>2 DEF Charge
  <2>2. CASE UNCHANGED breaker
    BY <1>0, <2>0, <2>1, <2>2, <1>8 DEF Counted, Earned
  <2>3. CASE OnSuccess(calls)
    <3>1. breaker' = [state |-> "closed", failures |-> 0] \/ breaker' = [breaker EXCEPT !.failures = 0]
      BY <2>3 DEF OnSuccess, NewGeneration
    <3>2. 0 \in 0..(FailureThreshold - 1)
      BY <1>0
    <3>3. /\ breaker' \in Breaker /\ breaker'.failures = 0
          /\ breaker'.state = "closed" \/ breaker'.state = breaker.state
      BY <1>0, <3>1, <3>2 DEF Breaker
    <3> QED
      BY <3>3, <1>8, <1>0 DEF Counted, Earned
  <2>4. ASSUME call[c].current, r \notin IsExcluded \cup {"ok"}, OnFailure(calls)
        PROVE  breaker' \in Breaker /\ Counted' /\ Earned
    <3>1. r \in UpstreamFailures
      BY <1>0, <2>4, CountedIsFailure
    <3>2. breaker.state # "half" =>
            charged' = IF charged < FailureThreshold THEN charged + 1 ELSE charged
      BY <1>2, <2>4, <3>1 DEF Charge
    <3>3. CASE breaker.state = "half" \/ breaker.failures + 1 >= FailureThreshold
      <4>1. breaker' = [state |-> "open", failures |-> 0]
        BY <2>4, <3>3 DEF OnFailure, NewGeneration, ReadyToTrip
      <4>2. 0 \in 0..(FailureThreshold - 1)
        BY <1>0
      <4>3. breaker' \in Breaker /\ breaker'.state = "open"
        BY <4>1, <4>2 DEF Breaker
      <4>4. breaker.state = "closed" => charged' >= FailureThreshold
        BY <1>0, <2>0, <3>2, <3>3
      <4> QED
        BY <4>3, <4>4 DEF Counted, Earned
    <3>4. CASE breaker.state # "half" /\ ~(breaker.failures + 1 >= FailureThreshold)
      <4>1. breaker' = [breaker EXCEPT !.failures = breaker.failures + 1]
        BY <2>4, <3>4 DEF OnFailure, ReadyToTrip
      <4>2. breaker.failures + 1 \in 0..(FailureThreshold - 1)
        BY <1>0, <2>0, <3>4
      <4>3. breaker' \in Breaker /\ breaker'.state = breaker.state
            /\ breaker'.failures = breaker.failures + 1
        BY <1>0, <4>1, <4>2 DEF Breaker
      <4>4. breaker.state = "closed" => breaker.failures + 1 <= charged'
        BY <1>0, <2>0, <3>2, <3>4
      <4> QED
        BY <4>3, <4>4 DEF Counted, Earned
    <3> QED
      BY <3>3, <3>4
  <2> QED
    BY <1>2, <2>2, <2>3, <2>4
<1> QED
  BY <1>0, <1>3, <1>5, <1>7, <1>8, <1>9, CallMoves

\* The breaker is left alone.
LEMMA NoTrip == ASSUME ClientInv, UNCHANGED <<breaker, charged>> PROVE Earned /\ Counted'
BY DEF Earned, Counted, ClientInv

\* A call is let in, refused, or goes on after a back-off or into one.
LEMMA PlaceKeeps ==
    ASSUME ClientInv, NEW c \in Calls, NEW x \in CallState,
           call' = [call EXCEPT ![c] = x], x.attempt = call[c].attempt,
           \/ x.pc = "returned"
           \/ x.pc \in {"send", "backoff"} /\ call[c].attempt < maxAttempts(c),
           UNCHANGED <<client, kind, wire, seen, applied, breaker, charged, healthy>>
    PROVE  ClientInv' /\ Earned
<1>1. /\ call' \in [Calls -> CallState]
      /\ \A d \in Calls : call'[d] = IF d = c THEN x ELSE call[d]
  BY ClientTypes
<1>2. Earned /\ Counted'
  BY NoTrip
<1> QED
  BY <1>1, <1>2, ClientTypes, CallMoves

LEMMA EnterKeeps ==
    ASSUME ClientInv, NEW c \in Calls, Enter(c) \/ Reject(c), UNCHANGED <<client, kind>>
    PROVE  ClientInv' /\ Earned
<1>0. call \in [Calls -> CallState] /\ call[c].attempt = 0 /\ 0 < maxAttempts(c)
  BY ClientTypes, Settings DEF Enter, Reject, ClientInv, Tried
<1>1. CASE Enter(c)
  <2> DEFINE x == [call[c] EXCEPT !.pc = "send", !.current = TRUE]
  <2>1. x \in CallState /\ x.attempt = call[c].attempt /\ x.pc = "send"
    BY <1>0 DEF CallState
  <2>2. call' = [call EXCEPT ![c] = x]
    BY <1>0, <1>1 DEF Enter
  <2> HIDE DEF x
  <2> QED
    BY <1>0, <1>1, <2>1, <2>2, PlaceKeeps DEF Enter
<1>2. CASE Reject(c)
  <2> DEFINE x == [call[c] EXCEPT !.pc = "returned", !.result = "rejected"]
  <2>1. x \in CallState /\ x.attempt = call[c].attempt /\ x.pc = "returned"
    BY <1>0 DEF CallState, Results
  <2>2. call' = [call EXCEPT ![c] = x]
    BY <1>0, <1>2 DEF Reject
  <2> HIDE DEF x
  <2> QED
    BY <1>2, <2>1, <2>2, PlaceKeeps DEF Reject
<1> QED
  BY <1>1, <1>2

LEMMA BackoffKeeps ==
    ASSUME ClientInv, NEW c \in Calls, NEW pc \in {"send", "backoff"},
           call' = [call EXCEPT ![c].pc = pc], call[c].attempt < maxAttempts(c),
           UNCHANGED <<client, kind, wire, seen, applied, breaker, charged, healthy>>
    PROVE  ClientInv' /\ Earned
<1> DEFINE x == [call[c] EXCEPT !.pc = pc]
<1>1. x \in CallState /\ x.attempt = call[c].attempt /\ x.pc = pc
  BY ClientTypes DEF CallState
<1>2. call' = [call EXCEPT ![c] = x]
  BY ClientTypes
<1> HIDE DEF x
<1> QED
  BY <1>1, <1>2, PlaceKeeps

\* The body of the retry loop.
LEMMA RetryKeeps ==
    ASSUME ClientInv, NEW c \in Calls, NEW r, Ending(r), doWithRetry(c, r),
           UNCHANGED <<client, kind, wire, seen, applied, healthy>>
    PROVE  ClientInv' /\ Earned
<1>1. CASE execute(c, r)
  BY <1>1, ExecuteKeeps
<1>2. CASE /\ call[c].attempt < maxAttempts(c)
           /\ call' = [call EXCEPT ![c].pc = "backoff"]
           /\ UNCHANGED <<breaker, charged>>
  BY <1>2, BackoffKeeps
<1> QED
  BY <1>1, <1>2 DEF doWithRetry

\* The attempt that is sent has not been sent before.
LEMMA SendKeeps ==
    ASSUME ClientInv, NEW c \in Calls, Send(c), UNCHANGED <<client, kind>>
    PROVE  ClientInv' /\ Earned
<1> DEFINE n == call[c].attempt + 1
<1> DEFINE x == [call[c] EXCEPT !.pc = "flight", !.attempt = n]
<1>0. /\ call \in [Calls -> CallState] /\ wire \in [Calls -> SUBSET (1..MaxAttempts)]
      /\ call[c].attempt \in 0..MaxAttempts
      /\ maxAttempts(c) \in 1..MaxAttempts /\ MaxAttempts \in Nat
  BY ClientTypes, Settings DEF CallState
<1>1. n \in 1..MaxAttempts /\ n \in 0..MaxAttempts /\ n <= maxAttempts(c)
  BY <1>0 DEF ClientInv, Tried, Send
<1>2. call' = [call EXCEPT ![c] = x] /\ wire' = [wire EXCEPT ![c] = wire[c] \cup {n}]
  BY <1>0 DEF Send
<1>3. x \in CallState /\ x.pc = "flight" /\ x.attempt = n
  BY <1>0, <1>1 DEF CallState
<1> HIDE DEF x
<1>4. call' \in [Calls -> CallState] /\ wire' \in [Calls -> SUBSET (1..MaxAttempts)]
  BY <1>0, <1>1, <1>2, <1>3
<1>5. ClientTypeOK'
  BY <1>4, ClientTypes DEF ClientTypeOK, CallState, Breaker, Send
<1>6. Tried(c)'
  <2>1. /\ call'[c] = x /\ wire'[c] = wire[c] \cup {n} /\ seen'[c] = seen[c] /\ applied'[c] = applied[c]
        /\ maxAttempts(c)' = maxAttempts(c) /\ CarriesKey(c)' = CarriesKey(c)
    BY <1>0, <1>2 DEF Send, maxAttempts, retryableMethod,
                      retryGRPCMethod, CarriesKey
  <2>2. /\ wire[c] \cup seen[c] \subseteq 1..call[c].attempt /\ wire[c] \cap seen[c] = {}
        /\ applied[c] <= Cardinality(seen[c]) /\ (CarriesKey(c) => applied[c] <= 1)
    BY DEF ClientInv, Tried
  <2>3. (wire[c] \cup {n}) \cup seen[c] \subseteq 1..n /\ (wire[c] \cup {n}) \cap seen[c] = {}
    BY <1>0, <2>2
  <2> QED
    BY <1>1, <1>3, <2>1, <2>2, <2>3 DEF Tried
<1>7. ASSUME NEW d \in Calls \ {c} PROVE Tried(d)'
  BY <1>0, <1>2 DEF ClientInv, Tried, Send, maxAttempts, retryableMethod,
                    retryGRPCMethod, CarriesKey
<1>8. Earned /\ Counted'
  BY NoTrip DEF Send
<1> QED
  BY <1>5, <1>6, <1>7, <1>8 DEF ClientInv

LEMMA FirstAttempts ==
    ASSUME NEW n \in Nat
    PROVE  IsFiniteSet(1..n) /\ Cardinality(1..n) = n
<1>1. 1 \in Int /\ n \in Int
  OBVIOUS
<1>2. IsFiniteSet(1..n) /\ Cardinality(1..n) = IF 1 > n THEN 0 ELSE n - 1 + 1
  BY <1>1, FS_Interval, Zenon
<1>3. (IF 1 > n THEN 0 ELSE n - 1 + 1) = n
  OBVIOUS
<1> QED
  BY <1>2, <1>3

\* An attempt arrives once.
LEMMA ArriveKeeps ==
    ASSUME ClientInv, NEW c \in Calls, NEW k \in 1..MaxAttempts, Arrive(c, k),
           UNCHANGED <<client, kind>>
    PROVE  ClientInv' /\ Earned
<1>0. /\ wire \in [Calls -> SUBSET (1..MaxAttempts)] /\ seen \in [Calls -> SUBSET (1..MaxAttempts)]
      /\ applied \in [Calls -> 0..MaxAttempts] /\ applied[c] \in Nat
      /\ call[c].attempt \in 0..MaxAttempts /\ MaxAttempts \in Nat
  BY ClientTypes, Settings DEF CallState
<1>1. /\ wire' = [wire EXCEPT ![c] = wire[c] \ {k}] /\ seen' = [seen EXCEPT ![c] = seen[c] \cup {k}]
      /\ k \in wire[c] /\ UNCHANGED <<call, breaker, charged, healthy>>
  BY <1>0 DEF Arrive
<1>2. /\ wire[c] \cup seen[c] \subseteq 1..call[c].attempt /\ wire[c] \cap seen[c] = {}
      /\ applied[c] <= Cardinality(seen[c]) /\ (CarriesKey(c) => applied[c] <= 1)
  BY DEF ClientInv, Tried
<1>3. IsFiniteSet(1..call[c].attempt) /\ Cardinality(1..call[c].attempt) = call[c].attempt
  BY <1>0, FirstAttempts
<1>4. IsFiniteSet(seen[c]) /\ Cardinality(seen[c]) \in Nat
  BY <1>2, <1>3, FS_Subset, FS_CardinalityType
<1>5. Cardinality(seen[c] \cup {k}) = Cardinality(seen[c]) + 1
  BY <1>1, <1>2, <1>4, FS_AddElement
<1>6. Cardinality(seen[c] \cup {k}) <= call[c].attempt
  BY <1>1, <1>2, <1>3, FS_Subset
<1>7. /\ applied'[c] \in Nat /\ applied'[c] <= applied[c] + 1
      /\ CarriesKey(c) => applied'[c] <= 1
      /\ \A d \in Calls \ {c} : applied'[d] = applied[d]
      /\ DOMAIN applied' = Calls /\ applied' = [d \in Calls |-> applied'[d]]
  <2>1. CASE UNCHANGED applied
    BY <1>0, <1>2, <2>1
  <2>2. CASE applied' = [applied EXCEPT ![c] = IF CarriesKey(c) /\ applied[c] > 0
                                               THEN applied[c] ELSE applied[c] + 1]
    <3> DEFINE m == IF CarriesKey(c) /\ applied[c] > 0 THEN applied[c] ELSE applied[c] + 1
    <3>1. m \in Nat /\ m <= applied[c] + 1 /\ (CarriesKey(c) => m <= 1)
      BY <1>0, <1>2
    <3>2. applied' = [applied EXCEPT ![c] = m]
      BY <2>2
    <3> HIDE DEF m
    <3> QED
      BY <1>0, <3>1, <3>2
  <2> QED
    BY <1>0, <2>1, <2>2 DEF Arrive
<1>8. applied'[c] <= Cardinality(seen[c] \cup {k}) /\ applied'[c] \in 0..MaxAttempts
  BY <1>0, <1>2, <1>4, <1>5, <1>6, <1>7
<1>9. applied' \in [Calls -> 0..MaxAttempts]
  BY <1>0, <1>7, <1>8
<1>10. ClientTypeOK'
  <2>1. wire' \in [Calls -> SUBSET (1..MaxAttempts)] /\ seen' \in [Calls -> SUBSET (1..MaxAttempts)]
    BY <1>0, <1>1
  <2> QED
    BY <1>1, <1>9, <2>1, ClientTypes DEF ClientTypeOK, CallState, Breaker
<1>11. Tried(c)'
  <2>1. /\ wire'[c] = wire[c] \ {k} /\ seen'[c] = seen[c] \cup {k} /\ call'[c] = call[c]
        /\ maxAttempts(c)' = maxAttempts(c) /\ CarriesKey(c)' = CarriesKey(c)
    BY <1>0, <1>1 DEF maxAttempts, retryableMethod, retryGRPCMethod,
                      CarriesKey
  <2>2. /\ (wire[c] \ {k}) \cup (seen[c] \cup {k}) \subseteq 1..call[c].attempt
        /\ (wire[c] \ {k}) \cap (seen[c] \cup {k}) = {}
    BY <1>1, <1>2
  <2>3. /\ call[c].attempt <= maxAttempts(c)
        /\ call[c].pc \in {"send", "backoff"} => call[c].attempt < maxAttempts(c)
        /\ call[c].pc = "idle" => call[c].attempt = 0
    BY DEF ClientInv, Tried
  <2> QED
    BY <1>7, <1>8, <2>1, <2>2, <2>3 DEF Tried
<1>12. ASSUME NEW d \in Calls \ {c} PROVE Tried(d)'
  BY <1>0, <1>1, <1>7 DEF ClientInv, Tried, maxAttempts, retryableMethod,
                          retryGRPCMethod, CarriesKey
<1>13. Earned /\ Counted'
  BY <1>1, NoTrip
<1> QED
  BY <1>10, <1>11, <1>12, <1>13 DEF ClientInv

LEMMA CallAgainKeeps ==
    ASSUME ClientInv, NEW c \in Calls, CallAgain(c), UNCHANGED <<client, kind>>
    PROVE  ClientInv' /\ Earned
<1>0. 0 \in 0..MaxAttempts /\ maxAttempts(c) \in 1..MaxAttempts /\ MaxAttempts \in Nat
  BY Settings
<1>1. Idle \in CallState
  BY <1>0 DEF Idle, CallState, Results
<1>2. /\ call' \in [Calls -> CallState] /\ applied' \in [Calls -> 0..MaxAttempts]
      /\ wire' \in [Calls -> SUBSET (1..MaxAttempts)] /\ seen' \in [Calls -> SUBSET (1..MaxAttempts)]
  BY <1>0, <1>1, ClientTypes DEF CallAgain
<1>3. ClientTypeOK'
  BY <1>2, ClientTypes DEF ClientTypeOK, CallState, Breaker, CallAgain
<1>4. Tried(c)'
  <2>1. /\ call'[c] = Idle /\ wire'[c] = {} /\ seen'[c] = {} /\ applied'[c] = 0
        /\ maxAttempts(c)' = maxAttempts(c)
    BY ClientTypes DEF CallAgain, maxAttempts, retryableMethod,
                       retryGRPCMethod
  <2> QED
    BY <1>0, <2>1, FS_EmptySet DEF Tried, Idle
<1>5. ASSUME NEW d \in Calls \ {c} PROVE Tried(d)'
  BY ClientTypes DEF ClientInv, Tried, CallAgain, maxAttempts, retryableMethod,
                     retryGRPCMethod, CarriesKey
<1>6. Earned /\ Counted'
  BY NoTrip DEF CallAgain
<1> QED
  BY <1>3, <1>4, <1>5, <1>6 DEF ClientInv

LEMMA TimeoutKeeps ==
    ASSUME ClientInv, OpenTimeout, UNCHANGED <<client, kind>>
    PROVE  ClientInv' /\ Earned
<1>1. call' = [d \in Calls |-> [call[d] EXCEPT !.current = FALSE]]
      /\ breaker' = [state |-> "half", failures |-> 0]
  BY DEF OpenTimeout, NewGeneration
<1>2. ASSUME NEW x \in CallState
      PROVE  /\ [x EXCEPT !.current = FALSE] \in CallState
             /\ [x EXCEPT !.current = FALSE].attempt = x.attempt
             /\ [x EXCEPT !.current = FALSE].pc = x.pc
  BY DEF CallState
<1>3. /\ call' \in [Calls -> CallState]
      /\ \A d \in Calls : call'[d].attempt = call[d].attempt /\ call'[d].pc = call[d].pc
  BY <1>1, <1>2, ClientTypes
<1>4. 0 \in 0..(FailureThreshold - 1)
  BY Settings
<1>5. breaker' \in Breaker /\ breaker'.state = "half"
  BY <1>1, <1>4 DEF Breaker
<1>6. Earned /\ Counted'
  BY <1>5 DEF Earned, Counted
<1> QED
  BY <1>3, <1>5, <1>6, ClientTypes, CallMoves DEF OpenTimeout

LEMMA ClientStep ==
    ASSUME ClientInv, ClientNext
    PROVE  ClientInv' /\ Earned
<1>1. ASSUME NEW c \in Calls, BadPath(c), UNCHANGED <<client, kind>>
      PROVE  ClientInv' /\ Earned
  <2>1. Ending("invalid")
    BY DEF Ending, Results
  <2> QED
    BY <1>1, <2>1, ExecuteKeeps DEF BadPath
<1>2. ASSUME NEW c \in Calls, Reply(c), UNCHANGED <<client, kind>>
      PROVE  ClientInv' /\ Earned
  <2>1. PICK r \in Answers : doWithRetry(c, r)
    BY <1>2 DEF Reply
  <2>2. Ending(r)
    BY DEF Ending, Answers, Results
  <2> QED
    BY <1>2, <2>1, <2>2, RetryKeeps DEF Reply
<1>3. ASSUME NEW c \in Calls, TransportError(c), UNCHANGED <<client, kind>>
      PROVE  ClientInv' /\ Earned
  <2>1. Ending("error")
    BY DEF Ending, Results
  <2> QED
    BY <1>3, <2>1, RetryKeeps DEF TransportError
<1>4. ASSUME NEW c \in Calls, waitBackoff(c), UNCHANGED <<client, kind>>
      PROVE  ClientInv' /\ Earned
  <2>1. call[c].attempt < maxAttempts(c)
    BY <1>4 DEF waitBackoff, ClientInv, Tried
  <2> QED
    BY <1>4, <2>1, BackoffKeeps DEF waitBackoff
<1>5. ASSUME NEW c \in Calls, ContextDone(c) \/ waitRetry(c), UNCHANGED <<client, kind>>
      PROVE  ClientInv' /\ Earned
  <2>1. PICK r \in {"deadline", "lapsed", "cancelled"} : execute(c, r)
    BY <1>5 DEF ContextDone, waitRetry
  <2>2. Ending(r)
    BY DEF Ending, Results
  <2> QED
    BY <1>5, <2>1, <2>2, ExecuteKeeps DEF ContextDone, waitRetry
<1>6. ASSUME UpstreamRecovers, UNCHANGED <<client, kind>>
      PROVE  ClientInv' /\ Earned
  <2>1. Earned /\ Counted'
    BY <1>6, NoTrip DEF UpstreamRecovers
  <2>2. healthy' \in BOOLEAN
    BY <1>6 DEF UpstreamRecovers
  <2> QED
    BY <1>6, <2>1, <2>2, ClientTypes, CallMoves DEF UpstreamRecovers
<1>7. ASSUME NEW c \in Calls, Progress(c)
      PROVE  ClientInv' /\ Earned
  BY <1>1, <1>2, <1>3, <1>4, <1>5, <1>7, EnterKeeps, SendKeeps, ArriveKeeps, CallAgainKeeps
     DEF Progress, Step
<1> QED
  BY <1>6, <1>7, TimeoutKeeps DEF ClientNext, Environment

LEMMA ClientKeeps == ClientInv /\ [ClientNext]_clientVars => ClientInv'
<1> SUFFICES ASSUME ClientInv, [ClientNext]_clientVars
             PROVE  ClientInv'
  OBVIOUS
<1>1. CASE UNCHANGED clientVars
  BY <1>1, ClientTypes, NoTrip, CallMoves DEF clientVars
<1> QED
  BY <1>1, ClientStep

\* However retries, timeouts and late arrivals fall, what is not idempotent
\* takes effect at most once, and the breaker counts within its threshold.
THEOREM AtMostOnce == ClientSpec => []CallInvariant
<1>1. ClientInv => CallInvariant
  <2> SUFFICES ASSUME ClientInv, NEW c \in Calls,
                      kind[c] # "get", ~(client = "http" /\ kind[c] = "keyed")
               PROVE  applied[c] <= 1
    BY DEF ClientInv, CallInvariant, EffectOnce
  <2>1. CASE CarriesKey(c)
    BY <2>1 DEF ClientInv, Tried
  <2>2. CASE ~CarriesKey(c)
    <3>1. kind[c] \notin {"get", "keyed"}
      BY <2>2, ClientTypes DEF CarriesKey, GRPCForwardsKey
    <3>2. maxAttempts(c) = 1
      BY <3>1 DEF maxAttempts, retryableMethod, retryGRPCMethod
    <3>3. seen[c] \subseteq 1..1 /\ applied[c] <= Cardinality(seen[c]) /\ applied[c] \in Nat
      BY <3>2, ClientTypes, Settings DEF ClientInv, Tried, CallState
    <3>4. IsFiniteSet(1..1) /\ Cardinality(1..1) = 1
      BY FirstAttempts
    <3>5. Cardinality(seen[c]) <= 1 /\ Cardinality(seen[c]) \in Nat
      BY <3>3, <3>4, FS_Subset, FS_CardinalityType
    <3> QED
      BY <3>3, <3>5
  <2> QED
    BY <2>1, <2>2
<1> QED
  BY <1>1, ClientInitInv, ClientKeeps, PTL DEF ClientSpec

\* A closed breaker opens only after as many failed calls as its threshold
\* says.
THEOREM TripsEarned == ClientSpec => TripIsEarned
<1>1. ClientInv /\ [ClientNext]_clientVars
        => [breaker.state = "closed" /\ breaker'.state = "open"
              => charged' >= FailureThreshold]_clientVars
  BY ClientStep DEF Earned
<1> QED
  BY <1>1, ClientInitInv, ClientKeeps, PTL DEF ClientSpec, TripIsEarned

=============================================================================
