--------------------------- MODULE GroupProjection ---------------------------
(***************************************************************************)
(* internal/authorization/group_projection.go: the durable consumer        *)
(* "authorization-tenant-groups-v1" applies GroupChanged events of         *)
(* tenant-service to authorization_subject_groups.                         *)
(*                                                                         *)
(* The stream hands out an event until it is acknowledged: an event may    *)
(* reach several replicas at once, in any order, and again after it was    *)
(* applied.  Apply runs one transaction                                    *)
(*    record the event id -> upsert the row -> bump the version -> commit  *)
(* and each of its statements is a step.  What a statement wrote stays     *)
(* locked until the transaction ends; a second statement on the same key   *)
(* waits and then sees what was committed.                                 *)
(***************************************************************************)
EXTENDS Naturals, FiniteSets

CONSTANTS
    Events,     \* envelopes with an event id
    Keys,       \* (tenant, membership, group)
    Tenants,
    KeyOf,      \* the key an event is about
    SubjectOf,  \* (tenant, membership) of a key: what the cache is keyed by
    TenantOf,   \* the tenant of a key
    ChangeOf,   \* change_type of an event, see Changes
    StampOf,    \* occurred_at; 0, the epoch, when the envelope has none
    Handlers,   \* concurrent invocations of Apply, each in a replica of its own
    NoEvent,
    MaxFaults   \* bound: faults in a behaviour

\* "other": another change type, or a field is missing; "undecodable": the
\* payload is not a GroupChangedEvent.
Changes == {"member_added", "member_removed", "other", "undecodable"}

ASSUME ProjectionAssumption ==
    /\ KeyOf \in [Events -> Keys]
    /\ TenantOf \in [Keys -> Tenants]
    /\ ChangeOf \in [Events -> Changes]
    /\ StampOf \in [Events -> Nat]
    /\ NoEvent \notin Events
    /\ MaxFaults \in Nat

VARIABLES
    pending,    \* events the stream has not seen acknowledged
    processed,  \* authorization_processed_events
    member,     \* authorization_subject_groups
    version,    \* authorization_policy_versions, counted from the start
    owed,       \* history: <<c, e>> if e is committed and c's replica has not
                \* dropped the cached decisions of its subject since
    h,          \* h[c]: the invocation c is executing
    faults      \* faults so far

vars == <<pending, processed, member, version, owed, h, faults>>
stored == <<processed, member, version>>

Status == {"absent", "active", "removed"}
Row == [status : Status, stamp : Nat]
Absent == [status |-> "absent", stamp |-> 0]

PC == {"idle", "received", "marked", "upserted", "bumped", "applied", "handled"}
Handler == [pc : PC, event : Events \cup {NoEvent}, image : Row, pv : Nat]
Idle == [pc |-> "idle", event |-> NoEvent, image |-> Absent, pv |-> 0]

\* The events that say something about a membership.
Effective == {e \in Events : ChangeOf[e] \in {"member_added", "member_removed"}}

\* The switch over the change type.
StatusOf == [e \in Events |-> IF ChangeOf[e] = "member_added" THEN "active" ELSE "removed"]

InTx(c) == h[c].pc \in {"marked", "upserted", "bumped"}
HoldsEvent(c, e) == InTx(c) /\ h[c].event = e
HoldsKey(c, k) == h[c].pc \in {"upserted", "bumped"} /\ KeyOf[h[c].event] = k
HoldsVersion(c, t) == h[c].pc = "bumped" /\ TenantOf[KeyOf[h[c].event]] = t

Goto(c, pc) == h' = [h EXCEPT ![c].pc = pc]
Release(c) == h' = [h EXCEPT ![c] = Idle]
Fault == faults < MaxFaults /\ faults' = faults + 1

-----------------------------------------------------------------------------
(* The stream.                                                             *)

\* The event was not acknowledged in time, or never delivered so far.
Deliver(c, e) ==
    /\ h[c].pc = "idle"
    /\ e \in pending
    /\ h' = [h EXCEPT ![c] = [Idle EXCEPT !.pc = "received", !.event = e]]
    /\ UNCHANGED <<pending, owed, stored, faults>>

\* Apply returned nil.
Acknowledge(c) ==
    /\ h[c].pc = "handled"
    /\ pending' = pending \ {h[c].event}
    /\ Release(c)
    /\ UNCHANGED <<owed, stored, faults>>

-----------------------------------------------------------------------------
(* Apply.                                                                  *)

\* Another change type or a missing field: nil, before any transaction.
Ignore(c) ==
    /\ h[c].pc = "received"
    /\ ChangeOf[h[c].event] = "other"
    /\ Goto(c, "handled")
    /\ UNCHANGED <<pending, owed, stored, faults>>

\* Seeded fault: a duplicate returns before the subject is invalidated.
MarkAndForget(c) ==
    /\ h[c].pc = "received"
    /\ h[c].event \in Effective
    /\ \A d \in Handlers \ {c} : ~HoldsEvent(d, h[c].event)
    /\ Goto(c, IF h[c].event \in processed THEN "handled" ELSE "marked")
    /\ UNCHANGED <<pending, owed, stored, faults>>

\* INSERT ... ON CONFLICT DO NOTHING / INSERT IGNORE: an event id that is
\* already recorded ends the transaction without a change and without error.
MarkProcessed(c) ==
    /\ h[c].pc = "received"
    /\ h[c].event \in Effective
    /\ \A d \in Handlers \ {c} : ~HoldsEvent(d, h[c].event)
    /\ Goto(c, IF h[c].event \in processed THEN "applied" ELSE "marked")
    /\ UNCHANGED <<pending, owed, stored, faults>>

\* Seeded fault: the event that is processed last decides.
LastArrived(row, e) == [status |-> StatusOf[e], stamp |-> StampOf[e]]

\* The row the upsert leaves: an older event changes nothing.
Upserted(row, e) ==
    IF row.status = "absent" \/ StampOf[e] >= row.stamp
    THEN [status |-> StatusOf[e], stamp |-> StampOf[e]]
    ELSE row

UpsertMembershipGroup(c) ==
    /\ h[c].pc = "marked"
    /\ \A d \in Handlers \ {c} : ~HoldsKey(d, KeyOf[h[c].event])
    /\ h' = [h EXCEPT ![c].pc = "upserted",
                      ![c].image = Upserted(member[KeyOf[h[c].event]], h[c].event)]
    /\ UNCHANGED <<pending, owed, stored, faults>>

BumpPolicyVersion(c) ==
    LET t == TenantOf[KeyOf[h[c].event]]
    IN  /\ h[c].pc = "upserted"
        /\ \A d \in Handlers \ {c} : ~HoldsVersion(d, t)
        /\ h' = [h EXCEPT ![c].pc = "bumped", ![c].pv = version[t] + 1]
        /\ UNCHANGED <<pending, owed, stored, faults>>

\* What the database makes visible.
Store(c) ==
    LET e == h[c].event
        k == KeyOf[e]
    IN  /\ processed' = processed \cup {e}
        /\ member' = [member EXCEPT ![k] = h[c].image]
        /\ version' = [version EXCEPT ![TenantOf[k]] = h[c].pv]
        /\ owed' = owed \cup (Handlers \X {e})

Commit(c) ==
    /\ h[c].pc = "bumped"
    /\ Store(c)
    /\ Goto(c, "applied")
    /\ UNCHANGED <<pending, faults>>

\* The commit takes effect and its acknowledgement is lost: Apply returns an
\* error, the subject is not invalidated, the event is delivered again.
CommitUnacknowledged(c) ==
    /\ h[c].pc = "bumped"
    /\ Fault
    /\ Store(c)
    /\ Release(c)
    /\ UNCHANGED pending

\* After the transaction, whether or not it changed anything: the map of
\* this replica only, nothing is published.
InvalidateSubject(c) ==
    /\ h[c].pc = "applied"
    /\ owed' = {o \in owed : \/ o[1] # c
                            \/ SubjectOf[KeyOf[o[2]]] # SubjectOf[KeyOf[h[c].event]]}
    /\ Goto(c, "handled")
    /\ UNCHANGED <<pending, stored, faults>>

\* The payload cannot be decoded: an error, and another delivery.
Reject(c) ==
    /\ h[c].pc = "received"
    /\ ChangeOf[h[c].event] = "undecodable"
    /\ Release(c)
    /\ UNCHANGED <<pending, owed, stored, faults>>

\* A database error, the end of the context or of the process, or an
\* acknowledgement that is lost: an open transaction is rolled back and the
\* event stays pending.
Fail(c) ==
    /\ h[c].pc # "idle"
    /\ Fault
    /\ Release(c)
    /\ UNCHANGED <<pending, owed, stored>>

-----------------------------------------------------------------------------

Init ==
    /\ pending \in SUBSET Events
    /\ processed = {}
    /\ member = [k \in Keys |-> Absent]
    /\ version = [t \in Tenants |-> 0]
    /\ owed = {}
    /\ h = [c \in Handlers |-> Idle]
    /\ faults = 0

Progress(c) ==
    \/ Ignore(c)
    \/ Reject(c)
    \/ MarkProcessed(c)
    \/ UpsertMembershipGroup(c)
    \/ BumpPolicyVersion(c)
    \/ Commit(c)
    \/ InvalidateSubject(c)
    \/ Acknowledge(c)

\* Everything is acknowledged.
Drained ==
    /\ pending = {}
    /\ \A c \in Handlers : h[c].pc = "idle"
    /\ UNCHANGED vars

Next ==
    \/ \E c \in Handlers :
        \/ Progress(c)
        \/ CommitUnacknowledged(c)
        \/ Fail(c)
        \/ \E e \in Events : Deliver(c, e)
    \/ Drained

-----------------------------------------------------------------------------
(* Properties.                                                             *)

\* Every variable has its type.
TypeOK ==
    /\ pending \subseteq Events
    /\ processed \subseteq Events
    /\ member \in [Keys -> Row]
    /\ version \in [Tenants -> Nat]
    /\ owed \subseteq Handlers \X Events
    /\ h \in [Handlers -> Handler]
    /\ faults \in 0..MaxFaults

\* upsertMembershipGroup: whatever was delivered twice, late, out of order or
\* to two replicas at once, the row of a membership says what the newest of
\* the recorded events about it said (one of the newest, when several carry
\* the same time).
NewestWins ==
    \A k \in Keys :
        LET about == {e \in processed : KeyOf[e] = k}
        IN  IF about = {} THEN member[k] = Absent
            ELSE \E e \in about :
                    /\ member[k] = [status |-> StatusOf[e], stamp |-> StampOf[e]]
                    /\ \A f \in about : StampOf[f] <= StampOf[e]

\* An event leaves the stream only after the replica that acknowledges it has
\* dropped its subject's cached decisions at a time the row was committed,
\* even when another replica committed it without an acknowledgement and this
\* delivery finds it recorded.  The other replicas drop theirs when they
\* expire or a poll differs (module DecisionCache).
AcknowledgedIsInvalidated ==
    \A e \in processed \ pending : \E c \in Handlers : <<c, e>> \notin owed

\* Apply, retried: every event about a membership is applied and leaves the
\* stream, however often its deliveries fail.
EveryEventApplied ==
    \A e \in Effective : e \in pending ~> e \in processed \ pending

\* The interleaved transactions look like a register written in one step.
Register == INSTANCE MembershipRegister WITH
                Events <- Effective, StatusOf <- StatusOf,
                member <- member, version <- version, applied <- processed
ImplementsMembershipRegister == Register!Spec

=============================================================================
