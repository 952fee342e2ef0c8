------------------------- MODULE ProjectionsProofs ---------------------------
(***************************************************************************)
(* Both durable consumers and the management API beside them, for any      *)
(* events, keys, tenants and number of concurrent deliveries: the group    *)
(* transactions look like single steps of a register, the newest event     *)
(* wins, an owner is granted all or nothing, each change makes one policy  *)
(* version, and an event that is acknowledged was invalidated.             *)
(*                                                                         *)
(* The invariant says what the locks are for: an event, a row and a        *)
(* version are in the hands of one transaction at a time, of whichever     *)
(* consumer, so what a transaction read is still true when it commits.     *)
(***************************************************************************)
EXTENDS Projections, FiniteSetTheorems, TLAPS

TenantIn(c) == TenantOf[KeyOf[h[c].event]]

\* What is known of the invocation c.
HandlerInv(c) ==
    /\ h[c].pc # "idle" =>
         /\ h[c].event \in Events
         /\ h[c].event \in Effective \ processed => h[c].event \in pending
    /\ InTx(c) => h[c].event \in Effective \ processed
    /\ h[c].pc \in {"upserted", "bumped"} =>
         h[c].image = Upserted(member[KeyOf[h[c].event]], h[c].event)
    /\ h[c].pc = "bumped" => h[c].pv = version[TenantIn(c)] + 1
    /\ h[c].pc = "applied" => h[c].event \in processed
    /\ h[c].pc = "handled" =>
         /\ <<c, h[c].event>> \notin owed
         /\ h[c].event \in Effective => h[c].event \in processed

\* No two transactions hold the same event, row or version.
Exclusive ==
    \A c, d \in Handlers : c # d =>
      /\ InTx(c) /\ InTx(d) => h[c].event # h[d].event
      /\ \A k \in Keys : ~(HoldsKey(c, k) /\ HoldsKey(d, k))
      /\ \A t \in Tenants : ~(HoldsVersion(c, t) /\ HoldsVersion(d, t))

StoreInv ==
    /\ IsFiniteSet(processed) /\ processed \subseteq Effective
    /\ owed \subseteq Handlers \X processed
    /\ NewestWins /\ AcknowledgedIsInvalidated

Inv == TypeOK /\ Exclusive /\ StoreInv /\ \A c \in Handlers : HandlerInv(c)

LEMMA HandlerType ==
    ASSUME Inv, NEW c \in Handlers
    PROVE  /\ h[c] \in Handler /\ h[c].pc \in PC
           /\ h[c].event \in Events \cup {NoEvent} /\ h[c].image \in Row /\ h[c].pv \in Nat
BY DEF Inv, TypeOK, Handler

\* The upsert leaves a row.
LEMMA UpsertedType ==
    ASSUME NEW e \in Events, NEW rw \in Row
    PROVE  Upserted(rw, e) \in Row
BY ProjectionAssumption DEF Upserted, StatusOf, Row, Status

LEMMA InitInv == Init => Inv
<1> SUFFICES ASSUME Init
             PROVE  Inv
  OBVIOUS
<1>1. \A c \in Handlers : h[c] = Idle
  BY DEF Init
<1>2. Idle \in Handler /\ Absent \in Row
  BY DEF Idle, Handler, PC, Absent, Row, Status
<1>3. TypeOK
  BY <1>2, ProjectionAssumption DEF Init, TypeOK
<1>4. Exclusive
  BY <1>1 DEF Exclusive, InTx, HoldsKey, HoldsVersion, Idle
<1>5. StoreInv
  <2>1. IsFiniteSet({}) /\ Cardinality({}) = 0
    BY FS_EmptySet
  <2>2. NewestWins
    BY DEF Init, NewestWins
  <2> QED
    BY <2>1, <2>2 DEF Init, StoreInv, AcknowledgedIsInvalidated, Effective
<1>6. \A c \in Handlers : HandlerInv(c)
  BY <1>1 DEF HandlerInv, InTx, Idle
<1> QED
  BY <1>3, <1>4, <1>5, <1>6 DEF Inv

-----------------------------------------------------------------------------
(* Steps that change one invocation and nothing the database keeps.        *)

\* What such a step may do to the stream and to the invalidations owed.
Settles ==
    /\ pending' \subseteq pending /\ pending \cap (Effective \ processed) \subseteq pending'
    /\ owed' \subseteq owed
    /\ \A e \in processed \ pending' : \E c \in Handlers : <<c, e>> \notin owed'

LEMMA NothingSettles ==
    ASSUME Inv, UNCHANGED <<pending, owed>>
    PROVE  Settles
BY DEF Inv, StoreInv, AcknowledgedIsInvalidated, Settles

LEMMA OneHandler ==
    ASSUME Inv, NEW c \in Handlers, NEW H \in Handler,
           h' = [h EXCEPT ![c] = H],
           UNCHANGED <<processed, member, version>>, Settles, faults' \in 0..MaxFaults,
           HandlerInv(c)',
           \A d \in Handlers \ {c} :
             /\ InTx(c)' /\ InTx(d) => H.event # h[d].event
             /\ \A k \in Keys : ~(HoldsKey(c, k)' /\ HoldsKey(d, k))
             /\ \A t \in Tenants : ~(HoldsVersion(c, t)' /\ HoldsVersion(d, t))
    PROVE  Inv'
<1>1. h'[c] = H /\ \A d \in Handlers \ {c} : h'[d] = h[d]
  BY DEF Inv, TypeOK
<1>2. TypeOK'
  BY DEF Inv, TypeOK, Settles
<1>3. /\ \A d \in Handlers \ {c} : InTx(d)' = InTx(d)
      /\ \A d \in Handlers \ {c}, k \in Keys : HoldsKey(d, k)' = HoldsKey(d, k)
      /\ \A d \in Handlers \ {c}, t \in Tenants : HoldsVersion(d, t)' = HoldsVersion(d, t)
  BY <1>1 DEF InTx, HoldsKey, HoldsVersion
<1>4. Exclusive'
  BY <1>1, <1>3 DEF Inv, Exclusive
<1>5. StoreInv'
  BY DEF Inv, StoreInv, NewestWins, AcknowledgedIsInvalidated, Settles, Effective
<1>6. \A d \in Handlers \ {c} : HandlerInv(d)'
  BY <1>1, <1>3 DEF Inv, HandlerInv, TenantIn, Upserted, StatusOf, Effective, Settles
<1> QED
  BY <1>2, <1>4, <1>5, <1>6 DEF Inv

\* Outside its transaction an invocation holds nothing.
LEMMA OutsideTx ==
    ASSUME Inv, NEW c \in Handlers, NEW H \in Handler,
           h' = [h EXCEPT ![c] = H],
           UNCHANGED <<processed, member, version>>, Settles, faults' \in 0..MaxFaults,
           H.pc \notin {"marked", "upserted", "bumped"},
           HandlerInv(c)'
    PROVE  Inv'
<1>1. h'[c] = H
  BY DEF Inv, TypeOK
<1>2. ~InTx(c)' /\ (\A k \in Keys : ~HoldsKey(c, k)') /\ (\A t \in Tenants : ~HoldsVersion(c, t)')
  BY <1>1 DEF InTx, HoldsKey, HoldsVersion
<1> QED
  BY <1>2, OneHandler

LEMMA ReleaseInv ==
    ASSUME Inv, NEW c \in Handlers, Release(c),
           UNCHANGED <<processed, member, version>>, Settles, faults' \in 0..MaxFaults
    PROVE  Inv'
<1>1. h'[c] = Idle
  BY DEF Release, Inv, TypeOK
<1>2. Idle \in Handler /\ Idle.pc = "idle"
  BY DEF Idle, Handler, PC, Absent, Row, Status
<1>3. HandlerInv(c)'
  BY <1>1, <1>2 DEF HandlerInv, InTx
<1> QED
  BY <1>2, <1>3, OutsideTx DEF Release

LEMMA DeliverInv ==
    ASSUME Inv, NEW c \in Handlers, NEW e \in Events, Deliver(c, e)
    PROVE  Inv'
<1> DEFINE H == [Idle EXCEPT !.pc = "received", !.event = e]
<1>1. H \in Handler /\ H.pc = "received" /\ H.event = e
  BY DEF Idle, Handler, PC, Absent, Row, Status
<1>2. h' = [h EXCEPT ![c] = H] /\ h'[c] = H
  BY DEF Deliver, Inv, TypeOK
<1> HIDE DEF H
<1>3. HandlerInv(c)'
  BY <1>1, <1>2 DEF HandlerInv, InTx, Deliver
<1>4. Settles /\ UNCHANGED <<processed, member, version>> /\ faults' \in 0..MaxFaults
  BY NothingSettles DEF Deliver, stored, Inv, TypeOK
<1> QED
  BY <1>1, <1>2, <1>3, <1>4, OutsideTx

\* Going on to another place outside the transaction.
LEMMA GotoInv ==
    ASSUME Inv, NEW c \in Handlers, NEW pc \in {"applied", "handled"}, Goto(c, pc),
           UNCHANGED <<processed, member, version>>, Settles, faults' \in 0..MaxFaults,
           h[c].event \in Events,
           pc = "applied" => h[c].event \in processed,
           h[c].event \in Effective \ processed => h[c].event \in pending',
           pc = "handled" => <<c, h[c].event>> \notin owed' /\ (h[c].event \in Effective => h[c].event \in processed)
    PROVE  Inv'
<1> DEFINE H == [h[c] EXCEPT !.pc = pc]
<1>1. H \in Handler /\ H.pc = pc /\ H.event = h[c].event
  BY HandlerType DEF Handler, PC
<1>2. h' = [h EXCEPT ![c] = H] /\ h'[c] = H
  BY DEF Goto, Inv, TypeOK
<1> HIDE DEF H
<1>3. HandlerInv(c)'
  BY <1>1, <1>2 DEF HandlerInv, InTx, Effective
<1> QED
  BY <1>1, <1>2, <1>3, OutsideTx

LEMMA IgnoreInv ==
    ASSUME Inv, NEW c \in Handlers, Ignore(c)
    PROVE  Inv'
<1>1. h[c].event \in Events /\ h[c].event \notin Effective
  BY DEF Ignore, Inv, HandlerInv, Effective
<1>2. <<c, h[c].event>> \notin owed
  BY <1>1 DEF Inv, StoreInv
<1>3. Settles /\ UNCHANGED <<processed, member, version, owed>> /\ faults' \in 0..MaxFaults
  BY NothingSettles DEF Ignore, stored, Inv, TypeOK
<1> QED
  BY <1>1, <1>2, <1>3, GotoInv DEF Ignore

LEMMA InvalidateInv ==
    ASSUME Inv, NEW c \in Handlers, InvalidateSubject(c)
    PROVE  Inv'
<1>1. h[c].event \in Events /\ h[c].event \in processed
  BY DEF InvalidateSubject, Inv, HandlerInv
<1>2. owed' \subseteq owed /\ <<c, h[c].event>> \notin owed'
  BY DEF InvalidateSubject
<1>3. Settles
  BY <1>2 DEF InvalidateSubject, Settles, Inv, StoreInv, AcknowledgedIsInvalidated
<1>4. UNCHANGED <<processed, member, version>> /\ faults' \in 0..MaxFaults
  BY DEF InvalidateSubject, stored, Inv, TypeOK
<1> QED
  BY <1>1, <1>2, <1>3, <1>4, GotoInv DEF InvalidateSubject

LEMMA AcknowledgeInv ==
    ASSUME Inv, NEW c \in Handlers, Acknowledge(c)
    PROVE  Inv'
<1>1. <<c, h[c].event>> \notin owed /\ (h[c].event \in Effective => h[c].event \in processed)
  BY DEF Acknowledge, Inv, HandlerInv
<1>2. Settles
  BY <1>1 DEF Acknowledge, Settles, Inv, StoreInv, AcknowledgedIsInvalidated
<1>3. UNCHANGED <<processed, member, version>> /\ faults' \in 0..MaxFaults
  BY DEF Acknowledge, stored, Inv, TypeOK
<1> QED
  BY <1>2, <1>3, ReleaseInv DEF Acknowledge

-----------------------------------------------------------------------------
(* The transaction.                                                        *)

LEMMA MarkInv ==
    ASSUME Inv, NEW c \in Handlers, MarkProcessed(c)
    PROVE  Inv'
<1>1. h[c].event \in Effective /\ h[c].event \in Events
  BY DEF MarkProcessed, Effective
<1>2. Settles /\ UNCHANGED <<processed, member, version>> /\ faults' \in 0..MaxFaults
  BY NothingSettles DEF MarkProcessed, stored, Inv, TypeOK
<1>3. CASE h[c].event \in processed
  BY <1>1, <1>2, <1>3, GotoInv DEF MarkProcessed
<1>4. CASE h[c].event \notin processed
  <2> DEFINE H == [h[c] EXCEPT !.pc = "marked"]
  <2>1. H \in Handler /\ H.pc = "marked" /\ H.event = h[c].event
    BY HandlerType DEF Handler, PC
  <2>2. h' = [h EXCEPT ![c] = H] /\ h'[c] = H
    BY <1>4 DEF MarkProcessed, Goto, Inv, TypeOK
  <2> HIDE DEF H
  <2>3. h[c].event \in pending' /\ h[c].event \in Effective \ processed'
    BY <1>1, <1>2, <1>4 DEF MarkProcessed, Inv, HandlerInv
  <2>4. HandlerInv(c)'
    BY <1>1, <2>1, <2>2, <2>3 DEF HandlerInv, InTx, Effective
  <2>5. \A d \in Handlers \ {c} : InTx(d) => H.event # h[d].event
    BY <2>1 DEF MarkProcessed, HoldsEvent
  <2>6. (\A k \in Keys : ~HoldsKey(c, k)') /\ (\A t \in Tenants : ~HoldsVersion(c, t)')
    BY <2>1, <2>2 DEF HoldsKey, HoldsVersion
  <2> QED
    BY <1>2, <2>1, <2>2, <2>4, <2>5, <2>6, OneHandler
<1> QED
  BY <1>3, <1>4

LEMMA UpsertInv ==
    ASSUME Inv, NEW c \in Handlers, UpsertMembershipGroup(c)
    PROVE  Inv'
<1> DEFINE e == h[c].event
           H == [h[c] EXCEPT !.pc = "upserted", !.image = Upserted(member[KeyOf[e]], e)]
<1>1. e \in Effective \ processed /\ e \in Events /\ InTx(c) /\ e \in pending'
  BY DEF UpsertMembershipGroup, Inv, HandlerInv, InTx, Effective
<1>2. Upserted(member[KeyOf[e]], e) \in Row
  BY <1>1, UpsertedType, ProjectionAssumption DEF Inv, TypeOK
<1>3. H \in Handler /\ H.pc = "upserted" /\ H.event = e /\ H.image = Upserted(member[KeyOf[e]], e)
  BY <1>2, HandlerType DEF Handler, PC
<1>4. h' = [h EXCEPT ![c] = H] /\ h'[c] = H
  BY DEF UpsertMembershipGroup, Inv, TypeOK
<1>5. Settles /\ UNCHANGED <<processed, member, version>> /\ faults' \in 0..MaxFaults
  BY NothingSettles DEF UpsertMembershipGroup, stored, Inv, TypeOK
<1> HIDE DEF H
<1>6. HandlerInv(c)'
  BY <1>1, <1>3, <1>4, <1>5 DEF HandlerInv, InTx, Effective, Upserted, StatusOf
<1>7. \A d \in Handlers \ {c} : InTx(d) => H.event # h[d].event
  BY <1>1, <1>3 DEF Inv, Exclusive
<1>8. \A d \in Handlers \ {c}, k \in Keys : ~(HoldsKey(c, k)' /\ HoldsKey(d, k))
  BY <1>3, <1>4 DEF UpsertMembershipGroup, HoldsKey
<1>9. \A t \in Tenants : ~HoldsVersion(c, t)'
  BY <1>3, <1>4 DEF HoldsVersion
<1> QED
  BY <1>3, <1>4, <1>5, <1>6, <1>7, <1>8, <1>9, OneHandler

LEMMA BumpInv ==
    ASSUME Inv, NEW c \in Handlers, BumpPolicyVersion(c)
    PROVE  Inv'
<1> DEFINE e == h[c].event
           H == [h[c] EXCEPT !.pc = "bumped", !.pv = version[TenantIn(c)] + 1]
<1>1. e \in Effective \ processed /\ e \in Events /\ InTx(c) /\ e \in pending'
  BY DEF BumpPolicyVersion, Inv, HandlerInv, InTx, Effective
<1>2. version[TenantIn(c)] + 1 \in Nat
  BY <1>1, ProjectionAssumption DEF Inv, TypeOK, TenantIn
<1>3. /\ H \in Handler /\ H.pc = "bumped" /\ H.event = e
      /\ H.image = h[c].image /\ H.pv = version[TenantIn(c)] + 1
  BY <1>2, HandlerType DEF Handler, PC
<1>4. h' = [h EXCEPT ![c] = H] /\ h'[c] = H
  BY DEF BumpPolicyVersion, Inv, TypeOK, TenantIn
<1>5. Settles /\ UNCHANGED <<processed, member, version>> /\ faults' \in 0..MaxFaults
  BY NothingSettles DEF BumpPolicyVersion, stored, Inv, TypeOK
<1>6. h[c].image = Upserted(member[KeyOf[e]], e)
  BY DEF BumpPolicyVersion, Inv, HandlerInv
<1> HIDE DEF H
<1>7. HandlerInv(c)'
  BY <1>1, <1>3, <1>4, <1>5, <1>6 DEF HandlerInv, InTx, Effective, Upserted, StatusOf, TenantIn
<1>8. \A d \in Handlers \ {c} : InTx(d) => H.event # h[d].event
  BY <1>1, <1>3 DEF Inv, Exclusive
<1>9. \A d \in Handlers \ {c}, k \in Keys : ~(HoldsKey(c, k)' /\ HoldsKey(d, k))
  BY <1>3, <1>4 DEF BumpPolicyVersion, HoldsKey, Inv, Exclusive
<1>10. \A d \in Handlers \ {c}, t \in Tenants : ~(HoldsVersion(c, t)' /\ HoldsVersion(d, t))
  BY <1>3, <1>4 DEF BumpPolicyVersion, HoldsVersion
<1> QED
  BY <1>3, <1>4, <1>5, <1>7, <1>8, <1>9, <1>10, OneHandler

\* What is true when a transaction commits: nobody has changed what it read.
LEMMA BumpedFacts ==
    ASSUME Inv, NEW c \in Handlers, h[c].pc = "bumped"
    PROVE  /\ h[c].event \in Effective /\ h[c].event \in Events /\ h[c].event \notin processed
           /\ h[c].event \in pending
           /\ KeyOf[h[c].event] \in Keys /\ TenantIn(c) \in Tenants
           /\ h[c].image = Upserted(member[KeyOf[h[c].event]], h[c].event)
           /\ h[c].pv = version[TenantIn(c)] + 1
BY ProjectionAssumption DEF Inv, StoreInv, HandlerInv, InTx, Effective, TenantIn

\* upsertMembershipGroup keeps the newest event of a key in its row.
LEMMA NewestStays ==
    ASSUME Inv, NEW c \in Handlers, h[c].pc = "bumped", Store(c)
    PROVE  NewestWins'
<1> DEFINE e == h[c].event
           k == KeyOf[e]
           About(j) == {f \in processed : KeyOf[f] = j}
           Said(f) == [status |-> StatusOf[f], stamp |-> StampOf[f]]
<1>1. e \in Events /\ k \in Keys /\ processed \subseteq Events
  BY BumpedFacts DEF Inv, TypeOK
<1>2. processed' = processed \cup {e} /\ member' = [member EXCEPT ![k] = Upserted(member[k], e)]
  BY BumpedFacts DEF Store
<1>3. \A f \in Events : StampOf[f] \in Nat /\ StatusOf[f] \in {"active", "removed"}
  BY ProjectionAssumption DEF StatusOf
<1>4. ASSUME NEW j \in Keys
      PROVE  IF About(j) = {} THEN member[j] = Absent
             ELSE \E f \in About(j) : member[j] = Said(f) /\ \A x \in About(j) : StampOf[x] <= StampOf[f]
  BY DEF Inv, StoreInv, NewestWins
<1>5. ASSUME NEW j \in Keys
      PROVE  IF About(j)' = {} THEN member'[j] = Absent
             ELSE \E f \in About(j)' : member'[j] = Said(f) /\ \A x \in About(j)' : StampOf[x] <= StampOf[f]
  <2>1. CASE j # k
    <3>1. About(j)' = About(j) /\ member'[j] = member[j]
      BY <1>2, <2>1 DEF Inv, TypeOK
    <3> QED
      BY <1>4, <3>1
  <2>2. CASE j = k
    <3>1. About(j)' = About(j) \cup {e} /\ member'[j] = Upserted(member[j], e)
      BY <1>1, <1>2, <2>2 DEF Inv, TypeOK
    <3>2. CASE About(j) = {}
      <4>1. member'[j] = Said(e)
        BY <1>1, <1>4, <2>2, <3>1, <3>2 DEF Upserted, Absent
      <4> QED
        BY <1>1, <1>3, <2>2, <3>1, <3>2, <4>1
    <3>3. CASE About(j) # {}
      <4>1. PICK f \in About(j) : member[j] = Said(f) /\ \A x \in About(j) : StampOf[x] <= StampOf[f]
        BY <1>1, <1>4, <3>3
      <4>2. f \in Events /\ member[j].status # "absent" /\ member[j].stamp = StampOf[f]
        BY <1>1, <1>3, <4>1
      <4>3. CASE StampOf[e] >= StampOf[f]
        <5>1. member'[j] = Said(e)
          BY <3>1, <4>2, <4>3 DEF Upserted
        <5>2. \A x \in About(j)' : StampOf[x] <= StampOf[e]
          BY <1>1, <1>3, <3>1, <4>1, <4>2, <4>3
        <5> QED
          BY <2>2, <3>1, <5>1, <5>2
      <4>4. CASE ~(StampOf[e] >= StampOf[f])
        <5>1. member'[j] = Said(f)
          BY <3>1, <4>1, <4>2, <4>4 DEF Upserted
        <5>2. \A x \in About(j)' : StampOf[x] <= StampOf[f]
          BY <1>1, <1>3, <3>1, <4>1, <4>2, <4>4
        <5> QED
          BY <2>2, <3>1, <4>1, <5>1, <5>2
      <4> QED
        BY <4>3, <4>4
    <3> QED
      BY <3>2, <3>3
  <2> QED
    BY <2>1, <2>2
<1> QED
  BY <1>5 DEF NewestWins, StatusOf

\* The recorded events stay finitely many.
LEMMA FinitelyMany ==
    ASSUME Inv, NEW c \in Handlers, h[c].pc = "bumped", Store(c)
    PROVE  IsFiniteSet(processed')
BY BumpedFacts, FS_AddElement DEF Store, Inv, StoreInv

LEMMA StoreStepInv ==
    ASSUME Inv, NEW c \in Handlers, h[c].pc = "bumped", Store(c),
           Goto(c, "applied") \/ Release(c), UNCHANGED pending, faults' \in 0..MaxFaults
    PROVE  Inv'
<1> DEFINE e == h[c].event
           k == KeyOf[e]
           t == TenantIn(c)
<1>1. /\ processed' = processed \cup {e} /\ owed' = owed \cup (Handlers \X {e})
      /\ member' = [member EXCEPT ![k] = h[c].image]
      /\ version' = [version EXCEPT ![t] = h[c].pv]
  BY DEF Store, TenantIn
<1>2. /\ h'[c] \in Handler /\ \A d \in Handlers \ {c} : h'[d] = h[d]
      /\ h' \in [Handlers -> Handler]
      /\ h'[c].pc \in {"applied", "idle"} /\ (h'[c].pc = "applied" => h'[c].event = e)
  <2>1. CASE Goto(c, "applied")
    BY <2>1, HandlerType DEF Goto, Inv, TypeOK, Handler, PC
  <2>2. CASE Release(c)
    BY <2>2 DEF Release, Inv, TypeOK, Idle, Handler, PC, Absent, Row, Status
  <2> QED
    BY <2>1, <2>2
<1>3. TypeOK'
  BY <1>1, <1>2, BumpedFacts, HandlerType DEF Inv, TypeOK
<1>4. /\ ~InTx(c)' /\ (\A j \in Keys : ~HoldsKey(c, j)') /\ (\A u \in Tenants : ~HoldsVersion(c, u)')
      /\ \A d \in Handlers \ {c} : InTx(d)' = InTx(d)
      /\ \A d \in Handlers \ {c}, j \in Keys : HoldsKey(d, j)' = HoldsKey(d, j)
      /\ \A d \in Handlers \ {c}, u \in Tenants : HoldsVersion(d, u)' = HoldsVersion(d, u)
  BY <1>2 DEF InTx, HoldsKey, HoldsVersion
<1>5. Exclusive'
  BY <1>2, <1>4 DEF Inv, Exclusive
<1>6. StoreInv'
  <2>1. /\ processed' \subseteq Effective /\ owed' \subseteq Handlers \X processed'
        /\ AcknowledgedIsInvalidated'
    BY <1>1, BumpedFacts DEF Inv, StoreInv, AcknowledgedIsInvalidated
  <2> QED
    BY <2>1, NewestStays, FinitelyMany DEF StoreInv, Effective
<1>7. HandlerInv(c)'
  BY <1>1, <1>2, <1>4, BumpedFacts DEF HandlerInv
<1>8. ASSUME NEW d \in Handlers \ {c}
      PROVE  HandlerInv(d)'
  <2>1. HandlerInv(d) /\ h'[d] = h[d]
    BY <1>2 DEF Inv
  <2>2. h[d].pc # "idle" =>
          /\ h[d].event \in Events
          /\ h[d].event \in Effective \ processed' => h[d].event \in pending'
    BY <1>1, <2>1 DEF HandlerInv
  <2>3. InTx(d) => h[d].event \in Effective \ processed'
    BY <1>1, <2>1 DEF HandlerInv, Inv, Exclusive, InTx
  <2>4. h[d].pc \in {"upserted", "bumped"} => member'[KeyOf[h[d].event]] = member[KeyOf[h[d].event]]
    BY <1>1, BumpedFacts DEF Inv, Exclusive, HoldsKey, TypeOK
  <2>5. h[d].pc = "bumped" => version'[TenantIn(d)] = version[TenantIn(d)]
    BY <1>1, BumpedFacts DEF Inv, Exclusive, HoldsVersion, TypeOK, TenantIn
  <2>6. h[d].pc = "handled" => <<d, h[d].event>> \notin owed'
    BY <1>1, <2>1, BumpedFacts DEF HandlerInv
  <2> QED
    BY <1>1, <1>4, <2>1, <2>2, <2>3, <2>4, <2>5, <2>6
    DEF HandlerInv, TenantIn, Upserted, StatusOf, Effective
<1> QED
  BY <1>3, <1>5, <1>6, <1>7, <1>8 DEF Inv

LEMMA StepInv == Inv /\ [Next]_vars => Inv'
<1> SUFFICES ASSUME Inv, [Next]_vars
             PROVE  Inv'
  OBVIOUS
<1>0. faults \in 0..MaxFaults /\ (Fault => faults' \in 0..MaxFaults)
  BY ProjectionAssumption DEF Inv, TypeOK, Fault
<1>1. ASSUME NEW c \in Handlers, Commit(c) \/ CommitUnacknowledged(c)
      PROVE  Inv'
  BY <1>0, <1>1, StoreStepInv DEF Commit, CommitUnacknowledged
<1>2. ASSUME NEW c \in Handlers, Reject(c) \/ Fail(c)
      PROVE  Inv'
  <2>1. Settles /\ UNCHANGED <<processed, member, version>>
    BY <1>2, NothingSettles DEF Reject, Fail, stored
  <2> QED
    BY <1>0, <1>2, <2>1, ReleaseInv DEF Reject, Fail
<1>3. ASSUME UNCHANGED vars
      PROVE  Inv'
  <2>1. TypeOK'
    BY <1>3 DEF vars, Inv, TypeOK
  <2>2. Exclusive'
    BY <1>3 DEF vars, Inv, Exclusive, InTx, HoldsKey, HoldsVersion
  <2>3. StoreInv'
    BY <1>3 DEF vars, Inv, StoreInv, NewestWins, AcknowledgedIsInvalidated, Effective
  <2>4. \A c \in Handlers : HandlerInv(c)'
    BY <1>3 DEF vars, Inv, HandlerInv, InTx, TenantIn, Upserted, StatusOf, Effective
  <2> QED
    BY <2>1, <2>2, <2>3, <2>4 DEF Inv
<1>4. CASE Drained
  BY <1>3, <1>4 DEF Drained
<1> QED
  BY <1>1, <1>2, <1>3, <1>4, DeliverInv, AcknowledgeInv, IgnoreInv, MarkInv, UpsertInv, BumpInv,
     InvalidateInv DEF Next, Progress


-----------------------------------------------------------------------------
(* Refinement: the commit is the step of the register.                     *)

LEMMA CommitTakesEffect ==
    ASSUME Inv, NEW c \in Handlers, Commit(c) \/ CommitUnacknowledged(c)
    PROVE  Register!Next
<1> DEFINE e == h[c].event
<1>1. h[c].pc = "bumped" /\ Store(c)
  BY DEF Commit, CommitUnacknowledged
<1>2. /\ e \in Effective /\ e \notin processed /\ KeyOf[e] \in Keys
      /\ h[c].image = Register!Merged(member[KeyOf[e]], e)
      /\ h[c].pv = version[TenantOf[KeyOf[e]]] + 1
  BY <1>1, BumpedFacts DEF Upserted, Register!Merged, TenantIn
<1>3. Register!TakeEffect(e)
  BY <1>1, <1>2 DEF Store, Register!TakeEffect
<1> QED
  BY <1>2, <1>3 DEF Register!Next

LEMMA StepImplements == Inv /\ [Next]_vars => [Register!Next]_(Register!vars)
<1> SUFFICES ASSUME Inv, [Next]_vars
             PROVE  Register!Next \/ UNCHANGED Register!vars
  OBVIOUS
<1>1. ASSUME NEW c \in Handlers, Commit(c) \/ CommitUnacknowledged(c)
      PROVE  Register!Next
  BY <1>1, CommitTakesEffect
<1>2. ASSUME NEW c \in Handlers,
             \/ Ignore(c) \/ Reject(c) \/ MarkProcessed(c) \/ UpsertMembershipGroup(c)
             \/ BumpPolicyVersion(c) \/ InvalidateSubject(c) \/ Acknowledge(c) \/ Fail(c)
             \/ \E e \in Events : Deliver(c, e)
      PROVE  UNCHANGED <<member, version, processed>>
  BY <1>2 DEF Ignore, Reject, MarkProcessed, UpsertMembershipGroup, BumpPolicyVersion,
     InvalidateSubject, Acknowledge, Fail, Deliver, stored
<1>3. CASE Drained \/ UNCHANGED vars
  BY <1>3 DEF Drained, vars, Register!vars
<1> QED
  BY <1>1, <1>2, <1>3 DEF Next, Progress, Register!vars

-----------------------------------------------------------------------------
(* The bootstrap of a tenant's owner.                                      *)

Own(c, r) == Tenant!Own(c, r)
Mine(r) == reserved[r] \in {"active", "revoked"}
Foreign(r) == reserved[r] = "foreign"

\* What the transaction of c has settled after each of its statements.
StageInv(c) ==
    /\ g[c].pc \in {"permission", "role", "pair", "binding", "bumped"} =>
         Own(c, Tenant!Permission) \/ Foreign(Tenant!Permission)
    /\ g[c].pc \in {"role", "pair", "binding", "bumped"} =>
         Own(c, Tenant!Role) \/ Foreign(Tenant!Role)
    /\ g[c].pc \in {"pair", "binding", "bumped"} =>
         \/ Own(c, Tenant!Permission) /\ Own(c, Tenant!Role) /\ Own(c, Tenant!Pair)
         \/ driver = "mysql" /\ (Foreign(Tenant!Permission) \/ Foreign(Tenant!Role))
    /\ g[c].pc \in {"binding", "bumped"} =>
         \/ Own(c, OwnerOf[g[c].event])
         \/ driver = "mysql" /\ Foreign(Tenant!Role)

\* What the transaction of c wrote is not there yet for the others, and the
\* rows it references are.
WroteInv(c) ==
    /\ g[c].pc \in {"idle", "received", "marked"} => g[c].wrote = {}
    /\ Tenant!InTx(c) =>
         /\ g[c].event \in TenantEvents \ bootstrapped
         /\ OwnerOf[g[c].event] \in Members
         /\ \A r \in g[c].wrote : reserved[r] = "absent" /\ \A p \in Tenant!Parents(r) : Own(c, p)
    /\ g[c].pc = "received" => g[c].event \in TenantEvents
    /\ g[c].pc = "bumped" => g[c].pv = version[NewTenant] + 1

\* Two transactions share neither an event, nor a row, nor the version.
Apart ==
    \A c, d \in Handlers : c # d =>
      /\ Tenant!InTx(c) /\ Tenant!InTx(d) =>
           g[c].event # g[d].event /\ g[c].wrote \cap g[d].wrote = {}
      /\ ~(g[c].pc = "bumped" /\ g[d].pc = "bumped")

\* The committed rows: a row references rows of its own kind, and only a
\* permission and a role can have been created under another id.
RowsInv ==
    /\ \A r \in Tenant!Rows : Mine(r) => \A p \in Tenant!Parents(r) : Mine(p)
    /\ \A r \in Tenant!Rows \ {Tenant!Permission, Tenant!Role} : ~Foreign(r)
    /\ IsFiniteSet(bootstrapped)
    /\ \A e \in bootstrapped : OwnerOf[e] \in Members

BootInv ==
    /\ Tenant!TypeOK /\ Tenant!GrantIsWhole /\ Apart /\ RowsInv
    /\ \A c \in Handlers : StageInv(c) /\ WroteInv(c)

\* The reserved rows and what they reference.
LEMMA RowFacts ==
    /\ {Tenant!Permission, Tenant!Role, Tenant!Pair} \subseteq Tenant!Rows
    /\ Members \subseteq Tenant!Rows
    /\ Tenant!Permission # Tenant!Role /\ Tenant!Permission # Tenant!Pair
    /\ Tenant!Role # Tenant!Pair
    /\ Tenant!Parents(Tenant!Pair) = {Tenant!Permission, Tenant!Role}
    /\ Tenant!Parents(Tenant!Permission) = {} /\ Tenant!Parents(Tenant!Role) = {}
    /\ \A m \in Members :
         /\ Tenant!Parents(m) = {Tenant!Role}
         /\ m \notin {Tenant!Permission, Tenant!Role, Tenant!Pair}
BY TenantAssumption DEF Tenant!BootstrapAssumption, Tenant!Rows, Tenant!Parents,
   Tenant!Permission, Tenant!Role, Tenant!Pair

\* What a row references is a row.
LEMMA ParentsAreRows ==
    ASSUME NEW r \in Tenant!Rows
    PROVE  Tenant!Parents(r) \subseteq Tenant!Rows
<1>1. r \in {Tenant!Permission, Tenant!Role, Tenant!Pair} \cup Members
  BY DEF Tenant!Rows
<1> QED
  BY <1>1, RowFacts

\* The types, as the steps use them.
LEMMA BootTypes ==
    ASSUME BootInv
    PROVE  /\ driver \in {"postgres", "mysql"}
           /\ reserved \in [Tenant!Rows -> Tenant!Status]
           /\ version \in [Tenants -> Nat] /\ version[NewTenant] \in Nat
           /\ bootstrapped \subseteq TenantEvents
           /\ g \in [Handlers -> Tenant!Handler]
           /\ \A c \in Handlers : /\ g[c] \in Tenant!Handler /\ g[c].pc \in Tenant!PC
                                   /\ g[c].event \in TenantEvents \cup {NoEvent}
                                   /\ g[c].wrote \subseteq Tenant!Rows /\ g[c].pv \in Nat
BY TenantAssumption DEF BootInv, Tenant!TypeOK, Tenant!Handler, Tenant!BootstrapAssumption

\* The count of management operations.
LEMMA ChangesBound ==
    ASSUME BootInv
    PROVE  changes \in 0..MaxChanges /\ MaxChanges \in Nat /\ changes \in Nat
<1>1. changes \in 0..MaxChanges /\ MaxChanges \in Nat
  BY TenantAssumption DEF BootInv, Tenant!TypeOK, Tenant!BootstrapAssumption
<1> QED
  BY <1>1

\* An invocation that does not move keeps its part, if the rows it relies on
\* stay and nobody writes what it wrote.
LEMMA OthersKeep ==
    ASSUME BootInv, NEW d \in Handlers, g'[d] = g[d], driver' = driver,
           \A r \in Tenant!Rows : (Mine(r) => Mine(r)') /\ (Foreign(r) => Foreign(r)'),
           Tenant!InTx(d) => \A r \in g[d].wrote : reserved'[r] = reserved[r],
           Tenant!InTx(d) => g[d].event \notin bootstrapped',
           g[d].pc = "bumped" => version'[NewTenant] = version[NewTenant]
    PROVE  StageInv(d)' /\ WroteInv(d)'
<1>1. \A r \in Tenant!Rows : Own(d, r) => Own(d, r)'
  BY DEF Own, Tenant!Own, Mine
<1>2. StageInv(d)'
  <2>1. Tenant!InTx(d) => OwnerOf[g[d].event] \in Tenant!Rows
    BY RowFacts DEF BootInv, WroteInv
  <2> QED
    BY <1>1, <2>1, RowFacts DEF BootInv, StageInv, Tenant!InTx
<1>3. WroteInv(d)'
  <2>1. ASSUME Tenant!InTx(d), NEW r \in g[d].wrote
        PROVE  reserved'[r] = "absent" /\ \A p \in Tenant!Parents(r) : Own(d, p)'
    <3>1. r \in Tenant!Rows /\ Tenant!Parents(r) \subseteq Tenant!Rows
      BY BootTypes, ParentsAreRows
    <3> QED
      BY <1>1, <2>1, <3>1 DEF BootInv, WroteInv
  <2> QED
    BY <2>1 DEF BootInv, WroteInv, Tenant!InTx, Tenant!Parents
<1> QED
  BY <1>2, <1>3

\* A step that only moves one invocation.
LEMMA OneInvocation ==
    ASSUME BootInv, NEW c \in Handlers, NEW G \in Tenant!Handler,
           g' = [g EXCEPT ![c] = G],
           UNCHANGED <<driver, reserved, version, bootstrapped, changes>>,
           created' \subseteq TenantEvents, faults' \in 0..MaxFaults,
           StageInv(c)' /\ WroteInv(c)',
           \A d \in Handlers \ {c} : Tenant!InTx(d) /\ Tenant!InTx(c)' =>
             G.event # g[d].event /\ G.wrote \cap g[d].wrote = {},
           \A d \in Handlers \ {c} : ~(G.pc = "bumped" /\ g[d].pc = "bumped")
    PROVE  BootInv'
<1>1. g'[c] = G /\ \A d \in Handlers \ {c} : g'[d] = g[d]
  BY BootTypes
<1>2. Tenant!TypeOK' /\ Tenant!GrantIsWhole'
  BY <1>1, BootTypes DEF BootInv, Tenant!TypeOK, Tenant!GrantIsWhole, Tenant!Rows, Tenant!Status, Tenant!Permission, Tenant!Role, Tenant!Pair
<1>3. Apart'
  BY <1>1 DEF BootInv, Apart, Tenant!InTx
<1>4. RowsInv'
  BY DEF BootInv, RowsInv, Mine, Foreign, Tenant!Parents, Tenant!Rows, Tenant!Permission,
     Tenant!Role, Tenant!Pair
<1>5. ASSUME NEW d \in Handlers \ {c}
      PROVE  StageInv(d)' /\ WroteInv(d)'
  <2>1. Tenant!InTx(d) => g[d].event \notin bootstrapped'
    BY DEF BootInv, WroteInv
  <2> QED
    BY <1>1, <2>1, OthersKeep DEF Mine, Foreign
<1> QED
  BY <1>2, <1>3, <1>4, <1>5 DEF BootInv

\* An invocation that has written nothing and is in no transaction.
LEMMA OutsideBoot ==
    ASSUME BootInv, NEW c \in Handlers, NEW G \in Tenant!Handler,
           g' = [g EXCEPT ![c] = G], G.pc \in {"idle", "received", "applied"},
           G.pc # "applied" => G.wrote = {},
           G.pc = "received" => G.event \in TenantEvents,
           UNCHANGED <<driver, reserved, version, bootstrapped, changes>>,
           created' \subseteq TenantEvents, faults' \in 0..MaxFaults
    PROVE  BootInv'
<1>1. g'[c] = G
  BY BootTypes
<1>2. StageInv(c)' /\ WroteInv(c)' /\ ~Tenant!InTx(c)'
  BY <1>1 DEF StageInv, WroteInv, Tenant!InTx
<1> QED
  BY <1>2, OneInvocation

\* The invocation ends: an event without an owner, a failure, an
\* acknowledgement; or the next delivery begins.
LEMMA ReleaseBoot ==
    ASSUME BootInv, NEW c \in Handlers, UNCHANGED driver,
           \/ Tenant!Reject(c) \/ Tenant!Acknowledge(c) \/ Tenant!Fail(c)
           \/ \E e \in TenantEvents : Tenant!Deliver(c, e)
    PROVE  BootInv'
<1>1. Tenant!Idle \in Tenant!Handler /\ Tenant!Idle.pc = "idle" /\ Tenant!Idle.wrote = {}
  BY DEF Tenant!Idle, Tenant!Handler, Tenant!PC
<1>2. UNCHANGED <<reserved, version, bootstrapped, changes>>
  BY DEF Tenant!Reject, Tenant!Acknowledge, Tenant!Fail, Tenant!Deliver, Tenant!stored
<1>3. created' \subseteq TenantEvents /\ faults' \in 0..MaxFaults
  <2>1. created \subseteq TenantEvents /\ faults \in 0..MaxFaults /\ MaxFaults \in Nat
    BY TenantAssumption DEF BootInv, Tenant!TypeOK, Tenant!BootstrapAssumption
  <2>2. created' = created \/ created' = created \ {g[c].event}
    BY DEF Tenant!Reject, Tenant!Acknowledge, Tenant!Fail, Tenant!Deliver
  <2>3. faults' = faults \/ (faults < MaxFaults /\ faults' = faults + 1)
    BY DEF Tenant!Reject, Tenant!Acknowledge, Tenant!Fail, Tenant!Deliver, Tenant!Fault
  <2> QED
    BY <2>1, <2>2, <2>3
<1>4. CASE Tenant!Reject(c) \/ Tenant!Acknowledge(c) \/ Tenant!Fail(c)
  <2>1. g' = [g EXCEPT ![c] = Tenant!Idle]
    BY <1>4 DEF Tenant!Reject, Tenant!Acknowledge, Tenant!Fail, Tenant!Release
  <2> QED
    BY <1>1, <1>2, <1>3, <2>1, OutsideBoot
<1>5. CASE \E e \in TenantEvents : Tenant!Deliver(c, e)
  <2>1. PICK e \in TenantEvents : Tenant!Deliver(c, e)
    BY <1>5
  <2> DEFINE G == [Tenant!Idle EXCEPT !.pc = "received", !.event = e]
  <2>2. G \in Tenant!Handler /\ G.pc = "received" /\ G.event = e /\ G.wrote = {}
    BY DEF Tenant!Idle, Tenant!Handler, Tenant!PC
  <2>3. g' = [g EXCEPT ![c] = G]
    BY <2>1 DEF Tenant!Deliver
  <2> HIDE DEF G
  <2> QED
    BY <1>2, <1>3, <2>2, <2>3, OutsideBoot
<1> QED
  BY <1>4, <1>5

\* markProcessedEvent: the transaction begins unless the event is recorded.
LEMMA MarkBoot ==
    ASSUME BootInv, NEW c \in Handlers, UNCHANGED driver, Tenant!MarkProcessed(c)
    PROVE  BootInv'
<1>1. /\ g[c] \in Tenant!Handler /\ g[c].pc = "received" /\ g[c].event \in TenantEvents
      /\ g[c].wrote = {}
  BY BootTypes DEF Tenant!MarkProcessed, BootInv, WroteInv
<1>2. /\ UNCHANGED <<reserved, version, bootstrapped, changes>>
      /\ created' \subseteq TenantEvents /\ faults' \in 0..MaxFaults
  BY DEF Tenant!MarkProcessed, Tenant!stored, BootInv, Tenant!TypeOK
<1> DEFINE G == [g[c] EXCEPT !.pc = IF g[c].event \in bootstrapped THEN "applied" ELSE "marked"]
<1>3. /\ G \in Tenant!Handler /\ G.event = g[c].event /\ G.wrote = {}
      /\ G.pc = IF g[c].event \in bootstrapped THEN "applied" ELSE "marked"
  BY <1>1 DEF Tenant!Handler, Tenant!PC
<1>4. g' = [g EXCEPT ![c] = G]
  BY BootTypes DEF Tenant!MarkProcessed
<1> HIDE DEF G
<1>5. CASE g[c].event \in bootstrapped
  BY <1>2, <1>3, <1>4, <1>5, OutsideBoot
<1>6. CASE g[c].event \notin bootstrapped
  <2>1. g'[c] = G
    BY <1>4, BootTypes
  <2>2. OwnerOf[g[c].event] \in Members
    BY <1>1, TenantAssumption DEF Tenant!MarkProcessed, Tenant!Owner, Tenant!BootstrapAssumption
  <2>3. StageInv(c)' /\ WroteInv(c)'
    BY <1>1, <1>2, <1>3, <1>6, <2>1, <2>2 DEF StageInv, WroteInv
  <2>4. \A d \in Handlers \ {c} : Tenant!InTx(d) => G.event # g[d].event
    BY <1>3 DEF Tenant!MarkProcessed, Tenant!HoldsEvent
  <2> QED
    BY <1>2, <1>3, <1>4, <1>6, <2>3, <2>4, OneInvocation
<1> QED
  BY <1>5, <1>6

\* The last statement: the version stays in the hands of the transaction.
LEMMA BumpBoot ==
    ASSUME BootInv, NEW c \in Handlers, UNCHANGED driver, Tenant!BumpPolicyVersion(c)
    PROVE  BootInv'
<1>1. g[c] \in Tenant!Handler /\ g[c].pc = "binding" /\ Tenant!InTx(c)
  BY BootTypes DEF Tenant!BumpPolicyVersion, Tenant!InTx
<1>2. /\ UNCHANGED <<reserved, version, bootstrapped, changes>>
      /\ created' \subseteq TenantEvents /\ faults' \in 0..MaxFaults
  BY DEF Tenant!BumpPolicyVersion, Tenant!stored, BootInv, Tenant!TypeOK
<1> DEFINE G == [g[c] EXCEPT !.pc = "bumped", !.pv = version[NewTenant] + 1]
<1>3. /\ G \in Tenant!Handler /\ G.event = g[c].event /\ G.wrote = g[c].wrote
      /\ G.pc = "bumped" /\ G.pv = version[NewTenant] + 1
  <2>1. version[NewTenant] + 1 \in Nat
    BY BootTypes
  <2> QED
    BY <1>1, <2>1 DEF Tenant!Handler, Tenant!PC
<1>4. g' = [g EXCEPT ![c] = G]
  BY BootTypes DEF Tenant!BumpPolicyVersion
<1>5. g'[c] = G
  BY <1>4, BootTypes
<1> HIDE DEF G
<1>6. StageInv(c)' /\ WroteInv(c)'
  BY <1>1, <1>2, <1>3, <1>5
  DEF BootInv, StageInv, WroteInv, Own, Tenant!Own, Foreign, Tenant!InTx, Tenant!Parents
<1>7. \A d \in Handlers \ {c} : g[d].pc # "bumped"
  BY DEF Tenant!BumpPolicyVersion, Tenant!HoldsVersion
<1>8. \A d \in Handlers \ {c} : Tenant!InTx(d) =>
        G.event # g[d].event /\ G.wrote \cap g[d].wrote = {}
  BY <1>1, <1>3 DEF BootInv, Apart
<1> QED
  BY <1>2, <1>3, <1>4, <1>6, <1>7, <1>8, OneInvocation

\* What an INSERT does to the invocation: the transaction ends, or goes on
\* with the row there, written, or skipped.
LEMMA InsertCases ==
    ASSUME BootInv, NEW c \in Handlers, Tenant!InTx(c), NEW r \in Tenant!Rows,
           NEW next \in {"permission", "role", "pair", "binding"}, Tenant!Insert(c, r, next)
    PROVE  /\ UNCHANGED <<reserved, version, bootstrapped, changes>>
           /\ created' \subseteq TenantEvents /\ faults' \in 0..MaxFaults
           /\ \E G \in Tenant!Handler :
                /\ g' = [g EXCEPT ![c] = G] /\ g'[c] = G
                /\ \/ G = Tenant!Idle
                   \/ /\ G.pc = next /\ G.event = g[c].event
                      /\ \/ reserved[r] # "absent" /\ G.wrote = g[c].wrote
                         \/ /\ reserved[r] = "absent" /\ G.wrote = g[c].wrote \cup {r}
                            /\ \A p \in Tenant!Parents(r) : Own(c, p)
                         \/ /\ driver = "mysql" /\ G.wrote = g[c].wrote
                            /\ ~ \A p \in Tenant!Parents(r) : Own(c, p)
<1>1. /\ UNCHANGED <<reserved, version, bootstrapped, changes>>
      /\ created' \subseteq TenantEvents /\ faults' \in 0..MaxFaults
  BY DEF Tenant!Insert, Tenant!stored, BootInv, Tenant!TypeOK
<1> DEFINE Kept == [g[c] EXCEPT !.pc = next]
           Wrote == [g[c] EXCEPT !.pc = next, !.wrote = g[c].wrote \cup {r}]
<1>2. g[c] \in Tenant!Handler /\ g \in [Handlers -> Tenant!Handler]
  BY BootTypes
<1>3. /\ Kept \in Tenant!Handler /\ Kept.pc = next /\ Kept.event = g[c].event
      /\ Kept.wrote = g[c].wrote
  BY <1>2 DEF Tenant!Handler, Tenant!PC
<1>4. /\ Wrote \in Tenant!Handler /\ Wrote.pc = next /\ Wrote.event = g[c].event
      /\ Wrote.wrote = g[c].wrote \cup {r}
  BY <1>2 DEF Tenant!Handler, Tenant!PC
<1>5. Tenant!Idle \in Tenant!Handler
  BY DEF Tenant!Idle, Tenant!Handler, Tenant!PC
<1> DEFINE G == IF reserved[r] # "absent" THEN Kept
                ELSE IF \A p \in Tenant!Parents(r) : Tenant!Own(c, p) THEN Wrote
                ELSE IF driver = "mysql" THEN Kept ELSE Tenant!Idle
<1>6. g' = [g EXCEPT ![c] = G]
  BY DEF Tenant!Insert
<1>7. G \in Tenant!Handler
  BY <1>3, <1>4, <1>5
<1>8. g'[c] = G
  BY <1>2, <1>6
<1>9. \/ G = Tenant!Idle
      \/ /\ G.pc = next /\ G.event = g[c].event
         /\ \/ reserved[r] # "absent" /\ G.wrote = g[c].wrote
            \/ /\ reserved[r] = "absent" /\ G.wrote = g[c].wrote \cup {r}
               /\ \A p \in Tenant!Parents(r) : Own(c, p)
            \/ /\ driver = "mysql" /\ G.wrote = g[c].wrote
               /\ ~ \A p \in Tenant!Parents(r) : Own(c, p)
  <2> HIDE DEF Kept, Wrote
  <2> QED
    BY <1>3, <1>4 DEF Own
<1> HIDE DEF G
<1> QED
  BY <1>1, <1>6, <1>7, <1>8, <1>9

\* An INSERT keeps the invariant if the transaction can claim the next stage.
LEMMA InsertBoot ==
    ASSUME BootInv, NEW c \in Handlers, Tenant!InTx(c), NEW r \in Tenant!Rows,
           NEW next \in {"permission", "role", "pair", "binding"}, Tenant!Insert(c, r, next),
           UNCHANGED driver, g'[c].pc = next => StageInv(c)'
    PROVE  BootInv'
<1>1. /\ UNCHANGED <<reserved, version, bootstrapped, changes>>
      /\ created' \subseteq TenantEvents /\ faults' \in 0..MaxFaults
  BY InsertCases
<1>2. PICK G \in Tenant!Handler :
        /\ g' = [g EXCEPT ![c] = G] /\ g'[c] = G
        /\ \/ G = Tenant!Idle
           \/ /\ G.pc = next /\ G.event = g[c].event
              /\ \/ reserved[r] # "absent" /\ G.wrote = g[c].wrote
                 \/ /\ reserved[r] = "absent" /\ G.wrote = g[c].wrote \cup {r}
                    /\ \A p \in Tenant!Parents(r) : Own(c, p)
                 \/ /\ driver = "mysql" /\ G.wrote = g[c].wrote
                    /\ ~ \A p \in Tenant!Parents(r) : Own(c, p)
  BY InsertCases
<1>3. CASE G = Tenant!Idle
  <2>1. G.pc = "idle" /\ G.wrote = {}
    BY <1>3 DEF Tenant!Idle
  <2> QED
    BY <1>1, <1>2, <2>1, OutsideBoot
<1>4. CASE G # Tenant!Idle
  <2>1. /\ G.pc = next /\ G.event = g[c].event /\ g[c].wrote \subseteq G.wrote
        /\ G.wrote \subseteq g[c].wrote \cup {r}
        /\ r \in G.wrote \ g[c].wrote =>
             reserved[r] = "absent" /\ \A p \in Tenant!Parents(r) : Own(c, p)
    BY <1>2, <1>4
  <2>2. \A p : Own(c, p) => Own(c, p)'
    BY <1>1, <1>2, <2>1 DEF Own, Tenant!Own
  <2>3. WroteInv(c)'
    <3>1. \A x \in G.wrote : reserved[x] = "absent" /\ \A p \in Tenant!Parents(x) : Own(c, p)
      BY <2>1 DEF BootInv, WroteInv
    <3>2. g[c].event \in TenantEvents \ bootstrapped /\ OwnerOf[g[c].event] \in Members
      BY DEF BootInv, WroteInv
    <3> QED
      BY <1>1, <1>2, <2>1, <2>2, <3>1, <3>2 DEF WroteInv, Tenant!Parents
  <2>4. \A d \in Handlers \ {c} : Tenant!InTx(d) =>
          G.event # g[d].event /\ G.wrote \cap g[d].wrote = {}
    <3>1. \A d \in Handlers \ {c} : Tenant!InTx(d) => r \notin g[d].wrote
      BY DEF Tenant!Insert, Tenant!Holds
    <3>2. \A d \in Handlers \ {c} : Tenant!InTx(d) =>
          g[c].event # g[d].event /\ g[c].wrote \cap g[d].wrote = {}
      BY DEF BootInv, Apart
    <3> QED
      BY <2>1, <3>1, <3>2
  <2> QED
    BY <1>1, <1>2, <2>1, <2>3, <2>4, OneInvocation
<1> QED
  BY <1>3, <1>4

\* A row the transaction can call its own was there, or is written now.
LEMMA Settled ==
    ASSUME BootInv, NEW c \in Handlers, NEW r \in Tenant!Rows,
           NEW G, g'[c] = G, UNCHANGED <<reserved, driver>>,
           reserved[r] # "absent" \/ r \in G.wrote
    PROVE  Own(c, r)' \/ Foreign(r)'
BY BootTypes DEF Own, Tenant!Own, Foreign, Tenant!Status

\* The INSERTs of the permission and of the role reference nothing: they
\* always settle their row.
LEMMA InsertFirstTwo ==
    ASSUME BootInv, NEW c \in Handlers, UNCHANGED driver,
           Tenant!InsertPermission(c) \/ Tenant!InsertRole(c)
    PROVE  BootInv'
<1>1. CASE Tenant!InsertPermission(c)
  <2> DEFINE r == Tenant!Permission
  <2>1. /\ Tenant!InTx(c) /\ g[c].pc = "marked" /\ r \in Tenant!Rows
        /\ Tenant!Insert(c, r, "permission")
    BY <1>1, RowFacts DEF Tenant!InsertPermission, Tenant!InTx
  <2>2. g'[c].pc = "permission" => StageInv(c)'
    <3>1. g'[c].pc = "permission" => Own(c, r)' \/ Foreign(r)'
      BY <2>1, InsertCases, RowFacts, Settled DEF Tenant!Idle
    <3> QED
      BY <3>1 DEF StageInv
  <2> QED
    BY <2>1, <2>2, InsertBoot
<1>2. CASE Tenant!InsertRole(c)
  <2> DEFINE r == Tenant!Role
  <2>1. /\ Tenant!InTx(c) /\ g[c].pc = "permission" /\ r \in Tenant!Rows
        /\ Tenant!Insert(c, r, "role")
    BY <1>2, RowFacts DEF Tenant!InsertRole, Tenant!InTx
  <2>2. g'[c].pc = "role" => StageInv(c)'
    <3>1. g'[c].pc = "role" => Own(c, r)' \/ Foreign(r)'
      BY <2>1, InsertCases, RowFacts, Settled DEF Tenant!Idle
    <3>2. g'[c].pc = "role" => g[c].wrote \subseteq g'[c].wrote /\ UNCHANGED reserved
      BY <2>1, InsertCases DEF Tenant!Idle
    <3>3. Own(c, Tenant!Permission) \/ Foreign(Tenant!Permission)
      BY <2>1 DEF BootInv, StageInv
    <3> QED
      BY <3>1, <3>2, <3>3 DEF StageInv, Own, Tenant!Own, Foreign, Tenant!Permission
  <2> QED
    BY <2>1, <2>2, InsertBoot
<1> QED
  BY <1>1, <1>2

\* What a transaction that goes on keeps.
LEMMA OwnStays ==
    ASSUME BootInv, NEW c \in Handlers, g[c].wrote \subseteq g'[c].wrote, UNCHANGED reserved,
           NEW r, Own(c, r)
    PROVE  Own(c, r)'
BY DEF Own, Tenant!Own

\* The pair: on PostgreSQL it is there only with the reserved permission and
\* role; on MySQL it may be missing beside a foreign one.
LEMMA InsertPairBoot ==
    ASSUME BootInv, NEW c \in Handlers, UNCHANGED driver, Tenant!InsertPair(c)
    PROVE  BootInv'
<1> DEFINE P == Tenant!Permission
           R == Tenant!Role
           r == Tenant!Pair
<1>1. /\ Tenant!InTx(c) /\ g[c].pc = "role" /\ {P, R, r} \subseteq Tenant!Rows
      /\ Tenant!Insert(c, r, "pair")
  BY RowFacts DEF Tenant!InsertPair, Tenant!InTx
<1>2. /\ Own(c, P) \/ Foreign(P)
      /\ Own(c, R) \/ Foreign(R)
  BY <1>1 DEF BootInv, StageInv
<1>3. ASSUME g'[c].pc = "pair"
      PROVE  StageInv(c)'
  <2>1. /\ g[c].wrote \subseteq g'[c].wrote /\ UNCHANGED reserved
        /\ \/ reserved[r] # "absent"
           \/ r \in g'[c].wrote /\ Own(c, P) /\ Own(c, R)
           \/ driver = "mysql" /\ ~(Own(c, P) /\ Own(c, R))
    BY <1>1, <1>3, InsertCases, RowFacts DEF Tenant!Idle
  <2>2. (Own(c, P)' \/ Foreign(P)') /\ (Own(c, R)' \/ Foreign(R)')
    <3>1. Foreign(P)' = Foreign(P) /\ Foreign(R)' = Foreign(R)
      BY <2>1 DEF Foreign, Tenant!Permission, Tenant!Role
    <3>2. Own(c, P) => Own(c, P)'
      BY <2>1, OwnStays DEF Tenant!Permission
    <3>3. Own(c, R) => Own(c, R)'
      BY <2>1, OwnStays DEF Tenant!Role
    <3> QED
      BY <1>2, <3>1, <3>2, <3>3
  <2>3. \/ Own(c, P)' /\ Own(c, R)' /\ Own(c, r)'
        \/ driver' = "mysql" /\ (Foreign(P)' \/ Foreign(R)')
    <3>1. CASE reserved[r] # "absent"
      <4>1. Mine(r) /\ Mine(P) /\ Mine(R)
        BY <1>1, <3>1, BootTypes, RowFacts DEF BootInv, RowsInv, Mine, Foreign, Tenant!Status
      <4> QED
        BY <2>1, <4>1 DEF Own, Tenant!Own, Mine, Tenant!Permission, Tenant!Role, Tenant!Pair
    <3>2. CASE r \in g'[c].wrote /\ Own(c, P) /\ Own(c, R)
      BY <2>1, <3>2 DEF Own, Tenant!Own, Tenant!Permission, Tenant!Role, Tenant!Pair
    <3>3. CASE driver = "mysql" /\ ~(Own(c, P) /\ Own(c, R))
      <4>1. Foreign(P) \/ Foreign(R)
        BY <1>2, <3>3
      <4> QED
        BY <2>1, <3>3, <4>1 DEF Foreign, Tenant!Permission, Tenant!Role
    <3> QED
      BY <2>1, <3>1, <3>2, <3>3
  <2> QED
    BY <1>3, <2>2, <2>3 DEF StageInv
<1> QED
  BY <1>1, <1>3, InsertBoot

\* The binding of the owner.
LEMMA InsertBindingBoot ==
    ASSUME BootInv, NEW c \in Handlers, UNCHANGED driver, Tenant!InsertBinding(c)
    PROVE  BootInv'
<1> DEFINE P == Tenant!Permission
           R == Tenant!Role
           B == Tenant!Pair
           r == OwnerOf[g[c].event]
<1>1. Tenant!InTx(c) /\ g[c].pc = "pair" /\ Tenant!Insert(c, r, "binding")
  BY DEF Tenant!InsertBinding, Tenant!InTx, Tenant!Owner
<1>2. r \in Members /\ r \in Tenant!Rows /\ Tenant!Parents(r) = {R}
  BY <1>1, RowFacts DEF BootInv, WroteInv
<1>3. /\ Own(c, P) \/ Foreign(P)
      /\ Own(c, R) \/ Foreign(R)
      /\ \/ Own(c, P) /\ Own(c, R) /\ Own(c, B)
         \/ driver = "mysql" /\ (Foreign(P) \/ Foreign(R))
  BY <1>1 DEF BootInv, StageInv
<1>4. ASSUME g'[c].pc = "binding"
      PROVE  StageInv(c)'
  <2>1. /\ g[c].wrote \subseteq g'[c].wrote /\ UNCHANGED reserved /\ g'[c].event = g[c].event
        /\ \/ reserved[r] # "absent"
           \/ r \in g'[c].wrote
           \/ driver = "mysql" /\ ~Own(c, R)
    BY <1>1, <1>2, <1>4, InsertCases DEF Tenant!Idle
  <2>2. /\ Foreign(P)' = Foreign(P) /\ Foreign(R)' = Foreign(R)
        /\ Own(c, P) => Own(c, P)'
        /\ Own(c, R) => Own(c, R)'
        /\ Own(c, B) => Own(c, B)'
    BY <2>1 DEF Own, Tenant!Own, Foreign, Tenant!Permission, Tenant!Role, Tenant!Pair
  <2>3. \/ Own(c, OwnerOf[g[c].event])'
        \/ driver' = "mysql" /\ Foreign(R)'
    <3>1. reserved[r] # "absent" \/ r \in g'[c].wrote => Own(c, OwnerOf[g[c].event])'
      BY <1>2, <2>1, BootTypes, RowFacts
      DEF BootInv, RowsInv, Own, Tenant!Own, Foreign, Tenant!Status
    <3> QED
      BY <1>3, <2>1, <2>2, <3>1
  <2> QED
    BY <1>3, <1>4, <2>2, <2>3 DEF StageInv
<1> QED
  BY <1>1, <1>2, <1>4, InsertBoot

\* Rows that only become more present keep what was granted.
LEMMA GrantStays ==
    ASSUME BootInv, driver' = driver, NEW e \in bootstrapped,
           \A r \in Tenant!Rows : (Mine(r) => Mine(r)') /\ (Foreign(r) => Foreign(r)')
    PROVE  \/ \A r \in {Tenant!Permission, Tenant!Role, Tenant!Pair, OwnerOf[e]} : Mine(r)'
           \/ driver' = "mysql" /\ \E r \in {Tenant!Permission, Tenant!Role} : Foreign(r)'
<1>1. {Tenant!Permission, Tenant!Role, Tenant!Pair, OwnerOf[e]} \subseteq Tenant!Rows
  BY RowFacts DEF BootInv, RowsInv
<1>2. \/ \A r \in {Tenant!Permission, Tenant!Role, Tenant!Pair, OwnerOf[e]} : Mine(r)
      \/ driver = "mysql" /\ \E r \in {Tenant!Permission, Tenant!Role} : Foreign(r)
  BY DEF BootInv, Tenant!GrantIsWhole, Mine, Foreign
<1> QED
  BY <1>1, <1>2

\* The commit: what the transaction wrote becomes visible, the event is
\* recorded and the version grows, all at once.
LEMMA StoreBoot ==
    ASSUME BootInv, NEW c \in Handlers, g[c].pc = "bumped", Tenant!Store(c),
           NEW G \in Tenant!Handler, g' = [g EXCEPT ![c] = G],
           G.pc \in {"idle", "applied"}, G.pc = "idle" => G.wrote = {},
           UNCHANGED <<driver, created, changes>>, faults' \in 0..MaxFaults
    PROVE  BootInv'
<1> DEFINE e == g[c].event
<1>1. /\ e \in TenantEvents /\ e \notin bootstrapped /\ OwnerOf[e] \in Members
      /\ Tenant!InTx(c) /\ g[c].pv = version[NewTenant] + 1
      /\ g[c].wrote \subseteq Tenant!Rows
      /\ \A r \in g[c].wrote : reserved[r] = "absent" /\ \A p \in Tenant!Parents(r) : Own(c, p)
  BY BootTypes DEF BootInv, WroteInv, Tenant!InTx
<1>2. /\ reserved' = [r \in Tenant!Rows |-> IF r \in g[c].wrote THEN "active" ELSE reserved[r]]
      /\ bootstrapped' = bootstrapped \cup {e} /\ version' = [version EXCEPT ![NewTenant] = version[NewTenant] + 1]
  BY <1>1 DEF Tenant!Store, Tenant!Rows, Tenant!Permission, Tenant!Role, Tenant!Pair
<1>3. g'[c] = G /\ \A d \in Handlers \ {c} : g'[d] = g[d]
  BY BootTypes
<1>4. \A r \in Tenant!Rows : (Mine(r) => Mine(r)') /\ (Foreign(r) => Foreign(r)')
  BY <1>1, <1>2 DEF Mine, Foreign
<1>5. \A r \in Tenant!Rows : (Own(c, r) => Mine(r)') /\ (Foreign(r)' => Foreign(r))
  BY <1>1, <1>2 DEF Own, Tenant!Own, Mine, Foreign
<1>6. Tenant!TypeOK' /\ Tenant!GrantIsWhole'
  <2>1. Tenant!TypeOK'
    <3>1. reserved' \in [Tenant!Rows -> Tenant!Status]
      BY <1>2, BootTypes DEF Tenant!Status
    <3>2. g' \in [Handlers -> Tenant!Handler] /\ version' \in [Tenants -> Nat]
          /\ bootstrapped' \subseteq TenantEvents
      BY <1>1, <1>2, BootTypes
    <3> QED
      BY <3>1, <3>2 DEF BootInv, Tenant!TypeOK
  <2>2. Tenant!GrantIsWhole'
    <3> SUFFICES ASSUME NEW f \in bootstrapped'
                 PROVE  \/ \A r \in {Tenant!Permission, Tenant!Role, Tenant!Pair, OwnerOf[f]} : Mine(r)'
                        \/ driver' = "mysql" /\ \E r \in {Tenant!Permission, Tenant!Role} : Foreign(r)'
      BY DEF Tenant!GrantIsWhole, Mine, Foreign
    <3>1. CASE f \in bootstrapped
      BY <1>4, <3>1, GrantStays
    <3>2. CASE f = e
      <4>1. {Tenant!Permission, Tenant!Role, Tenant!Pair, OwnerOf[e]} \subseteq Tenant!Rows
        BY <1>1, RowFacts
      <4>2. /\ \/ Own(c, Tenant!Permission) /\ Own(c, Tenant!Role) /\ Own(c, Tenant!Pair)
               \/ driver = "mysql" /\ (Foreign(Tenant!Permission) \/ Foreign(Tenant!Role))
            /\ Own(c, OwnerOf[e]) \/ (driver = "mysql" /\ Foreign(Tenant!Role))
        BY DEF BootInv, StageInv
      <4> QED
        BY <1>4, <1>5, <3>2, <4>1, <4>2
    <3> QED
      BY <1>2, <3>1, <3>2
  <2> QED
    BY <2>1, <2>2
<1>7. Apart'
  BY <1>3 DEF BootInv, Apart, Tenant!InTx
<1>8. RowsInv'
  <2>1. ASSUME NEW r \in Tenant!Rows, Mine(r)', NEW p \in Tenant!Parents(r)
        PROVE  Mine(p)'
    <3>1. p \in Tenant!Rows
      BY ParentsAreRows
    <3>2. CASE r \in g[c].wrote
      BY <1>1, <1>5, <3>1, <3>2
    <3>3. CASE r \notin g[c].wrote
      <4>1. Mine(r)
        BY <1>2, <2>1, <3>3 DEF Mine
      <4> QED
        BY <1>4, <3>1, <4>1 DEF BootInv, RowsInv
    <3> QED
      BY <3>2, <3>3
  <2>2. IsFiniteSet(bootstrapped')
    BY <1>1, <1>2, FS_AddElement DEF BootInv, RowsInv
  <2>3. \A f \in bootstrapped' : OwnerOf[f] \in Members
    BY <1>1, <1>2 DEF BootInv, RowsInv
  <2>4. \A r \in Tenant!Rows \ {Tenant!Permission, Tenant!Role} : ~Foreign(r)'
    BY <1>5 DEF BootInv, RowsInv
  <2> QED
    BY <2>1, <2>2, <2>3, <2>4
    DEF RowsInv, Tenant!Parents, Tenant!Rows, Tenant!Permission, Tenant!Role, Tenant!Pair
<1>9. StageInv(c)' /\ WroteInv(c)'
  BY <1>3 DEF StageInv, WroteInv, Tenant!InTx
<1>10. ASSUME NEW d \in Handlers \ {c}
       PROVE  StageInv(d)' /\ WroteInv(d)'
  <2>1. Tenant!InTx(d) => g[d].event # e /\ g[c].wrote \cap g[d].wrote = {}
    BY <1>1 DEF BootInv, Apart
  <2>2. g[d].pc # "bumped"
    BY DEF BootInv, Apart
  <2>3. Tenant!InTx(d) => g[d].event \notin bootstrapped' /\ g[d].wrote \subseteq Tenant!Rows
    BY <1>2, <2>1, BootTypes DEF BootInv, WroteInv
  <2>4. Tenant!InTx(d) => \A r \in g[d].wrote : reserved'[r] = reserved[r]
    BY <1>2, <2>1, <2>3
  <2> QED
    BY <1>3, <1>4, <2>2, <2>3, <2>4, OthersKeep
<1> QED
  BY <1>6, <1>7, <1>8, <1>9, <1>10 DEF BootInv

\* The management API takes a free key, or revokes a row nobody holds.
LEMMA ManageBoot ==
    ASSUME BootInv, NEW r \in Tenant!Rows, UNCHANGED driver,
           Tenant!CreateForeign(r) \/ Tenant!Revoke(r)
    PROVE  BootInv'
<1>1. /\ changes < MaxChanges
      /\ version' = [version EXCEPT ![NewTenant] = version[NewTenant] + 1]
      /\ changes' = changes + 1
      /\ UNCHANGED <<created, bootstrapped, g, faults>>
      /\ \A c \in Handlers : ~Tenant!Holds(c, r) /\ g[c].pc # "bumped"
  BY DEF Tenant!CreateForeign, Tenant!Revoke, Tenant!Manage, Tenant!HoldsVersion
<1>2. \/ /\ r \in {Tenant!Permission, Tenant!Role} /\ reserved[r] = "absent"
         /\ reserved' = [reserved EXCEPT ![r] = "foreign"]
      \/ reserved[r] = "active" /\ reserved' = [reserved EXCEPT ![r] = "revoked"]
  BY DEF Tenant!CreateForeign, Tenant!Revoke, Tenant!Manage
<1>3. /\ \A x \in Tenant!Rows : (Mine(x) => Mine(x)') /\ (Foreign(x) => Foreign(x)')
      /\ \A x \in Tenant!Rows : Mine(x)' => Mine(x)
      /\ \A x \in Tenant!Rows : Foreign(x)' => Foreign(x) \/ x \in {Tenant!Permission, Tenant!Role}
      /\ \A x \in Tenant!Rows \ {r} : reserved'[x] = reserved[x]
  BY <1>2, BootTypes DEF Mine, Foreign
<1>4. Tenant!TypeOK' /\ Tenant!GrantIsWhole'
  <2>1. Tenant!TypeOK'
    <3>1. reserved' \in [Tenant!Rows -> Tenant!Status]
      BY <1>2, BootTypes DEF Tenant!Status
    <3>2. version' \in [Tenants -> Nat] /\ changes' \in 0..MaxChanges
      <4>1. version' \in [Tenants -> Nat]
        <5>1. version \in [Tenants -> Nat] /\ version[NewTenant] \in Nat
          BY BootTypes
        <5>2. version' = [version EXCEPT ![NewTenant] = version[NewTenant] + 1]
          BY <1>1
        <5>3. version[NewTenant] + 1 \in Nat
          BY <5>1
        <5> QED
          BY <5>1, <5>2, <5>3, Zenon
      <4>2. changes' \in 0..MaxChanges
        BY <1>1, ChangesBound
      <4> QED
        BY <4>1, <4>2
    <3> QED
      BY <1>1, <3>1, <3>2 DEF BootInv, Tenant!TypeOK
  <2>2. Tenant!GrantIsWhole'
    BY <1>1, <1>3, GrantStays DEF Tenant!GrantIsWhole, Mine, Foreign
  <2> QED
    BY <2>1, <2>2
<1>5. Apart'
  BY <1>1 DEF BootInv, Apart, Tenant!InTx
<1>6. RowsInv'
  <2>1. ASSUME NEW x \in Tenant!Rows, Mine(x)', NEW p \in Tenant!Parents(x)
        PROVE  Mine(p)'
    <3>1. p \in Tenant!Rows
      BY ParentsAreRows
    <3> QED
      BY <1>3, <2>1, <3>1 DEF BootInv, RowsInv
  <2>2. \A x \in Tenant!Rows \ {Tenant!Permission, Tenant!Role} : ~Foreign(x)'
    BY <1>3 DEF BootInv, RowsInv
  <2> QED
    BY <1>1, <2>1, <2>2
    DEF BootInv, RowsInv, Tenant!Parents, Tenant!Rows, Tenant!Permission, Tenant!Role, Tenant!Pair
<1>7. ASSUME NEW d \in Handlers
      PROVE  StageInv(d)' /\ WroteInv(d)'
  <2>1. Tenant!InTx(d) => \A x \in g[d].wrote : reserved'[x] = reserved[x]
    BY <1>1, <1>3, BootTypes DEF Tenant!Holds
  <2>2. Tenant!InTx(d) => g[d].event \notin bootstrapped'
    BY <1>1 DEF BootInv, WroteInv
  <2> QED
    BY <1>1, <1>3, <2>1, <2>2, OthersKeep
<1> QED
  BY <1>4, <1>5, <1>6, <1>7 DEF BootInv

\* A tenant nobody has heard of.
LEMMA InitBoot == Tenant!Init => BootInv
<1> SUFFICES ASSUME Tenant!Init
             PROVE  BootInv
  OBVIOUS
<1>1. \A c \in Handlers : g[c] = Tenant!Idle
  BY DEF Tenant!Init
<1>2. /\ Tenant!Idle \in Tenant!Handler /\ Tenant!Idle.pc = "idle" /\ Tenant!Idle.wrote = {}
  BY DEF Tenant!Idle, Tenant!Handler, Tenant!PC
<1>3. reserved \in [Tenant!Rows -> Tenant!Status] /\ \A r \in Tenant!Rows : reserved[r] = "absent"
  BY DEF Tenant!Init, Tenant!Status
<1>4. Tenant!TypeOK
  <2>1. changes \in 0..MaxChanges /\ faults \in 0..MaxFaults
    <3>1. MaxChanges \in Nat /\ MaxFaults \in Nat
      BY TenantAssumption DEF Tenant!BootstrapAssumption
    <3> QED
      BY <3>1 DEF Tenant!Init
  <2>2. g \in [Handlers -> Tenant!Handler]
    BY <1>2 DEF Tenant!Init
  <2> QED
    BY <1>3, <2>1, <2>2 DEF Tenant!Init, Tenant!TypeOK
<1>5. Tenant!GrantIsWhole
  BY DEF Tenant!Init, Tenant!GrantIsWhole
<1>6. Apart /\ \A c \in Handlers : StageInv(c) /\ WroteInv(c)
  BY <1>1, <1>2 DEF Apart, StageInv, WroteInv, Tenant!InTx
<1>7. RowsInv
  BY <1>3, FS_EmptySet DEF Tenant!Init, RowsInv, Mine, Foreign
<1> QED
  BY <1>4, <1>5, <1>6, <1>7 DEF BootInv

\* A step that leaves the tenant alone, but for the version that no
\* transaction of the bootstrap has read.
LEMMA StillBoot ==
    ASSUME BootInv, UNCHANGED tenantVars, version' \in [Tenants -> Nat], faults' \in 0..MaxFaults,
           TenantsHold => version'[NewTenant] = version[NewTenant]
    PROVE  BootInv'
<1>0. UNCHANGED <<driver, reserved, created, bootstrapped, g, changes>>
  BY DEF tenantVars
<1>1. Tenant!TypeOK' /\ Tenant!GrantIsWhole'
  BY <1>0 DEF BootInv, Tenant!TypeOK, Tenant!GrantIsWhole
<1>2. Apart' /\ RowsInv'
  BY <1>0 DEF BootInv, Apart, RowsInv, Mine, Foreign, Tenant!InTx
<1>3. \A c \in Handlers : StageInv(c)'
  BY <1>0 DEF BootInv, StageInv, Own, Tenant!Own, Foreign
<1>4. \A c \in Handlers : g[c].pc = "bumped" => version'[NewTenant] = version[NewTenant]
  BY DEF TenantsHold, Tenant!HoldsVersion
<1>5. \A c \in Handlers : WroteInv(c)'
  BY <1>0, <1>4 DEF BootInv, WroteInv, Own, Tenant!Own, Tenant!InTx
<1> QED
  BY <1>1, <1>2, <1>3, <1>5 DEF BootInv

\* Every step of the bootstrap and of the management API beside it.
LEMMA StepBoot ==
    ASSUME BootInv, Tenant!Next
    PROVE  BootInv'
<1>0. UNCHANGED driver
  BY DEF Tenant!Next
<1>1. ASSUME NEW c \in Handlers, Tenant!Commit(c)
      PROVE  BootInv'
  <2> DEFINE G == [g[c] EXCEPT !.pc = "applied"]
  <2>1. G \in Tenant!Handler /\ G.pc = "applied"
    BY BootTypes DEF Tenant!Handler, Tenant!PC
  <2>2. g' = [g EXCEPT ![c] = G] /\ faults' \in 0..MaxFaults
    BY <1>1, BootTypes DEF Tenant!Commit, BootInv, Tenant!TypeOK
  <2> HIDE DEF G
  <2> QED
    BY <1>0, <1>1, <2>1, <2>2, StoreBoot DEF Tenant!Commit
<1>2. ASSUME NEW c \in Handlers, Tenant!CommitUnacknowledged(c)
      PROVE  BootInv'
  <2>1. Tenant!Idle \in Tenant!Handler /\ Tenant!Idle.pc = "idle" /\ Tenant!Idle.wrote = {}
    BY DEF Tenant!Idle, Tenant!Handler, Tenant!PC
  <2>2. faults' \in 0..MaxFaults
    <3>1. faults \in 0..MaxFaults /\ MaxFaults \in Nat
      BY TenantAssumption
      DEF BootInv, Tenant!TypeOK, Tenant!BootstrapAssumption
    <3> QED
      BY <1>2, <3>1 DEF Tenant!CommitUnacknowledged, Tenant!Fault
  <2> QED
    BY <1>0, <1>2, <2>1, <2>2, StoreBoot DEF Tenant!CommitUnacknowledged, Tenant!Release
<1>3. CASE Tenant!Drained
  BY <1>3, StillBoot DEF Tenant!Drained, Tenant!vars, tenantVars, BootInv, Tenant!TypeOK
<1>4. ASSUME NEW c \in Handlers, Tenant!Progress(c)
      PROVE  BootInv'
  BY <1>0, <1>1, <1>4, ReleaseBoot, MarkBoot, InsertFirstTwo, InsertPairBoot,
     InsertBindingBoot, BumpBoot DEF Tenant!Progress
<1>5. ASSUME NEW c \in Handlers,
             Tenant!Fail(c) \/ \E e \in TenantEvents : Tenant!Deliver(c, e)
      PROVE  BootInv'
  BY <1>0, <1>5, ReleaseBoot
<1>6. ASSUME NEW r \in Tenant!Rows, Tenant!CreateForeign(r) \/ Tenant!Revoke(r)
      PROVE  BootInv'
  BY <1>0, <1>6, ManageBoot
<1> QED
  BY <1>2, <1>3, <1>4, <1>5, <1>6
  DEF Tenant!Next, Tenant!Rows, Tenant!Permission, Tenant!Role, Tenant!Pair

-----------------------------------------------------------------------------
(* Both consumers: they meet in the version row.                           *)

\* The version row of the tenant is in the hands of one consumer, and counts
\* what both have recorded.
Joint == ~(GroupsHold /\ TenantsHold) /\ OneVersionPerChange

ConsumersInv == Inv /\ BootInv /\ Joint

\* A step of the group projection commits, or leaves the tables alone.
LEMMA GroupEffect ==
    ASSUME Next
    PROVE  \/ UNCHANGED <<processed, member, version>>
           \/ \E c \in Handlers : h[c].pc = "bumped" /\ Store(c)
<1>1. ASSUME NEW c \in Handlers,
             \/ Ignore(c) \/ Reject(c) \/ MarkProcessed(c) \/ UpsertMembershipGroup(c)
             \/ BumpPolicyVersion(c) \/ InvalidateSubject(c) \/ Acknowledge(c) \/ Fail(c)
             \/ \E e \in Events : Deliver(c, e)
      PROVE  UNCHANGED <<processed, member, version>>
  BY <1>1 DEF Ignore, Reject, MarkProcessed, UpsertMembershipGroup, BumpPolicyVersion,
     InvalidateSubject, Acknowledge, Fail, Deliver, stored
<1>2. ASSUME NEW c \in Handlers, Commit(c) \/ CommitUnacknowledged(c)
      PROVE  h[c].pc = "bumped" /\ Store(c)
  BY <1>2 DEF Commit, CommitUnacknowledged
<1>3. CASE Drained
  BY <1>3 DEF Drained, vars
<1> QED
  BY <1>1, <1>2, <1>3 DEF Next, Progress

\* A step on the tenant commits a grant, or is a management operation, or
\* leaves the version alone.
LEMMA TenantEffect ==
    ASSUME Tenant!Next
    PROVE  \/ UNCHANGED <<version, bootstrapped, changes>>
           \/ /\ \E c \in Handlers : g[c].pc = "bumped" /\ Tenant!Store(c)
              /\ UNCHANGED changes
           \/ /\ version' = [version EXCEPT ![NewTenant] = version[NewTenant] + 1]
              /\ changes' = changes + 1 /\ UNCHANGED bootstrapped
<1>1. ASSUME NEW c \in Handlers,
             \/ Tenant!Reject(c) \/ Tenant!MarkProcessed(c) \/ Tenant!BumpPolicyVersion(c)
             \/ Tenant!Acknowledge(c) \/ Tenant!Fail(c)
             \/ \E e \in TenantEvents : Tenant!Deliver(c, e)
      PROVE  UNCHANGED <<version, bootstrapped, changes>>
  BY <1>1 DEF Tenant!Reject, Tenant!MarkProcessed, Tenant!BumpPolicyVersion,
     Tenant!Acknowledge, Tenant!Fail, Tenant!Deliver, Tenant!stored
<1>2. ASSUME NEW c \in Handlers,
             \/ Tenant!InsertPermission(c) \/ Tenant!InsertRole(c) \/ Tenant!InsertPair(c)
             \/ Tenant!InsertBinding(c)
      PROVE  UNCHANGED <<version, bootstrapped, changes>>
  BY <1>2 DEF Tenant!InsertPermission, Tenant!InsertRole, Tenant!InsertPair,
     Tenant!InsertBinding, Tenant!Insert, Tenant!stored
<1>3. ASSUME NEW c \in Handlers, Tenant!Commit(c) \/ Tenant!CommitUnacknowledged(c)
      PROVE  g[c].pc = "bumped" /\ Tenant!Store(c) /\ UNCHANGED changes
  BY <1>3 DEF Tenant!Commit, Tenant!CommitUnacknowledged
<1>4. ASSUME NEW r \in Tenant!Rows, Tenant!CreateForeign(r) \/ Tenant!Revoke(r)
      PROVE  /\ version' = [version EXCEPT ![NewTenant] = version[NewTenant] + 1]
             /\ changes' = changes + 1 /\ UNCHANGED bootstrapped
  BY <1>4 DEF Tenant!CreateForeign, Tenant!Revoke, Tenant!Manage
<1>5. CASE Tenant!Drained
  BY <1>5 DEF Tenant!Drained, Tenant!vars
<1> QED
  BY <1>1, <1>2, <1>3, <1>4, <1>5 DEF Tenant!Next, Tenant!Progress

\* What the version of a tenant has beside its group events.
Beside(t) == IF t = NewTenant THEN Cardinality(bootstrapped) + changes ELSE 0
Recorded(t) == {e \in processed : TenantOf[KeyOf[e]] = t}

LEMMA Counted ==
    ASSUME ConsumersInv, NEW t \in Tenants
    PROVE  /\ version[t] = Cardinality(Recorded(t)) + Beside(t)
           /\ IsFiniteSet(Recorded(t)) /\ Cardinality(Recorded(t)) \in Nat
           /\ Beside(t) \in Nat /\ IsFiniteSet(bootstrapped)
           /\ Cardinality(bootstrapped) \in Nat /\ changes \in Nat
<1>1. Recorded(t) \subseteq processed
  BY DEF Recorded
<1>2. IsFiniteSet(Recorded(t)) /\ Cardinality(Recorded(t)) \in Nat
  BY <1>1, FS_Subset, FS_CardinalityType DEF ConsumersInv, Inv, StoreInv
<1>3. IsFiniteSet(bootstrapped) /\ Cardinality(bootstrapped) \in Nat
  BY FS_CardinalityType DEF ConsumersInv, BootInv, RowsInv
<1>4. changes \in Nat
  BY ChangesBound DEF ConsumersInv
<1> QED
  BY <1>2, <1>3, <1>4 DEF ConsumersInv, Joint, OneVersionPerChange, Recorded, Beside

\* markProcessed and bumpPolicyVersion in one transaction: one event, one
\* version.
LEMMA GroupVersionsCount ==
    ASSUME ConsumersInv, NEW c \in Handlers, h[c].pc = "bumped", Store(c),
           UNCHANGED <<bootstrapped, changes>>
    PROVE  OneVersionPerChange'
<1> DEFINE e == h[c].event
<1>1. /\ processed' = processed \cup {e} /\ e \notin processed
      /\ version' = [version EXCEPT ![TenantIn(c)] = version[TenantIn(c)] + 1]
      /\ TenantIn(c) \in Tenants /\ version \in [Tenants -> Nat]
  BY BumpedFacts DEF Store, ConsumersInv, Inv, TypeOK, TenantIn
<1>2. ASSUME NEW t \in Tenants
      PROVE  version'[t] = Cardinality(Recorded(t)') + Beside(t)'
  <2>1. Beside(t)' = Beside(t)
    BY DEF Beside
  <2>2. CASE t = TenantIn(c)
    <3>1. Recorded(t)' = Recorded(t) \cup {e} /\ e \notin Recorded(t)
      BY <1>1, <2>2 DEF TenantIn, Recorded
    <3>2. Cardinality(Recorded(t) \cup {e}) = Cardinality(Recorded(t)) + 1
      BY <3>1, Counted, FS_AddElement
    <3> QED
      BY <1>1, <2>1, <2>2, <3>1, <3>2, Counted
  <2>3. CASE t # TenantIn(c)
    <3>1. Recorded(t)' = Recorded(t)
      BY <1>1, <2>3 DEF TenantIn, Recorded
    <3> QED
      BY <1>1, <2>1, <2>3, <3>1, Counted
  <2> QED
    BY <2>2, <2>3
<1> QED
  BY <1>2 DEF OneVersionPerChange, Recorded, Beside

\* The same for a grant and for a management operation.
LEMMA TenantVersionsCount ==
    ASSUME ConsumersInv, Tenant!Next, UNCHANGED groupVars
    PROVE  OneVersionPerChange'
<1>1. version \in [Tenants -> Nat] /\ NewTenant \in Tenants
  BY TenantAssumption DEF ConsumersInv, Inv, TypeOK, Tenant!BootstrapAssumption
<1>2. \A t \in Tenants : Recorded(t)' = Recorded(t)
  BY DEF groupVars, Recorded
<1>3. \A t \in Tenants : version[t] = Cardinality(Recorded(t)) + Beside(t)
                         /\ Cardinality(Recorded(t)) \in Nat
  BY Counted
<1>4. IsFiniteSet(bootstrapped) /\ Cardinality(bootstrapped) \in Nat /\ changes \in Nat
  BY <1>1, Counted
<1>5. \/ version' = version /\ Beside(NewTenant)' = Beside(NewTenant)
      \/ /\ version' = [version EXCEPT ![NewTenant] = version[NewTenant] + 1]
         /\ Beside(NewTenant)' = Beside(NewTenant) + 1 /\ Beside(NewTenant) \in Nat
  <2>1. CASE UNCHANGED <<version, bootstrapped, changes>>
    BY <2>1 DEF Beside
  <2>2. ASSUME NEW c \in Handlers, g[c].pc = "bumped", Tenant!Store(c), UNCHANGED changes
        PROVE  /\ version' = [version EXCEPT ![NewTenant] = version[NewTenant] + 1]
               /\ Beside(NewTenant)' = Beside(NewTenant) + 1 /\ Beside(NewTenant) \in Nat
    <3>1. g[c].event \notin bootstrapped /\ g[c].pv = version[NewTenant] + 1
      BY <2>2 DEF ConsumersInv, BootInv, WroteInv, Tenant!InTx
    <3>2. bootstrapped' = bootstrapped \cup {g[c].event}
          /\ version' = [version EXCEPT ![NewTenant] = version[NewTenant] + 1]
      BY <2>2, <3>1 DEF Tenant!Store
    <3>3. Cardinality(bootstrapped') = Cardinality(bootstrapped) + 1
      BY <1>4, <3>1, <3>2, FS_AddElement
    <3> QED
      BY <1>4, <2>2, <3>2, <3>3 DEF Beside
  <2>3. CASE /\ version' = [version EXCEPT ![NewTenant] = version[NewTenant] + 1]
             /\ changes' = changes + 1 /\ UNCHANGED bootstrapped
    BY <1>4, <2>3 DEF Beside
  <2> QED
    BY <2>1, <2>2, <2>3, TenantEffect
<1>6. \A t \in Tenants \ {NewTenant} : Beside(t)' = Beside(t)
  BY DEF Beside
<1>7. \A t \in Tenants : version'[t] = Cardinality(Recorded(t)') + Beside(t)'
  BY <1>1, <1>2, <1>3, <1>5, <1>6
<1> QED
  BY <1>7 DEF OneVersionPerChange, Recorded, Beside

\* A step that leaves the group projection alone, but for a version that none
\* of its transactions has read.
LEMMA StillGroups ==
    ASSUME Inv, UNCHANGED groupVars, version' \in [Tenants -> Nat], faults' \in 0..MaxFaults,
           \A c \in Handlers : h[c].pc = "bumped" => version'[TenantIn(c)] = version[TenantIn(c)]
    PROVE  Inv'
<1>0. UNCHANGED <<pending, processed, member, owed, h>>
  BY DEF groupVars
<1>1. TypeOK'
  BY <1>0 DEF Inv, TypeOK
<1>2. Exclusive'
  BY <1>0 DEF Inv, Exclusive, InTx, HoldsKey, HoldsVersion
<1>3. StoreInv'
  BY <1>0 DEF Inv, StoreInv, NewestWins, AcknowledgedIsInvalidated, Effective
<1>4. \A c \in Handlers : HandlerInv(c)'
  BY <1>0 DEF Inv, HandlerInv, InTx, TenantIn, Upserted, StatusOf, Effective
<1> QED
  BY <1>1, <1>2, <1>3, <1>4 DEF Inv

\* A grant or a management operation changes the version of its tenant only,
\* and only while no group transaction has it.
LEMMA TenantStep ==
    ASSUME ConsumersInv, Created(Tenant!Next)
    PROVE  ConsumersInv'
<1>1. BootInv'
  BY StepBoot DEF ConsumersInv, Created
<1>2. version' \in [Tenants -> Nat] /\ faults' \in 0..MaxFaults
  BY <1>1 DEF BootInv, Tenant!TypeOK
<1>3. GroupsHold => version' = version
  <2>1. GroupsHold => ~TenantsHold /\ UNCHANGED changes
    BY DEF ConsumersInv, Joint, Created
  <2>2. GroupsHold => \A c \in Handlers : g[c].pc # "bumped"
    BY <2>1 DEF TenantsHold, Tenant!HoldsVersion
  <2>3. changes \in Nat
    BY ChangesBound DEF ConsumersInv
  <2> QED
    BY <2>1, <2>2, <2>3, TenantEffect DEF Created
<1>4. \A t \in Tenants \ {NewTenant} : version'[t] = version[t]
  BY TenantEffect DEF Created, Tenant!Store, ConsumersInv, Inv, TypeOK
<1>5. ASSUME NEW c \in Handlers, h[c].pc = "bumped"
      PROVE  version'[TenantIn(c)] = version[TenantIn(c)]
  <2>1. TenantIn(c) \in Tenants
    BY <1>5, BumpedFacts DEF ConsumersInv
  <2>2. TenantIn(c) = NewTenant => GroupsHold
    BY <1>5 DEF GroupsHold, HoldsVersion, TenantIn
  <2> QED
    BY <1>3, <1>4, <2>1, <2>2
<1>6. Inv'
  BY <1>2, <1>5, StillGroups DEF ConsumersInv, Created
<1>7. GroupsHold' = GroupsHold
  BY DEF Created, groupVars, GroupsHold, HoldsVersion
<1>8. OneVersionPerChange'
  BY TenantVersionsCount DEF Created
<1> QED
  BY <1>1, <1>6, <1>7, <1>8 DEF ConsumersInv, Joint, Created

\* A group transaction changes the version of the new tenant only while no
\* grant has it.
LEMMA GroupStep ==
    ASSUME ConsumersInv, Groups(Next)
    PROVE  ConsumersInv'
<1>1. Inv'
  BY StepInv DEF ConsumersInv, Groups
<1>2. version' \in [Tenants -> Nat] /\ faults' \in 0..MaxFaults
  BY <1>1 DEF Inv, TypeOK
<1>3. \/ UNCHANGED <<processed, member, version>>
      \/ \E c \in Handlers : h[c].pc = "bumped" /\ Store(c)
  BY GroupEffect DEF Groups
<1>4. TenantsHold => version'[NewTenant] = version[NewTenant]
  <2>1. ASSUME TenantsHold, NEW c \in Handlers, h[c].pc = "bumped", Store(c)
        PROVE  version'[NewTenant] = version[NewTenant]
    <3>1. TenantIn(c) # NewTenant
      BY <2>1 DEF ConsumersInv, Joint, GroupsHold, HoldsVersion, TenantIn
    <3> QED
      BY <2>1, <3>1, TenantAssumption
      DEF Store, TenantIn, ConsumersInv, Inv, TypeOK, Tenant!BootstrapAssumption
  <2> QED
    BY <1>3, <2>1
<1>5. BootInv'
  BY <1>2, <1>4, StillBoot DEF ConsumersInv, Groups
<1>6. TenantsHold' = TenantsHold
  BY DEF Groups, tenantVars, TenantsHold, Tenant!HoldsVersion
<1>7. OneVersionPerChange'
  <2>1. UNCHANGED <<bootstrapped, changes>>
    BY DEF Groups, tenantVars
  <2>2. CASE UNCHANGED <<processed, member, version>>
    BY <2>1, <2>2 DEF ConsumersInv, Joint, OneVersionPerChange
  <2> QED
    BY <1>3, <2>1, <2>2, GroupVersionsCount
<1> QED
  BY <1>1, <1>5, <1>6, <1>7 DEF ConsumersInv, Joint, Groups

\* Before anything was delivered.
LEMMA ConsumersStart == ConsumersInit => ConsumersInv
<1> SUFFICES ASSUME ConsumersInit
             PROVE  ConsumersInv
  OBVIOUS
<1>1. Inv /\ BootInv
  BY InitInv, InitBoot DEF ConsumersInit
<1>2. ~GroupsHold
  BY DEF ConsumersInit, Init, Idle, GroupsHold, HoldsVersion
<1>3. OneVersionPerChange
  <2>1. Cardinality({}) = 0
    BY FS_EmptySet
  <2>2. /\ \A t \in Tenants : version[t] = 0 /\ {e \in processed : TenantOf[KeyOf[e]] = t} = {}
        /\ bootstrapped = {} /\ changes = 0
    BY DEF ConsumersInit, Init, Tenant!Init
  <2> QED
    BY <2>1, <2>2 DEF OneVersionPerChange
<1> QED
  BY <1>1, <1>2, <1>3 DEF ConsumersInv, Joint

\* Both invariants hold while both consumers run.
LEMMA InvariantHolds == ConsumersSpec => []ConsumersInv
<1>1. ConsumersInv /\ [ConsumersNext]_allVars => ConsumersInv'
  <2> SUFFICES ASSUME ConsumersInv, [ConsumersNext]_allVars
               PROVE  ConsumersInv'
    OBVIOUS
  <2>1. ASSUME UNCHANGED allVars
        PROVE  ConsumersInv'
    <3>1. UNCHANGED groupVars /\ UNCHANGED tenantVars /\ UNCHANGED <<version, faults>>
      BY <2>1 DEF allVars
    <3>2. Inv' /\ BootInv'
      BY <3>1, StillGroups, StillBoot DEF ConsumersInv, Inv, TypeOK
    <3>3. GroupsHold' = GroupsHold /\ TenantsHold' = TenantsHold
      BY <3>1 DEF groupVars, tenantVars, GroupsHold, HoldsVersion, TenantsHold,
         Tenant!HoldsVersion
    <3>4. OneVersionPerChange'
      BY <3>1 DEF groupVars, tenantVars, ConsumersInv, Joint, OneVersionPerChange
    <3> QED
      BY <3>2, <3>3, <3>4 DEF ConsumersInv, Joint
  <2> QED
    BY <2>1, GroupStep, TenantStep DEF ConsumersNext
<1> QED
  BY <1>1, ConsumersStart, PTL DEF ConsumersSpec

-----------------------------------------------------------------------------

\* Every variable of both consumers keeps its type.
THEOREM TypeCorrect == ConsumersSpec => [](TypeOK /\ Tenant!TypeOK)
<1>1. ConsumersInv => TypeOK /\ Tenant!TypeOK
  BY DEF ConsumersInv, Inv, BootInv
<1> QED
  BY <1>1, InvariantHolds, PTL

\* upsertMembershipGroup: a row says what the newest recorded event about it
\* said, in whatever order the events were delivered and however many
\* transactions overlapped.
THEOREM NewestDecides == ConsumersSpec => []NewestWins
<1>1. ConsumersInv => NewestWins
  BY DEF ConsumersInv, Inv, StoreInv
<1> QED
  BY <1>1, InvariantHolds, PTL

\* Apply: an event that is acknowledged has had its subject invalidated, in
\* the replica that acknowledged it, since it was committed.
THEOREM InvalidatedFirst == ConsumersSpec => []AcknowledgedIsInvalidated
<1>1. ConsumersInv => AcknowledgedIsInvalidated
  BY DEF ConsumersInv, Inv, StoreInv
<1> QED
  BY <1>1, InvariantHolds, PTL

\* BootstrapTenantOwner: an event that is recorded has granted the whole role,
\* whatever other deliveries, the other consumer and the management API did
\* between its statements, on both kinds of database; and each event either
\* consumer recorded, and each management operation, made one policy version
\* of its tenant, none lost to another transaction's.
THEOREM OwnerGrantedWhole == ConsumersSpec => []BootstrapInvariant
<1>1. ConsumersInv => BootstrapInvariant
  BY DEF ConsumersInv, BootInv, Joint, BootstrapInvariant
<1> QED
  BY <1>1, InvariantHolds, PTL

\* To the register, what happens on a tenant is another change or nothing.
LEMMA TenantImplements ==
    ASSUME ConsumersInv, Created(Tenant!Next)
    PROVE  Register!Next \/ UNCHANGED Register!vars
<1>1. UNCHANGED <<member, processed>> /\ NewTenant \in Tenants
  BY TenantAssumption DEF Created, groupVars, Tenant!BootstrapAssumption
<1>2. \/ version' = version
      \/ version' = [version EXCEPT ![NewTenant] = version[NewTenant] + 1]
  <2>1. ASSUME NEW c \in Handlers, g[c].pc = "bumped", Tenant!Store(c)
        PROVE  version' = [version EXCEPT ![NewTenant] = version[NewTenant] + 1]
    BY <2>1 DEF ConsumersInv, BootInv, WroteInv, Tenant!Store
  <2> QED
    BY <2>1, TenantEffect DEF Created
<1>3. CASE version' = version
  BY <1>1, <1>3 DEF Register!vars
<1>4. CASE version' = [version EXCEPT ![NewTenant] = version[NewTenant] + 1]
  <2>1. Register!OtherChange(NewTenant)
    BY <1>1, <1>4 DEF Register!OtherChange
  <2> QED
    BY <1>1, <2>1 DEF Register!Next
<1> QED
  BY <1>2, <1>3, <1>4

\* The interleaved transactions of both consumers implement the register in
\* which each group event takes effect at once and only once, among the other
\* changes of its tenant.
THEOREM Linearizable == ConsumersSpec => ImplementsMembershipRegister
<1>1. ConsumersInit => Register!Init
  BY DEF ConsumersInit, Init, Register!Init, Absent, Register!Absent
<1>2. ConsumersInv /\ [ConsumersNext]_allVars => [Register!Next]_(Register!vars)
  <2>1. ASSUME ConsumersInv, Groups(Next)
        PROVE  [Register!Next]_(Register!vars)
    BY <2>1, StepImplements DEF ConsumersInv, Groups
  <2>2. ASSUME UNCHANGED allVars
        PROVE  UNCHANGED Register!vars
    BY <2>2 DEF allVars, groupVars, Register!vars
  <2> QED
    BY <2>1, <2>2, TenantImplements DEF ConsumersNext
<1> QED
  BY <1>1, <1>2, InvariantHolds, PTL
  DEF ConsumersSpec, ImplementsMembershipRegister, Register!Spec

=============================================================================
