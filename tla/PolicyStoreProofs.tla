-------------------------- MODULE PolicyStoreProofs --------------------------
(***************************************************************************)
(* Proofs about PolicyStore, for any number of tenants, rows, clients and  *)
(* operations.                                                             *)
(***************************************************************************)
EXTENDS PolicyStore, TLAPS

Holding == {"written", "bumped", "staged"}
Inside == {"planned", "written", "bumped", "staged", "committed"}

\* An invocation inside its transaction knows its row.
RowKnown == \A c \in Clients : tx[c].pc \in Inside => tx[c].row \in Rows

TypeInv == TypeOK /\ RowKnown

LEMMA InitType == Init => TypeInv
<1> SUFFICES ASSUME Init PROVE TypeInv
  OBVIOUS
<1> USE StoreAssumption DEF Init
<1>1. row \in [Rows -> Row]
  BY DEF Row, Status, Absent
<1>2. tx \in [Clients -> Tx]
  BY DEF Tx, Idle, PC, Op, Result, Status, Row, Absent
<1>3. RowKnown
  BY DEF RowKnown, Inside, Idle
<1> QED
  BY <1>1, <1>2, <1>3 DEF TypeInv, TypeOK

\* The ten handlers only replace the record of their own invocation.
LEMMA HandlersBegin ==
    ASSUME NEW c \in Clients, NEW r \in Rows, Handle(c, r), TypeInv
    PROVE  \E t \in Tx :
              /\ Begin(c, t)
              /\ t.pc \in {"planned", "done"}
              /\ t.row = r
              /\ ~t.applied
              /\ t.result \in {"none", "existing", "notfound", "internal"}
<1> USE StoreAssumption DEF TypeInv, TypeOK
<1> DEFINE Good(t) == /\ t \in Tx
                      /\ t.pc \in {"planned", "done"}
                      /\ t.row = r
                      /\ ~t.applied
                      /\ t.result \in {"none", "existing", "notfound", "internal"}
<1>1. ASSUME NEW op \in Op, NEW s \in Status, NEW e \in Nat, NEW a \in BOOLEAN
      PROVE  Good(Plan(op, r, s, e, a))
  BY <1>1 DEF Plan, Idle, Tx, PC, Op, Status, Result, Row, Absent
<1>2. ASSUME NEW res \in {"existing", "notfound", "internal"}
      PROVE  Good(Refuse(r, res))
  BY <1>2 DEF Refuse, Idle, Tx, PC, Op, Status, Result, Row, Absent
<1> SUFFICES \E t : Begin(c, t) /\ Good(t)
  OBVIOUS
<1> HIDE DEF Good
<1>3. "insert" \in Op /\ "update" \in Op /\ "upsert" \in Op /\ "project" \in Op
  BY DEF Op
<1>4. {"active", "disabled", "revoked", "removed"} \subseteq Status
  BY DEF Status
<1>5. 0 \in Nat /\ row[r].version \in Nat /\ \A v \in 1..(MaxOps + 1) : v \in Nat
  BY DEF Row
<1>6. CASE CreatePermission(c, r) \/ CreateRole(c, r) \/ CreateBinding(c, r)
  BY <1>1, <1>2, <1>3, <1>4, <1>5, <1>6 DEF CreatePermission, CreateRole, CreateBinding
<1>7. CASE GrantRolePermission(c, r)
  BY <1>1, <1>2, <1>3, <1>4, <1>5, <1>7 DEF GrantRolePermission
<1>8. CASE GrantPlatformSuperAdmin(c, r)
  BY <1>1, <1>2, <1>3, <1>4, <1>5, <1>8 DEF GrantPlatformSuperAdmin
<1>9. CASE \E s \in Status : ApplyGroupEvent(c, r, s)
  BY <1>1, <1>2, <1>3, <1>4, <1>5, <1>9 DEF ApplyGroupEvent
<1>10. CASE \E v \in 1..(MaxOps + 1) : RevokeRolePermission(c, r, v) \/ RevokeBinding(c, r, v)
  BY <1>1, <1>2, <1>3, <1>4, <1>5, <1>10 DEF RevokeRolePermission, RevokeBinding
<1>11. CASE \E v \in 1..(MaxOps + 1) : \E s \in Status :
                UpdatePermission(c, r, s, v) \/ UpdateRole(c, r, s, v)
  BY <1>1, <1>2, <1>3, <1>4, <1>5, <1>11 DEF UpdatePermission, UpdateRole
<1> QED
  BY <1>6, <1>7, <1>8, <1>9, <1>10, <1>11 DEF Handle

LEMMA StepType ==
    ASSUME TypeInv, [Next]_vars
    PROVE  TypeInv'
<1> USE StoreAssumption DEF TypeInv, TypeOK
<1>1. CASE UNCHANGED vars
  BY <1>1 DEF vars, RowKnown
<1>2. CASE Exhausted
  BY <1>2 DEF Exhausted, vars, RowKnown
<1>3. ASSUME NEW c \in Clients, NEW r \in Rows, Handle(c, r)
      PROVE  TypeInv'
  <2>1. PICK t \in Tx : Begin(c, t) /\ t.row = r
    BY <1>3, HandlersBegin
  <2> QED
    BY <2>1 DEF Begin, RowKnown
<1>4. ASSUME NEW c \in Clients, Step(c)
      PROVE  TypeInv'
  <2> DEFINE Good(t) == t \in Tx /\ (t.pc \in Inside => t.row \in Rows)
  <2>0. tx[c] \in Tx /\ (tx[c].pc \in Inside => tx[c].row \in Rows)
    BY DEF RowKnown
  <2>a. ASSUME NEW res \in Result, Answer(c, res),
               UNCHANGED <<row, version, events, quiet, started>>
        PROVE  TypeInv'
    <3>1. [tx[c] EXCEPT !.pc = "done", !.result = res] \in Tx
      BY <2>0 DEF Tx, PC
    <3> QED
      BY <2>a, <3>1 DEF Answer, RowKnown, Inside, Tx, PC
  <2>1. CASE Write(c)
    <3>1. CASE ~Applies(tx[c])
      <4>1. "conflict" \in Result /\ "stale" \in Result
        BY DEF Result
      <4> QED
        BY <2>1, <3>1, <4>1, <2>a DEF Write
    <3>2. CASE Applies(tx[c])
      <4>1. PICK image \in Images(tx[c]) :
                tx' = [tx EXCEPT ![c].pc = "written", ![c].image = image]
        BY <2>1, <3>2 DEF Write
      <4>2. tx[c].row \in Rows
        BY <2>0, <2>1 DEF Write, Inside
      <4>3. image \in Row
        BY <4>1, <4>2, <2>0 DEF Images, Row, Tx
      <4>4. [tx[c] EXCEPT !.pc = "written", !.image = image] \in Tx
        BY <2>0, <4>3 DEF Tx, PC
      <4>5. UNCHANGED <<row, version, events, quiet, started>>
        BY <2>1 DEF Write
      <4>6. tx' \in [Clients -> Tx]
        BY <4>1, <4>4
      <4>7. RowKnown'
        BY <4>1, <4>2 DEF RowKnown, Inside
      <4> QED
        BY <4>5, <4>6, <4>7
    <3> QED
      BY <3>1, <3>2
  <2>2. CASE BumpPolicyVersion(c)
    <3>1. tx[c].row \in Rows /\ version[TenantOf[tx[c].row]] + 1 \in Nat
      BY <2>0, <2>2 DEF BumpPolicyVersion, Inside
    <3>2. [tx[c] EXCEPT !.pc = "bumped", !.pv = version[TenantOf[tx[c].row]] + 1] \in Tx
      BY <2>0, <3>1 DEF Tx, PC
    <3> QED
      BY <2>2, <3>1, <3>2 DEF BumpPolicyVersion, RowKnown, Inside
  <2>3. CASE AddOutbox(c)
    <3>1. [tx[c] EXCEPT !.pc = "staged"] \in Tx
      BY <2>0 DEF Tx, PC
    <3> QED
      BY <2>0, <2>3, <3>1 DEF AddOutbox, RowKnown, Inside
  <2>4. CASE Commit(c) \/ CommitUnacknowledged(c)
    <3>1. tx[c].row \in Rows
      BY <2>0, <2>4 DEF Commit, CommitUnacknowledged, ReadyToCommit, Inside
    <3>2. row' \in [Rows -> Row] /\ version' \in [Tenants -> Nat]
      BY <2>0, <2>4, <3>1 DEF Commit, CommitUnacknowledged, Apply, Tx
    <3>3. events' \subseteq Change /\ quiet' \subseteq Change
      BY <2>0, <2>4, <3>1 DEF Commit, CommitUnacknowledged, Apply, Tx, Change
    <3>4. CASE Commit(c)
      <4>1. [tx[c] EXCEPT !.pc = "committed", !.applied = TRUE] \in Tx
        BY <2>0 DEF Tx, PC
      <4> QED
        BY <3>1, <3>2, <3>3, <3>4, <4>1 DEF Commit, RowKnown, Inside
    <3>5. CASE CommitUnacknowledged(c)
      <4>1. [tx[c] EXCEPT !.pc = "done", !.applied = TRUE, !.result = "internal"] \in Tx
        BY <2>0 DEF Tx, PC, Result
      <4> QED
        BY <3>1, <3>2, <3>3, <3>5, <4>1 DEF CommitUnacknowledged, RowKnown, Inside
    <3> QED
      BY <2>4, <3>4, <3>5
  <2>5. CASE Rollback(c)
    BY <2>5, <2>a DEF Rollback, Result
  <2>6. CASE \E res \in Result : Finish(c, res)
    BY <2>6, <2>a DEF Finish
  <2>7. CASE Return(c)
    <3>1. Idle \in Tx
      BY DEF Idle, Tx, PC, Op, Result, Status, Row, Absent
    <3> QED
      BY <2>7, <3>1 DEF Return, RowKnown, Inside, Idle
  <2> QED
    BY <1>4, <2>1, <2>2, <2>3, <2>4, <2>5, <2>6, <2>7 DEF Step
<1> QED
  BY <1>1, <1>2, <1>3, <1>4 DEF Next

\* Every state of the store is well typed, for all values of the constants.
THEOREM TypeCorrect == Spec => []TypeOK
<1>1. Init => TypeInv
  BY InitType
<1>2. TypeInv /\ [Next]_vars => TypeInv'
  BY StepType
<1>3. TypeInv => TypeOK
  BY DEF TypeInv
<1> QED
  BY <1>1, <1>2, <1>3, PTL DEF Spec

-----------------------------------------------------------------------------
(* The inductive invariant behind the safety properties: the locks exclude, *)
(* and what a transaction computed under a lock is still right.             *)

RowLocks ==
    \A c, d \in Clients :
        c # d /\ tx[c].pc \in Holding /\ tx[d].pc \in Holding => tx[c].row # tx[d].row

VersionLocks ==
    \A c, d \in Clients :
        c # d /\ tx[c].pc \in {"bumped", "staged"} /\ tx[d].pc \in {"bumped", "staged"}
        => TenantOf[tx[c].row] # TenantOf[tx[d].row]

NextVersion ==
    \A c \in Clients : tx[c].pc \in {"bumped", "staged"}
        => tx[c].pv = version[TenantOf[tx[c].row]] + 1

NextImage ==
    \A c \in Clients : tx[c].pc \in Holding
        => \/ tx[c].image = row[tx[c].row]
           \/ tx[c].image.version = row[tx[c].row].version + 1

AppliedAtCommit ==
    \A c \in Clients :
        /\ tx[c].pc \in {"planned", "written", "bumped", "staged"} => ~tx[c].applied
        /\ tx[c].pc = "committed" => tx[c].applied

TxInv ==
    /\ RowLocks
    /\ VersionLocks
    /\ NextVersion
    /\ NextImage
    /\ NoLostUpdate
    /\ AppliedAtCommit
    /\ AnswersAreTruthful

SafeInv == TypeInv /\ TxInv /\ EveryVersionAccounted

LEMMA InitSafe == Init => SafeInv
<1> SUFFICES ASSUME Init PROVE SafeInv
  OBVIOUS
<1>1. TypeInv
  BY InitType
<1>2. \A c \in Clients : tx[c] = Idle
  BY DEF Init
<1>3. TxInv
  BY <1>2 DEF TxInv, RowLocks, VersionLocks, NextVersion, NextImage, NoLostUpdate,
              AppliedAtCommit, AnswersAreTruthful, Holding, Idle
<1>4. EveryVersionAccounted
  BY StoreAssumption DEF Init, EveryVersionAccounted
<1> QED
  BY <1>1, <1>3, <1>4 DEF SafeInv

\* A step that leaves the tables alone and its own invocation outside every
\* lock.
LEMMA LockFreeStep ==
    ASSUME SafeInv, NEW c \in Clients, NEW t \in Tx,
           tx' = [tx EXCEPT ![c] = t],
           UNCHANGED <<row, version, events, quiet>>,
           t.pc \notin Holding,
           t.pc = "planned" => ~t.applied,
           t.pc = "committed" => t.applied,
           t.pc = "done" => /\ t.result = "ok" => t.applied
                            /\ t.result \in {"existing", "notfound", "stale", "conflict"}
                                  => ~t.applied
    PROVE  TxInv' /\ EveryVersionAccounted'
<1> USE DEF SafeInv, TypeInv, TypeOK, TxInv
<1>1. \A d \in Clients : tx'[d] = IF d = c THEN t ELSE tx[d]
  OBVIOUS
<1>2. RowLocks' /\ VersionLocks' /\ NextVersion' /\ NextImage' /\ NoLostUpdate'
  BY <1>1 DEF RowLocks, VersionLocks, NextVersion, NextImage, NoLostUpdate, Holding
<1>3. AppliedAtCommit' /\ AnswersAreTruthful'
  BY <1>1 DEF AppliedAtCommit, AnswersAreTruthful, Holding
<1>4. EveryVersionAccounted'
  BY DEF EveryVersionAccounted
<1> QED
  BY <1>2, <1>3, <1>4

LEMMA SafeWrite ==
    ASSUME SafeInv, NEW c \in Clients, Write(c)
    PROVE  TxInv' /\ EveryVersionAccounted'
<1> USE DEF SafeInv, TypeInv, TypeOK
<1>0. tx[c] \in Tx /\ tx[c].row \in Rows /\ ~tx[c].applied
  BY DEF Write, RowKnown, Inside, TxInv, AppliedAtCommit
<1>1. CASE ~Applies(tx[c])
  <2>1. PICK res \in {"conflict", "stale"} : Answer(c, res)
    BY <1>1 DEF Write
  <2> DEFINE t == [tx[c] EXCEPT !.pc = "done", !.result = res]
  <2>2. t \in Tx /\ t.pc = "done" /\ t.result = res /\ t.applied = tx[c].applied
    BY <1>0 DEF Tx, PC, Result
  <2>3. tx' = [tx EXCEPT ![c] = t]
    BY <2>1 DEF Answer
  <2>4. UNCHANGED <<row, version, events, quiet>>
    BY DEF Write
  <2> HIDE DEF t
  <2> QED
    BY <1>0, <2>2, <2>3, <2>4, LockFreeStep DEF Holding
<1>2. CASE Applies(tx[c])
  <2>1. PICK image \in Images(tx[c]) :
            tx' = [tx EXCEPT ![c].pc = "written", ![c].image = image]
    BY <1>2 DEF Write
  <2>2. UNCHANGED <<row, version, events, quiet>>
    BY DEF Write
  <2>3. image = row[tx[c].row] \/ image.version = row[tx[c].row].version + 1
    BY <2>1 DEF Images
  <2>4. \A d \in Clients \ {c} : tx'[d] = tx[d]
    BY <2>1
  <2>5. /\ tx'[c].pc = "written" /\ tx'[c].row = tx[c].row /\ tx'[c].image = image
        /\ tx'[c].op = tx[c].op /\ tx'[c].expected = tx[c].expected
        /\ tx'[c].applied = tx[c].applied
    BY <1>0, <2>1 DEF Tx
  <2>6. \A d \in Clients \ {c} : ~(tx[d].pc \in Holding /\ tx[d].row = tx[c].row)
    BY DEF Write, HoldsRow, Holding
  <2>7. RowLocks'
    BY <2>4, <2>5, <2>6 DEF RowLocks, TxInv
  <2>8. VersionLocks' /\ NextVersion'
    BY <2>2, <2>4, <2>5 DEF VersionLocks, NextVersion, TxInv
  <2>9. NextImage'
    BY <2>2, <2>3, <2>4, <2>5 DEF NextImage, TxInv
  <2>10. NoLostUpdate'
    BY <1>2, <2>2, <2>4, <2>5 DEF NoLostUpdate, TxInv, Applies
  <2>11. AppliedAtCommit' /\ AnswersAreTruthful'
    BY <1>0, <2>4, <2>5 DEF AppliedAtCommit, AnswersAreTruthful, TxInv
  <2>12. EveryVersionAccounted'
    BY <2>2 DEF EveryVersionAccounted
  <2> QED
    BY <2>7, <2>8, <2>9, <2>10, <2>11, <2>12 DEF TxInv
<1> QED
  BY <1>1, <1>2

LEMMA SafeBump ==
    ASSUME SafeInv, NEW c \in Clients, BumpPolicyVersion(c)
    PROVE  TxInv' /\ EveryVersionAccounted'
<1> USE DEF SafeInv, TypeInv, TypeOK, BumpPolicyVersion
<1>0. tx[c] \in Tx
  OBVIOUS
<1>1. \A d \in Clients \ {c} : tx'[d] = tx[d]
  OBVIOUS
<1>2. /\ tx'[c].pc = "bumped" /\ tx'[c].row = tx[c].row /\ tx'[c].image = tx[c].image
      /\ tx'[c].op = tx[c].op /\ tx'[c].expected = tx[c].expected
      /\ tx'[c].applied = tx[c].applied
      /\ tx'[c].pv = version[TenantOf[tx[c].row]] + 1
  BY <1>0 DEF Tx
<1>3. \A d \in Clients \ {c} :
          tx[d].pc \in {"bumped", "staged"} => TenantOf[tx[d].row] # TenantOf[tx[c].row]
  BY DEF HoldsVersion
<1>4. RowLocks' /\ NextImage' /\ NoLostUpdate'
  BY <1>1, <1>2 DEF RowLocks, NextImage, NoLostUpdate, TxInv, Holding
<1>5. VersionLocks' /\ NextVersion'
  BY <1>1, <1>2, <1>3 DEF VersionLocks, NextVersion, TxInv
<1>6. AppliedAtCommit' /\ AnswersAreTruthful'
  BY <1>1, <1>2 DEF AppliedAtCommit, AnswersAreTruthful, TxInv
<1>7. EveryVersionAccounted'
  BY DEF EveryVersionAccounted
<1> QED
  BY <1>4, <1>5, <1>6, <1>7 DEF TxInv

LEMMA SafeAddOutbox ==
    ASSUME SafeInv, NEW c \in Clients, AddOutbox(c)
    PROVE  TxInv' /\ EveryVersionAccounted'
<1> USE DEF SafeInv, TypeInv, TypeOK, AddOutbox
<1>0. tx[c] \in Tx
  OBVIOUS
<1>1. \A d \in Clients \ {c} : tx'[d] = tx[d]
  OBVIOUS
<1>2. /\ tx'[c].pc = "staged" /\ tx'[c].row = tx[c].row /\ tx'[c].image = tx[c].image
      /\ tx'[c].op = tx[c].op /\ tx'[c].expected = tx[c].expected
      /\ tx'[c].applied = tx[c].applied /\ tx'[c].pv = tx[c].pv
  BY <1>0 DEF Tx
<1>3. RowLocks' /\ NextImage' /\ NoLostUpdate' /\ VersionLocks' /\ NextVersion'
  BY <1>1, <1>2 DEF RowLocks, NextImage, NoLostUpdate, VersionLocks, NextVersion, TxInv, Holding
<1>4. AppliedAtCommit' /\ AnswersAreTruthful'
  BY <1>1, <1>2 DEF AppliedAtCommit, AnswersAreTruthful, TxInv
<1>5. EveryVersionAccounted'
  BY DEF EveryVersionAccounted
<1> QED
  BY <1>3, <1>4, <1>5 DEF TxInv

LEMMA SafeCommit ==
    ASSUME SafeInv, NEW c \in Clients, Commit(c) \/ CommitUnacknowledged(c)
    PROVE  TxInv' /\ EveryVersionAccounted'
<1> USE DEF SafeInv, TypeInv, TypeOK
<1> DEFINE T == TenantOf[tx[c].row]
           change == [tenant |-> T, version |-> tx[c].pv, row |-> tx[c].row]
<1>0. tx[c] \in Tx /\ tx[c].row \in Rows /\ tx[c].pc \in {"bumped", "staged"}
  BY DEF Commit, CommitUnacknowledged, ReadyToCommit, RowKnown, Inside
<1>1. Apply(c)
  BY DEF Commit, CommitUnacknowledged
<1>2. T \in Tenants /\ version[T] \in Nat /\ tx[c].pv = version[T] + 1
  BY <1>0, StoreAssumption DEF TxInv, NextVersion
<1>3. row' = [row EXCEPT ![tx[c].row] = tx[c].image]
  BY <1>1 DEF Apply
<1>4. version' = [version EXCEPT ![T] = version[T] + 1]
  BY <1>1, <1>2 DEF Apply
<1>5. \/ events' = events \cup {change} /\ quiet' = quiet
      \/ events' = events /\ quiet' = quiet \cup {change}
  BY <1>1 DEF Apply
<1>6. \A d \in Clients \ {c} : tx'[d] = tx[d]
  BY DEF Commit, CommitUnacknowledged
<1>7. /\ tx'[c].applied
      /\ tx'[c].pc = "committed" \/ (tx'[c].pc = "done" /\ tx'[c].result = "internal")
  <2>1. CASE Commit(c)
    BY <1>0, <2>1 DEF Commit, Tx
  <2>2. CASE CommitUnacknowledged(c)
    BY <1>0, <2>2 DEF CommitUnacknowledged, Tx
  <2> QED
    BY <2>1, <2>2
<1>8. \A d \in Clients \ {c} : tx[d].pc \in Holding => tx[d].row # tx[c].row
  BY <1>0 DEF TxInv, RowLocks, Holding
<1>9. \A d \in Clients \ {c} : tx[d].pc \in {"bumped", "staged"} => TenantOf[tx[d].row] # T
  BY <1>0 DEF TxInv, VersionLocks
<1>10. \A d \in Clients : tx[d].pc \in Holding =>
          tx[d].row \in Rows /\ TenantOf[tx[d].row] \in Tenants
  BY StoreAssumption DEF RowKnown, Inside, Holding
<1>11. \A d \in Clients \ {c} : tx[d].pc \in Holding => row'[tx[d].row] = row[tx[d].row]
  BY <1>3, <1>8, <1>10
<1>12. \A d \in Clients \ {c} : tx[d].pc \in {"bumped", "staged"}
          => version'[TenantOf[tx[d].row]] = version[TenantOf[tx[d].row]]
  BY <1>4, <1>9, <1>10 DEF Holding
<1>13. tx'[c].pc \notin Holding
  BY <1>7 DEF Holding
<1>14. RowLocks' /\ VersionLocks'
  BY <1>6, <1>13 DEF RowLocks, VersionLocks, TxInv, Holding
<1>15. NextVersion'
  BY <1>6, <1>12, <1>13 DEF NextVersion, TxInv, Holding
<1>16. NextImage' /\ NoLostUpdate'
  BY <1>6, <1>11, <1>13 DEF NextImage, NoLostUpdate, TxInv, Holding
<1>17. AppliedAtCommit' /\ AnswersAreTruthful'
  BY <1>6, <1>7 DEF AppliedAtCommit, AnswersAreTruthful, TxInv
<1>18. EveryVersionAccounted'
  <2> DEFINE old == events \cup quiet
             new == events' \cup quiet'
  <2>1. new = old \cup {change}
    BY <1>5
  <2>2. \A e \in old : e \in Change /\ e.version \in 1..version[e.tenant]
    BY DEF EveryVersionAccounted
  <2>3. change \in Change /\ change.tenant = T /\ change.version = version[T] + 1
    BY <1>0, <1>2 DEF Change, Tx
  <2>4. change \notin old
    BY <1>2, <2>2, <2>3
  <2>5. events' \cap quiet' = {}
    BY <1>5, <2>4 DEF EveryVersionAccounted
  <2>6. \A t \in Tenants : version[t] \in Nat
                           /\ version'[t] = IF t = T THEN version[t] + 1 ELSE version[t]
    BY <1>2, <1>4
  <2>7. \A e \in new : e.version \in 1..version'[e.tenant]
    BY <2>1, <2>2, <2>3, <2>6, <1>2 DEF Change
  <2>8. \A e, f \in new : e.tenant = f.tenant /\ e.version = f.version => e = f
    <3>1. \A e, f \in old : e.tenant = f.tenant /\ e.version = f.version => e = f
      BY DEF EveryVersionAccounted
    <3>2. \A e \in old : e.tenant = T => e.version # version[T] + 1
      BY <1>2, <2>2
    <3> HIDE DEF old, new, change
    <3> QED
      BY <3>1, <3>2, <2>1, <2>3
  <2>9. ASSUME NEW t \in Tenants, NEW v \in 1..version'[t]
        PROVE  \E e \in new : e.tenant = t /\ e.version = v
    <3>1. CASE t = T /\ v = version[T] + 1
      BY <3>1, <2>1, <2>3
    <3>2. CASE ~(t = T /\ v = version[T] + 1)
      <4>1. v \in 1..version[t]
        BY <3>2, <2>6, <1>2
      <4>2. \E e \in old : e.tenant = t /\ e.version = v
        BY <4>1 DEF EveryVersionAccounted
      <4> QED
        BY <4>2, <2>1
    <3> QED
      BY <3>1, <3>2
  <2> QED
    BY <2>5, <2>7, <2>8, <2>9 DEF EveryVersionAccounted
<1> QED
  BY <1>14, <1>15, <1>16, <1>17, <1>18 DEF TxInv

LEMMA SafeStep ==
    ASSUME SafeInv, [Next]_vars
    PROVE  SafeInv'
<1>0. TypeInv'
  BY StepType DEF SafeInv
<1> SUFFICES TxInv' /\ EveryVersionAccounted'
  BY <1>0 DEF SafeInv
<1>1. CASE UNCHANGED vars \/ Exhausted
  <2>1. UNCHANGED vars
    BY <1>1 DEF Exhausted
  <2> QED
    BY <2>1 DEF vars, SafeInv, TxInv, RowLocks, VersionLocks, NextVersion, NextImage,
                NoLostUpdate, AppliedAtCommit, AnswersAreTruthful, EveryVersionAccounted
<1>2. ASSUME NEW c \in Clients, NEW r \in Rows, Handle(c, r)
      PROVE  TxInv' /\ EveryVersionAccounted'
  <2>1. PICK t \in Tx : /\ Begin(c, t)
                        /\ t.pc \in {"planned", "done"}
                        /\ ~t.applied
                        /\ t.result \in {"none", "existing", "notfound", "internal"}
    BY <1>2, HandlersBegin DEF SafeInv
  <2>2. tx' = [tx EXCEPT ![c] = t] /\ UNCHANGED <<row, version, events, quiet>>
    BY <2>1 DEF Begin
  <2>3. t.pc \notin Holding /\ t.pc # "committed" /\ t.result # "ok"
    BY <2>1 DEF Holding
  <2> QED
    BY <2>1, <2>2, <2>3, LockFreeStep
<1>3. ASSUME NEW c \in Clients, Step(c)
      PROVE  TxInv' /\ EveryVersionAccounted'
  <2>0. tx[c] \in Tx
    BY DEF SafeInv, TypeInv, TypeOK
  <2>a. ASSUME NEW res \in Result, Answer(c, res), UNCHANGED <<row, version, events, quiet>>,
               res = "ok" => tx[c].applied,
               res \notin {"existing", "notfound", "stale", "conflict"}
        PROVE  TxInv' /\ EveryVersionAccounted'
    <3> DEFINE t == [tx[c] EXCEPT !.pc = "done", !.result = res]
    <3>1. t \in Tx /\ t.pc = "done" /\ t.result = res /\ t.applied = tx[c].applied
      BY <2>0 DEF Tx, PC
    <3>2. tx' = [tx EXCEPT ![c] = t]
      BY <2>a DEF Answer
    <3> HIDE DEF t
    <3> QED
      BY <2>a, <3>1, <3>2, LockFreeStep DEF Holding
  <2>1. CASE Rollback(c)
    BY <2>1, <2>a DEF Rollback, Result
  <2>2. CASE \E res \in Result : Finish(c, res)
    <3>1. PICK res \in Result : Finish(c, res)
      BY <2>2
    <3>2. tx[c].applied
      BY <3>1 DEF Finish, SafeInv, TxInv, AppliedAtCommit
    <3> QED
      BY <3>1, <3>2, <2>a DEF Finish
  <2>3. CASE Return(c)
    <3>1. /\ Idle \in Tx /\ Idle.pc \notin Holding /\ Idle.pc # "planned"
          /\ Idle.pc # "committed" /\ Idle.pc # "done"
      BY DEF Idle, Tx, PC, Op, Result, Status, Row, Absent, Holding
    <3>2. tx' = [tx EXCEPT ![c] = Idle] /\ UNCHANGED <<row, version, events, quiet>>
      BY <2>3 DEF Return
    <3> QED
      BY <3>1, <3>2, LockFreeStep
  <2> QED
    BY <1>3, <2>1, <2>2, <2>3, SafeWrite, SafeBump, SafeAddOutbox, SafeCommit DEF Step
<1> QED
  BY <1>1, <1>2, <1>3 DEF Next

LEMMA SafeAlways == Spec => []SafeInv
<1>1. Init => SafeInv
  BY InitSafe
<1>2. SafeInv /\ [Next]_vars => SafeInv'
  BY SafeStep
<1> QED
  BY <1>1, <1>2, PTL DEF Spec

\* mutate: whatever the interleaving and whichever transactions fail, the
\* policy versions of a tenant have no gap and no repetition, and each has
\* its event when it was made through the management API.
THEOREM VersionsAccounted == Spec => []EveryVersionAccounted
<1>1. SafeInv => EveryVersionAccounted
  BY DEF SafeInv
<1> QED
  BY <1>1, SafeAlways, PTL

\* affected(): no committed update of a row is overwritten by one that was
\* computed from an older version of it.
THEOREM UpdatesNotLost == Spec => []NoLostUpdate
<1>1. SafeInv => NoLostUpdate
  BY DEF SafeInv, TxInv
<1> QED
  BY <1>1, SafeAlways, PTL

\* translate and mutate: "ok" is only answered for a committed change, and
\* an answer that invites the caller to repeat only for one that was not.
THEOREM TruthfulAnswers == Spec => []AnswersAreTruthful
<1>1. SafeInv => AnswersAreTruthful
  BY DEF SafeInv, TxInv
<1> QED
  BY <1>1, SafeAlways, PTL

-----------------------------------------------------------------------------
(* What a step may do to the tables.                                       *)

\* Only a commit changes a table, and a commit makes one change.
LEMMA TableStep ==
    ASSUME SafeInv, [Next]_vars
    PROVE  \/ UNCHANGED <<row, version, events, quiet>>
           \/ \E c \in Clients :
                 /\ Apply(c)
                 /\ tx[c].pc \in {"bumped", "staged"}
                 /\ tx[c].row \in Rows
                 /\ tx[c].announce \in BOOLEAN
<1>1. CASE UNCHANGED vars \/ Exhausted
  BY <1>1 DEF Exhausted, vars
<1>2. ASSUME NEW c \in Clients, NEW r \in Rows, Handle(c, r)
      PROVE  UNCHANGED <<row, version, events, quiet>>
  BY <1>2, HandlersBegin DEF SafeInv, Begin
<1>3. ASSUME NEW c \in Clients, Commit(c) \/ CommitUnacknowledged(c)
      PROVE  /\ Apply(c)
             /\ tx[c].pc \in {"bumped", "staged"}
             /\ tx[c].row \in Rows
             /\ tx[c].announce \in BOOLEAN
  <2>1. Apply(c) /\ tx[c].pc \in {"bumped", "staged"}
    BY <1>3 DEF Commit, CommitUnacknowledged, ReadyToCommit
  <2>2. tx[c].row \in Rows /\ tx[c] \in Tx
    BY <2>1 DEF SafeInv, TypeInv, TypeOK, RowKnown, Inside
  <2> QED
    BY <2>1, <2>2 DEF Tx
<1>4. ASSUME NEW c \in Clients, Step(c), ~Commit(c), ~CommitUnacknowledged(c)
      PROVE  UNCHANGED <<row, version, events, quiet>>
  BY <1>4 DEF Step, Write, BumpPolicyVersion, AddOutbox, Rollback, Finish, Return
<1> QED
  BY <1>1, <1>2, <1>3, <1>4 DEF Next

LEMMA RowStep ==
    ASSUME SafeInv, [Next]_vars, NEW r \in Rows, row'[r] # row[r]
    PROVE  row'[r].version = row[r].version + 1
<1>1. PICK c \in Clients : Apply(c) /\ tx[c].pc \in {"bumped", "staged"} /\ tx[c].row \in Rows
  BY TableStep
<1>2. row' = [row EXCEPT ![tx[c].row] = tx[c].image]
  BY <1>1 DEF Apply
<1>3. r = tx[c].row /\ row'[r] = tx[c].image
  BY <1>1, <1>2 DEF SafeInv, TypeInv, TypeOK
<1>4. tx[c].image = row[r] \/ tx[c].image.version = row[r].version + 1
  BY <1>1, <1>3 DEF SafeInv, TxInv, NextImage, Holding
<1> QED
  BY <1>3, <1>4

\* The audit triggers and the row locks together: a committed row only ever
\* goes to its next version.
THEOREM RowsGrowByOne == Spec => RowVersionsGrowByOne
<1>1. SafeInv /\ [Next]_vars =>
          [\A r \in Rows : row'[r] # row[r] => row'[r].version = row[r].version + 1]_vars
  BY RowStep
<1> QED
  BY <1>1, SafeAlways, PTL DEF RowVersionsGrowByOne, Spec

LEMMA LogStep ==
    ASSUME SafeInv, [Next]_vars
    PROVE  [Log!Next]_(Log!vars)
<1>1. CASE UNCHANGED <<row, version, events, quiet>>
  BY <1>1 DEF Log!vars
<1>2. ASSUME NEW c \in Clients, Apply(c), tx[c].pc \in {"bumped", "staged"},
             tx[c].row \in Rows, tx[c].announce \in BOOLEAN
      PROVE  Log!Next
  <2> DEFINE t == TenantOf[tx[c].row]
  <2>1. t \in Tenants
    BY <1>2, StoreAssumption
  <2>2. tx[c].pv = version[t] + 1
    BY <1>2 DEF SafeInv, TxInv, NextVersion
  <2>3. version' = [version EXCEPT ![t] = @ + 1]
    BY <1>2, <2>2 DEF Apply
  <2>4. CASE tx[c].announce
    <3>1. Log!Announce(t, tx[c].row)
      BY <1>2, <2>2, <2>3, <2>4 DEF Apply, Log!Announce
    <3> QED
      BY <1>2, <2>1, <3>1 DEF Log!Next
  <2>5. CASE ~tx[c].announce
    <3>1. Log!Bump(t)
      BY <1>2, <2>3, <2>5 DEF Apply, Log!Bump
    <3> QED
      BY <2>1, <3>1 DEF Log!Next
  <2> QED
    BY <2>4, <2>5
<1> QED
  BY <1>1, <1>2, TableStep

\* The interleaved transactions of mutate, the projections and the bootstrap
\* command implement the atomic log of PolicyLog.
THEOREM StoreImplementsLog == Spec => ImplementsPolicyLog
<1>1. Init => Log!Init
  BY DEF Init, Log!Init
<1>2. SafeInv /\ [Next]_vars => [Log!Next]_(Log!vars)
  BY LogStep
<1> QED
  BY <1>1, <1>2, SafeAlways, PTL DEF Spec, ImplementsPolicyLog, Log!Spec

-----------------------------------------------------------------------------
(* References.  The lookups of the handlers read outside the transaction;   *)
(* what they saw is still there at the commit because a row never goes      *)
(* back to version 0.                                                       *)

\* The rows a planned or running transaction's row references are there.
PlannedParents ==
    \A c \in Clients : tx[c].pc \in {"planned", "written", "bumped", "staged"}
        => ParentsFound(tx[c].row)

RefInv == NoDanglingReference /\ PlannedParents

LEMMA InitRefs == Init => RefInv
<1> SUFFICES ASSUME Init PROVE RefInv
  OBVIOUS
<1>1. NoDanglingReference
  BY DEF Init, NoDanglingReference
<1>2. PlannedParents
  BY DEF Init, PlannedParents, Idle
<1> QED
  BY <1>1, <1>2 DEF RefInv

\* A handler goes on to its transaction only when it found what its row
\* references, or the row itself.
LEMMA HandlersLookUp ==
    ASSUME NEW c \in Clients, NEW r \in Rows, Handle(c, r), TypeInv, RefInv
    PROVE  \E t : Begin(c, t) /\ t.row = r /\ (t.pc = "planned" => ParentsFound(r))
<1> USE StoreAssumption
<1> DEFINE Good(t) == t.row = r /\ (t.pc = "planned" => ParentsFound(r))
<1>1. ASSUME NEW op, NEW s, NEW e, NEW a, ParentsFound(r)
      PROVE  Good(Plan(op, r, s, e, a))
  BY <1>1 DEF Plan, Idle
<1>2. ASSUME NEW res
      PROVE  Good(Refuse(r, res))
  BY DEF Refuse, Idle
<1>3. Present(r) => ParentsFound(r)
  BY DEF RefInv, NoDanglingReference
<1>4. (\A p \in Parents[r] : Found(p, r) /\ Active(p)) => ParentsFound(r)
  BY DEF ParentsFound
<1>5. r \in Permissions \cup Roles \cup SubjectGroups => ParentsFound(r)
  BY DEF ParentsFound
<1> SUFFICES \E t : Begin(c, t) /\ Good(t)
  OBVIOUS
<1> HIDE DEF Good
<1>6. CASE CreatePermission(c, r) \/ CreateRole(c, r)
  BY <1>1, <1>5, <1>6 DEF CreatePermission, CreateRole
<1>7. CASE CreateBinding(c, r)
  BY <1>1, <1>2, <1>7 DEF CreateBinding
<1>8. CASE GrantRolePermission(c, r)
  BY <1>1, <1>2, <1>8 DEF GrantRolePermission
<1>9. CASE GrantPlatformSuperAdmin(c, r)
  BY <1>1, <1>2, <1>4, <1>9 DEF GrantPlatformSuperAdmin
<1>10. CASE \E s \in Status : ApplyGroupEvent(c, r, s)
  BY <1>1, <1>5, <1>10 DEF ApplyGroupEvent
<1>11. CASE \E v \in 1..(MaxOps + 1) : RevokeRolePermission(c, r, v) \/ RevokeBinding(c, r, v)
  BY <1>1, <1>2, <1>3, <1>11 DEF RevokeRolePermission, RevokeBinding
<1>12. CASE \E v \in 1..(MaxOps + 1) : \E s \in Status :
                UpdatePermission(c, r, s, v) \/ UpdateRole(c, r, s, v)
  BY <1>1, <1>2, <1>3, <1>12 DEF UpdatePermission, UpdateRole
<1> QED
  BY <1>6, <1>7, <1>8, <1>9, <1>10, <1>11, <1>12 DEF Handle

\* A row that is there stays there.
LEMMA RowsStay ==
    ASSUME SafeInv, [Next]_vars, NEW r \in Rows, Present(r)
    PROVE  Present(r)'
<1>1. row[r].version \in Nat
  BY DEF SafeInv, TypeInv, TypeOK, Row
<1>2. CASE row'[r] = row[r]
  BY <1>2 DEF Present
<1>3. CASE row'[r] # row[r]
  <2>1. row'[r].version = row[r].version + 1
    BY <1>3, RowStep
  <2> QED
    BY <1>1, <2>1 DEF Present
<1> QED
  BY <1>2, <1>3

LEMMA ParentsStay ==
    ASSUME SafeInv, [Next]_vars, NEW r \in Rows, ParentsFound(r)
    PROVE  ParentsFound(r)'
<1>1. Parents[r] \subseteq Rows
  BY StoreAssumption
<1>2. \A p \in Parents[r] : Present(p)' /\ TenantOf[p] = TenantOf[r]
  BY <1>1, RowsStay DEF ParentsFound, Found
<1> QED
  BY <1>2 DEF ParentsFound, Found

\* A step brings no transaction under way except through a handler's lookups.
LEMMA PlannedStep ==
    ASSUME SafeInv, RefInv, [Next]_vars, NEW c \in Clients,
           tx'[c].pc \in {"planned", "written", "bumped", "staged"}
    PROVE  tx'[c].row \in Rows /\ ParentsFound(tx'[c].row)
<1> USE DEF SafeInv, TypeInv, TypeOK
<1> DEFINE Under(t) == t.pc \in {"planned", "written", "bumped", "staged"}
<1>0. tx'[c].row \in Rows
  BY StepType DEF RowKnown, Inside
<1>1. Under(tx[c]) => ParentsFound(tx[c].row)
  BY DEF RefInv, PlannedParents
<1> SUFFICES \/ Under(tx[c]) /\ tx'[c].row = tx[c].row
             \/ ParentsFound(tx'[c].row)
  BY <1>0, <1>1
<1>2. CASE UNCHANGED vars \/ Exhausted
  BY <1>2 DEF Exhausted, vars
<1>3. ASSUME NEW d \in Clients, NEW r \in Rows, Handle(d, r)
      PROVE  \/ Under(tx[c]) /\ tx'[c].row = tx[c].row
             \/ ParentsFound(tx'[c].row)
  <2>1. PICK t : Begin(d, t) /\ t.row = r /\ (t.pc = "planned" => ParentsFound(r))
    BY <1>3, HandlersLookUp
  <2>2. tx' = [tx EXCEPT ![d] = t]
    BY <2>1 DEF Begin
  <2>3. CASE d # c
    BY <2>2, <2>3
  <2>4. CASE d = c
    <3>1. tx'[c] = t
      BY <2>2, <2>4
    <3>2. t.pc \in {"planned", "done"}
      <4>1. PICK u \in Tx : Begin(d, u) /\ u.pc \in {"planned", "done"}
        BY <1>3, HandlersBegin
      <4>2. tx'[d] = u
        BY <4>1 DEF Begin
      <4> QED
        BY <4>1, <4>2, <3>1, <2>4
    <3> QED
      BY <3>1, <3>2, <2>1
  <2> QED
    BY <2>3, <2>4
<1>4. ASSUME NEW d \in Clients, Step(d)
      PROVE  Under(tx[c]) /\ tx'[c].row = tx[c].row
  <2>0. tx[c] \in Tx /\ tx[d] \in Tx
    OBVIOUS
  <2>1. CASE d # c
    <3>1. tx'[c] = tx[c]
      BY <1>4, <2>1 DEF Step, Write, BumpPolicyVersion, AddOutbox, Commit,
                        CommitUnacknowledged, Rollback, Finish, Return, Answer
    <3> QED
      BY <3>1
  <2>2. CASE d = c
    <3>1. CASE Write(c)
      <4>1. CASE ~Applies(tx[c])
        BY <2>0, <3>1, <4>1 DEF Write, Answer, Tx
      <4>2. CASE Applies(tx[c])
        BY <2>0, <3>1, <4>2 DEF Write, Tx
      <4> QED
        BY <4>1, <4>2
    <3>2. CASE BumpPolicyVersion(c) \/ AddOutbox(c)
      BY <2>0, <3>2 DEF BumpPolicyVersion, AddOutbox, Tx
    <3>3. CASE Commit(c) \/ CommitUnacknowledged(c)
      BY <2>0, <3>3 DEF Commit, CommitUnacknowledged, Tx
    <3>4. CASE Rollback(c) \/ \E res \in Result : Finish(c, res)
      BY <2>0, <3>4 DEF Rollback, Finish, Answer, Tx
    <3>5. CASE Return(c)
      BY <2>0, <3>5 DEF Return, Idle
    <3> QED
      BY <1>4, <2>2, <3>1, <3>2, <3>3, <3>4, <3>5 DEF Step
  <2> QED
    BY <2>1, <2>2
<1> QED
  BY <1>2, <1>3, <1>4 DEF Next

LEMMA RefStep ==
    ASSUME SafeInv, RefInv, [Next]_vars
    PROVE  RefInv'
<1>1. PlannedParents'
  <2> SUFFICES ASSUME NEW c \in Clients,
                      tx'[c].pc \in {"planned", "written", "bumped", "staged"}
               PROVE  ParentsFound(tx[c].row)'
    BY DEF PlannedParents
  <2>1. tx'[c].row \in Rows /\ ParentsFound(tx'[c].row)
    BY PlannedStep
  <2>2. \A p \in Parents[tx'[c].row] :
            p \in Rows /\ Present(p) /\ TenantOf[p] = TenantOf[tx'[c].row]
    BY <2>1, StoreAssumption DEF ParentsFound, Found
  <2>3. \A p \in Parents[tx'[c].row] : Present(p)'
    BY <2>2, RowsStay
  <2> QED
    BY <2>2, <2>3 DEF ParentsFound, Found
<1>2. ASSUME NEW r \in Rows, row'[r] # row[r]
      PROVE  ParentsFound(r)
  <2>1. PICK c \in Clients : Apply(c) /\ tx[c].pc \in {"bumped", "staged"} /\ tx[c].row \in Rows
    BY <1>2, TableStep
  <2>2. r = tx[c].row
    BY <1>2, <2>1 DEF Apply, SafeInv, TypeInv, TypeOK
  <2> QED
    BY <2>1, <2>2 DEF RefInv, PlannedParents
<1>3. NoDanglingReference'
  <2> SUFFICES ASSUME NEW r \in Rows, Present(r)' PROVE ParentsFound(r)'
    BY DEF NoDanglingReference
  <2>1. ParentsFound(r)
    <3>1. CASE row'[r] # row[r]
      BY <3>1, <1>2
    <3>2. CASE row'[r] = row[r]
      BY <3>2 DEF Present, RefInv, NoDanglingReference
    <3> QED
      BY <3>1, <3>2
  <2> QED
    BY <2>1, ParentsStay
<1> QED
  BY <1>1, <1>3 DEF RefInv

\* CreateBinding, GrantRolePermission and the bootstrap command: a binding or
\* a role permission never becomes visible unless what it references is there
\* and of its own tenant, although the handlers look that up before their
\* transaction begins.
THEOREM ReferencesHold == Spec => []NoDanglingReference
<1>1. Init => RefInv
  BY InitRefs
<1>2. SafeInv /\ RefInv /\ [Next]_vars => RefInv'
  BY RefStep
<1>3. RefInv => NoDanglingReference
  BY DEF RefInv
<1> QED
  BY <1>1, <1>2, <1>3, SafeAlways, PTL DEF Spec

=============================================================================
