-------------------------- MODULE IdentityProofs ---------------------------
(***************************************************************************)
(* For any number of incarnations of a name: a restore that completes has  *)
(* done so with its own Jobs if no Job and no Reconcile of a predecessor   *)
(* was left when it was created, and its Job reads its own ConfigMap,      *)
(* whatever was left.                                                      *)
(***************************************************************************)
EXTENDS RestoreIdentity, TLAPS

USE IdentityAssumption

LEMMA InitTypeOK == Init => TypeOK
<1> SUFFICES ASSUME Init PROVE TypeOK
  OBVIOUS
<1>1. owned \in Owned
  BY DEF Init, Absent, Owned, Objects, Source
<1>2. rc \in Reconciles /\ rc.step = "idle"
  BY DEF Init, Idle, Reconciles, Phases
<1>3. uid \in 0..MaxUid /\ last \in 0..MaxUid /\ uid <= last /\ phase \in Phases
  BY DEF Init, Phases
<1>4. done \in [Jobs -> SUBSET Uids]
  BY DEF Init
<1>5. deleting \in BOOLEAN /\ ~deleting /\ leftBehind \in BOOLEAN
  BY DEF Init
<1> QED
  BY <1>1, <1>2, <1>3, <1>4, <1>5 DEF TypeOK

LEMMA NextTypeOK == TypeOK /\ [Next]_vars => TypeOK'
<1> SUFFICES ASSUME TypeOK, [Next]_vars PROVE TypeOK'
  OBVIOUS
<1> USE DEF TypeOK, Idle, Absent, Objects, Jobs, Phases, Uids, objectVars,
            Goto, SetStatus, Return, Owned, Reconciles
<1>1. CASE Reconcile
  BY <1>1 DEF Reconcile
<1>2. CASE ReconcileRestoreConfig
  BY <1>2 DEF ReconcileRestoreConfig
<1>3. CASE CreateRestoreJob
  BY <1>3 DEF CreateRestoreJob, CreateJob
<1>4. CASE ReconcileRunning
  BY <1>4 DEF ReconcileRunning
<1>5. CASE ReconcileValidating
  BY <1>5 DEF ReconcileValidating
<1>6. CASE CreateValidationJob
  BY <1>6 DEF CreateValidationJob, CreateJob
<1>7. CASE WriteStatus
  BY <1>7 DEF WriteStatus
<1>8. CASE Create
  BY <1>8 DEF Create
<1>9. ASSUME NEW policy \in Policies, Delete(policy) PROVE TypeOK'
  <2>1. owned' \in Owned
    BY <1>9 DEF Delete, Orphan
  <2>2. /\ uid' \in 0..MaxUid /\ last' \in 0..MaxUid /\ uid' <= last' /\ phase' \in Phases
        /\ rc' \in Reconciles /\ (rc'.step # "idle" => rc'.uid # 0)
        /\ done' \in [Jobs -> SUBSET Uids]
    BY <1>9 DEF Delete
  <2>3. deleting' \in BOOLEAN /\ (uid' = 0 => ~deleting') /\ leftBehind' \in BOOLEAN
    BY <1>9, Zenon DEF Delete
  <2> QED
    BY <2>1, <2>2, <2>3
<1>10. ASSUME NEW o \in Objects, Collect(o) PROVE TypeOK'
  BY <1>10 DEF Collect
<1>11. CASE FinishDeletion
  <2>1. /\ uid' \in 0..MaxUid /\ last' \in 0..MaxUid /\ uid' <= last' /\ phase' \in Phases
        /\ rc' \in Reconciles /\ (rc'.step # "idle" => rc'.uid # 0)
        /\ done' \in [Jobs -> SUBSET Uids] /\ owned' \in Owned
    BY <1>11 DEF FinishDeletion
  <2>2. deleting' \in BOOLEAN /\ ~deleting' /\ leftBehind' \in BOOLEAN
    BY <1>11, Zenon DEF FinishDeletion
  <2> QED
    BY <2>1, <2>2
<1>12. ASSUME NEW j \in Jobs, NEW result \in {"complete", "failed"}, FinishJob(j, result)
       PROVE TypeOK'
  <2>1. owned' \in Owned
    BY <1>12 DEF FinishJob
  <2>2. done' \in [Jobs -> SUBSET Uids]
    BY <1>12 DEF FinishJob
  <2> QED
    BY <1>12, <2>1, <2>2 DEF FinishJob
<1>13. CASE UNCHANGED vars
  BY <1>13 DEF vars
<1> QED
  BY <1>1, <1>2, <1>3, <1>4, <1>5, <1>6, <1>7, <1>8, <1>9, <1>10, <1>11, <1>12, <1>13
     DEF Next, Step

(* Every variable of the identity model keeps its type; in particular no    *)
(* Reconcile works on a restore that was not found.                         *)
THEOREM IdentityTypeOK == Spec => []TypeOK
  BY InitTypeOK, NextTypeOK, PTL DEF Spec

-----------------------------------------------------------------------------
LEMMA InitIdentityInv == Init => IdentityInv
  BY DEF Init, IdentityInv, OwnJobs, OwnReconcile, Jobs, Objects, Absent, Idle

LEMMA NextIdentityInv ==
  TypeOK /\ IdentityInv /\ [Next]_vars => IdentityInv'
<1> SUFFICES ASSUME TypeOK, IdentityInv, [Next]_vars PROVE IdentityInv'
  OBVIOUS
<1> USE DEF TypeOK, Idle, Absent, Objects, Jobs, Phases, Uids, objectVars,
            Goto, SetStatus, Return, Owned, Reconciles, IdentityInv, OwnJobs, OwnReconcile, Earned
<1>1. CASE Reconcile
  BY <1>1 DEF Reconcile
<1>2. CASE ReconcileRestoreConfig
  BY <1>2 DEF ReconcileRestoreConfig
<1>3. CASE CreateRestoreJob
  BY <1>3 DEF CreateRestoreJob, CreateJob
<1>4. CASE ReconcileRunning
  BY <1>4 DEF ReconcileRunning
<1>5. CASE ReconcileValidating
  BY <1>5 DEF ReconcileValidating
<1>6. CASE CreateValidationJob
  BY <1>6 DEF CreateValidationJob, CreateJob
<1>7. CASE WriteStatus
  BY <1>7 DEF WriteStatus
<1>8. CASE Create
  <2>1. CASE leftBehind'
    BY <2>1
  <2>2. CASE ~leftBehind'
    <3>1. rc.step = "idle" /\ \A j \in Jobs : owned[j] = Absent
      BY <1>8, <2>2, Zenon DEF Create
    <3>2. phase' = "New" /\ owned' = owned /\ rc' = rc
      BY <1>8 DEF Create
    <3>. QED
      BY <3>1, <3>2
  <2>. QED
    BY <2>1, <2>2
<1>9. ASSUME NEW policy \in Policies, Delete(policy) PROVE IdentityInv'
  BY <1>9 DEF Delete
<1>10. ASSUME NEW o \in Objects, Collect(o) PROVE IdentityInv'
  BY <1>10 DEF Collect
<1>11. CASE FinishDeletion
  BY <1>11 DEF FinishDeletion
<1>12. ASSUME NEW j \in Jobs, NEW result \in {"complete", "failed"}, FinishJob(j, result)
       PROVE IdentityInv'
  BY <1>12 DEF FinishJob
<1>13. CASE UNCHANGED vars
  BY <1>13 DEF vars
<1> QED
  BY <1>1, <1>2, <1>3, <1>4, <1>5, <1>6, <1>7, <1>8, <1>9, <1>10, <1>11, <1>12, <1>13
     DEF Next, Step

(* While a restore has the name that was created when no Job had its name   *)
(* and no Reconcile was in progress, every Job and every Reconcile is its   *)
(* own, and what its phase says is what its own Jobs have done.             *)
THEOREM IdentityInvariant == Spec => []IdentityInv
  BY InitIdentityInv, NextIdentityInv, IdentityTypeOK, PTL DEF Spec

(* So such a restore, when it says Complete, was restored and validated by  *)
(* Jobs of its own, under whatever policy its predecessors were deleted.    *)
(* Nothing is said of a restore created beside a Job, or during a           *)
(* Reconcile, of a predecessor: the code adopts both.                       *)
THEOREM OwnRestoreHolds == Spec => []OwnRestore
<1>1. IdentityInv => OwnRestore
  BY DEF IdentityInv, OwnRestore, Earned, Jobs
<1> QED
  BY <1>1, IdentityInvariant, PTL

-----------------------------------------------------------------------------
(* No object and no Reconcile is of a restore still to be created; and when *)
(* a Reconcile of the present restore is about to create its Job, the       *)
(* ConfigMap is of that restore already.                                    *)
OwnConfigInv ==
  /\ \A o \in Objects : owned[o].owner \in Uids => owned[o].owner <= last
  /\ rc.uid <= last
  /\ uid # 0 /\ ~deleting =>
       /\ owned["restore"].owner = uid => owned["config"].owner = uid
       /\ rc.step = "createJob" /\ rc.uid = uid => owned["config"].owner = uid

LEMMA InitOwnConfigInv == Init => OwnConfigInv
  BY DEF Init, OwnConfigInv, Objects, Absent, Idle, Source, Uids

LEMMA NextOwnConfigInv ==
  TypeOK /\ OwnConfigInv /\ [Next]_vars => OwnConfigInv'
<1> SUFFICES ASSUME TypeOK, OwnConfigInv, [Next]_vars PROVE OwnConfigInv'
  OBVIOUS
<1> USE DEF TypeOK, Idle, Absent, Objects, Jobs, Phases, Uids, objectVars, Source, Orphan,
            Goto, SetStatus, Return, Owned, Reconciles, OwnConfigInv
<1>1. CASE Reconcile
  BY <1>1 DEF Reconcile
<1>2. CASE ReconcileRestoreConfig
  BY <1>2 DEF ReconcileRestoreConfig
<1>3. CASE CreateRestoreJob
  BY <1>3 DEF CreateRestoreJob, CreateJob
<1>4. CASE ReconcileRunning \/ ReconcileValidating
  BY <1>4 DEF ReconcileRunning, ReconcileValidating
<1>5. CASE CreateValidationJob
  BY <1>5 DEF CreateValidationJob, CreateJob
<1>6. CASE WriteStatus
  BY <1>6 DEF WriteStatus
<1>7. CASE Create
  BY <1>7 DEF Create
<1>8. ASSUME NEW policy \in Policies, Delete(policy) PROVE OwnConfigInv'
  BY <1>8 DEF Delete
<1>9. ASSUME NEW o \in Objects, Collect(o) PROVE OwnConfigInv'
  BY <1>9 DEF Collect, Ownerless
<1>10. CASE FinishDeletion
  BY <1>10 DEF FinishDeletion
<1>11. ASSUME NEW j \in Jobs, NEW result \in {"complete", "failed"}, FinishJob(j, result)
       PROVE OwnConfigInv'
  BY <1>11 DEF FinishJob
<1>12. CASE UNCHANGED vars
  BY <1>12 DEF vars
<1> QED
  BY <1>1, <1>2, <1>3, <1>4, <1>5, <1>6, <1>7, <1>8, <1>9, <1>10, <1>11, <1>12
     DEF Next, Step

(* The restore Job of a restore that is not being deleted reads a ConfigMap *)
(* of that restore, whatever was left behind, orphaned or collected before  *)
(* it and between the writes of the two.                                    *)
THEOREM OwnConfigHolds == Spec => []OwnConfig
<1>1. OwnConfigInv => OwnConfig
  BY DEF OwnConfigInv, OwnConfig
<1> QED
  BY <1>1, InitOwnConfigInv, NextOwnConfigInv, IdentityTypeOK, PTL DEF Spec
=============================================================================
