--------------------------- MODULE ExclusiveProofs ---------------------------
(***************************************************************************)
(* The pods of the workload around a restore that nobody disturbs: it is   *)
(* the only one, the workload is a StatefulSet that nobody else scales or  *)
(* deletes, nobody deletes the restore, and the caches of restores,        *)
(* workload and Jobs do not lag.  While a Job runs there are no pods; after *)
(* a completed restore they start clean.                                   *)
(***************************************************************************)
EXTENDS HandoverProofs, FiniteSetTheorems

USE DEF clusterVars, apiVars

Undisturbed ==
  /\ \A r, s \in Restores : r = s
  /\ TerminatingCounted
  /\ Lagging \cap {"restore", "workload", "job"} = {}
  /\ Events \cap {"scale", "deleteWorkload", "deleteRestore"} = {}

(* Nothing is running at the start and no restore exists. *)
LEMMA ExclusiveInvInit ==
  ASSUME Init
  PROVE  ExclusiveInv
<1>1. ASSUME NEW r \in Restores PROVE QuietPhase(r) /\ QuietStep(r)
  <2>1. restore[r].phase = "Absent" /\ job[r] = NoJobs /\ rc.step = "idle"
    BY DEF Init, ClusterInit, RestoreControllerInit, Idle
  <2>. QED
    BY <2>1 DEF QuietPhase, QuietStep, JobActive, NoJobs
<1>2. workload.exists
  BY DEF Init, ClusterInit
<1>. QED
  BY <1>1, <1>2 DEF ExclusiveInv

(* No pod is created for a workload that asks for none. *)
LEMMA NoPodAtZero ==
  ASSUME TypeOK, NEW p \in Pods, CreatePod(p)
  PROVE  workload.spec # 0
<1>1. IsFiniteSet(LivePods)
  BY ClusterAssumption, FS_Subset DEF LivePods
<1>2. Cardinality(LivePods) \in Nat
  BY <1>1, FS_CardinalityType
<1>3. Cardinality(LivePods) < workload.spec
  BY DEF CreatePod
<1>. QED
  BY <1>2, <1>3

(* Pods come and go without harm as long as none comes back to a quiet      *)
(* workload.                                                                *)
LEMMA ExclusivePods ==
  ASSUME ExclusiveInv, UNCHANGED <<restore, job, rc>>,
         workload'.exists = workload.exists, workload'.spec = workload.spec,
         Quiet => Quiet'
  PROVE  ExclusiveInv'
<1>1. ASSUME NEW r \in Restores PROVE QuietPhase(r)' /\ QuietStep(r)'
  <2>1. QuietPhase(r) /\ QuietStep(r)
    BY DEF ExclusiveInv
  <2>2. QuietPhase(r)'
    BY <2>1 DEF QuietPhase, JobActive
  <2>3. QuietStep(r)'
    BY <2>1 DEF QuietStep
  <2>. QED
    BY <2>2, <2>3
<1>. QED
  BY <1>1 DEF ExclusiveInv

(* A Reconcile that writes nothing keeps the invariant if what it has seen  *)
(* holds.                                                                   *)
LEMMA ExclusiveMove ==
  ASSUME ExclusiveInv, UNCHANGED <<restore, job, workload, pods>>,
         \A r \in Restores : QuietStep(r)'
  PROVE  ExclusiveInv'
<1>1. ASSUME NEW r \in Restores PROVE QuietPhase(r)'
  BY DEF ExclusiveInv, QuietPhase, Quiet, JobActive, Present
<1>. QED
  BY <1>1 DEF ExclusiveInv

(* The next call of the Reconcile rests on nothing seen of the pods or Jobs. *)
Unseeing(state) ==
  /\ state.step \notin {"restoreConfig", "createJob", "createValidation",
                        "cleanupScale", "cleanupResume"}
  /\ ~(state.step = "status" /\ state.next = "ScalingDown")

(* Moving on to such a call. *)
LEMMA ExclusiveGo ==
  ASSUME ExclusiveInv, UNCHANGED <<restore, job, workload, pods>>, Unseeing(rc')
  PROVE  ExclusiveInv'
<1>1. \A r \in Restores : QuietStep(r)'
  BY DEF Unseeing, QuietStep
<1>. QED
  BY <1>1, ExclusiveMove

(* Each call of the restore's Reconcile keeps the invariant. *)
LEMMA ExclusiveInvRestore ==
  ASSUME TypeOK, ProtocolInv, ExclusiveInv, RestoreControllerNext, Undisturbed
  PROVE  ExclusiveInv'
<1>. USE DEF At
<1>1. /\ rc \in RCState /\ restore \in [Restores -> Restore]
      /\ job \in [Restores -> Jobs] /\ workload \in Workload
  BY DEF TypeOK, ClusterTypeOK, RestoreControllerTypeOK
<1>2. /\ GetWorkload = WorkloadObject
      /\ \A r \in Restores : GetJobs(r) = job[r] /\ GetRestore(r) = restore[r]
  BY DEF Undisturbed, GetWorkload, GetJobs, GetRestore
<1>3. workload.exists /\ GetWorkload.exists /\ GetWorkload.spec = workload.spec
  BY <1>2 DEF ExclusiveInv, WorkloadObject
<1>4. \A r \in Restores : QuietPhase(r) /\ QuietStep(r)
  BY DEF ExclusiveInv
<1>5. rc.step # "idle" =>
        /\ rc.r \in Restores
        /\ \A r \in Restores : r = rc.r
        /\ restore[rc.r].phase \in PhasesAt(rc.step)
        /\ rc.step = "status" => NextFollows(restore[rc.r].phase, rc.next, job[rc.r])
  BY <1>4 DEF ProtocolInv, StepInv, Undisturbed, QuietPhase
<1>6. ASSUME NEW r \in Restores, Reconcile(r) PROVE ExclusiveInv'
  <2>1. restore[r].phase \in Active
    BY <1>1, <1>2, <1>6 DEF Reconcile, Active, Restore
  <2>2. rc'.step \in {"pending", "pausing", "scalingDown", "running", "validating",
                      "skip", "status"} /\ rc'.next # "ScalingDown"
    BY <1>2, <1>6, <2>1 DEF Reconcile, Handler, Active, Phases, Terminal, Missing
  <2>3. \A s \in Restores : QuietStep(s)'
    BY <2>2 DEF QuietStep
  <2>. QED
    BY <1>6, <2>3, ExclusiveMove DEF Reconcile
<1>7. ASSUME NEW r \in Restores, SourceReadFails(r) PROVE ExclusiveInv'
  <2>1. \A s \in Restores : QuietStep(s)'
    BY <1>7 DEF SourceReadFails, QuietStep
  <2>. QED
    BY <1>7, <2>1, ExclusiveMove DEF SourceReadFails
<1>8. CASE ReconcilePending
  <2>1. rc'.step = "pause"
    BY <1>1, <1>8 DEF ReconcilePending, RCState
  <2>2. \A s \in Restores : QuietStep(s)'
    BY <2>1 DEF QuietStep
  <2>. QED
    BY <1>8, <2>2, ExclusiveMove DEF ReconcilePending
<1>9. CASE PendingPause
  <2>1. Unseeing(rc')
    BY <1>1, <1>9 DEF PendingPause, SetStatus, Unseeing, RCState
  <2>2. UNCHANGED <<restore, job, workload, pods>>
    BY <1>9 DEF PendingPause
  <2>. QED
    BY <2>1, <2>2, ExclusiveGo
<1>10. CASE ReconcilePausing
  <2>1. Unseeing(rc')
    BY <1>1, <1>10 DEF ReconcilePausing, Goto, Return, Idle, Unseeing, RCState
  <2>2. UNCHANGED <<restore, job, workload, pods>>
    BY <1>10 DEF ReconcilePausing
  <2>. QED
    BY <2>1, <2>2, ExclusiveGo
<1>11. CASE PausingRepause
  <2>1. Unseeing(rc')
    BY <1>1, <1>11 DEF PausingRepause, Return, Idle, Unseeing, RCState
  <2>2. UNCHANGED <<restore, job, workload, pods>>
    BY <1>11 DEF PausingRepause
  <2>. QED
    BY <2>1, <2>2, ExclusiveGo
<1>12. CASE PausingScaleDown
  <2>1. workload'.spec = 0 /\ workload'.exists
    BY <1>1, <1>3, <1>12 DEF PausingScaleDown, ScaleWorkload, Workload
  <2>2. rc'.step = "status" /\ rc'.next = "ScalingDown"
    BY <1>1, <1>12 DEF PausingScaleDown, SetStatus, RCState
  <2>3. UNCHANGED <<restore, job, pods>>
    BY <1>12 DEF PausingScaleDown
  <2>4. Quiet => Quiet'
    BY <2>1, <2>3 DEF Quiet, Present
  <2>5. ASSUME NEW r \in Restores PROVE QuietPhase(r)' /\ QuietStep(r)'
    BY <1>4, <2>1, <2>2, <2>3, <2>4 DEF QuietPhase, QuietStep, JobActive
  <2>. QED
    BY <2>1, <2>5 DEF ExclusiveInv
<1>13. CASE ReconcileScalingDown
  <2>1. CASE Return
    <3>1. Unseeing(rc')
      BY <1>1, <2>1 DEF Return, Idle, Unseeing, RCState
    <3>2. UNCHANGED <<restore, job, workload, pods>>
      BY <1>13 DEF ReconcileScalingDown
    <3>. QED
      BY <3>1, <3>2, ExclusiveGo
  <2>2. CASE ~Return
    <3>1. ~GetWorkload.running /\ Goto("restoreConfig")
      BY <1>3, <1>13, <2>2 DEF ReconcileScalingDown
    <3>2. \A p \in Pods : ~Present(p)
      BY <1>2, <3>1
      DEF WorkloadObject, RunningReplicas, CountedAsRunning, Undisturbed
    <3>3. workload.spec = 0
      BY <1>4, <1>5, <1>13 DEF ReconcileScalingDown, PhasesAt, QuietPhase
    <3>4. Quiet'
      BY <1>13, <3>2, <3>3 DEF ReconcileScalingDown, Quiet, Present
    <3>5. rc'.step = "restoreConfig"
      BY <1>1, <3>1 DEF Goto, RCState
    <3>6. \A r \in Restores : QuietStep(r)'
      BY <3>4, <3>5 DEF QuietStep
    <3>. QED
      BY <1>13, <3>6, ExclusiveMove DEF ReconcileScalingDown
  <2>. QED
    BY <2>1, <2>2
<1>14. CASE ReconcileRestoreConfig
  <2>1. Quiet'
    BY <1>4, <1>5, <1>14 DEF ReconcileRestoreConfig, QuietStep, Quiet, Present
  <2>2. rc'.step = "createJob"
    BY <1>1, <1>14 DEF ReconcileRestoreConfig, Goto, RCState
  <2>3. \A r \in Restores : QuietStep(r)'
    BY <2>1, <2>2 DEF QuietStep
  <2>. QED
    BY <1>14, <2>3, ExclusiveMove DEF ReconcileRestoreConfig
<1>15. CASE CreateRestoreJob
  <2>1. rc.r \in Restores /\ rc.step = "createJob" /\ restore[rc.r].phase = "ScalingDown"
    BY <1>5, <1>15 DEF CreateRestoreJob, PhasesAt
  <2>2. Quiet'
    BY <1>4, <1>15, <2>1 DEF CreateRestoreJob, QuietStep, Quiet, Present
  <2>3. job'[rc.r].validate = job[rc.r].validate
    BY <1>1, <1>15, <2>1 DEF CreateRestoreJob, Jobs
  <2>4. rc'.step = "status" /\ rc'.next = "Running"
    BY <1>1, <1>15 DEF CreateRestoreJob, SetStatus, RCState
  <2>5. UNCHANGED <<restore, workload>>
    BY <1>15 DEF CreateRestoreJob
  <2>6. ASSUME NEW r \in Restores PROVE QuietPhase(r)' /\ QuietStep(r)'
    <3>1. r = rc.r
      BY <1>5, <2>1
    <3>2. QuietStep(r)'
      BY <2>4 DEF QuietStep
    <3>3. QuietPhase(r)'
      BY <1>4, <2>1, <2>2, <2>3, <2>5, <3>1 DEF QuietPhase
    <3>. QED
      BY <3>2, <3>3
  <2>. QED
    BY <1>3, <2>5, <2>6 DEF ExclusiveInv
<1>16. CASE ReconcileRunning
  <2>1. CASE SetStatus("Validating") \/ Return
    <3>1. Unseeing(rc')
      <4>1. CASE SetStatus("Validating")
        BY <1>1, <4>1 DEF SetStatus, Unseeing, RCState
      <4>2. CASE Return
        BY <4>2 DEF Return, Idle, Unseeing
      <4>. QED
        BY <2>1, <4>1, <4>2
    <3>2. UNCHANGED <<restore, job, workload, pods>>
      BY <1>16 DEF ReconcileRunning
    <3>. QED
      BY <3>1, <3>2, ExclusiveGo
  <2>2. CASE GetJobs(rc.r).restore \in {"none", "failed"} /\ FailRestoreWithCleanup
    <3>1. rc.r \in Restores /\ restore[rc.r].phase = "Running"
      BY <1>5, <1>16 DEF ReconcileRunning, PhasesAt
    <3>2. job[rc.r].restore = "failed"
      BY <1>2, <1>4, <2>2, <3>1 DEF QuietPhase
    <3>3. rc'.step = "cleanupScale"
      BY <1>1, <2>2 DEF FailRestoreWithCleanup, Goto, RCState
    <3>4. \A r \in Restores : QuietStep(r)'
      BY <1>5, <1>16, <3>1, <3>2, <3>3 DEF ReconcileRunning, QuietStep
    <3>. QED
      BY <1>16, <3>4, ExclusiveMove DEF ReconcileRunning
  <2>. QED
    BY <1>16, <2>1, <2>2 DEF ReconcileRunning
<1>17. CASE ReconcileValidating
  <2>1. rc.r \in Restores /\ restore[rc.r].phase = "Validating"
    BY <1>5, <1>17 DEF ReconcileValidating, PhasesAt
  <2>2. CASE SetStatus("ScalingUp") \/ Return
    <3>1. Unseeing(rc')
      <4>1. CASE SetStatus("ScalingUp")
        BY <1>1, <4>1 DEF SetStatus, Unseeing, RCState
      <4>2. CASE Return
        BY <4>2 DEF Return, Idle, Unseeing
      <4>. QED
        BY <2>2, <4>1, <4>2
    <3>2. UNCHANGED <<restore, job, workload, pods>>
      BY <1>17 DEF ReconcileValidating
    <3>. QED
      BY <3>1, <3>2, ExclusiveGo
  <2>3. CASE GetJobs(rc.r).validate = "none" /\ Goto("createValidation")
    <3>1. rc'.step = "createValidation" /\ job[rc.r].validate = "none"
      BY <1>1, <1>2, <2>1, <2>3 DEF Goto, RCState
    <3>2. \A r \in Restores : QuietStep(r)'
      BY <1>5, <1>17, <3>1 DEF ReconcileValidating, QuietStep
    <3>. QED
      BY <1>17, <3>2, ExclusiveMove DEF ReconcileValidating
  <2>4. CASE GetJobs(rc.r).validate = "failed" /\ FailRestoreWithCleanup
    <3>1. rc'.step = "cleanupScale" /\ job[rc.r].validate = "failed"
      BY <1>1, <1>2, <2>1, <2>4 DEF FailRestoreWithCleanup, Goto, RCState
    <3>2. \A r \in Restores : QuietStep(r)'
      BY <1>5, <1>17, <2>1, <3>1 DEF ReconcileValidating, QuietStep
    <3>. QED
      BY <1>17, <3>2, ExclusiveMove DEF ReconcileValidating
  <2>. QED
    BY <1>17, <2>2, <2>3, <2>4 DEF ReconcileValidating
<1>18. CASE CreateValidationJob
  <2>1. rc.r \in Restores /\ rc.step = "createValidation" /\ restore[rc.r].phase = "Validating"
    BY <1>5, <1>18 DEF CreateValidationJob, PhasesAt
  <2>2. Quiet'
    <3>1. Quiet
      BY <1>4, <2>1 DEF QuietPhase, QuietStep
    <3>. QED
      BY <1>18, <3>1 DEF CreateValidationJob, Quiet, Present
  <2>3. job'[rc.r].restore = job[rc.r].restore
    BY <1>1, <1>18, <2>1 DEF CreateValidationJob, Jobs
  <2>4. rc'.step = "idle"
    BY <1>18 DEF CreateValidationJob, Return, Idle
  <2>5. UNCHANGED <<restore, workload>>
    BY <1>18 DEF CreateValidationJob
  <2>6. ASSUME NEW r \in Restores PROVE QuietPhase(r)' /\ QuietStep(r)'
    <3>1. r = rc.r
      BY <1>5, <2>1
    <3>2. QuietStep(r)'
      BY <2>4 DEF QuietStep
    <3>3. QuietPhase(r)'
      BY <1>4, <2>1, <2>2, <2>3, <2>5, <3>1 DEF QuietPhase
    <3>. QED
      BY <3>2, <3>3
  <2>. QED
    BY <1>3, <2>5, <2>6 DEF ExclusiveInv
<1>19. CASE ScalingUpSkip
  <2>1. Unseeing(rc')
    BY <1>1, <1>19 DEF ScalingUpSkip, Goto, Unseeing, RCState
  <2>2. UNCHANGED <<restore, job, workload, pods>>
    BY <1>19 DEF ScalingUpSkip
  <2>. QED
    BY <2>1, <2>2, ExclusiveGo
<1>20. CASE ScalingUpResume
  <2>1. Unseeing(rc')
    BY <1>1, <1>20 DEF ScalingUpResume, Goto, Unseeing, RCState
  <2>2. UNCHANGED <<restore, job, workload, pods>>
    BY <1>20 DEF ScalingUpResume
  <2>. QED
    BY <2>1, <2>2, ExclusiveGo
<1>21. CASE ScalingUpGate
  <2>1. Unseeing(rc')
    BY <1>1, <1>21 DEF ScalingUpGate, Goto, Return, Idle, Unseeing, RCState
  <2>2. UNCHANGED <<restore, job, workload, pods>>
    BY <1>21 DEF ScalingUpGate
  <2>. QED
    BY <2>1, <2>2, ExclusiveGo
<1>22. CASE ScalingUpScale
  <2>1. rc.r \in Restores /\ restore[rc.r].phase = "ScalingUp"
    BY <1>5, <1>22 DEF ScalingUpScale, PhasesAt
  <2>2. job[rc.r].restore = "complete" /\ job[rc.r].validate = "complete"
    BY <2>1 DEF ProtocolInv, ValidatedBeforeScaleUp
  <2>3. UNCHANGED <<restore, job>>
    BY <1>22 DEF ScalingUpScale
  <2>4. rc'.step = "status" /\ rc'.next = "Complete"
    BY <1>1, <1>22 DEF ScalingUpScale, SetStatus, RCState
  <2>5. workload'.exists
    BY <1>1, <1>3, <1>22 DEF ScalingUpScale, ScaleWorkload, Workload
  <2>6. ASSUME NEW r \in Restores PROVE QuietPhase(r)' /\ QuietStep(r)'
    <3>1. r = rc.r
      BY <1>5, <1>22 DEF ScalingUpScale
    <3>. QED
      BY <1>4, <2>1, <2>2, <2>3, <2>4, <3>1 DEF QuietPhase, QuietStep, JobActive
  <2>. QED
    BY <2>5, <2>6 DEF ExclusiveInv
<1>23. CASE CleanupScale
  <2>1. /\ rc.r \in Restores
        /\ \/ restore[rc.r].phase = "Running" /\ job[rc.r].restore = "failed"
           \/ restore[rc.r].phase = "Validating" /\ job[rc.r].validate = "failed"
    BY <1>4, <1>5, <1>23 DEF CleanupScale, QuietStep
  <2>2. ~JobActive(rc.r)
    BY <1>4, <2>1 DEF ProtocolInv, ValidatedBeforeScaleUp, QuietPhase, JobActive
  <2>3. UNCHANGED <<restore, job>>
    BY <1>23 DEF CleanupScale
  <2>4. rc'.step = "cleanupResume"
    BY <1>1, <1>23 DEF CleanupScale, Goto, RCState
  <2>5. workload'.exists
    BY <1>1, <1>3, <1>23 DEF CleanupScale, ScaleWorkload, Workload
  <2>6. ASSUME NEW r \in Restores PROVE QuietPhase(r)' /\ QuietStep(r)'
    <3>1. r = rc.r
      BY <1>5, <1>23 DEF CleanupScale
    <3>2. QuietStep(r)'
      BY <2>1, <2>3, <2>4, <3>1 DEF QuietStep
    <3>3. QuietPhase(r)'
      BY <1>4, <2>1, <2>2, <2>3, <3>1 DEF QuietPhase, JobActive
    <3>. QED
      BY <3>2, <3>3
  <2>. QED
    BY <2>5, <2>6 DEF ExclusiveInv
<1>24. CASE CleanupResume
  <2>1. Unseeing(rc')
    BY <1>1, <1>24 DEF CleanupResume, SetStatus, Unseeing, RCState
  <2>2. UNCHANGED <<restore, job, workload, pods>>
    BY <1>24 DEF CleanupResume
  <2>. QED
    BY <2>1, <2>2, ExclusiveGo
<1>25. CASE DBPatchRejected
  <2>1. Unseeing(rc')
    BY <1>1, <1>25 DEF DBPatchRejected, Return, Idle, Unseeing, RCState
  <2>2. UNCHANGED <<restore, job, workload, pods>>
    BY <1>25 DEF DBPatchRejected
  <2>. QED
    BY <2>1, <2>2, ExclusiveGo
<1>26. CASE CleanupPatchRejected
  <2>1. Unseeing(rc')
    BY <1>1, <1>26 DEF CleanupPatchRejected, SetStatus, Unseeing, RCState
  <2>2. UNCHANGED <<restore, job, workload, pods>>
    BY <1>26 DEF CleanupPatchRejected
  <2>. QED
    BY <2>1, <2>2, ExclusiveGo
<1>27. CASE WorkloadPatchRejected
  BY <1>3, <1>27 DEF WorkloadPatchRejected
<1>28. CASE ReconcileInterrupted
  <2>1. Unseeing(rc')
    BY <1>1, <1>28 DEF ReconcileInterrupted, Return, Idle, Unseeing, RCState
  <2>2. UNCHANGED <<restore, job, workload, pods>>
    BY <1>28 DEF ReconcileInterrupted
  <2>. QED
    BY <2>1, <2>2, ExclusiveGo
<1>29. CASE WorkloadReadFails
  <2>1. Unseeing(rc')
    BY <1>1, <1>29 DEF WorkloadReadFails, FailRestore, SetStatus, Unseeing, RCState
  <2>2. UNCHANGED <<restore, job, workload, pods>>
    BY <1>29 DEF WorkloadReadFails
  <2>. QED
    BY <2>1, <2>2, ExclusiveGo
<1>30. CASE CleanupCallFails
  <2>1. CASE SetStatus("Failed")
    <3>1. Unseeing(rc')
      BY <1>1, <2>1 DEF SetStatus, Unseeing, RCState
    <3>2. UNCHANGED <<restore, job, workload, pods>>
      BY <1>30 DEF CleanupCallFails
    <3>. QED
      BY <3>1, <3>2, ExclusiveGo
  <2>2. CASE At("cleanupScale") /\ Goto("cleanupResume")
    <3>1. rc'.step = "cleanupResume" /\ rc.step = "cleanupScale"
      BY <1>1, <2>2 DEF Goto, RCState
    <3>2. \A r \in Restores : QuietStep(r)'
      BY <1>4, <1>30, <3>1 DEF CleanupCallFails, QuietStep
    <3>. QED
      BY <1>30, <3>2, ExclusiveMove DEF CleanupCallFails
  <2>. QED
    BY <1>30, <2>1, <2>2 DEF CleanupCallFails
<1>31. CASE WriteStatus
  <2>1. rc.r \in Restores /\ rc.step = "status"
    BY <1>5, <1>31 DEF WriteStatus
  <2>2. NextFollows(restore[rc.r].phase, rc.next, job[rc.r])
    BY <1>5, <2>1
  <2>3. restore[rc.r].phase \in Active
    BY <1>5, <2>1 DEF PhasesAt
  <2>4. restore'[rc.r].phase = rc.next
    BY <1>1, <1>31, <2>1, <2>3 DEF WriteStatus, Status, Active
  <2>5. UNCHANGED <<job, workload, pods>>
    BY <1>31 DEF WriteStatus
  <2>6. rc'.step = "idle"
    BY <1>31 DEF WriteStatus, Return, Idle
  <2>7. ASSUME NEW r \in Restores PROVE QuietPhase(r)' /\ QuietStep(r)'
    <3>1. r = rc.r
      BY <1>5, <2>1
    <3>2. QuietStep(r)'
      BY <2>6 DEF QuietStep
    <3>3. Quiet' = Quiet /\ workload'.spec = workload.spec /\ job'[r] = job[r]
      BY <2>5 DEF Quiet, Present
    <3>4. /\ QuietPhase(r)
          /\ rc.next = "ScalingDown" => workload.spec = 0
      BY <1>4, <2>1 DEF QuietStep
    <3>5. QuietPhase(r)'
      BY <2>2, <2>3, <2>4, <3>1, <3>3, <3>4
      DEF QuietPhase, JobActive, NextFollows, Active, Phases, Terminal, Missing
    <3>. QED
      BY <3>2, <3>5
  <2>. QED
    BY <1>3, <2>5, <2>7 DEF ExclusiveInv
<1>. QED
  BY <1>6, <1>7, <1>8, <1>9, <1>10, <1>11, <1>12, <1>13, <1>14, <1>15, <1>16, <1>17,
     <1>18, <1>19, <1>20, <1>21, <1>22, <1>23, <1>24, <1>25, <1>26, <1>27, <1>28,
     <1>29, <1>30, <1>31
  DEF RestoreControllerNext, RestoreStep, RestoreFault

(* The replica controller touches nothing but the template's annotation.    *)
LEMMA ExclusiveInvReplica ==
  ASSUME TypeOK, ExclusiveInv, ReplicaControllerNext, UNCHANGED rc
  PROVE  ExclusiveInv'
<1>1. UNCHANGED <<restore, job, pods>>
  BY DEF ReplicaControllerNext, ReconcileReplica, ReplicaStep, ReconcileLitestreamConfig,
         ReconcileTargetAnnotation, UpdateStatus, UpdateStatusSeeing, ClearSkipArchiveCheck, ClearSkipPatch, ReplicaInterrupted
<1>2. workload'.exists = workload.exists /\ workload'.spec = workload.spec
  <2>1. workload \in Workload
    BY DEF TypeOK, ClusterTypeOK
  <2>2. CASE ReconcileTargetAnnotation
    BY <2>1, <2>2 DEF ReconcileTargetAnnotation, Workload
  <2>3. CASE ~ReconcileTargetAnnotation
    BY <2>3 DEF ReplicaControllerNext, ReconcileReplica, ReplicaStep,
                ReconcileLitestreamConfig, UpdateStatus, UpdateStatusSeeing, ClearSkipArchiveCheck,
                ReplicaInterrupted
  <2>. QED
    BY <2>2, <2>3
<1>3. Quiet => Quiet'
  BY <1>1, <1>2 DEF Quiet, Present
<1>. QED
  BY <1>1, <1>2, <1>3, ExclusivePods

(* Pods, Jobs, users and caches keep the invariant.                         *)
LEMMA ExclusiveInvCluster ==
  ASSUME TypeOK, ExclusiveInv, ClusterNext, UNCHANGED rc, Undisturbed
  PROVE  ExclusiveInv'
<1>1. /\ restore \in [Restores -> Restore] /\ job \in [Restores -> Jobs]
      /\ pods \in [Pods -> Pod]
  BY DEF TypeOK, ClusterTypeOK
<1>2. \A r \in Restores : QuietPhase(r) /\ QuietStep(r)
  BY DEF ExclusiveInv
<1>3. ASSUME UNCHANGED <<restore, job, workload, pods>> PROVE ExclusiveInv'
  <2>1. Quiet => Quiet'
    BY <1>3 DEF Quiet, Present
  <2>. QED
    BY <1>3, <2>1, ExclusivePods
<1>4. ASSUME NEW p \in Pods,
             \/ CreatePod(p) \/ DeletePod(p) \/ PodGone(p) \/ StartPod(p)
             \/ BlockPod(p) \/ RestartSidecar(p) \/ EvictPod(p)
      PROVE  ExclusiveInv'
  <2>1. UNCHANGED <<restore, job, workload>>
    BY <1>4 DEF CreatePod, DeletePod, PodGone, StartPod, BlockPod, RestartSidecar, EvictPod
  <2>2. workload.spec # 0 \/ Present(p)
    <3>1. CASE CreatePod(p)
      BY <3>1, NoPodAtZero
    <3>2. CASE ~CreatePod(p)
      BY <1>4, <3>2
      DEF DeletePod, PodGone, StartPod, BlockPod, RestartSidecar, EvictPod, Live, Present
    <3>. QED
      BY <3>1, <3>2
  <2>3. ~Quiet
    BY <2>2 DEF Quiet
  <2>. QED
    BY <2>1, <2>3, ExclusivePods
<1>5. ASSUME NEW p \in Pods, Replicate(p) PROVE ExclusiveInv'
  BY <1>3, <1>5 DEF Replicate
<1>6. ASSUME NEW r \in Restores, NEW result \in {"complete", "failed"},
             FinishRestoreJob(r, result)
      PROVE  ExclusiveInv'
  <2>1. UNCHANGED <<restore, workload, pods>> /\ job[r].restore = "active"
    BY <1>6 DEF FinishRestoreJob
  <2>2. job'[r].restore = result /\ job'[r].validate = job[r].validate
    BY <1>1, <1>6 DEF FinishRestoreJob, Jobs
  <2>3. Quiet /\ Quiet'
    <3>1. Quiet
      BY <1>2, <2>1 DEF QuietPhase, JobActive
    <3>. QED
      BY <2>1, <3>1 DEF Quiet, Present
  <2>4. ASSUME NEW s \in Restores PROVE QuietPhase(s)' /\ QuietStep(s)'
    <3>1. s = r
      BY DEF Undisturbed
    <3>2. QuietPhase(s)'
      BY <1>2, <2>1, <2>2, <2>3, <3>1 DEF QuietPhase
    <3>3. QuietStep(s)'
      BY <1>2, <2>1, <2>2, <2>3, <3>1 DEF QuietStep
    <3>. QED
      BY <3>2, <3>3
  <2>. QED
    BY <2>1, <2>4 DEF ExclusiveInv
<1>7. ASSUME NEW r \in Restores, NEW result \in {"complete", "failed"},
             FinishValidationJob(r, result)
      PROVE  ExclusiveInv'
  <2>1. UNCHANGED <<restore, workload, pods>> /\ job[r].validate = "active"
    BY <1>7 DEF FinishValidationJob
  <2>2. job'[r].validate = result /\ job'[r].restore = job[r].restore
    BY <1>1, <1>7 DEF FinishValidationJob, Jobs
  <2>3. Quiet /\ Quiet'
    <3>1. Quiet
      BY <1>2, <2>1 DEF QuietPhase, JobActive
    <3>. QED
      BY <2>1, <3>1 DEF Quiet, Present
  <2>4. ASSUME NEW s \in Restores PROVE QuietPhase(s)' /\ QuietStep(s)'
    <3>1. s = r
      BY DEF Undisturbed
    <3>2. QuietPhase(s)'
      BY <1>2, <2>1, <2>2, <2>3, <3>1 DEF QuietPhase
    <3>3. QuietStep(s)'
      BY <1>2, <2>1, <2>2, <2>3, <3>1 DEF QuietStep
    <3>. QED
      BY <3>2, <3>3
  <2>. QED
    BY <2>1, <2>4 DEF ExclusiveInv
<1>8. ASSUME NEW r \in Restores, CreateRestore(r) PROVE ExclusiveInv'
  <2>1. restore[r].phase = "Absent" /\ UNCHANGED <<job, workload, pods>>
    BY <1>8 DEF CreateRestore
  <2>2. restore'[r].phase = "New"
    BY <1>1, <1>8 DEF CreateRestore, Restore
  <2>3. Quiet => Quiet'
    BY <2>1 DEF Quiet, Present
  <2>4. ASSUME NEW s \in Restores PROVE QuietPhase(s)' /\ QuietStep(s)'
    <3>1. s = r
      BY DEF Undisturbed
    <3>2. QuietPhase(s)'
      BY <1>2, <2>1, <2>2, <2>3, <3>1 DEF QuietPhase, JobActive
    <3>3. QuietStep(s)'
      BY <1>2, <2>1, <2>2, <2>3, <3>1 DEF QuietStep
    <3>. QED
      BY <3>2, <3>3
  <2>. QED
    BY <2>1, <2>4 DEF ExclusiveInv
<1>9. /\ \A n \in Replicas : ~UserScale(n)
      /\ \A r \in Restores : ~DeleteRestore(r)
      /\ ~DeleteWorkload
  BY DEF Undisturbed, UserScale, DeleteRestore, DeleteWorkload, Happens
<1>10. \A r \in Restores : ~CollectRestore(r)
  BY <1>2 DEF CollectRestore, QuietPhase
<1>11. ASSUME NEW b \in BOOLEAN, UserPause(b) \/ UserBackup(b) PROVE ExclusiveInv'
  BY <1>3, <1>11 DEF UserPause, UserBackup
<1>12. ASSUME DeleteDB \/ WipeVolume \/ CollectConfigMap PROVE ExclusiveInv'
  BY <1>3, <1>12 DEF DeleteDB, WipeVolume, CollectConfigMap
<1>13. ASSUME NEW k \in Kinds, CacheSync(k) PROVE ExclusiveInv'
  BY <1>3, <1>13 DEF CacheSync
<1>. QED
  BY <1>4, <1>5, <1>6, <1>7, <1>8, <1>9, <1>10, <1>11, <1>12, <1>13
  DEF ClusterNext, WorkloadNext, JobNext, UserNext, CollectorNext

(* From the scale-down to the end of its Jobs an undisturbed restore finds  *)
(* the workload at rest whenever it acts on having seen it so, however its  *)
(* Reconciles are cut and repeated.                                         *)
THEOREM ExclusiveInvariant ==
  ASSUME Undisturbed
  PROVE  Spec => []ExclusiveInv
<1>1. Init => ExclusiveInv
  BY ExclusiveInvInit
<1>2. TypeOK /\ ProtocolInv /\ ExclusiveInv /\ [Next]_vars => ExclusiveInv'
  <2>. SUFFICES ASSUME TypeOK, ProtocolInv, ExclusiveInv, [Next]_vars
                PROVE  ExclusiveInv'
    OBVIOUS
  <2>1. CASE RestoreControllerNext
    BY <2>1, ExclusiveInvRestore
  <2>2. CASE ReplicaControllerNext /\ UNCHANGED rc
    BY <2>2, ExclusiveInvReplica
  <2>3. CASE ClusterNext /\ UNCHANGED rc
    BY <2>3, ExclusiveInvCluster
  <2>4. CASE UNCHANGED vars
    <3>1. UNCHANGED <<restore, job, workload, pods, rc>>
      BY <2>4 DEF vars
    <3>2. Quiet => Quiet'
      BY <3>1 DEF Quiet, Present
    <3>. QED
      BY <3>1, <3>2, ExclusivePods
  <2>. QED
    BY <2>1, <2>2, <2>3, <2>4 DEF Next
<1>3. "restore" \notin Lagging
  BY DEF Undisturbed
<1>4. Spec => [](TypeOK /\ ProtocolInv)
  BY <1>3, ProtocolInvariant
<1>. QED
  BY <1>1, <1>2, <1>4, PTL DEF Spec

(* Reconcile's promise to the application's data: an undisturbed restore    *)
(* writes the database file, and reads it back, only while no pod of the    *)
(* workload exists, whatever fails on the way, however often the operator   *)
(* crashes, and however far the caches of the LitestreamReplica, its        *)
(* ConfigMap and the pods lag behind.                                       *)
THEOREM ExclusiveRestoreHolds ==
  ASSUME Undisturbed
  PROVE  Spec => []ExclusiveRestore
<1>1. ExclusiveInv => ExclusiveRestore
  BY DEF ExclusiveInv, QuietPhase, Quiet, ExclusiveRestore
<1>. QED
  BY <1>1, ExclusiveInvariant, PTL
-----------------------------------------------------------------------------
(* The pods of a completed restore start clean. *)

(* Nobody but the two controllers touches the annotations or takes pods     *)
(* away, and the workload has one replica, as the validating webhook asks.  *)
CleanHandover ==
  /\ Undisturbed
  /\ MaxReplicas = 1
  /\ "pod" \notin Lagging
  /\ Events \cap {"pause", "unpause", "deleteDB", "evict"} = {}

(* From the scale-up phase on the end of the pause spreads like the pause   *)
(* did: from the annotation to its copies, and from those to the ConfigMap. *)
ResumeSpreads ==
  /\ ~GetDB.pause => ~db.pause
  /\ lc.step # "idle" /\ ~lc.pause => ~GetDB.pause
  /\ cm = "full" => ~GetDB.pause
  /\ cm = "full" /\ lc.step # "idle" => ~lc.pause
  /\ GetConfigMap = "full" => cm = "full"

Replicating(p) == Live(p) /\ SidecarRunning(pods[p])

(* skip-archive-check stays until a sidecar runs in the pod that will stay. *)
SkipKept == db.skip \/ \E p \in Pods : Replicating(p)

PodClean(p) ==
  Present(p) =>
    /\ pods[p].phase # "blocked" /\ ~pods[p].checked
    /\ ~SidecarIdle(pods[p])
    /\ pods[p].deleted => ~pods[p].injected

(* The workload is scaled up again. *)
Handed ==
  /\ workload.spec = 1 /\ cm = "full" /\ SkipKept
  /\ \A p, q \in Pods : Live(p) /\ Live(q) => p = q
  /\ \A p \in Pods : PodClean(p)

SkipUnset == ~db.skip /\ ~cache.db.skip /\ (lc.step # "idle" => ~lc.skip)

(* The scale-up, before and after: what reconcileScalingUp and the replica  *)
(* controller have seen still holds at their next call.                     *)
ScaleUpInv ==
  /\ ResumeSpreads
  /\ Quiet \/ Handed
  /\ rc.step \in {"resume", "gate", "scaleUp"} => SkipKept
  /\ rc.step = "scaleUp" => cm = "full"
  /\ cache.db.skip \/ (lc.step # "idle" /\ lc.skip) => SkipKept
  /\ lc.step = "clearSkip" => \E p \in Pods : Replicating(p)

CleanPhase(r) ==
  /\ restore[r].phase \notin {"ScalingUp", "Complete", "Failed"} => SkipUnset
  /\ restore[r].phase = "Validating" /\ job[r].validate = "complete" => Quiet
  /\ restore[r].phase \in {"ScalingUp", "Complete"} => ScaleUpInv

CleanInv ==
  /\ \A p \in Pods : pods[p].injected => workload.injected
  /\ lc.step = "clearSkip" => lc.skip
  /\ \A r \in Restores : CleanPhase(r)

(* At the start no restore exists and no annotation is set. *)
LEMMA CleanInvInit == Init => CleanInv
  BY DEF Init, ClusterInit, ReplicaControllerInit, LIdle, AbsentPod, CleanInv, CleanPhase,
         SkipUnset

(* Where the calls of reconcileScalingUp come from. *)
LEMMA ScalingUpArrivals ==
  ASSUME TypeOK, RestoreControllerNext
  PROVE  /\ rc'.step = "resume" => ScalingUpSkip
         /\ rc'.step = "gate" => ScalingUpResume
         /\ rc'.step = "scaleUp" => ScalingUpGate /\ GetConfigMap \notin {"none", "paused"}
<1>. USE DEF At
<1>1. rc \in RCState
  BY DEF TypeOK, RestoreControllerTypeOK
<1>2. CASE Begins
  BY <1>2, Beginning DEF Begins
<1>3. CASE ReconcilePending
  BY <1>1, <1>3 DEF ReconcilePending, RCState
<1>4. CASE PendingPause \/ ReconcilePausing \/ PausingRepause \/ PausingScaleDown
           \/ ReconcileScalingDown \/ ReconcileRestoreConfig \/ CreateRestoreJob
           \/ ReconcileRunning \/ ReconcileValidating \/ CreateValidationJob
  BY <1>1, <1>4, RCMoves
  DEF PendingPause, ReconcilePausing, PausingRepause, PausingScaleDown,
      ReconcileScalingDown, ReconcileRestoreConfig, CreateRestoreJob,
      ReconcileRunning, ReconcileValidating, CreateValidationJob, FailRestoreWithCleanup
<1>5. CASE ScalingUpSkip \/ ScalingUpResume \/ ScalingUpGate \/ ScalingUpScale
           \/ WriteStatus \/ DBPatchRejected \/ ReconcileInterrupted
  BY <1>1, <1>5, RCMoves
  DEF ScalingUpSkip, ScalingUpResume, ScalingUpGate, ScalingUpScale, WriteStatus,
      DBPatchRejected, ReconcileInterrupted
<1>6. CASE CleanupScale \/ CleanupResume \/ CleanupPatchRejected \/ CleanupCallFails
           \/ WorkloadPatchRejected \/ WorkloadReadFails
  BY <1>1, <1>6, RCMoves
  DEF CleanupScale, CleanupResume, CleanupPatchRejected, CleanupCallFails,
      WorkloadPatchRejected, WorkloadReadFails, FailRestore
<1>. QED
  BY <1>2, <1>3, <1>4, <1>5, <1>6
  DEF RestoreControllerNext, RestoreStep, RestoreFault, Begins

(* One live pod fills a workload of one replica. *)
LEMMA OneLivePod ==
  ASSUME TypeOK, \A p, q \in Pods : Live(p) /\ Live(q) => p = q
  PROVE  /\ Cardinality(LivePods) < 1 => \A p \in Pods : ~Live(p)
         /\ ~(Cardinality(LivePods) > 1)
<1>1. IsFiniteSet(LivePods)
  BY ClusterAssumption, FS_Subset DEF LivePods
<1>2. Cardinality(LivePods) \in Nat
  BY <1>1, FS_CardinalityType
<1>3. CASE LivePods = {}
  <2>1. Cardinality(LivePods) = 0
    BY <1>3, FS_EmptySet
  <2>. QED
    BY <1>3, <2>1 DEF LivePods
<1>4. ASSUME NEW p \in LivePods PROVE Cardinality(LivePods) = 1
  <2>1. LivePods = {p}
    BY <1>4 DEF LivePods
  <2>. QED
    BY <2>1, FS_Singleton
<1>. QED
  BY <1>2, <1>3, <1>4

(* A pod that replicates stays, and every pod that comes stays clean. *)
LEMMA PodsStayClean ==
  ASSUME TypeOK, Handed, NEW p \in Pods,
         \/ CreatePod(p) \/ DeletePod(p) \/ PodGone(p) \/ StartPod(p)
         \/ BlockPod(p) \/ RestartSidecar(p),
         workload.exists,
         \A q \in Pods : pods[q].injected => workload.injected
  PROVE  /\ Handed'
         /\ \A q \in Pods : Replicating(q) => Replicating(q)'
<1>1. pods \in [Pods -> Pod] /\ UNCHANGED <<db, cm, workload>>
  BY DEF TypeOK, ClusterTypeOK, CreatePod, DeletePod, PodGone, StartPod, BlockPod,
         RestartSidecar
<1>2. /\ workload.spec = 1 /\ cm = "full" /\ SkipKept /\ \A q \in Pods : PodClean(q)
      /\ \A q, s \in Pods : Live(q) /\ Live(s) => q = s
  BY DEF Handed
<1>3. ~BlockPod(p) /\ ~RestartSidecar(p)
  BY <1>2 DEF BlockPod, RestartSidecar, PodClean, Present, SidecarIdle
<1>4. \A q \in Pods : q # p => pods'[q] = pods[q]
  BY <1>1, <1>3 DEF CreatePod, DeletePod, PodGone, StartPod
<1>5. \A q \in Pods : q # p => /\ PodClean(q)' /\ Live(q)' = Live(q)
                               /\ Replicating(q)' = Replicating(q)
  BY <1>2, <1>4 DEF PodClean, Present, Live, Replicating
<1>6. /\ PodClean(p)' /\ SkipKept'
      /\ Replicating(p) => Replicating(p)'
      /\ Live(p)' => Live(p) \/ \A q \in Pods : ~Live(q)
  <2>1. CASE CreatePod(p)
    <3>1. \A q \in Pods : ~Live(q)
      BY <1>2, <2>1, OneLivePod DEF CreatePod
    <3>2. db.skip
      BY <1>2, <3>1 DEF SkipKept, Replicating
    <3>3. pods'[p] = Injected /\ ~Injected.checked /\ Injected.phase = "pending"
          /\ ~Injected.deleted
      BY <1>1, <2>1, <3>2 DEF CreatePod, Injected
    <3>4. PodClean(p)'
      BY <3>3 DEF PodClean, SidecarIdle
    <3>. QED
      BY <1>1, <3>1, <3>2, <3>4 DEF SkipKept, Replicating
  <2>2. CASE DeletePod(p)
    <3>1. Live(p) /\ Surplus(p)
      BY <2>2 DEF DeletePod
    <3>2. ~pods[p].injected
      BY <1>2, <3>1, OneLivePod DEF Surplus
    <3>3. /\ pods'[p].deleted /\ pods'[p].phase = pods[p].phase
          /\ pods'[p].checked = pods[p].checked /\ pods'[p].injected = pods[p].injected
          /\ pods'[p].config = pods[p].config
      BY <1>1, <2>2 DEF DeletePod, Pod
    <3>4. PodClean(p)' /\ ~Live(p)' /\ ~Replicating(p)
      BY <1>2, <3>2, <3>3 DEF PodClean, Present, Live, SidecarIdle, Replicating, SidecarRunning
    <3>. QED
      BY <1>1, <1>2, <1>5, <3>4 DEF SkipKept
  <2>3. CASE PodGone(p)
    <3>1. pods[p].deleted /\ pods'[p] = AbsentPod
      BY <1>1, <2>3 DEF PodGone
    <3>2. PodClean(p)' /\ ~Live(p)' /\ ~Replicating(p)
      BY <3>1 DEF PodClean, Present, Live, Replicating, AbsentPod
    <3>. QED
      BY <1>1, <1>2, <1>5, <3>2 DEF SkipKept
  <2>4. CASE StartPod(p)
    <3>1. /\ pods[p].phase \in {"pending", "blocked"} /\ ~pods[p].deleted
          /\ pods'[p].phase = "running" /\ pods'[p].injected = pods[p].injected
          /\ pods'[p].checked = pods[p].checked /\ pods'[p].deleted = pods[p].deleted
          /\ pods[p].injected => pods'[p].config = "full"
      BY <1>1, <1>2, <2>4 DEF StartPod, Pod
    <3>2. PodClean(p)' /\ Live(p) /\ ~Replicating(p)
      BY <1>2, <3>1 DEF PodClean, Present, Live, SidecarIdle, Replicating, SidecarRunning
    <3>. QED
      BY <1>1, <1>2, <1>5, <3>2 DEF SkipKept
  <2>. QED
    BY <1>3, <2>1, <2>2, <2>3, <2>4
<1>7. \A q, s \in Pods : Live(q)' /\ Live(s)' => q = s
  BY <1>2, <1>5, <1>6
<1>. QED
  BY <1>1, <1>2, <1>5, <1>6, <1>7 DEF Handed

(* reconcileScalingUp opens the archive check, then ends the pause, then    *)
(* scales up on a ConfigMap it has seen full; nothing else of the restore   *)
(* controller touches what the new pods will find.                          *)
LEMMA CleanInvRestore ==
  ASSUME TypeOK, ProtocolInv, ExclusiveInv, JobInv, HeldInv, CleanInv,
         RestoreControllerNext, UNCHANGED lc, CleanHandover
  PROVE  CleanInv'
<1>. USE DEF At
<1>1. /\ rc \in RCState /\ restore \in [Restores -> Restore] /\ db \in DBState
      /\ job \in [Restores -> Jobs] /\ workload \in Workload /\ cm \in Config
      /\ cache.cm \in Config
  BY DEF TypeOK, ClusterTypeOK, RestoreControllerTypeOK, Cache
<1>2. StepInv /\ ValidatedBeforeScaleUp
  BY DEF ProtocolInv
<1>3. UNCHANGED <<cm, pods, cache, lc>> /\ GetConfigMap' = GetConfigMap
  BY Writers DEF GetConfigMap
<1>4. GetWorkload = WorkloadObject
  BY DEF CleanHandover, Undisturbed, GetWorkload
<1>5. ASSUME NEW p \in Pods, pods'[p].injected PROVE workload'.injected
  <2>1. workload.injected
    BY <1>3, <1>5 DEF CleanInv
  <2>. QED
    BY <1>1, <2>1, Writers DEF PausingScaleDown, ScalingUpScale, CleanupScale, ScaleWorkload,
       Workload
<1>6. ASSUME NEW r \in Restores PROVE CleanPhase(r)'
  <2>1. rc.step # "idle" => rc.r = r
    BY <1>2 DEF StepInv, CleanHandover, Undisturbed
  <2>2. /\ restore[r].phase # "Deleted" /\ JobPhase(r) /\ CleanPhase(r)
        /\ QuietStep(r)
    BY DEF HeldInv, JobInv, CleanInv, ExclusiveInv
  <2>3. restore[r].phase \in Active
    <3>1. CASE rc.step # "idle"
      BY <1>2, <2>1, <2>2, <3>1 DEF StepInv, PhasesAt, Active, Phases, Terminal, Missing
    <3>2. CASE rc.step = "idle"
      <4>1. Begins
        BY <3>2
        DEF Begins, RestoreControllerNext, RestoreStep, RestoreFault, ReconcilePending,
            PendingPause, ReconcilePausing, PausingRepause, PausingScaleDown,
            ReconcileScalingDown, ReconcileRestoreConfig, CreateRestoreJob,
            ReconcileRunning, ReconcileValidating, CreateValidationJob, ScalingUpSkip,
            ScalingUpResume, ScalingUpGate, ScalingUpScale, CleanupScale, CleanupResume,
            WriteStatus, DBPatchRejected, CleanupPatchRejected, WorkloadPatchRejected,
            ReconcileInterrupted, CleanupCallFails, WorkloadReadFails
      <4>. QED
        BY <1>1, <4>1 DEF Begins, Reconcile, SourceReadFails, GetRestore, CleanHandover,
           Undisturbed, Active, Restore
    <3>. QED
      BY <3>1, <3>2
  <2>4. \/ restore'[r].phase = restore[r].phase
        \/ /\ WriteStatus /\ restore'[r].phase = rc.next
           /\ NextFollows(restore[r].phase, rc.next, job[r])
    <3>1. CASE WriteStatus
      BY <1>1, <1>2, <2>1, <2>2, <2>3, <3>1 DEF WriteStatus, Status, StepInv, Active
    <3>. QED
      BY <3>1, Writers
  <2>5. job'[r].validate = "complete" => job[r].validate = "complete"
    BY <1>1, <2>1, Writers DEF CreateRestoreJob, CreateValidationJob, CreateIfAbsent, Jobs
  <2>6. db'.skip = db.skip \/ (ScalingUpSkip /\ restore[r].phase = "ScalingUp" /\ db'.skip)
    <3>1. CASE ScalingUpSkip
      <4>1. restore[r].phase = "ScalingUp"
        BY <1>2, <2>1, <2>2, <3>1 DEF ScalingUpSkip, StepInv, PhasesAt
      <4>. QED
        BY <1>1, <3>1, <4>1 DEF ScalingUpSkip, SetSkipArchiveCheck, SetSkip, DBState
    <3>. QED
      BY <1>1, <3>1, Writers
      DEF PendingPause, PausingRepause, ScalingUpResume, CleanupResume, PauseReplication,
          ResumeReplication, SetPause, DBState
  <2>7. restore[r].phase = "ScalingUp" => (db'.pause => db.pause)
    <3>1. restore[r].phase = "ScalingUp" => ~PendingPause /\ ~PausingRepause
      BY <1>2, <2>1 DEF PendingPause, PausingRepause, StepInv, PhasesAt
    <3>. QED
      BY <1>1, <3>1, Writers
      DEF ScalingUpSkip, ScalingUpResume, CleanupResume, ResumeReplication,
          SetSkipArchiveCheck, SetSkip, SetPause, DBState
  <2>8. /\ restore[r].phase = "Validating" /\ job[r].validate = "complete" => UNCHANGED workload
        /\ restore[r].phase = "ScalingUp" =>
             UNCHANGED workload \/ (rc.step = "scaleUp" /\ workload'.spec = 1)
    <3>1. restore[r].phase \in {"Validating", "ScalingUp"} => ~PausingScaleDown
      BY <1>2, <2>1 DEF PausingScaleDown, StepInv, PhasesAt
    <3>2. restore[r].phase = "Validating" => ~ScalingUpScale
      BY <1>2, <2>1 DEF ScalingUpScale, StepInv, PhasesAt
    <3>3. CleanupScale => \/ restore[r].phase = "Running"
                          \/ restore[r].phase = "Validating" /\ job[r].validate = "failed"
      BY <2>2 DEF CleanupScale, QuietStep
    <3>4. ScalingUpScale => UNCHANGED workload \/ (rc.step = "scaleUp" /\ workload'.spec = 1)
      <4>1. Target > 0 /\ ScalingUpScale => Target = 1
        BY <1>1 DEF Target, RCState, Replicas, CleanHandover
      <4>. QED
        BY <1>1, <4>1 DEF ScalingUpScale, ScaleWorkload, Workload
    <3>. QED
      BY <3>1, <3>2, <3>3, <3>4, Writers
  <2>9. SkipKept => SkipKept'
    BY <1>3, <2>6 DEF SkipKept, Replicating, Live, Present
  <2>10. restore'[r].phase \notin {"ScalingUp", "Complete", "Failed"} => SkipUnset'
    BY <1>3, <2>2, <2>3, <2>4, <2>6
    DEF CleanPhase, SkipUnset, NextFollows, Active, Terminal
  <2>11. restore'[r].phase = "Validating" /\ job'[r].validate = "complete" => Quiet'
    <3>. SUFFICES ASSUME restore'[r].phase = "Validating", job'[r].validate = "complete"
                  PROVE  Quiet'
      OBVIOUS
    <3>1. job[r].validate = "complete" /\ restore[r].phase = "Validating"
      BY <2>2, <2>4, <2>5 DEF JobPhase, NextFollows
    <3>. QED
      BY <1>3, <2>2, <2>8, <3>1 DEF CleanPhase, Quiet, Present
  <2>12. ASSUME restore'[r].phase \in {"ScalingUp", "Complete"}, restore[r].phase # "ScalingUp"
         PROVE  ScaleUpInv'
    <3>1. /\ WriteStatus /\ restore[r].phase = "Validating"
          /\ job[r].validate = "complete" /\ job[r].restore = "complete"
      BY <1>2, <2>3, <2>4, <2>12 DEF NextFollows, ValidatedBeforeScaleUp, Active, Terminal
    <3>2. UNCHANGED <<db, workload>> /\ rc'.step = "idle" /\ GetDB' = GetDB
      BY <1>3, <3>1 DEF WriteStatus, Return, Idle, GetDB
    <3>3. Held(r)
      BY <3>1 DEF HeldInv, JobsOver
    <3>4. /\ cm = "paused" /\ GetConfigMap = "paused" /\ GetDB.pause
          /\ lc.step # "idle" => lc.pause
      BY <3>1, <3>3 DEF Held, PauseSeen, PauseSpreads
    <3>5. ResumeSpreads'
      BY <1>3, <3>2, <3>4 DEF ResumeSpreads
    <3>6. Quiet'
      BY <1>3, <2>2, <3>1, <3>2 DEF CleanPhase, Quiet, Present
    <3>7. SkipUnset /\ lc.step # "clearSkip"
      BY <2>2, <3>1 DEF CleanPhase, CleanInv, SkipUnset
    <3>. QED
      BY <1>3, <3>2, <3>5, <3>6, <3>7 DEF ScaleUpInv, SkipUnset
  <2>13. ASSUME restore[r].phase = "ScalingUp" PROVE ScaleUpInv'
    <3>1. ScaleUpInv
      BY <2>2, <2>13 DEF CleanPhase
    <3>2. ResumeSpreads'
      <4>1. /\ db'.pause => db.pause
            /\ GetDB'.pause => GetDB.pause
            /\ ~GetDB'.pause => ~db'.pause
        BY <1>3, <2>7, <2>13, <3>1 DEF GetDB, ScaleUpInv, ResumeSpreads
      <4>. QED
        BY <1>3, <3>1, <4>1 DEF ScaleUpInv, ResumeSpreads
    <3>3. Quiet' \/ Handed'
      <4>1. CASE Quiet /\ UNCHANGED workload
        BY <1>3, <4>1 DEF Quiet, Present
      <4>2. CASE Quiet /\ rc.step = "scaleUp" /\ workload'.spec = 1
        BY <1>3, <2>9, <3>1, <4>2 DEF ScaleUpInv, Quiet, Handed, Live, Present, PodClean
      <4>3. CASE Handed
        BY <1>3, <2>8, <2>9, <2>13, <4>3 DEF Handed, Live, Present, PodClean
      <4>. QED
        BY <2>8, <2>13, <3>1, <4>1, <4>2, <4>3 DEF ScaleUpInv
    <3>4. rc'.step \in {"resume", "gate", "scaleUp"} => SkipKept'
      <4>1. ASSUME ScalingUpSkip PROVE SkipKept'
        <5>1. CASE GetDB.skip
          BY <2>9, <3>1, <5>1 DEF GetDB, ScaleUpInv, SkipKept
        <5>2. CASE ~GetDB.skip
          BY <1>1, <4>1, <5>2 DEF ScalingUpSkip, SetSkipArchiveCheck, SetSkip, SkipKept, DBState
        <5>. QED
          BY <5>1, <5>2
      <4>2. ScalingUpResume \/ ScalingUpGate => rc.step \in {"resume", "gate", "scaleUp"}
        BY DEF ScalingUpResume, ScalingUpGate
      <4>. QED
        BY <2>9, <3>1, <4>1, <4>2, ScalingUpArrivals DEF ScaleUpInv
    <3>5. rc'.step = "scaleUp" => cm' = "full"
      <4>1. GetConfigMap \in Config
        BY <1>1 DEF GetConfigMap
      <4>. QED
        BY <1>3, <3>1, <4>1, ScalingUpArrivals DEF ScaleUpInv, ResumeSpreads, Config
    <3>6. /\ cache'.db.skip \/ (lc'.step # "idle" /\ lc'.skip) => SkipKept'
          /\ lc'.step = "clearSkip" => (\E p \in Pods : Replicating(p))'
      BY <1>3, <2>9, <3>1 DEF ScaleUpInv, Replicating, Live, Present
    <3>. QED
      BY <3>2, <3>3, <3>4, <3>5, <3>6 DEF ScaleUpInv
  <2>. QED
    BY <2>10, <2>11, <2>12, <2>13 DEF CleanPhase
<1>. QED
  BY <1>3, <1>5, <1>6 DEF CleanInv

(* The replica controller writes the full ConfigMap only when it has read   *)
(* the end of the pause, and clears skip-archive-check only when a sidecar  *)
(* of the new pod runs.                                                     *)
LEMMA CleanInvReplica ==
  ASSUME TypeOK, CleanInv, ReplicaControllerNext, UNCHANGED rc, CleanHandover
  PROVE  CleanInv'
<1>. USE DEF LAt
<1>1. db \in DBState /\ lc \in LCState /\ workload \in Workload /\ cache.db \in DBState
  BY DEF TypeOK, ClusterTypeOK, ReplicaControllerTypeOK, Cache
<1>2. /\ UNCHANGED <<restore, job, pods, cache>>
      /\ UNCHANGED db \/ (lc.step = "clearSkip" /\ db' = [db EXCEPT !.skip = FALSE])
      /\ UNCHANGED cm \/ ReconcileLitestreamConfig
      /\ UNCHANGED workload \/ workload' = [workload EXCEPT !.injected = TRUE]
      /\ lc'.step = "clearSkip" => UpdateStatus
  BY <1>1
  DEF ReplicaControllerNext, ReconcileReplica, ReplicaStep, ReconcileLitestreamConfig,
      ReconcileTargetAnnotation, UpdateStatus, UpdateStatusSeeing, SetSkip,
      ClearSkipArchiveCheck, ClearSkipPatch, ReplicaInterrupted, LReturn, LGoto, LIdle, LCState
<1>3. \/ lc'.step = "idle"
      \/ lc.step # "idle" /\ lc'.pause = lc.pause /\ lc'.skip = lc.skip
      \/ /\ lc.step = "idle" /\ UNCHANGED cm
         /\ lc'.pause = GetDB.pause /\ lc'.skip = GetDB.skip
  <2>1. LReturn => lc'.step = "idle"
    BY DEF LReturn, LIdle
  <2>2. \A step : LGoto(step) => lc'.pause = lc.pause /\ lc'.skip = lc.skip
    BY <1>1 DEF LGoto, LCState
  <2>3. CASE ReconcileReplica
    BY <2>3 DEF ReconcileReplica
  <2>4. CASE ~ReconcileReplica
    BY <2>1, <2>2, <2>4
    DEF ReplicaControllerNext, ReplicaStep, ReconcileLitestreamConfig,
        ReconcileTargetAnnotation, UpdateStatus, UpdateStatusSeeing,
        ClearSkipArchiveCheck, ClearSkipPatch, ReplicaInterrupted
  <2>. QED
    BY <2>3, <2>4
<1>4. /\ db'.pause = db.pause /\ GetDB'.pause = GetDB.pause
      /\ db'.skip => db.skip
      /\ workload'.spec = workload.spec /\ (workload.injected => workload'.injected)
  BY <1>1, <1>2 DEF DBState, GetDB, Workload
<1>5. ASSUME lc'.step = "clearSkip"
      PROVE  lc.step = "status" /\ lc.skip /\ lc'.skip /\ LitestreamContainerState(TRUE)
  <2>1. UpdateStatus
    BY <1>2, <1>5
  <2>. QED
    BY <1>1, <1>5, <2>1
    DEF UpdateStatus, UpdateStatusSeeing, LitestreamContainerState, LGoto, LReturn, LIdle,
        LCState
<1>6. Quiet => Quiet'
  BY <1>2, <1>4 DEF Quiet, Present
<1>7. ASSUME SkipUnset PROVE SkipUnset'
  BY <1>2, <1>3, <1>4, <1>7 DEF SkipUnset, GetDB
<1>8. ASSUME ScaleUpInv PROVE ScaleUpInv'
  <2>1. cm' \in {cm, WantedConfig} /\ (cm' # cm => lc.step # "idle")
    BY <1>2 DEF ReconcileLitestreamConfig
  <2>2. cm = "full" => cm' = "full"
    BY <1>8, <2>1 DEF ScaleUpInv, ResumeSpreads, WantedConfig
  <2>3. GetConfigMap' = "full" => cm' = "full"
    BY <1>2, <1>8, <2>2 DEF GetConfigMap, ScaleUpInv, ResumeSpreads
  <2>4. /\ cm' = "full" => ~GetDB.pause
        /\ cm' = "full" /\ lc'.step # "idle" => ~lc'.pause
    BY <1>3, <1>8, <2>1 DEF ScaleUpInv, ResumeSpreads, WantedConfig
  <2>5. ResumeSpreads'
    BY <1>3, <1>4, <1>8, <2>3, <2>4 DEF ScaleUpInv, ResumeSpreads
  <2>6. \A p \in Pods : Replicating(p)' = Replicating(p)
    BY <1>2 DEF Replicating, Live, Present
  <2>7. SkipKept => SkipKept'
    <3>1. CASE UNCHANGED db
      BY <2>6, <3>1 DEF SkipKept
    <3>2. CASE lc.step = "clearSkip"
      BY <1>8, <2>6, <3>2 DEF SkipKept, ScaleUpInv
    <3>. QED
      BY <1>2, <3>1, <3>2
  <2>8. Quiet' \/ Handed'
    <3>1. CASE Handed
      BY <1>2, <1>4, <2>2, <2>7, <3>1 DEF Handed, Live, Present, PodClean
    <3>. QED
      BY <1>6, <1>8, <3>1 DEF ScaleUpInv
  <2>9. cache'.db.skip \/ (lc'.step # "idle" /\ lc'.skip) => SkipKept'
    <3>1. cache.db.skip \/ (lc.step # "idle" /\ lc.skip) \/ db.skip => SkipKept
      BY <1>8 DEF ScaleUpInv, SkipKept
    <3>2. GetDB.skip => cache.db.skip \/ db.skip
      BY DEF GetDB
    <3>. QED
      BY <1>2, <1>3, <2>7, <3>1, <3>2
  <2>10. ASSUME lc'.step = "clearSkip" PROVE (\E p \in Pods : Replicating(p))'
    <3>1. PICK p \in Pods : SidecarRunning(pods[p]) \/ SidecarIdle(pods[p])
      BY <1>5, <2>10 DEF LitestreamContainerState, ListPods, CleanHandover
    <3>2. Present(p) /\ pods[p].injected
      BY <3>1 DEF SidecarRunning, SidecarIdle, Present
    <3>3. Handed
      BY <1>8, <3>2 DEF ScaleUpInv, Quiet
    <3>4. Replicating(p)
      BY <3>1, <3>2, <3>3 DEF Handed, PodClean, Replicating, Live
    <3>. QED
      BY <2>6, <3>4
  <2>. QED
    BY <1>8, <2>2, <2>5, <2>7, <2>8, <2>9, <2>10 DEF ScaleUpInv
<1>9. ASSUME NEW r \in Restores PROVE CleanPhase(r)'
  <2>1. CleanPhase(r)
    BY DEF CleanInv
  <2>. QED
    BY <1>2, <1>6, <1>7, <1>8, <2>1 DEF CleanPhase
<1>. QED
  BY <1>2, <1>4, <1>5, <1>9 DEF CleanInv

(* Pods, Jobs, users and informers leave the annotations alone, and a pod   *)
(* that comes finds the archive check open or the workload filled.          *)
LEMMA CleanInvCluster ==
  ASSUME TypeOK, ExclusiveInv, HeldInv, CleanInv, ClusterNext, UNCHANGED <<rc, lc>>,
         CleanHandover
  PROVE  CleanInv'
<1>1. /\ db \in DBState /\ restore \in [Restores -> Restore]
      /\ job \in [Restores -> Jobs] /\ pods \in [Pods -> Pod] /\ cache \in Cache
  BY DEF TypeOK, ClusterTypeOK
<1>2. \A r \in Restores : CleanPhase(r)
  BY DEF CleanInv
<1>3. /\ \A b \in BOOLEAN : ~UserPause(b)
      /\ \A p \in Pods : ~EvictPod(p)
      /\ \A n \in Replicas : ~UserScale(n)
      /\ \A r \in Restores : ~DeleteRestore(r) /\ ~CollectRestore(r)
      /\ ~DeleteDB /\ ~DeleteWorkload /\ ~CollectConfigMap
  BY DEF CleanHandover, Undisturbed, HeldInv, UserPause, EvictPod, UserScale, DeleteRestore,
         CollectRestore, DeleteDB, DeleteWorkload, CollectConfigMap, Happens
<1>4. ASSUME UNCHANGED <<cm, workload, pods, cache, restore, job>>,
             db'.pause = db.pause, db'.skip = db.skip
      PROVE  CleanInv'
  <2>1. /\ GetDB'.pause = GetDB.pause /\ GetConfigMap' = GetConfigMap /\ Quiet' = Quiet
        /\ \A p \in Pods : /\ Live(p)' = Live(p) /\ Replicating(p)' = Replicating(p)
                           /\ PodClean(p)' = PodClean(p)
    BY <1>4 DEF GetDB, GetConfigMap, Quiet, Live, Present, Replicating, PodClean
  <2>2. SkipKept' = SkipKept
    BY <1>4, <2>1 DEF SkipKept
  <2>3. Handed' = Handed
    BY <1>4, <2>1, <2>2 DEF Handed
  <2>4. ScaleUpInv => ScaleUpInv'
    BY <1>4, <2>1, <2>2, <2>3 DEF ScaleUpInv, ResumeSpreads
  <2>. QED
    BY <1>4, <2>1, <2>4 DEF CleanInv, CleanPhase, SkipUnset
<1>5. ASSUME NEW b \in BOOLEAN, UserBackup(b) PROVE CleanInv'
  BY <1>1, <1>4, <1>5 DEF UserBackup, DBState
<1>6. ASSUME WipeVolume \/ \E p \in Pods : Replicate(p) PROVE CleanInv'
  BY <1>4, <1>6 DEF WipeVolume, Replicate
<1>7. ASSUME NEW k \in Kinds, CacheSync(k) PROVE CleanInv'
  <2>1. /\ UNCHANGED apiVars
        /\ cache'.db \in {cache.db, db} /\ cache'.cm \in {cache.cm, cm}
    BY <1>1, <1>7 DEF CacheSync, Kinds, Cache
  <2>2. /\ Quiet' = Quiet
        /\ \A p \in Pods : /\ Live(p)' = Live(p) /\ Replicating(p)' = Replicating(p)
                           /\ PodClean(p)' = PodClean(p)
    BY <2>1 DEF Quiet, Live, Present, Replicating, PodClean
  <2>3. SkipKept' = SkipKept
    BY <2>1, <2>2 DEF SkipKept
  <2>4. Handed' = Handed
    BY <2>1, <2>2, <2>3 DEF Handed
  <2>5. ASSUME ScaleUpInv PROVE ScaleUpInv'
    <3>1. ~GetDB.pause => ~GetDB'.pause
      BY <2>1, <2>5 DEF GetDB, ScaleUpInv, ResumeSpreads
    <3>2. ~GetDB'.pause => ~db'.pause
      BY <2>1, <2>5 DEF GetDB, ScaleUpInv, ResumeSpreads
    <3>3. GetConfigMap' = "full" => cm' = "full"
      BY <2>1, <2>5 DEF GetConfigMap, ScaleUpInv, ResumeSpreads
    <3>4. ResumeSpreads'
      BY <2>1, <2>5, <3>1, <3>2, <3>3 DEF ScaleUpInv, ResumeSpreads
    <3>5. cache'.db.skip => SkipKept
      BY <2>1, <2>5 DEF ScaleUpInv, SkipKept
    <3>. QED
      BY <2>1, <2>2, <2>3, <2>4, <2>5, <3>4, <3>5 DEF ScaleUpInv
  <2>6. ASSUME NEW r \in Restores PROVE CleanPhase(r)'
    BY <1>2, <2>1, <2>2, <2>5 DEF CleanPhase, SkipUnset
  <2>. QED
    BY <2>1, <2>6 DEF CleanInv
<1>8. ASSUME JobNext PROVE CleanInv'
  <2>1. /\ UNCHANGED <<db, cm, workload, pods, cache, restore>>
    BY <1>8 DEF JobNext, FinishRestoreJob, FinishValidationJob
  <2>2. ASSUME NEW r \in Restores PROVE CleanPhase(r)'
    <3>1. job'[r].validate = "complete" => job[r].validate \in {"complete", "active"}
      BY <1>1, <1>8 DEF JobNext, FinishRestoreJob, FinishValidationJob, Jobs
    <3>2. job[r].validate = "active" => Quiet
      BY DEF ExclusiveInv, QuietPhase, JobActive
    <3>3. Quiet' = Quiet /\ ScaleUpInv' = ScaleUpInv /\ SkipUnset' = SkipUnset
      BY <2>1 DEF Quiet, Present, ScaleUpInv, SkipUnset, ResumeSpreads, GetDB, GetConfigMap,
         Handed, SkipKept, Replicating, Live, PodClean
    <3>. QED
      BY <1>2, <2>1, <3>1, <3>2, <3>3 DEF CleanPhase
  <2>. QED
    BY <2>1, <2>2 DEF CleanInv
<1>9. ASSUME NEW s \in Restores, CreateRestore(s) PROVE CleanInv'
  <2>1. /\ UNCHANGED <<db, cm, workload, pods, cache, job>>
        /\ restore[s].phase = "Absent" /\ restore'[s].phase = "New"
    BY <1>1, <1>9 DEF CreateRestore, Restore
  <2>2. ASSUME NEW r \in Restores PROVE CleanPhase(r)'
    <3>1. r = s
      BY DEF CleanHandover, Undisturbed
    <3>. QED
      BY <1>2, <2>1, <3>1 DEF CleanPhase, SkipUnset
  <2>. QED
    BY <2>1, <2>2 DEF CleanInv
<1>10. ASSUME NEW p \in Pods,
              \/ CreatePod(p) \/ DeletePod(p) \/ PodGone(p) \/ StartPod(p)
              \/ BlockPod(p) \/ RestartSidecar(p)
       PROVE  CleanInv'
  <2>1. UNCHANGED <<db, cm, workload, cache, restore, job>>
    BY <1>10 DEF CreatePod, DeletePod, PodGone, StartPod, BlockPod, RestartSidecar
  <2>2. \A q \in Pods : pods'[q].injected => workload'.injected
    <3>1. \A q \in Pods : pods'[q].injected => pods[q].injected \/ workload.injected
      BY <1>1, <1>10
      DEF CreatePod, DeletePod, PodGone, StartPod, BlockPod, RestartSidecar, Injected,
          AbsentPod, Pod
    <3>. QED
      BY <2>1, <3>1 DEF CleanInv
  <2>3. ~Quiet
    <3>1. CASE CreatePod(p)
      BY <3>1, NoPodAtZero DEF Quiet
    <3>2. CASE ~CreatePod(p)
      BY <1>10, <3>2
      DEF DeletePod, PodGone, StartPod, BlockPod, RestartSidecar, Live, Present, Quiet
    <3>. QED
      BY <3>1, <3>2
  <2>4. ASSUME ScaleUpInv PROVE ScaleUpInv'
    <3>1. Handed
      BY <2>3, <2>4 DEF ScaleUpInv
    <3>2. workload.exists
      BY DEF ExclusiveInv
    <3>3. Handed' /\ \A q \in Pods : Replicating(q) => Replicating(q)'
      BY <1>10, <3>1, <3>2, PodsStayClean DEF CleanInv
    <3>4. SkipKept'
      BY <3>3 DEF Handed
    <3>5. ResumeSpreads'
      BY <2>1, <2>4 DEF ScaleUpInv, ResumeSpreads, GetDB, GetConfigMap
    <3>. QED
      BY <2>1, <2>4, <3>3, <3>4, <3>5 DEF ScaleUpInv
  <2>5. ASSUME NEW r \in Restores PROVE CleanPhase(r)'
    BY <1>2, <2>1, <2>3, <2>4 DEF CleanPhase, SkipUnset
  <2>. QED
    BY <2>1, <2>2, <2>5 DEF CleanInv
<1>. QED
  BY <1>3, <1>5, <1>6, <1>7, <1>8, <1>9, <1>10
  DEF ClusterNext, WorkloadNext, UserNext, CollectorNext

(* reconcileScalingUp's order of operations: after a completed restore no   *)
(* pod is held back by its archive check and no sidecar has read "dbs: []", *)
(* however the two controllers interleave with the pods they wait for,      *)
(* however stale their copies of the LitestreamReplica and of its ConfigMap *)
(* are, and wherever they crash.                                            *)
THEOREM CleanStartAfterRestoreHolds ==
  ASSUME CleanHandover
  PROVE  Spec => []CleanStartAfterRestore
<1>. DEFINE Base == TypeOK /\ ProtocolInv /\ ExclusiveInv /\ JobInv /\ HeldInv
<1>1. Base /\ CleanInv /\ [Next]_vars => CleanInv'
  <2>1. CleanInv /\ UNCHANGED vars => CleanInv'
    BY DEF vars, CleanInv, CleanPhase, ScaleUpInv, ResumeSpreads, SkipUnset, SkipKept, Handed,
           PodClean, Replicating, Live, Present, Quiet, GetDB, GetConfigMap
  <2>. QED
    BY <2>1, CleanInvRestore, CleanInvReplica, CleanInvCluster DEF Next
<1>2. Undisturbed /\ SoleResumer /\ Lagging \cap {"restore", "job"} = {}
  BY DEF CleanHandover, Undisturbed, SoleResumer
<1>3. Spec => []Base
  BY <1>2, JobInvariant, HeldInvariant, ExclusiveInvariant, PTL
<1>4. TypeOK /\ CleanInv => CleanStartAfterRestore
  <2>. SUFFICES ASSUME CleanInv, NEW r \in Restores, restore[r].phase = "Complete",
                       NEW p \in Pods
                PROVE  pods[p].phase # "blocked" /\ ~SidecarIdle(pods[p])
    BY DEF CleanStartAfterRestore
  <2>1. Quiet \/ Handed
    BY DEF CleanInv, CleanPhase, ScaleUpInv
  <2>. QED
    BY <2>1 DEF Quiet, Handed, PodClean, Present, SidecarIdle
<1>. QED
  BY <1>1, <1>3, <1>4, CleanInvInit, PTL DEF Spec
=============================================================================
