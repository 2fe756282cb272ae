--------------------------- MODULE ProtocolProofs ---------------------------
(***************************************************************************)
(* Operator keeps its types, for every number of restores, pods, replicas, *)
(* events and failures.  It implements RestoreProtocol whenever the        *)
(* restore controller reads its own resource up to date, whatever the      *)
(* other informers, the users and the failures do.                         *)
(***************************************************************************)
EXTENDS Operator, ClusterProofs

USE DEF clusterVars, apiVars

-----------------------------------------------------------------------------
(* Types. *)

(* Leaving a Reconcile or going to its next call keeps rc well typed. *)
LEMMA RCTypes ==
  ASSUME rc \in RCState
  PROVE  /\ Return => rc' \in RCState
         /\ \A step \in Steps : Goto(step) => rc' \in RCState
         /\ \A phase \in Phases : SetStatus(phase) => rc' \in RCState
         /\ FailRestore => rc' \in RCState
<1>1. Return => rc' \in RCState
  BY DEF Return, Idle, RCState, Steps, Phases
<1>2. \A step \in Steps : Goto(step) => rc' \in RCState
  BY DEF Goto, RCState
<1>3. \A phase \in Phases : SetStatus(phase) => rc' \in RCState
  BY DEF SetStatus, RCState, Steps
<1>. QED
  BY <1>1, <1>2, <1>3 DEF FailRestore, Phases

(* Patching an annotation of the LitestreamReplica keeps its type, and so   *)
(* does patching the replica count of the workload.                         *)
LEMMA PatchTypes ==
  ASSUME TypeOK
  PROVE  /\ \A b \in BOOLEAN : SetPause(b) => db' \in DBState
         /\ \A b \in BOOLEAN : SetSkip(b) => db' \in DBState
         /\ PauseReplication => db' \in DBState
         /\ ResumeReplication => db' \in DBState
         /\ SetSkipArchiveCheck => db' \in DBState
         /\ \A n \in Replicas : ScaleWorkload(n) => workload' \in Workload
<1>. USE DEF TypeOK, ClusterTypeOK
<1>1. /\ \A b \in BOOLEAN : SetPause(b) => db' \in DBState
      /\ \A b \in BOOLEAN : SetSkip(b) => db' \in DBState
  BY AnnotationTypes
<1>2. \A n \in Replicas : ScaleWorkload(n) => workload' \in Workload
  BY DEF ScaleWorkload, Workload
<1>. QED
  BY <1>1, <1>2 DEF PauseReplication, ResumeReplication, SetSkipArchiveCheck

(* Each call of a restore's Reconcile keeps the types. *)
LEMMA RestoreControllerType ==
  ASSUME TypeOK, RestoreControllerNext, UNCHANGED lc
  PROVE  TypeOK'
<1>. USE ReadTypes, RCTypes, PatchTypes, ClusterAssumption
     DEF TypeOK, ClusterTypeOK, RestoreControllerTypeOK, ReplicaControllerTypeOK
<1>1. Target \in Replicas
  BY DEF Target, RCState, Replicas
<1>2. ASSUME NEW r \in Restores, Reconcile(r) PROVE TypeOK'
  <2>1. GetRestore(r) \in Restore /\ GetDB \in DBState
    OBVIOUS
  <2>2. rc' \in RCState
    BY <1>2, <2>1 DEF Reconcile, Handler, RCState, Restore, DBState, Steps,
                      Phases, Missing, Terminal
  <2>. QED
    BY <1>2, <2>2 DEF Reconcile
<1>3. CASE ReconcilePending
  <2>1. (IF GetWorkload.exists THEN GetWorkload.spec ELSE 0) \in Replicas
    BY DEF CachedWorkload, Replicas
  <2>2. rc' \in RCState
    BY <1>3, <2>1 DEF ReconcilePending, RCState, Steps
  <2>. QED
    BY <1>3, <2>2 DEF ReconcilePending
<1>4. CASE PendingPause
  BY <1>4 DEF PendingPause, Phases
<1>5. CASE ReconcilePausing
  BY <1>5 DEF ReconcilePausing, Steps
<1>6. CASE PausingRepause
  BY <1>6 DEF PausingRepause
<1>7. CASE PausingScaleDown
  BY <1>7 DEF PausingScaleDown, Phases, Replicas
<1>8. CASE ReconcileScalingDown
  BY <1>8 DEF ReconcileScalingDown, Steps
<1>9. CASE ReconcileRestoreConfig
  BY <1>9 DEF ReconcileRestoreConfig, Steps
<1>10. CASE CreateRestoreJob
  BY <1>10 DEF CreateRestoreJob, CreateIfAbsent, Jobs, JobState, Phases
<1>11. CASE ReconcileRunning
  BY <1>11 DEF ReconcileRunning, FailRestoreWithCleanup, Phases, Steps
<1>12. CASE ReconcileValidating
  BY <1>12 DEF ReconcileValidating, FailRestoreWithCleanup, Phases, Steps
<1>13. CASE CreateValidationJob
  BY <1>13 DEF CreateValidationJob, CreateIfAbsent, Jobs, JobState
<1>14. CASE ScalingUpSkip
  BY <1>14 DEF ScalingUpSkip, Steps
<1>15. CASE ScalingUpResume
  BY <1>15 DEF ScalingUpResume, Steps
<1>16. CASE ScalingUpGate
  BY <1>16 DEF ScalingUpGate, Steps
<1>17. CASE ScalingUpScale
  BY <1>17, <1>1 DEF ScalingUpScale, Phases
<1>18. CASE CleanupScale
  BY <1>18, <1>1 DEF CleanupScale, Steps
<1>19. CASE CleanupResume
  BY <1>19 DEF CleanupResume, Phases
<1>20. CASE WriteStatus
  BY <1>20 DEF WriteStatus, Status, RCState, Restore
<1>21. CASE DBPatchRejected
  BY <1>21 DEF DBPatchRejected
<1>22. CASE CleanupPatchRejected
  BY <1>22 DEF CleanupPatchRejected, Phases
<1>23. CASE WorkloadPatchRejected
  BY <1>23 DEF WorkloadPatchRejected, Steps
<1>24. CASE ReconcileInterrupted
  BY <1>24 DEF ReconcileInterrupted, Fails
<1>25. CASE CleanupCallFails
  BY <1>25 DEF CleanupCallFails, Fails, Steps, Phases
<1>26. CASE WorkloadReadFails
  BY <1>26 DEF WorkloadReadFails, Fails, Phases
<1>27. ASSUME NEW r \in Restores, SourceReadFails(r) PROVE TypeOK'
  <2>1. GetRestore(r) \in Restore
    OBVIOUS
  <2>2. rc' \in RCState
    BY <1>27, <2>1 DEF SourceReadFails, RCState, Restore, Steps, Phases
  <2>. QED
    BY <1>27, <2>2 DEF SourceReadFails, Fails
<1>. QED
  BY <1>2, <1>3, <1>4, <1>5, <1>6, <1>7, <1>8, <1>9, <1>10, <1>11, <1>12, <1>13, <1>14,
     <1>15, <1>16, <1>17, <1>18, <1>19, <1>20, <1>21, <1>22, <1>23, <1>24, <1>25, <1>26,
     <1>27
  DEF RestoreControllerNext, RestoreStep, RestoreFault

(* The objects, the caches and both controllers' local state keep the       *)
(* types declared for them: no action of the operator or of its             *)
(* environment takes a replica count, a phase or a configuration outside    *)
(* its range.                                                               *)
THEOREM TypeCorrect == Spec => []TypeOK
<1>1. TypeOK /\ [Next]_vars => TypeOK'
  <2>1. TypeOK /\ UNCHANGED vars => TypeOK'
    BY DEF vars, TypeOK, ClusterTypeOK, RestoreControllerTypeOK,
           ReplicaControllerTypeOK
  <2>. QED
    BY <2>1, RestoreControllerType, ReplicaControllerType, ClusterType
    DEF Next, TypeOK, RestoreControllerTypeOK, ReplicaControllerTypeOK
<1>2. Init => TypeOK
  BY ClusterInitType
  DEF Init, RestoreControllerInit, ReplicaControllerInit, TypeOK, RestoreControllerTypeOK,
      ReplicaControllerTypeOK, RCState, Idle, Steps, Phases, LCState, LIdle
<1>. QED
  BY <1>1, <1>2, PTL DEF Spec

-----------------------------------------------------------------------------

(* The protocol's view of the restores. *)
PhaseOf == [r \in Restores |-> restore[r].phase]

(* What the invariant speaks of is untouched. *)
LEMMA ProtocolFrame ==
  ASSUME ProtocolInv, UNCHANGED <<restore, job, cache, rc>>
  PROVE  ProtocolInv'
  BY DEF ProtocolInv, StepInv, CachedSuccessInv, ValidatedBeforeScaleUp

(* A Reconcile that only moves on keeps the invariant if it keeps StepInv. *)
LEMMA ProtocolMove ==
  ASSUME ProtocolInv, UNCHANGED <<restore, job, cache>>, StepInv'
  PROVE  ProtocolInv'
  BY DEF ProtocolInv, CachedSuccessInv, ValidatedBeforeScaleUp

(* Nothing is running and nothing is cached at the start. *)
LEMMA ProtocolInvInit == Init => ProtocolInv
  BY DEF Init, ClusterInit, RestoreControllerInit, Idle, ProtocolInv, StepInv,
         CachedSuccessInv, ValidatedBeforeScaleUp, NoJobs

(* A success the client reads is one the API server has. *)
LEMMA SuccessRead ==
  ASSUME CachedSuccessInv, NEW r \in Restores, restore[r].phase # "Deleted"
  PROVE  /\ GetJobs(r).restore = "complete" => job[r].restore = "complete"
         /\ GetJobs(r).validate = "complete" => job[r].validate = "complete"
  BY DEF CachedSuccessInv, GetJobs

(* A Reconcile is back at rest. *)
LEMMA ReturnStep == Return => StepInv'
  BY DEF Return, Idle, StepInv

(* Every step works on a restore that exists and has not ended. *)
LEMMA PhasesAtActive == \A step \in Steps : PhasesAt(step) \subseteq Active
  BY DEF PhasesAt, Active, Phases, Terminal, Missing, Steps

(* Deciding to write a status that follows from the phase keeps StepInv. *)
LEMMA StatusStep ==
  ASSUME rc \in RCState, StepInv, rc.step # "idle", UNCHANGED <<restore, job>>,
         NEW next, SetStatus(next),
         restore[rc.r].phase # "Deleted" =>
           NextFollows(restore[rc.r].phase, next, job[rc.r])
  PROVE  StepInv'
<1>1. rc'.step = "status" /\ rc'.r = rc.r /\ rc'.next = next
  BY DEF SetStatus, RCState
<1>2. restore[rc.r].phase # "Deleted" => restore[rc.r].phase \in Active
  BY PhasesAtActive DEF StepInv, RCState
<1>3. PhasesAt("status") = Active
  BY DEF PhasesAt
<1>. QED
  BY <1>1, <1>2, <1>3 DEF StepInv

(* Each call of a restore's Reconcile keeps the invariant. *)
LEMMA ProtocolInvRestore ==
  ASSUME TypeOK, ProtocolInv, RestoreControllerNext, "restore" \notin Lagging
  PROVE  ProtocolInv'
<1>. USE DEF At, PhasesAt, NextFollows
<1>1. /\ rc \in RCState /\ restore \in [Restores -> Restore]
      /\ job \in [Restores -> Jobs] /\ cache \in Cache
  BY DEF TypeOK, ClusterTypeOK, RestoreControllerTypeOK
<1>2. StepInv /\ CachedSuccessInv
  BY DEF ProtocolInv
<1>3. ASSUME UNCHANGED <<restore, job, cache>>, Return PROVE ProtocolInv'
  BY <1>3, ProtocolMove, ReturnStep
<1>4. ASSUME UNCHANGED <<restore, job, cache>>, StepInv' PROVE ProtocolInv'
  BY <1>4, ProtocolMove
<1>5. ASSUME NEW r \in Restores, Reconcile(r) PROVE ProtocolInv'
  <2>1. restore[r].phase \in Active
    BY <1>1, <1>5 DEF Reconcile, GetRestore, Active, Restore
  <2>2. rc'.r = r /\ rc'.step \in Steps
    BY <1>5, <2>1 DEF Reconcile, GetRestore, Handler, Active, Phases, Terminal, Missing, Steps
  <2>3. StepInv'
    BY <1>5, <2>1, <2>2 DEF Reconcile, GetRestore, Handler, StepInv, Active, Phases, Terminal, Missing
  <2>. QED
    BY <1>4, <1>5, <2>3 DEF Reconcile
<1>6. CASE ReconcilePending
  <2>1. StepInv'
    BY <1>1, <1>2, <1>6
    DEF ReconcilePending, StepInv, Return, Idle, Goto, SetStatus, RCState
  <2>. QED
    BY <1>4, <1>6, <2>1 DEF ReconcilePending
<1>7. CASE PendingPause
  <2>1. /\ rc.step # "idle" /\ SetStatus("Pausing")
        /\ UNCHANGED <<restore, job, cache>>
    BY <1>7 DEF PendingPause
  <2>2. restore[rc.r].phase # "Deleted" =>
          NextFollows(restore[rc.r].phase, "Pausing", job[rc.r])
    BY <1>2, <1>7 DEF PendingPause, StepInv
  <2>. QED
    BY <1>1, <1>2, <1>4, <2>1, <2>2, StatusStep
<1>8. CASE ReconcilePausing
  <2>1. StepInv'
    BY <1>1, <1>2, <1>8
    DEF ReconcilePausing, StepInv, Return, Idle, Goto, SetStatus, RCState
  <2>. QED
    BY <1>4, <1>8, <2>1 DEF ReconcilePausing
<1>9. CASE PausingRepause
  <2>1. StepInv'
    BY <1>1, <1>2, <1>9
    DEF PausingRepause, StepInv, Return, Idle, Goto, SetStatus, RCState
  <2>. QED
    BY <1>4, <1>9, <2>1 DEF PausingRepause
<1>10. CASE PausingScaleDown
  <2>1. /\ rc.step # "idle" /\ SetStatus("ScalingDown")
        /\ UNCHANGED <<restore, job, cache>>
    BY <1>10 DEF PausingScaleDown
  <2>2. restore[rc.r].phase # "Deleted" =>
          NextFollows(restore[rc.r].phase, "ScalingDown", job[rc.r])
    BY <1>2, <1>10 DEF PausingScaleDown, StepInv
  <2>. QED
    BY <1>1, <1>2, <1>4, <2>1, <2>2, StatusStep
<1>11. CASE ReconcileScalingDown
  <2>1. StepInv'
    BY <1>1, <1>2, <1>11
    DEF ReconcileScalingDown, StepInv, Return, Idle, Goto, SetStatus, RCState
  <2>. QED
    BY <1>4, <1>11, <2>1 DEF ReconcileScalingDown
<1>12. CASE ReconcileRestoreConfig
  <2>1. StepInv'
    BY <1>1, <1>2, <1>12
    DEF ReconcileRestoreConfig, StepInv, Return, Idle, Goto, SetStatus, RCState
  <2>. QED
    BY <1>4, <1>12, <2>1 DEF ReconcileRestoreConfig
<1>13. CASE ReconcileRunning
  <2>1. CASE GetJobs(rc.r).restore = "complete" /\ SetStatus("Validating")
    <3>1. restore[rc.r].phase # "Deleted" =>
            NextFollows(restore[rc.r].phase, "Validating", job[rc.r])
      BY <1>2, <1>13, <2>1, SuccessRead DEF ReconcileRunning, StepInv
    <3>2. StepInv'
      BY <1>1, <1>2, <1>13, <2>1, <3>1, StatusStep DEF ReconcileRunning
    <3>. QED
      BY <1>4, <1>13, <3>2 DEF ReconcileRunning
  <2>2. CASE ~(GetJobs(rc.r).restore = "complete" /\ SetStatus("Validating"))
    <3>1. StepInv'
      BY <1>1, <1>2, <1>13, <2>2
      DEF ReconcileRunning, StepInv, Return, Idle, Goto, RCState, FailRestoreWithCleanup
    <3>. QED
      BY <1>4, <1>13, <3>1 DEF ReconcileRunning
  <2>. QED
    BY <2>1, <2>2
<1>14. CASE ReconcileValidating
  <2>1. CASE GetJobs(rc.r).validate = "complete" /\ SetStatus("ScalingUp")
    <3>1. restore[rc.r].phase # "Deleted" =>
            NextFollows(restore[rc.r].phase, "ScalingUp", job[rc.r])
      BY <1>2, <1>14, <2>1, SuccessRead DEF ReconcileValidating, StepInv
    <3>2. StepInv'
      BY <1>1, <1>2, <1>14, <2>1, <3>1, StatusStep DEF ReconcileValidating
    <3>. QED
      BY <1>4, <1>14, <3>2 DEF ReconcileValidating
  <2>2. CASE ~(GetJobs(rc.r).validate = "complete" /\ SetStatus("ScalingUp"))
    <3>1. StepInv'
      BY <1>1, <1>2, <1>14, <2>2
      DEF ReconcileValidating, StepInv, Return, Idle, Goto, RCState, FailRestoreWithCleanup
    <3>. QED
      BY <1>4, <1>14, <3>1 DEF ReconcileValidating
  <2>. QED
    BY <2>1, <2>2
<1>15. CASE ScalingUpSkip
  <2>1. StepInv'
    BY <1>1, <1>2, <1>15
    DEF ScalingUpSkip, StepInv, Return, Idle, Goto, SetStatus, RCState
  <2>. QED
    BY <1>4, <1>15, <2>1 DEF ScalingUpSkip
<1>16. CASE ScalingUpResume
  <2>1. StepInv'
    BY <1>1, <1>2, <1>16
    DEF ScalingUpResume, StepInv, Return, Idle, Goto, SetStatus, RCState
  <2>. QED
    BY <1>4, <1>16, <2>1 DEF ScalingUpResume
<1>17. CASE ScalingUpGate
  <2>1. StepInv'
    BY <1>1, <1>2, <1>17
    DEF ScalingUpGate, StepInv, Return, Idle, Goto, SetStatus, RCState
  <2>. QED
    BY <1>4, <1>17, <2>1 DEF ScalingUpGate
<1>18. CASE ScalingUpScale
  <2>1. /\ rc.step # "idle" /\ SetStatus("Complete")
        /\ UNCHANGED <<restore, job, cache>>
    BY <1>18 DEF ScalingUpScale
  <2>2. restore[rc.r].phase # "Deleted" =>
          NextFollows(restore[rc.r].phase, "Complete", job[rc.r])
    BY <1>2, <1>18 DEF ScalingUpScale, StepInv
  <2>. QED
    BY <1>1, <1>2, <1>4, <2>1, <2>2, StatusStep
<1>19. CASE CleanupScale
  <2>1. StepInv'
    BY <1>1, <1>2, <1>19
    DEF CleanupScale, StepInv, Return, Idle, Goto, SetStatus, RCState
  <2>. QED
    BY <1>4, <1>19, <2>1 DEF CleanupScale
<1>20. CASE CleanupResume
  <2>1. /\ rc.step # "idle" /\ SetStatus("Failed")
        /\ UNCHANGED <<restore, job, cache>>
    BY <1>20 DEF CleanupResume
  <2>2. restore[rc.r].phase # "Deleted" =>
          NextFollows(restore[rc.r].phase, "Failed", job[rc.r])
    BY <1>2, <1>20 DEF CleanupResume, StepInv
  <2>. QED
    BY <1>1, <1>2, <1>4, <2>1, <2>2, StatusStep
<1>21. CASE DBPatchRejected
  <2>1. StepInv'
    BY <1>1, <1>2, <1>21
    DEF DBPatchRejected, StepInv, Return, Idle, Goto, SetStatus, RCState
  <2>. QED
    BY <1>4, <1>21, <2>1 DEF DBPatchRejected
<1>22. CASE CleanupPatchRejected
  <2>1. /\ rc.step # "idle" /\ SetStatus("Failed")
        /\ UNCHANGED <<restore, job, cache>>
    BY <1>22 DEF CleanupPatchRejected
  <2>2. restore[rc.r].phase # "Deleted" =>
          NextFollows(restore[rc.r].phase, "Failed", job[rc.r])
    BY <1>2, <1>22 DEF CleanupPatchRejected, StepInv
  <2>. QED
    BY <1>1, <1>2, <1>4, <2>1, <2>2, StatusStep
<1>23. CASE WorkloadPatchRejected
  <2>1. StepInv'
    BY <1>1, <1>2, <1>23
    DEF WorkloadPatchRejected, StepInv, Return, Idle, Goto, SetStatus, RCState
  <2>. QED
    BY <1>4, <1>23, <2>1 DEF WorkloadPatchRejected
<1>24. CASE ReconcileInterrupted
  <2>1. StepInv'
    BY <1>1, <1>2, <1>24
    DEF ReconcileInterrupted, StepInv, Return, Idle, Goto, SetStatus, RCState
  <2>. QED
    BY <1>4, <1>24, <2>1 DEF ReconcileInterrupted
<1>25. CASE CleanupCallFails
  <2>1. CASE At("cleanupScale") /\ Goto("cleanupResume")
    <3>1. StepInv'
      BY <1>1, <1>2, <1>25, <2>1 DEF CleanupCallFails, StepInv, Goto, RCState
    <3>. QED
      BY <1>4, <1>25, <3>1 DEF CleanupCallFails
  <2>2. CASE At("cleanupResume") /\ SetStatus("Failed")
    BY <1>1, <1>2, <1>4, <1>25, <2>2, StatusStep DEF CleanupCallFails
  <2>. QED
    BY <1>25, <2>1, <2>2 DEF CleanupCallFails
<1>26. CASE WorkloadReadFails
  <2>1. CASE rc.step # "idle" /\ SetStatus("Failed")
    BY <1>1, <1>2, <1>4, <1>26, <2>1, StatusStep DEF WorkloadReadFails
  <2>2. CASE At("scaleUp") /\ SetStatus("Complete")
    <3>1. restore[rc.r].phase # "Deleted" =>
            NextFollows(restore[rc.r].phase, "Complete", job[rc.r])
      BY <1>2, <2>2 DEF StepInv
    <3>. QED
      BY <1>1, <1>2, <1>4, <1>26, <2>2, <3>1, StatusStep DEF WorkloadReadFails
  <2>. QED
    BY <1>26, <2>1, <2>2 DEF WorkloadReadFails, FailRestore
<1>27. CASE CreateRestoreJob
  <2>1. rc.r \in Restores /\ rc.step = "createJob"
    BY <1>2, <1>27 DEF CreateRestoreJob, StepInv
  <2>2. /\ job'[rc.r].restore = CreateIfAbsent(job[rc.r].restore)
        /\ job'[rc.r].validate = job[rc.r].validate
        /\ \A r \in Restores : r # rc.r => job'[r] = job[r]
    BY <1>1, <1>27, <2>1 DEF CreateRestoreJob, Jobs
  <2>3. CachedSuccessInv' /\ ValidatedBeforeScaleUp'
    BY <1>27, <2>1, <2>2
    DEF CreateRestoreJob, CreateIfAbsent, ProtocolInv, CachedSuccessInv, ValidatedBeforeScaleUp
  <2>4. rc'.step = "status" /\ rc'.r = rc.r /\ rc'.next = "Running"
    BY <1>1, <1>27 DEF CreateRestoreJob, SetStatus, RCState
  <2>5. restore[rc.r].phase # "Deleted" => restore[rc.r].phase = "ScalingDown"
    BY <1>2, <2>1 DEF StepInv
  <2>6. StepInv'
    BY <1>27, <2>1, <2>2, <2>4, <2>5
    DEF CreateRestoreJob, StepInv, CreateIfAbsent, Active, Phases, Terminal, Missing
  <2>. QED
    BY <2>3, <2>6 DEF ProtocolInv
<1>28. CASE CreateValidationJob
  BY <1>1, <1>2, <1>28 DEF CreateValidationJob, CreateIfAbsent, Return, Idle, RCState, Jobs, JobState, Restore,
       ProtocolInv, StepInv, CachedSuccessInv, ValidatedBeforeScaleUp
<1>29. CASE WriteStatus
  BY <1>1, <1>2, <1>29 DEF WriteStatus, Status, Return, Idle, RCState, Restore, Active, Missing, Terminal,
       ProtocolInv, StepInv, CachedSuccessInv, ValidatedBeforeScaleUp
<1>30. ASSUME NEW r \in Restores, SourceReadFails(r) PROVE ProtocolInv'
  <2>1. restore[r].phase \in Active
    BY <1>1, <1>30 DEF SourceReadFails, GetRestore, Active, Restore
  <2>2. StepInv'
    BY <1>30, <2>1 DEF SourceReadFails, StepInv, Active, Phases, Terminal, Missing
  <2>. QED
    BY <1>4, <1>30, <2>2 DEF SourceReadFails
<1>. QED
  BY <1>5, <1>6, <1>7, <1>8, <1>9, <1>10, <1>11, <1>12, <1>13, <1>14, <1>15, <1>16, <1>17,
     <1>18, <1>19, <1>20, <1>21, <1>22, <1>23, <1>24, <1>25, <1>26, <1>27, <1>28, <1>29,
     <1>30
  DEF RestoreControllerNext, RestoreStep, RestoreFault

(* The replica controller touches nothing the invariant speaks of; the      *)
(* cluster changes Jobs, phases and caches only in ways it allows.          *)
LEMMA ProtocolInvOthers ==
  ASSUME TypeOK, ProtocolInv, UNCHANGED rc, ReplicaControllerNext \/ ClusterNext
  PROVE  ProtocolInv'
<1>. USE DEF TypeOK, ClusterTypeOK
<1>1. StepInv /\ CachedSuccessInv /\ ValidatedBeforeScaleUp
  BY DEF ProtocolInv
<1>2. CASE ReplicaControllerNext
  BY <1>2, ProtocolFrame
  DEF ReplicaControllerNext, ReconcileReplica, ReplicaStep,
      ReconcileLitestreamConfig, ReconcileTargetAnnotation, UpdateStatus, UpdateStatusSeeing,
      ClearSkipArchiveCheck, ClearSkipPatch, ReplicaInterrupted
<1>3. CASE WorkloadNext
  BY <1>3, ProtocolFrame
  DEF WorkloadNext, CreatePod, DeletePod, PodGone, StartPod, BlockPod,
      RestartSidecar, Replicate
<1>4. ASSUME NEW k \in Kinds, CacheSync(k) PROVE ProtocolInv'
  <2>1. cache'.job = cache.job \/ cache'.job = job
    BY <1>4 DEF CacheSync, Kinds, Cache
  <2>. QED
    BY <1>1, <1>4, <2>1
    DEF CacheSync, ProtocolInv, StepInv, CachedSuccessInv, ValidatedBeforeScaleUp
<1>5. CASE JobNext
  <2>1. PICK r \in Restores, result \in {"complete", "failed"} :
          FinishRestoreJob(r, result) \/ FinishValidationJob(r, result)
    BY <1>5 DEF JobNext
  <2>2. /\ \A s \in Restores : s # r => job'[s] = job[s]
        /\ \/ /\ job[r].restore = "active" /\ job'[r].restore = result
              /\ job'[r].validate = job[r].validate
           \/ /\ job[r].validate = "active" /\ job'[r].validate = result
              /\ job'[r].restore = job[r].restore
        /\ UNCHANGED <<restore, cache>>
    BY <2>1 DEF FinishRestoreJob, FinishValidationJob, Jobs
  <2>3. StepInv'
    BY <1>1, <2>2 DEF StepInv, NextFollows
  <2>4. CachedSuccessInv' /\ ValidatedBeforeScaleUp'
    BY <1>1, <2>2 DEF CachedSuccessInv, ValidatedBeforeScaleUp
  <2>. QED
    BY <2>3, <2>4 DEF ProtocolInv
<1>6. ASSUME NEW r \in Restores, CreateRestore(r) PROVE ProtocolInv'
  <2>1. /\ restore[r].phase = "Absent" /\ restore'[r].phase = "New"
        /\ \A s \in Restores : s # r => restore'[s] = restore[s]
        /\ UNCHANGED <<job, cache>>
    BY <1>6 DEF CreateRestore, Restore
  <2>2. rc.step # "idle" => rc.r # r
    BY <1>1, <2>1, PhasesAtActive
    DEF StepInv, Active, Missing, RestoreControllerTypeOK, RCState
  <2>. QED
    BY <1>1, <2>1, <2>2
    DEF ProtocolInv, StepInv, CachedSuccessInv, ValidatedBeforeScaleUp
<1>7. ASSUME NEW r \in Restores, DeleteRestore(r) PROVE ProtocolInv'
  <2>1. /\ restore'[r].phase = "Deleted"
        /\ \A s \in Restores : s # r => restore'[s] = restore[s]
        /\ UNCHANGED <<job, cache>>
    BY <1>7 DEF DeleteRestore, Restore
  <2>. QED
    BY <1>1, <2>1
    DEF ProtocolInv, StepInv, CachedSuccessInv, ValidatedBeforeScaleUp
<1>8. CASE UserNext /\ UNCHANGED <<restore, job, cache>>
  BY <1>8, ProtocolFrame
<1>9. CASE UserNext
  BY <1>6, <1>7, <1>8, <1>9
  DEF UserNext, UserScale, UserPause, UserBackup, DeleteDB, DeleteWorkload,
      EvictPod, WipeVolume
<1>10. ASSUME NEW r \in Restores, CollectRestore(r) PROVE ProtocolInv'
  <2>1. /\ restore[r].phase = "Deleted"
        /\ \A s \in Restores : s # r => job'[s] = job[s]
        /\ UNCHANGED <<restore, cache>>
    BY <1>10 DEF CollectRestore
  <2>. QED
    BY <1>1, <2>1
    DEF ProtocolInv, StepInv, CachedSuccessInv, ValidatedBeforeScaleUp
<1>11. CASE CollectConfigMap
  BY <1>11, ProtocolFrame DEF CollectConfigMap
<1>. QED
  BY <1>2, <1>3, <1>4, <1>5, <1>9, <1>10, <1>11 DEF ClusterNext, CollectorNext

(* ProtocolInv is an invariant when the restore controller reads its own    *)
(* resource up to date.                                                     *)
THEOREM ProtocolInvariant ==
  ASSUME "restore" \notin Lagging
  PROVE  Spec => [](TypeOK /\ ProtocolInv)
<1>1. ProtocolInv /\ TypeOK /\ [Next]_vars => ProtocolInv'
  <2>1. ProtocolInv /\ UNCHANGED vars => ProtocolInv'
    BY ProtocolFrame DEF vars
  <2>. QED
    BY <2>1, ProtocolInvRestore, ProtocolInvOthers DEF Next
<1>. QED
  BY <1>1, ProtocolInvInit, TypeCorrect, PTL DEF Spec

(* No restore scales its workload up, or reports Complete, without both a   *)
(* successful restore Job and a successful quick_check Job: for any number  *)
(* of restores, any lag of the Job informer, and every crash point.         *)
THEOREM ValidatedBeforeScaleUpHolds ==
  ASSUME "restore" \notin Lagging
  PROVE  Spec => []ValidatedBeforeScaleUp
<1>1. ProtocolInv => ValidatedBeforeScaleUp
  BY DEF ProtocolInv
<1>. QED
  BY <1>1, ProtocolInvariant, PTL

-----------------------------------------------------------------------------
(* Operator implements RestoreProtocol. *)

(* The steps of one restore are steps of the protocol. *)
LEMMA ProtocolSteps ==
  ASSUME NEW r \in Restores
  PROVE  \/ Protocol!GiveUp(r) \/ Protocol!Quiesce(r) \/ Protocol!Run(r)
         \/ Protocol!Accept(r) \/ Protocol!Approve(r) \/ Protocol!Finish(r)
         => Protocol!PNext
<1>1. Protocol!GiveUp(r) => Protocol!PNext
  BY Zenon DEF Protocol!PNext
<1>2. Protocol!Quiesce(r) => Protocol!PNext
  BY Zenon DEF Protocol!PNext
<1>3. Protocol!Run(r) => Protocol!PNext
  BY Zenon DEF Protocol!PNext
<1>4. Protocol!Accept(r) => Protocol!PNext
  BY Zenon DEF Protocol!PNext
<1>5. Protocol!Approve(r) => Protocol!PNext
  BY Zenon DEF Protocol!PNext
<1>6. Protocol!Finish(r) => Protocol!PNext
  BY Zenon DEF Protocol!PNext
<1>. QED
  BY <1>1, <1>2, <1>3, <1>4, <1>5, <1>6

(* Every call of a restore's Reconcile is a step of the protocol or none. *)
LEMMA RestoreSimulates ==
  ASSUME TypeOK, ProtocolInv, RestoreControllerNext
  PROVE  Protocol!PNext \/ UNCHANGED <<PhaseOf, job>>
<1>. USE DEF TypeOK, ClusterTypeOK, At, PhasesAt
<1>1. StepInv
  BY DEF ProtocolInv
<1>2. CASE UNCHANGED <<restore, job>>
  BY <1>2 DEF PhaseOf
<1>3. CASE CreateRestoreJob
  <2>1. rc.r \in Restores /\ restore[rc.r].phase \in {"ScalingDown", "Deleted"}
    BY <1>1, <1>3 DEF CreateRestoreJob, StepInv
  <2>2. CASE job[rc.r].restore = "none"
    <3>1. job' = [job EXCEPT ![rc.r].restore = "active"]
      BY <1>3, <2>1, <2>2 DEF CreateRestoreJob, CreateIfAbsent
    <3>2. Protocol!StartRestore(rc.r)
      BY <1>3, <2>1, <2>2, <3>1 DEF Protocol!StartRestore, CreateRestoreJob
    <3>. QED
      BY <2>1, <3>2 DEF Protocol!PNext
  <2>3. CASE job[rc.r].restore # "none"
    BY <1>3, <2>1, <2>3 DEF CreateRestoreJob, CreateIfAbsent, Jobs, PhaseOf
  <2>. QED
    BY <2>2, <2>3
<1>4. CASE CreateValidationJob
  <2>1. rc.r \in Restores /\ restore[rc.r].phase \in {"Validating", "Deleted"}
    BY <1>1, <1>4 DEF CreateValidationJob, StepInv
  <2>2. CASE job[rc.r].validate = "none"
    <3>1. job' = [job EXCEPT ![rc.r].validate = "active"]
      BY <1>4, <2>1, <2>2 DEF CreateValidationJob, CreateIfAbsent
    <3>2. Protocol!StartValidation(rc.r)
      BY <1>4, <2>1, <2>2, <3>1 DEF Protocol!StartValidation, CreateValidationJob
    <3>. QED
      BY <2>1, <3>2 DEF Protocol!PNext
  <2>3. CASE job[rc.r].validate # "none"
    BY <1>4, <2>1, <2>3 DEF CreateValidationJob, CreateIfAbsent, Jobs, PhaseOf
  <2>. QED
    BY <2>2, <2>3
<1>5. CASE WriteStatus
  <2>1. CASE restore[rc.r].phase \in Missing
    BY <1>5, <2>1 DEF WriteStatus, PhaseOf
  <2>2. CASE restore[rc.r].phase \notin Missing
    <3>. DEFINE phase == restore[rc.r].phase
    <3>1. /\ rc.r \in Restores /\ phase \in Active
          /\ NextFollows(phase, rc.next, job[rc.r])
      BY <1>1, <1>5, <2>2 DEF WriteStatus, StepInv, Missing
    <3>2. PhaseOf' = [PhaseOf EXCEPT ![rc.r] = rc.next]
      BY <1>5, <2>2, <3>1
      DEF WriteStatus, Status, PhaseOf, RestoreControllerTypeOK, RCState
    <3>3. PhaseOf[rc.r] = phase /\ job' = job
      BY <1>5, <3>1 DEF PhaseOf, WriteStatus
    <3>q. PICK q \in Restores : q = rc.r
      BY <3>1
    <3>4. ASSUME NEW from, NEW to, phase = from, rc.next = to
          PROVE  Protocol!Move(q, from, to)
      BY <3>2, <3>3, <3>4, <3>q DEF Protocol!Move, PhaseOf
    <3>5. \/ Protocol!GiveUp(q) \/ Protocol!Quiesce(q) \/ Protocol!Run(q)
          \/ Protocol!Accept(q) \/ Protocol!Approve(q) \/ Protocol!Finish(q)
      <4>1. CASE rc.next = "Failed"
        <5>1. phase \in {"New", "Pausing", "ScalingDown", "Running",
                         "Validating", "ScalingUp"}
          BY <3>1 DEF Active, Phases, Terminal, Missing
        <5>. QED
          BY <3>4, <4>1, <5>1 DEF Protocol!GiveUp
      <4>2. CASE phase = "New" /\ rc.next = "Pausing"
        BY <3>4, <4>2 DEF Protocol!Quiesce
      <4>3. CASE phase = "Pausing" /\ rc.next = "ScalingDown"
        BY <3>4, <4>3 DEF Protocol!Quiesce
      <4>4. CASE phase = "ScalingDown" /\ rc.next = "Running" /\ job[q].restore # "none"
        BY <3>4, <4>4 DEF Protocol!Run
      <4>5. CASE phase = "Running" /\ rc.next = "Validating" /\ job[q].restore = "complete"
        BY <3>4, <4>5 DEF Protocol!Accept
      <4>6. CASE phase = "Validating" /\ rc.next = "ScalingUp" /\ job[q].validate = "complete"
        BY <3>4, <4>6 DEF Protocol!Approve
      <4>7. CASE phase = "ScalingUp" /\ rc.next = "Complete"
        BY <3>4, <4>7 DEF Protocol!Finish
      <4>. QED
        BY <3>1, <3>q, <4>1, <4>2, <4>3, <4>4, <4>5, <4>6, <4>7 DEF NextFollows
    <3>. QED
      BY <3>5, ProtocolSteps, Zenon
  <2>. QED
    BY <2>1, <2>2
<1>. QED
  BY <1>2, <1>3, <1>4, <1>5
  DEF RestoreControllerNext, RestoreStep, RestoreFault, Reconcile,
      ReconcilePending, PendingPause, ReconcilePausing, PausingRepause,
      PausingScaleDown, ReconcileScalingDown, ReconcileRestoreConfig,
      ReconcileRunning, ReconcileValidating, ScalingUpSkip, ScalingUpResume,
      ScalingUpGate, ScalingUpScale, CleanupScale, CleanupResume,
      DBPatchRejected, CleanupPatchRejected, WorkloadPatchRejected,
      ReconcileInterrupted, CleanupCallFails, WorkloadReadFails, SourceReadFails

(* So is every step of the replica controller and of the cluster. *)
LEMMA OthersSimulate ==
  ASSUME TypeOK, ReplicaControllerNext \/ ClusterNext
  PROVE  Protocol!PNext \/ UNCHANGED <<PhaseOf, job>>
<1>. USE DEF TypeOK, ClusterTypeOK
<1>1. CASE UNCHANGED <<restore, job>>
  BY <1>1 DEF PhaseOf
<1>2. CASE ReplicaControllerNext
  BY <1>1, <1>2
  DEF ReplicaControllerNext, ReconcileReplica, ReplicaStep,
      ReconcileLitestreamConfig, ReconcileTargetAnnotation, UpdateStatus, UpdateStatusSeeing,
      ClearSkipArchiveCheck, ClearSkipPatch, ReplicaInterrupted
<1>3. CASE WorkloadNext
  BY <1>1, <1>3
  DEF WorkloadNext, CreatePod, DeletePod, PodGone, StartPod, BlockPod,
      RestartSidecar, Replicate
<1>4. CASE \E k \in Kinds : CacheSync(k)
  BY <1>1, <1>4 DEF CacheSync
<1>5. CASE JobNext
  <2>1. PICK r \in Restores, result \in {"complete", "failed"} :
          FinishRestoreJob(r, result) \/ FinishValidationJob(r, result)
    BY <1>5 DEF JobNext
  <2>2. Protocol!EndJob(r)
    BY <2>1 DEF FinishRestoreJob, FinishValidationJob, Protocol!EndJob
  <2>. QED
    BY <2>2 DEF Protocol!PNext
<1>6. ASSUME NEW r \in Restores, CreateRestore(r)
      PROVE  Protocol!PNext \/ UNCHANGED <<PhaseOf, job>>
  <2>1. Protocol!Create(r)
    BY <1>6 DEF CreateRestore, Protocol!Create, Protocol!Move, Restore
  <2>. QED
    BY <2>1 DEF Protocol!PNext
<1>7. ASSUME NEW r \in Restores, DeleteRestore(r)
      PROVE  Protocol!PNext \/ UNCHANGED <<PhaseOf, job>>
  <2>1. Protocol!Delete(r)
    BY <1>7 DEF DeleteRestore, Protocol!Delete, Missing, Restore
  <2>. QED
    BY <2>1 DEF Protocol!PNext
<1>8. CASE UserNext
  BY <1>1, <1>6, <1>7, <1>8
  DEF UserNext, UserScale, UserPause, UserBackup, DeleteDB, DeleteWorkload,
      EvictPod, WipeVolume
<1>9. ASSUME NEW r \in Restores, CollectRestore(r)
      PROVE  Protocol!PNext \/ UNCHANGED <<PhaseOf, job>>
  <2>1. Protocol!Collect(r)
    BY <1>9 DEF CollectRestore, NoJobs, Protocol!Collect
  <2>. QED
    BY <2>1 DEF Protocol!PNext
<1>10. CASE CollectConfigMap
  BY <1>1, <1>10 DEF CollectConfigMap
<1>. QED
  BY <1>2, <1>3, <1>4, <1>5, <1>8, <1>9, <1>10 DEF ClusterNext, CollectorNext

(* The operator keeps the restore protocol: phases in order, each entered   *)
(* on the Job result it stands for, and no way out of an ended restore but  *)
(* deletion.                                                                *)
THEOREM OperatorImplementsProtocol ==
  ASSUME "restore" \notin Lagging
  PROVE  Spec => RestoreProtocolKept
<1>1. Init => Protocol!PInit
  BY DEF Init, ClusterInit, NoJobs, Protocol!PInit
<1>2. TypeOK /\ ProtocolInv /\ [Next]_vars => [Protocol!PNext]_(Protocol!protocolVars)
  <2>1. UNCHANGED vars => UNCHANGED Protocol!protocolVars
    BY DEF vars, Protocol!protocolVars
  <2>2. UNCHANGED <<PhaseOf, job>> => UNCHANGED Protocol!protocolVars
    BY DEF PhaseOf, Protocol!protocolVars
  <2>. QED
    BY <2>1, <2>2, RestoreSimulates, OthersSimulate DEF Next
<1>. QED
  BY <1>1, <1>2, ProtocolInvariant, PTL
  DEF Spec, RestoreProtocolKept, Protocol!PSpec
=============================================================================
