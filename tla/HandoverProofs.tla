--------------------------- MODULE HandoverProofs ---------------------------
(***************************************************************************)
(* What a restore may rely on between its handlers and what it leaves      *)
(* behind: Jobs and phases agree (JobInv), a restore ends as its Jobs have *)
(* ended (OutcomeInv), the replica count it recorded is the one it found   *)
(* (CountInv), and replication is paused while its Jobs run (HeldInv).     *)
(***************************************************************************)
EXTENDS ProtocolProofs

USE DEF clusterVars, apiVars

(* The Jobs of a restore follow its phase. *)
JobPhase(r) ==
  /\ restore[r].phase \in {"Absent", "New", "Pausing"} => job[r].restore = "none"
  /\ restore[r].phase = "Running" => job[r].restore # "none"
  /\ restore[r].phase \in {"Absent", "New", "Pausing", "ScalingDown", "Running"} =>
       job[r].validate = "none"
  /\ restore[r].phase # "Deleted" /\ job[r].validate # "none" =>
       job[r].restore = "complete"

(* The Job whose failure the clean-up answers to. *)
JobFailed(r) ==
  \/ restore[r].phase = "Deleted"
  \/ restore[r].phase = "Running" /\ job[r].restore = "failed"
  \/ restore[r].phase = "Validating" /\ job[r].validate = "failed"

Cleaning == rc.step \in {"cleanupScale", "cleanupResume"}

JobInv ==
  /\ \A r \in Restores : JobPhase(r)
  /\ Cleaning => JobFailed(rc.r)

-----------------------------------------------------------------------------
(* The source stays usable and can be read, so a restore fails only where   *)
(* failRestoreWithCleanup is called.                                        *)
SourceKept ==
  /\ "job" \notin Lagging
  /\ Events \cap {"disable", "deleteDB"} = {}
  /\ "read" \notin Faults

Usable(d) == d.exists /\ d.backup

BothDone(jobs) == jobs.restore = "complete" /\ jobs.validate = "complete"
OneFailed(jobs) == jobs.restore = "failed" \/ jobs.validate = "failed"

(* What a phase, stored or cached, says of the Jobs. *)
Stands(phase, jobs) ==
  /\ phase = "Running" => jobs.restore # "none"
  /\ phase = "Validating" => jobs.restore = "complete"
  /\ phase \in {"ScalingUp", "Complete"} => BothDone(jobs)
  /\ phase = "Failed" => OneFailed(jobs)

(* What the step of a Reconcile says of the Jobs: the copy of the restore   *)
(* it began with may be old, but what was true of the Jobs then still is.   *)
StepStands(jobs) ==
  /\ rc.step = "running" => jobs.restore # "none"
  /\ rc.step \in {"validating", "createValidation"} => jobs.restore = "complete"
  /\ rc.step \in {"skip", "resume", "gate", "scaleUp"} => BothDone(jobs)
  /\ Cleaning => OneFailed(jobs)
  /\ rc.step = "status" => Stands(rc.next, jobs)

Outcome(r) ==
  /\ job[r].validate # "none" => job[r].restore = "complete"
  /\ Stands(restore[r].phase, job[r])
  /\ Stands(cache.restore[r].phase, job[r])
  /\ rc.r = r => StepStands(job[r])

OutcomeInv ==
  /\ Usable(db) /\ Usable(cache.db)
  /\ rc.step # "idle" => rc.r \in Restores
  /\ \A r \in Restores : restore[r].phase # "Deleted" => Outcome(r)

-----------------------------------------------------------------------------
(* Nobody but the one restore changes the replica count of the workload.    *)
SoleScaler ==
  /\ \A r, s \in Restores : r = s
  /\ "restore" \notin Lagging
  /\ Events \cap {"scale", "deleteWorkload"} = {}

Original(w) == w.exists /\ w.spec \in InitReplicas

CountInv ==
  /\ OriginalReplicasFaithful
  /\ \A r \in Restores : restore[r].phase \in {"Absent", "New"} =>
       Original(workload) /\ Original(cache.workload)
  /\ rc.step # "idle" /\ restore[rc.r].phase # "Deleted" =>
       rc.recorded \in InitReplicas \cup {Nil}

-----------------------------------------------------------------------------
(* Nobody but the one restore takes the pause annotation away.              *)
SoleResumer ==
  /\ \A r, s \in Restores : r = s
  /\ Lagging \cap {"restore", "job"} = {}
  /\ Events \cap {"unpause", "deleteDB", "deleteRestore"} = {}

(* The Jobs of the restore have ended, it will create no other, and it may  *)
(* resume replication.                                                      *)
JobsOver(r) ==
  \/ job[r].restore = "failed" \/ job[r].validate = "failed"
  \/ job[r].validate = "complete" /\ restore[r].phase # "Validating"

(* Until then the pause spreads and never shrinks: from the annotation to   *)
(* the copies read of it, and from those to the ConfigMap.                  *)
PauseSpreads ==
  /\ cache.db.pause => db.pause
  /\ rc.step # "idle" /\ rc.paused => db.pause
  /\ lc.step # "idle" /\ lc.pause => GetDB.pause
  /\ cm = "paused" => GetDB.pause
  /\ cm = "paused" /\ lc.step # "idle" => lc.pause
  /\ cache.cm = "paused" => cm = "paused"

(* The restore has seen the paused ConfigMap. *)
PauseSeen(r) ==
  \/ restore[r].phase \in {"ScalingDown", "Running", "Validating"}
  \/ rc.step = "scaleDown"
  \/ rc.step = "status" /\ rc.next = "ScalingDown"
  \/ JobActive(r)

Held(r) ==
  /\ PauseSpreads
  /\ PauseSeen(r) => cm = "paused" /\ GetConfigMap = "paused"
  /\ rc.step = "createJob" \/ job[r].restore # "none" => restoreCM[r]

HeldInv ==
  /\ db.exists
  /\ \A r \in Restores :
       /\ restore[r].phase # "Deleted"
       /\ IF JobsOver(r) THEN ~JobActive(r) ELSE Held(r)

-----------------------------------------------------------------------------
(* Which call writes what, and where a Reconcile comes from.                *)

Begins == \E r \in Restores : Reconcile(r) \/ SourceReadFails(r)

(* How the calls of a Reconcile move on. *)
LEMMA RCMoves ==
  ASSUME rc \in RCState
  PROVE  /\ Return => rc'.step = "idle"
         /\ \A step : Goto(step) =>
              /\ rc'.step = step /\ rc'.next = rc.next /\ rc'.r = rc.r
              /\ rc'.paused = rc.paused /\ rc'.recorded = rc.recorded
         /\ \A phase : SetStatus(phase) =>
              /\ rc'.step = "status" /\ rc'.next = phase /\ rc'.r = rc.r
              /\ rc'.paused = rc.paused /\ rc'.recorded = rc.recorded
<1>1. Return => rc'.step = "idle"
  BY DEF Return, Idle
<1>2. ASSUME NEW step, Goto(step)
      PROVE  /\ rc'.step = step /\ rc'.next = rc.next /\ rc'.r = rc.r
             /\ rc'.paused = rc.paused /\ rc'.recorded = rc.recorded
  BY <1>2 DEF RCState, Goto
<1>3. ASSUME NEW phase, SetStatus(phase)
      PROVE  /\ rc'.step = "status" /\ rc'.next = phase /\ rc'.r = rc.r
             /\ rc'.paused = rc.paused /\ rc'.recorded = rc.recorded
  BY <1>3 DEF RCState, SetStatus
<1>. QED
  BY <1>1, <1>2, <1>3

(* Every variable of the cluster has few writers in the restore controller. *)
LEMMA Writers ==
  ASSUME RestoreControllerNext
  PROVE  /\ UNCHANGED <<cm, pods, volume, cache, events>>
         /\ UNCHANGED restore \/ WriteStatus
         /\ UNCHANGED job \/ CreateRestoreJob \/ CreateValidationJob
         /\ UNCHANGED restoreCM \/ ReconcileRestoreConfig
         /\ UNCHANGED workload \/ PausingScaleDown \/ ScalingUpScale \/ CleanupScale
         /\ \/ UNCHANGED db \/ PendingPause \/ PausingRepause \/ ScalingUpSkip
            \/ ScalingUpResume \/ CleanupResume
  BY DEF RestoreControllerNext, RestoreStep, RestoreFault, Reconcile, ReconcilePending,
         PendingPause, ReconcilePausing, PausingRepause, PausingScaleDown,
         ReconcileScalingDown, ReconcileRestoreConfig, CreateRestoreJob, ReconcileRunning,
         ReconcileValidating, CreateValidationJob, ScalingUpSkip, ScalingUpResume,
         ScalingUpGate, ScalingUpScale, CleanupScale, CleanupResume, WriteStatus,
         DBPatchRejected, CleanupPatchRejected, WorkloadPatchRejected,
         ReconcileInterrupted, CleanupCallFails, SourceReadFails, WorkloadReadFails

(* A Reconcile begins with the handler of the phase it has read, or with    *)
(* the decision to fail.                                                    *)
LEMMA Beginning ==
  ASSUME TypeOK, NEW r \in Restores, Reconcile(r) \/ SourceReadFails(r)
  PROVE  /\ rc.step = "idle"
         /\ rc'.r = r /\ rc'.recorded = Nil
         /\ rc'.paused => GetDB.pause
         /\ rc'.step \in {"pending", "pausing", "scalingDown", "running", "validating",
                          "skip", "status"}
         /\ rc'.next \in {"Absent", "Failed"}
<1>1. GetRestore(r) \in Restore
  BY ReadTypes DEF TypeOK
<1>2. GetRestore(r).phase \in Phases \ (Missing \cup Terminal)
  BY <1>1 DEF Reconcile, SourceReadFails, Restore
<1>. QED
  BY <1>2 DEF Reconcile, SourceReadFails, Handler, Phases, Missing, Terminal, At

(* Where the steps come from at which a Reconcile acts on what it has seen. *)
LEMMA Arrivals ==
  ASSUME TypeOK, RestoreControllerNext, ~Begins, rc'.step # "idle"
  PROVE  /\ rc.step # "idle"
         /\ rc'.r = rc.r /\ rc'.paused = rc.paused
         /\ rc'.recorded = rc.recorded \/ ReconcilePending
         /\ rc'.step = "createJob" => ReconcileRestoreConfig
         /\ rc'.step = "scaleDown" => ReconcilePausing
         /\ rc'.step = "status" /\ rc'.next = "ScalingDown" => PausingScaleDown
         /\ Cleaning' => Cleaning \/ ReconcileRunning \/ ReconcileValidating
         /\ rc'.step = "status" /\ rc'.next = "Failed" => Cleaning \/ WorkloadReadFails
<1>. USE DEF At, Cleaning
<1>1. rc \in RCState
  BY DEF TypeOK, RestoreControllerTypeOK
<1>2. CASE ReconcilePending
  BY <1>1, <1>2 DEF ReconcilePending, RCState
<1>3. CASE ReconcileRestoreConfig \/ ReconcilePausing \/ PausingScaleDown
  BY <1>1, <1>3, RCMoves DEF ReconcileRestoreConfig, ReconcilePausing, PausingScaleDown
<1>4. CASE PendingPause \/ PausingRepause \/ ReconcileScalingDown \/ CreateRestoreJob
           \/ ReconcileRunning \/ ReconcileValidating \/ CreateValidationJob
  BY <1>1, <1>4, RCMoves
  DEF PendingPause, PausingRepause, ReconcileScalingDown, CreateRestoreJob,
      ReconcileRunning, ReconcileValidating, CreateValidationJob, FailRestoreWithCleanup
<1>5. CASE ScalingUpSkip \/ ScalingUpResume \/ ScalingUpGate \/ ScalingUpScale
           \/ WriteStatus \/ DBPatchRejected \/ ReconcileInterrupted
  BY <1>1, <1>5, RCMoves
  DEF ScalingUpSkip, ScalingUpResume, ScalingUpGate, ScalingUpScale, WriteStatus,
      DBPatchRejected, ReconcileInterrupted
<1>6. CASE CleanupScale \/ CleanupResume \/ CleanupPatchRejected \/ CleanupCallFails
           \/ WorkloadPatchRejected \/ WorkloadReadFails
  BY <1>1, <1>6, RCMoves
  DEF CleanupScale, CleanupResume, CleanupPatchRejected, CleanupCallFails,
      WorkloadPatchRejected, WorkloadReadFails, FailRestore
<1>. QED
  BY <1>2, <1>3, <1>4, <1>5, <1>6
  DEF RestoreControllerNext, RestoreStep, RestoreFault, Begins

-----------------------------------------------------------------------------
(* Jobs and phases agree. *)

(* What the invariant speaks of is untouched. *)
LEMMA JobFrame ==
  ASSUME JobInv, UNCHANGED <<restore, job, rc>>
  PROVE  JobInv'
  BY DEF JobInv, JobPhase, JobFailed, Cleaning

(* A restore that does not exist yet has no Jobs. *)
LEMMA JobInvInit == Init => JobInv
  BY DEF Init, ClusterInit, RestoreControllerInit, Idle, NoJobs, JobInv, JobPhase, Cleaning

(* Each call of a restore's Reconcile keeps Jobs and phases in agreement. *)
LEMMA JobInvRestore ==
  ASSUME TypeOK, ProtocolInv, JobInv, RestoreControllerNext,
         Lagging \cap {"restore", "job"} = {}
  PROVE  JobInv'
<1>. USE DEF At
<1>1. /\ rc \in RCState /\ restore \in [Restores -> Restore]
      /\ job \in [Restores -> Jobs]
  BY DEF TypeOK, ClusterTypeOK, RestoreControllerTypeOK
<1>2. StepInv /\ ValidatedBeforeScaleUp
  BY DEF ProtocolInv
<1>3. ASSUME NEW r \in Restores PROVE JobPhase(r)'
  <2>1. JobPhase(r)
    BY DEF JobInv
  <2>2. CASE UNCHANGED <<restore, job>>
    BY <2>1, <2>2 DEF JobPhase
  <2>3. CASE WriteStatus
    <3>1. UNCHANGED job
      BY <2>3 DEF WriteStatus
    <3>2. CASE r # rc.r \/ restore[rc.r].phase \in Missing
      BY <1>1, <2>1, <2>3, <3>1, <3>2 DEF WriteStatus, JobPhase
    <3>3. CASE r = rc.r /\ restore[rc.r].phase \notin Missing
      <4>1. restore'[r].phase = rc.next
        BY <1>1, <2>3, <3>3 DEF WriteStatus, Status
      <4>2. NextFollows(restore[r].phase, rc.next, job[r])
        BY <1>2, <2>3, <3>3 DEF WriteStatus, StepInv, Missing
      <4>. QED
        BY <2>1, <3>1, <3>3, <4>1, <4>2 DEF JobPhase, NextFollows, Missing
    <3>. QED
      BY <3>2, <3>3
  <2>4. CASE CreateRestoreJob
    <3>1. /\ UNCHANGED restore
          /\ r # rc.r => job'[r] = job[r]
          /\ r = rc.r => /\ job'[r].restore = CreateIfAbsent(job[r].restore)
                         /\ job'[r].validate = job[r].validate
      BY <1>1, <2>4 DEF CreateRestoreJob, Jobs
    <3>2. r = rc.r => restore[r].phase \in {"ScalingDown", "Deleted"}
      BY <1>2, <2>4 DEF CreateRestoreJob, StepInv, PhasesAt
    <3>. QED
      BY <2>1, <3>1, <3>2 DEF JobPhase, CreateIfAbsent
  <2>5. CASE CreateValidationJob
    <3>1. /\ UNCHANGED restore
          /\ r # rc.r => job'[r] = job[r]
          /\ r = rc.r => job'[r].restore = job[r].restore
      BY <1>1, <2>5 DEF CreateValidationJob, Jobs
    <3>2. r = rc.r => restore[r].phase \in {"Validating", "Deleted"}
      BY <1>2, <2>5 DEF CreateValidationJob, StepInv, PhasesAt
    <3>. QED
      BY <1>2, <2>1, <3>1, <3>2 DEF JobPhase, ValidatedBeforeScaleUp
  <2>. QED
    BY <2>2, <2>3, <2>4, <2>5, Writers
    DEF WriteStatus, CreateRestoreJob, CreateValidationJob
<1>4. ASSUME Cleaning' PROVE JobFailed(rc.r)'
  <2>1. ~Begins
    BY <1>4, Beginning DEF Begins, Cleaning
  <2>2. rc'.r = rc.r /\ (Cleaning \/ ReconcileRunning \/ ReconcileValidating)
    BY <1>4, <2>1, Arrivals DEF Cleaning
  <2>3. UNCHANGED <<restore, job>>
    BY <2>2, Writers
    DEF Cleaning, ReconcileRunning, ReconcileValidating, WriteStatus, CreateRestoreJob,
        CreateValidationJob
  <2>4. CASE Cleaning
    BY <2>2, <2>3, <2>4 DEF JobInv, JobFailed
  <2>5. CASE ReconcileRunning
    <3>1. rc.r \in Restores /\ restore[rc.r].phase \in {"Running", "Deleted"}
      BY <1>2, <2>5 DEF ReconcileRunning, StepInv, PhasesAt
    <3>2. job[rc.r].restore \in {"none", "failed"}
      BY <1>1, <1>4, <2>5, RCMoves DEF ReconcileRunning, GetJobs, Cleaning
    <3>. QED
      BY <2>2, <2>3, <3>1, <3>2 DEF JobInv, JobPhase, JobFailed
  <2>6. CASE ReconcileValidating
    <3>1. rc.r \in Restores /\ restore[rc.r].phase \in {"Validating", "Deleted"}
      BY <1>2, <2>6 DEF ReconcileValidating, StepInv, PhasesAt
    <3>2. job[rc.r].validate = "failed"
      BY <1>1, <1>4, <2>6, RCMoves DEF ReconcileValidating, GetJobs, Cleaning
    <3>. QED
      BY <2>2, <2>3, <3>1, <3>2 DEF JobFailed
  <2>. QED
    BY <2>2, <2>4, <2>5, <2>6
<1>. QED
  BY <1>3, <1>4 DEF JobInv

(* Nobody else changes a Job or a phase, except the Job controller, users   *)
(* who create and delete restores, and the garbage collector.               *)
LEMMA OthersWrite ==
  ASSUME ReplicaControllerNext \/ ClusterNext
  PROVE  /\ \/ UNCHANGED <<restore, job>> \/ JobNext
            \/ \E r \in Restores : CreateRestore(r) \/ DeleteRestore(r) \/ CollectRestore(r)
<1>1. CASE ReplicaControllerNext
  BY <1>1 DEF ReplicaControllerNext, ReconcileReplica, ReplicaStep,
      ReconcileLitestreamConfig, ReconcileTargetAnnotation, UpdateStatus, UpdateStatusSeeing,
      ClearSkipArchiveCheck, ClearSkipPatch, ReplicaInterrupted
<1>2. CASE ClusterNext
  BY <1>2 DEF ClusterNext, WorkloadNext, CreatePod, DeletePod, PodGone, StartPod, BlockPod,
      RestartSidecar, Replicate, UserNext, UserScale, UserPause, UserBackup, DeleteDB,
      DeleteWorkload, EvictPod, WipeVolume, CollectorNext, CollectConfigMap, CacheSync
<1>. QED
  BY <1>1, <1>2

(* An informer delivers what the API server has, and nothing else writes    *)
(* the caches.                                                              *)
LEMMA OthersCache ==
  ASSUME TypeOK, ReplicaControllerNext \/ ClusterNext
  PROVE  /\ cache'.db = cache.db \/ cache'.db = db
         /\ cache'.cm = cache.cm \/ cache'.cm = cm
         /\ cache'.restore = cache.restore \/ cache'.restore = restore
         /\ cache'.workload = cache.workload \/ cache'.workload = WorkloadObject
         /\ UNCHANGED cache \/ UNCHANGED apiVars
<1>1. CASE \E k \in Kinds : CacheSync(k)
  BY <1>1 DEF CacheSync, Kinds, TypeOK, ClusterTypeOK, Cache
<1>2. CASE ReplicaControllerNext
  BY <1>2
  DEF ReplicaControllerNext, ReconcileReplica, ReplicaStep, ReconcileLitestreamConfig,
      ReconcileTargetAnnotation, UpdateStatus, UpdateStatusSeeing,
      ClearSkipArchiveCheck, ClearSkipPatch, ReplicaInterrupted
<1>3. CASE ClusterNext /\ ~\E k \in Kinds : CacheSync(k)
  BY <1>3
  DEF ClusterNext, WorkloadNext, JobNext, FinishRestoreJob, FinishValidationJob,
      CreatePod, DeletePod, PodGone, StartPod, BlockPod, RestartSidecar, Replicate,
      UserNext, CreateRestore, DeleteRestore, UserScale, UserPause, UserBackup,
      DeleteDB, DeleteWorkload, EvictPod, WipeVolume, CollectorNext, CollectRestore,
      CollectConfigMap
<1>. QED
  BY <1>1, <1>2, <1>3

(* What the Job controller changes. *)
LEMMA JobEnds ==
  ASSUME TypeOK, JobNext
  PROVE  /\ UNCHANGED <<db, cm, workload, pods, restore, restoreCM, cache, events, faults>>
         /\ \E r \in Restores, result \in {"complete", "failed"} :
              /\ \A s \in Restores : s # r => job'[s] = job[s]
              /\ \/ /\ job[r].restore = "active" /\ job'[r].restore = result
                    /\ job'[r].validate = job[r].validate
                 \/ /\ job[r].validate = "active" /\ job'[r].validate = result
                    /\ job'[r].restore = job[r].restore
  BY DEF TypeOK, ClusterTypeOK, JobNext, FinishRestoreJob, FinishValidationJob, Jobs

(* The other actors keep Jobs and phases in agreement. *)
LEMMA JobInvOthers ==
  ASSUME TypeOK, ProtocolInv, JobInv, UNCHANGED rc, ReplicaControllerNext \/ ClusterNext
  PROVE  JobInv'
<1>. USE DEF TypeOK, ClusterTypeOK
<1>0. Cleaning => rc.r \in Restores
  BY DEF Cleaning, ProtocolInv, StepInv
<1>1. CASE UNCHANGED <<restore, job>>
  BY <1>1, JobFrame
<1>2. CASE JobNext
  BY <1>0, <1>2, JobEnds DEF JobInv, JobPhase, JobFailed, Cleaning
<1>3. ASSUME NEW r \in Restores, CreateRestore(r) PROVE JobInv'
  <2>1. /\ restore[r].phase = "Absent" /\ restore'[r].phase = "New"
        /\ \A s \in Restores : s # r => restore'[s] = restore[s]
        /\ UNCHANGED job
    BY <1>3 DEF CreateRestore, Restore
  <2>2. Cleaning => rc.r # r
    BY <2>1 DEF JobInv, JobFailed
  <2>. QED
    BY <1>0, <2>1, <2>2 DEF JobInv, JobPhase, JobFailed, Cleaning
<1>4. ASSUME NEW r \in Restores, DeleteRestore(r) PROVE JobInv'
  <2>1. /\ restore'[r].phase = "Deleted"
        /\ \A s \in Restores : s # r => restore'[s] = restore[s]
        /\ UNCHANGED job
    BY <1>4 DEF DeleteRestore, Restore
  <2>. QED
    BY <1>0, <2>1 DEF JobInv, JobPhase, JobFailed, Cleaning
<1>5. ASSUME NEW r \in Restores, CollectRestore(r) PROVE JobInv'
  <2>1. /\ restore[r].phase = "Deleted" /\ UNCHANGED restore
        /\ \A s \in Restores : s # r => job'[s] = job[s]
    BY <1>5 DEF CollectRestore
  <2>. QED
    BY <1>0, <2>1 DEF JobInv, JobPhase, JobFailed, Cleaning
<1>. QED
  BY <1>1, <1>2, <1>3, <1>4, <1>5, OthersWrite

(* Jobs and phases agree, whoever else runs, whatever fails.  The restore   *)
(* Job exists in Running, the validation Job is created only after it, and  *)
(* failRestoreWithCleanup runs only for a Job that failed: a Job that is    *)
(* not found is met only where the cache of the Jobs lags.                  *)
THEOREM JobInvariant ==
  ASSUME Lagging \cap {"restore", "job"} = {}
  PROVE  Spec => [](TypeOK /\ ProtocolInv /\ JobInv)
<1>1. TypeOK /\ ProtocolInv /\ JobInv /\ [Next]_vars => JobInv'
  <2>1. JobInv /\ UNCHANGED vars => JobInv'
    BY JobFrame DEF vars
  <2>. QED
    BY <2>1, JobInvRestore, JobInvOthers DEF Next
<1>2. Spec => [](TypeOK /\ ProtocolInv)
  BY ProtocolInvariant
<1>. QED
  BY <1>1, <1>2, JobInvInit, PTL DEF Spec

-----------------------------------------------------------------------------
(* A restore ends as its Jobs have ended. *)

(* The source is usable at the start, and nothing has ended. *)
LEMMA OutcomeInvInit == Init => OutcomeInv
  BY DEF Init, ClusterInit, RestoreControllerInit, Idle, NoJobs, OutcomeInv, Usable,
         Outcome, Stands, StepStands, Cleaning

(* No patch of an annotation makes the source unusable. *)
LEMMA PatchesKeepUsable ==
  ASSUME TypeOK, Usable(db),
         UNCHANGED db \/ \E b \in BOOLEAN : SetPause(b) \/ SetSkip(b)
  PROVE  Usable(db)'
  BY DEF TypeOK, ClusterTypeOK, DBState, SetPause, SetSkip, Usable

(* What has become true of Jobs stays true as they progress from none to    *)
(* active and from there to their end.                                      *)
Progress(jobs, later) ==
  /\ \/ later.restore = jobs.restore \/ jobs.restore = "none"
     \/ jobs.restore = "active" /\ later.restore # "none"
  /\ later.validate = jobs.validate \/ jobs.validate \in {"none", "active"}

LEMMA StandsOn ==
  ASSUME NEW jobs, NEW later, Progress(jobs, later)
  PROVE  /\ (jobs.restore # "none" => later.restore # "none")
         /\ (jobs.restore = "complete" => later.restore = "complete")
         /\ BothDone(jobs) => BothDone(later)
         /\ OneFailed(jobs) => OneFailed(later)
         /\ \A phase : Stands(phase, jobs) => Stands(phase, later)
  BY DEF Progress, Stands, BothDone, OneFailed

(* Where a Reconcile that can read a usable source goes from each step.     *)
LEMMA StepOutcome ==
  ASSUME TypeOK, OutcomeInv, RestoreControllerNext, SourceKept,
         NEW r \in Restores, restore[r].phase # "Deleted", rc'.r = r
  PROVE  StepStands(job[r])' \/ CreateRestoreJob
<1>. USE DEF At
<1>1. /\ rc \in RCState /\ job \in [Restores -> Jobs]
  BY DEF TypeOK, ClusterTypeOK, RestoreControllerTypeOK
<1>2. Outcome(r)
  BY DEF OutcomeInv
<1>. DEFINE Goal == StepStands(job[r])'
<1>3. CASE Begins
  <2>1. \A s \in Restores : ~SourceReadFails(s)
    BY DEF SourceReadFails, SourceKept, Fails
  <2>2. GetDB.exists /\ GetDB.backup
    BY DEF OutcomeInv, Usable, GetDB
  <2>3. Reconcile(r)
    BY <1>3, <2>1, Beginning DEF Begins
  <2>4. /\ GetRestore(r).phase \in Phases \ (Missing \cup Terminal)
        /\ rc'.step = Handler(GetRestore(r).phase) /\ UNCHANGED job
    BY <2>2, <2>3, ReadTypes DEF Reconcile, TypeOK, Restore
  <2>5. Stands(GetRestore(r).phase, job[r])
    BY <1>2 DEF Outcome, GetRestore
  <2>. QED
    BY <2>4, <2>5 DEF Handler, Phases, Missing, Terminal, Stands, StepStands, Cleaning
<1>4. CASE rc'.step = "idle"
  BY <1>4 DEF StepStands, Cleaning
<1>5. CASE ~Begins /\ rc'.step # "idle"
  <2>1. rc.r = r /\ rc.step # "idle" /\ StepStands(job[r])
    BY <1>2, <1>5, Arrivals DEF Outcome
  <2>2. CASE ReconcilePending
    BY <1>1, <2>2 DEF ReconcilePending, RCState, StepStands, Cleaning
  <2>3. CASE PendingPause \/ ReconcilePausing \/ PausingRepause \/ PausingScaleDown
             \/ ReconcileScalingDown \/ ReconcileRestoreConfig
    BY <1>1, <2>3, RCMoves
    DEF PendingPause, ReconcilePausing, PausingRepause, PausingScaleDown,
        ReconcileScalingDown, ReconcileRestoreConfig, StepStands, Stands, Cleaning
  <2>4. CASE ReconcileRunning
    <3>1. GetJobs(r) = job[r] /\ UNCHANGED job /\ job[r].restore # "none"
      BY <2>1, <2>4 DEF ReconcileRunning, GetJobs, SourceKept, StepStands
    <3>. QED
      BY <1>1, <2>1, <2>4, <3>1, RCMoves
      DEF ReconcileRunning, FailRestoreWithCleanup, StepStands, Stands, OneFailed, Cleaning
  <2>5. CASE ReconcileValidating
    <3>1. GetJobs(r) = job[r] /\ UNCHANGED job /\ job[r].restore = "complete"
      BY <2>1, <2>5 DEF ReconcileValidating, GetJobs, SourceKept, StepStands
    <3>. QED
      BY <1>1, <2>1, <2>5, <3>1, RCMoves
      DEF ReconcileValidating, FailRestoreWithCleanup, StepStands, Stands, OneFailed,
          BothDone, Cleaning
  <2>6. CASE CreateValidationJob
    BY <1>1, <1>5, <2>6, RCMoves DEF CreateValidationJob
  <2>7. CASE ScalingUpSkip \/ ScalingUpResume \/ ScalingUpGate \/ ScalingUpScale
    BY <1>1, <2>1, <2>7, RCMoves
    DEF ScalingUpSkip, ScalingUpResume, ScalingUpGate, ScalingUpScale, StepStands, Stands,
        Cleaning
  <2>8. CASE WriteStatus \/ DBPatchRejected \/ ReconcileInterrupted
    BY <1>1, <1>5, <2>8, RCMoves DEF WriteStatus, DBPatchRejected, ReconcileInterrupted
  <2>9. CASE CleanupScale \/ CleanupResume \/ CleanupPatchRejected \/ CleanupCallFails
             \/ WorkloadPatchRejected
    BY <1>1, <1>5, <2>1, <2>9, RCMoves
    DEF CleanupScale, CleanupResume, CleanupPatchRejected, CleanupCallFails,
        WorkloadPatchRejected, StepStands, Stands, Cleaning
  <2>10. ~WorkloadReadFails
    BY DEF WorkloadReadFails, Fails, SourceKept
  <2>. QED
    BY <1>5, <2>2, <2>3, <2>4, <2>5, <2>6, <2>7, <2>8, <2>9, <2>10
    DEF RestoreControllerNext, RestoreStep, RestoreFault, Begins
<1>. QED
  BY <1>3, <1>4, <1>5

(* The restore controller creates a Job only in its turn and writes what    *)
(* the Jobs have shown.                                                     *)
LEMMA OutcomeInvRestore ==
  ASSUME TypeOK, OutcomeInv, RestoreControllerNext, SourceKept
  PROVE  OutcomeInv'
<1>. USE DEF At
<1>1. /\ rc \in RCState /\ restore \in [Restores -> Restore]
      /\ job \in [Restores -> Jobs]
  BY DEF TypeOK, ClusterTypeOK, RestoreControllerTypeOK
<1>2. Usable(db)' /\ Usable(cache.db)'
  <2>1. UNCHANGED db \/ \E b \in BOOLEAN : SetPause(b) \/ SetSkip(b)
    BY Writers
    DEF PendingPause, PausingRepause, ScalingUpSkip, ScalingUpResume, CleanupResume,
        PauseReplication, ResumeReplication, SetSkipArchiveCheck
  <2>2. Usable(db)'
    BY <2>1, PatchesKeepUsable DEF OutcomeInv
  <2>3. Usable(cache.db)'
    BY Writers DEF OutcomeInv, Usable
  <2>. QED
    BY <2>2, <2>3
<1>3. rc'.step # "idle" => rc'.r \in Restores
  BY Beginning, Arrivals DEF Begins, OutcomeInv
<1>4. ASSUME NEW r \in Restores, restore'[r].phase # "Deleted" PROVE Outcome(r)'
  <2>1. /\ restore[r].phase # "Deleted"
        /\ \/ restore'[r].phase = restore[r].phase
           \/ WriteStatus /\ rc.r = r /\ restore'[r].phase = rc.next
    <3>1. CASE WriteStatus
      BY <1>1, <1>4, <3>1 DEF WriteStatus, Status, Missing
    <3>. QED
      BY <1>4, <3>1, Writers
  <2>2. Outcome(r)
    BY <2>1 DEF OutcomeInv
  <2>3. \/ job'[r] = job[r]
        \/ /\ CreateRestoreJob /\ rc.r = r
           /\ job'[r].restore = CreateIfAbsent(job[r].restore)
           /\ job'[r].validate = job[r].validate
        \/ /\ CreateValidationJob /\ rc.r = r
           /\ job'[r].validate = CreateIfAbsent(job[r].validate)
           /\ job'[r].restore = job[r].restore
    <3>1. CASE CreateRestoreJob
      BY <1>1, <3>1 DEF CreateRestoreJob, Jobs
    <3>2. CASE CreateValidationJob
      BY <1>1, <3>2 DEF CreateValidationJob, Jobs
    <3>. QED
      BY <3>1, <3>2, Writers
  <2>4. job'[r].validate # "none" => job'[r].restore = "complete"
    BY <2>2, <2>3 DEF Outcome, CreateIfAbsent, CreateValidationJob, StepStands
  <2>5. \A phase : Stands(phase, job[r]) => Stands(phase, job'[r])
    <3>1. Progress(job[r], job'[r])
      BY <2>3 DEF Progress, CreateIfAbsent
    <3>. QED
      BY <3>1, StandsOn
  <2>6. Stands(restore'[r].phase, job'[r])
    BY <2>1, <2>2, <2>5 DEF Outcome, StepStands, WriteStatus
  <2>7. Stands(cache'.restore[r].phase, job'[r])
    BY <2>2, <2>5, Writers DEF Outcome
  <2>8. ASSUME rc'.r = r PROVE StepStands(job[r])'
    <3>1. CASE CreateRestoreJob
      <4>1. rc'.step = "status" /\ rc'.next = "Running" /\ rc.r = r
        BY <1>1, <2>8, <3>1, RCMoves DEF CreateRestoreJob
      <4>2. job'[r].restore # "none"
        BY <1>1, <3>1, <4>1 DEF CreateRestoreJob, CreateIfAbsent, Jobs
      <4>. QED
        BY <4>1, <4>2 DEF StepStands, Stands, Cleaning
    <3>. QED
      BY <2>1, <2>8, <3>1, StepOutcome
  <2>. QED
    BY <2>4, <2>6, <2>7, <2>8 DEF Outcome
<1>. QED
  BY <1>2, <1>3, <1>4 DEF OutcomeInv

(* The other actors keep the source, and no Job goes back. *)
LEMMA OutcomeInvOthers ==
  ASSUME TypeOK, OutcomeInv, UNCHANGED rc, SourceKept,
         ReplicaControllerNext \/ ClusterNext
  PROVE  OutcomeInv'
<1>. USE DEF TypeOK, ClusterTypeOK
<1>2. Usable(db)' /\ Usable(cache.db)'
  <2>1. UNCHANGED db \/ \E b \in BOOLEAN : SetPause(b) \/ SetSkip(b) \/ UserBackup(b)
    <3>1. CASE ReplicaControllerNext
      BY <3>1
      DEF ReplicaControllerNext, ReconcileReplica, ReplicaStep, ReconcileLitestreamConfig,
          ReconcileTargetAnnotation, UpdateStatus, UpdateStatusSeeing,
          ClearSkipArchiveCheck, ClearSkipPatch, ReplicaInterrupted
    <3>2. ~DeleteDB
      BY DEF DeleteDB, Happens, SourceKept
    <3>3. CASE ClusterNext
      BY <3>2, <3>3
      DEF ClusterNext, WorkloadNext, JobNext, FinishRestoreJob, FinishValidationJob,
          CreatePod, DeletePod, PodGone, StartPod, BlockPod, RestartSidecar, Replicate,
          UserNext, CreateRestore, DeleteRestore, UserScale, UserPause, DeleteWorkload,
          EvictPod, WipeVolume, CollectorNext, CollectRestore, CollectConfigMap, CacheSync
    <3>. QED
      BY <3>1, <3>3
  <2>2. ASSUME NEW b \in BOOLEAN, UserBackup(b) PROVE Usable(db)'
    BY <2>2 DEF UserBackup, Happens, SourceKept, OutcomeInv, Usable, DBState
  <2>3. Usable(db)'
    BY <2>1, <2>2, PatchesKeepUsable DEF OutcomeInv
  <2>4. cache'.db = cache.db \/ cache'.db = db
    BY OthersCache
  <2>. QED
    BY <2>3, <2>4 DEF OutcomeInv, Usable
<1>3. ASSUME NEW r \in Restores, restore'[r].phase # "Deleted" PROVE Outcome(r)'
  <2>1. /\ restore[r].phase # "Deleted"
        /\ restore'[r].phase \in {restore[r].phase, "New"}
        /\ \/ job'[r] = job[r]
           \/ /\ job[r].restore = "active"
              /\ job'[r].restore \in {"complete", "failed"}
              /\ job'[r].validate = job[r].validate
           \/ /\ job[r].validate = "active"
              /\ job'[r].validate \in {"complete", "failed"}
              /\ job'[r].restore = job[r].restore
    <3>1. CASE UNCHANGED <<restore, job>>
      BY <1>3, <3>1
    <3>2. CASE JobNext
      BY <1>3, <3>2, JobEnds
    <3>3. ASSUME NEW s \in Restores, CreateRestore(s) \/ DeleteRestore(s)
          PROVE  /\ UNCHANGED job
                 /\ restore[r].phase # "Deleted"
                 /\ restore'[r].phase \in {restore[r].phase, "New"}
      BY <1>3, <3>3 DEF CreateRestore, DeleteRestore, Restore
    <3>4. ASSUME NEW s \in Restores, CollectRestore(s)
          PROVE  job'[r] = job[r] /\ UNCHANGED restore
      BY <1>3, <3>4 DEF CollectRestore
    <3>. QED
      BY <1>3, <3>1, <3>2, <3>3, <3>4, OthersWrite
  <2>2. Outcome(r)
    BY <2>1 DEF OutcomeInv
  <2>3. /\ job[r].restore # "none" => job'[r].restore # "none"
        /\ job[r].restore = "complete" => job'[r].restore = "complete"
        /\ BothDone(job[r]) => BothDone(job'[r])
        /\ OneFailed(job[r]) => OneFailed(job'[r])
        /\ \A phase : Stands(phase, job[r]) => Stands(phase, job'[r])
    <3>1. Progress(job[r], job'[r])
      BY <2>1 DEF Progress
    <3>. QED
      BY <3>1, StandsOn
  <2>4. job'[r].validate # "none" => job'[r].restore = "complete"
    BY <2>1, <2>2 DEF Outcome
  <2>5. Stands(restore'[r].phase, job'[r]) /\ Stands(cache'.restore[r].phase, job'[r])
    <3>1. \/ cache'.restore[r].phase = cache.restore[r].phase
          \/ cache'.restore[r].phase = restore[r].phase
      BY OthersCache
    <3>2. Stands("New", job'[r])
      BY DEF Stands
    <3>. QED
      BY <2>1, <2>2, <2>3, <3>1, <3>2 DEF Outcome
  <2>6. rc'.r = r => StepStands(job[r])'
    BY <2>2, <2>3 DEF Outcome, StepStands, Cleaning
  <2>. QED
    BY <2>4, <2>5, <2>6 DEF Outcome
<1>. QED
  BY <1>2, <1>3 DEF OutcomeInv

(* A phase, stored or still in the cache, and a step of a Reconcile say of  *)
(* the Jobs only what has become true of them.                              *)
THEOREM OutcomeInvariant ==
  ASSUME SourceKept
  PROVE  Spec => []OutcomeInv
<1>1. TypeOK /\ OutcomeInv /\ [Next]_vars => OutcomeInv'
  <2>1. OutcomeInv /\ UNCHANGED vars => OutcomeInv'
    BY DEF vars, OutcomeInv, Usable, Outcome, Stands, StepStands, BothDone, OneFailed,
           Cleaning
  <2>. QED
    BY <2>1, OutcomeInvRestore, OutcomeInvOthers DEF Next
<1>. QED
  BY <1>1, TypeCorrect, OutcomeInvInit, PTL DEF Spec

(* Where the source of the restores stays usable and readable and the cache *)
(* of the Jobs does not lag, a restore is Complete only if both its Jobs    *)
(* succeeded and Failed only if one failed, for any number of restores at   *)
(* once and however old the copies of them are that the controller reads.   *)
THEOREM OutcomeEarnedHolds ==
  ASSUME SourceKept
  PROVE  Spec => []OutcomeEarned
<1>1. OutcomeInv => OutcomeEarned
  BY DEF OutcomeInv, OutcomeEarned, Outcome, Stands, BothDone, OneFailed
<1>. QED
  BY <1>1, OutcomeInvariant, PTL

(* completionTime "is when the restore Job finished": under the same        *)
(* conditions a restore that is Complete or Failed has neither Job running, *)
(* also when it is deleted, interrupted or loses its workload on the way.   *)
THEOREM EndedMeansJobsFinishedHolds ==
  ASSUME SourceKept
  PROVE  Spec => []EndedMeansJobsFinished
<1>1. OutcomeInv => EndedMeansJobsFinished
  BY DEF OutcomeInv, EndedMeansJobsFinished, Outcome, Stands, BothDone, OneFailed,
         Terminal, JobActive
<1>. QED
  BY <1>1, OutcomeInvariant, PTL

-----------------------------------------------------------------------------
(* The replica count a restore records is the one it found. *)

(* The workload has its initial count before the restore begins. *)
LEMMA CountInvInit == Init => CountInv
<1>. SUFFICES ASSUME Init PROVE CountInv
  OBVIOUS
<1>1. workload.exists = TRUE /\ workload.spec \in InitReplicas
  BY DEF Init, ClusterInit
<1>2. cache.workload = WorkloadObject /\ Original(WorkloadObject)
  BY <1>1 DEF Init, ClusterInit, WorkloadObject, Original
<1>3. rc.step = "idle" /\ OriginalReplicasFaithful
  BY DEF Init, ClusterInit, RestoreControllerInit, Idle, OriginalReplicasFaithful
<1>. QED
  BY <1>1, <1>2, <1>3 DEF CountInv, Original

(* The restore records the count before it scales, and scales only then.    *)
LEMMA CountInvRestore ==
  ASSUME TypeOK, ProtocolInv, CountInv, RestoreControllerNext, SoleScaler
  PROVE  CountInv'
<1>. USE DEF At
<1>1. rc \in RCState /\ restore \in [Restores -> Restore]
  BY DEF TypeOK, ClusterTypeOK, RestoreControllerTypeOK
<1>2. StepInv
  BY DEF ProtocolInv
<1>3. OriginalReplicasFaithful'
  <2>1. CASE UNCHANGED restore
    BY <2>1 DEF CountInv, OriginalReplicasFaithful
  <2>2. CASE WriteStatus
    <3>1. restore[rc.r].phase \notin Missing =>
            rc.recorded \in InitReplicas \cup {Nil}
      BY <2>2 DEF WriteStatus, CountInv, Missing
    <3>. QED
      BY <1>1, <2>2, <3>1 DEF WriteStatus, Status, CountInv, OriginalReplicasFaithful
  <2>. QED
    BY <2>1, <2>2, Writers
<1>4. ASSUME NEW r \in Restores, restore'[r].phase \in {"Absent", "New"}
      PROVE  Original(workload)' /\ Original(cache.workload)'
  <2>1. restore[r].phase \in {"Absent", "New"}
    <3>1. CASE UNCHANGED restore
      BY <1>4, <3>1
    <3>2. CASE WriteStatus /\ restore[rc.r].phase \in Missing
      BY <1>4, <3>2 DEF WriteStatus
    <3>3. CASE WriteStatus /\ restore[rc.r].phase \notin Missing
      <4>1. r = rc.r
        BY <1>2, <3>3 DEF WriteStatus, StepInv, SoleScaler
      <4>2. restore'[r].phase = rc.next
        BY <1>1, <3>3, <4>1 DEF WriteStatus, Status
      <4>. QED
        BY <1>2, <1>4, <3>3, <4>1, <4>2 DEF WriteStatus, StepInv, NextFollows, Missing
    <3>. QED
      BY <3>1, <3>2, <3>3, Writers
  <2>2. UNCHANGED workload
    <3>1. ~(PausingScaleDown \/ ScalingUpScale \/ CleanupScale)
      BY <1>2, <2>1
      DEF PausingScaleDown, ScalingUpScale, CleanupScale, StepInv, PhasesAt, SoleScaler
    <3>. QED
      BY <3>1, Writers
  <2>. QED
    BY <2>1, <2>2, Writers DEF CountInv, Original
<1>5. ASSUME rc'.step # "idle", restore'[rc'.r].phase # "Deleted"
      PROVE  rc'.recorded \in InitReplicas \cup {Nil}
  <2>1. CASE Begins
    BY <2>1, Beginning DEF Begins
  <2>2. CASE ~Begins
    <3>1. UNCHANGED restore
      BY <1>1, <1>5, Writers, RCMoves DEF WriteStatus
    <3>2. rc.step # "idle" /\ rc'.r = rc.r
      BY <1>5, <2>2, Arrivals
    <3>3. CASE ReconcilePending
      <4>1. rc.r \in Restores /\ restore[rc.r].phase = "New"
        BY <1>2, <1>5, <3>1, <3>2, <3>3 DEF ReconcilePending, StepInv, PhasesAt
      <4>2. Original(GetWorkload)
        BY <4>1 DEF CountInv, Original, GetWorkload, WorkloadObject
      <4>. QED
        BY <1>1, <3>3, <4>2 DEF ReconcilePending, Original, RCState
    <3>4. CASE rc'.recorded = rc.recorded
      BY <1>5, <3>1, <3>2, <3>4 DEF CountInv
    <3>. QED
      BY <1>5, <2>2, <3>3, <3>4, Arrivals
  <2>. QED
    BY <2>1, <2>2
<1>. QED
  BY <1>3, <1>4, <1>5 DEF CountInv

(* Nobody else changes the count of the workload or creates a restore other *)
(* than a new one.                                                          *)
LEMMA CountInvOthers ==
  ASSUME TypeOK, ProtocolInv, CountInv, UNCHANGED rc, SoleScaler,
         ReplicaControllerNext \/ ClusterNext
  PROVE  CountInv'
<1>. USE DEF TypeOK, ClusterTypeOK
<1>. DEFINE Kept(r) ==
       /\ restore'[r].originalReplicas = restore[r].originalReplicas
       /\ restore'[r].phase \in {"Absent", "New"} => restore[r].phase \in {"Absent", "New"}
       /\ restore[r].phase = "Deleted" => restore'[r].phase = "Deleted"
<1>1. \A r \in Restores : Kept(r)
  <2>1. CASE UNCHANGED restore
    BY <2>1
  <2>2. ASSUME NEW r \in Restores, CreateRestore(r) PROVE \A s \in Restores : Kept(s)
    BY <2>2 DEF CreateRestore, Restore
  <2>3. ASSUME NEW r \in Restores, DeleteRestore(r) PROVE \A s \in Restores : Kept(s)
    BY <2>3 DEF DeleteRestore, Restore
  <2>. QED
    BY <2>1, <2>2, <2>3, OthersWrite, JobEnds DEF CollectRestore
<1>2. UNCHANGED workload \/ ReconcileTargetAnnotation
  <2>1. CASE ReplicaControllerNext
    BY <2>1
    DEF ReplicaControllerNext, ReconcileReplica, ReplicaStep, ReconcileLitestreamConfig,
        UpdateStatus, UpdateStatusSeeing, ClearSkipArchiveCheck, ClearSkipPatch, ReplicaInterrupted
  <2>2. ~DeleteWorkload /\ \A n \in Replicas : ~UserScale(n)
    BY DEF DeleteWorkload, UserScale, Happens, SoleScaler
  <2>3. CASE ClusterNext
    BY <2>2, <2>3
    DEF ClusterNext, WorkloadNext, JobNext, FinishRestoreJob, FinishValidationJob,
        CreatePod, DeletePod, PodGone, StartPod, BlockPod, RestartSidecar, Replicate,
        UserNext, CreateRestore, DeleteRestore, UserPause, UserBackup, DeleteDB,
        EvictPod, WipeVolume, CollectorNext, CollectRestore, CollectConfigMap, CacheSync
  <2>. QED
    BY <2>1, <2>3
<1>3. workload'.exists = workload.exists /\ workload'.spec = workload.spec
  BY <1>2 DEF ReconcileTargetAnnotation, Workload
<1>4. cache'.workload = cache.workload \/ cache'.workload = WorkloadObject
  BY OthersCache
<1>5. \A r \in Restores : restore'[r].phase \in {"Absent", "New"} =>
        Original(workload)' /\ Original(cache.workload)'
  BY <1>1, <1>3, <1>4 DEF CountInv, Original, WorkloadObject
<1>6. rc.step # "idle" => rc.r \in Restores
  BY DEF ProtocolInv, StepInv
<1>. QED
  BY <1>1, <1>5, <1>6 DEF CountInv, OriginalReplicasFaithful

(* originalReplicas is what the workload asked for before the restore: no   *)
(* crash between the scale-down and the status patch, and no lag of the     *)
(* workload cache, makes the restore record the 0 it has written itself.    *)
(* Two restores of one workload can (finding of run pair_replicas).         *)
THEOREM OriginalReplicasFaithfulHolds ==
  ASSUME SoleScaler
  PROVE  Spec => []OriginalReplicasFaithful
<1>1. TypeOK /\ ProtocolInv /\ CountInv /\ [Next]_vars => CountInv'
  <2>1. CountInv /\ UNCHANGED vars => CountInv'
    BY DEF vars, CountInv, Original, OriginalReplicasFaithful
  <2>. QED
    BY <2>1, CountInvRestore, CountInvOthers DEF Next
<1>2. Spec => [](TypeOK /\ ProtocolInv)
  BY ProtocolInvariant DEF SoleScaler
<1>3. CountInv => OriginalReplicasFaithful
  BY DEF CountInv
<1>. QED
  BY <1>1, <1>2, <1>3, CountInvInit, PTL DEF Spec

-----------------------------------------------------------------------------
(* Replication is paused while the Jobs run. *)

(* Nothing is paused and no Job exists at the start. *)
LEMMA HeldInvInit == Init => HeldInv
  BY DEF Init, ClusterInit, RestoreControllerInit, ReplicaControllerInit, Idle, LIdle,
         NoJobs, HeldInv, JobsOver, JobActive, Held, PauseSpreads, PauseSeen, GetDB

(* A copy of the pause annotation is never ahead of the API server. *)
LEMMA PauseRead ==
  ASSUME PauseSpreads
  PROVE  /\ GetDB.pause => db.pause
         /\ GetConfigMap = "paused" => cm = "paused"
  BY DEF PauseSpreads, GetDB, GetConfigMap

(* The restore controller takes the pause away only when its Jobs are over, *)
(* and starts a Job only when it has seen the pause.                        *)
LEMMA HeldInvRestore ==
  ASSUME TypeOK, ProtocolInv, JobInv, HeldInv, RestoreControllerNext, UNCHANGED lc,
         SoleResumer
  PROVE  HeldInv'
<1>. USE DEF At
<1>1. /\ rc \in RCState /\ restore \in [Restores -> Restore] /\ db \in DBState
      /\ job \in [Restores -> Jobs] /\ restoreCM \in [Restores -> BOOLEAN]
  BY DEF TypeOK, ClusterTypeOK, RestoreControllerTypeOK
<1>2. StepInv /\ ValidatedBeforeScaleUp
  BY DEF ProtocolInv
<1>3. db'.exists
  <2>1. UNCHANGED db \/ \E b \in BOOLEAN : SetPause(b) \/ SetSkip(b)
    BY Writers
    DEF PendingPause, PausingRepause, ScalingUpSkip, ScalingUpResume, CleanupResume,
        PauseReplication, ResumeReplication, SetSkipArchiveCheck
  <2>. QED
    BY <1>1, <2>1 DEF HeldInv, SetPause, SetSkip, DBState
<1>4. ASSUME NEW r \in Restores
      PROVE  /\ restore'[r].phase # "Deleted"
             /\ IF JobsOver(r)' THEN ~JobActive(r)' ELSE Held(r)'
  <2>1. rc.step # "idle" => rc.r = r
    BY <1>2 DEF StepInv, SoleResumer
  <2>2. restore[r].phase # "Deleted" /\ JobPhase(r)
    BY DEF HeldInv, JobInv
  <2>3. \/ restore'[r].phase = restore[r].phase
        \/ /\ WriteStatus /\ restore'[r].phase = rc.next
           /\ NextFollows(restore[r].phase, rc.next, job[r])
    <3>1. CASE WriteStatus /\ restore[r].phase \notin Missing
      BY <1>1, <1>2, <2>1, <2>2, <3>1 DEF WriteStatus, Status, StepInv
    <3>2. CASE WriteStatus /\ restore[r].phase \in Missing
      BY <2>1, <3>2 DEF WriteStatus
    <3>. QED
      BY <3>1, <3>2, Writers
  <2>4. restore'[r].phase # "Deleted"
    BY <2>2, <2>3 DEF NextFollows
  <2>5. \/ job'[r] = job[r]
        \/ /\ CreateRestoreJob /\ restore[r].phase = "ScalingDown"
           /\ job'[r].restore = CreateIfAbsent(job[r].restore)
           /\ job'[r].validate = job[r].validate
        \/ /\ CreateValidationJob /\ restore[r].phase = "Validating"
           /\ job'[r].validate = CreateIfAbsent(job[r].validate)
           /\ job'[r].restore = job[r].restore
    <3>1. CASE CreateRestoreJob
      <4>1. rc.step = "createJob" /\ restore[r].phase = "ScalingDown"
        BY <1>2, <2>1, <2>2, <3>1 DEF CreateRestoreJob, StepInv, PhasesAt
      <4>. QED
        BY <1>1, <2>1, <3>1, <4>1 DEF CreateRestoreJob, Jobs
    <3>2. CASE CreateValidationJob
      <4>1. rc.step = "createValidation" /\ restore[r].phase = "Validating"
        BY <1>2, <2>1, <2>2, <3>2 DEF CreateValidationJob, StepInv, PhasesAt
      <4>. QED
        BY <1>1, <2>1, <3>2, <4>1 DEF CreateValidationJob, Jobs
    <3>. QED
      BY <3>1, <3>2, Writers
  <2>6. CASE JobsOver(r)
    <3>1. ~JobActive(r)
      BY <2>6 DEF HeldInv
    <3>2. job'[r].restore = job[r].restore /\ job'[r].validate = job[r].validate
      BY <1>2, <2>2, <2>5, <2>6 DEF JobsOver, JobPhase, CreateIfAbsent, ValidatedBeforeScaleUp
    <3>3. JobsOver(r)'
      BY <2>2, <2>3, <2>6, <3>2 DEF JobsOver, JobPhase, NextFollows
    <3>. QED
      BY <2>4, <3>1, <3>2, <3>3 DEF JobActive
  <2>7. CASE ~JobsOver(r)
    <3>1. Held(r)
      BY <2>7 DEF HeldInv
    <3>2. JobsOver(r)' => ~JobActive(r)'
      BY <2>2, <2>5, <2>7 DEF JobsOver, JobActive, JobPhase, CreateIfAbsent
    <3>3. UNCHANGED db \/ db' = [db EXCEPT !.pause = TRUE]
      <4>1. ~(ScalingUpSkip \/ ScalingUpResume)
        <5>1. restore[r].phase # "ScalingUp"
          BY <1>2, <2>7 DEF ValidatedBeforeScaleUp, JobsOver
        <5>. QED
          BY <1>2, <2>1, <2>2, <5>1 DEF ScalingUpSkip, ScalingUpResume, StepInv, PhasesAt
      <4>2. ~CleanupResume
        BY <2>1, <2>2, <2>7 DEF CleanupResume, JobInv, Cleaning, JobFailed, JobsOver
      <4>. QED
        BY <4>1, <4>2, Writers DEF PendingPause, PausingRepause, PauseReplication, SetPause
    <3>4. rc'.step # "idle" /\ rc'.paused => db.pause
      <4>1. CASE Begins
        BY <3>1, <4>1, Beginning, PauseRead DEF Begins, Held
      <4>2. CASE ~Begins
        BY <3>1, <4>2, Arrivals DEF Held, PauseSpreads
      <4>. QED
        BY <4>1, <4>2
    <3>5. PauseSpreads'
      <4>1. db.pause => db'.pause
        BY <1>1, <3>3 DEF DBState
      <4>2. GetDB.pause => GetDB'.pause
        BY <4>1, Writers DEF GetDB
      <4>. QED
        BY <3>1, <3>4, <4>1, <4>2, Writers DEF Held, PauseSpreads
    <3>6. PauseSeen(r)' => cm' = "paused" /\ GetConfigMap' = "paused"
      <4>. DEFINE Stopped == cm = "paused" /\ GetConfigMap = "paused"
      <4>1. cm' = cm /\ GetConfigMap' = GetConfigMap
        BY Writers DEF GetConfigMap
      <4>2. ASSUME restore'[r].phase \in {"ScalingDown", "Running", "Validating"}
            PROVE  Stopped
        <5>1. PauseSeen(r)
          BY <2>3, <4>2 DEF PauseSeen, NextFollows, WriteStatus
        <5>. QED
          BY <3>1, <5>1 DEF Held
      <4>3. ASSUME rc'.step = "scaleDown" PROVE Stopped
        <5>1. ReconcilePausing
          BY <4>3, Beginning, Arrivals DEF Begins
        <5>2. GetConfigMap = "paused"
          BY <1>1, <4>3, <5>1, RCMoves DEF ReconcilePausing
        <5>. QED
          BY <3>1, <5>2, PauseRead DEF Held
      <4>4. ASSUME rc'.step = "status", rc'.next = "ScalingDown" PROVE Stopped
        <5>1. rc.step = "scaleDown"
          BY <4>4, Beginning, Arrivals DEF Begins, PausingScaleDown
        <5>. QED
          BY <3>1, <5>1 DEF Held, PauseSeen
      <4>5. ASSUME JobActive(r)' PROVE Stopped
        <5>1. PauseSeen(r)
          BY <2>5, <4>5 DEF PauseSeen, JobActive
        <5>. QED
          BY <3>1, <5>1 DEF Held
      <4>. QED
        BY <4>1, <4>2, <4>3, <4>4, <4>5 DEF PauseSeen
    <3>7. rc'.step = "createJob" \/ job'[r].restore # "none" => restoreCM'[r]
      <4>1. restoreCM[r] => restoreCM'[r]
        BY <1>1, Writers DEF ReconcileRestoreConfig
      <4>2. ASSUME rc'.step = "createJob" PROVE restoreCM'[r]
        <5>1. ReconcileRestoreConfig
          BY <4>2, Beginning, Arrivals DEF Begins
        <5>. QED
          BY <1>1, <2>1, <5>1 DEF ReconcileRestoreConfig
      <4>3. ASSUME job'[r].restore # "none" PROVE restoreCM[r]
        BY <2>5, <3>1, <4>3 DEF Held, CreateRestoreJob
      <4>. QED
        BY <4>1, <4>2, <4>3
    <3>8. Held(r)'
      BY <3>5, <3>6, <3>7 DEF Held
    <3>. QED
      BY <2>4, <3>2, <3>8
  <2>. QED
    BY <2>6, <2>7
<1>. QED
  BY <1>3, <1>4 DEF HeldInv

(* As long as the pause has not been taken away, every Reconcile of the     *)
(* LitestreamReplica that could write the ConfigMap has read the pause too. *)
LEMMA HeldInvReplica ==
  ASSUME TypeOK, HeldInv, ReplicaControllerNext, UNCHANGED rc
  PROVE  HeldInv'
<1>. USE DEF LAt
<1>1. db \in DBState /\ lc \in LCState
  BY DEF TypeOK, ClusterTypeOK, ReplicaControllerTypeOK
<1>2. /\ UNCHANGED <<restore, job, restoreCM, cache>>
      /\ UNCHANGED db \/ db' = [db EXCEPT !.skip = FALSE]
      /\ UNCHANGED cm \/ ReconcileLitestreamConfig
      /\ \/ lc'.step = "idle"
         \/ lc.step # "idle" /\ lc'.pause = lc.pause
         \/ ReconcileReplica
  BY <1>1
  DEF ReplicaControllerNext, ReconcileReplica, ReplicaStep, ReconcileLitestreamConfig,
      ReconcileTargetAnnotation, UpdateStatus, UpdateStatusSeeing, SetSkip,
      ClearSkipArchiveCheck, ClearSkipPatch, ReplicaInterrupted, LReturn, LGoto, LIdle, LCState
<1>3. db'.exists = db.exists /\ db'.pause = db.pause /\ GetDB'.pause = GetDB.pause
  BY <1>1, <1>2 DEF DBState, GetDB
<1>4. ASSUME PauseSpreads
      PROVE  /\ PauseSpreads'
             /\ cm = "paused" => cm' = "paused"
  <2>1. CASE UNCHANGED cm
    BY <1>2, <1>3, <1>4, <2>1 DEF PauseSpreads, ReconcileReplica
  <2>2. CASE ReconcileLitestreamConfig
    <3>1. cm' \in {cm, WantedConfig} /\ lc.step # "idle"
      BY <2>2 DEF ReconcileLitestreamConfig
    <3>2. ~ReconcileReplica
      BY <3>1 DEF ReconcileReplica
    <3>. QED
      BY <1>2, <1>3, <1>4, <3>1, <3>2 DEF PauseSpreads, WantedConfig
  <2>. QED
    BY <1>2, <2>1, <2>2
<1>5. ASSUME PauseSpreads, cm = "paused", GetConfigMap = "paused"
      PROVE  cm' = "paused" /\ GetConfigMap' = "paused"
  BY <1>2, <1>4, <1>5 DEF GetConfigMap
<1>6. ASSUME NEW r \in Restores, Held(r) PROVE Held(r)'
  BY <1>2, <1>4, <1>5, <1>6 DEF Held, PauseSeen, JobActive
<1>. QED
  BY <1>2, <1>3, <1>6 DEF HeldInv, JobsOver, JobActive

(* Users may set the pause annotation but not remove it, and the informers  *)
(* only spread it.                                                          *)
LEMMA HeldInvCluster ==
  ASSUME TypeOK, ProtocolInv, JobInv, HeldInv, ClusterNext, UNCHANGED <<rc, lc>>,
         SoleResumer
  PROVE  HeldInv'
<1>1. /\ db \in DBState /\ restore \in [Restores -> Restore]
      /\ job \in [Restores -> Jobs]
  BY DEF TypeOK, ClusterTypeOK
<1>2. /\ ~DeleteDB /\ ~UserPause(FALSE) /\ ~CollectConfigMap
      /\ \A r \in Restores : ~DeleteRestore(r) /\ ~CollectRestore(r)
  BY DEF DeleteDB, UserPause, CollectConfigMap, DeleteRestore, CollectRestore, Happens,
         SoleResumer, HeldInv
<1>3. /\ UNCHANGED cm
      /\ \/ UNCHANGED db \/ db' = [db EXCEPT !.pause = TRUE]
         \/ \E b \in BOOLEAN : db' = [db EXCEPT !.backup = b]
      /\ UNCHANGED restoreCM
  BY <1>2
  DEF ClusterNext, WorkloadNext, JobNext, FinishRestoreJob, FinishValidationJob,
      CreatePod, DeletePod, PodGone, StartPod, BlockPod, RestartSidecar, Replicate,
      UserNext, CreateRestore, UserScale, UserPause, SetPause, UserBackup,
      DeleteWorkload, EvictPod, WipeVolume, CollectorNext, CacheSync
<1>4. db'.exists = db.exists /\ (db.pause => db'.pause)
  BY <1>1, <1>3 DEF DBState
<1>5. ASSUME PauseSpreads PROVE PauseSpreads'
  <2>1. /\ cache'.db = cache.db \/ cache'.db = db
        /\ cache'.cm = cache.cm \/ cache'.cm = cm
        /\ UNCHANGED cache \/ UNCHANGED db
    BY OthersCache
  <2>2. GetDB.pause => GetDB'.pause
    BY <1>4, <1>5, <2>1 DEF GetDB, PauseSpreads
  <2>. QED
    BY <1>3, <1>4, <1>5, <2>1, <2>2 DEF PauseSpreads
<1>7. ASSUME cm = "paused", GetConfigMap = "paused"
      PROVE  cm' = "paused" /\ GetConfigMap' = "paused"
  BY <1>3, <1>7, OthersCache DEF GetConfigMap
<1>. DEFINE Kept(r) == /\ restore'[r].phase # "Deleted"
                       /\ IF JobsOver(r)' THEN ~JobActive(r)' ELSE Held(r)'
<1>6. ASSUME NEW r \in Restores PROVE Kept(r)
  <2>1. restore[r].phase # "Deleted" /\ JobPhase(r)
    BY DEF HeldInv, JobInv
  <2>2. CASE UNCHANGED <<restore, job>>
    BY <1>3, <1>5, <1>7, <2>1, <2>2 DEF HeldInv, JobsOver, JobActive, Held, PauseSeen
  <2>3. ASSUME NEW s \in Restores, CreateRestore(s) PROVE Kept(r)
    <3>1. /\ restore[s].phase = "Absent" /\ restore'[s].phase = "New" /\ s = r
          /\ UNCHANGED job
      BY <1>1, <2>3 DEF CreateRestore, Restore, SoleResumer
    <3>. QED
      BY <1>3, <1>5, <1>7, <2>1, <3>1 DEF HeldInv, JobsOver, JobActive, Held, PauseSeen
  <2>4. CASE JobNext
    <3>1. UNCHANGED restore
      BY <2>4, JobEnds
    <3>2. JobActive(r) /\ (JobActive(r)' => JobActive(r))
      BY <2>4, JobEnds DEF JobActive, SoleResumer
    <3>3. Held(r)
      BY <3>2 DEF HeldInv
    <3>4. JobsOver(r)' => ~JobActive(r)'
      BY <2>1, <2>4, JobEnds DEF JobsOver, JobActive, JobPhase, SoleResumer
    <3>5. job[r].restore # "none"
      BY <2>1, <3>2 DEF JobActive, JobPhase
    <3>. QED
      BY <1>3, <1>5, <1>7, <2>1, <3>1, <3>2, <3>3, <3>4, <3>5 DEF Held, PauseSeen
  <2>. QED
    BY <1>2, <2>2, <2>3, <2>4, OthersWrite
<1>. QED
  BY <1>4, <1>6 DEF HeldInv

(* Once the restore has seen the empty ConfigMap nothing undoes the pause   *)
(* but the restore itself, when its Jobs are over: no copy of the           *)
(* LitestreamReplica, however old, and no Reconcile of it that has begun.   *)
THEOREM HeldInvariant ==
  ASSUME SoleResumer
  PROVE  Spec => []HeldInv
<1>1. TypeOK /\ ProtocolInv /\ JobInv /\ HeldInv /\ [Next]_vars => HeldInv'
  <2>1. HeldInv /\ UNCHANGED vars => HeldInv'
    BY DEF vars, HeldInv, JobsOver, JobActive, Held, PauseSpreads, PauseSeen, GetDB,
           GetConfigMap
  <2>. QED
    BY <2>1, HeldInvRestore, HeldInvReplica, HeldInvCluster DEF Next
<1>2. Spec => [](TypeOK /\ ProtocolInv /\ JobInv)
  BY JobInvariant DEF SoleResumer
<1>. QED
  BY <1>1, <1>2, HeldInvInit, PTL DEF Spec

(* A restore Job and its validation Job run only while replication is       *)
(* paused: the annotation is set, the ConfigMap says "dbs: []" and the Job's *)
(* own ConfigMap exists, however the Reconciles of the two controllers      *)
(* interleave, however stale their reads of the LitestreamReplica, its      *)
(* ConfigMap and the workload are, and wherever they crash.  It takes       *)
(* somebody else to remove the annotation: a user, or a second restore.     *)
THEOREM PausedWhileRestoringHolds ==
  ASSUME SoleResumer
  PROVE  Spec => []PausedWhileRestoring
<1>1. Spec => []JobInv
  BY JobInvariant, PTL DEF SoleResumer
<1>2. HeldInv /\ JobInv => PausedWhileRestoring
  <2>. SUFFICES ASSUME HeldInv, JobInv, NEW r \in Restores, JobActive(r)
                PROVE  restoreCM[r] /\ db.pause /\ cm = "paused"
    BY DEF PausedWhileRestoring
  <2>1. Held(r) /\ job[r].restore # "none"
    BY DEF HeldInv, JobInv, JobPhase, JobActive
  <2>2. cm = "paused" /\ restoreCM[r]
    BY <2>1 DEF Held, PauseSeen
  <2>3. db.pause
    BY <2>1, <2>2, PauseRead DEF Held, PauseSpreads
  <2>. QED
    BY <2>2, <2>3
<1>. QED
  BY <1>1, <1>2, HeldInvariant, PTL
=============================================================================
