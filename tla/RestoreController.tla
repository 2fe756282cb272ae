------------------------- MODULE RestoreController -------------------------
(***************************************************************************)
(* LitestreamRestoreReconciler.  The controller has one worker, so at most *)
(* one Reconcile is in progress; it is cut at every call that writes an    *)
(* API object, and the other controller, the cluster and the users run     *)
(* between the cuts.  What a Reconcile read before a cut stays in rc.      *)
(***************************************************************************)
EXTENDS Cluster

VARIABLE rc   \* the Reconcile in progress

Steps == {"idle", "pending", "pause", "pausing", "repause", "scaleDown",
          "scalingDown", "restoreConfig", "createJob", "running", "validating",
          "createValidation", "skip", "resume", "gate", "scaleUp",
          "cleanupScale", "cleanupResume", "status"}

RCState ==
  [step : Steps,                              \* the next call to make
   r : Restores \cup {Nil},                   \* the request being reconciled
   originalReplicas : Replicas \cup {Nil},    \* as read from the restore
   recorded : Replicas \cup {Nil},            \* originalReplicas to record
   paused : BOOLEAN,                          \* sourceDB's pause annotation as read
   next : Phases]                             \* the phase setStatus will write

RestoreControllerTypeOK == rc \in RCState

Idle == [step |-> "idle", r |-> Nil, originalReplicas |-> Nil, recorded |-> Nil,
         paused |-> FALSE, next |-> "Absent"]

RestoreControllerInit == rc = Idle

(* Return from Reconcile; the request is queued again (requeue interval,    *)
(* error back-off or a watch event) for as long as its phase is not final.  *)
Return == rc' = Idle

Goto(step) == rc' = [rc EXCEPT !.step = step]

SetStatus(phase) == rc' = [rc EXCEPT !.step = "status", !.next = phase]

(* failRestore: Failed, and nothing is undone.                              *)
FailRestore == SetStatus("Failed")

FailRestoreWithCleanup == Goto("cleanupScale")

At(step) == rc.step = step

-----------------------------------------------------------------------------
Handler(phase) ==
  CASE phase = "New" -> "pending"
    [] phase = "Pausing" -> "pausing"
    [] phase = "ScalingDown" -> "scalingDown"
    [] phase = "Running" -> "running"
    [] phase = "Validating" -> "validating"
    [] phase = "ScalingUp" -> "skip"

(* Mutant: the source is looked up before the phase is tested for its end.  *)
ReconcileNoTerminalCheck(r) ==
  LET cr == GetRestore(r)
      sourceDB == GetDB
      usable == sourceDB.exists /\ sourceDB.backup
  IN /\ At("idle")
     /\ cr.phase \notin Missing
     /\ usable => cr.phase \notin Terminal
     /\ rc' = [step |-> IF usable THEN Handler(cr.phase) ELSE "status",
               r |-> r, originalReplicas |-> cr.originalReplicas,
               recorded |-> Nil, paused |-> sourceDB.pause,
               next |-> IF usable THEN "Absent" ELSE "Failed"]
     /\ UNCHANGED clusterVars

(* Reconcile: a missing or finished restore is left alone; a missing source *)
(* or one without an S3 backup fails the restore; otherwise the phase's     *)
(* handler runs on the objects just read.                                   *)
Reconcile(r) ==
  LET cr == GetRestore(r)
      sourceDB == GetDB
      usable == sourceDB.exists /\ sourceDB.backup
  IN /\ At("idle")
     /\ cr.phase \notin Missing \cup Terminal
     /\ rc' = [step |-> IF usable THEN Handler(cr.phase) ELSE "status",
               r |-> r, originalReplicas |-> cr.originalReplicas,
               recorded |-> Nil, paused |-> sourceDB.pause,
               next |-> IF usable THEN "Absent" ELSE "Failed"]
     /\ UNCHANGED clusterVars

-----------------------------------------------------------------------------
(* setStatus: a merge patch of the phase; originalReplicas is written only  *)
(* if the copy that was read had none.                                      *)
Status(r) ==
  [phase |-> rc.next,
   originalReplicas |-> IF rc.originalReplicas = Nil /\ rc.recorded # Nil
                          THEN rc.recorded
                          ELSE restore[r].originalReplicas]

WriteStatus ==
  /\ At("status")
  /\ restore' = IF restore[rc.r].phase \in Missing THEN restore
                ELSE [restore EXCEPT ![rc.r] = Status(rc.r)]
  /\ Return
  /\ UNCHANGED <<db, cm, workload, pods, volume, restoreCM, job, cache, events, faults>>

(* pauseReplication: nothing to patch if the copy read is already paused.   *)
PauseReplication ==
  IF rc.paused THEN UNCHANGED db ELSE PatchSucceeds /\ SetPause(TRUE)

(* resumeReplication: nothing to do if the copy read is not paused;         *)
(* otherwise the LitestreamReplica is read again and the difference to that *)
(* copy is patched, which is empty if it has no pause annotation.           *)
ResumeReplication ==
  IF ~rc.paused THEN UNCHANGED db
  ELSE /\ GetDB.exists /\ PatchSucceeds
       /\ IF GetDB.pause THEN SetPause(FALSE) ELSE UNCHANGED db

(* setSkipArchiveCheck(true)                                                *)
SetSkipArchiveCheck ==
  /\ GetDB.exists
  /\ IF GetDB.skip THEN UNCHANGED db ELSE PatchSucceeds /\ SetSkip(TRUE)

(* scaleWorkload: nothing to patch if the copy read has the count already.  *)
ScaleWorkload(n) ==
  IF GetWorkload.spec = n THEN UNCHANGED workload
  ELSE workload.exists /\ workload' = [workload EXCEPT !.spec = n]

-----------------------------------------------------------------------------
(* Mutant: the replica count is taken from status instead of spec.          *)
ReconcilePendingStatusCount ==
  /\ At("pending")
  /\ rc' = [rc EXCEPT !.step = "pause",
                      !.recorded = IF GetWorkload.running THEN GetWorkload.spec ELSE 0]
  /\ UNCHANGED clusterVars

(* reconcilePending: remember the replica count (0 without a workload), set *)
(* the pause annotation, go to Pausing.                                     *)
ReconcilePending ==
  /\ At("pending")
  /\ rc' = [rc EXCEPT !.step = "pause",
                      !.recorded = IF GetWorkload.exists THEN GetWorkload.spec ELSE 0]
  /\ UNCHANGED clusterVars

PendingPause ==
  /\ At("pause")
  /\ PauseReplication
  /\ SetStatus("Pausing")
  /\ UNCHANGED <<cm, workload, pods, volume, restore, restoreCM, job, cache, events, faults>>

(* Mutant: scale down without waiting for the ConfigMap.                    *)
ReconcilePausingNoGate ==
  /\ At("pausing")
  /\ IF rc.paused THEN Goto("scaleDown") ELSE Goto("repause")
  /\ UNCHANGED clusterVars

(* reconcilePausing: re-set a pause annotation that was removed; wait for   *)
(* the ConfigMap to show the pause; scale the workload to 0.                *)
ReconcilePausing ==
  /\ At("pausing")
  /\ \/ ~rc.paused /\ Goto("repause")
     \/ rc.paused /\ GetConfigMap = "paused" /\ Goto("scaleDown")
     \/ rc.paused /\ GetConfigMap # "paused" /\ Return
  /\ UNCHANGED clusterVars

PausingRepause ==
  /\ At("repause")
  /\ PauseReplication
  /\ Return
  /\ UNCHANGED <<cm, workload, pods, volume, restore, restoreCM, job, cache, events, faults>>

PausingScaleDown ==
  /\ At("scaleDown")
  /\ IF GetWorkload.exists THEN ScaleWorkload(0) ELSE UNCHANGED workload
  /\ SetStatus("ScalingDown")
  /\ UNCHANGED <<db, cm, pods, volume, restore, restoreCM, job, cache, events, faults>>

(* Mutant: the Job is created as soon as the scale-down is requested.       *)
ReconcileScalingDownNoWait ==
  /\ At("scalingDown")
  /\ Goto("restoreConfig")
  /\ UNCHANGED clusterVars

(* reconcileScalingDown: wait until status.replicas is 0, write the         *)
(* restore's own ConfigMap, create the restore Job (an existing one is      *)
(* kept), go to Running.                                                    *)
ReconcileScalingDown ==
  /\ At("scalingDown")
  /\ IF GetWorkload.exists /\ GetWorkload.running THEN Return
     ELSE Goto("restoreConfig")
  /\ UNCHANGED clusterVars

ReconcileRestoreConfig ==
  /\ At("restoreConfig")
  /\ restoreCM' = [restoreCM EXCEPT ![rc.r] = TRUE]
  /\ Goto("createJob")
  /\ UNCHANGED <<db, cm, workload, pods, volume, restore, job, cache, events, faults>>

(* Mutant: an existing Job is replaced.                                     *)
CreateAnew(state) == IF state = "active" THEN state ELSE "active"

CreateIfAbsent(state) == IF state = "none" THEN "active" ELSE state

CreateRestoreJob ==
  /\ At("createJob")
  /\ job' = [job EXCEPT ![rc.r].restore = CreateIfAbsent(@)]
  /\ SetStatus("Running")
  /\ UNCHANGED <<db, cm, workload, pods, volume, restore, restoreCM, cache, events, faults>>

(* Mutant: any condition of the Job counts as its completion.               *)
ReconcileRunningAnyCondition ==
  LET state == GetJobs(rc.r).restore
  IN /\ At("running")
     /\ \/ state \in {"complete", "failed"} /\ SetStatus("Validating")
        \/ state = "none" /\ FailRestoreWithCleanup
        \/ state = "active" /\ Return
     /\ UNCHANGED clusterVars

(* Mutant: a Job without a Complete condition counts as failed.             *)
ReconcileRunningImpatient ==
  LET state == GetJobs(rc.r).restore
  IN /\ At("running")
     /\ IF state = "complete" THEN SetStatus("Validating")
                              ELSE FailRestoreWithCleanup
     /\ UNCHANGED clusterVars

(* reconcileRunning: a Job that is not found counts as failed.              *)
ReconcileRunning ==
  LET state == GetJobs(rc.r).restore
  IN /\ At("running")
     /\ \/ state = "complete" /\ SetStatus("Validating")
        \/ state \in {"none", "failed"} /\ FailRestoreWithCleanup
        \/ state = "active" /\ Return
     /\ UNCHANGED clusterVars

(* Mutant: a missing validation Job is taken for one cleaned up after it    *)
(* succeeded.                                                               *)
ReconcileValidatingOptimistic ==
  LET state == GetJobs(rc.r).validate
  IN /\ At("validating")
     /\ \/ state \in {"none", "complete"} /\ SetStatus("ScalingUp")
        \/ state = "failed" /\ FailRestoreWithCleanup
        \/ state = "active" /\ Return
     /\ UNCHANGED clusterVars

(* reconcileValidating: create the validation Job if it is not there yet.   *)
ReconcileValidating ==
  LET state == GetJobs(rc.r).validate
  IN /\ At("validating")
     /\ \/ state = "none" /\ Goto("createValidation")
        \/ state = "complete" /\ SetStatus("ScalingUp")
        \/ state = "failed" /\ FailRestoreWithCleanup
        \/ state = "active" /\ Return
     /\ UNCHANGED clusterVars

CreateValidationJob ==
  /\ At("createValidation")
  /\ job' = [job EXCEPT ![rc.r].validate = CreateIfAbsent(@)]
  /\ Return
  /\ UNCHANGED <<db, cm, workload, pods, volume, restore, restoreCM, cache, events, faults>>

(* reconcileScalingUp: (1) set skip-archive-check, (2) remove the pause     *)
(* annotation, (3) wait for the full ConfigMap, (4) scale up.               *)
ScalingUpSkip ==
  /\ At("skip")
  /\ SetSkipArchiveCheck
  /\ Goto("resume")
  /\ UNCHANGED <<cm, workload, pods, volume, restore, restoreCM, job, cache, events, faults>>

ScalingUpResume ==
  /\ At("resume")
  /\ ResumeReplication
  /\ Goto("gate")
  /\ UNCHANGED <<cm, workload, pods, volume, restore, restoreCM, job, cache, events, faults>>

(* Mutant: scale up without waiting for the ConfigMap.                      *)
ScalingUpNoGate ==
  /\ At("gate")
  /\ Goto("scaleUp")
  /\ UNCHANGED clusterVars

ScalingUpGate ==
  /\ At("gate")
  /\ IF GetConfigMap \in {"none", "paused"} THEN Return ELSE Goto("scaleUp")
  /\ UNCHANGED clusterVars

(* Mutant: an off-by-one replica count.                                     *)
TargetPlusOne == IF rc.originalReplicas = Nil THEN 1 ELSE rc.originalReplicas + 1

Target == IF rc.originalReplicas = Nil THEN 1 ELSE rc.originalReplicas

ScalingUpScale ==
  /\ At("scaleUp")
  /\ IF Target > 0 /\ GetWorkload.exists THEN ScaleWorkload(Target)
     ELSE UNCHANGED workload
  /\ SetStatus("Complete")
  /\ UNCHANGED <<db, cm, pods, volume, restore, restoreCM, job, cache, events, faults>>

-----------------------------------------------------------------------------
(* failRestoreWithCleanup: scale back up if nothing is running, then remove *)
(* the pause annotation.  An error of either call is logged and ignored.    *)
CleanupScale ==
  /\ At("cleanupScale")
  /\ IF GetWorkload.exists /\ ~GetWorkload.running /\ Target > 0
       THEN ScaleWorkload(Target)
       ELSE UNCHANGED workload
  /\ Goto("cleanupResume")
  /\ UNCHANGED <<db, cm, pods, volume, restore, restoreCM, job, cache, events, faults>>

(* Mutant: a failed restore leaves the pause annotation.                    *)
CleanupNoResume ==
  /\ At("cleanupResume")
  /\ SetStatus("Failed")
  /\ UNCHANGED clusterVars

CleanupResume ==
  /\ At("cleanupResume")
  /\ ResumeReplication
  /\ SetStatus("Failed")
  /\ UNCHANGED <<cm, workload, pods, volume, restore, restoreCM, job, cache, events, faults>>

-----------------------------------------------------------------------------
(* Failures that do not come from the cluster's state, counted against      *)
(* MaxFaults.  A call returns an error, or the operator crashes, anywhere in *)
(* a Reconcile: what was written stays written and rc is lost.              *)
ReconcileInterrupted ==
  /\ ~At("idle")
  /\ Fails("interrupt")
  /\ Return
  /\ UNCHANGED <<apiVars, cache, events>>

CleanupCallFails ==
  /\ Fails("cleanup")
  /\ \/ At("cleanupScale") /\ Goto("cleanupResume")
     \/ At("cleanupResume") /\ SetStatus("Failed")
  /\ UNCHANGED <<apiVars, cache, events>>

(* Reading the source fails: Reconcile takes every error for NotFound.      *)
SourceReadFails(r) ==
  /\ At("idle")
  /\ GetRestore(r).phase \notin Missing \cup Terminal
  /\ Fails("read")
  /\ rc' = [step |-> "status", r |-> r,
            originalReplicas |-> GetRestore(r).originalReplicas,
            recorded |-> Nil, paused |-> FALSE, next |-> "Failed"]
  /\ UNCHANGED <<apiVars, cache, events>>

(* getTargetWorkloadForRestore fails with something other than NotFound:    *)
(* the restore fails without cleanup, but during the final scale-up the     *)
(* error is only logged and the restore is complete.                        *)
WorkloadReadFails ==
  /\ Fails("read")
  /\ \/ rc.step \in {"pending", "scaleDown", "scalingDown"} /\ FailRestore
     \/ At("scaleUp") /\ Target > 0 /\ SetStatus("Complete")
  /\ UNCHANGED <<apiVars, cache, events>>

(* A patch that the API server rejects whatever the number of retries: the  *)
(* LitestreamReplica or the workload is gone, or the validating webhook     *)
(* refuses the LitestreamReplica.                                           *)
DBPatchRejected ==
  /\ \/ rc.step \in {"pause", "repause"} /\ ~rc.paused /\ ~PatchSucceeds
     \/ At("skip") /\ (~GetDB.exists \/ (~GetDB.skip /\ ~PatchSucceeds))
     \/ At("resume") /\ rc.paused /\ ~(GetDB.exists /\ PatchSucceeds)
  /\ Return
  /\ UNCHANGED clusterVars

CleanupPatchRejected ==
  /\ At("cleanupResume") /\ rc.paused /\ ~(GetDB.exists /\ PatchSucceeds)
  /\ SetStatus("Failed")
  /\ UNCHANGED clusterVars

WorkloadPatchRejected ==
  /\ GetWorkload.exists /\ ~workload.exists
  /\ \/ At("scaleDown") /\ GetWorkload.spec # 0 /\ Return
     \/ At("scaleUp") /\ Target > 0 /\ GetWorkload.spec # Target /\ Return
     \/ /\ At("cleanupScale") /\ ~GetWorkload.running
        /\ Target > 0 /\ GetWorkload.spec # Target
        /\ Goto("cleanupResume")
  /\ UNCHANGED clusterVars

-----------------------------------------------------------------------------
(* The calls that Reconcile makes once it has picked its handler.           *)
RestoreStep ==
  \/ ReconcilePending \/ PendingPause
  \/ ReconcilePausing \/ PausingRepause \/ PausingScaleDown
  \/ ReconcileScalingDown \/ ReconcileRestoreConfig \/ CreateRestoreJob
  \/ ReconcileRunning
  \/ ReconcileValidating \/ CreateValidationJob
  \/ ScalingUpSkip \/ ScalingUpResume \/ ScalingUpGate \/ ScalingUpScale
  \/ CleanupScale \/ CleanupResume
  \/ WriteStatus
  \/ DBPatchRejected \/ CleanupPatchRejected \/ WorkloadPatchRejected

RestoreFault ==
  \/ ReconcileInterrupted
  \/ CleanupCallFails
  \/ WorkloadReadFails
  \/ \E r \in Restores : SourceReadFails(r)

RestoreControllerNext ==
  \/ \E r \in Restores : Reconcile(r)
  \/ RestoreStep
  \/ RestoreFault
=============================================================================
