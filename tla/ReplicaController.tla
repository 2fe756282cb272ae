------------------------- MODULE ReplicaController -------------------------
(***************************************************************************)
(* LitestreamReplicaReconciler, as far as the restore depends on it: the   *)
(* ConfigMap that follows the pause annotation, the injection annotations  *)
(* on the workload's pod template, and the skip-archive-check annotation   *)
(* that updateStatus removes once the sidecar is healthy.  The status      *)
(* fields updateStatus writes are read by neither controller; they are     *)
(* added by ReplicaStatus.                                                 *)
(* Like the restore controller it has one worker.                          *)
(***************************************************************************)
EXTENDS Cluster

VARIABLE lc   \* the Reconcile in progress

LCState == [step : {"idle", "config", "annotate", "status", "clearSkip"},
            backup : BOOLEAN, pause : BOOLEAN, skip : BOOLEAN]

ReplicaControllerTypeOK == lc \in LCState

LIdle == [step |-> "idle", backup |-> FALSE, pause |-> FALSE, skip |-> FALSE]

ReplicaControllerInit == lc = LIdle

LReturn == lc' = LIdle
LGoto(step) == lc' = [lc EXCEPT !.step = step]
LAt(step) == lc.step = step

-----------------------------------------------------------------------------
ReconcileReplica ==
  /\ LAt("idle")
  /\ GetDB.exists
  /\ lc' = [step |-> "config", backup |-> GetDB.backup,
            pause |-> GetDB.pause, skip |-> GetDB.skip]
  /\ UNCHANGED clusterVars

(* reconcileLitestreamConfig: CreateOrUpdate.  A ConfigMap read with the    *)
(* wanted content is not written; an Update carries the resourceVersion     *)
(* read and a Create needs the name free, so either fails on a stale read.  *)
WantedConfigUnpaused == "full"    \* mutant: the pause annotation is ignored

WantedConfig == IF lc.pause THEN "paused" ELSE "full"

ReconcileLitestreamConfig ==
  /\ LAt("config")
  /\ \/ GetConfigMap = WantedConfig /\ UNCHANGED cm /\ LGoto("annotate")
     \/ /\ GetConfigMap # WantedConfig
        /\ GetConfigMap = cm
        /\ cm' = WantedConfig
        /\ LGoto("annotate")
     \/ /\ GetConfigMap # WantedConfig
        /\ GetConfigMap # cm
        /\ UNCHANGED cm
        /\ LReturn
  /\ UNCHANGED <<db, workload, pods, volume, restore, restoreCM, job, cache, events, faults>>

(* reconcileTargetAnnotation: without a workload Reconcile ends here; a     *)
(* workload with several replicas is not annotated.                         *)
NeedsAnnotation ==
  GetWorkload.exists /\ GetWorkload.spec <= 1 /\ ~GetWorkload.injected

ReconcileTargetAnnotation ==
  /\ LAt("annotate")
  /\ IF NeedsAnnotation /\ workload.exists
       THEN workload' = [workload EXCEPT !.injected = TRUE]
       ELSE UNCHANGED workload
  /\ IF GetWorkload.exists /\ (NeedsAnnotation => workload.exists)
       THEN LGoto("status")
       ELSE LReturn
  /\ UNCHANGED <<db, cm, pods, volume, restore, restoreCM, job, cache, events, faults>>

-----------------------------------------------------------------------------
(* litestreamContainerState and archiveCheckState look at every pod of the  *)
(* workload, also at terminating ones.                                      *)
SidecarRunning(pod) == pod.phase = "running" /\ pod.injected /\ pod.config = "full"
SidecarIdle(pod) == pod.phase = "running" /\ pod.injected /\ pod.config # "full"

(* A sidecar that has read "dbs: []" exits and is restarted, again and      *)
(* again: at one moment it is seen Running, at another in CrashLoopBackOff. *)
LitestreamContainerState(healthy) ==
  IF healthy
  THEN \E p \in Pods : SidecarRunning(ListPods[p]) \/ SidecarIdle(ListPods[p])
  ELSE (\E p \in Pods : SidecarRunning(ListPods[p])) =>
         \E p \in Pods : SidecarIdle(ListPods[p])

(* archiveCheckState finds a failed archive check only while the init        *)
(* container of a blocked pod is terminated; between two attempts the        *)
(* container waits and the check counts as passed.                           *)
ArchiveCheckState(failed) ==
  failed => lc.backup /\ \E p \in Pods : ListPods[p].phase = "blocked"

(* updateStatus: the early returns come before the clean-up of the          *)
(* skip-archive-check annotation.                                           *)
UpdateStatusSeeing(failed, healthy) ==
  /\ LAt("status")
  /\ ArchiveCheckState(failed)
  /\ LitestreamContainerState(healthy)
  /\ IF /\ GetWorkload.exists /\ GetWorkload.spec <= 1
        /\ ~failed
        /\ lc.backup /\ healthy
        /\ lc.skip
       THEN LGoto("clearSkip")
       ELSE LReturn
  /\ UNCHANGED clusterVars

UpdateStatus == \E failed, healthy \in BOOLEAN : UpdateStatusSeeing(failed, healthy)

(* Mutant: the test for an annotation that is already gone is inverted.     *)
ClearSkipPatchInverted ==
  IF GetDB.exists /\ ~GetDB.skip /\ PatchSucceeds THEN SetSkip(FALSE) ELSE UNCHANGED db

(* clearSkipArchiveCheck: an error is logged and left to the next Reconcile. *)
ClearSkipPatch ==
  IF GetDB.exists /\ GetDB.skip /\ PatchSucceeds THEN SetSkip(FALSE) ELSE UNCHANGED db

ClearSkipArchiveCheck ==
  /\ LAt("clearSkip")
  /\ ClearSkipPatch
  /\ LReturn
  /\ UNCHANGED <<cm, workload, pods, volume, restore, restoreCM, job, cache, events, faults>>

-----------------------------------------------------------------------------
(* A call fails or the operator crashes.                                    *)
ReplicaInterrupted ==
  /\ ~LAt("idle")
  /\ Fails("interrupt")
  /\ LReturn
  /\ UNCHANGED <<apiVars, cache, events>>

ReplicaStep ==
  \/ ReconcileLitestreamConfig
  \/ ReconcileTargetAnnotation
  \/ UpdateStatus \/ ClearSkipArchiveCheck

ReplicaControllerNext ==
  \/ ReconcileReplica
  \/ ReplicaStep
  \/ ReplicaInterrupted
=============================================================================
