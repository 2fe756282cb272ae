--------------------------- MODULE ClusterProofs ---------------------------
(***************************************************************************)
(* What the proofs about both controllers share: the cluster, its users    *)
(* and the replica controller keep the types of the objects they write.    *)
(***************************************************************************)
EXTENDS ReplicaController, TLAPS

USE DEF clusterVars, apiVars

(* The workload a client reads has its type. *)
LEMMA WorkloadObjectType ==
  ASSUME workload \in Workload
  PROVE  WorkloadObject \in CachedWorkload
<1>1. RunningReplicas \in BOOLEAN
  BY DEF RunningReplicas
<1>. QED
  BY <1>1 DEF WorkloadObject, Workload, CachedWorkload

(* The initial cluster has the declared types. *)
LEMMA ClusterInitType == ClusterInit => ClusterTypeOK
<1>. SUFFICES ASSUME ClusterInit PROVE ClusterTypeOK
  OBVIOUS
<1>. USE ClusterAssumption DEF ClusterInit
<1>1. db \in DBState /\ cm \in Config /\ workload \in Workload
  BY DEF DBState, Config, Workload, Replicas
<1>2. pods \in [Pods -> Pod]
  BY DEF Pod, AbsentPod, Config
<1>3. restore \in [Restores -> Restore] /\ job \in [Restores -> Jobs]
  BY DEF Restore, Phases, Jobs, JobState, NoJobs
<1>4. cache \in Cache
  <2>1. WorkloadObject \in CachedWorkload
    BY <1>1, WorkloadObjectType
  <2>. QED
    BY <1>1, <1>2, <1>3, <2>1 DEF Cache
<1>. QED
  BY <1>1, <1>2, <1>3, <1>4 DEF ClusterTypeOK

(* What the client reads has the type of what it reads. *)
LEMMA ReadTypes ==
  ASSUME ClusterTypeOK
  PROVE  /\ GetDB \in DBState
         /\ GetConfigMap \in Config
         /\ WorkloadObject \in CachedWorkload
         /\ GetWorkload \in CachedWorkload
         /\ \A r \in Restores : GetRestore(r) \in Restore
         /\ \A r \in Restores : GetJobs(r) \in Jobs
         /\ ListPods \in [Pods -> Pod]
<1>1. WorkloadObject \in CachedWorkload
  BY WorkloadObjectType DEF ClusterTypeOK
<1>. QED
  BY <1>1 DEF ClusterTypeOK, Cache, GetDB, GetConfigMap, GetWorkload,
              GetRestore, GetJobs, ListPods

(* Patching an annotation of the LitestreamReplica keeps its type. *)
LEMMA AnnotationTypes ==
  ASSUME ClusterTypeOK
  PROVE  /\ \A b \in BOOLEAN : SetPause(b) => db' \in DBState
         /\ \A b \in BOOLEAN : SetSkip(b) => db' \in DBState
  BY DEF ClusterTypeOK, SetPause, SetSkip, DBState

(* Each call of a LitestreamReplica's Reconcile keeps the types. *)
LEMMA ReplicaControllerType ==
  ASSUME ClusterTypeOK, ReplicaControllerTypeOK, ReplicaControllerNext
  PROVE  ClusterTypeOK' /\ ReplicaControllerTypeOK'
<1>. USE ReadTypes, AnnotationTypes
     DEF ClusterTypeOK, ReplicaControllerTypeOK
<1>a. LReturn => lc' \in LCState
  BY DEF LReturn, LIdle, LCState
<1>b. \A step \in {"annotate", "status", "clearSkip"} :
        LGoto(step) => lc' \in LCState
  BY DEF LGoto, LCState
<1>1. /\ LReturn => lc' \in LCState
      /\ \A step \in {"annotate", "status", "clearSkip"} :
           LGoto(step) => lc' \in LCState
  BY <1>a, <1>b
<1>2. CASE ReconcileReplica
  BY <1>2 DEF ReconcileReplica, LCState, DBState
<1>3. CASE ReconcileLitestreamConfig
  BY <1>1, <1>3 DEF ReconcileLitestreamConfig, WantedConfig, Config
<1>4. CASE ReconcileTargetAnnotation
  BY <1>1, <1>4 DEF ReconcileTargetAnnotation, Workload
<1>5. CASE UpdateStatus
  BY <1>1, <1>5 DEF UpdateStatus, UpdateStatusSeeing
<1>6. CASE ClearSkipArchiveCheck
  BY <1>1, <1>6 DEF ClearSkipArchiveCheck, ClearSkipPatch
<1>7. CASE ReplicaInterrupted
  BY <1>1, <1>7, ClusterAssumption DEF ReplicaInterrupted, Fails
<1>. QED
  BY <1>2, <1>3, <1>4, <1>5, <1>6, <1>7 DEF ReplicaControllerNext, ReplicaStep

(* Each step of the cluster and of its users keeps the types. *)
LEMMA ClusterType ==
  ASSUME ClusterTypeOK, ClusterNext
  PROVE  ClusterTypeOK'
<1>. USE ReadTypes, AnnotationTypes, ClusterAssumption
     DEF ClusterTypeOK
<1>1. ASSUME NEW k \in Kinds, CacheSync(k) PROVE ClusterTypeOK'
  BY <1>1 DEF CacheSync, Kinds, Cache
<1>2. ASSUME NEW p \in Pods, CreatePod(p) PROVE ClusterTypeOK'
  BY <1>2 DEF CreatePod, Injected, Pod, Workload, DBState, Config
<1>3. ASSUME NEW p \in Pods, DeletePod(p) \/ EvictPod(p) PROVE ClusterTypeOK'
  <2>1. pods' \in [Pods -> Pod]
    <3>1. [pods[p] EXCEPT !.deleted = TRUE] \in Pod
      BY DEF Pod
    <3>2. pods' = [pods EXCEPT ![p] = [pods[p] EXCEPT !.deleted = TRUE]]
      BY <1>3 DEF DeletePod, EvictPod
    <3>. QED
      BY <3>1, <3>2
  <2>2. events' \in 0..MaxEvents
    BY <1>3 DEF DeletePod, EvictPod, Happens
  <2>. QED
    BY <1>3, <2>1, <2>2 DEF DeletePod, EvictPod
<1>4. ASSUME NEW p \in Pods, PodGone(p) PROVE ClusterTypeOK'
  BY <1>4 DEF PodGone, AbsentPod, Pod, Config
<1>5. ASSUME NEW p \in Pods, StartPod(p) PROVE ClusterTypeOK'
  <2>1. (IF pods[p].injected THEN cm ELSE "none") \in Config
    BY DEF Config
  <2>2. pods' \in [Pods -> Pod]
    <3>. DEFINE config == IF pods[p].injected THEN cm ELSE "none"
    <3>1. [pods[p] EXCEPT !.phase = "running", !.config = config] \in Pod
      BY <2>1 DEF Pod
    <3>2. pods' = [pods EXCEPT ![p] = [pods[p] EXCEPT !.phase = "running",
                                                      !.config = config]]
      BY <1>5 DEF StartPod
    <3>. QED
      BY <3>1, <3>2
  <2>. QED
    BY <1>5, <2>2 DEF StartPod
<1>6. ASSUME NEW p \in Pods, BlockPod(p) PROVE ClusterTypeOK'
  BY <1>6 DEF BlockPod, Pod
<1>7. ASSUME NEW p \in Pods, RestartSidecar(p) PROVE ClusterTypeOK'
  BY <1>7 DEF RestartSidecar, Pod
<1>8. ASSUME NEW p \in Pods, Replicate(p) PROVE ClusterTypeOK'
  BY <1>8 DEF Replicate
<1>9. CASE WorkloadNext
  BY <1>2, <1>3, <1>4, <1>5, <1>6, <1>7, <1>8, <1>9 DEF WorkloadNext
<1>10. CASE JobNext
  BY <1>10 DEF JobNext, FinishRestoreJob, FinishValidationJob, Jobs, JobState
<1>11. ASSUME NEW r \in Restores, CreateRestore(r) \/ DeleteRestore(r) PROVE ClusterTypeOK'
  <2>1. restore' \in [Restores -> Restore]
    BY <1>11 DEF CreateRestore, DeleteRestore, Restore, Phases
  <2>2. events' \in 0..MaxEvents
    BY <1>11 DEF CreateRestore, DeleteRestore, Happens
  <2>. QED
    BY <1>11, <2>1, <2>2 DEF CreateRestore, DeleteRestore
<1>12. ASSUME NEW n \in Replicas, UserScale(n) PROVE ClusterTypeOK'
  BY <1>12 DEF UserScale, Happens, Workload
<1>13. ASSUME NEW b \in BOOLEAN, UserPause(b) \/ UserBackup(b) PROVE ClusterTypeOK'
  BY <1>13 DEF UserPause, UserBackup, Happens, DBState
<1>14. CASE DeleteDB \/ DeleteWorkload \/ WipeVolume
  <2>1. events' \in 0..MaxEvents
    BY <1>14 DEF DeleteDB, DeleteWorkload, WipeVolume, Happens
  <2>2. CASE DeleteDB
    BY <2>1, <2>2 DEF DeleteDB, DBState
  <2>3. CASE DeleteWorkload
    BY <2>1, <2>3 DEF DeleteWorkload, Workload
  <2>4. CASE WipeVolume
    BY <2>1, <2>4 DEF WipeVolume
  <2>. QED
    BY <1>14, <2>2, <2>3, <2>4
<1>15. CASE CollectorNext
  <2>1. CASE CollectConfigMap
    BY <2>1 DEF CollectConfigMap, Config
  <2>2. ASSUME NEW r \in Restores, CollectRestore(r) PROVE ClusterTypeOK'
    <3>1. NoJobs \in Jobs
      BY DEF NoJobs, Jobs, JobState
    <3>. QED
      BY <2>2, <3>1 DEF CollectRestore
  <2>. QED
    BY <1>15, <2>1, <2>2 DEF CollectorNext
<1>. QED
  BY <1>1, <1>3, <1>9, <1>10, <1>11, <1>12, <1>13, <1>14, <1>15
  DEF ClusterNext, UserNext
=============================================================================
