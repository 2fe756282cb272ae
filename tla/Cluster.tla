------------------------------ MODULE Cluster ------------------------------
(***************************************************************************)
(* The part of a Kubernetes cluster that the litestream operator's two     *)
(* controllers share: the API objects they read and patch, the informer    *)
(* caches they read through, and the external actors that move the same    *)
(* objects (the workload controller, the kubelet with the injected pod,    *)
(* the Job controller, users).  One LitestreamReplica, its litestream      *)
(* ConfigMap, its target workload, and any number of LitestreamRestores    *)
(* whose sourceRef names that LitestreamReplica.                           *)
(***************************************************************************)
EXTENDS Naturals, FiniteSets

CONSTANTS
  Restores,            \* names of the LitestreamRestore resources
  Pods,                \* names of the workload's pods
  MaxReplicas,         \* bound on the workload's spec.replicas
  InitReplicas,        \* the values spec.replicas may have at the start
  Nil,                 \* an absent (nil) replica count
  TerminatingCounted,  \* status.replicas counts terminating pods: TRUE for a
                       \* StatefulSet, FALSE for a Deployment
  Lagging,             \* the kinds whose informer cache may lag the API server
  Events,              \* the user and node events that may happen
  MaxEvents,           \* bound on those events
  Faults,              \* the kinds of failure that may happen
  MaxFaults            \* bound on those failures

Kinds == {"db", "cm", "workload", "restore", "job", "pod"}

AllEvents == {"scale", "pause", "unpause", "disable", "enable", "deleteDB",
              "deleteRestore", "deleteWorkload", "evict", "wipe", "initSQL",
              "skip"}

AllFaults == {"interrupt", "cleanup", "read"}

ASSUME ClusterAssumption ==
  /\ IsFiniteSet(Pods)
  /\ Nil \notin Restores
  /\ MaxReplicas \in Nat \ {0}
  /\ InitReplicas \subseteq 0..MaxReplicas
  /\ Nil \notin Nat
  /\ TerminatingCounted \in BOOLEAN
  /\ Lagging \subseteq Kinds
  /\ Events \subseteq AllEvents
  /\ MaxEvents \in Nat
  /\ Faults \subseteq AllFaults
  /\ MaxFaults \in Nat

VARIABLES
  db,         \* the LitestreamReplica: backup spec and the two annotations
  cm,         \* litestream.yml of its ConfigMap: absent, "dbs: []" or full
  workload,   \* the target Deployment or StatefulSet (spec and pod template)
  pods,       \* the workload's pods and what the webhook injected into them
  volume,     \* the PVC: no database, a database without litestream's state
              \* directory, or both
  restore,    \* the LitestreamRestore resources
  restoreCM,  \* the restores' own ConfigMaps (true: written)
  job,        \* the restore Job and the validation Job of each restore
  cache,      \* the manager's informer caches, one entry per kind
  events,     \* events that have happened
  faults      \* failures that have happened

apiVars == <<db, cm, workload, pods, volume, restore, restoreCM, job>>
clusterVars == <<apiVars, cache, events, faults>>

-----------------------------------------------------------------------------
Replicas == 0..MaxReplicas

(* status.phase; "New" stands for both "" and Pending.  A resource that does *)
(* not exist is Absent before its creation and Deleted after its deletion.   *)
Phases == {"Absent", "New", "Pausing", "ScalingDown", "Running", "Validating",
           "ScalingUp", "Complete", "Failed", "Deleted"}

Missing == {"Absent", "Deleted"}

Terminal == {"Complete", "Failed"}

DBState == [exists : BOOLEAN, backup : BOOLEAN, pause : BOOLEAN, skip : BOOLEAN]
Config == {"none", "paused", "full"}
Workload == [exists : BOOLEAN, spec : Replicas, injected : BOOLEAN]
CachedWorkload == [exists : BOOLEAN, spec : Replicas, injected : BOOLEAN,
                   running : BOOLEAN]
Pod == [phase : {"absent", "pending", "blocked", "running"}, deleted : BOOLEAN,
        injected : BOOLEAN, checked : BOOLEAN, config : Config]
Restore == [phase : Phases, originalReplicas : Replicas \cup {Nil}]
JobState == {"none", "active", "complete", "failed"}
Jobs == [restore : JobState, validate : JobState]
Cache == [db : DBState, cm : Config, workload : CachedWorkload,
          restore : [Restores -> Restore], job : [Restores -> Jobs],
          pods : [Pods -> Pod]]

ClusterTypeOK ==
  /\ db \in DBState
  /\ cm \in Config
  /\ workload \in Workload
  /\ pods \in [Pods -> Pod]
  /\ volume \in {"lost", "untracked", "tracked"}
  /\ restore \in [Restores -> Restore]
  /\ restoreCM \in [Restores -> BOOLEAN]
  /\ job \in [Restores -> Jobs]
  /\ cache \in Cache
  /\ events \in 0..MaxEvents
  /\ faults \in 0..MaxFaults

-----------------------------------------------------------------------------
(* What a pod contributes to status.replicas, and the workload object a     *)
(* client reads: spec and status together.                                  *)

Present(p) == pods[p].phase # "absent"
Live(p) == Present(p) /\ ~pods[p].deleted

CountedAsRunning(p) == IF TerminatingCounted THEN Present(p) ELSE Live(p)

RunningReplicas == \E p \in Pods : CountedAsRunning(p)

WorkloadObject == [exists |-> workload.exists, spec |-> workload.spec,
                   injected |-> workload.injected, running |-> RunningReplicas]

(* The manager's client: a Get is answered by the informer cache.           *)
GetDB == IF "db" \in Lagging THEN cache.db ELSE db
GetConfigMap == IF "cm" \in Lagging THEN cache.cm ELSE cm
GetWorkload == IF "workload" \in Lagging THEN cache.workload ELSE WorkloadObject
GetRestore(r) == IF "restore" \in Lagging THEN cache.restore[r] ELSE restore[r]
GetJobs(r) == IF "job" \in Lagging THEN cache.job[r] ELSE job[r]
ListPods == IF "pod" \in Lagging THEN cache.pods ELSE pods

(* validateLitestreamReplica: every patch of the LitestreamReplica is       *)
(* admitted only if its target workload asks for at most one replica.       *)
Admitted == GetWorkload.exists => GetWorkload.spec <= 1

PatchSucceeds == db.exists /\ Admitted

SetPause(b) == db' = [db EXCEPT !.pause = b]
SetSkip(b) == db' = [db EXCEPT !.skip = b]

-----------------------------------------------------------------------------
AbsentPod == [phase |-> "absent", deleted |-> FALSE, injected |-> FALSE,
              checked |-> FALSE, config |-> "none"]

NoJobs == [restore |-> "none", validate |-> "none"]

ClusterInit ==
  /\ db = [exists |-> TRUE, backup |-> TRUE, pause |-> FALSE, skip |-> FALSE]
  /\ cm = "none"
  /\ workload \in [exists : {TRUE}, spec : InitReplicas, injected : {FALSE}]
  /\ pods = [p \in Pods |-> AbsentPod]
  /\ volume \in {"lost", "tracked"}
  /\ restore = [r \in Restores |-> [phase |-> "Absent", originalReplicas |-> Nil]]
  /\ restoreCM = [r \in Restores |-> FALSE]
  /\ job = [r \in Restores |-> NoJobs]
  /\ cache = [db |-> db, cm |-> cm, workload |-> WorkloadObject,
              restore |-> restore, job |-> job, pods |-> pods]
  /\ events = 0
  /\ faults = 0

-----------------------------------------------------------------------------
(* The informers.  A watch delivers the newest state of its kind; states in *)
(* between are delivered by syncing more often.                             *)

CacheSync(k) ==
  /\ k \in Lagging
  /\ CASE k = "db" -> cache' = [cache EXCEPT !.db = db]
       [] k = "cm" -> cache' = [cache EXCEPT !.cm = cm]
       [] k = "workload" -> cache' = [cache EXCEPT !.workload = WorkloadObject]
       [] k = "restore" -> cache' = [cache EXCEPT !.restore = restore]
       [] k = "job" -> cache' = [cache EXCEPT !.job = job]
       [] k = "pod" -> cache' = [cache EXCEPT !.pods = pods]
  /\ UNCHANGED <<apiVars, events, faults>>

-----------------------------------------------------------------------------
(* The workload controller (external) and the mutating webhook that every   *)
(* pod it creates passes through.                                           *)

LivePods == {p \in Pods : Live(p)}

(* inject: the sidecar goes in when the template asks for it; the           *)
(* archive-check init container goes in unless skip-archive-check is set.   *)
(* The webhook reads the LitestreamReplica from the API server itself.      *)
Injected == [phase |-> "pending", deleted |-> FALSE,
             injected |-> workload.injected,
             checked |-> workload.injected /\ db.backup /\ ~db.skip,
             config |-> "none"]

AdmissionSucceeds == workload.injected => db.exists

CreatePod(p) ==
  /\ workload.exists
  /\ ~Present(p)
  /\ Cardinality(LivePods) < workload.spec
  /\ TerminatingCounted => \A q \in Pods : Present(q) => Live(q)
  /\ AdmissionSucceeds
  /\ pods' = [pods EXCEPT ![p] = Injected]
  /\ UNCHANGED <<db, cm, workload, volume, restore, restoreCM, job,
                 cache, events, faults>>

Surplus(p) ==
  \/ ~workload.exists
  \/ Cardinality(LivePods) > workload.spec
  \/ pods[p].injected # workload.injected      \* rolling restart

DeletePod(p) ==
  /\ Live(p)
  /\ Surplus(p)
  /\ pods' = [pods EXCEPT ![p].deleted = TRUE]
  /\ UNCHANGED <<db, cm, workload, volume, restore, restoreCM, job,
                 cache, events, faults>>

PodGone(p) ==
  /\ Present(p)
  /\ pods[p].deleted
  /\ pods' = [pods EXCEPT ![p] = AbsentPod]
  /\ UNCHANGED <<db, cm, workload, volume, restore, restoreCM, job,
                 cache, events, faults>>

-----------------------------------------------------------------------------
(* The kubelet.  The archive-check script passes when the volume holds the  *)
(* database and litestream's state directory; the S3 replica of a database  *)
(* that is being restored is not empty, so every other case blocks.         *)

ArchiveCheckPasses == volume = "tracked"

(* The sidecar mounts its ConfigMap, so its pod waits for one to exist; the *)
(* application creates a database where there is none.                      *)
StartPod(p) ==
  /\ pods[p].phase \in {"pending", "blocked"}
  /\ ~pods[p].deleted
  /\ pods[p].injected => cm # "none"
  /\ pods[p].checked => ArchiveCheckPasses
  /\ pods' = [pods EXCEPT ![p].phase = "running",
                          ![p].config = IF pods[p].injected THEN cm ELSE "none"]
  /\ volume' = IF volume = "lost" THEN "untracked" ELSE volume
  /\ UNCHANGED <<db, cm, workload, restore, restoreCM, job, cache, events, faults>>

BlockPod(p) ==
  /\ pods[p].phase = "pending"
  /\ ~pods[p].deleted
  /\ pods[p].checked /\ cm # "none" /\ ~ArchiveCheckPasses
  /\ pods' = [pods EXCEPT ![p].phase = "blocked"]
  /\ UNCHANGED <<db, cm, workload, volume, restore, restoreCM, job,
                 cache, events, faults>>

(* A sidecar that started with "dbs: []" exits; the kubelet restarts it and *)
(* it reads the ConfigMap again.                                            *)
RestartSidecar(p) ==
  /\ pods[p].phase = "running" /\ pods[p].injected /\ pods[p].config # "full"
  /\ cm # pods[p].config /\ cm # "none"
  /\ pods' = [pods EXCEPT ![p].config = cm]
  /\ UNCHANGED <<db, cm, workload, volume, restore, restoreCM, job,
                 cache, events, faults>>

(* litestream replicate creates the state directory when it first replicates. *)
Replicate(p) ==
  /\ pods[p].phase = "running" /\ pods[p].config = "full"
  /\ volume = "untracked"
  /\ volume' = "tracked"
  /\ UNCHANGED <<db, cm, workload, pods, restore, restoreCM, job,
                 cache, events, faults>>

-----------------------------------------------------------------------------
(* The Job controller: litestream restore writes the database file (never   *)
(* the state directory) and may fail after its retries; quick_check passes  *)
(* or fails.                                                                *)

FinishRestoreJob(r, result) ==
  /\ job[r].restore = "active"
  /\ job' = [job EXCEPT ![r].restore = result]
  /\ volume' = IF result = "complete" /\ volume = "lost" THEN "untracked" ELSE volume
  /\ UNCHANGED <<db, cm, workload, pods, restore, restoreCM, cache, events, faults>>

FinishValidationJob(r, result) ==
  /\ job[r].validate = "active"
  /\ job' = [job EXCEPT ![r].validate = result]
  /\ UNCHANGED <<db, cm, workload, pods, volume, restore, restoreCM,
                 cache, events, faults>>

-----------------------------------------------------------------------------
(* Users and node events.                                                   *)

CreateRestore(r) ==
  /\ restore[r].phase = "Absent"
  /\ restore' = [restore EXCEPT ![r].phase = "New"]
  /\ UNCHANGED <<db, cm, workload, pods, volume, restoreCM, job,
                 cache, events, faults>>

Happens(e) ==
  /\ e \in Events
  /\ events < MaxEvents
  /\ events' = events + 1

Fails(f) ==
  /\ f \in Faults
  /\ faults < MaxFaults
  /\ faults' = faults + 1

UserScale(n) ==
  /\ Happens("scale")
  /\ workload.exists /\ workload.spec # n
  /\ workload' = [workload EXCEPT !.spec = n]
  /\ UNCHANGED <<db, cm, pods, volume, restore, restoreCM, job, cache, faults>>

UserPause(b) ==
  /\ Happens(IF b THEN "pause" ELSE "unpause")
  /\ PatchSucceeds /\ db.pause # b
  /\ SetPause(b)
  /\ UNCHANGED <<cm, workload, pods, volume, restore, restoreCM, job, cache, faults>>

UserBackup(b) ==
  /\ Happens(IF b THEN "enable" ELSE "disable")
  /\ PatchSucceeds /\ db.backup # b
  /\ db' = [db EXCEPT !.backup = b]
  /\ UNCHANGED <<cm, workload, pods, volume, restore, restoreCM, job, cache, faults>>

DeleteDB ==
  /\ Happens("deleteDB")
  /\ db.exists
  /\ db' = [db EXCEPT !.exists = FALSE]
  /\ UNCHANGED <<cm, workload, pods, volume, restore, restoreCM, job, cache, faults>>

DeleteWorkload ==
  /\ Happens("deleteWorkload")
  /\ workload.exists
  /\ workload' = [workload EXCEPT !.exists = FALSE]
  /\ UNCHANGED <<db, cm, pods, volume, restore, restoreCM, job, cache, faults>>

(* There is no finalizer: nothing undoes what the restore has done so far.  *)
DeleteRestore(r) ==
  /\ Happens("deleteRestore")
  /\ restore[r].phase \notin Missing
  /\ restore' = [restore EXCEPT ![r].phase = "Deleted"]
  /\ UNCHANGED <<db, cm, workload, pods, volume, restoreCM, job, cache, faults>>

(* The database and litestream's state directory are deleted.               *)
WipeVolume ==
  /\ Happens("wipe")
  /\ volume # "lost"
  /\ volume' = "lost"
  /\ UNCHANGED <<db, cm, workload, pods, restore, restoreCM, job, cache, faults>>

EvictPod(p) ==
  /\ Happens("evict")
  /\ Live(p)
  /\ pods' = [pods EXCEPT ![p].deleted = TRUE]
  /\ UNCHANGED <<db, cm, workload, volume, restore, restoreCM, job, cache, faults>>

-----------------------------------------------------------------------------
(* The garbage collector: owned objects follow their owner.                 *)

CollectRestore(r) ==
  /\ restore[r].phase = "Deleted"
  /\ restoreCM[r] \/ job[r] # NoJobs
  /\ restoreCM' = [restoreCM EXCEPT ![r] = FALSE]
  /\ job' = [job EXCEPT ![r] = NoJobs]
  /\ UNCHANGED <<db, cm, workload, pods, volume, restore, cache, events, faults>>

CollectConfigMap ==
  /\ ~db.exists /\ cm # "none"
  /\ cm' = "none"
  /\ UNCHANGED <<db, workload, pods, volume, restore, restoreCM, job,
                 cache, events, faults>>

-----------------------------------------------------------------------------
WorkloadNext ==
  \E p \in Pods : \/ CreatePod(p) \/ DeletePod(p) \/ PodGone(p)
                  \/ StartPod(p) \/ BlockPod(p) \/ RestartSidecar(p)
                  \/ Replicate(p)

JobNext ==
  \E r \in Restores, result \in {"complete", "failed"} :
    FinishRestoreJob(r, result) \/ FinishValidationJob(r, result)

UserNext ==
  \/ \E r \in Restores : CreateRestore(r) \/ DeleteRestore(r)
  \/ \E n \in Replicas : UserScale(n)
  \/ \E b \in BOOLEAN : UserPause(b) \/ UserBackup(b)
  \/ DeleteDB
  \/ DeleteWorkload
  \/ \E p \in Pods : EvictPod(p)
  \/ WipeVolume

CollectorNext == CollectConfigMap \/ \E r \in Restores : CollectRestore(r)

ClusterNext ==
  \/ WorkloadNext
  \/ JobNext
  \/ UserNext
  \/ CollectorNext
  \/ \E k \in Kinds : CacheSync(k)
=============================================================================
