# Verification of the litestream operator

TLA+ models of the controllers in `src/internal/controller`, of the webhooks in
`src/internal/webhook` and of the container scripts they inject, checked with TLC
and proved with TLAPS.

## The system

The operator runs in one controller-runtime manager (`cmd/main.go`). It keeps no
state of its own: everything lives in API objects, which it reads through
informer caches and writes with patches.

| component | state it keeps | operations | talks to |
| --- | --- | --- | --- |
| **LitestreamRestore controller** (`litestreamrestore_controller.go`) | `status.phase`, `status.originalReplicas`, the restore's ConfigMap and two Jobs | one handler per phase; `failRestore`, `failRestoreWithCleanup`; `pauseReplication`, `resumeReplication`, `setSkipArchiveCheck`, `scaleWorkload` | the LitestreamReplica's annotations (read by the other controller and by the webhook), the workload's replica count |
| **LitestreamReplica controller** (`litestreamreplica_controller.go`) | the `-litestream` ConfigMap, the injection annotations on the pod template, status and conditions | `reconcileLitestreamConfig`, `reconcileInitSQLConfig`, `reconcileTargetAnnotation`, `updateStatus`, `clearSkipArchiveCheck` | pods (health), workload, its own annotations |
| **workload helpers** (`workload.go`) | none | get, scale and annotate a Deployment or a StatefulSet; read `spec.replicas`, `status.replicas` | API server |
| **sidecar injector** (`sidecar_injector.go`) | none (mutating webhook) | adds the sidecar, the archive check or the auto-restore, and the init-SQL container to a pod | reads the LitestreamReplica uncached |
| **validating webhook** (`litestreamreplica_webhook.go`) | none | admits or refuses every write of a LitestreamReplica | reads the workload |

A restore is a conversation between the two controllers through shared objects.
The restore controller sets the pause annotation; the replica controller answers
by writing `dbs: []` into the ConfigMap; the restore controller scales the
workload to 0, waits for its pods, runs a restore Job and a validation Job, sets
`skip-archive-check`, removes the pause annotation, waits for the full ConfigMap
and scales up; the webhook leaves the archive check out of the new pod; the
replica controller sees a healthy sidecar and removes `skip-archive-check`.

What is hard about it:

- every handler makes several API writes, and the operator may stop between any
  two of them;
- every read may be older than the last write, including the controller's own;
- both controllers, the workload controller, the kubelet, the Job controller and
  users change the same objects between the steps of a handler;
- two restores may name the same LitestreamReplica;
- patches carry no precondition, cleanup is best effort, and there is no
  finalizer.

Between restores the replica controller keeps the status of a LitestreamReplica
by merge patches, each computed from a copy that may be stale; the pod template
of its target carries the annotation by which the mutating webhook finds it; and
every pod the webhook injects first runs a script against the volume and S3 (the
archive check, or the auto-restore), then the init SQL, then the application
beside the sidecar. Those scripts are cut off by evictions and killed containers
and run again from their start, on whatever they have left on the volume.

What makes it correct: the Jobs have the volume to themselves and replication
stays paused meanwhile; nothing scales up on an unvalidated database; the
application comes back with its replica count, unblocked and with a sidecar that
replicates; a restore ends, and stays ended, and what it reports was its own
work; the backup of one database is never continued with another, and no healthy
volume is locked out; the status agrees with itself and, in the end, with the
cluster; the target, and only the target, is injected, for the directory the
application uses.

## Modules

| module | models |
| --- | --- |
| `Cluster` | the API objects, informer caches (`cache`, read through `GetDB`, `GetWorkload`, ...), the admission rules of both webhooks (`Admitted`, `Injected`, `AdmissionSucceeds`, `ArchiveCheckPasses`) and the external actors: workload controller, kubelet, Job controller, users and nodes, garbage collector |
| `RestoreController` | `LitestreamRestoreReconciler`: variable `rc` is the Reconcile in progress, its `step` the next call to make, the other fields what it has read. One action per call that writes an API object, plus the error paths (`SourceReadFails`, `WorkloadReadFails`, `DBPatchRejected`, ...) |
| `ReplicaController` | `LitestreamReplicaReconciler` likewise, with variable `lc`, as far as a restore depends on it |
| `Operator` | both controllers on one cluster, fairness, the properties and the inductive invariants |
| `RestoreProtocol` | the abstract specification: phases and Jobs of a restore as a user sees them, without caches, patches or queues |
| `ReplicaStatus` | extends `ReplicaController` to the whole `LitestreamReplicaReconciler`: the init-SQL ConfigMap, the five outcomes of `updateStatus`, conditions, and status patches computed from the copy that was read (`mem`) |
| `PodStartup` | what `inject` puts into a pod, command by command: archive check, auto-restore with its integrity gate, init SQL with its marker, then application and sidecar, on one volume and one S3 replica |
| `Injection` | several LitestreamReplicas and workloads: `validateLitestreamReplica` and `checkWorkloadReplicas`, `reconcileTargetAnnotation`, and `Handle` with `findVolumeForPath` |
| `RestoreIdentity` | one LitestreamRestore name that is deleted and created again: names, owners, deletion policies and the garbage collector |
| `MCOperator`, `MCReplicaStatus`, `MCPodStartup`, `MCInjection` | instances for TLC: pod names, symmetry, the specs and pod templates |
| `ClusterProofs`, `ProtocolProofs`, `HandoverProofs`, `ExclusiveProofs` | theorems of `Operator`: types of the cluster and of the replica controller (shared with `StatusProofs`), the protocol and its refinement, what restore and replication hand to each other, exclusive access and the clean start after it |
| `StatusProofs`, `StartupProofs`, `InjectionProofs`, `IdentityProofs` | theorems of `ReplicaStatus`, `PodStartup`, `Injection`, `RestoreIdentity` |

`Operator` composes `Cluster` and the two controllers; `ReplicaStatus` runs the
replica controller on the same `Cluster`, without restores. `PodStartup`,
`Injection` and `RestoreIdentity` each zoom in on what `Cluster` holds in one
definition (`ArchiveCheckPasses`, `Injected`, the names of Jobs and ConfigMaps)
and leave out what lies outside their question.

Definitions introduced by a comment `Mutant:` are deliberately wrong variants of
the definition that follows them. Nothing in the specification uses them; each
one shows that a property notices the bug it describes.

### How state corresponds to the code

- `db` holds the LitestreamReplica: existence, `backup.enabled` with S3, and the
  annotations `pause` and `skip-archive-check`. `cm` is the content of
  `litestream.yml`: absent, `dbs: []` or full.
- `workload` is a Deployment or a StatefulSet. They differ in one way that
  matters here: a StatefulSet counts terminating pods in `status.replicas` and a
  Deployment does not (`TerminatingCounted`). `status.replicas` is derived from
  `pods`, so it is never older than the pods; an old one is what a lagging
  workload cache shows.
- `pods[p]` says whether the webhook injected the sidecar and the archive check,
  which configuration the sidecar read at its start, and whether the archive
  check holds the pod back. `volume` is what the archive check looks at:
  database file and litestream's state directory. S3 holds a backup, as it must
  for a restore to make sense.
- `restore[r].phase` is `status.phase`, with `New` for both `""` and `Pending`.
- A cache entry jumps to the newest state when it is synchronised; a sequence of
  older states is reached by synchronising in between. `Lagging` names the kinds
  whose cache may lag; a kind outside it is read as it is.
- A sidecar that has read `dbs: []` exits and is restarted again and again.
  `litestreamContainerState` may meet it Running or in CrashLoopBackOff, and its
  pod ready or not: both are choices (`LitestreamContainerState`, `ReadyReplicas`).
- A failed call and a crash look the same to the API server: `rc` or `lc` is
  lost, what was written stays, and the request comes back from the queue.

- `ReplicaStatus`: `cr` is the LitestreamReplica's generation, `initSQL` and
  status, next to the `db` of `Cluster`; a change of the spec raises the
  generation, one of an annotation does not. The annotation patch of
  `clearSkipArchiveCheck` and the status patch after it are two steps
  (`ClearSkip`, `WriteStatusAfterClear`). `MergePatch` keeps every field that
  the Reconcile did not change; the list of conditions is one field. The history
  variable `mixed` remembers a patch computed from an outdated status.
- `PodStartup`: a database is an identity, kept by its later versions; a fresh
  one differs from the backed up one. `s3` names the database the replica belongs
  to. `pod[p]` is the next command of the pod. litestream reads its
  configuration when it starts (`litestreamrestore_controller.go:458`), so a
  running sidecar is not affected by the ConfigMap, and one that started on
  `dbs: []` is `idle` until a restart finds a database. `autoRestore` may change
  while pods run; they keep the containers they were given. `backup.enabled` is
  on throughout: without it `inject` adds neither check, and there is no replica
  to protect. The history variable `tried` says whether the init SQL was ever run
  against the volume. The history variable `lapses` names the ways
  in which, since the volume last held the backed up database, a pod came past its
  checks on another one: `skipped` (skip-archive-check), `unchecked`
  (auto-restore accepts any file), `fresh` (auto-restore failed and went on), and
  `stateDir` (a state directory outlived its database).
- `Injection`: paths are sequences of directory names; a mount puts the directory
  `subPath` of a volume at a path. A pod keeps the database path of its injection,
  at which its sidecar mounts the volume. An API error in the webhook's replica
  check costs an event of its own, so that both the refusal and its omission occur.
  A Reconcile is one step here, since it writes
  the workload at most once.
- `RestoreIdentity`: an object of the restore is its owner's uid and its state.
  `Source` and `Orphan` stand for the LitestreamReplica and for no owner; `Init`
  has the restore's ConfigMap name either free or taken by the source. The history
  variable `leftBehind` is set when a restore is created: was there still a Job of
  a predecessor then, or a Reconcile in progress? A default (background) deletion
  whose Jobs the collector has removed by then leaves nothing behind.

### Bounds

`MaxReplicas` bounds `spec.replicas` (2 reaches the "more than one writer"
branches, 1 everything else). `MaxEvents` and `MaxFaults` bound the user and node
events and the failures of a behaviour. Two pods are enough for an old pod to
terminate next to its successor, two restores for every pair of phases to
overlap. Pods are interchangeable, so `pair` uses their symmetry; the runs with a
liveness property use none.

- `single`: two pods, three lagging caches, one interruption before any API write.
- `exclusive`: two events and one failure, the least that lets a user act on both
  sides of a repeated handler.
- `chaos`: every event once, at any time, and two replicas.
- `status`: one event and one interruption, a lagging LitestreamReplica: a patch
  computed before the change can land after it. Both one and two replicas are
  initial.
- `startup`: two pods (a rolling update), two databases (the backed up one and
  another), four events of eight kinds and one failure of four: enough for wipe,
  recreate, restore, skip and an eviction, with a killed container, in one
  behaviour. The databases have no other structure, so a third one adds only a
  second way of not being the backed up one.
- `injection`: four events, the least in which one replica moves away and another
  takes its target and loses it again. Among the seven templates are two volumes
  nested in both orders.
- `identity`: three incarnations: the present one, one whose Reconcile is still in
  progress, and one whose objects are left over.

## Runs

| run | asks | result |
| --- | --- | --- |
| `single` | one restore of a StatefulSet; the caches of LitestreamReplica, ConfigMap and LitestreamRestore lag, one interruption anywhere, fair system | `TypeOK`, `ExclusiveRestore`, `PausedWhileRestoring`, `CleanStartAfterRestore`, `OutcomeEarned`, `RestoreEnds`, `WorkloadHandedBack`, `SkipCleared`, `RestoreProtocolKept` hold |
| `exclusive` | the events and failures that the ExclusiveRestore theorem allows, two and one of them | `ExclusiveInv`, `OriginalReplicasFaithful` hold |
| `pair` | two restores of one LitestreamReplica, one interruption | `EndedMeansJobsFinished`, `RestoreProtocolKept` hold |
| `chaos` | a Deployment with a lagging workload cache; any event at any time, rejected patches included | `ProtocolInv`, `ValidatedBeforeScaleUp`, `RestoreProtocolKept` hold |
| `status` | every branch of the replica controller, lagging LitestreamReplica, an event and an interruption, fair system | `TypeOK`, `StatusCoherent`, `StatusConverges` hold |
| `startup` | archive check, auto-restore, init SQL, application and sidecar of two pods on one volume; every event and failure, fair system | `TypeOK`, `ChainInv`, `InitSQLApplied`, `BackupChainKept`, `AutoRestored`, `NeverLockedOut` hold |
| `injection` | two replicas, a Deployment and a StatefulSet, valid and invalid specs, API errors in the webhook, seven pod templates, four events, fair system | `TypeOK`, `WatchesDatabase`, `EveryTargetInjected` hold |
| `identity` | any deletion policy at any moment, the restore's name like its source's or not, fair system | `TypeOK`, `OwnRestore`, `IdentityInv`, `OwnConfig`, `RestoreEnds` hold |
| `terminating` | the workload is a Deployment | `ExclusiveRestore` is **violated** |
| `pair_replicas` | two restores | `OriginalReplicasFaithful` is **violated** |
| `workload_gone` | the workload is deleted | `WorkloadGoneReported` is **violated** |
| `integrity_gate` | auto-restore yields a corrupt file | `IntegrityGate` is **violated** |

Where a LitestreamReplica, a workload or a restore may be deleted for good, or
the bounded events may run out in a blocked pod, the system really has nothing
left to do, and the run does not check for deadlock (`chaos`, `exclusive` and the
runs of the four modules that are not composed in `Operator`). `single`, `pair`,
`pair_replicas` and `terminating` do check for it.

### What the violated runs show

- **`terminating`** (`workload.go:98`). A Deployment's `status.replicas` is 0 as
  soon as its pods are being deleted. The restore Job starts while the old pod,
  in its grace period, still has the database open.
- **`pair_replicas`** (`litestreamrestore_controller.go:131`). A second restore
  created while the first holds the workload at 0 records 0. It also shares the
  pause annotation: whichever restore ends first resumes replication for both.
- **`workload_gone`** (`litestreamreplica_controller.go:106`). A missing workload
  is an error of `reconcileTargetAnnotation`, so Reconcile returns before
  `updateStatus`; the status keeps what it said last. The test of the
  WorkloadNotFound branch calls `updateStatus` directly.
- **`integrity_gate`** (`sidecar_injector.go:405`). The corrupt file stays, and the
  retried container takes it for a database that needs no restore. Its message
  also offers `skip-archive-check`, which `inject` does not look at when
  `autoRestore` is on.

### Known limits

What the passing runs do not claim, because the code does not do it. Most of
these can be seen in a counterexample by changing one cfg or dropping one
exception from a property; the models contain all of the behaviour but the
last entry's (`litestream.yml` has no path in them).

The restore controller (`litestreamrestore_controller.go`):

- *Lagging Job cache* (`:254`; add `"job"` to `Lagging` of `single` or `pair`):
  a Job created by the previous Reconcile may not be in the cache, and NotFound is
  taken for a lost Job. The workload is scaled up, replication resumed and
  `Failed` written while the Job restores into the volume:
  `PausedWhileRestoring` and `ExclusiveRestore` fail in the one,
  `EndedMeansJobsFinished` in the other.
- *Lagging LitestreamRestore cache* (`:79`). A cached copy is at most one status
  write of its restore behind, so a stale handler repeats its last transition. In
  `single` that is harmless (`OutcomeEarned`, `RestoreProtocolKept`). With events it
  is not: add `"restore"` to `Lagging` of `chaos`, and a Reconcile that still reads
  `ScalingUp`, after the source's backup was disabled, turns `Complete` into
  `Failed`: `RestoreProtocolKept` fails. `ProtocolInv`, which ties every Reconcile
  to the stored phase, needs a current cache in any case.
- *Lagging workload cache* (`:214`; add `"workload"` to `single`): a cached
  `status.replicas` of 0 from before the pods were created lets
  `reconcileScalingDown` pass: `ExclusiveRestore` fails.
- *A failed clean-up call* (`:512`; add `"cleanup"` to `Faults` of `single`): it is
  logged and never repeated: `WorkloadHandedBack` fails.
- *The failure path* (`:505`) scales up before it resumes and has no ConfigMap
  gate, so a sidecar may start on `dbs: []`. It recovers with the next restart of
  the container, which is why `WorkloadHandedBack` holds.
- *A restore recreated before its predecessor's Job is collected* (`:233`), or
  while a Reconcile of its predecessor is in progress (`:807`), reports the work
  of the other, against the comment of `status.jobName`: `OwnRestore` and
  `IdentityInv` except exactly these two cases (`leftBehind`). The default
  deletion is one way into them, as the garbage collector works in the background.
- *A restore named like its source* (`:701`): both ConfigMaps are
  `<name>-litestream`. The owner check of `SetControllerReference` protects the
  source's, so that no Job reads it (`OwnConfig`), and stops the restore for good,
  with the workload at 0; `RestoreEnds` of `RestoreIdentity` excepts it.

The replica controller (`litestreamreplica_controller.go`):

- *Ready condition* (`:394`): in phase Error it keeps its last value, also True,
  beside `ready: false`; `StatusCoherent` speaks of the other phases.
- *ArchiveCheckFailed* (`:544`) is withdrawn between two attempts of a blocked init
  container; `StatusConverges` accepts both values.
- *observedGeneration* (`:256`): the patch of the init-SQL hash decodes the current
  object into `db`, so a newer generation may be recorded as observed; the next
  Reconcile corrects it.
- *Pause* (`:133`) does not reach a sidecar that is running. A restore is safe from
  this because it scales the workload down; the manual use of the annotation is
  not.
- *skip-archive-check* (`:476`) is cleared on a running sidecar container, which
  may not have made its state directory: a pod evicted just then leaves the
  restored database to an archive check that blocks it.
- *Annotations on workloads* have one owner at a time (`:288`): two replicas of one
  workload rewrite it for ever, with a rollout each time. They are never removed
  (`:293`): a former target keeps its sidecar, and after the deletion of the
  LitestreamReplica the webhook refuses every new pod of it. The replica count is
  checked when they are added (`:272`): scaling up later gives two writers.

The injected containers (`sidecar_injector.go`):

- *Init SQL* (`:491`): the comment at `:470-471` says that the container "applies
  InitSQL to the database exactly once". The SQL and its marker are two commands,
  and the second runs whatever the first returned: the SQL may be applied twice (a
  kill between them, or two pods) or have failed for good. `InitSQLApplied` says
  only that it was tried.
- *Auto-restore* (`:412`) counts any error, also that of a paused configuration, as
  "no backup": the lapse `fresh`.
- *A left-over state directory* (`:340`) makes the archive check accept the next
  database: the lapse `stateDir`. litestream's documentation, cited there, asks
  users to delete both.
- *Order of nested mounts* (`:545-548`): the comment at `:155` says "The sidecar
  shares the volume that already mounts the database path", but the first mount
  that covers the path is taken. With one volume at `/data` listed before another
  at `/data/db`, and the database path `/data/db`, the sidecar shares the volume of
  `/data` and watches a directory the application does not use. `MountedAt`, the
  condition of `WatchesDatabase`, rules out just this order; with the two mounts
  the other way round the property holds.
- *subPath mounts, and volumes mounted only above the path* (`:177`): the sidecar
  mounts the root of the volume at the database path, whatever part of it the
  application has there. The restore Job mounts its PVC in the same way.
- *A changed databasePath* (`litestreamreplica_controller.go:158`): `litestream.yml`
  follows the spec at once, while a pod keeps the mount of its injection and is not
  rolled out again, since the template's annotation holds only the name of the
  LitestreamReplica. A sidecar that restarts in between looks for the database where
  nothing is mounted. `WatchesDatabase` speaks of the mount, not of the file that
  `litestream.yml` names.

### Fairness

`single` assumes: a worker finishes the Reconcile it has begun (weak fairness of
`RestoreStep` and of the replica controller); a restore that is not final is
reconciled again and again (strong fairness of `Reconcile(r)`, since the one
worker serves a FIFO queue to which each request returns by `RequeueAfter`,
back-off or a watch event; the worker is idle again and again, but not
continuously); the LitestreamReplica is reconciled at least every
`statusSyncInterval`; informers, workload controller, kubelet, Job controller and
garbage collector go on. Users, events and failures are never owed.

The other modules assume the same of their parts. `ReplicaStatus`: weak fairness
of the one worker, of the informers and of the workload controller and kubelet.
`PodStartup`: weak fairness of each pod's next command; clearing the skip
annotation is not owed. `Injection`: each LitestreamReplica is reconciled again
(`RequeueAfter`, or back-off after an error), and each workload is rolled out.
`RestoreIdentity`: weak fairness of the worker, the collector and the Jobs, and
strong fairness of the end of a foreground deletion, which a Reconcile in
progress disables again and again but never for ever.

## Theorems

All are proved for every set of restores and pods, every replica bound, and
every choice of lag, events and failures except where an assumption is named.

The assumptions on constants (`ClusterAssumption`, `InjectionAssumption`, ...) are
evaluated by TLC in every run; the others are the named conditions below.

The restore (`ProtocolProofs`, `HandoverProofs`, `ExclusiveProofs`):

- `TypeCorrect`: `Spec => []TypeOK`. From `ClusterAssumption` alone.
- `ProtocolInvariant`: `Spec => []ProtocolInv`, if the LitestreamRestore cache
  does not lag. `ValidatedBeforeScaleUp` is not inductive by itself: a status
  write decided by an earlier read must still be right when it happens.
  `StepInv` ties the step of a Reconcile in progress to the phase its restore
  has, and a pending status write to the Job result it stands for;
  `CachedSuccessInv` says that a success seen in the (possibly lagging) Job cache
  is one on the API server.
- `ValidatedBeforeScaleUpHolds`: `Spec => []ValidatedBeforeScaleUp`, from
  `ProtocolInv`.
- `OperatorImplementsProtocol`: `Spec => RestoreProtocolKept`. Every step of the
  composed system is a step of `RestoreProtocol` or leaves phases and Jobs alone,
  with `phase` mapped to `restore[r].phase`; ProtocolInv supplies the guards, and
  with it the assumption on the cache, which the theorem needs (Known limits).
- `JobInvariant`: `Spec => []JobInv`, if the caches of restores and Jobs do not
  lag. `JobInv` completes `ProtocolInv` where it says nothing of failure: a Running
  restore has its Job, the validation Job comes after it, and
  `failRestoreWithCleanup` works for a Job that failed, not for one that was not
  found. The theorems on the pause rest on it.
- `OutcomeInvariant`, `OutcomeEarnedHolds`, `EndedMeansJobsFinishedHolds`:
  `Spec => []OutcomeEarned` and `Spec => []EndedMeansJobsFinished` for any number
  of restores, also with a lagging LitestreamRestore cache, if the Job cache does
  not lag and the LitestreamReplica is neither disabled nor deleted and can be read
  (`SourceKept`): otherwise `failRestore` ends a restore beside its Job.
  `OutcomeInv` says that whatever a phase claims of the Jobs (`Stands`) is true, of
  the stored phase, of the cached one, and of what the Reconcile in progress is
  about to write. As Jobs only move forward (`Progress`), a claim that was true
  when an old copy was made is still true when a handler acts on it.
- `OriginalReplicasFaithfulHolds`: `Spec => []OriginalReplicasFaithful` for one
  restore of a workload that nobody else scales or deletes (`SoleScaler`);
  Deployments, a lagging workload cache and any crash are allowed. What is
  recorded was read earlier, perhaps from the cache: `CountInv` says that until the
  status holds a count, the workload, its cached copy and the count in hand are
  all original. With a second restore this is the finding of `pair_replicas`.
- `HeldInvariant`, `PausedWhileRestoringHolds`: `Spec => []HeldInv` and
  `Spec => []PausedWhileRestoring` for one restore, if
  nobody deletes it or its LitestreamReplica or removes the pause by hand
  (`SoleResumer`). The hard part is the other controller, which may write the full
  ConfigMap from a copy read before the pause: `HeldInv` says that once the restore
  has seen the empty ConfigMap no Reconcile in progress, no cached copy of the
  LitestreamReplica and no pending write can undo it, and that the restore resumes
  only when its Jobs are over (`JobInv`).
- `ExclusiveInvariant`, `ExclusiveRestoreHolds`: `Spec => []ExclusiveInv` and
  `Spec => []ExclusiveRestore` if the restore is `Undisturbed`: it is the only one; the workload is a StatefulSet that nobody
  else scales or deletes; nobody deletes the restore; the caches of restores,
  workload and Jobs do not lag. Failures and crashes, evictions, deletion, pausing
  and disabling of the LitestreamReplica, and lag of the other caches are allowed.
  `ExclusiveRestore` only speaks of the moment a Job runs, so `ExclusiveInv`
  carries it through a restore: `QuietPhase` says from which phase on the
  workload asks for no pod and has none, and that a `Running` restore has a Job;
  `QuietStep` says that what a Reconcile saw (no pods, no validation Job, a failed
  Job) still holds at its next call, so that the clean-up scales up only after
  the Jobs have ended. `NoPodAtZero` is the fact about cardinality it needs.
  `ProtocolInv` supplies the phase each step works on. The assumption on the
  restore cache is there because `ProtocolInv` needs it (TLC finds no violation of
  `ExclusiveRestore` without it, see `single`). Dropping any other assumption on
  the `exclusive` instance gives a counterexample: two restores scale up under
  each other; a lagging Job or workload cache, or a Deployment, as described
  above; a user who scales the workload up; a deleted workload, which
  `reconcileScalingDown` takes for one without pods; a restore that is deleted
  while a Reconcile repeats its interrupted clean-up, which finds its validation
  Job collected and creates a new one.
- `CleanStartAfterRestoreHolds`: `Spec => []CleanStartAfterRestore` under
  `CleanHandover`: the restore is `Undisturbed`, the workload has at most one
  replica, the pod list is not stale, no pod is evicted, and nobody sets or removes
  the pause by hand or deletes the LitestreamReplica. Failures and crashes, and lag
  of the caches of LitestreamReplica and ConfigMap, are allowed. `CleanInv` follows
  the hand-over back: `ResumeSpreads` is the mirror image of the pause in `HeldInv`
  (after the resume is seen, no old copy can empty the ConfigMap again);
  `SkipKept` says that skip-archive-check stays until a sidecar runs in a pod that
  will stay, and `PodClean` that no pod made after the scale-up carries an archive
  check. With one replica the pod with the sidecar fills the workload, so none is
  made after the annotation is cleared (`OneLivePod`). On an instance with one
  restore, one replica, lag of those two caches and every fault TLC finds a
  counterexample when evictions, manual pausing or resuming, a scaling user, a
  deleted workload, a Deployment, a second restore or a lagging Job
  or workload cache are allowed. It finds none with two replicas or a deleted
  LitestreamReplica: these two assumptions are the proof's (`OneLivePod`, `HeldInv`).
  A pod list from before the scale-down would let `clearSkip` happen too early.

The status (`StatusProofs`):

- `StatusTypeCorrect`: `Spec => []TypeOK` for `ReplicaStatus`, with the bound on
  generations that a bounded number of spec changes gives (`GenerationInv`).
- `StatusCoherentHolds`: `Spec => []StatusCoherent`. A merge patch combines the
  copy in hand with what it was computed from, so the copies must be coherent too:
  `CoherentInv` says so of the stored status, of the cached one, of the one in hand
  and of the one the patch is computed from, while no patch was mixed.

The pods (`StartupProofs`):

- `StartupTypeOK`: `Spec => []TypeOK` for `PodStartup`, for any sets of pods and
  databases, with or without init SQL; the integrity check always has a file.
- `ChainInvariant`, `BackupChain`: `Spec => []ChainInv` and
  `Spec => BackupChainKept`. `BackupChainKept` speaks of one upload; what makes it
  hold is decided several steps and possibly several pods earlier, so `ChainInv`
  says of every pod past its check, and of every state directory, that the volume
  holds the backed up database or there is no backup, unless a lapse happened
  since it last did.
- `InitSQLAppliedHolds`: `Spec => []InitSQLApplied`, by `SQLInv`: where the
  marker exists, where a pod is about to create it, or where a pod is past its
  init-SQL container, the SQL was tried; nothing but a wipe without pods takes that
  back.
- `AutoRestoredHolds`: `Spec => AutoRestored`, an action property. `FileInv` says
  that a pod past its checks on a volume without a file is excused (the check was
  skipped or the restore failed), and the lemma
  `FileWriters` names the only steps that create one.
- `StaysRecoverableHolds`: `Spec => StaysRecoverable`, the safety half of
  `NeverLockedOut`.

The injection (`InjectionProofs`):

- `InjectionTypeCorrect`: `Spec => []TypeOK`. `SpecsAssumption` is what the API
  schema says of the target fields.
- `WatchesDatabaseHolds`: `Spec => []WatchesDatabase`, for every pod template that
  satisfies `MountedAt`: a whole volume at the path, and no mount of another volume
  above the path before it in the list. The code takes the first mount that covers
  the path (`FoundMountIsFirst`), the application sees the deepest (`DeepestIsAt`):
  the two may be different mounts, but then of the same volume.
  `LayoutsAssumption` (a container mounts one volume per path) is enforced by the
  API server.

The identity of restores (`IdentityProofs`):

- `IdentityTypeOK`: for any number of incarnations, deletion policies and
  interleavings.
- `IdentityInvariant`, `OwnRestoreHolds`: `Spec => []IdentityInv`,
  `Spec => []OwnRestore`. The invariant ties every Job and the Reconcile in
  progress to the restore that has the name, and every phase, also one about to be
  written, to the Jobs that earn it, for a restore that was created when no Job had
  its name and no Reconcile was in progress.
- `OwnConfigHolds`: `Spec => []OwnConfig`, without that condition. `OwnConfigInv`
  adds that nothing belongs to a restore still to be created and that a Reconcile
  of the present restore which is about to create its Job has its ConfigMap: only
  the collector could take it, and only from a restore that is going.

Model-checked only:

- liveness (`RestoreEnds`, `WorkloadHandedBack`, `SkipCleared`, `StatusConverges`,
  `EveryTargetInjected`, the second half of `NeverLockedOut`): fairness and ENABLED
  are outside the prover.

Every safety property that a passing run checks is stated by a theorem;
`single` checks `RestoreProtocolKept` with a lagging LitestreamRestore cache, which
the theorem about it excludes.

## Not modelled

- a restore into a PVC other than the workload's, `force`, `timestamp`;
- the surge pods of a Deployment's rolling update in `Injection` (`PodStartup` has
  two pods on one volume at a time);
- `lastBackup` and `replicationLag`, which no code writes;
- the content of Job and container specs (images, credentials, resources, users),
  log fetching, events, messages, times, admission warnings;
- leader election: one active manager is assumed; flags, TLS and probes of
  `cmd/main.go`, which is start-up I/O;
- Helm chart and manifests; generated code.

## Plan

1. *Done:* `Cluster`, `RestoreController`, `ReplicaController`, `Operator`, the
   protocol and its refinement; types, protocol and exclusive access proved.
2. *Done:* `ReplicaStatus`, `PodStartup`, `Injection`, `RestoreIdentity`; the
   backup chain and the identity of restores proved.
3. *Done:* the safety properties of every module proved.
4. Weaker assumptions where TLC finds no counterexample without them:
   `ExclusiveRestore` with a lagging LitestreamRestore cache,
   `CleanStartAfterRestore` with two replicas.
