--------------------------- MODULE ReplicaStatus ---------------------------
(***************************************************************************)
(* The whole LitestreamReplicaReconciler: ReplicaController together with  *)
(* the init-SQL ConfigMap and the status of the LitestreamReplica.  A      *)
(* status write is a JSON merge patch: the fields in which the new status  *)
(* differs from the copy the Reconcile read, whatever the API server holds *)
(* by then; the list of conditions is one such field.                      *)
(***************************************************************************)
EXTENDS ReplicaController

CONSTANT SQLs      \* the values of spec.initSQL

NoSQL == "no SQL"  \* spec.initSQL is empty

ASSUME ReplicaStatusAssumption ==
  /\ NoSQL \notin SQLs
  /\ Restores = {}
  /\ Lagging \subseteq {"db", "pod"}

VARIABLES
  cr,         \* the LitestreamReplica: generation, spec.initSQL and status
  cachedCR,   \* the same in the informer cache
  sqlCM,      \* init.sql in the init-SQL ConfigMap, or NoSQL if there is none
  mem,        \* the copy of cr the Reconcile in progress works on
  mixed       \* history: was a patch computed from an outdated status?

statusVars == <<cr, cachedCR, sqlCM, mem, mixed>>
vars == <<clusterVars, lc, statusVars>>

-----------------------------------------------------------------------------
ConditionTypes == {"SidecarInjected", "BackupHealthy", "InitSQLApplied",
                   "ReplicationPaused", "ArchiveCheckFailed",
                   "ReplicaCountExceeded", "Ready"}

Generations == 0..(MaxEvents + 1)

(* SHA-256 is taken as collision free: a hash is the sequence of the one     *)
(* text it was computed from, and no hash the empty sequence.                *)
initSQLHash(sql) == IF sql = NoSQL THEN <<>> ELSE <<sql>>
Hashes == {initSQLHash(sql) : sql \in SQLs \cup {NoSQL}}

Condition == [status : {"none", "False", "True"}, generation : Generations]

(* LitestreamReplicaStatus; no code writes lastBackup and replicationLag.    *)
Status == [phase : {"", "Pending", "Ready", "Paused", "Error"},
           ready : BOOLEAN, backupHealthy : BOOLEAN, initSQLHash : Hashes,
           observedGeneration : Generations,
           conditions : [ConditionTypes -> Condition]]

CR == [generation : Generations, initSQL : SQLs \cup {NoSQL}, status : Status]

Mem == [next : {"configMap", "hash", "done", "patch"}, base : Status, db : CR]

(* Every variable has its type; status.phase is one of the four values      *)
(* updateStatus writes, or empty.                                           *)
TypeOK ==
  /\ ClusterTypeOK
  /\ ReplicaControllerTypeOK
  /\ cr \in CR /\ cachedCR \in CR
  /\ sqlCM \in SQLs \cup {NoSQL}
  /\ mem \in Mem
  /\ mixed \in BOOLEAN

NoStatus == [phase |-> "", ready |-> FALSE, backupHealthy |-> FALSE,
             initSQLHash |-> <<>>, observedGeneration |-> 0,
             conditions |-> [t \in ConditionTypes |->
                               [status |-> "none", generation |-> 0]]]

NewCR(sql) == [generation |-> 1, initSQL |-> sql, status |-> NoStatus]

ReadCopy(obj) == [next |-> "configMap", base |-> obj.status, db |-> obj]

NoCopy == ReadCopy(NewCR(NoSQL))

Init ==
  /\ ClusterInit
  /\ ReplicaControllerInit
  /\ cr \in {NewCR(sql) : sql \in SQLs \cup {NoSQL}}
  /\ cachedCR = cr
  /\ sqlCM = NoSQL
  /\ mem = NoCopy
  /\ mixed = FALSE

-----------------------------------------------------------------------------
(* Status().Patch with client.MergeFrom.                                    *)
MergePatch(current, base, new) ==
  [f \in DOMAIN current |-> IF new[f] # base[f] THEN new[f] ELSE current[f]]

(* Every write of the status also needs the LitestreamReplica to exist; the *)
(* validating webhook is not asked about the status subresource.            *)
PatchStatus(base, new) ==
  /\ cr' = IF db.exists
             THEN [cr EXCEPT !.status = MergePatch(@, base, new)]
             ELSE cr
  /\ mixed' = (mixed \/ (db.exists /\ base # cr.status))

bool(b) == IF b THEN "True" ELSE "False"

(* setCondition and meta.RemoveStatusCondition, several conditions at once. *)
SetConditions(conditions, changes) ==
  [t \in ConditionTypes |->
     CASE t \notin DOMAIN changes -> conditions[t]
       [] t \in DOMAIN changes /\ changes[t] = "none" ->
            [status |-> "none", generation |-> 0]
       [] OTHER -> [status |-> changes[t], generation |-> mem.db.generation]]

(* The copy that was read is forgotten when Reconcile returns.              *)
KeepUnlessReturned(m) == mem' = IF lc'.step = "idle" THEN NoCopy ELSE m

GetCR == IF "db" \in Lagging THEN cachedCR ELSE cr

-----------------------------------------------------------------------------
(* Reconcile, its Get, and reconcileLitestreamConfig are those of           *)
(* ReplicaController.                                                       *)
Reconcile ==
  /\ ReconcileReplica
  /\ mem' = ReadCopy(GetCR)
  /\ UNCHANGED <<cr, cachedCR, sqlCM, mixed>>

LitestreamConfig ==
  /\ ReconcileLitestreamConfig
  /\ KeepUnlessReturned(mem)
  /\ UNCHANGED <<cr, cachedCR, sqlCM, mixed>>

(* reconcileInitSQLConfig: the ConfigMap is left in place when there is no  *)
(* init SQL (any more).                                                     *)
InitSQLConfigMap ==
  /\ LAt("annotate") /\ mem.next = "configMap"
  /\ sqlCM' = IF mem.db.initSQL = NoSQL THEN sqlCM ELSE mem.db.initSQL
  /\ mem' = [mem EXCEPT !.next = "hash"]
  /\ UNCHANGED <<clusterVars, lc, cr, cachedCR, mixed>>

InitSQLStatus ==
  LET hash == initSQLHash(mem.db.initSQL)
      applied == bool(mem.db.initSQL # NoSQL)
  IN  [mem.db.status EXCEPT
         !.initSQLHash = hash,
         !.conditions = SetConditions(@, [InitSQLApplied |-> applied])]

(* The hash and its condition are patched when they differ.  The answer to  *)
(* the patch is the whole current object, so the rest of the Reconcile works *)
(* on a newer LitestreamReplica than it read.                               *)
RecordInitSQLHash ==
  /\ LAt("annotate") /\ mem.next = "hash"
  /\ \/ /\ mem.db.status.initSQLHash = initSQLHash(mem.db.initSQL)
        /\ mem' = [mem EXCEPT !.next = "done"]
        /\ UNCHANGED <<lc, cr, mixed>>
     \/ /\ mem.db.status.initSQLHash # initSQLHash(mem.db.initSQL)
        /\ PatchStatus(mem.base, InitSQLStatus)
        /\ IF db.exists
             THEN lc' = [lc EXCEPT !.backup = db.backup, !.pause = db.pause,
                                   !.skip = db.skip]
             ELSE LReturn
        /\ KeepUnlessReturned([next |-> "done", base |-> cr'.status, db |-> cr'])
  /\ UNCHANGED <<clusterVars, cachedCR, sqlCM>>

TargetAnnotation ==
  /\ mem.next = "done"
  /\ ReconcileTargetAnnotation
  /\ KeepUnlessReturned(mem)
  /\ UNCHANGED <<cr, cachedCR, sqlCM, mixed>>

-----------------------------------------------------------------------------
(* updateStatus.  Each of the five outcomes names the fields it assigns;    *)
(* the early returns leave the others, the Ready condition among them, as   *)
(* they were.                                                               *)

Up(p) == CountedAsRunning(p) /\ pods[p].phase = "running"

(* A pod is ready when its containers are; one whose sidecar exits and is   *)
(* restarted may or may not be.                                             *)
ReadyReplicas(ready) ==
  IF ready THEN \E p \in Pods : Up(p)
           ELSE \A p \in Pods : Up(p) => SidecarIdle(pods[p])

With(phase, ready, changes) ==
  [mem.db.status EXCEPT
     !.observedGeneration = mem.db.generation,
     !.phase = phase,
     !.ready = ready,
     !.conditions = SetConditions(@, changes)]

WorkloadNotFound ==
  [With("Error", FALSE, [SidecarInjected |-> "False", BackupHealthy |-> "False",
                         Ready |-> "False"])
     EXCEPT !.backupHealthy = FALSE]

(* Mutant: the flag is left as it was.                                      *)
TooManyReplicasStillReady ==
  With("Error", mem.db.status.ready, [ReplicaCountExceeded |-> "True"])

TooManyReplicas == With("Error", FALSE, [ReplicaCountExceeded |-> "True"])

ArchiveCheckFailed ==
  With("Error", FALSE, [ReplicaCountExceeded |-> "none",
                        ReplicationPaused |-> bool(lc.pause),
                        ArchiveCheckFailed |-> "True"])

(* Mutant: the phase constant that no code uses.                            *)
PhaseForConfiguring(ready) ==
  CASE lc.pause -> "Paused" [] ready -> "Ready" [] OTHER -> "Configuring"

(* A paused LitestreamReplica is never ready.                               *)
PhaseFor(ready) ==
  CASE lc.pause -> "Paused" [] ready -> "Ready" [] OTHER -> "Pending"

(* Mutant: the ReplicaCountExceeded condition is not removed again.         *)
InspectedKeepingExceeded(running, replicas) ==
  LET healthy == lc.backup /\ running
      ready == ~lc.pause /\ GetWorkload.injected /\ replicas
  IN  [With(PhaseFor(ready), ready,
            [ReplicationPaused |-> bool(lc.pause),
             ArchiveCheckFailed |-> "False",
             SidecarInjected |-> bool(GetWorkload.injected),
             BackupHealthy |-> bool(healthy),
             Ready |-> bool(ready)])
         EXCEPT !.backupHealthy = healthy]

Inspected(running, replicas) ==
  LET healthy == lc.backup /\ running
      ready == ~lc.pause /\ GetWorkload.injected /\ replicas
  IN  [With(PhaseFor(ready), ready,
            [ReplicaCountExceeded |-> "none",
             ReplicationPaused |-> bool(lc.pause),
             ArchiveCheckFailed |-> "False",
             SidecarInjected |-> bool(GetWorkload.injected),
             BackupHealthy |-> bool(healthy),
             Ready |-> bool(ready)])
         EXCEPT !.backupHealthy = healthy]

StatusSeeing(failed, running, replicas) ==
  CASE ~GetWorkload.exists -> WorkloadNotFound
    [] GetWorkload.exists /\ GetWorkload.spec > 1 -> TooManyReplicas
    [] GetWorkload.exists /\ GetWorkload.spec <= 1 /\ failed -> ArchiveCheckFailed
    [] OTHER -> Inspected(running, replicas)

(* The patch is the last call of updateStatus, after clearSkipArchiveCheck. *)
WriteStatus ==
  \E failed, running, replicas \in BOOLEAN :
    LET status == StatusSeeing(failed, running, replicas)
    IN  /\ UpdateStatusSeeing(failed, running)
        /\ ReadyReplicas(replicas)
        /\ KeepUnlessReturned([mem EXCEPT !.base = mem.db.status, !.db.status = status])
        /\ IF lc'.step = "idle" THEN PatchStatus(mem.db.status, status)
                                ELSE UNCHANGED <<cr, mixed>>
        /\ UNCHANGED <<cachedCR, sqlCM>>

ClearSkip ==
  /\ LAt("clearSkip") /\ mem.next = "done"
  /\ ClearSkipPatch
  /\ mem' = [mem EXCEPT !.next = "patch"]
  /\ UNCHANGED <<cm, workload, pods, volume, restore, restoreCM, job, cache, events, faults,
                 lc, cr, cachedCR, sqlCM, mixed>>

WriteStatusAfterClear ==
  /\ LAt("clearSkip") /\ mem.next = "patch"
  /\ PatchStatus(mem.base, mem.db.status)
  /\ LReturn
  /\ mem' = NoCopy
  /\ UNCHANGED <<clusterVars, cachedCR, sqlCM>>

Interrupted ==
  /\ ReplicaInterrupted
  /\ KeepUnlessReturned(mem)
  /\ UNCHANGED <<cr, cachedCR, sqlCM, mixed>>

ReconcileStep ==
  \/ LitestreamConfig
  \/ InitSQLConfigMap \/ RecordInitSQLHash
  \/ TargetAnnotation
  \/ WriteStatus \/ ClearSkip \/ WriteStatusAfterClear

-----------------------------------------------------------------------------
(* A change of the spec is a new generation; one of an annotation is not.   *)
UserInitSQL(sql) ==
  /\ Happens("initSQL")
  /\ PatchSucceeds /\ cr.initSQL # sql
  /\ cr' = [cr EXCEPT !.initSQL = sql, !.generation = @ + 1]
  /\ UNCHANGED <<apiVars, cache, faults, lc, cachedCR, sqlCM, mem, mixed>>

UserSkip ==
  /\ Happens("skip")
  /\ PatchSucceeds /\ ~db.skip
  /\ SetSkip(TRUE)
  /\ UNCHANGED <<cm, workload, pods, volume, restore, restoreCM, job, cache, faults,
                 lc, statusVars>>

Environment ==
  /\ WorkloadNext \/ UserNext \/ CollectorNext
  /\ cr' = IF db'.backup # db.backup THEN [cr EXCEPT !.generation = @ + 1] ELSE cr
  /\ UNCHANGED <<lc, cachedCR, sqlCM, mem, mixed>>

Sync(k) ==
  /\ CacheSync(k)
  /\ cachedCR' = IF k = "db" THEN cr ELSE cachedCR
  /\ UNCHANGED <<lc, cr, sqlCM, mem, mixed>>

CollectSQL ==
  /\ ~db.exists /\ sqlCM # NoSQL
  /\ sqlCM' = NoSQL
  /\ UNCHANGED <<clusterVars, lc, cr, cachedCR, mem, mixed>>

Next ==
  \/ Reconcile \/ ReconcileStep \/ Interrupted
  \/ Environment
  \/ \E sql \in SQLs \cup {NoSQL} : UserInitSQL(sql)
  \/ UserSkip
  \/ \E k \in Lagging : Sync(k)
  \/ CollectSQL

Spec == Init /\ [][Next]_vars

(* A LitestreamReplica is queued again at least every statusSyncInterval    *)
(* and after every error; informers, the workload controller and the        *)
(* kubelet keep working.                                                    *)
Fairness ==
  /\ WF_vars(Reconcile \/ ReconcileStep)
  /\ WF_vars(WorkloadNext /\ Environment)
  /\ \A k \in Lagging : WF_vars(Sync(k))

FairSpec == Spec /\ Fairness

-----------------------------------------------------------------------------
Holds(t) == cr.status.conditions[t].status = "True"

(* The status tells one story, whatever branch of updateStatus wrote it and *)
(* whatever earlier branches left behind: the flag and the phase agree, the  *)
(* backup flag and its condition agree, outside of errors the flag mirrors   *)
(* the Ready condition, and a condition that stands for an error or a pause  *)
(* never survives beside a phase that denies it; unless a patch computed     *)
(* from an outdated status has mixed two of them.                            *)
StatusCoherent ==
  ~mixed =>
    /\ cr.status.ready <=> cr.status.phase = "Ready"
    /\ cr.status.backupHealthy <=> Holds("BackupHealthy")
    /\ cr.status.phase # "Error" => (cr.status.ready <=> Holds("Ready"))
    /\ cr.status.phase \notin {"", "Error"} =>
         /\ ~Holds("ReplicaCountExceeded") /\ ~Holds("ArchiveCheckFailed")
         /\ Holds("ReplicationPaused") <=> cr.status.phase = "Paused"
    /\ Holds("InitSQLApplied") <=> cr.status.initSQLHash # <<>>

(* Is the status what the spec, the annotations, the workload and the pods  *)
(* say now?  A blocked pod is reported as Error or, between two attempts of *)
(* its archive check, as not ready.                                         *)
Blocked == db.backup /\ \E p \in Pods : pods[p].phase = "blocked"

Expected ==
  CASE workload.spec > 1 -> {"Error"}
    [] workload.spec <= 1 /\ db.pause ->
         {"Paused"} \cup (IF Blocked THEN {"Error"} ELSE {})
    [] workload.spec <= 1 /\ ~db.pause /\ Blocked -> {"Error", "Pending"}
    [] OTHER -> {IF workload.injected /\ replicas THEN "Ready" ELSE "Pending" :
                   replicas \in {b \in BOOLEAN : ReadyReplicas(b)}}

InSync ==
  /\ sqlCM = cr.initSQL \/ cr.initSQL = NoSQL
  /\ cr.status.initSQLHash = initSQLHash(cr.initSQL)
  /\ Holds("InitSQLApplied") => cr.initSQL # NoSQL
  /\ cr.status.observedGeneration = cr.generation
  /\ cr.status.phase \in Expected
  /\ cr.status.ready <=> cr.status.phase = "Ready"
  /\ cr.status.phase # "Error" => (cr.status.ready <=> Holds("Ready"))
  /\ Holds("ReplicaCountExceeded") <=> workload.spec > 1
  /\ workload.spec <= 1 => (Holds("ReplicationPaused") <=> db.pause)

(* Once users, nodes and failures leave it alone, the status of a           *)
(* LitestreamReplica with a workload comes to agree with the cluster and    *)
(* stays so, although every patch is computed against a copy that may be    *)
(* stale and carries only the fields that differ from it.                   *)
StatusConverges == <>[](db.exists /\ workload.exists => InSync)

(* updateStatus is meant to report a workload that does not exist: phase    *)
(* Error with reason WorkloadNotFound.                                      *)
WorkloadGoneReported ==
  db.exists /\ ~workload.exists ~> cr.status.phase = "Error" \/ ~db.exists
=============================================================================
