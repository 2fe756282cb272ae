---------------------------- MODULE StatusProofs ----------------------------
(***************************************************************************)
(* The status of a LitestreamReplica keeps its type and tells one story,   *)
(* for every number of pods and replicas, any init SQL, every event and    *)
(* every failure.                                                          *)
(***************************************************************************)
EXTENDS ReplicaStatus, ClusterProofs

USE DEF clusterVars, apiVars

-----------------------------------------------------------------------------
(* Merge patches. *)

(* The fields of a status. *)
LEMMA StatusFields ==
  ASSUME NEW s \in Status
  PROVE  DOMAIN s = {"phase", "ready", "backupHealthy", "initSQLHash",
                     "observedGeneration", "conditions"}
  BY DEF Status

(* A merge patch of statuses gives a status, and one computed from the      *)
(* current status gives exactly what was wanted.                            *)
LEMMA MergePatches ==
  ASSUME NEW current \in Status, NEW base \in Status, NEW new \in Status
  PROVE  /\ MergePatch(current, base, new) \in Status
         /\ base = current => MergePatch(current, base, new) = new
<1>1. MergePatch(current, base, new) \in Status
  BY StatusFields DEF MergePatch, Status
<1>2. base = current => MergePatch(current, base, new) = new
  BY StatusFields DEF MergePatch, Status
<1>. QED
  BY <1>1, <1>2

-----------------------------------------------------------------------------
(* Types. *)

(* Conditions keep their type when some of them are set or removed. *)
LEMMA ConditionsType ==
  ASSUME NEW conditions \in [ConditionTypes -> Condition], NEW changes,
         mem.db.generation \in Generations,
         \A t \in DOMAIN changes : changes[t] \in {"none", "False", "True"}
  PROVE  SetConditions(conditions, changes) \in [ConditionTypes -> Condition]
<1>1. 0 \in Generations
  BY ClusterAssumption DEF Generations
<1>. QED
  BY <1>1 DEF SetConditions, Condition

(* updateStatus writes a status, whatever it has seen. *)
LEMMA StatusSeeingType ==
  ASSUME TypeOK,
         NEW failed \in BOOLEAN, NEW running \in BOOLEAN, NEW replicas \in BOOLEAN
  PROVE  StatusSeeing(failed, running, replicas) \in Status
<1>1. /\ mem.db.status \in Status /\ mem.db.generation \in Generations
      /\ mem.db.status.conditions \in [ConditionTypes -> Condition]
  BY DEF TypeOK, Mem, CR, Status
<1>2. ASSUME NEW phase \in {"Pending", "Ready", "Paused", "Error"}, NEW ready \in BOOLEAN,
             NEW changes, \A t \in DOMAIN changes : changes[t] \in {"none", "False", "True"}
      PROVE  With(phase, ready, changes) \in Status
  <2>1. SetConditions(mem.db.status.conditions, changes) \in [ConditionTypes -> Condition]
    BY <1>1, <1>2, ConditionsType
  <2>. QED
    BY <1>1, <2>1 DEF With, Status
<1>3. WorkloadNotFound \in Status
  <2>. DEFINE changes == [SidecarInjected |-> "False", BackupHealthy |-> "False",
                          Ready |-> "False"]
  <2>1. \A t \in DOMAIN changes : changes[t] \in {"none", "False", "True"}
    OBVIOUS
  <2>2. With("Error", FALSE, changes) \in Status
    BY <1>2, <2>1
  <2>. QED
    BY <2>2 DEF WorkloadNotFound, Status
<1>4. TooManyReplicas \in Status
  <2>. DEFINE changes == [ReplicaCountExceeded |-> "True"]
  <2>1. \A t \in DOMAIN changes : changes[t] \in {"none", "False", "True"}
    OBVIOUS
  <2>. QED
    BY <1>2, <2>1 DEF TooManyReplicas
<1>5. ArchiveCheckFailed \in Status
  <2>. DEFINE changes == [ReplicaCountExceeded |-> "none",
                          ReplicationPaused |-> bool(lc.pause),
                          ArchiveCheckFailed |-> "True"]
  <2>1. \A t \in DOMAIN changes : changes[t] \in {"none", "False", "True"}
    BY DEF bool
  <2>. QED
    BY <1>2, <2>1 DEF ArchiveCheckFailed
<1>6. Inspected(running, replicas) \in Status
  <2>. DEFINE healthy == lc.backup /\ running
              ready == ~lc.pause /\ GetWorkload.injected /\ replicas
              changes == [ReplicaCountExceeded |-> "none",
                          ReplicationPaused |-> bool(lc.pause),
                          ArchiveCheckFailed |-> "False",
                          SidecarInjected |-> bool(GetWorkload.injected),
                          BackupHealthy |-> bool(healthy),
                          Ready |-> bool(ready)]
  <2>1. healthy \in BOOLEAN /\ ready \in BOOLEAN
    OBVIOUS
  <2>2. PhaseFor(ready) \in {"Pending", "Ready", "Paused", "Error"}
    BY DEF PhaseFor
  <2>3. \A t \in DOMAIN changes : changes[t] \in {"none", "False", "True"}
    BY DEF bool
  <2>4. With(PhaseFor(ready), ready, changes) \in Status
    BY <1>2, <2>1, <2>2, <2>3
  <2>. HIDE DEF healthy, ready, changes
  <2>5. [With(PhaseFor(ready), ready, changes) EXCEPT !.backupHealthy = healthy] \in Status
    BY <2>1, <2>4 DEF Status
  <2>. QED
    BY <2>5 DEF Inspected, healthy, ready, changes
<1>. QED
  BY <1>3, <1>4, <1>5, <1>6 DEF StatusSeeing

(* The hash of an init SQL is a hash. *)
LEMMA HashType ==
  ASSUME NEW sql \in SQLs \cup {NoSQL}
  PROVE  initSQLHash(sql) \in Hashes
  BY DEF Hashes

(* So does recording the hash of the init SQL. *)
LEMMA InitSQLStatusType ==
  ASSUME TypeOK
  PROVE  InitSQLStatus \in Status
<1>1. /\ mem.db.status \in Status /\ mem.db.generation \in Generations
      /\ mem.db.status.conditions \in [ConditionTypes -> Condition]
      /\ mem.db.initSQL \in SQLs \cup {NoSQL}
  BY DEF TypeOK, Mem, CR, Status
<1>. DEFINE changes == [InitSQLApplied |-> bool(mem.db.initSQL # NoSQL)]
<1>2. \A t \in DOMAIN changes : changes[t] \in {"none", "False", "True"}
  BY DEF bool
<1>3. SetConditions(mem.db.status.conditions, changes) \in [ConditionTypes -> Condition]
  BY <1>1, <1>2, ConditionsType
<1>4. initSQLHash(mem.db.initSQL) \in Hashes
  BY <1>1, HashType
<1>. QED
  BY <1>1, <1>3, <1>4 DEF InitSQLStatus, Status

(* A fresh LitestreamReplica, and the copy a Reconcile works on, have their *)
(* types.                                                                   *)
LEMMA CopyTypes ==
  /\ \A sql \in SQLs \cup {NoSQL} : NewCR(sql) \in CR
  /\ \A obj \in CR : ReadCopy(obj) \in Mem
  /\ NoCopy \in Mem
<1>1. 0 \in Generations /\ 1 \in Generations
  BY ClusterAssumption DEF Generations
<1>2. <<>> \in Hashes
  BY DEF Hashes, initSQLHash
<1>3. NoStatus \in Status
  BY <1>1, <1>2 DEF NoStatus, Status, Condition
<1>4. \A sql \in SQLs \cup {NoSQL} : NewCR(sql) \in CR
  BY <1>1, <1>3 DEF NewCR, CR
<1>5. \A obj \in CR : ReadCopy(obj) \in Mem
  BY DEF ReadCopy, Mem, CR
<1>. QED
  BY <1>4, <1>5 DEF NoCopy

(* A patch of the status leaves a LitestreamReplica of the same generation. *)
LEMMA PatchStatusType ==
  ASSUME TypeOK, NEW base \in Status, NEW new \in Status, PatchStatus(base, new)
  PROVE  cr' \in CR /\ cr'.generation = cr.generation /\ mixed' \in BOOLEAN
<1>1. cr \in CR /\ cr.status \in Status
  BY DEF TypeOK, CR
<1>2. MergePatch(cr.status, base, new) \in Status
  BY <1>1, MergePatches
<1>. QED
  BY <1>1, <1>2 DEF PatchStatus, CR

(* A generation is the number of changes of the spec, and each of them is   *)
(* an event.                                                                *)
GenerationInv == cr.generation <= events + 1

(* The initial state has the declared types. *)
LEMMA InitStatusType == Init => TypeOK /\ GenerationInv
<1>. SUFFICES ASSUME Init PROVE TypeOK /\ GenerationInv
  OBVIOUS
<1>1. ClusterTypeOK /\ ReplicaControllerTypeOK
  BY ClusterInitType
  DEF Init, ReplicaControllerInit, ReplicaControllerTypeOK, LCState, LIdle
<1>2. cr \in CR /\ cr.generation = 1 /\ events = 0
  BY CopyTypes DEF Init, NewCR, ClusterInit
<1>3. cachedCR = cr /\ sqlCM \in SQLs \cup {NoSQL} /\ mem \in Mem /\ mixed \in BOOLEAN
  BY CopyTypes DEF Init
<1>4. GenerationInv
  BY <1>2 DEF GenerationInv
<1>. QED
  BY <1>1, <1>2, <1>3, <1>4, Zenon DEF TypeOK

(* Each call of a LitestreamReplica's Reconcile keeps the types. *)
LEMMA ReconcileKeepsType ==
  ASSUME TypeOK, GenerationInv, Reconcile \/ ReconcileStep \/ Interrupted
  PROVE  TypeOK' /\ GenerationInv'
<1>1. /\ cr \in CR /\ cachedCR \in CR /\ mem \in Mem /\ mixed \in BOOLEAN
      /\ sqlCM \in SQLs \cup {NoSQL} /\ lc \in LCState /\ db \in DBState
  BY DEF TypeOK, ClusterTypeOK, ReplicaControllerTypeOK
<1>2. ASSUME NEW m \in Mem, KeepUnlessReturned(m) PROVE mem' \in Mem
  BY <1>2, CopyTypes DEF KeepUnlessReturned
<1>3. ReplicaControllerNext => ClusterTypeOK' /\ ReplicaControllerTypeOK'
  BY ReplicaControllerType DEF TypeOK
<1>4. CASE Reconcile
  <2>1. GetCR \in CR
    BY <1>1 DEF GetCR
  <2>2. mem' \in Mem
    BY <1>4, <2>1, CopyTypes DEF Reconcile
  <2>. QED
    BY <1>1, <1>3, <1>4, <2>2
    DEF Reconcile, ReplicaControllerNext, TypeOK, GenerationInv, ReconcileReplica
<1>5. CASE LitestreamConfig \/ TargetAnnotation \/ Interrupted
  <2>1. mem' \in Mem
    BY <1>1, <1>2, <1>5 DEF LitestreamConfig, TargetAnnotation, Interrupted
  <2>. QED
    BY <1>1, <1>3, <1>5, <2>1
    DEF LitestreamConfig, TargetAnnotation, Interrupted, ReplicaControllerNext, ReplicaStep,
        TypeOK, GenerationInv, ReconcileLitestreamConfig, ReconcileTargetAnnotation,
        ReplicaInterrupted
<1>6. CASE InitSQLConfigMap
  <2>1. mem' \in Mem /\ mem.db.initSQL \in SQLs \cup {NoSQL}
    BY <1>1, <1>6 DEF InitSQLConfigMap, Mem, CR
  <2>2. sqlCM' \in SQLs \cup {NoSQL}
    BY <1>1, <1>6, <2>1 DEF InitSQLConfigMap
  <2>. QED
    BY <1>1, <1>6, <2>1, <2>2
    DEF InitSQLConfigMap, TypeOK, GenerationInv, ClusterTypeOK, ReplicaControllerTypeOK,
        WorkloadObject
<1>7. CASE RecordInitSQLHash
  <2>1. CASE UNCHANGED <<lc, cr, mixed>> /\ mem' = [mem EXCEPT !.next = "done"]
    <3>1. mem' \in Mem
      BY <1>1, <2>1 DEF Mem
    <3>. QED
      BY <1>1, <1>7, <2>1, <3>1
      DEF RecordInitSQLHash, TypeOK, GenerationInv, ClusterTypeOK, ReplicaControllerTypeOK
  <2>2. CASE PatchStatus(mem.base, InitSQLStatus)
    <3>1. mem.base \in Status
      BY <1>1 DEF Mem
    <3>2. cr' \in CR /\ cr'.generation = cr.generation /\ mixed' \in BOOLEAN
      BY <2>2, <3>1, InitSQLStatusType, PatchStatusType
    <3>3. [next |-> "done", base |-> cr'.status, db |-> cr'] \in Mem
      BY <3>2 DEF Mem, CR
    <3>4. mem' \in Mem
      <4>1. mem' = [mem EXCEPT !.next = "done"] => mem' \in Mem
        BY <1>1 DEF Mem
      <4>. QED
        BY <1>2, <1>7, <3>3, <4>1 DEF RecordInitSQLHash
    <3>5. lc' \in LCState
      <4>1. [lc EXCEPT !.backup = db.backup, !.pause = db.pause, !.skip = db.skip] \in LCState
        BY <1>1 DEF LCState, DBState
      <4>2. LIdle \in LCState
        BY DEF LIdle, LCState
      <4>. QED
        BY <1>1, <1>7, <4>1, <4>2 DEF RecordInitSQLHash, LReturn
    <3>. QED
      BY <1>1, <1>7, <3>2, <3>4, <3>5
      DEF RecordInitSQLHash, TypeOK, GenerationInv, ClusterTypeOK, ReplicaControllerTypeOK
  <2>. QED
    BY <1>7, <2>1, <2>2 DEF RecordInitSQLHash
<1>8. CASE WriteStatus
  <2>. DEFINE Seen(failed, running, replicas) == StatusSeeing(failed, running, replicas)
  <2>0. PICK failed \in BOOLEAN, running \in BOOLEAN, replicas \in BOOLEAN :
          /\ UpdateStatusSeeing(failed, running)
          /\ KeepUnlessReturned([mem EXCEPT !.base = mem.db.status,
                                            !.db.status = Seen(failed, running, replicas)])
          /\ IF lc'.step = "idle"
               THEN PatchStatus(mem.db.status, Seen(failed, running, replicas))
               ELSE UNCHANGED <<cr, mixed>>
          /\ UNCHANGED <<cachedCR, sqlCM>>
    BY <1>8 DEF WriteStatus
  <2>. DEFINE status == StatusSeeing(failed, running, replicas)
  <2>1. /\ UpdateStatusSeeing(failed, running)
        /\ KeepUnlessReturned([mem EXCEPT !.base = mem.db.status, !.db.status = status])
        /\ IF lc'.step = "idle" THEN PatchStatus(mem.db.status, status)
                                ELSE UNCHANGED <<cr, mixed>>
        /\ UNCHANGED <<cachedCR, sqlCM>>
    BY <2>0
  <2>2. ClusterTypeOK' /\ ReplicaControllerTypeOK' /\ UNCHANGED events
    BY <1>3, <2>1 DEF ReplicaControllerNext, ReplicaStep, UpdateStatus, UpdateStatusSeeing
  <2>3. mem.db.status \in Status /\ status \in Status
    BY <1>1, StatusSeeingType DEF Mem, CR
  <2>4. cr' \in CR /\ cr'.generation = cr.generation /\ mixed' \in BOOLEAN
    BY <1>1, <2>1, <2>3, PatchStatusType
  <2>. HIDE DEF status
  <2>5. [mem EXCEPT !.base = mem.db.status, !.db.status = status] \in Mem
    <3>1. [mem.db EXCEPT !.status = status] \in CR
      BY <1>1, <2>3 DEF Mem, CR
    <3>. QED
      BY <1>1, <2>3, <3>1 DEF Mem
  <2>. QED
    BY <1>1, <1>2, <2>1, <2>2, <2>4, <2>5 DEF TypeOK, GenerationInv
<1>9. CASE ClearSkip
  <2>1. db' \in DBState
    BY <1>1, <1>9 DEF ClearSkip, ClearSkipPatch, SetSkip, DBState
  <2>2. ClusterTypeOK'
    BY <1>9, <2>1 DEF ClearSkip, TypeOK, ClusterTypeOK
  <2>3. mem' \in Mem
    BY <1>1, <1>9 DEF ClearSkip, Mem
  <2>. QED
    BY <1>1, <1>9, <2>2, <2>3
    DEF ClearSkip, TypeOK, ReplicaControllerTypeOK, GenerationInv
<1>10. CASE WriteStatusAfterClear
  <2>1. mem.base \in Status /\ mem.db.status \in Status
    BY <1>1 DEF Mem, CR
  <2>2. cr' \in CR /\ cr'.generation = cr.generation /\ mixed' \in BOOLEAN
    BY <1>10, <2>1, PatchStatusType DEF WriteStatusAfterClear
  <2>3. lc' \in LCState /\ mem' \in Mem
    BY <1>10, CopyTypes DEF WriteStatusAfterClear, LReturn, LIdle, LCState
  <2>. QED
    BY <1>1, <1>10, <2>2, <2>3
    DEF WriteStatusAfterClear, TypeOK, ClusterTypeOK, ReplicaControllerTypeOK, GenerationInv
<1>. QED
  BY <1>4, <1>5, <1>6, <1>7, <1>8, <1>9, <1>10 DEF ReconcileStep

(* So does everybody else. *)
LEMMA OthersKeepType ==
  ASSUME TypeOK, GenerationInv,
         \/ Environment \/ UserSkip \/ CollectSQL
         \/ \E sql \in SQLs \cup {NoSQL} : UserInitSQL(sql)
         \/ \E k \in Lagging : Sync(k)
  PROVE  TypeOK' /\ GenerationInv'
<1>1. /\ cr \in CR /\ cachedCR \in CR /\ sqlCM \in SQLs \cup {NoSQL}
      /\ cr.generation \in Generations /\ events \in 0..MaxEvents
      /\ db \in DBState /\ MaxEvents \in Nat
  BY ClusterAssumption DEF TypeOK, ClusterTypeOK, CR
<1>2. ASSUME events' = events + 1, events < MaxEvents
      PROVE  /\ cr.generation + 1 \in Generations /\ cr.generation + 1 <= events' + 1
             /\ events' \in 0..MaxEvents
  BY <1>1, <1>2 DEF GenerationInv, Generations
<1>3. CASE Environment
  <2>1. ClusterTypeOK'
    BY <1>3, ClusterType DEF Environment, ClusterNext, TypeOK
  <2>2. \/ events' = events /\ db'.backup = db.backup
        \/ events' = events + 1 /\ events < MaxEvents
    BY <1>1, <1>3
    DEF Environment, WorkloadNext, CreatePod, DeletePod, PodGone, StartPod, BlockPod,
        RestartSidecar, Replicate, UserNext, CreateRestore, DeleteRestore, UserScale,
        UserPause, UserBackup, DeleteDB, DeleteWorkload, EvictPod, WipeVolume,
        CollectorNext, CollectConfigMap, CollectRestore, Happens
  <2>3. cr' \in CR /\ GenerationInv'
    <3>1. CASE cr' = cr
      BY <1>1, <1>2, <2>2, <3>1 DEF GenerationInv, Generations
    <3>2. CASE cr' = [cr EXCEPT !.generation = @ + 1] /\ db'.backup # db.backup
      <4>1. cr' \in CR /\ cr'.generation = cr.generation + 1
        BY <1>1, <1>2, <2>2, <3>2 DEF CR
      <4>. QED
        BY <1>2, <2>2, <3>2, <4>1 DEF GenerationInv
    <3>. QED
      BY <1>3, <3>1, <3>2 DEF Environment
  <2>. QED
    BY <1>3, <2>1, <2>3 DEF Environment, TypeOK, ReplicaControllerTypeOK
<1>4. ASSUME NEW sql \in SQLs \cup {NoSQL}, UserInitSQL(sql) PROVE TypeOK' /\ GenerationInv'
  <2>1. events' = events + 1 /\ events < MaxEvents
    BY <1>4 DEF UserInitSQL, Happens
  <2>2. cr' \in CR /\ cr'.generation = cr.generation + 1
    BY <1>1, <1>2, <1>4, <2>1 DEF UserInitSQL, CR
  <2>3. GenerationInv' /\ ClusterTypeOK'
    BY <1>2, <1>4, <2>1, <2>2 DEF GenerationInv, UserInitSQL, TypeOK, ClusterTypeOK
  <2>. QED
    BY <1>4, <2>2, <2>3 DEF UserInitSQL, TypeOK, ReplicaControllerTypeOK
<1>5. CASE UserSkip
  <2>1. events' = events + 1 /\ events < MaxEvents /\ db' \in DBState
    BY <1>5, AnnotationTypes DEF UserSkip, Happens, TypeOK
  <2>2. ClusterTypeOK'
    BY <1>2, <1>5, <2>1 DEF UserSkip, TypeOK, ClusterTypeOK
  <2>3. GenerationInv'
    BY <1>1, <1>5, <2>1 DEF UserSkip, statusVars, GenerationInv, Generations
  <2>. QED
    BY <1>5, <2>2, <2>3 DEF UserSkip, statusVars, TypeOK, ReplicaControllerTypeOK
<1>6. ASSUME NEW k \in Lagging, Sync(k) PROVE TypeOK' /\ GenerationInv'
  <2>1. ClusterTypeOK' /\ UNCHANGED events
    BY <1>6, ClusterType, ClusterAssumption DEF Sync, ClusterNext, TypeOK, CacheSync
  <2>. QED
    BY <1>1, <1>6, <2>1 DEF Sync, TypeOK, ReplicaControllerTypeOK, GenerationInv
<1>7. CASE CollectSQL
  BY <1>1, <1>7
  DEF CollectSQL, TypeOK, ClusterTypeOK, ReplicaControllerTypeOK, GenerationInv
<1>. QED
  BY <1>3, <1>4, <1>5, <1>6, <1>7

(* The LitestreamReplica, its cached copy and the copy a Reconcile works on *)
(* keep their types: no merge patch and no branch of updateStatus writes a  *)
(* phase, a condition, a hash or a generation outside of its range.         *)
THEOREM StatusTypeCorrect == Spec => []TypeOK
<1>1. TypeOK /\ GenerationInv /\ [Next]_vars => TypeOK' /\ GenerationInv'
  <2>1. TypeOK /\ GenerationInv /\ UNCHANGED vars => TypeOK' /\ GenerationInv'
    BY DEF vars, statusVars, TypeOK, ClusterTypeOK, ReplicaControllerTypeOK, GenerationInv
  <2>. QED
    BY <2>1, ReconcileKeepsType, OthersKeepType DEF Next
<1>. QED
  BY <1>1, InitStatusType, PTL DEF Spec

-----------------------------------------------------------------------------
(* Coherence. *)

(* StatusCoherent, of any copy of the status. *)
Coherent(s) ==
  /\ s.ready <=> s.phase = "Ready"
  /\ s.backupHealthy <=> s.conditions["BackupHealthy"].status = "True"
  /\ s.phase # "Error" => (s.ready <=> s.conditions["Ready"].status = "True")
  /\ s.phase \notin {"", "Error"} =>
       /\ s.conditions["ReplicaCountExceeded"].status # "True"
       /\ s.conditions["ArchiveCheckFailed"].status # "True"
       /\ s.conditions["ReplicationPaused"].status = "True" <=> s.phase = "Paused"
  /\ s.conditions["InitSQLApplied"].status = "True" <=> s.initSQLHash # <<>>

(* Every copy from which a status may be written is coherent. *)
CoherentInv ==
  ~mixed =>
    /\ Coherent(cr.status) /\ Coherent(cachedCR.status)
    /\ Coherent(mem.base) /\ Coherent(mem.db.status)

(* A status nobody has written is coherent. *)
LEMMA NoStatusCoherent == Coherent(NoStatus)
  BY DEF Coherent, NoStatus, ConditionTypes

(* Each of the outcomes of updateStatus turns a coherent status into a      *)
(* coherent one.                                                            *)
LEMMA StatusSeeingCoherent ==
  ASSUME TypeOK, Coherent(mem.db.status),
         NEW failed \in BOOLEAN, NEW running \in BOOLEAN, NEW replicas \in BOOLEAN
  PROVE  Coherent(StatusSeeing(failed, running, replicas))
<1>1. /\ mem.db.status \in Status
      /\ mem.db.status.conditions \in [ConditionTypes -> Condition]
      /\ lc.pause \in BOOLEAN
  BY DEF TypeOK, Mem, CR, Status, ReplicaControllerTypeOK, LCState
<1>. USE <1>1 DEF Coherent, With, SetConditions, ConditionTypes, Status, Condition, bool
<1>2. Coherent(WorkloadNotFound)
  BY DEF WorkloadNotFound
<1>3. Coherent(TooManyReplicas)
  BY DEF TooManyReplicas
<1>4. Coherent(ArchiveCheckFailed)
  BY DEF ArchiveCheckFailed
<1>5. Coherent(Inspected(running, replicas))
  <2>. DEFINE New(healthy, ready) ==
                [With(PhaseFor(ready), ready,
                      [ReplicaCountExceeded |-> "none",
                       ReplicationPaused |-> bool(lc.pause),
                       ArchiveCheckFailed |-> "False",
                       SidecarInjected |-> bool(GetWorkload.injected),
                       BackupHealthy |-> bool(healthy),
                       Ready |-> bool(ready)])
                   EXCEPT !.backupHealthy = healthy]
  <2>1. ASSUME NEW healthy \in BOOLEAN, NEW ready \in BOOLEAN, ready => ~lc.pause
        PROVE  Coherent(New(healthy, ready))
    BY <2>1 DEF PhaseFor
  <2>2. Inspected(running, replicas) =
          New(lc.backup /\ running, ~lc.pause /\ GetWorkload.injected /\ replicas)
    BY DEF Inspected
  <2>. HIDE DEF Coherent, New
  <2>. QED
    BY <2>1, <2>2
<1>6. StatusSeeing(failed, running, replicas) \in
        {WorkloadNotFound, TooManyReplicas, ArchiveCheckFailed, Inspected(running, replicas)}
  BY DEF StatusSeeing
<1>. HIDE DEF Coherent
<1>. QED
  BY <1>2, <1>3, <1>4, <1>5, <1>6

(* So does recording the hash of the init SQL. *)
LEMMA InitSQLStatusCoherent ==
  ASSUME TypeOK, Coherent(mem.db.status)
  PROVE  Coherent(InitSQLStatus)
<1>1. /\ mem.db.status \in Status
      /\ mem.db.status.conditions \in [ConditionTypes -> Condition]
      /\ mem.db.initSQL \in SQLs \cup {NoSQL}
  BY DEF TypeOK, Mem, CR, Status
<1>2. initSQLHash(mem.db.initSQL) # <<>> <=> mem.db.initSQL # NoSQL
  BY DEF initSQLHash
<1>. HIDE DEF initSQLHash
<1>. QED
  BY <1>1, <1>2
  DEF InitSQLStatus, Coherent, SetConditions, ConditionTypes, Status, Condition, bool

(* A patch computed from the status the API server has writes the status    *)
(* that was computed.                                                       *)
LEMMA PatchCoherent ==
  ASSUME TypeOK, CoherentInv, NEW base \in Status, NEW new \in Status,
         PatchStatus(base, new), ~mixed => Coherent(new)
  PROVE  /\ ~mixed' => ~mixed
         /\ ~mixed' => Coherent(cr'.status)
<1>1. cr \in CR /\ cr.status \in Status /\ mixed \in BOOLEAN
  BY DEF TypeOK, CR
<1>2. ~mixed' => ~mixed /\ (db.exists => base = cr.status)
  BY <1>1 DEF PatchStatus
<1>3. ~db.exists => cr' = cr
  BY DEF PatchStatus
<1>4. db.exists /\ base = cr.status => cr'.status = new
  BY <1>1, MergePatches DEF PatchStatus, CR
<1>. QED
  BY <1>2, <1>3, <1>4 DEF CoherentInv

(* Each step keeps every copy of the status coherent. *)
LEMMA NextCoherent == TypeOK /\ CoherentInv /\ [Next]_vars => CoherentInv'
<1>. SUFFICES ASSUME TypeOK, CoherentInv, [Next]_vars PROVE CoherentInv'
  OBVIOUS
<1>1. /\ cr \in CR /\ cachedCR \in CR /\ mem \in Mem
      /\ mem.base \in Status /\ mem.db \in CR /\ mem.db.status \in Status
  BY DEF TypeOK, Mem, CR
<1>2. Coherent(NoCopy.base) /\ Coherent(NoCopy.db.status)
  BY NoStatusCoherent DEF NoCopy, ReadCopy, NewCR
<1>3. ASSUME NEW m, KeepUnlessReturned(m), ~mixed' => Coherent(m.base) /\ Coherent(m.db.status)
      PROVE  ~mixed' => Coherent(mem'.base) /\ Coherent(mem'.db.status)
  BY <1>2, <1>3 DEF KeepUnlessReturned
<1>4. CASE Reconcile
  BY <1>4 DEF Reconcile, ReadCopy, GetCR, CoherentInv
<1>5. CASE LitestreamConfig \/ TargetAnnotation \/ Interrupted
  <2>1. KeepUnlessReturned(mem) /\ UNCHANGED <<cr, cachedCR, mixed>>
    BY <1>5 DEF LitestreamConfig, TargetAnnotation, Interrupted
  <2>. QED
    BY <1>3, <2>1 DEF CoherentInv
<1>6. CASE InitSQLConfigMap
  <2>1. mem'.base = mem.base /\ mem'.db = mem.db /\ UNCHANGED <<cr, cachedCR, mixed>>
    BY <1>1, <1>6 DEF InitSQLConfigMap, Mem
  <2>. QED
    BY <2>1 DEF CoherentInv
<1>7. CASE RecordInitSQLHash
  <2>1. CASE UNCHANGED <<cr, mixed>> /\ mem' = [mem EXCEPT !.next = "done"]
    <3>1. mem'.base = mem.base /\ mem'.db = mem.db /\ UNCHANGED cachedCR
      BY <1>1, <1>7, <2>1 DEF RecordInitSQLHash, Mem
    <3>. QED
      BY <2>1, <3>1 DEF CoherentInv
  <2>2. CASE /\ PatchStatus(mem.base, InitSQLStatus)
             /\ KeepUnlessReturned([next |-> "done", base |-> cr'.status, db |-> cr'])
    <3>1. InitSQLStatus \in Status /\ (~mixed => Coherent(InitSQLStatus))
      BY InitSQLStatusType, InitSQLStatusCoherent DEF CoherentInv
    <3>2. (~mixed' => ~mixed) /\ (~mixed' => Coherent(cr'.status))
      BY <1>1, <2>2, <3>1, PatchCoherent
    <3>3. ~mixed' => Coherent(mem'.base) /\ Coherent(mem'.db.status)
      BY <1>3, <2>2, <3>2
    <3>. QED
      BY <1>7, <3>2, <3>3 DEF RecordInitSQLHash, CoherentInv
  <2>. QED
    BY <1>7, <2>1, <2>2 DEF RecordInitSQLHash
<1>8. CASE WriteStatus
  <2>. DEFINE Seen(failed, running, replicas) == StatusSeeing(failed, running, replicas)
  <2>0. PICK failed \in BOOLEAN, running \in BOOLEAN, replicas \in BOOLEAN :
          /\ KeepUnlessReturned([mem EXCEPT !.base = mem.db.status,
                                            !.db.status = Seen(failed, running, replicas)])
          /\ IF lc'.step = "idle"
               THEN PatchStatus(mem.db.status, Seen(failed, running, replicas))
               ELSE UNCHANGED <<cr, mixed>>
          /\ UNCHANGED <<cachedCR, sqlCM>>
    BY <1>8 DEF WriteStatus
  <2>. DEFINE status == StatusSeeing(failed, running, replicas)
  <2>1. /\ KeepUnlessReturned([mem EXCEPT !.base = mem.db.status, !.db.status = status])
        /\ IF lc'.step = "idle" THEN PatchStatus(mem.db.status, status)
                                ELSE UNCHANGED <<cr, mixed>>
        /\ UNCHANGED <<cachedCR, sqlCM>>
    BY <2>0
  <2>2. status \in Status /\ (~mixed => Coherent(status))
    BY StatusSeeingType, StatusSeeingCoherent DEF CoherentInv
  <2>3. (~mixed' => ~mixed) /\ (~mixed' => Coherent(cr'.status))
    BY <1>1, <2>1, <2>2, PatchCoherent DEF CoherentInv
  <2>. HIDE DEF status
  <2>. DEFINE m == [mem EXCEPT !.base = mem.db.status, !.db.status = status]
  <2>4. m.base = mem.db.status /\ m.db.status = status
    BY <1>1 DEF Mem, CR
  <2>5. ~mixed' => Coherent(m.base) /\ Coherent(m.db.status)
    BY <2>2, <2>3, <2>4 DEF CoherentInv
  <2>. HIDE DEF m
  <2>6. KeepUnlessReturned(m)
    BY <2>1 DEF m
  <2>7. ~mixed' => Coherent(mem'.base) /\ Coherent(mem'.db.status)
    BY <1>3, <2>5, <2>6
  <2>. QED
    BY <2>1, <2>3, <2>7 DEF CoherentInv
<1>9. CASE ClearSkip
  <2>1. mem'.base = mem.base /\ mem'.db = mem.db /\ UNCHANGED <<cr, cachedCR, mixed>>
    BY <1>1, <1>9 DEF ClearSkip, Mem
  <2>. QED
    BY <2>1 DEF CoherentInv
<1>12. CASE WriteStatusAfterClear
  <2>1. (~mixed' => ~mixed) /\ (~mixed' => Coherent(cr'.status))
    BY <1>1, <1>12, PatchCoherent DEF WriteStatusAfterClear, CoherentInv
  <2>. QED
    BY <1>2, <1>12, <2>1 DEF WriteStatusAfterClear, CoherentInv
<1>10. CASE Environment \/ UserSkip \/ CollectSQL \/ UNCHANGED vars
            \/ \E sql \in SQLs \cup {NoSQL} : UserInitSQL(sql)
  <2>1. cr'.status = cr.status /\ UNCHANGED <<cachedCR, mem, mixed>>
    BY <1>1, <1>10 DEF Environment, UserSkip, CollectSQL, UserInitSQL, CR, vars, statusVars
  <2>. QED
    BY <2>1 DEF CoherentInv
<1>11. ASSUME NEW k \in Lagging, Sync(k) PROVE CoherentInv'
  BY <1>11 DEF Sync, CoherentInv
<1>. QED
  BY <1>4, <1>5, <1>6, <1>7, <1>8, <1>9, <1>10, <1>11, <1>12 DEF Next, ReconcileStep

(* The status tells one story whichever branches of updateStatus wrote it,  *)
(* in whatever order, with crashes between clearSkipArchiveCheck and the    *)
(* patch, for as long as no patch was computed from an outdated status.     *)
THEOREM StatusCoherentHolds == Spec => []StatusCoherent
<1>1. Init => CoherentInv
  BY NoStatusCoherent DEF Init, NewCR, NoCopy, ReadCopy, CoherentInv
<1>2. CoherentInv => StatusCoherent
  BY DEF CoherentInv, Coherent, StatusCoherent, Holds
<1>. QED
  BY <1>1, <1>2, NextCoherent, StatusTypeCorrect, PTL DEF Spec
=============================================================================
