----------------------------- MODULE Injection -----------------------------
(***************************************************************************)
(* Which pods get a litestream sidecar, for which LitestreamReplica, and   *)
(* which file that sidecar watches: the validating webhook that admits a   *)
(* LitestreamReplica, reconcileTargetAnnotation that marks the pod         *)
(* template of its target, and the mutating webhook that injects the pods  *)
(* made from that template, while users retarget, delete and scale.        *)
(* Several LitestreamReplicas and workloads; a pod of a StatefulSet, or of *)
(* a Deployment with the Recreate strategy, is deleted before its          *)
(* successor is created.                                                   *)
(***************************************************************************)
EXTENDS Naturals, SequencesExt

CONSTANTS
  Names,         \* names of LitestreamReplicas
  Deployments, StatefulSets,
  None,          \* an empty field, an object that does not exist
  Specs,         \* the specs users apply, valid or not, by name
  Layouts,       \* what the workloads' pod templates hold
  MaxReplicas,   \* bound on a workload's spec.replicas
  Events,        \* what users may do
  MaxEvents      \* bound on those events

Workloads == Deployments \cup StatefulSets
AllEvents == {"apply", "delete", "scale", "createWorkload", "deleteWorkload", "apiError"}

ASSUME InjectionAssumption ==
  /\ Deployments \cap StatefulSets = {}
  /\ None \notin Names \cup Workloads
  /\ MaxReplicas \in Nat \ {0}
  /\ Events \subseteq AllEvents
  /\ MaxEvents \in Nat

(* What the API server's schemas and its validation of pods guarantee: a    *)
(* target field names a workload of its kind or is empty, and no container  *)
(* mounts two volumes at one path.                                          *)
ASSUME SpecsAssumption ==
  \A r \in Names : \A s \in Specs[r] :
    /\ s.targetDeployment \in Deployments \cup {None}
    /\ s.targetStatefulSet \in StatefulSets \cup {None}

ASSUME LayoutsAssumption ==
  \A l \in Layouts :
    /\ l.mounts \in Seq(ToSet(l.mounts))
    /\ \A m \in ToSet(l.mounts) : m.path \in Seq(STRING)
    /\ \A m, n \in ToSet(l.mounts) : m.path = n.path => m = n

VARIABLES
  spec,       \* the LitestreamReplicas
  workload,   \* spec.replicas and the config annotation of the pod template
  layout,     \* of each workload's pod template
  pods,       \* the pods of each workload
  events

vars == <<spec, workload, layout, pods, events>>

Indices == 1..MaxReplicas
Workload == [replicas : 0..MaxReplicas, config : Names \cup {None}]

(* A pod: the annotation it inherited, and the database path at which its   *)
(* sidecar mounts the volume (None: not injected), which stays that of its  *)
(* injection.                                                               *)
Paths == {s.databasePath : s \in UNION {Specs[r] : r \in Names}} \ {None}
Pod == [config : Names \cup {None}, databasePath : Paths \cup {None}]

(* getTargetWorkload, and the same choice in checkWorkloadReplicas.         *)
Target(s) ==
  IF s.targetStatefulSet # None THEN s.targetStatefulSet ELSE s.targetDeployment

(* Every variable has its type; a LitestreamReplica that the validating     *)
(* webhook has admitted names one workload and a database path.             *)
TypeOK ==
  /\ spec \in [Names -> {None} \cup UNION {Specs[r] : r \in Names}]
  /\ \A r \in Names : spec[r] # None =>
       /\ spec[r] \in Specs[r]
       /\ Target(spec[r]) \in Workloads /\ spec[r].databasePath \in Paths
  /\ workload \in [Workloads -> Workload \cup {None}]
  /\ layout \in [Workloads -> Layouts]
  /\ pods \in [Workloads -> [Indices -> Pod \cup {None}]]
  /\ events \in 0..MaxEvents

Init ==
  /\ spec = [r \in Names |-> None]
  /\ workload \in [Workloads -> {None, [replicas |-> 1, config |-> None]}]
  /\ layout \in [Workloads -> Layouts]
  /\ pods = [w \in Workloads |-> [i \in Indices |-> None]]
  /\ events = 0

Happens(e) ==
  /\ e \in Events /\ events < MaxEvents
  /\ events' = events + 1

-----------------------------------------------------------------------------
(* Mutant: the database path is not required.                               *)
FieldsValidNoPath(s) ==
  /\ (s.targetDeployment = None) # (s.targetStatefulSet = None)
  /\ s.databaseName # None
  /\ s.backup => s.s3 # None /\ s.s3.bucket # None /\ s.s3.secretRef # None

(* validateLitestreamReplica.                                               *)
FieldsValid(s) ==
  /\ (s.targetDeployment = None) # (s.targetStatefulSet = None)
  /\ s.databaseName # None
  /\ s.databasePath # None
  /\ s.backup => s.s3 # None /\ s.s3.bucket # None /\ s.s3.secretRef # None

(* A workload that is not found is left to the reconciler.                  *)
checkWorkloadReplicas(s) ==
  workload[Target(s)] # None => workload[Target(s)].replicas <= 1

(* Any other API error only skips that check; it counts as an event beside  *)
(* the apply it meets.                                                      *)
CheckFails ==
  /\ {"apply", "apiError"} \subseteq Events /\ events + 2 <= MaxEvents
  /\ events' = events + 2

(* ValidateCreate and ValidateUpdate.                                       *)
Apply(r, s) ==
  /\ spec[r] # s
  /\ FieldsValid(s)
  /\ (Happens("apply") /\ checkWorkloadReplicas(s)) \/ CheckFails
  /\ spec' = [spec EXCEPT ![r] = s]
  /\ UNCHANGED <<workload, layout, pods>>

(* ValidateDelete: always permitted.                                        *)
Delete(r) ==
  /\ Happens("delete")
  /\ spec[r] # None
  /\ spec' = [spec EXCEPT ![r] = None]
  /\ UNCHANGED <<workload, layout, pods>>

-----------------------------------------------------------------------------
(* Mutant: a template that is annotated for some replica is left alone.     *)
ReconcileTargetAnnotationOnce(r) ==
  /\ spec[r] # None
  /\ LET w == Target(spec[r])
     IN /\ workload[w] # None
        /\ workload[w].replicas <= 1
        /\ workload[w].config = None
        /\ workload' = [workload EXCEPT ![w].config = r]
  /\ UNCHANGED <<spec, layout, pods, events>>

(* reconcileTargetAnnotation: annotations and label are patched together.   *)
ReconcileTargetAnnotation(r) ==
  /\ spec[r] # None
  /\ LET w == Target(spec[r])
     IN /\ workload[w] # None
        /\ workload[w].replicas <= 1
        /\ workload[w].config # r
        /\ workload' = [workload EXCEPT ![w].config = r]
  /\ UNCHANGED <<spec, layout, pods, events>>

-----------------------------------------------------------------------------
(* Paths are sequences of directory names.  A mount puts the directory      *)
(* subPath of a volume at path; the root "/" is the empty sequence.         *)

(* "/" + "/" is a prefix of no path.                                        *)
Covers(m, dir) == m.path = dir \/ (m.path # <<>> /\ IsPrefix(m.path, dir))

(* Mutant: the loop does not stop at the first mount that covers the path.  *)
findVolumeForPathLast(mounts, dir) ==
  LET i == SelectLastInSeq(mounts, LAMBDA m : Covers(m, dir))
  IN IF i = 0 THEN None ELSE mounts[i].volume

(* The first mount of the first container that covers the path.             *)
findVolumeForPath(mounts, dir) ==
  LET i == SelectInSeq(mounts, LAMBDA m : Covers(m, dir))
  IN IF i = 0 THEN None ELSE mounts[i].volume

(* Where a directory of the application container is: on the volume mounted *)
(* deepest above it.                                                        *)
AppDirectory(mounts, dir) ==
  LET above == {m \in ToSet(mounts) : IsPrefix(m.path, dir)}
      deepest == CHOOSE m \in above : \A n \in above : Len(n.path) <= Len(m.path)
  IN [volume |-> deepest.volume,
      path |-> deepest.subPath \o SubSeq(dir, Len(deepest.path) + 1, Len(dir))]

(* inject: the sidecar mounts the root of the volume at the database path.  *)
SidecarDirectory(mounts, dir) ==
  [volume |-> findVolumeForPath(mounts, dir), path |-> <<>>]

(* Handle: whether a pod made from a template is admitted.                  *)
Skipped(w) == workload[w].config = None \/ layout[w].litestream

Injectable(r, w) ==
  /\ spec[r] # None
  /\ findVolumeForPath(layout[w].mounts, spec[r].databasePath) # None

Injects(w) == ~Skipped(w) /\ Injectable(workload[w].config, w)

CreatePod(w, i) ==
  /\ workload[w] # None /\ i <= workload[w].replicas
  /\ pods[w][i] = None
  /\ Skipped(w) \/ Injects(w)
  /\ pods' = [pods EXCEPT ![w][i] =
                [config |-> workload[w].config,
                 databasePath |-> IF Injects(w) THEN spec[workload[w].config].databasePath
                                                ELSE None]]
  /\ UNCHANGED <<spec, workload, layout, events>>

(* The workload controller scales down and rolls out a changed template.    *)
DeletePod(w, i) ==
  /\ pods[w][i] # None
  /\ workload[w] # None =>
       i > workload[w].replicas \/ pods[w][i].config # workload[w].config
  /\ pods' = [pods EXCEPT ![w][i] = None]
  /\ UNCHANGED <<spec, workload, layout, events>>

-----------------------------------------------------------------------------
Scale(w, n) ==
  /\ Happens("scale")
  /\ workload[w] # None /\ workload[w].replicas # n
  /\ workload' = [workload EXCEPT ![w].replicas = n]
  /\ UNCHANGED <<spec, layout, pods>>

CreateWorkload(w) ==
  /\ Happens("createWorkload")
  /\ workload[w] = None
  /\ \E n \in Indices :
       workload' = [workload EXCEPT ![w] = [replicas |-> n, config |-> None]]
  /\ UNCHANGED <<spec, layout, pods>>

DeleteWorkload(w) ==
  /\ Happens("deleteWorkload")
  /\ workload[w] # None
  /\ workload' = [workload EXCEPT ![w] = None]
  /\ UNCHANGED <<spec, layout, pods>>

PodNext(w) == \E i \in Indices : CreatePod(w, i) \/ DeletePod(w, i)

UserNext ==
  \/ \E r \in Names : Delete(r) \/ \E s \in Specs[r] : Apply(r, s)
  \/ \E w \in Workloads :
       CreateWorkload(w) \/ DeleteWorkload(w) \/ \E n \in 0..MaxReplicas : Scale(w, n)

Next ==
  \/ \E r \in Names : ReconcileTargetAnnotation(r)
  \/ \E w \in Workloads : PodNext(w)
  \/ UserNext

Spec == Init /\ [][Next]_vars

(* Every LitestreamReplica is reconciled again at least every               *)
(* statusSyncInterval, after an error sooner; the workload controller keeps *)
(* working.                                                                 *)
Fairness ==
  /\ \A r \in Names : WF_vars(ReconcileTargetAnnotation(r))
  /\ \A w \in Workloads : WF_vars(PodNext(w))

FairSpec == Spec /\ Fairness

-----------------------------------------------------------------------------
HasSidecar(w, i) == pods[w][i] # None /\ pods[w][i].databasePath # None

(* The application mounts a whole volume at the database path, and lists no *)
(* mount of another volume in a directory between that path and the root    *)
(* before it.                                                               *)
MountedAt(mounts, dir) ==
  \E i \in 1..Len(mounts) :
    /\ mounts[i].path = dir /\ mounts[i].subPath = <<>>
    /\ \A j \in 1..(i - 1) :
         mounts[j].path # <<>> /\ IsPrefix(mounts[j].path, dir) =>
           mounts[j].volume = mounts[i].volume

(* "The sidecar shares the volume that already mounts the database path":   *)
(* the directory that the sidecar's mount shows at the database path it was *)
(* injected with is the one the application has there, for every template   *)
(* with a whole volume mounted at that path.  findVolumeForPath takes the   *)
(* first mount that covers the path and the application sees the deepest,   *)
(* so a mount of another volume above the path must come after this one;    *)
(* mounts at the root, beside and below the path come in any order.         *)
WatchesDatabase ==
  \A w \in Workloads, i \in Indices :
    HasSidecar(w, i) =>
      LET dir == pods[w][i].databasePath
          mounts == layout[w].mounts
      IN MountedAt(mounts, dir) =>
           SidecarDirectory(mounts, dir) = AppDirectory(mounts, dir)

InjectedFor(r) ==
  LET w == Target(spec[r])
  IN workload[w] # None /\ workload[w].replicas = 1
       /\ ~layout[w].litestream /\ Injectable(r, w) =>
     HasSidecar(w, 1) /\ pods[w][1].config = r

Sole(r) == \A q \in Names \ {r} : spec[q] # None => Target(spec[q]) # Target(spec[r])

(* Once users are done, a LitestreamReplica that is alone on its target has *)
(* its sidecar in the pod of that target, whatever replicas targeted it     *)
(* before and whichever of the two objects was created first.               *)
EveryTargetInjected == <>[](\A r \in Names : spec[r] # None /\ Sole(r) => InjectedFor(r))
=============================================================================
