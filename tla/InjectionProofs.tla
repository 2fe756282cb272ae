-------------------------- MODULE InjectionProofs ---------------------------
(***************************************************************************)
(* Theorems of Injection, for every set of LitestreamReplicas, workloads   *)
(* and pod templates: the variables keep their types, and a sidecar        *)
(* watches the directory that the application has at the database path.    *)
(***************************************************************************)
EXTENDS Injection, WellFoundedInduction, TLAPS

-----------------------------------------------------------------------------
(* A set of positions that is not empty has a first one.                    *)
LEMMA FirstExists ==
  ASSUME NEW I, I \subseteq Nat, I # {}
  PROVE  Min(I) \in I /\ \A i \in I : Min(I) <= i
<1> DEFINE R == OpToRel(<, Nat)
<1>1. \E x \in I : \A y \in I : ~ (<<y, x>> \in R)
  <2>1. IsWellFoundedOn(R, Nat)
    BY NatLessThanWellFounded
  <2> HIDE DEF R
  <2> QED BY <2>1, WFMin, Zenon
<1>2. \A x, y \in I : <<y, x>> \in R <=> y < x
  BY DEF OpToRel
<1> HIDE DEF R
<1>3. \E x \in I : \A y \in I : x <= y
  <2>1. PICK x \in I : \A y \in I : ~ (<<y, x>> \in R)
    BY <1>1
  <2>2. \A y \in I : ~ (y < x)
    BY <1>2, <2>1, Zenon
  <2>3. \A y \in I : x <= y
    BY <2>2
  <2> QED BY <2>3
<1> QED BY <1>3 DEF Min

(* findVolumeForPath returns the volume of a mount that covers the path and *)
(* comes no later than any other that does.                                 *)
LEMMA FoundMountIsFirst ==
  ASSUME NEW mounts, mounts \in Seq(ToSet(mounts)), NEW dir,
         NEW k \in 1..Len(mounts), Covers(mounts[k], dir)
  PROVE  \E i \in 1..k :
           Covers(mounts[i], dir) /\ findVolumeForPath(mounts, dir) = mounts[i].volume
<1> DEFINE I == {i \in 1..Len(mounts) : Covers(mounts[i], dir)}
           i == Min(I)
<1>1. Len(mounts) \in Nat
  OBVIOUS
<1>2. k \in I /\ I \subseteq Nat
  BY <1>1
<1>3. i \in I /\ i <= k
  <2> HIDE DEF I
  <2> QED BY <1>2, FirstExists
<1>4. i \in 1..Len(mounts) /\ Covers(mounts[i], dir)
  <2> HIDE DEF i
  <2> QED BY <1>3
<1>5. findVolumeForPath(mounts, dir) =
        IF (IF I # {} THEN Min(I) ELSE 0) = 0 THEN None
        ELSE mounts[IF I # {} THEN Min(I) ELSE 0].volume
  BY DEF findVolumeForPath, SelectInSeq
<1>6. (IF I # {} THEN Min(I) ELSE 0) = i
  <2> HIDE DEF I
  <2> QED BY <1>2
<1>7. findVolumeForPath(mounts, dir) = IF i = 0 THEN None ELSE mounts[i].volume
  BY <1>5, <1>6, Zenon
<1> HIDE DEF I, i
<1>8. i \in 1..k /\ i # 0
  BY <1>1, <1>3, <1>4
<1> QED BY <1>4, <1>7, <1>8

(* A path is a prefix of itself, and of no other path of its length.        *)
LEMMA PrefixOfItself ==
  ASSUME NEW dir \in Seq(STRING)
  PROVE  /\ IsPrefix(dir, dir) /\ Len(dir) \in Nat
         /\ \A p \in Seq(STRING) : IsPrefix(p, dir) =>
              Len(p) <= Len(dir) /\ (Len(dir) <= Len(p) => p = dir)
<1>1. IsPrefix(dir, dir) /\ Len(dir) \in Nat
  BY DEF IsPrefix
<1>2. ASSUME NEW p \in Seq(STRING), IsPrefix(p, dir)
      PROVE  Len(p) <= Len(dir) /\ (Len(dir) <= Len(p) => p = dir)
  BY <1>2 DEF IsPrefix
<1> QED BY <1>1, <1>2

(* The mount that decides where the application finds a directory is the    *)
(* one at that directory, whatever is mounted above it.                     *)
LEMMA DeepestIsAt ==
  ASSUME NEW mounts, NEW m \in ToSet(mounts), m.subPath = <<>>,
         \A n \in ToSet(mounts) : n.path \in Seq(STRING),
         \A n, o \in ToSet(mounts) : n.path = o.path => n = o
  PROVE  AppDirectory(mounts, m.path) = [volume |-> m.volume, path |-> <<>>]
<1> DEFINE dir == m.path
           above == {n \in ToSet(mounts) : IsPrefix(n.path, dir)}
           deepest == CHOOSE n \in above : \A o \in above : Len(o.path) <= Len(n.path)
<1>1. dir \in Seq(STRING) /\ Len(dir) \in Nat /\ m \in above
  BY PrefixOfItself
<1>2. \A n \in above : n \in ToSet(mounts) /\ n.path \in Seq(STRING) /\ IsPrefix(n.path, dir)
  OBVIOUS
<1>3. \A n \in above : Len(n.path) <= Len(dir) /\ (Len(dir) <= Len(n.path) => n.path = dir)
  <2> HIDE DEF above
  <2> QED BY <1>1, <1>2, PrefixOfItself
<1>4. deepest \in above /\ \A n \in above : Len(n.path) <= Len(deepest.path)
  <2> HIDE DEF above
  <2> QED BY <1>1, <1>3
<1>5. deepest = m
  <2> HIDE DEF above, deepest
  <2>1. deepest.path = dir
    BY <1>1, <1>3, <1>4
  <2> QED BY <1>2, <1>4, <2>1
<1>6. <<>> \o SubSeq(dir, Len(dir) + 1, Len(dir)) = <<>>
  BY <1>1
<1>7. AppDirectory(mounts, m.path) =
        [volume |-> deepest.volume,
         path |-> deepest.subPath \o SubSeq(dir, Len(deepest.path) + 1, Len(dir))]
  BY DEF AppDirectory
<1> HIDE DEF deepest
<1> QED BY <1>5, <1>6, <1>7

(* Of a template that mounts a whole volume at the database path and no     *)
(* other volume above it before, inject shares that volume, whichever mount *)
(* findVolumeForPath stops at: the sidecar sees there what the application  *)
(* sees.                                                                    *)
LEMMA SidecarSharesVolume ==
  ASSUME NEW l \in Layouts, NEW dir, MountedAt(l.mounts, dir)
  PROVE  SidecarDirectory(l.mounts, dir) = AppDirectory(l.mounts, dir)
<1> DEFINE mounts == l.mounts
<1>1. /\ mounts \in Seq(ToSet(mounts))
      /\ \A m \in ToSet(mounts) : m.path \in Seq(STRING)
      /\ \A m, n \in ToSet(mounts) : m.path = n.path => m = n
  BY LayoutsAssumption
<1>2. MountedAt(mounts, dir)
  OBVIOUS
<1> HIDE DEF mounts
<1>3. PICK k \in 1..Len(mounts) :
        /\ mounts[k].path = dir /\ mounts[k].subPath = <<>>
        /\ \A j \in 1..(k - 1) :
             mounts[j].path # <<>> /\ IsPrefix(mounts[j].path, dir) =>
               mounts[j].volume = mounts[k].volume
  BY <1>2 DEF MountedAt
<1>4. \A j \in 1..Len(mounts) : mounts[j] \in ToSet(mounts)
  BY <1>1 DEF ToSet
<1>5. AppDirectory(mounts, dir) = [volume |-> mounts[k].volume, path |-> <<>>]
  BY <1>1, <1>3, <1>4, DeepestIsAt
<1>6. PICK i \in 1..k :
        Covers(mounts[i], dir) /\ findVolumeForPath(mounts, dir) = mounts[i].volume
  BY <1>1, <1>3, FoundMountIsFirst DEF Covers
<1>7. mounts[i].volume = mounts[k].volume
  <2>1. CASE mounts[i].path = dir
    <3>1. mounts[i] \in ToSet(mounts) /\ mounts[k] \in ToSet(mounts)
      BY <1>1, <1>4
    <3> QED BY <1>1, <1>3, <2>1, <3>1
  <2>2. CASE mounts[i].path # dir
    <3>1. i \in 1..(k - 1)
      BY <1>3, <2>2
    <3> QED BY <1>3, <1>6, <2>2, <3>1 DEF Covers
  <2> QED BY <2>1, <2>2
<1> QED BY <1>5, <1>6, <1>7 DEF SidecarDirectory, mounts

-----------------------------------------------------------------------------
(* A spec that validateLitestreamReplica admits names a workload and a      *)
(* database path.                                                           *)
LEMMA AdmittedSpec ==
  ASSUME NEW r \in Names, NEW s \in Specs[r], FieldsValid(s)
  PROVE  Target(s) \in Workloads /\ s.databasePath \in Paths
<1>1. /\ s.targetDeployment \in Deployments \cup {None}
      /\ s.targetStatefulSet \in StatefulSets \cup {None}
  BY SpecsAssumption
<1>2. /\ ~(s.targetDeployment = None /\ s.targetStatefulSet = None)
      /\ s.databasePath # None
  BY DEF FieldsValid
<1>3. Target(s) \in Workloads
  BY <1>1, <1>2 DEF Target, Workloads
<1>4. s.databasePath \in Paths
  BY <1>2 DEF Paths
<1> QED BY <1>3, <1>4

(* What inject gives a pod is a pod: a sidecar is configured for the        *)
(* database path of a LitestreamReplica that exists.                        *)
LEMMA CreatedPodType ==
  ASSUME TypeOK, NEW w \in Workloads, workload[w] # None
  PROVE  [config |-> workload[w].config,
          databasePath |-> IF Injects(w) THEN spec[workload[w].config].databasePath
                                         ELSE None] \in Pod
<1>1. workload[w].config \in Names \cup {None}
  BY DEF TypeOK, Workload
<1>2. ASSUME Injects(w) PROVE spec[workload[w].config].databasePath \in Paths
  <2>1. workload[w].config # None /\ spec[workload[w].config] # None
    BY <1>2 DEF Injects, Skipped, Injectable
  <2> QED BY <1>1, <2>1 DEF TypeOK
<1> QED BY <1>1, <1>2 DEF Pod

(* The variables have their types at first.                                 *)
LEMMA InitTypeOK == Init => TypeOK
<1> SUFFICES ASSUME Init PROVE TypeOK
  OBVIOUS
<1> USE InjectionAssumption DEF Init
<1>1. /\ spec \in [Names -> {None} \cup UNION {Specs[r] : r \in Names}]
      /\ \A r \in Names : spec[r] = None
  OBVIOUS
<1>2. workload \in [Workloads -> Workload \cup {None}]
  <2>1. [replicas |-> 1, config |-> None] \in Workload
    BY DEF Workload
  <2> QED BY <2>1
<1>3. pods \in [Workloads -> [Indices -> Pod \cup {None}]]
  OBVIOUS
<1>4. events \in 0..MaxEvents
  OBVIOUS
<1> QED BY <1>1, <1>2, <1>3, <1>4 DEF TypeOK

(* What users may do is bounded.                                            *)
LEMMA HappensType ==
  ASSUME TypeOK, NEW e, Happens(e)
  PROVE  events' \in 0..MaxEvents
BY InjectionAssumption DEF Happens, TypeOK

(* Every step keeps the types.                                              *)
LEMMA NextTypeOK == TypeOK /\ [Next]_vars => TypeOK'
<1> SUFFICES ASSUME TypeOK, [Next]_vars PROVE TypeOK'
  OBVIOUS
<1>1. ASSUME NEW r \in Names, NEW s \in Specs[r], Apply(r, s) PROVE TypeOK'
  <2>1. Target(s) \in Workloads /\ s.databasePath \in Paths
    BY <1>1, AdmittedSpec DEF Apply
  <2>2. events' \in 0..MaxEvents
    BY <1>1, HappensType, InjectionAssumption DEF Apply, CheckFails, TypeOK
  <2>3. spec' \in [Names -> {None} \cup UNION {Specs[q] : q \in Names}]
    BY <1>1 DEF Apply, TypeOK
  <2>4. \A q \in Names : spec'[q] = IF q = r THEN s ELSE spec[q]
    BY <1>1 DEF Apply, TypeOK
  <2>5. \A q \in Names : spec'[q] # None =>
          /\ spec'[q] \in Specs[q]
          /\ Target(spec'[q]) \in Workloads /\ spec'[q].databasePath \in Paths
    BY <2>1, <2>4 DEF TypeOK
  <2> QED BY <1>1, <2>2, <2>3, <2>5 DEF Apply, TypeOK, Target
<1>2. ASSUME NEW r \in Names, Delete(r) PROVE TypeOK'
  <2>1. events' \in 0..MaxEvents
    BY <1>2, HappensType DEF Delete
  <2>2. spec' \in [Names -> {None} \cup UNION {Specs[q] : q \in Names}]
    BY <1>2 DEF Delete, TypeOK
  <2>3. \A q \in Names : spec'[q] # None => spec'[q] = spec[q]
    BY <1>2 DEF Delete, TypeOK
  <2> QED BY <1>2, <2>1, <2>2, <2>3 DEF Delete, TypeOK, Target
<1>3. ASSUME NEW r \in Names, ReconcileTargetAnnotation(r) PROVE TypeOK'
  <2>1. workload' \in [Workloads -> Workload \cup {None}]
    <3> DEFINE w == Target(spec[r])
    <3>1. w \in Workloads /\ workload[w] \in Workload
      BY <1>3 DEF ReconcileTargetAnnotation, TypeOK
    <3>2. [workload[w] EXCEPT !.config = r] \in Workload
      BY <3>1 DEF Workload
    <3>3. workload' = [workload EXCEPT ![w] = [workload[w] EXCEPT !.config = r]]
      BY <1>3, <3>1 DEF ReconcileTargetAnnotation, TypeOK
    <3> HIDE DEF w
    <3> QED BY <3>1, <3>2, <3>3 DEF TypeOK
  <2> QED BY <1>3, <2>1 DEF ReconcileTargetAnnotation, TypeOK, Target
<1>4. ASSUME NEW w \in Workloads, NEW i \in Indices, CreatePod(w, i) PROVE TypeOK'
  <2> DEFINE pod == [config |-> workload[w].config,
                     databasePath |-> IF Injects(w) THEN spec[workload[w].config].databasePath
                                                    ELSE None]
  <2>1. pod \in Pod
    BY <1>4, CreatedPodType DEF CreatePod
  <2>2. pods' = [pods EXCEPT ![w][i] = pod]
    BY <1>4 DEF CreatePod
  <2> HIDE DEF pod
  <2>3. pods' \in [Workloads -> [Indices -> Pod \cup {None}]]
    <3>1. pods[w] \in [Indices -> Pod \cup {None}]
      BY DEF TypeOK
    <3>2. [pods[w] EXCEPT ![i] = pod] \in [Indices -> Pod \cup {None}]
      BY <2>1, <3>1
    <3>3. pods' = [pods EXCEPT ![w] = [pods[w] EXCEPT ![i] = pod]]
      BY <2>2
    <3> QED BY <3>2, <3>3 DEF TypeOK
  <2> QED BY <1>4, <2>3 DEF CreatePod, TypeOK, Target
<1>5. ASSUME NEW w \in Workloads, NEW i \in Indices, DeletePod(w, i) PROVE TypeOK'
  <2>1. pods' \in [Workloads -> [Indices -> Pod \cup {None}]]
    <3>1. pods[w] \in [Indices -> Pod \cup {None}]
      BY DEF TypeOK
    <3>2. [pods[w] EXCEPT ![i] = None] \in [Indices -> Pod \cup {None}]
      BY <3>1
    <3>3. pods' = [pods EXCEPT ![w] = [pods[w] EXCEPT ![i] = None]]
      BY <1>5 DEF DeletePod
    <3> QED BY <3>2, <3>3 DEF TypeOK
  <2> QED BY <1>5, <2>1 DEF DeletePod, TypeOK, Target
<1>6. ASSUME NEW w \in Workloads, NEW n \in 0..MaxReplicas, Scale(w, n) PROVE TypeOK'
  <2>1. events' \in 0..MaxEvents
    BY <1>6, HappensType DEF Scale
  <2>2. workload' \in [Workloads -> Workload \cup {None}]
    <3>1. workload[w] \in Workload
      BY <1>6 DEF Scale, TypeOK
    <3>2. [workload[w] EXCEPT !.replicas = n] \in Workload
      BY <3>1 DEF Workload
    <3>3. workload' = [workload EXCEPT ![w] = [workload[w] EXCEPT !.replicas = n]]
      BY <1>6 DEF Scale, TypeOK
    <3> QED BY <3>2, <3>3 DEF TypeOK
  <2> QED BY <1>6, <2>1, <2>2 DEF Scale, TypeOK, Target
<1>7. ASSUME NEW w \in Workloads, CreateWorkload(w) PROVE TypeOK'
  <2>1. events' \in 0..MaxEvents
    BY <1>7, HappensType DEF CreateWorkload
  <2>2. workload' \in [Workloads -> Workload \cup {None}]
    <3>1. PICK n \in Indices :
            workload' = [workload EXCEPT ![w] = [replicas |-> n, config |-> None]]
      BY <1>7 DEF CreateWorkload
    <3>2. [replicas |-> n, config |-> None] \in Workload
      BY InjectionAssumption DEF Workload, Indices
    <3> QED BY <3>1, <3>2 DEF TypeOK
  <2> QED BY <1>7, <2>1, <2>2 DEF CreateWorkload, TypeOK, Target
<1>8. ASSUME NEW w \in Workloads, DeleteWorkload(w) PROVE TypeOK'
  <2>1. events' \in 0..MaxEvents
    BY <1>8, HappensType DEF DeleteWorkload
  <2>2. workload' \in [Workloads -> Workload \cup {None}]
    BY <1>8 DEF DeleteWorkload, TypeOK
  <2> QED BY <1>8, <2>1, <2>2 DEF DeleteWorkload, TypeOK, Target
<1>9. CASE UNCHANGED vars
  BY <1>9 DEF vars, TypeOK, Target
<1> QED BY <1>1, <1>2, <1>3, <1>4, <1>5, <1>6, <1>7, <1>8, <1>9, Zenon
        DEF Next, PodNext, UserNext

(* Every variable of Injection keeps its type; an admitted                  *)
(* LitestreamReplica names one workload and a database path, and a sidecar  *)
(* is configured for the database path of an admitted spec: whatever users  *)
(* apply, retarget, scale and delete, in any order.                         *)
THEOREM InjectionTypeCorrect == Spec => []TypeOK
<1> QED BY InitTypeOK, NextTypeOK, PTL DEF Spec

(* In every pod with a sidecar whose template mounts a whole volume at the  *)
(* database path of its injection, and mounts no other volume above that    *)
(* path before it, the directory that inject gives the sidecar there is the *)
(* one the application has there: for any number of mounts, above the path  *)
(* but later, at the root, beside it and below it, and whatever users do    *)
(* meanwhile.                                                               *)
THEOREM WatchesDatabaseHolds == Spec => []WatchesDatabase
<1>1. TypeOK => WatchesDatabase
  <2> SUFFICES ASSUME TypeOK, NEW w \in Workloads, NEW i \in Indices,
                      MountedAt(layout[w].mounts, pods[w][i].databasePath)
               PROVE  SidecarDirectory(layout[w].mounts, pods[w][i].databasePath)
                        = AppDirectory(layout[w].mounts, pods[w][i].databasePath)
    BY DEF WatchesDatabase
  <2>1. layout[w] \in Layouts
    BY DEF TypeOK
  <2> QED BY <2>1, SidecarSharesVolume
<1> QED BY <1>1, InjectionTypeCorrect, PTL
=============================================================================
