------------------------------ MODULE Operator ------------------------------
(***************************************************************************)
(* The operator: both controllers, each with one worker, on the shared     *)
(* cluster.                                                                *)
(***************************************************************************)
EXTENDS RestoreController, ReplicaController

vars == <<clusterVars, rc, lc>>

Init ==
  /\ ClusterInit
  /\ RestoreControllerInit
  /\ ReplicaControllerInit

Next ==
  \/ RestoreControllerNext /\ UNCHANGED lc
  \/ ReplicaControllerNext /\ UNCHANGED rc
  \/ ClusterNext /\ UNCHANGED <<rc, lc>>

Spec == Init /\ [][Next]_vars

(* A controller's worker finishes the Reconcile it has begun; the work      *)
(* queue is FIFO and every request is queued again until its restore has    *)
(* ended (RequeueAfter, error back-off), and every LitestreamReplica at     *)
(* least every statusSyncInterval; informers, the workload controller, the  *)
(* kubelet and the Job controller keep working.  Users, node events and     *)
(* failures are never owed.                                                 *)
Fairness ==
  /\ \A r \in Restores : SF_vars(Reconcile(r) /\ UNCHANGED lc)
  /\ WF_vars(RestoreStep /\ UNCHANGED lc)
  /\ WF_vars((ReconcileReplica \/ ReplicaStep) /\ UNCHANGED rc)
  /\ WF_vars(WorkloadNext /\ UNCHANGED <<rc, lc>>)
  /\ WF_vars(JobNext /\ UNCHANGED <<rc, lc>>)
  /\ WF_vars(CollectorNext /\ UNCHANGED <<rc, lc>>)
  /\ \A k \in Kinds : WF_vars(CacheSync(k) /\ UNCHANGED <<rc, lc>>)

FairSpec == Spec /\ Fairness

-----------------------------------------------------------------------------
TypeOK == ClusterTypeOK /\ RestoreControllerTypeOK /\ ReplicaControllerTypeOK

JobActive(r) == job[r].restore = "active" \/ job[r].validate = "active"

(* While a restore Job writes the database file, or a validation Job reads  *)
(* it, no pod of the target workload exists: reconcileScalingDown creates   *)
(* the Job after "All pods terminated", and nothing may bring one back      *)
(* before the Jobs have ended.                                              *)
ExclusiveRestore ==
  \A r \in Restores : JobActive(r) => \A p \in Pods : ~Present(p)

(* A Job runs with its own ConfigMap written, the pause annotation set and  *)
(* the source's ConfigMap at "dbs: []", whatever the replica controller     *)
(* reads and writes meanwhile.                                              *)
PausedWhileRestoring ==
  \A r \in Restores : JobActive(r) => restoreCM[r] /\ db.pause /\ cm = "paused"

(* A restore is complete, or about to scale up, only if its restore Job and *)
(* then its validation Job have succeeded.                                  *)
ValidatedBeforeScaleUp ==
  \A r \in Restores :
    /\ restore[r].phase \in {"Validating", "ScalingUp", "Complete"} =>
         job[r].restore = "complete"
    /\ restore[r].phase \in {"ScalingUp", "Complete"} =>
         job[r].validate = "complete"

(* reconcileScalingUp's order of operations: after a completed restore no   *)
(* pod is held back by its archive check and no sidecar has read "dbs: []". *)
CleanStartAfterRestore ==
  (\E r \in Restores : restore[r].phase = "Complete") =>
    \A p \in Pods : pods[p].phase # "blocked" /\ ~SidecarIdle(pods[p])

(* originalReplicas is the replica count from before the scale-down.        *)
OriginalReplicasFaithful ==
  \A r \in Restores : restore[r].originalReplicas \in InitReplicas \cup {Nil}

(* The outcome of a restore is that of its Jobs: it says Complete only when *)
(* both have succeeded and Failed only when one of them has failed, even if *)
(* an old copy of the restore makes a handler run again that has run before; *)
(* as long as the source stays usable, for without it failRestore ends it.   *)
OutcomeEarned ==
  \A r \in Restores :
    /\ restore[r].phase = "Complete" =>
         job[r].restore = "complete" /\ job[r].validate = "complete"
    /\ restore[r].phase = "Failed" =>
         job[r].restore = "failed" \/ job[r].validate = "failed"

(* A restore that has ended has no Job left running: completionTime "is     *)
(* when the restore Job finished (successfully or not)".                    *)
EndedMeansJobsFinished ==
  \A r \in Restores : restore[r].phase \in Terminal => ~JobActive(r)

(* The detailed system keeps the protocol a restore promises.               *)
Protocol == INSTANCE RestoreProtocol
              WITH phase <- [r \in Restores |-> restore[r].phase]

RestoreProtocolKept == Protocol!PSpec

Ended(r) == restore[r].phase \in Terminal \cup Missing

(* Every restore ends.                                                      *)
RestoreEnds == \A r \in Restores : restore[r].phase = "New" ~> Ended(r)

HandedBack(r) ==
  /\ workload.spec \in InitReplicas
  /\ ~db.pause
  /\ cm = "full"

(* A restore that has ended, either way, gives the application back its     *)
(* replicas and its replication.                                            *)
WorkloadHandedBack ==
  \A r \in Restores : restore[r].phase \in Terminal ~> [](HandedBack(r))

(* The archive check that the restore switched off is switched on again.    *)
SkipCleared == db.skip ~> ~db.skip

-----------------------------------------------------------------------------
(* The inductive invariants behind the theorems.                            *)

Active == Phases \ (Terminal \cup Missing)

(* The phases a Reconcile may find its restore in once it has reached a     *)
(* step: the phase it read, for the restore is written by nobody else.      *)
PhasesAt(step) ==
  CASE step \in {"pending", "pause"} -> {"New"}
    [] step \in {"pausing", "repause", "scaleDown"} -> {"Pausing"}
    [] step \in {"scalingDown", "restoreConfig", "createJob"} -> {"ScalingDown"}
    [] step = "running" -> {"Running"}
    [] step \in {"validating", "createValidation"} -> {"Validating"}
    [] step \in {"skip", "resume", "gate", "scaleUp"} -> {"ScalingUp"}
    [] step \in {"cleanupScale", "cleanupResume"} -> {"Running", "Validating"}
    [] OTHER -> Active

(* The status about to be written follows from the phase and the Jobs.      *)
NextFollows(phase, next, jobs) ==
  \/ next = "Failed"
  \/ phase = "New" /\ next = "Pausing"
  \/ phase = "Pausing" /\ next = "ScalingDown"
  \/ phase = "ScalingDown" /\ next = "Running" /\ jobs.restore # "none"
  \/ phase = "Running" /\ next = "Validating" /\ jobs.restore = "complete"
  \/ phase = "Validating" /\ next = "ScalingUp" /\ jobs.validate = "complete"
  \/ phase = "ScalingUp" /\ next = "Complete"

(* A Reconcile in progress works on the phase the restore has.              *)
StepInv ==
  rc.step # "idle" =>
    /\ rc.r \in Restores
    /\ restore[rc.r].phase # "Deleted" =>
         /\ restore[rc.r].phase \in PhasesAt(rc.step)
         /\ rc.step = "status" =>
              NextFollows(restore[rc.r].phase, rc.next, job[rc.r])

(* A success found in the cache is one on the API server.                   *)
CachedSuccessInv ==
  \A r \in Restores : restore[r].phase # "Deleted" =>
    /\ cache.job[r].restore = "complete" => job[r].restore = "complete"
    /\ cache.job[r].validate = "complete" => job[r].validate = "complete"

ProtocolInv == StepInv /\ CachedSuccessInv /\ ValidatedBeforeScaleUp

Quiet == workload.spec = 0 /\ \A p \in Pods : ~Present(p)

(* From the scale-down on, nothing runs and nothing will, except where the  *)
(* Jobs have ended.                                                         *)
QuietPhase(r) ==
  /\ restore[r].phase # "Deleted"
  /\ JobActive(r) => Quiet
  /\ restore[r].phase \in {"Absent", "New", "Pausing"} => job[r].restore = "none"
  /\ restore[r].phase = "ScalingDown" => workload.spec = 0
  /\ /\ restore[r].phase \in {"ScalingDown", "Running"}
     /\ job[r].restore \in {"active", "complete"}
     => Quiet
  /\ restore[r].phase = "Running" => job[r].restore # "none"
  /\ restore[r].phase = "Validating" /\ job[r].validate \in {"none", "active"}
     => Quiet
  /\ job[r].validate # "none" =>
       restore[r].phase \in {"Validating", "ScalingUp", "Complete", "Failed"}

(* What a Reconcile has seen still holds when it acts on it.                *)
QuietStep(r) ==
  /\ rc.step \in {"restoreConfig", "createJob"} => Quiet
  /\ rc.step = "status" /\ rc.next = "ScalingDown" => workload.spec = 0
  /\ rc.step = "createValidation" => job[r].validate = "none"
  /\ rc.step \in {"cleanupScale", "cleanupResume"} =>
       \/ restore[r].phase = "Running" /\ job[r].restore = "failed"
       \/ restore[r].phase = "Validating" /\ job[r].validate = "failed"

ExclusiveInv ==
  /\ workload.exists
  /\ \A r \in Restores : QuietPhase(r) /\ QuietStep(r)
=============================================================================
