-------------------------- MODULE RestoreIdentity --------------------------
(***************************************************************************)
(* One LitestreamRestore name, deleted and created again: its Jobs and its *)
(* ConfigMap are found by name, and owned by uid.  The Reconcile of        *)
(* RestoreController is cut down to the steps that touch those objects;    *)
(* pausing, scaling and caches are left to Operator.                       *)
(***************************************************************************)
EXTENDS Naturals

CONSTANT MaxUid   \* bound on the number of incarnations of the name

ASSUME IdentityAssumption == MaxUid \in Nat \ {0}

VARIABLES
  uid,        \* uid of the restore that has the name, 0 if there is none
  phase,      \* its status.phase
  deleting,   \* does it wait for a foreground deletion?
  last,       \* the last uid given
  owned,      \* the ConfigMap and the two Jobs: owner and state
  rc,         \* the Reconcile in progress
  done,       \* history: the uids whose own Job has succeeded, by Job
  leftBehind  \* history: when the restore that has the name was created, was
              \* there a Job of a predecessor, or a Reconcile in progress?

vars == <<uid, phase, deleting, last, owned, rc, done, leftBehind>>

Uids == 1..MaxUid
Objects == {"config", "restore", "validate"}
Jobs == {"restore", "validate"}
Source == MaxUid + 1      \* owner: the LitestreamReplica
Orphan == MaxUid + 2      \* owner: none

Absent == [owner |-> 0, state |-> "none"]
Policies == {"background", "foreground", "orphan"}
Phases == {"New", "ScalingDown", "Running", "Validating", "Complete", "Failed"}
Terminal == {"Complete", "Failed"}

Owned ==
  [Objects -> [owner : 0..(MaxUid + 2),
               state : {"none", "written", "active", "complete", "failed"}]]

Reconciles ==
  [step : {"idle", "config", "createJob", "job", "createValidation", "status"},
   uid : 0..MaxUid, next : Phases]

(* Every variable has its type; a Reconcile in progress works on a restore  *)
(* that was found, and only an existing restore waits for its deletion.     *)
TypeOK ==
  /\ uid \in 0..MaxUid /\ last \in 0..MaxUid /\ uid <= last
  /\ phase \in Phases /\ deleting \in BOOLEAN
  /\ owned \in Owned /\ rc \in Reconciles
  /\ done \in [Jobs -> SUBSET Uids] /\ leftBehind \in BOOLEAN
  /\ rc.step # "idle" => rc.uid # 0
  /\ uid = 0 => ~deleting

Idle == [step |-> "idle", uid |-> 0, next |-> "New"]

(* The ConfigMaps of both kinds are <name>-litestream: if the restore is    *)
(* named like its source, the source's has the name.                        *)
Init ==
  /\ uid = 0 /\ phase = "New" /\ deleting = FALSE /\ last = 0
  /\ owned \in {[o \in Objects |-> Absent],
                [o \in Objects |-> IF o = "config" THEN [owner |-> Source, state |-> "written"]
                                                  ELSE Absent]}
  /\ rc = Idle
  /\ done = [j \in Jobs |-> {}]
  /\ leftBehind = FALSE

-----------------------------------------------------------------------------
objectVars == <<uid, phase, deleting, last>>

Goto(step) == rc' = [step |-> step, uid |-> rc.uid, next |-> rc.next]
SetStatus(next) == rc' = [step |-> "status", uid |-> rc.uid, next |-> next]
Return == rc' = Idle

(* Mutant: a restore that is not found is reconciled.                       *)
ReconcileGone ==
  /\ rc.step = "idle"
  /\ \/ /\ phase = "New"
        /\ rc' = [step |-> "status", uid |-> uid, next |-> "ScalingDown"]
     \/ /\ phase = "ScalingDown"
        /\ rc' = [step |-> "config", uid |-> uid, next |-> "New"]
     \/ /\ phase \in {"Running", "Validating"}
        /\ rc' = [step |-> "job", uid |-> uid, next |-> phase]
  /\ UNCHANGED <<objectVars, owned, done, leftBehind>>

(* Reconcile; an ended restore is left alone.                               *)
Reconcile ==
  /\ rc.step = "idle" /\ uid # 0
  /\ \/ /\ phase = "New"
        /\ rc' = [step |-> "status", uid |-> uid, next |-> "ScalingDown"]
     \/ /\ phase = "ScalingDown"
        /\ rc' = [step |-> "config", uid |-> uid, next |-> "New"]
     \/ /\ phase \in {"Running", "Validating"}
        /\ rc' = [step |-> "job", uid |-> uid, next |-> phase]
  /\ UNCHANGED <<objectVars, owned, done, leftBehind>>

(* Mutant: a ConfigMap that exists is kept, as a Job is.                    *)
ReconcileRestoreConfigKeeps ==
  /\ rc.step = "config"
  /\ Goto("createJob")
  /\ owned' = IF owned["config"] # Absent THEN owned
              ELSE [owned EXCEPT !["config"] = [owner |-> rc.uid, state |-> "written"]]
  /\ UNCHANGED <<objectVars, done, leftBehind>>

(* reconcileRestoreConfig: SetControllerReference fails for an object that  *)
(* another resource controls, before anything is written.                   *)
ReconcileRestoreConfig ==
  /\ rc.step = "config"
  /\ IF owned["config"].owner \in {0, Orphan, rc.uid}
     THEN /\ Goto("createJob")
          /\ owned' = [owned EXCEPT !["config"] = [owner |-> rc.uid, state |-> "written"]]
     ELSE Return /\ UNCHANGED owned
  /\ UNCHANGED <<objectVars, done, leftBehind>>

(* Mutant: the controller reference is forgotten.                           *)
CreateUnowned(j) ==
  owned' = IF owned[j] = Absent
           THEN [owned EXCEPT ![j] = [owner |-> Orphan, state |-> "active"]] ELSE owned

(* SetControllerReference, Create; AlreadyExists is no error.               *)
CreateJob(j) ==
  owned' = IF owned[j] = Absent
           THEN [owned EXCEPT ![j] = [owner |-> rc.uid, state |-> "active"]] ELSE owned

CreateRestoreJob ==
  /\ rc.step = "createJob"
  /\ CreateJob("restore")
  /\ SetStatus("Running")
  /\ UNCHANGED <<objectVars, done, leftBehind>>

(* Mutant: a restore Job that is not found is waited for.                   *)
ReconcileRunningWaits ==
  /\ rc.step = "job" /\ rc.next = "Running"
  /\ \/ owned["restore"].state = "complete" /\ SetStatus("Validating")
     \/ owned["restore"].state = "failed" /\ SetStatus("Failed")
     \/ owned["restore"].state \notin {"complete", "failed"} /\ Return
  /\ UNCHANGED <<objectVars, owned, done, leftBehind>>

ReconcileRunning ==
  /\ rc.step = "job" /\ rc.next = "Running"
  /\ \/ owned["restore"].state = "complete" /\ SetStatus("Validating")
     \/ owned["restore"].state \in {"none", "failed"} /\ SetStatus("Failed")
     \/ owned["restore"].state = "active" /\ Return
  /\ UNCHANGED <<objectVars, owned, done, leftBehind>>

ReconcileValidating ==
  /\ rc.step = "job" /\ rc.next = "Validating"
  /\ \/ owned["validate"].state = "none" /\ Goto("createValidation")
     \/ owned["validate"].state = "complete" /\ SetStatus("Complete")
     \/ owned["validate"].state = "failed" /\ SetStatus("Failed")
     \/ owned["validate"].state = "active" /\ Return
  /\ UNCHANGED <<objectVars, owned, done, leftBehind>>

CreateValidationJob ==
  /\ rc.step = "createValidation"
  /\ CreateJob("validate")
  /\ Return
  /\ UNCHANGED <<objectVars, done, leftBehind>>

(* setStatus: a merge patch finds the restore by its name.                  *)
WriteStatus ==
  /\ rc.step = "status"
  /\ phase' = IF uid # 0 THEN rc.next ELSE phase
  /\ Return
  /\ UNCHANGED <<uid, deleting, last, owned, done, leftBehind>>

-----------------------------------------------------------------------------
(* Users, the Job controller and the garbage collector.                     *)
Create ==
  /\ uid = 0 /\ last < MaxUid
  /\ uid' = last + 1 /\ last' = last + 1
  /\ phase' = "New"
  /\ leftBehind' = (rc.step # "idle" \/ \E j \in Jobs : owned[j] # Absent)
  /\ UNCHANGED <<deleting, owned, rc, done>>

Delete(policy) ==
  /\ uid # 0 /\ ~deleting
  /\ IF policy = "foreground" THEN deleting' = TRUE /\ UNCHANGED <<uid, phase>>
     ELSE uid' = 0 /\ phase' = "New" /\ UNCHANGED deleting
  /\ owned' = [o \in Objects |-> IF policy = "orphan" /\ owned[o].owner = uid
                                 THEN [owned[o] EXCEPT !.owner = Orphan] ELSE owned[o]]
  /\ UNCHANGED <<last, rc, done, leftBehind>>

Ownerless(o) == owned[o].owner \in Uids /\ (owned[o].owner # uid \/ deleting)

Collect(o) ==
  /\ Ownerless(o)
  /\ owned' = [owned EXCEPT ![o] = Absent]
  /\ UNCHANGED <<objectVars, rc, done, leftBehind>>

FinishDeletion ==
  /\ deleting /\ \A o \in Objects : owned[o].owner # uid
  /\ uid' = 0 /\ phase' = "New" /\ deleting' = FALSE
  /\ UNCHANGED <<last, owned, rc, done, leftBehind>>

FinishJob(j, result) ==
  /\ owned[j].state = "active"
  /\ owned' = [owned EXCEPT ![j].state = result]
  /\ done' = IF result = "complete" /\ owned[j].owner \in Uids
             THEN [done EXCEPT ![j] = @ \cup {owned[j].owner}] ELSE done
  /\ UNCHANGED <<objectVars, rc, leftBehind>>

-----------------------------------------------------------------------------
Step ==
  \/ ReconcileRestoreConfig \/ CreateRestoreJob \/ ReconcileRunning
  \/ ReconcileValidating \/ CreateValidationJob \/ WriteStatus

Next ==
  \/ Reconcile \/ Step
  \/ Create \/ \E policy \in Policies : Delete(policy)
  \/ \E o \in Objects : Collect(o)
  \/ FinishDeletion
  \/ \E j \in Jobs, result \in {"complete", "failed"} : FinishJob(j, result)

Spec == Init /\ [][Next]_vars

(* The worker, the garbage collector and the Job controller keep working.   *)
Fairness ==
  /\ WF_vars(Reconcile) /\ WF_vars(Step)
  /\ \A o \in Objects : WF_vars(Collect(o))
  /\ \A j \in Jobs : WF_vars(\E result \in {"complete", "failed"} : FinishJob(j, result))
  /\ SF_vars(FinishDeletion)

FairSpec == Spec /\ Fairness

-----------------------------------------------------------------------------
(* "JobName is the name of the Kubernetes Job created to perform the        *)
(* restore": a LitestreamRestore that says Complete has restored and        *)
(* validated with Jobs of its own, not with those of a predecessor of the   *)
(* same name, however that one was deleted, if its Jobs were gone and no    *)
(* Reconcile was in progress when the present restore was created.          *)
OwnRestore ==
  uid # 0 /\ ~leftBehind /\ phase = "Complete" => \A j \in Jobs : uid \in done[j]

(* Why: every Job belongs to the restore that has the name, and so does     *)
(* every Reconcile.                                                         *)
OwnJobs ==
  \A j \in Jobs :
    /\ owned[j].owner \in {0, uid}
    /\ owned[j].owner = 0 => owned[j].state = "none"
    /\ owned[j].state = "complete" => uid \in done[j]

OwnReconcile ==
  rc.step # "idle" =>
    /\ rc.uid = uid
    /\ rc.step \in {"job", "createValidation"} => rc.next = phase

Earned(p) ==
  /\ p \in {"Validating", "Complete"} => uid \in done["restore"]
  /\ p = "Complete" => uid \in done["validate"]

IdentityInv ==
  uid # 0 /\ ~leftBehind =>
    /\ OwnJobs /\ OwnReconcile
    /\ Earned(phase)
    /\ rc.step = "status" => Earned(rc.next)

(* Every restore that is not named like its source ends, whatever a         *)
(* predecessor of its own name has left behind, however it was deleted.     *)
RestoreEnds ==
  \A u \in Uids :
    (uid = u /\ owned["config"].owner # Source) ~> (uid # u \/ phase \in Terminal)

(* "the restore job needs its own copy with the actual S3 replica config":  *)
(* the Job of a restore that is not being deleted reads a ConfigMap of that *)
(* restore, never the one a predecessor left behind nor the paused one of   *)
(* the source, whatever was deleted, orphaned and collected before and      *)
(* between the two writes.                                                  *)
OwnConfig ==
  uid # 0 /\ ~deleting /\ owned["restore"].owner = uid => owned["config"].owner = uid
=============================================================================
