-------------------------- MODULE RestoreProtocol --------------------------
(***************************************************************************)
(* What a LitestreamRestore promises to whoever watches its status and its *)
(* Jobs, without caches, patches or a work queue: the phases come in order, *)
(* a phase is entered only on the Job result it stands for, a restore may  *)
(* be given up at any point before its end, and an ended restore stays     *)
(* ended.                                                                  *)
(***************************************************************************)
CONSTANT Restores

VARIABLES phase, job

protocolVars == <<phase, job>>

PInit ==
  /\ phase = [r \in Restores |-> "Absent"]
  /\ job = [r \in Restores |-> [restore |-> "none", validate |-> "none"]]

Move(r, from, to) ==
  /\ phase[r] = from
  /\ phase' = [phase EXCEPT ![r] = to]
  /\ UNCHANGED job

Create(r) == Move(r, "Absent", "New")

Quiesce(r) == Move(r, "New", "Pausing") \/ Move(r, "Pausing", "ScalingDown")

(* A Reconcile that read the restore before it was deleted may still create *)
(* its Job, for the garbage collector to remove.                            *)
StartRestore(r) ==
  /\ phase[r] \in {"ScalingDown", "Deleted"}
  /\ job[r].restore = "none"
  /\ job' = [job EXCEPT ![r].restore = "active"]
  /\ UNCHANGED phase

Run(r) == job[r].restore # "none" /\ Move(r, "ScalingDown", "Running")

Accept(r) == job[r].restore = "complete" /\ Move(r, "Running", "Validating")

StartValidation(r) ==
  /\ phase[r] \in {"Validating", "Deleted"}
  /\ job[r].validate = "none"
  /\ job' = [job EXCEPT ![r].validate = "active"]
  /\ UNCHANGED phase

Approve(r) == job[r].validate = "complete" /\ Move(r, "Validating", "ScalingUp")

Finish(r) == Move(r, "ScalingUp", "Complete")

GiveUp(r) ==
  \E from \in {"New", "Pausing", "ScalingDown", "Running", "Validating", "ScalingUp"} :
    Move(r, from, "Failed")

EndJob(r) ==
  /\ \E result \in {"complete", "failed"} :
       \/ /\ job[r].restore = "active"
          /\ job' = [job EXCEPT ![r].restore = result]
       \/ /\ job[r].validate = "active"
          /\ job' = [job EXCEPT ![r].validate = result]
  /\ UNCHANGED phase

Delete(r) ==
  /\ phase[r] \notin {"Absent", "Deleted"}
  /\ phase' = [phase EXCEPT ![r] = "Deleted"]
  /\ UNCHANGED job

Collect(r) ==
  /\ phase[r] = "Deleted"
  /\ job' = [job EXCEPT ![r] = [restore |-> "none", validate |-> "none"]]
  /\ UNCHANGED phase

PNext ==
  \E r \in Restores :
    \/ Create(r) \/ Quiesce(r) \/ StartRestore(r) \/ Run(r) \/ Accept(r)
    \/ StartValidation(r) \/ Approve(r) \/ Finish(r) \/ GiveUp(r)
    \/ EndJob(r) \/ Delete(r) \/ Collect(r)

PSpec == PInit /\ [][PNext]_protocolVars
=============================================================================
