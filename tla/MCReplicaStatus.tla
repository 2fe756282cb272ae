--------------------------- MODULE MCReplicaStatus ---------------------------
(* Model values for the runs of ReplicaStatus.                             *)
EXTENDS ReplicaStatus

CONSTANTS p1, p2
=============================================================================
