---------------------------- MODULE MCPodStartup ----------------------------
(* Model values for the runs of PodStartup.                                *)
EXTENDS PodStartup

CONSTANTS p1, p2, d1, d2
=============================================================================
