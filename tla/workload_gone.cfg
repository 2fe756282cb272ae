SPECIFICATION FairSpec
CONSTANTS
  Restores = {}
  p1 = p1
  p2 = p2
  Pods = {p1}
  SQLs = {"schema"}
  MaxReplicas = 1
  InitReplicas = {1}
  Nil = Nil
  TerminatingCounted = TRUE
  Lagging = {}
  Events = {"deleteWorkload"}
  MaxEvents = 1
  Faults = {}
  MaxFaults = 0
PROPERTIES
  WorkloadGoneReported
CHECK_DEADLOCK FALSE
