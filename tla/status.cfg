SPECIFICATION FairSpec
CONSTANTS
  Restores = {}
  p1 = p1
  p2 = p2
  Pods = {p1}
  SQLs = {"schema"}
  MaxReplicas = 2
  InitReplicas = {1, 2}
  Nil = Nil
  TerminatingCounted = TRUE
  Lagging = {"db"}
  Events = {"scale", "pause", "initSQL", "skip", "deleteWorkload", "deleteDB"}
  MaxEvents = 1
  Faults = {"interrupt"}
  MaxFaults = 1
INVARIANTS
  TypeOK
  StatusCoherent
PROPERTIES
  StatusConverges
CHECK_DEADLOCK FALSE
