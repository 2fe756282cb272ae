SPECIFICATION Spec
CONSTANTS
  Restores = {r1}
  r1 = r1
  p1 = p1
  p2 = p2
  Pods = {p1}
  MaxReplicas = 2
  InitReplicas = {1}
  Nil = Nil
  TerminatingCounted = FALSE
  Lagging = {"workload"}
  Events = {"scale", "pause", "unpause", "disable", "enable", "deleteDB", "deleteRestore", "deleteWorkload", "evict", "wipe"}
  MaxEvents = 1
  Faults = {}
  MaxFaults = 0
INVARIANTS
  ProtocolInv
  ValidatedBeforeScaleUp
PROPERTIES
  RestoreProtocolKept
CHECK_DEADLOCK FALSE
