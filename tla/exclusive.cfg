SPECIFICATION Spec
CONSTANTS
  Restores = {r1}
  r1 = r1
  p1 = p1
  p2 = p2
  Pods = {p1}
  MaxReplicas = 1
  InitReplicas = {1}
  Nil = Nil
  TerminatingCounted = TRUE
  Lagging = {"db"}
  Events = {"pause", "unpause", "disable", "enable", "deleteDB", "evict", "wipe"}
  MaxEvents = 2
  Faults = {"interrupt", "cleanup", "read"}
  MaxFaults = 1
INVARIANTS
  OriginalReplicasFaithful
  ExclusiveInv
CHECK_DEADLOCK FALSE
