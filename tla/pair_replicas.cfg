SPECIFICATION Spec
CONSTANTS
  Restores = {r1, r2}
  r2 = r2
  r1 = r1
  p1 = p1
  p2 = p2
  Pods = {p1, p2}
  MaxReplicas = 1
  InitReplicas = {1}
  Nil = Nil
  TerminatingCounted = TRUE
  Lagging = {}
  Events = {}
  MaxEvents = 0
  Faults = {}
  MaxFaults = 0
SYMMETRY PodSymmetry
INVARIANTS
  OriginalReplicasFaithful
