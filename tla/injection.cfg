SPECIFICATION FairSpec
CONSTANTS
  a = a
  b = b
  dep = dep
  sts = sts
  data = data
  other = other
  None = None
  Names = {a, b}
  Deployments = {dep}
  StatefulSets = {sts}
  MaxReplicas = 2
  Events = {"apply", "delete", "scale", "createWorkload", "deleteWorkload", "apiError"}
  MaxEvents = 4
  Specs <- MovingSpecs
  Layouts <- Templates
INVARIANTS
  TypeOK
  WatchesDatabase
PROPERTIES
  EveryTargetInjected
CHECK_DEADLOCK FALSE
