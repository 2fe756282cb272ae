SPECIFICATION Spec
CONSTANTS
  p1 = p1
  p2 = p2
  d1 = d1
  d2 = d2
  Pods = {p1}
  Databases = {d1, d2}
  None = None
  HasSqlite3 = TRUE
  InitSQL = FALSE
  Events = {}
  MaxEvents = 0
  Faults = {"corrupt"}
  MaxFaults = 1
INVARIANTS
  IntegrityGate
CHECK_DEADLOCK FALSE
