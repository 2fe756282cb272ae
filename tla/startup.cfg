SPECIFICATION FairSpec
CONSTANTS
  p1 = p1
  p2 = p2
  d1 = d1
  d2 = d2
  Pods = {p1, p2}
  Databases = {d1, d2}
  None = None
  HasSqlite3 = TRUE
  InitSQL = TRUE
  Events = {"evict", "wipe", "removeFile", "recreate", "skip", "restore", "pause", "autoRestore"}
  MaxEvents = 4
  Faults = {"kill", "s3", "corrupt", "sqlite3"}
  MaxFaults = 1
INVARIANTS
  TypeOK
  ChainInv
  InitSQLApplied
PROPERTIES
  BackupChainKept
  AutoRestored
  NeverLockedOut
CHECK_DEADLOCK FALSE
