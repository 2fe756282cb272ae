SPECIFICATION FairSpec
CONSTANTS
  MaxUid = 3
INVARIANTS
  TypeOK
  OwnRestore
  IdentityInv
  OwnConfig
PROPERTIES
  RestoreEnds
CHECK_DEADLOCK FALSE
