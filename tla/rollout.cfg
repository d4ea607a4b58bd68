SPECIFICATION FairSpec
CONSTANTS
  old = old
  new = new
  Pods = {old, new}
  SCHEMA_VERSION <- Required
  Configured <- Enables
  StoredShapes <- Stored
  Signals <- Sent
  None = None
INVARIANTS
  MigrationInv
  NeverOnAnOlderShape
  PoolOutlivesItsUsers
  FailedBootLeavesNothing
PROPERTIES
  ShutdownEnds
