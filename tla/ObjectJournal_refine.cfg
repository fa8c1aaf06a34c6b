CONSTANTS
  Runtimes = {r1, r2}
  RecordPaths = {p1, p2}
  NoPath = NoPath
  Operations = {"claim", "renew", "work"}
  MaxCrashes = 1
  ApplyFails = TRUE
SPECIFICATION FairSpec
PROPERTIES
  ImplementsSharedLog
  ReplicasCatchUp
CHECK_DEADLOCK FALSE
