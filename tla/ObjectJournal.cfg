CONSTANTS
  Runtimes = {r1, r2}
  RecordPaths = {p1, p2, p3}
  NoPath = NoPath
  Operations = {"claim", "renew", "work", "drain", "return", "install"}
  MaxCrashes = 0
  ApplyFails = FALSE
SPECIFICATION Spec
SYMMETRY Symmetry
INVARIANTS
  TypeOK
  ChainIsLog
  AckedAreCommitted
  ReplicasArePrefixes
  GenerationsFollow
  SequenceIsPosition
  QuietCommitsAreFenced
CHECK_DEADLOCK FALSE
