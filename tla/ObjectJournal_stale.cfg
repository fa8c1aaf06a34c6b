CONSTANTS
  Runtimes = {r1, r2}
  RecordPaths = {p1, p2, p3}
  NoPath = NoPath
  Operations = {"claim", "work"}
  MaxCrashes = 0
  ApplyFails = FALSE
SPECIFICATION Spec
SYMMETRY Symmetry
INVARIANT FormerOwnersAreFenced
CHECK_DEADLOCK FALSE
