CONSTANTS
  Runtimes = {r1, r2}
  RecordPaths = {p1, p2}
  NoPath = NoPath
  Operations = {"claim", "work"}
  MaxCrashes = 0
  ApplyFails = TRUE
SPECIFICATION Spec
SYMMETRY Symmetry
INVARIANT SequenceIsPosition
CHECK_DEADLOCK FALSE
