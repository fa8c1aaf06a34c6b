CONSTANTS
  r1 = r1
  r2 = r2
  r3 = r3
  Runtimes <- MCRuntimes
  NodeOf <- MCNodeOf
  NoRuntime = NoRuntime
  MaxEpoch = 4
SPECIFICATION SpecOwnership
PROPERTY DrainingEndsInRestoring
CHECK_DEADLOCK FALSE
