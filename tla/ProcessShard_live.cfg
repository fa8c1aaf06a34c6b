CONSTANTS
  r1 = r1
  r2 = r2
  a1 = a1
  a2 = a2
  b1 = b1
  b2 = b2
  Runtimes <- TwoRuntimes
  NodeOf <- TwoNodes
  NoRuntime = NoRuntime
  MaxEpoch = 2
  Events <- OneKey
  KeyOf <- MCKeyOf
  Registrations <- OneLimit
  MaxIngress = 2
  MaxGrants = 6
SPECIFICATION FairSpec
CHECK_DEADLOCK FALSE
PROPERTY EveryEventIsDecided
