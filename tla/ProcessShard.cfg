CONSTANTS
  r1 = r1
  r2 = r2
  a1 = a1
  a2 = a2
  b1 = b1
  b2 = b2
  Runtimes <- TwoRuntimes
  NodeOf <- SameNode
  NoRuntime = NoRuntime
  MaxEpoch = 3
  Events <- ThreeEvents
  KeyOf <- MCKeyOf
  Registrations <- AllLimits
  MaxIngress = 2
  MaxGrants = 4
SPECIFICATION MCSpec
INVARIANTS
  TypeOK
  EveryPendingEventIsHeldOnce
  CountersMatch
  TransitionsFollow
  OneTransitionPerEvent
  RevokedGrantsNeverCommit
  OneRuntimePerEpoch
  ActiveKeysAreInFlight
  FinalizedKeysAreQuiet
  WaitersHaveAnExecution
PROPERTIES
  LimitsAreRespected
  FirstWaiterIsServed
CHECK_DEADLOCK FALSE
