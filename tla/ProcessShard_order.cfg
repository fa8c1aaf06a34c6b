CONSTANTS
  r1 = r1
  r2 = r2
  a1 = a1
  a2 = a2
  b1 = b1
  b2 = b2
  Runtimes <- OneRuntime
  NodeOf <- TwoNodes
  NoRuntime = NoRuntime
  MaxEpoch = 1
  Events <- TwoKeys
  KeyOf <- MCKeyOf
  Registrations <- Serial
  MaxIngress = 2
  MaxGrants = 4
SPECIFICATION Spec
CHECK_DEADLOCK FALSE
INVARIANT CommitsAreInMailboxOrder
