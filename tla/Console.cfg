CONSTANTS
  c1 = c1
  c2 = c2
  w1 = w1
  w2 = w2
  j1 = j1
  j2 = j2
  Credentials <- TwoLogins
  NoCredential = NoCredential
  NoData = NoData
  Waiting = Waiting
  Unauthorized = Unauthorized
  MaxClock = 2
  RecordsAt <- MCRecordsAt
  Window = 1
  TrendLimit = 2
  MaxLoads = 2
  Runs <- TwoRuns
  Jobs <- TwoJobs
  NoItem = NoItem
  MaxEntries = 2
  Commands = {1, 2}
  NoCommand = NoCommand
  MaxEvents = 5
  MaxTime = 2
  Documents <- MCDocuments
  sectionOrder <- MCSections
  MaxCopies = 3
SPECIFICATION Spec
INVARIANTS
  TrendIsHonest
  LanesFollowHistory
  DocumentIsConsistent
PROPERTIES
  SignedOutFallsSilent
  SessionFollowsServer
  JobAnswersAreCurrent
  ClosedPagesStayClosed
  RunPageShowsItsRun
CHECK_DEADLOCK FALSE
