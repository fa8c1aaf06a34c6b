CONSTANTS
  r1 = r1
  r2 = r2
  request = request
  LastLane = 1
  Records = {r1, r2}
  NoRecord = NoRecord
  SnapshotIds = {1, 2, 3, 4, 5, 6}
  NoSnapshot = NoSnapshot
  Requests <- OneRequest
  Maintenance = Maintenance
  Threshold = 2
  MaxSequence = 2
  MaxRequested = 2
  MaxFaults = 2
SPECIFICATION Spec
INVARIANT
  LossOfRocksDBIsRecovered
CHECK_DEADLOCK FALSE
