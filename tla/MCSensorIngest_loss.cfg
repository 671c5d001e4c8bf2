SPECIFICATION FairSpec
CONSTANTS
  s1 = s1
  r1 = r1
  r2 = r2
  Sensors <- OneSensor
  Requests <- OneRequest
  UpdateKinds <- TwoKinds
  QoS2 = TRUE
  MaxReadings = 1
  MaxSessions = 2
  MaxDrops = 1
  MaxRestarts = 1
  MaxFailures = 1
INVARIANTS OrphansOnlyAfterDelete StatusInSync
PROPERTIES EventuallyInSync BacklogDrains
CHECK_DEADLOCK FALSE
