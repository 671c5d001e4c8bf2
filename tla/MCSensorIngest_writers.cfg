SPECIFICATION Spec
CONSTANTS
  s1 = s1
  r1 = r1
  r2 = r2
  Sensors <- OneSensor
  Requests <- TwoRequests
  UpdateKinds <- AllKinds
  QoS2 = TRUE
  MaxReadings = 2
  MaxSessions = 1
  MaxDrops = 0
  MaxRestarts = 1
  MaxFailures = 1
INVARIANTS AnnouncedStatusIsCurrent
PROPERTIES ImplementsPipeline NoResurrection
SYMMETRY Symmetry
CHECK_DEADLOCK FALSE
