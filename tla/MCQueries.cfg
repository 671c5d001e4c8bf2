SPECIFICATION Spec
CONSTANTS
  s1 = s1
  s2 = s2
  Null = Null
  Sensors <- TwoSensors
  Times <- ThreeTimes
  Values <- TwoValues
  Requests <- Paged
  DefaultPageSize = 2
  MaxPageSize = 2
  GraphQLSize = 2
  SchemaMax = 2
  MaxReadings = 3
  MaxChanges = 1
INVARIANTS
  WalkMissesOnlyTies
  PageAgreesWithTotal
  OnlyWanted
  LatestIsFresh
