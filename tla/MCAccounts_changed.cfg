SPECIFICATION Spec
CONSTANTS
  a = a
  q1 = q1
  q2 = q2
  Emails <- OneEmail
  Batches <- BatchOfOne
  Requests <- TwoRequests
  Lifetime = 2
  MaxTime = 1
  MaxSecrets = 2
  MaxTokens = 1
  MaxLives = 1
  MaxFaults = 0
SYMMETRY Symmetry
INVARIANTS ChangedCanLogin
CHECK_DEADLOCK FALSE
