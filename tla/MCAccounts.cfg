SPECIFICATION Spec
CONSTANTS
  a = a
  q1 = q1
  q2 = q2
  Emails <- OneEmail
  Batches <- NamedTwice
  Requests <- TwoRequests
  Lifetime = 2
  MaxTime = 4
  MaxSecrets = 3
  MaxTokens = 1
  MaxLives = 1
  MaxFaults = 1
SYMMETRY Symmetry
INVARIANTS TokenLifetime StaleSessionBound OldPasswordBound OneActiveLogin LockedOutOnly
CHECK_DEADLOCK FALSE
