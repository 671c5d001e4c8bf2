SPECIFICATION Spec
CONSTANTS
  u1 = u1
  u2 = u2
  k1 = k1
  k2 = k2
  k3 = k3
  a = a
  b = b
  r1 = r1
  r2 = r2
  Users <- OneUser
  Keys <- TwoKeys
  Labels <- TwoLabels
  Requests <- OneRequest
  MaxKeysPerUser = 1
  MaxFailures = 0
  MaxRestarts = 0
INVARIANTS
  DeletedIsRefused
CHECK_DEADLOCK FALSE
