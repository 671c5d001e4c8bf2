SPECIFICATION Spec
CONSTANTS
  u1 = u1
  u2 = u2
  k1 = k1
  k2 = k2
  k3 = k3
  a = a
  b = b
  r1 = r1
  r2 = r2
  Users <- TwoUsers
  Keys <- ThreeKeys
  Labels <- TwoLabels
  Requests <- TwoRequests
  MaxKeysPerUser = 1
  MaxFailures = 1
  MaxRestarts = 1
INVARIANTS
  AcceptedIsActive
  ActiveIsAccepted
  LimitSlack
SYMMETRY Symmetry
CHECK_DEADLOCK FALSE
