SPECIFICATION Spec
CONSTANTS
  w1 = w1
  r1 = r1
  r2 = r2
  Webhooks <- OneWebhook
  Events <- TwoEvents
  Targets <- TwoTargets
  Payloads <- SingleFields
  Requests <- TwoRequests
  MaxToggles = 1
  MaxFailures = 1
  MaxRestarts = 1
INVARIANTS OneConfigPerWebhook RegisteredWhereWanted RegisteredOnlyWhereWanted StartsUnlessOverlapped
SYMMETRY Symmetry
CHECK_DEADLOCK FALSE
