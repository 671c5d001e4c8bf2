SPECIFICATION FairSpec
CONSTANTS
  w1 = w1
  w2 = w2
  listener = listener
  Webhooks <- TwoWebhooks
  Ranks <- TwoRanks
  Listener = listener
  Sharing <- FirstWebhook
  Trickling <- SecondWebhook
  Tasks <- OneTask
  MaxAttempts = 2
  MaxDispatches = 2
  MaxEdits = 3
  MaxFailures = 1
INVARIANTS NoneSkipped PostedOnce PostedOnlyRegistered DeliveredOrMarked AcceptedOnce
PROPERTY DispatchEnds
CHECK_DEADLOCK FALSE
