SPECIFICATION Spec
CONSTANTS
  p1 = p1
  p2 = p2
  Proc <- TwoProcs
  Item = {1, 2}
  WebhookID = {"w1", "w2"}
  Expiries = {2, 4}
  MaxQueueItems = 1
  MaxAttempts = 2
  InitialBackoff = 1
  MaxBackoff = 1
  MaxTime = 3
  MaxStops = 1
INVARIANTS
  TypeOK
  OutcomeTruthful
  PassIsCurrent
  SendsBounded
  QueueBounded
PROPERTIES
  PassesEnd
  KeepsPromise
