SPECIFICATION Spec
CONSTANTS
  p1 = p1
  p2 = p2
  Proc <- OneProc
  Item = {1, 2}
  WebhookID = {"w1", "w2"}
  Expiries = {5}
  MaxQueueItems = 2
  MaxAttempts = 3
  InitialBackoff = 1
  MaxBackoff = 2
  MaxTime = 5
  MaxStops = 0
PROPERTIES
  EveryItemSettles
