SPECIFICATION Spec
CONSTANTS
  p1 = p1
  p2 = p2
  Proc <- OneProc
  Item = {1, 2}
  WebhookID = {"w1", "w2"}
  Expiries = {3}
  MaxQueueItems = 1
  MaxAttempts = 2
  InitialBackoff = 1
  MaxBackoff = 2
  MaxTime = 2
  MaxStops = 0
PROPERTY RetriesWait
