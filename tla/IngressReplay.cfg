SPECIFICATION Spec
CONSTANTS
  Calls = {"g"}
  IDs = {"a"}
  Malformed = {}
  Tolerance = 5
  Retention = 1
  Skew = 0
  Registry = {TRUE}
  MaxTime = 2
  MaxSecret = 1
INVARIANT ReplayRefused
