SPECIFICATION MCSpec
CONSTANTS
  Calls = {g1, g2}
  Twins = {a, b}
  IDs = {a, b, m}
  Malformed = {m}
  Tolerance = 1
  Retention = 3
  Skew = 1
  Registry = {TRUE, FALSE}
  MaxTime = 3
  MaxSecret = 2
  Cycles = {g1, g2}
  Rules = {1, 2}
  Interval <- MCInterval
  SLOWindow <- MCWindow
  ConsecutiveFailures <- MCStreaks
  RecoverySamples <- MCStreaks
  MaxProbeTime = 4
  MaxRuns = 3
  Signals <- MCSignals
  DedupeWindow = 2
  MaxSeenInputs = 2
  MaxApplied = 7
  IncidentIDs = {1, 2, 3}
  OpenedAts = {1, 2}
  Filters <- MCFilters
  PageSizes = {1, 2}
  Sizes = {0, 1, 2}
  MaxRecords = 3
  LineLimits = {2, 3}
  ByteLimits = {3, 4, 6}
  QuotaAttempts = 3
  Streams = {TRUE, FALSE}
  Answers = {TRUE, FALSE}
  MaxEvents = 3
  MaxModelCalls = 5
  Callers = {g1, g2}
  ContainerIDs = {"i1", "i2", "i3"}
  Names = {"n1", "n2"}
  Services = {"s"}
  Operations = {"observe", "evidence", "validate", "execute"}
  Nobody = "nobody"
  Verifiers = {g1, g2}
  Effect = {"e"}
  IdemKey = {"k"}
  StableSamples = 2
  StableWindow = 2
  MaxAttempts = 2
  AttemptOf <- MCAttemptOf
  Paced = TRUE
  MaxSamples = 3
  MaxVerifyTime = 4
  MaxStops = 2
SYMMETRY Symmetry
INVARIANTS
  AcceptedOnce ReceiptsSound RotationKeepsTraffic
  ObserverSound CorrelatorSound ModelClientSound AdapterSound VerifierSound ReadsComplete
PROPERTY IncidentsMoveForward
