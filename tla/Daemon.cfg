SPECIFICATION MCSpec
CONSTANTS
  Procs = {g1, g2}
  CurrentSchemaVersion = 3
  Foreign <- Elsewhere
  MaxValue = 1
  MaxAudit = 1
  MaxFiles = 3
  Pair = {g1, g2}
  Publishers = {p1, p2}
SYMMETRY Symmetry
INVARIANTS StoreSound AuditSound RegistrySound PublishingSound ShutdownSound AdminSound
PROPERTY NothingDestroyed
