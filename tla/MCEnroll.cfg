\* Two enrollments of one code, one administrator, a legacy Desk, one seat, two faults, one crash.
CONSTANTS
  c1 = c1
  None = None
  Requests = {r1, r2}
  Codes = {c1}
  CodeOf <- OneCode
  Stamp <- SameStamp
  Admins = {a1}
  BindingOps = {}
  Origins = {o1}
  LegacyOrigin = o1
  SeatLimit = 1
  MaxFaults = 2
  MaxCrashes = 1
  LateDelivery = FALSE
SPECIFICATION Spec
INVARIANTS
  ClaimExclusive RestoredCodeIsClean NoOrphanKey NoOrphanInstallation
  RollbackIsTruthful CompletedIsUninstalled
PROPERTY ImplementsContract
CHECK_DEADLOCK FALSE
