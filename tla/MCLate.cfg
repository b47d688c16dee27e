\* Two enrollments of one code, two administrators, and remote systems that execute abandoned requests later.
CONSTANTS
  c1 = c1
  None = None
  Requests = {r1, r2}
  Codes = {c1}
  CodeOf <- OneCode
  Stamp <- SameStamp
  Admins = {a1, a2}
  BindingOps = {}
  Origins = {o1}
  LegacyOrigin = o1
  SeatLimit = 0
  MaxFaults = 1
  MaxCrashes = 1
  LateDelivery = TRUE
SPECIFICATION Spec
SYMMETRY RevokeSymmetry
INVARIANTS SuccessIsUsable CompletedIsRevoked
CHECK_DEADLOCK FALSE
