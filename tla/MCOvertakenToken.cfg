\* A revocation overtakes an enrollment; nothing fails.
CONSTANTS
  c1 = c1
  None = None
  Requests = {r1}
  Codes = {c1}
  CodeOf <- OneCode
  Stamp <- SameStamp
  Admins = {a1}
  BindingOps = {}
  Origins = {o1}
  LegacyOrigin = o1
  SeatLimit = 0
  MaxFaults = 0
  MaxCrashes = 0
  LateDelivery = FALSE
SPECIFICATION Spec
INVARIANT RevokedStaysClosed
CHECK_DEADLOCK FALSE
