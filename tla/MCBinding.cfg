\* A managed Desk binding changes hands while a device enrolls and is revoked, and the revocation is retried.
CONSTANTS
  c1 = c1
  None = None
  Requests = {r1}
  Codes = {c1}
  CodeOf <- OneCode
  Stamp <- SameStamp
  Admins = {a1}
  stored = stored
  verified = verified
  again = again
  BindingOps = {p1, again, stored, verified}
  o2 = o2
  Origins = {o1, o2}
  LegacyOrigin = o1
  SeatLimit = 0
  MaxFaults = 1
  MaxCrashes = 1
  LateDelivery = FALSE
SPECIFICATION BindingSpec
INVARIANTS
  ProvenanceFence CredentialIsStored ActiveIsVerified
PROPERTY RevocationCompletes
CHECK_DEADLOCK FALSE
