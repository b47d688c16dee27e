\* Each service in turn; two or three concurrent callers of each.
CONSTANTS
  None = None
  Ops = {p1, p2, p3}
  Unhashed = Unhashed
  OldCode = OldCode
  CodeOps = {p1, OldCode}
  MaxAttempts = 3
  MaxLegacy = 2
  MaxFaults = 2
  Hosts = {h1}
  Operators = {o1}
  Places = {y1}
  Updates <- TicketUpdates
  Lease = 1
  Patterns = {l1}
  Texts = {t1, t2}
  Evidence = {e1, e2}
  Devices = {d1, d2}
  Reviewers = {r1, r2}
  MaxEvidence = 2
  MaxTries = 2
  MaxSubmits = 2
  MaxReviews = 2
  AssetIds = {a1, a2}
  AssetKeys = {s1, s2}
  TeamKeys = {s2}
  Capabilities = {c1}
  Contributors = {d1}
  AssetAdmins = {r1, r2}
  Readers = {x1}
  MaxWrites = 3
  Uploads = {u1, u2}
  LastSeq = 3
  MaxUploads = 3
  m1 = m1
  m2 = m2
  Roles = {g1}
  Teams = {g2}
  Assignments = {g3}
  Models = {m1, m2}
  EffortsOf <- RoleEfforts
  Policies <- RolePolicies
  MaxEdits = 3
  MaxBundles = 2
  Keys = {k1, k2}
  EnvKeys = {k1, None}
  Runtimes = {n1, n2}
  Writers = {z1}
  MaxVersion = 2
  Users = {i1}
  Tenants = {j1}
  Passwords = {w1, w2}
  Secrets = {f1}
  Logins = {v1, v2}
  Calls = {q1}
  Patches <- AccountPatches
  FailLimit = 1
  MaxCalls = 2
SPECIFICATION ServicesSpec
INVARIANTS ChainUnbroken AuditedOnce VerifyAccepts TamperingIsLocated
           SettledTicket ActiveIsApproved DecidedOnLatest PublishedIsReviewed InOrderChain
           MergeRestricts VersionNamesBundle ActivationIsTruthful GuessesAreLimited
PROPERTY VersionCoversBundle
CHECK_DEADLOCK FALSE
