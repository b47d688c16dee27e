\* Two monitors and one operator; two disturbances in all, at most one of each kind.
CONSTANTS
  None = None
  Hosts = {h1, h2}
  Operators = {o1}
  Places = {p1, p2}
  Updates <- ProcessingUpdates
  Lease = 2
  MaxAttempts = 1
  MaxFaults = 1
  MaxCrashes = 1
  MaxUpdates = 1
  MaxOverlaps = 1
  MaxDisturbances = 2
SPECIFICATION MonitorSpec
SYMMETRY MonitorSymmetry
INVARIANTS AckOnce OneWorker RecordSurvives FinalStatusKept
PROPERTY ImplementsTickets
CHECK_DEADLOCK FALSE
