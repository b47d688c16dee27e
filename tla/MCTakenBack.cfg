\* One monitor, one failing call.
CONSTANTS
  None = None
  Hosts = {h1}
  Operators = {}
  Places = {p1}
  Updates <- ProcessingUpdates
  Lease = 3
  MaxAttempts = 1
  MaxFaults = 1
  MaxCrashes = 0
  MaxUpdates = 0
  MaxOverlaps = 0
  MaxDisturbances = 1
SPECIFICATION MonitorSpec
INVARIANT OutcomeStays
CHECK_DEADLOCK FALSE
