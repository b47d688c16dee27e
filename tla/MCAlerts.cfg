\* One crash, two processes and two submissions at a time, one administrator, two faults.
CONSTANTS
  None = None
  Rows = {d1}
  KeyOf <- OneKey
  Workers = {w1, w2}
  Submitters = {s1, s2}
  Admins = {a1}
  MaxAttempts = 2
  MaxSubmissions = 3
  MaxRetries = 1
  MaxFaults = 2
SPECIFICATION FairCrashSpec
INVARIANTS SentIsDelivered FailedIsExhausted
PROPERTIES ReopensOncePerResolution AlertSettles
CHECK_DEADLOCK FALSE
