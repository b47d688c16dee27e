\* Two submissions and a review of one candidate.
CONSTANTS
  None = None
  Patterns = {p1}
  Texts = {t1, t2}
  Evidence = {e1, e2}
  Devices = {d1, d2}
  Reviewers = {r1, r2}
  MaxEvidence = 2
  MaxTries = 2
  MaxSubmits = 2
  MaxReviews = 2
SPECIFICATION LearningSpec
INVARIANT ApprovedWasShown
CHECK_DEADLOCK FALSE
