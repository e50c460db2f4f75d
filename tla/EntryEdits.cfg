SPECIFICATION Spec
CONSTANTS
  e1 = e1
  c1 = c1
  r1 = r1
  r2 = r2
  Entries = {e1}
  CorrectionIds = {c1}
  Requests = {r1, r2}
  DayLength = 1
  PeriodLength = 2
  Skew = 0
  StartTime = 2
  MaxTime = 3
  MaxRequests = 3
  MaxFailures = 1
INVARIANTS
  TrailReconstructs
  ReviewedOnce
  ApprovedWasApplied
PROPERTIES
  LockedEntriesKept
  NothingOpenIsLocked
  PaidIsSettled
SYMMETRY Overlapping
CHECK_DEADLOCK FALSE
