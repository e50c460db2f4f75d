SPECIFICATION FairSpec
CONSTANTS
  e1 = e1
  c1 = c1
  r1 = r1
  r2 = r2
  Entries = {e1}
  CorrectionIds = {c1}
  Requests = {r1}
  DayLength = 1
  PeriodLength = 2
  Skew = 0
  StartTime = 2
  MaxTime = 2
  MaxRequests = 3
  MaxFailures = 0
PROPERTY LockedPeriodFrozen
CHECK_DEADLOCK FALSE
