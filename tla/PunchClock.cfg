SPECIFICATION FairSpec
CONSTANTS
  ann = ann
  r1 = r1
  r2 = r2
  Employees = {ann}
  Requests = {r1}
  EmployeeOf <- OneDevice
  MaxTime = 4
  MaxRequests = 3
  MaxFailures = 1
  Cooldown = 1
  OfflineWindow = 2
  MaxShift = 2
  DeductAfter = 1
  DeductMin = 2
INVARIANTS
  TypeOK
  OneOpenPunch
  OverlapsFlagged
  MealBreakSettled
  TrailTellsEntry
  NoBreakOutlivesShift
PROPERTIES
  OverdueCloses
  EndOfShiftKept
CHECK_DEADLOCK FALSE
