SPECIFICATION Spec
CONSTANTS
  ann = ann
  r1 = r1
  r2 = r2
  Employees = {ann}
  Requests = {r1}
  EmployeeOf <- OneDevice
  MaxTime = 4
  MaxRequests = 2
  MaxFailures = 0
  Cooldown = 1
  OfflineWindow = 2
  MaxShift = 2
  DeductAfter = 2
  DeductMin = 2
INVARIANT LongShiftDeducted
CHECK_DEADLOCK FALSE
