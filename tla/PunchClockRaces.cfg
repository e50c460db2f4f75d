SPECIFICATION Spec
CONSTANTS
  ann = ann
  r1 = r1
  r2 = r2
  Employees = {ann}
  Requests = {r1, r2}
  EmployeeOf <- TwoDevices
  MaxTime = 4
  MaxRequests = 3
  MaxFailures = 0
  Cooldown = 1
  OfflineWindow = 2
  MaxShift = 2
  DeductAfter = 1
  DeductMin = 1
INVARIANT EntriesOnRecord
CHECK_DEADLOCK FALSE
