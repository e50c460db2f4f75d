SPECIFICATION Spec
CONSTANTS
  Employees = {ann}
  NoOne = NoOne
  Flushes = {f1, f2}
  MaxTaps = 2
  MaxSignIns = 0
  MaxErrors = 0
INVARIANTS
  SavedPunchSyncs
CHECK_DEADLOCK FALSE
