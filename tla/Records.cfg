SPECIFICATION Spec
CONSTANTS
  ann = ann
  s1 = s1
  s2 = s2
  l1 = l1
  l2 = l2
  b1 = b1
  r1 = r1
  r2 = r2
  Staff = {ann}
  Shifts = {s1, s2}
  Owner <- OneOwner
  Minutes = {3, 240}
  Rates = {2000}
  Requests = {r1, r2}
  LeaveIds = {l1, l2}
  LeaveHours = {195}
  Adjustments <- GrantOrTake
  Opening = 20
  BonusIds = {b1}
  MaxTime = 2
  MaxRequests = 4
  MaxOverlapping = 3
  MaxChanges = 2
  MaxFailures = 1
  Visits = {r1, r2}
  AnchorDay = 7
  Before = 13
  After = 12
  ClocksChange = 850
  TickHours = 23
  MaxHour = 1200
  MaxRetilings = 1
  Minute = 4
  Questions <- Asking
INVARIANTS
  LeaveSettled
  BalanceOnRecord
  CreditedOnce
  PaidOnRecord
  VoidNotPaid
  PeriodsTile
  PayRulesExact
PROPERTIES
  ApprovedWithinBalance
  PaidAmountsKept
SYMMETRY Symmetric
CHECK_DEADLOCK FALSE
