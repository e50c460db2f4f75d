SPECIFICATION PeriodsSpec
CONSTANTS
  Visits = {v1}
  AnchorDay = 7
  Before = 13
  After = 12
  ClocksChange = 470
  TickHours = 6
  MaxHour = 1200
  MaxRetilings = 0
INVARIANT PeriodsApart
CHECK_DEADLOCK FALSE
