SPECIFICATION TerminalsSpec
CONSTANTS
  ann = ann
  acc1 = acc1
  b1 = b1
  b2 = b2
  e1 = e1
  e2 = e2
  x1 = x1
  kim = kim
  lee = lee
  f1 = f1
  f2 = f2
  Employees = {kim, lee}
  NoOne = NoOne
  Flushes = {f1, f2}
  MaxTaps = 2
  MaxSignIns = 2
  MaxErrors = 1
  Workers = {ann}
  Admin = {ann}
  Panels = {b1, b2}
  Account <- AccountOf
  NoBody = NoBody
  MaxFails = 2
  WindowTime = 1
  Attempts = 2
  MaxMoment = 1
  MaxAttempts = 4
  Admins = {a1, a2}
  Cards = {e1, e2, x1}
  Staff = {e1}
  KindOf <- KindOfCard
  CacheTime = 1
  QueryTime = 1
  MaxClock = 2
  MaxWrites = 3
  MaxFaults = 1
  Phones = {ann}
  Sweeps = 2
  Arrive = 1
  Depart = 2
  MaxMinute = 3
  MaxMoves = 2
  MaxReboots = 1
INVARIANTS
  KeepsQueue
  NoPunchTwice
  
  AdminOnRecord
  LoginHolds
  RemindersRight
PROPERTY FlushDrains
SYMMETRY Symmetric
CHECK_DEADLOCK FALSE
