SPECIFICATION BackgroundSpec
CONSTANTS
  Writers = {w1, w2, w3}
  Payloads = {p1, p2}
  NoWriter = NoWriter
  MaxId = 4
  Crew = {ann, bob}
  Pushes = {u1, u2}
  MaxNews = 1
  MaxLosses = 1
  Accounts = {"nobody", "employee", "admin"}
  MaxChanges = 2
  MaxMoves = 1
  MaxFaults = 1
INVARIANTS
  TypeOK
  LinkedToNewest
  VerifierExact
  TamperEvident
  OwnChangesShow
PROPERTIES
  ImplementsChain
  InsertEnds
  SensorsCatchUp
  PollingPagesCatchUp
CHECK_DEADLOCK FALSE
