SPECIFICATION Spec
CONSTANTS
  Writers = {w1, w2}
  Payloads = {p1, p2}
  NoWriter = NoWriter
  MaxId = 3
INVARIANT NoFork
CHECK_DEADLOCK FALSE
