CONSTANTS
  Clients = {c1, c2}
  Workers = {w1, w2}
  NoClient = NoClient
  MaxSpurious = 0
SPECIFICATION Spec
INVARIANTS TakenOnce
CHECK_DEADLOCK FALSE
