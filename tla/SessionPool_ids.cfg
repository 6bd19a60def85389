CONSTANTS
  Clients = {c1, c2, c3, c4}
  Workers = {w1, w2}
  NoClient = NoClient
  MaxSpurious = 0
SPECIFICATION Spec
INVARIANTS SentOwnId
SYMMETRY Symmetry
CHECK_DEADLOCK FALSE
