CONSTANTS
  Clients = {c1, c2, c3, c4}
  Workers = {w1, w2}
  NoClient = NoClient
  MaxSpurious = 1
SPECIFICATION Spec
CONSTRAINT Bound
INVARIANTS TypeOK OwnIds NoPhantom ActiveBounded
SYMMETRY Symmetry
CHECK_DEADLOCK FALSE
