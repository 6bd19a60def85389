CONSTANTS
  Clients = {c1, c2}
  Workers = {w1, w2}
  NoClient = NoClient
  MaxSpurious = 0
SPECIFICATION FairSpec
PROPERTIES ServedWhenFree QuitFreesId
CHECK_DEADLOCK FALSE
