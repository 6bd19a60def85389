CONSTANTS
  Workers = {w1, w2}
  Main = Main
  NoOne = NoOne
  EventIds = {1}
  Dims <- OneRow
  SeatLists <- OneRowSeats
  MaxCalls = 2
  MaxStatus = 1
SPECIFICATION FairSpec
PROPERTIES CreateAnswered
CHECK_DEADLOCK FALSE
