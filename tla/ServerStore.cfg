CONSTANTS
  Workers = {w1, w2}
  Main = Main
  NoOne = NoOne
  EventIds = {1, 2}
  Dims <- OneRow
  SeatLists <- OneRowSeats
  MaxCalls = 3
  MaxStatus = 2
SPECIFICATION FairSpec
INVARIANTS TypeOK StoreInv UniqueEventIds ReservationsHoldSeats
PROPERTIES ReservedForever ImplementsEventStore AllAnswered ReadersAnswered
CHECK_DEADLOCK FALSE
