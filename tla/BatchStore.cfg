CONSTANTS
  Workers = {t1, t2}
  NoOne = NoOne
  EventIds = {1, 2}
  Dims <- OneRow
  SeatLists <- OneRowSeats
  MaxCalls = 4
  Ops = {"create", "reserve", "show", "list"}
  BufferLines = 4
SPECIFICATION FairSpec
INVARIANTS TypeOK UniqueEventIds ReservationsHoldSeats
PROPERTIES CommittedForever ImplementsEventStore AllAnswered
CHECK_DEADLOCK FALSE
