-------------------------- MODULE SequentialStore --------------------------
(***************************************************************************)
(* The event store of the programs without threads (operations.c and       *)
(* eventlist.c of Exercicio1 and Exercicio2).  One process calls it, one   *)
(* call at a time: each call is an operator, from the list of events to    *)
(* the list it leaves or to the lines it writes.                           *)
(*                                                                         *)
(* Memory can be had.  Reservation ids have fewer digits than the buffer   *)
(* of SHOW has characters, three for each column.                          *)
(***************************************************************************)
EXTENDS SeatGrid

(* create_list *)
EmptyList == <<>>

(* get_event: the place of the first event with that id, if there is one.  *)
HasEvent(list, id) == \E i \in DOMAIN list : list[i].id = id
FirstEvent(list, id) ==
  CHOOSE i \in DOMAIN list :
    list[i].id = id /\ \A j \in 1 .. (i - 1) : list[j].id # id

NewEvent(id, dims) ==
  [id |-> id, rows |-> dims[1], cols |-> dims[2], reservations |-> 0,
   data |-> [i \in 0 .. (dims[1] * dims[2] - 1) |-> 0]]

ems_create(list, id, dims) ==
  IF HasEvent(list, id) THEN list ELSE Append(list, NewEvent(id, dims))

-----------------------------------------------------------------------------
(* ems_reserve marks the seats one by one, up to the first that is not in  *)
(* the plan or is taken, by this reservation or by an earlier one.         *)
PlaceOf(e, seat) == SeatIndex(e, seat[1], seat[2])
Refused(e, seats, k) ==
  \/ ~ InBounds(e, seats[k][1], seats[k][2])
  \/ e.data[PlaceOf(e, seats[k])] # 0
  \/ \E j \in 1 .. (k - 1) : PlaceOf(e, seats[j]) = PlaceOf(e, seats[k])
Accepted(e, seats) ==
  CHOOSE n \in 0 .. Len(seats) :
    /\ \A k \in 1 .. n : ~ Refused(e, seats, k)
    /\ n = Len(seats) \/ Refused(e, seats, n + 1)

(* The seats at some places get a value, and the counter goes on by d.     *)
Marks(e, places, value, d) ==
  [e EXCEPT !.reservations = @ + d,
            !.data = [p \in DOMAIN e.data |-> IF p \in places THEN value ELSE e.data[p]]]

(* The reservation that failed gives its number and its seats back.        *)
(* Faulty variants: it keeps its number; it keeps its seats.               *)
KeepsTheNumber(e, places) == Marks(e, places, 0, 0)
KeepsTheSeats(e, places) == Marks(e, {}, 0, -1)
Undo(e, places) == Marks(e, places, 0, -1)

ems_reserve(list, id, seats) ==
  IF ~ HasEvent(list, id) THEN list
  ELSE LET i == FirstEvent(list, id)
           n == Accepted(list[i], seats)
           places == {PlaceOf(list[i], seats[k]) : k \in 1 .. n}
           e == Marks(list[i], places, list[i].reservations + 1, 1)
       IN [list EXCEPT ![i] = IF n = Len(seats) THEN e ELSE Undo(e, places)]

-----------------------------------------------------------------------------
(* ems_show writes a line for each row.                                    *)
ems_show(list, id) ==
  IF ~ HasEvent(list, id) THEN <<>>
  ELSE LET e == list[FirstEvent(list, id)]
       IN [r \in 1 .. e.rows |->
             [row |-> [c \in 1 .. e.cols |-> e.data[SeatIndex(e, r, c)]]]]

(* ems_list_events writes a line for each event.  Its buffer holds three   *)
(* digits: of a longer id it writes three, and what lies behind them.      *)
Garbled == -1
ems_list_events(list) ==
  [i \in DOMAIN list |-> [event |-> IF list[i].id < 1000 THEN list[i].id ELSE Garbled]]
=============================================================================
