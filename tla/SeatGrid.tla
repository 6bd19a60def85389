------------------------------ MODULE SeatGrid ------------------------------
(***************************************************************************)
(* The seating plan of an event.  An event has rows and columns numbered   *)
(* from 1, and keeps the reservation id of each seat (0: free) in a flat   *)
(* array numbered from 0.                                                  *)
(***************************************************************************)
EXTENDS Integers, Sequences

(* seat_index: the place of a seat in the flat array.                      *)
SeatIndex(e, row, col) == (row - 1) * e.cols + col - 1

(* The negation of the bounds test of ems_reserve.                         *)
InBounds(e, row, col) ==
  /\ row > 0 /\ row <= e.rows
  /\ col > 0 /\ col <= e.cols

(* The indices of the flat array, and the coordinates of the seats.        *)
Places(e) == 0 .. (e.rows * e.cols - 1)
Coords(e) == (1 .. e.rows) \X (1 .. e.cols)

(* The seats of a request, a sequence of <<row, column>> pairs.            *)
RequestInBounds(e, seats) ==
  \A k \in DOMAIN seats : InBounds(e, seats[k][1], seats[k][2])

(* The k-th seat (from 1) in the order in which SHOW walks the event.      *)
RowMajor(e, k) == <<((k - 1) \div e.cols) + 1, ((k - 1) % e.cols) + 1>>
=============================================================================
