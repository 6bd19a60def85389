--------------------------- MODULE MCServerStore ---------------------------
(***************************************************************************)
(* Small instances of ServerStore for TLC.                                 *)
(***************************************************************************)
EXTENDS ServerStore

(* Two seats in one row.  Both seats; the second, named twice; a row that  *)
(* is not there, which would alias a place of the array.                   *)
OneRow == {<<1, 2>>}
OneRowSeats == {<<<<1, 1>>, <<1, 2>>>>, <<<<1, 2>>, <<1, 2>>>>, <<<<1, 2>>, <<2, 0>>>>}
=============================================================================
