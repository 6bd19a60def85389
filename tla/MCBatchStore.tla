---------------------------- MODULE MCBatchStore ----------------------------
(***************************************************************************)
(* Small instances of BatchStore for TLC.                                  *)
(***************************************************************************)
EXTENDS BatchStore

(* Two seats in one row.  Both seats; the second, named twice; the second  *)
(* and a row that is not there, which would alias a place of the array.    *)
OneRow == {<<1, 2>>}
OneRowSeats == {<<<<1, 1>>, <<1, 2>>>>, <<<<1, 2>>, <<1, 2>>>>, <<<<1, 2>>, <<2, 0>>>>}
=============================================================================
