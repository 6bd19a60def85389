-------------------------- MODULE MCClientSession --------------------------
(***************************************************************************)
(* Small instances of ClientSession for TLC.                               *)
(***************************************************************************)
EXTENDS ClientSession

(* One seat; two in a row; two in a column.                                *)
SmallPlans == {<<1, 1>>, <<1, 2>>, <<2, 1>>}
=============================================================================
