--------------------------- MODULE MCSessionPool ---------------------------
(***************************************************************************)
(* Small instances of SessionPool for TLC.  Clients are interchangeable,   *)
(* and so are workers: no definition names one.                            *)
(***************************************************************************)
EXTENDS SessionPool, TLC

Symmetry == Permutations(Clients) \cup Permutations(Workers)

(* The bound on wakeups without a signal: where there was one, a client    *)
(* less comes than may come without, and one of them leaves at most.       *)
Bound ==
  spurious > 0 =>
    /\ Cardinality(Asked) < Cardinality(Clients)
    /\ Cardinality({c \in Clients : at[c] \in {"closed", "gone", "abandoned"}}) <= 1
=============================================================================
