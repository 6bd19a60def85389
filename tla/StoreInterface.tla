--------------------------- MODULE StoreInterface ---------------------------
(***************************************************************************)
(* The calls of the event store (server/operations.h) and their answers,   *)
(* shared by the abstract store and the one the server implements.         *)
(***************************************************************************)
EXTENDS SeatGrid

CONSTANTS EventIds,    \* event ids a request may name
          Dims,        \* <<rows, columns>> pairs a CREATE may ask for
          SeatLists    \* sequences of <<row, column>> a RESERVE may ask for

(* A RESERVE names a seat at least: parse_reserve refuses an empty list.   *)
ASSUME InterfaceAssumption ==
  /\ EventIds \subseteq Nat
  /\ Dims \subseteq Nat \X Nat
  /\ SeatLists \subseteq Seq(Nat \X Nat) \ {<<>>}

CreateCalls  == [op : {"create"}, id : EventIds, dims : Dims]
ReserveCalls == [op : {"reserve"}, id : EventIds, seats : SeatLists]
ShowCalls    == [op : {"show"}, id : EventIds]
ListCalls    == [op : {"list"}]
Calls == CreateCalls \cup ReserveCalls \cup ShowCalls \cup ListCalls

NoCall == [op |-> "none"]

(* A reply: the return code, and for SHOW and LIST the data sent with it.  *)
Replies == [code : {-1, 0, 1}, dims : Nat \X Nat, body : Seq(Nat)]
Reply(c, d, b) == [code |-> c, dims |-> d, body |-> b]
NoReply == Reply(-1, <<0, 0>>, <<>>)
Done    == Reply(0, <<0, 0>>, <<>>)
Failed  == Reply(1, <<0, 0>>, <<>>)

IdsOf(events) == [i \in DOMAIN events |-> events[i].id]
=============================================================================
