----------------------------- MODULE EventStore -----------------------------
(***************************************************************************)
(* What the event store promises to the threads that call it, whatever its *)
(* locks: every call takes effect at one instant between its invocation    *)
(* and its reply.  A seat is a <<row, column>> pair and is owned by the    *)
(* reservation whose id it carries (0: free).  ServerStore implements this *)
(* specification with Repeats, and BatchStore without.                     *)
(***************************************************************************)
EXTENDS StoreInterface

CONSTANTS Workers,     \* the threads that call the store
          Repeats      \* a Boolean: may a reservation name a seat twice?

VARIABLES catalog,     \* the events, in the order they were created
          pending,     \* pending[w]: the call of w that has not returned
          outcome      \* outcome[w]: the reply to that call, once it took effect

absVars == <<catalog, pending, outcome>>

-----------------------------------------------------------------------------
Init ==
  /\ catalog = <<>>
  /\ pending = [w \in Workers |-> NoCall]
  /\ outcome = [w \in Workers |-> NoReply]

Invoke(w, c) ==
  /\ pending[w] = NoCall
  /\ pending' = [pending EXCEPT ![w] = c]
  /\ UNCHANGED <<catalog, outcome>>

(* CREATE adds an empty event under a fresh id; it may also fail for want  *)
(* of memory, and must fail when the id is taken.                          *)
PerformCreate(w, r) ==
  LET c == pending[w]
      blank == [id |-> c.id, rows |-> c.dims[1], cols |-> c.dims[2],
                reservations |-> 0]
  IN /\ c.op = "create"
     /\ \/ r = Failed /\ UNCHANGED catalog
        \/ /\ r = Done
           /\ \A i \in DOMAIN catalog : catalog[i].id # c.id
           /\ catalog' = Append(catalog,
                [id |-> blank.id, rows |-> blank.rows, cols |-> blank.cols,
                 reservations |-> 0, owner |-> [s \in Coords(blank) |-> 0]])

(* RESERVE takes all the seats it names under one new reservation id, or   *)
(* none: when a seat is not in the plan, or is taken, or perhaps when the  *)
(* request names one twice.                                                *)
Reservable(e, seats) ==
  /\ \A k \in DOMAIN seats : seats[k] \in Coords(e) /\ e.owner[seats[k]] = 0
  /\ Repeats \/ \A j, k \in DOMAIN seats : seats[j] = seats[k] => j = k

PerformReserve(w, r) ==
  LET c == pending[w]
  IN /\ c.op = "reserve"
     /\ \/ /\ r = Failed
           /\ \A i \in DOMAIN catalog :
                catalog[i].id = c.id => ~ Reservable(catalog[i], c.seats)
           /\ UNCHANGED catalog
        \/ /\ r = Done
           /\ \E i \in DOMAIN catalog :
                LET e == catalog[i]
                    taken == {c.seats[k] : k \in DOMAIN c.seats}
                    new == e.reservations + 1
                IN /\ e.id = c.id
                   /\ Reservable(e, c.seats)
                   /\ catalog' = [catalog EXCEPT ![i] =
                        [e EXCEPT !.reservations = new,
                                  !.owner = [s \in Coords(e) |->
                                    IF s \in taken THEN new ELSE e.owner[s]]]]

(* SHOW answers with one consistent picture of the event, row by row.      *)
PerformShow(w, r) ==
  /\ pending[w].op = "show"
  /\ UNCHANGED catalog
  /\ \/ /\ r = Failed
        /\ \A i \in DOMAIN catalog : catalog[i].id # pending[w].id
     \/ \E i \in DOMAIN catalog :
          LET e == catalog[i]
          IN /\ e.id = pending[w].id
             /\ r = Reply(0, <<e.rows, e.cols>>,
                          [k \in 1 .. e.rows * e.cols |-> e.owner[RowMajor(e, k)]])

(* LIST answers with every event, in the order of creation.                *)
PerformList(w, r) ==
  /\ pending[w].op = "list"
  /\ UNCHANGED catalog
  /\ r = IF catalog = <<>> THEN Failed
         ELSE Reply(0, <<Len(catalog), 1>>, IdsOf(catalog))

(* The instant at which the call of w takes effect.                        *)
Perform(w) ==
  LET r == outcome'[w]
  IN /\ outcome[w] = NoReply
     /\ r # NoReply
     /\ outcome' = [outcome EXCEPT ![w] = r]
     /\ \/ PerformCreate(w, r)
        \/ PerformReserve(w, r)
        \/ PerformShow(w, r)
        \/ PerformList(w, r)
     /\ UNCHANGED pending

Return(w) ==
  /\ outcome[w] # NoReply
  /\ pending' = [pending EXCEPT ![w] = NoCall]
  /\ outcome' = [outcome EXCEPT ![w] = NoReply]
  /\ UNCHANGED catalog

Next == \E w \in Workers :
          \/ \E c \in Calls : Invoke(w, c)
          \/ Perform(w)
          \/ Return(w)

Spec == Init /\ [][Next]_absVars
=============================================================================
