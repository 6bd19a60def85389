---------------------------- MODULE JobReference ----------------------------
(***************************************************************************)
(* Abstract: what the commands of a job file ask for, in the order of the  *)
(* file.  The state is the events there are and the seats that were given, *)
(* each to the reservation with some number; "out" is what SHOW and LIST   *)
(* write.                                                                  *)
(***************************************************************************)
EXTENDS Integers, Sequences, FiniteSets, SequencesExt

(* A job file: its characters, and its lines with the command that each is *)
(* by the grammar that HELP prints.  A line given to JobFile has "text",   *)
(* with its newline unless it is the last, and "means".                    *)
TextOf(lines) == FlattenSeq([i \in DOMAIN lines |-> lines[i].text])
JobFile(lines) ==
  [text |-> TextOf(lines),
   lines |-> [i \in DOMAIN lines |->
                [from |-> Len(TextOf(SubSeq(lines, 1, i - 1))),
                 to |-> Len(TextOf(SubSeq(lines, 1, i))),
                 means |-> lines[i].means]]]

-----------------------------------------------------------------------------
Nothing == [events |-> <<>>, given |-> {}, out |-> <<>>]

Exists(s, id) == \E e \in ToSet(s.events) : e.id = id
EventOf(s, id) == CHOOSE e \in ToSet(s.events) : e.id = id
Plan(s, id) == LET d == EventOf(s, id).dims IN (1 .. d[1]) \X (1 .. d[2])

GivenOf(s, id) == {g \in s.given : g.id = id}
NumbersGiven(s, id) == {g.number : g \in GivenOf(s, id)}
SeatsGiven(s, id) == {g.seat : g \in GivenOf(s, id)}
Holder(s, id, seat) ==
  IF seat \in SeatsGiven(s, id)
  THEN (CHOOSE g \in GivenOf(s, id) : g.seat = seat).number ELSE 0

(* A reservation gets all of its seats, each named once, or none.          *)
Possible(s, id, seats) ==
  /\ Exists(s, id)
  /\ ToSet(seats) \subseteq Plan(s, id) \ SeatsGiven(s, id)
  /\ IsInjective(seats)
Give(s, id, seats) ==
  LET number == Cardinality(NumbersGiven(s, id)) + 1
  IN [s EXCEPT !.given = @ \cup {[id |-> id, seat |-> x, number |-> number] :
                                 x \in ToSet(seats)}]

Rows(s, id) ==
  LET d == EventOf(s, id).dims
  IN [r \in 1 .. d[1] |-> [row |-> [c \in 1 .. d[2] |-> Holder(s, id, <<r, c>>)]]]
Ids(s) == [i \in DOMAIN s.events |-> [event |-> s.events[i].id]]

Do(s, cmd) ==
  CASE cmd.op = "create" /\ ~ Exists(s, cmd.id) ->
         [s EXCEPT !.events = Append(@, [id |-> cmd.id, dims |-> cmd.dims])]
    [] cmd.op = "reserve" /\ Possible(s, cmd.id, cmd.seats) ->
         Give(s, cmd.id, cmd.seats)
    [] cmd.op = "show" /\ Exists(s, cmd.id) -> [s EXCEPT !.out = @ \o Rows(s, cmd.id)]
    [] cmd.op = "list" -> [s EXCEPT !.out = @ \o Ids(s)]
    [] OTHER -> s

Outcome(cmds) == FoldLeft(Do, Nothing, cmds).out
=============================================================================
