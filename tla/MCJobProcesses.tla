--------------------------- MODULE MCJobProcesses ---------------------------
(***************************************************************************)
(* A small instance of JobProcesses for TLC: one job file that holds any   *)
(* two lines between a CREATE and commands that show the outcome, and two  *)
(* short files.                                                            *)
(***************************************************************************)
EXTENDS JobProcesses

CONSTANTS f1, f2, f3

Line(string, command) ==
  [text |-> Append(Chars(string), Newline), means |-> command]
Bad(string)        == Line(string, [op |-> "invalid"])
Create(string, n, d) == Line(string, [op |-> "create", id |-> n, dims |-> d])
Reserve(string, n, s) == Line(string, [op |-> "reserve", id |-> n, seats |-> s])
Show(string, n)    == Line(string, [op |-> "show", id |-> n])
Word0(string, name) == Line(string, [op |-> name])
Unended(line) == [line EXCEPT !.text = Front(@)]

Create1 == Create("CREATE 1 1 2", 1, <<1, 2>>)
Show1 == Show("SHOW 1", 1)
List == Word0("LIST", "list")

(* Commands; the seats are free, partly taken, repeated, or not there.     *)
Good == {
  Create("CREATE 1 2 1", 1, <<2, 1>>), Create("CREATE 12 2 1", 12, <<2, 1>>),
  Create("CREATE 1000 0 1", 1000, <<0, 1>>),
  Reserve("RESERVE 1 [(1,2)]", 1, <<<<1, 2>>>>),
  Reserve("RESERVE 1 [(1,1) (1,2)]", 1, <<<<1, 1>>, <<1, 2>>>>),
  Reserve("RESERVE 1 [(1,1) (1,1)]", 1, <<<<1, 1>>, <<1, 1>>>>),
  Reserve("RESERVE 1 [(1,1) (2,0)]", 1, <<<<1, 1>>, <<2, 0>>>>),
  Show("SHOW 12", 12), Show("SHOW ", 0), List,
  Word0("WAIT 0 1", "wait"), Word0("HELP", "help"), Word0("BARRIER", "barrier"),
  Word0("#", "empty"), Word0("", "empty")}

(* Lines that are no command: too short at various places, too long, too   *)
(* large, or with MAX_RESERVATION_SIZE seats.                              *)
Malformed == {
  Bad("R"), Bad("LIS"), Bad("CREATE x"), Bad("CREATE 12 2"), Bad("RESERVE 1"),
  Bad("RESERVE 1 [1]"), Bad("RESERVE 1 [(1)]"), Bad("RESERVE 1 [(1,1"),
  Bad("RESERVE 1 [(1,1)] "),
  Bad("RESERVE 1 [(1,1)"), Bad("x"), Bad("SHOW 1 2"), Bad("LIST 1"),
  Bad("SHOW 10000"), Bad("RESERVE 1 (1,1)"), Bad("WAIT x"),
  Bad("RESERVE 1 [(1,1) (1,2) (1,2)]")}

AnyLine == Good \cup Malformed

(* What may follow it: a command that is lost or not, or another line that *)
(* is too short.                                                           *)
Second == {List, Create("CREATE 12 2 1", 12, <<2, 1>>),
           Reserve("RESERVE 1 [(1,1) (1,2)]", 1, <<<<1, 1>>, <<1, 2>>>>),
           Word0("", "empty"), Bad("R"), Bad("RESERVE 1 [(1,1)")}
Ends == {<<Show1, List>>, <<List, Unended(Show1)>>}
CutShort == {<<Unended(List)>>, <<Unended(Bad("SHO"))>>}
LongJobs ==
  {JobFile(<<Create1, a, b>> \o z) : a \in AnyLine, b \in Second, z \in Ends}
  \cup {JobFile(<<Create1, Show1>> \o z) : z \in CutShort}

(* A digit may be left behind a number that nothing ends.                  *)
StaleDigits == {<<>>, <<"2">>}

MCDirectories ==
  {(f1 :> j) @@ (f2 :> JobFile(<<Create1>>)) @@ (f3 :> JobFile(<<>>)) : j \in LongJobs}
=============================================================================
