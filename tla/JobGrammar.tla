----------------------------- MODULE JobGrammar -----------------------------
(***************************************************************************)
(* Abstract: what the lines of a job file mean, by the grammar that HELP   *)
(* prints, and not by reading them character after character: a keyword,   *)
(* and behind it numbers, each up to a certain mark.  A missing number     *)
(* is 0; the list of a RESERVE is not empty, and is shorter than           *)
(* MAX_RESERVATION_SIZE.                                                   *)
(***************************************************************************)
EXTENDS JobParser, FiniteSets

(* The marks in the arguments a of a command: what is no digit, and the    *)
(* end.  The k-th field is what stands before the k-th mark.               *)
MarksOf(a) == {i \in 1 .. Len(a) + 1 : i = Len(a) + 1 \/ ~ IsDigit(a[i])}
Mark(a, k) ==
  IF k = 0 THEN 0
  ELSE CHOOSE i \in MarksOf(a) : Cardinality({j \in MarksOf(a) : j <= i}) = k
Field(a, k) == SubSeq(a, Mark(a, k - 1) + 1, Mark(a, k) - 1)
Value(a, k) == Number(Field(a, k))

Fits(a, k) == Value(a, k) <= UINT_MAX
EndsWith(a, k, c) == a[Mark(a, k)] = c
Fields(a) == Cardinality(MarksOf(a))

(* <event_id> <num_rows> <num_columns>                                     *)
IsCreate(a) ==
  /\ Fields(a) = 3 /\ \A k \in 1 .. 3 : Fits(a, k)
  /\ EndsWith(a, 1, Blank) /\ EndsWith(a, 2, Blank)

(* <event_id> [(<x1>,<y1>) (<x2>,<y2>) ...]: the four fields of a seat end *)
(* with its parenthesis, its comma, its other parenthesis, and what        *)
(* follows it.                                                             *)
IsSeat(a, i, next) ==
  /\ Field(a, 4 * i - 1) = <<>> /\ EndsWith(a, 4 * i - 1, "(")
  /\ Fits(a, 4 * i)             /\ EndsWith(a, 4 * i, Comma)
  /\ Fits(a, 4 * i + 1)         /\ EndsWith(a, 4 * i + 1, ")")
  /\ Field(a, 4 * i + 2) = <<>> /\ EndsWith(a, 4 * i + 2, next)
IsReserve(a, n) ==
  /\ Fields(a) = 4 * n + 3
  /\ Fits(a, 1)                 /\ EndsWith(a, 1, Blank)
  /\ Field(a, 2) = <<>>         /\ EndsWith(a, 2, "[")
  /\ \A i \in 1 .. n : IsSeat(a, i, IF i = n THEN "]" ELSE Blank)
  /\ Field(a, 4 * n + 3) = <<>>
Seated(a, n) == [i \in 1 .. n |-> <<Value(a, 4 * i), Value(a, 4 * i + 1)>>]

(* <event_id>                                                              *)
IsShow(a) == Fields(a) = 1 /\ Fits(a, 1)

(* <delay_ms> [thread_id], with anything in place of the thread.           *)
IsWait(a) == Fits(a, 1) /\ (Fields(a) = 1 \/ EndsWith(a, 1, Blank))

(* A line, without its newline, and a file of lines.                       *)
Meaning(line) ==
  LET c == line[1]
      word == Chars(Word(c))
      a == SubSeq(line, Len(word) + 1, Len(line))
      n == (Fields(a) - 3) \div 4
  IN IF line = <<>> \/ c = "#" THEN [op |-> "empty"]
     ELSE IF word = <<>> \/ ~ IsPrefix(word, line) THEN [op |-> "invalid"]
     ELSE CASE c = "C" /\ IsCreate(a) ->
                 [op |-> "create", id |-> Value(a, 1), dims |-> <<Value(a, 2), Value(a, 3)>>]
            [] c = "R" /\ n \in 1 .. MAX_RESERVATION_SIZE - 1 /\ IsReserve(a, n) ->
                 [op |-> "reserve", id |-> Value(a, 1), seats |-> Seated(a, n)]
            [] c = "S" /\ IsShow(a) -> [op |-> "show", id |-> Value(a, 1)]
            [] c = "W" /\ IsWait(a) -> [op |-> "wait"]
            [] c \in Alone /\ a = <<>> -> [op |-> Command(c)]
            [] OTHER -> [op |-> "invalid"]
IsLine(f, from, to) ==
  /\ to \in 1 .. Len(f) /\ from \in 0 .. to - 1
  /\ \A i \in (from + 1) .. (to - 1) : f[i] # Newline
  /\ to = Len(f) \/ f[to] = Newline
Content(f, from, to) == SubSeq(f, from + 1, IF f[to] = Newline THEN to - 1 ELSE to)
IsText(f, lines) ==
  /\ Len(lines) \in Nat /\ DOMAIN lines = 1 .. Len(lines)
  /\ IF Len(lines) = 0 THEN f = <<>> ELSE lines[1].from = 0 /\ lines[Len(lines)].to = Len(f)
  /\ \A i \in DOMAIN lines :
       /\ IsLine(f, lines[i].from, lines[i].to)
       /\ lines[i].means = Meaning(Content(f, lines[i].from, lines[i].to))
       /\ i > 1 => lines[i].from = lines[i - 1].to
=============================================================================
