----------------------------- MODULE JobParser -----------------------------
(***************************************************************************)
(* The parser of the job files (parser.c of the batch programs; the        *)
(* client's is the same but for BARRIER).  A file is a sequence of         *)
(* characters, read one after the other through its descriptor: every      *)
(* operator takes the file f and the number of characters already read,    *)
(* and returns the number read when it is done as "at".                    *)
(*                                                                         *)
(* Numbers have fewer than 16 digits, the size of the buffer of read_uint. *)
(***************************************************************************)
EXTENDS Integers, Sequences, SequencesExt

CONSTANTS UINT_MAX, MAX_RESERVATION_SIZE

ASSUME JobParserAssumption == UINT_MAX \in Nat /\ MAX_RESERVATION_SIZE \in Nat

Nul == "nul"                   \* what read_uint says came after the last character
Newline == "\n"
Blank == " "
Comma == ","
Chars(string) == [i \in 1 .. Len(string) |-> SubSeq(string, i, i)]
Digits == Chars("0123456789")
IsDigit(c) == \E i \in 1 .. 10 : Digits[i] = c
DigitValue(c) == (CHOOSE i \in 1 .. 10 : Digits[i] = c) - 1
Number(digits) == FoldLeft(LAMBDA n, c : 10 * n + DigitValue(c), 0, digits)

-----------------------------------------------------------------------------
(* read_uint.  The digits end with the first other character, which is     *)
(* read too.  At the end of the file nothing ends them in the buffer: what *)
(* strtoul finds after them there is left from earlier, and is stale.  No  *)
(* digit at all is the number 0.                                           *)
DigitsEnd(f, at) ==
  CHOOSE q \in (at + 1) .. (Len(f) + 1) :
    /\ q = Len(f) + 1 \/ ~ IsDigit(f[q])
    /\ \A i \in (at + 1) .. (q - 1) : IsDigit(f[i])

read_uint(f, at, stale) ==
  LET q == DigitsEnd(f, at)
      atEnd == q = Len(f) + 1
      digits == SubSeq(f, at + 1, q - 1)
      value == Number(IF atEnd THEN digits \o stale ELSE digits)
  IN [at |-> IF atEnd THEN Len(f) ELSE q, next |-> IF atEnd THEN Nul ELSE f[q],
      value |-> value, ok |-> value <= UINT_MAX]

(* cleanup: what is left of the line, its newline included.                *)
cleanup(f, at) ==
  IF \E q \in (at + 1) .. Len(f) : f[q] = Newline
  THEN CHOOSE q \in (at + 1) .. Len(f) :
         f[q] = Newline /\ \A i \in (at + 1) .. (q - 1) : f[i] # Newline
  ELSE Len(f)

(* Faulty variant of Invalid: the rest of the line is not skipped.         *)
StopsThere(f, at) == [at |-> at, cmd |-> [op |-> "invalid"]]
Invalid(f, at) == [at |-> cleanup(f, at), cmd |-> [op |-> "invalid"]]
Parsed(at, cmd) == [at |-> at, cmd |-> cmd]

(* One read of a character, which fails at the end of the file, and a read *)
(* of n, which may get fewer there.                                        *)
ReadsOneOf(f, at, set) == at < Len(f) /\ f[at + 1] \in set
After(f, at, n) == IF at + n <= Len(f) THEN at + n ELSE Len(f)

-----------------------------------------------------------------------------
(* get_next reads one character, and as many more as the command that it   *)
(* begins has, whatever they are.  Commands without arguments then have a  *)
(* newline, or the end of the file.                                        *)
Word(c) ==
  CASE c = "C" -> "CREATE " [] c = "R" -> "RESERVE " [] c = "S" -> "SHOW "
    [] c = "W" -> "WAIT "   [] c = "L" -> "LIST"     [] c = "H" -> "HELP"
    [] c = "B" -> "BARRIER" [] OTHER -> ""
Command(c) ==
  CASE c = "C" -> "create"  [] c = "R" -> "reserve"  [] c = "S" -> "show"
    [] c = "W" -> "wait"    [] c = "L" -> "list"     [] c = "H" -> "help"
    [] c = "B" -> "barrier" [] OTHER -> "empty"
Alone == {"L", "H", "B"}

(* Strings are sequences of characters: the provers do not know it.        *)
ASSUME WordsAssumption ==
  /\ \A c \in {"C", "R", "S", "W", "L", "H", "B"} :
       Len(Word(c)) \in 4 .. 8 /\ Newline \notin ToSet(Chars(Word(c)))
  /\ Len(Word(Newline)) = 0
  /\ \A c \in {Newline, Nul, Blank, "(", Comma, ")", "[", "]"} : ~ IsDigit(c)

get_next(f, at) ==
  LET c == f[at + 1]
      word == Chars(Word(c))
      end == After(f, at, Len(word))
  IN IF at = Len(f) THEN Parsed(at, [op |-> "eoc"])
     ELSE IF c = Newline THEN Parsed(at + 1, [op |-> "empty"])
     ELSE IF c = "#" THEN Parsed(cleanup(f, at + 1), [op |-> "empty"])
     ELSE IF word = <<>> THEN Invalid(f, at + 1)
     ELSE IF SubSeq(f, at + 1, end) # word THEN Invalid(f, end)
     ELSE IF c \in Alone /\ end < Len(f) /\ f[end + 1] # Newline
          THEN Invalid(f, end + 1)
     ELSE Parsed(IF c \in Alone THEN After(f, end, 1) ELSE end,
                 [op |-> Command(c)])

-----------------------------------------------------------------------------
(* Numbers one after the other, the i-th ended by one of ends[i]: the      *)
(* shape of the arguments of CREATE and SHOW, and of a seat.               *)
WithNumber(s, n, set) ==
  [at |-> n.at, ok |-> n.ok /\ n.next \in set, values |-> Append(s.values, n.value)]
Numbers(f, at, ends, stale) ==
  FoldLeft(LAMBDA s, set :
             IF s.ok THEN WithNumber(s, read_uint(f, s.at, stale), set) ELSE s,
           [at |-> at, ok |-> TRUE, values |-> <<>>], ends)
LineEnd == {Newline, Nul}

IfNumbers(f, s, cmd) == IF s.ok THEN Parsed(s.at, cmd) ELSE Invalid(f, s.at)

parse_create(f, at, stale) ==
  LET s == Numbers(f, at, <<{Blank}, {Blank}, LineEnd>>, stale)
      v == s.values
  IN IfNumbers(f, s, [op |-> "create", id |-> v[1], dims |-> <<v[2], v[3]>>])

parse_show(f, at, stale) ==
  LET s == Numbers(f, at, <<LineEnd>>, stale)
  IN IfNumbers(f, s, [op |-> "show", id |-> s.values[1]])

(* The second number of a WAIT is not read: the programs without threads   *)
(* pass no thread_id, and the rest of the line is dropped.                 *)
parse_wait(f, at, stale) ==
  LET n == read_uint(f, at, stale)
  IN IF ~ n.ok THEN Invalid(f, n.at)
     ELSE IF n.next \in LineEnd THEN Parsed(n.at, [op |-> "wait"])
     ELSE IF n.next = Blank THEN Parsed(cleanup(f, n.at), [op |-> "wait"])
     ELSE Invalid(f, n.at)

(* One turn of the loop of parse_reserve, and the list of seats: it must   *)
(* be closed before it has MAX_RESERVATION_SIZE of them.                   *)
WithSeat(f, s, n) ==
  [at     |-> IF n.ok THEN After(f, n.at, 1) ELSE n.at,
   ok     |-> n.ok /\ ReadsOneOf(f, n.at, {Blank, "]"}),
   closed |-> n.ok /\ ReadsOneOf(f, n.at, {"]"}),
   seats  |-> Append(s.seats, n.values)]
Seat(f, s, stale) ==
  IF ReadsOneOf(f, s.at, {"("})
  THEN WithSeat(f, s, Numbers(f, s.at + 1, <<{Comma}, {")"}>>, stale))
  ELSE [s EXCEPT !.at = After(f, s.at, 1), !.ok = FALSE]

Seats(f, at, stale) ==
  FoldLeft(LAMBDA s, i : IF s.ok /\ ~ s.closed THEN Seat(f, s, stale) ELSE s,
           [at |-> at, ok |-> TRUE, closed |-> FALSE, seats |-> <<>>],
           [i \in 1 .. MAX_RESERVATION_SIZE |-> i])

IfSeats(f, id, s) ==
  IF ~ s.ok \/ Len(s.seats) = MAX_RESERVATION_SIZE THEN Invalid(f, s.at)
  ELSE IF ~ ReadsOneOf(f, s.at, LineEnd) THEN Invalid(f, After(f, s.at, 1))
  ELSE Parsed(s.at + 1, [op |-> "reserve", id |-> id, seats |-> s.seats])

parse_reserve(f, at, stale) ==
  LET n == Numbers(f, at, <<{Blank}>>, stale)
  IN IF ~ n.ok THEN Invalid(f, n.at)
     ELSE IF ~ ReadsOneOf(f, n.at, {"["}) THEN Invalid(f, After(f, n.at, 1))
     ELSE IfSeats(f, n.values[1], Seats(f, n.at + 1, stale))

(* The next command of a job file, as the loop of processFile reads it.    *)
ReadCommand(f, at, stale) ==
  LET r == get_next(f, at)
  IN CASE r.cmd.op = "create"  -> parse_create(f, r.at, stale)
       [] r.cmd.op = "reserve" -> parse_reserve(f, r.at, stale)
       [] r.cmd.op = "show"    -> parse_show(f, r.at, stale)
       [] r.cmd.op = "wait"    -> parse_wait(f, r.at, stale)
       [] OTHER -> r
=============================================================================
