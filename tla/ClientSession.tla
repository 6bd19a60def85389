--------------------------- MODULE ClientSession ---------------------------
(***************************************************************************)
(* A connected client (client/main.c over client/api.c) and the worker     *)
(* that serves it (server/main.c over server/operations.c): requests in    *)
(* one pipe, answers in another.  A pipe is a stream.  Where one side      *)
(* writes an answer in two pieces and the other reads it in two, a read    *)
(* takes what is there, up to the size of its buffer.                      *)
(*                                                                         *)
(* The store is left open: a call gets any answer that ServerStore can     *)
(* give it.  resp is a stream of numbers; a read that would end inside a   *)
(* number ends before it.  The bytes of a request are told apart only as   *)
(* far as a read of the worker may take more than one request.             *)
(***************************************************************************)
EXTENDS Integers, SequencesExt

CONSTANTS Plans,       \* <<rows, columns>> of the events that SHOW may meet
          Values,      \* ids of reservations and of events
          MaxEvents,   \* bound on the events that LIST may meet
          MaxCalls,    \* bound on the calls of the client
          pipeBuffer,  \* size of most buffers, in bytes
          showBuffer   \* size of the buffer for the seats of an event

ASSUME ClientSessionAssumption ==
  /\ Plans \subseteq (Nat \ {0}) \X (Nat \ {0})
  /\ Values \subseteq Nat
  /\ {MaxEvents, MaxCalls, pipeBuffer, showBuffer} \subseteq Nat

VARIABLES
  at,             \* the client: "loop", or the read it is at, or "ended"
  calls,          \* commands sent so far
  last,           \* its last call that returned: the command, the return code
                  \* and what was printed
  req, resp,      \* the pipes: requests, numbers
  cut,            \* a read has left a part of an answer in resp
  wpc, pieces,    \* the worker: its place, the writes of the answer still to do
  told            \* the last answer of the store: the command, what it says
vars == <<at, calls, last, req, resp, cut, wpc, pieces, told>>

clientVars == <<at, calls, last>>
workerVars == <<wpc, pieces, told>>

-----------------------------------------------------------------------------
(* Numbers in the stream: as text, or as the bytes of a C type.            *)
AsText(n) == [as |-> "text", val |-> n]
AsInt(n)  == [as |-> "int", val |-> n]
AsSize(n) == [as |-> "size_t", val |-> n]
AsId(n)   == [as |-> "unsigned", val |-> n]

TextBytes(n) == IF n \in 0 .. 9 THEN 1 ELSE IF n < 100 THEN 2 ELSE 3
Bytes(f) == CASE f.as = "text" -> TextBytes(f.val)
              [] f.as = "size_t" -> 8
              [] OTHER -> 4
Total(fs) == LET upTo[k \in 0 .. Len(fs)] == IF k = 0 THEN 0
                                              ELSE upTo[k - 1] + Bytes(fs[k])
             IN upTo[Len(fs)]

IdsAs(s) == [i \in DOMAIN s |-> AsId(s[i])]

(* What a buffer says.  Faulty variant: the last number is left out.       *)
OneShort(fs) == [i \in 1 .. (Len(fs) - 1) |-> fs[i].val]
ValuesOf(fs) == [i \in DOMAIN fs |-> fs[i].val]

(* An answer: the command, what it says, and the writes that carry it.     *)
Answer(op, data, writes) == [op |-> op, data |-> data, writes |-> writes]

(* ems_create and ems_reserve return 0 or 1, which the worker writes.      *)
CodeAnswers(op) == {Answer(op, <<code>>, << <<AsInt(code)>> >>) : code \in {0, 1}}

(* ems_show writes the size of what follows, as text, and then 0, the rows *)
(* and columns and the seats; or "-1" and nothing else.                    *)
Seats == UNION {{<<p[1], p[2]>> \o s : s \in [1 .. (p[1] * p[2]) -> Values]} : p \in Plans}
SeatsWrite(s) == <<AsInt(0), AsSize(s[1]), AsSize(s[2])>> \o IdsAs(SubSeq(s, 3, Len(s)))
ShowAnswers ==
  {Answer("show", <<>>, << <<AsText(-1)>> >>)}
    \cup {Answer("show", s, << <<AsText(Total(SeatsWrite(s)))>>, SeatsWrite(s) >>) : s \in Seats}

(* ems_list_events writes 0, the number of events and their ids; or "1".   *)
(* Faulty variant: nothing is written when there are no events.            *)
Lists == BoundedSeq(Values, MaxEvents) \ {<<>>}
ListWrite(s) == <<AsInt(0), AsSize(Len(s))>> \o IdsAs(s)
NoAnswerWhenEmpty == {Answer("list", s, <<ListWrite(s)>>) : s \in Lists}
                       \cup {Answer("list", <<>>, << <<>> >>)}
ListAnswers == {Answer("list", s, <<ListWrite(s)>>) : s \in Lists}
                 \cup {Answer("list", <<>>, << <<AsText(1)>> >>)}

Answers(op) == CASE op = "show" -> ShowAnswers
                 [] op = "list" -> ListAnswers
                 [] OTHER -> CodeAnswers(op)

-----------------------------------------------------------------------------
Nothing == [op |-> "none", code |-> 0, printed |-> <<>>]

Init ==
  /\ at = "loop" /\ calls = 0 /\ last = Nothing
  /\ req = <<>> /\ resp = <<>> /\ cut = FALSE
  /\ wpc = "read" /\ pieces = <<>> /\ told = Answer("none", <<>>, <<>>)

-----------------------------------------------------------------------------
(* The client writes a request and goes on to its first read.              *)
FirstRead == [create |-> "create", reserve |-> "reserve", show |-> "size",
              list |-> "list"]
Send(op) ==
  /\ at = "loop" /\ calls < MaxCalls
  /\ calls' = calls + 1
  /\ req' = Append(req, op)
  /\ at' = FirstRead[op]
  /\ UNCHANGED <<last, resp, cut, workerVars>>

(* A read of at most n bytes takes what is in the pipe, and waits when     *)
(* nothing is.                                                             *)
Fits(n) == {k \in 1 .. Len(resp) : k = 1 \/ Total(SubSeq(resp, 1, k)) <= n}
Taken(n) == SubSeq(resp, 1, Max(Fits(n)))
Read(n) ==
  /\ resp # <<>>
  /\ resp' = SubSeq(resp, Max(Fits(n)) + 1, Len(resp))
  /\ cut' = (cut \/ resp' # <<>>)

Return(op, code, printed) ==
  /\ at' = "loop"
  /\ last' = [op |-> op, code |-> code, printed |-> printed]
  /\ UNCHANGED <<calls, req, workerVars>>

(* ems_create looks for digits in the bytes of a small int: sscanf finds   *)
(* none, and the variable that it returns by was never written.  Faulty    *)
(* variant: the answer is not read, as ems_quit does not.                  *)
CreateDoesNotRead ==
  /\ at = "create" /\ UNCHANGED <<resp, cut>>
  /\ Return("create", 0, <<>>)
CreateRead ==
  /\ at = "create" /\ Read(4)
  /\ \E answer \in {0, 1} : Return("create", answer, <<>>)

ReserveRead ==
  /\ at = "reserve" /\ Read(4)
  /\ Return("reserve", 0, <<>>)

(* ems_show: the size is read, and used for nothing.                       *)
SizeRead ==
  /\ at = "size" /\ Read(pipeBuffer)
  /\ at' = "body"
  /\ UNCHANGED <<calls, last, req, workerVars>>

(* A buffer that does not hold what is looked for there is decoded all the *)
(* same.                                                                   *)
Garbage == <<-1>>
IsShow(fs) == /\ Len(fs) > 3 /\ fs[1] = AsInt(0)
              /\ fs[2].as = "size_t" /\ fs[3].as = "size_t"
              /\ Len(fs) = 3 + fs[2].val * fs[3].val
BodyRead ==
  /\ at = "body" /\ Read(showBuffer)
  /\ \/ /\ IsShow(Taken(showBuffer))
        /\ Return("show", 0, ValuesOf(Tail(Taken(showBuffer))))
     \/ /\ ~ IsShow(Taken(showBuffer))
        /\ \E code \in {0, 1} : Return("show", code, Garbage)

(* Of the text "1" the buffer's zeros make the int 49, and no events.      *)
(* Faulty variant: that int is returned.                                   *)
IsList(fs) == /\ Len(fs) > 2 /\ fs[1] = AsInt(0)
              /\ fs[2] = AsSize(Len(fs) - 2)
ReturnsTheInt ==
  /\ at = "list" /\ Read(pipeBuffer)
  /\ \/ /\ IsList(Taken(pipeBuffer))
        /\ Return("list", 0, ValuesOf(Tail(Tail(Taken(pipeBuffer)))))
     \/ Taken(pipeBuffer) = <<AsText(1)>> /\ Return("list", 49, <<>>)
ListRead ==
  /\ at = "list" /\ Read(pipeBuffer)
  /\ \/ /\ IsList(Taken(pipeBuffer))
        /\ Return("list", 0, ValuesOf(Tail(Tail(Taken(pipeBuffer)))))
     \/ Taken(pipeBuffer) = <<AsText(1)>> /\ Return("list", 0, <<>>)
     \/ /\ ~ IsList(Taken(pipeBuffer)) /\ Taken(pipeBuffer) # <<AsText(1)>>
        /\ \E code \in {0, 1} : Return("list", code, Garbage)

(* The end of the job file: ems_quit.                                      *)
Quit ==
  /\ at = "loop"
  /\ req' = Append(req, "quit")
  /\ at' = "ended"
  /\ UNCHANGED <<calls, last, resp, cut, workerVars>>

Client == CreateRead \/ ReserveRead \/ SizeRead \/ BodyRead \/ ListRead

-----------------------------------------------------------------------------
(* The worker reads pipeBuffer bytes, which is what all requests have but  *)
(* RESERVE and quit; these it reads together with what follows.            *)
Whole == Len(req) = 1 \/ Head(req) \notin {"reserve", "quit"}

(* It performs the call.  Faulty variant: it does not know quit.           *)
IgnoresQuit ==
  /\ wpc = "read" /\ req # <<>>
  /\ req' = Tail(req)
  /\ \/ /\ Head(req) # "quit"
        /\ wpc' = "write"
        /\ told' \in Answers(Head(req))
        /\ pieces' = told'.writes
     \/ Head(req) = "quit" /\ UNCHANGED workerVars
  /\ UNCHANGED <<clientVars, resp, cut>>
Take ==
  /\ wpc = "read" /\ req # <<>>
  /\ \/ /\ ~ Whole
        /\ wpc' = "mixed" /\ req' = <<>>
        /\ UNCHANGED <<pieces, told>>
     \/ /\ Whole
        /\ req' = Tail(req)
        /\ \/ /\ Head(req) # "quit"
              /\ wpc' = "write"
              /\ told' \in Answers(Head(req))
              /\ pieces' = told'.writes
           \/ Head(req) = "quit" /\ wpc' = "free" /\ UNCHANGED <<pieces, told>>
  /\ UNCHANGED <<clientVars, resp, cut>>

(* One write of the answer; the server dies of one to a client that left.  *)
Write ==
  /\ wpc = "write"
  /\ pieces' = Tail(pieces)
  /\ \/ /\ at # "ended"
        /\ resp' = resp \o Head(pieces)
        /\ wpc' = IF Tail(pieces) = <<>> THEN "read" ELSE "write"
     \/ at = "ended" /\ wpc' = "killed" /\ UNCHANGED resp
  /\ UNCHANGED <<clientVars, req, cut, told>>

Worker == Take \/ Write

Next == (\E op \in DOMAIN FirstRead : Send(op)) \/ Client \/ Quit \/ Worker

Spec == Init /\ [][Next]_vars

(* Both processes run; the client need not have more commands, nor end.    *)
FairSpec == Spec /\ WF_vars(Client) /\ WF_vars(Worker)

-----------------------------------------------------------------------------
(* Type invariant of the client, the pipes and the worker.                 *)
TypeOK ==
  /\ at \in {"loop", "create", "reserve", "size", "body", "list", "ended"}
  /\ calls \in 0 .. MaxCalls
  /\ last.op \in DOMAIN FirstRead \cup {"none"} /\ last.code \in {0, 1}
  /\ req \in Seq(DOMAIN FirstRead \cup {"quit"})
  /\ resp \in Seq([as : {"text", "int", "size_t", "unsigned"}, val : Nat \cup {-1}])
  /\ cut \in BOOLEAN
  /\ wpc \in {"read", "write", "free", "mixed", "killed"}

(* The two sides stay in step although no request and no answer carries a  *)
(* length or a number: until an answer is too long for the client's read,  *)
(* there is never more than one request on its way, the worker neither     *)
(* reads parts of two nor writes to a client that has left, and between    *)
(* two commands nothing is left in a pipe.                                 *)
InStep ==
  ~ cut => /\ Len(req) <= 1 /\ wpc \notin {"mixed", "killed"}
           /\ at = "loop" => req = <<>> /\ resp = <<>> /\ wpc = "read"

(* What a SHOW or a LIST has printed when it returns 0 is what the store   *)
(* answered to that very call, if no answer so far was too long.           *)
PrintsTheAnswer ==
  ~ cut /\ at = "loop" /\ last.op \in {"show", "list"} /\ last.code = 0 =>
    told.op = last.op /\ told.data = last.printed

(* A CREATE, a RESERVE and a LIST get their answer, and so return.         *)
CallsReturn == at \in {"create", "reserve", "list"} ~> (at = "loop" \/ cut)

(* A client that quits leaves its worker free for another.                 *)
QuitFreesWorker == at = "ended" ~> (wpc = "free" \/ cut)

(* A SHOW returns 0 "if the event was printed successfully, 1 otherwise"   *)
(* (client/api.h:35).                                                      *)
ShowReturns == at \in {"size", "body"} ~> at = "loop"
=============================================================================
