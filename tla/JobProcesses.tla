---------------------------- MODULE JobProcesses ----------------------------
(***************************************************************************)
(* The batch program of Exercicio2 as a whole: the parent of ProcessPool,  *)
(* and in each child the loop of processFile, which reads the commands of  *)
(* one job file with JobParser and runs them on a store of its own.        *)
(*                                                                         *)
(* One command is one step: a child shares nothing with anybody.  No two   *)
(* job files have the same name up to the first dot, so that each child    *)
(* has an output file of its own.                                          *)
(***************************************************************************)
EXTENDS ProcessPool, JobParser, JobGrammar, SequentialStore, JobReference

CONSTANTS Directories,   \* what the job files may hold: a JobFile for each
          Stale          \* digits that may lie behind a number at the end of a file

ASSUME JobProcessesAssumption ==
  /\ \A d \in Directories :
       DOMAIN d = JobFiles /\ \A f \in JobFiles : d[f].text \in Seq(STRING)
  /\ \A s \in Stale : s \in Seq(STRING) /\ \A i \in DOMAIN s : IsDigit(s[i])

(* The lines are those of the text, with what they mean by the grammar; a  *)
(* text has no character Nul.                                              *)
ASSUME LinesAssumption ==
  \A d \in Directories : \A f \in JobFiles :
    IsText(d[f].text, d[f].lines) /\ Nul \notin ToSet(d[f].text)

VARIABLES
  job,       \* the job files
  at,        \* how many characters of it its child has read
  begun,     \* where the commands it has read began
  list,      \* the events in the child's memory
  out        \* the lines in the output file

jobVars == <<job, at, begun, list, out>>

JobsInit ==
  /\ Init
  /\ job \in Directories
  /\ at = [f \in JobFiles |-> 0]
  /\ begun = [f \in JobFiles |-> <<>>]
  /\ list = [f \in JobFiles |-> EmptyList]
  /\ out = [f \in JobFiles |-> <<>>]

Text(f) == job[f].text

-----------------------------------------------------------------------------
(* The switch of processFile.  What is not named changes nothing: an       *)
(* invalid line, WAIT, HELP, BARRIER, and an empty line or a comment.      *)
ListAfter(events, cmd) ==
  CASE cmd.op = "create"  -> ems_create(events, cmd.id, cmd.dims)
    [] cmd.op = "reserve" -> ems_reserve(events, cmd.id, cmd.seats)
    [] OTHER -> events
Written(events, cmd) ==
  CASE cmd.op = "show" -> ems_show(events, cmd.id)
    [] cmd.op = "list" -> ems_list_events(events)
    [] OTHER -> <<>>

Execute(f) ==
  /\ child[f] = "running" /\ at[f] < Len(Text(f))
  /\ \E r \in {ReadCommand(Text(f), at[f], stale) : stale \in Stale} :
       /\ at' = [at EXCEPT ![f] = r.at]
       /\ list' = [list EXCEPT ![f] = ListAfter(@, r.cmd)]
       /\ out' = [out EXCEPT ![f] = @ \o Written(list[f], r.cmd)]
  /\ begun' = [begun EXCEPT ![f] = Append(@, at[f])]
  /\ UNCHANGED <<vars, job>>

Finish(f) ==
  /\ at[f] = Len(Text(f))
  /\ ChildEnds(f)
  /\ UNCHANGED jobVars

(* A child that cannot open its files, or that a signal ends: the parent's *)
(* log knows both.                                                         *)
EndsEarly(f) == ChildEnds(f) /\ UNCHANGED jobVars

ParentStep == Parent /\ UNCHANGED jobVars

JobsNext == ParentStep \/ \E f \in JobFiles : Execute(f) \/ Finish(f) \/ EndsEarly(f)

JobsSpec == JobsInit /\ [][JobsNext]_<<vars, jobVars>>

(* The parent and the children run when they can; nobody has to be killed. *)
(* A child can run as long as it is "running": its weak fairness is        *)
(* written out with that instead of ENABLED.                               *)
ChildRuns(f) ==
  \/ []<>(child[f] # "running")
  \/ []<><<Execute(f) \/ Finish(f)>>_<<vars, jobVars>>
JobsFairSpec ==
  /\ JobsSpec
  /\ WF_<<vars, jobVars>>(ParentStep)
  /\ \A f \in JobFiles : ChildRuns(f)

-----------------------------------------------------------------------------
(* Type invariant of the children: what each has read, keeps and wrote.    *)
JobsTypeOK ==
  \A f \in JobFiles :
    /\ at[f] \in 0 .. Len(Text(f))
    /\ begun[f] \in Seq(0 .. Len(Text(f)))
    /\ \A i \in DOMAIN list[f] :
         LET e == list[f][i]
         IN /\ {e.id, e.rows, e.cols, e.reservations} \subseteq Nat
            /\ e.data \in [Places(e) -> 0 .. e.reservations]
    /\ \A i \in DOMAIN out[f] :
         \/ out[f][i] \in [row : Seq(Nat)]
         \/ out[f][i] \in [event : Nat \cup {Garbled}]

Lines(f) == job[f].lines
BegunLines(f) == {i \in DOMAIN Lines(f) : Lines(f)[i].from \in ToSet(begun[f])}
ReadTo(f, k) == IF k = Len(begun[f]) THEN at[f] ELSE begun[f][k + 1]

(* Every command begins at the head of a line and is read to the end of    *)
(* one; only an invalid line takes the lines after it with it, and at most *)
(* two commands of theirs: cleanup may come after the newline was read, as *)
(* one of the characters of a keyword or as what ended a number.           *)
LostOnlyAfterInvalid ==
  \A f \in JobFiles : \A k \in DOMAIN begun[f] :
    \E i \in DOMAIN Lines(f) : \E j \in i .. Len(Lines(f)) :
      /\ begun[f][k] = Lines(f)[i].from /\ ReadTo(f, k) = Lines(f)[j].to
      /\ j = i \/ Lines(f)[i].means.op = "invalid"
      /\ Cardinality({l \in (i + 1) .. j :
                        Lines(f)[l].means.op \notin {"empty", "invalid"}}) <= 2

(* "Commands inside each .jobs file are executed in order" (README.md:14). *)
(* The output of a child is, at any time, what the lines it has begun ask  *)
(* for by JobReference, however malformed lines are mixed with them and    *)
(* whatever the other children do.  Not covered: a number at the end of a  *)
(* file that has no last newline, and the digits of a listed id above 999. *)
Readable(f, line) ==
  \/ Text(f)[line.to] = Newline
  \/ line.means.op \notin {"create", "show", "wait", "reserve"}
Heeded(f, line) == line.from \in ToSet(begun[f]) /\ Readable(f, line)
Expected(f) ==
  FoldLeft(LAMBDA s, line : IF Heeded(f, line) THEN Do(s, line.means) ELSE s,
           Nothing, Lines(f)).out
SameLine(a, b) ==
  \/ a = b
  \/ "event" \in DOMAIN a /\ a.event > 999 /\ b = [event |-> Garbled]
OutputsRight ==
  \A f \in JobFiles :
    LET expected == Expected(f)
    IN /\ Len(expected) <= Len(out[f])
       /\ \A i \in DOMAIN expected : SameLine(expected[i], out[f][i])
       /\ (\A i \in BegunLines(f) : Readable(f, Lines(f)[i])) =>
            Len(expected) = Len(out[f])

(* The counter of an event and its seats agree: each reservation up to the *)
(* counter holds a seat, and no seat has a number above it, so that a      *)
(* number that was given back is never seen.                               *)
NumbersHeld ==
  \A f \in JobFiles : \A i \in DOMAIN list[f] :
    LET e == list[f][i]
    IN {e.data[p] : p \in Places(e)} \ {0} = 1 .. e.reservations
=============================================================================
