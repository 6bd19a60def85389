------------------------------ MODULE JobOrder ------------------------------
(***************************************************************************)
(* What a program that runs the commands of a job file on several threads  *)
(* promises: commands start in the order of the file, at most Width of     *)
(* them run at once, and none runs while a BARRIER is passed.              *)
(***************************************************************************)
EXTENDS Integers, Sequences, FiniteSets

CONSTANTS Jobs,      \* the job files considered
          Width      \* how many commands may run at once, at least one

VARIABLES job,       \* the commands of the file, in order
          next,      \* the first command that is not passed or started
          running    \* the positions of the commands that run

jobVars == <<job, next, running>>

-----------------------------------------------------------------------------
Init == job \in Jobs /\ next = 1 /\ running = {}

AtCommand(ops) == next \in DOMAIN job /\ job[next].op \in ops

(* A command on the events starts, and some time later it is finished.     *)
Start ==
  /\ AtCommand({"run"}) /\ Cardinality(running) < Width
  /\ running' = running \cup {next}
  /\ next' = next + 1
  /\ UNCHANGED job

Finish(p) ==
  /\ p \in running
  /\ running' = running \ {p}
  /\ UNCHANGED <<job, next>>

Barrier ==
  /\ AtCommand({"barrier"}) /\ running = {}
  /\ next' = next + 1
  /\ UNCHANGED <<job, running>>

(* Every other command is of no account for the events.                    *)
Pass ==
  /\ next \in DOMAIN job /\ ~ AtCommand({"run", "barrier"})
  /\ next' = next + 1
  /\ UNCHANGED <<job, running>>

Next == Start \/ (\E p \in running : Finish(p)) \/ Barrier \/ Pass

Spec == Init /\ [][Next]_jobVars
=============================================================================
