----------------------------- MODULE ProcessPool -----------------------------
(***************************************************************************)
(* The parent process of the batch programs (Exercicio2/p1_base/main.c and *)
(* Exercicio3/p1_base/main.c): it forks a child for each .jobs file of the *)
(* directory, waits when MaxProc of them are active, and waits for the     *)
(* rest at the end.                                                        *)
(***************************************************************************)
EXTENDS Integers, FiniteSets

CONSTANTS Files,       \* the entries of the directory
          JobFiles,    \* those whose name has .jobs in it
          MaxProc,     \* MAX_PROC
          NoFile

ASSUME ProcessPoolAssumption ==
  /\ JobFiles \subseteq Files /\ IsFiniteSet(Files)
  /\ NoFile \notin Files
  /\ MaxProc \in Nat \ {0}

VARIABLES
  entries,            \* what readdir has not returned yet
  entry,              \* the job file in hand
  active_processes,
  child,              \* "none", "running", "zombie" (not waited for), "reaped"
  parent              \* "scan", "room", "drain", "done" or "failed"

vars == <<entries, entry, active_processes, child, parent>>

-----------------------------------------------------------------------------
Init ==
  /\ entries = Files /\ entry = NoFile
  /\ active_processes = 0
  /\ child = [f \in JobFiles |-> "none"]
  /\ parent = "scan"

(* readdir returns the entries in any order; only job files matter.        *)
ReadEntry(f) ==
  /\ parent = "scan" /\ f \in entries
  /\ entries' = entries \ {f}
  /\ IF f \in JobFiles THEN entry' = f /\ parent' = "room"
     ELSE UNCHANGED <<entry, parent>>
  /\ UNCHANGED <<active_processes, child>>

EndOfDirectory ==
  /\ parent = "scan" /\ entries = {}
  /\ parent' = "drain"
  /\ UNCHANGED <<entries, entry, active_processes, child>>

(* wait returns a child that has ended, and fails when there is no child.  *)
Unreaped == {f \in JobFiles : child[f] \in {"running", "zombie"}}
Reap(f) == child[f] = "zombie" /\ child' = [child EXCEPT ![f] = "reaped"]

(* The loop before the fork.  Faulty variant: it lets one more child in.   *)
LeavesLate == active_processes > MaxProc
Full == active_processes >= MaxProc

(* Faulty variant: a child that was waited for still counts as active.     *)
ForgetsToCount ==
  /\ parent = "room" /\ Full
  /\ IF Unreaped = {} THEN parent' = "failed" /\ UNCHANGED child
     ELSE (\E f \in JobFiles : Reap(f)) /\ UNCHANGED parent
  /\ UNCHANGED <<entries, entry, active_processes>>
WaitForRoom ==
  /\ parent = "room" /\ Full
  /\ IF Unreaped = {} THEN parent' = "failed" /\ UNCHANGED <<active_processes, child>>
     ELSE /\ \E f \in JobFiles : Reap(f)
          /\ active_processes' = active_processes - 1
          /\ UNCHANGED parent
  /\ UNCHANGED <<entries, entry>>

(* The fork may fail, and then the parent ends without waiting for anyone. *)
Fork ==
  /\ parent = "room" /\ ~ Full
  /\ active_processes' = active_processes + 1
  /\ \/ /\ child' = [child EXCEPT ![entry] = "running"]
        /\ parent' = "scan"
     \/ parent' = "failed" /\ UNCHANGED child
  /\ entry' = NoFile
  /\ UNCHANGED entries

(* The child ends, well or not: JobProcesses says what it does before.     *)
ChildEnds(f) ==
  /\ child[f] = "running"
  /\ child' = [child EXCEPT ![f] = "zombie"]
  /\ UNCHANGED <<entries, entry, active_processes, parent>>

(* The loop after the scan.  Faulty variants: it stops at the first child; *)
(* it goes on until active_processes, which it does not change, is zero.   *)
WaitsOnce ==
  /\ parent = "drain"
  /\ \/ \E f \in JobFiles : Reap(f)
     \/ Unreaped = {} /\ UNCHANGED child
  /\ parent' = "done"
  /\ UNCHANGED <<entries, entry, active_processes>>
WaitsForTheCount ==
  /\ parent = "drain"
  /\ \/ \E f \in JobFiles : Reap(f) /\ UNCHANGED parent
     \/ active_processes = 0 /\ parent' = "done" /\ UNCHANGED child
  /\ UNCHANGED <<entries, entry, active_processes>>
Drain ==
  /\ parent = "drain"
  /\ \/ \E f \in JobFiles : Reap(f) /\ UNCHANGED parent
     \/ Unreaped = {} /\ parent' = "done" /\ UNCHANGED child
  /\ UNCHANGED <<entries, entry, active_processes>>

Parent == (\E f \in Files : ReadEntry(f)) \/ EndOfDirectory \/ WaitForRoom
            \/ Fork \/ Drain

Next == Parent \/ \E f \in JobFiles : ChildEnds(f)

Spec == Init /\ [][Next]_vars

-----------------------------------------------------------------------------
(* Type invariant of the parent and its children.                          *)
TypeOK ==
  /\ entries \subseteq Files /\ entry \in JobFiles \cup {NoFile}
  /\ active_processes \in 0 .. MaxProc
  /\ child \in [JobFiles -> {"none", "running", "zombie", "reaped"}]
  /\ parent \in {"scan", "room", "drain", "done", "failed"}

(* "The maximum number of concurrent child processes is limited by a       *)
(* constant MAX_PROC" (README.md:30), the zombies included.                *)
AtMostMaxProc == Cardinality(Unreaped) <= MaxProc

(* Until the scan ends the counter is the number of children that were not *)
(* waited for, so that wait cannot fail when the parent waits for room.    *)
CountsChildren ==
  parent \in {"scan", "room"} => active_processes = Cardinality(Unreaped)

(* "The parent process waits for all child processes to finish"            *)
(* (README.md:36): when it ends well every job file has had its child, and *)
(* every child was waited for.                                             *)
AllReaped == parent = "done" => \A f \in JobFiles : child[f] = "reaped"

(* The parent comes to an end when its children do.                        *)
ParentEnds == <>(parent \in {"done", "failed"})
=============================================================================
