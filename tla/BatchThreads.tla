---------------------------- MODULE BatchThreads ----------------------------
(***************************************************************************)
(* The threads with which a child of the batch program runs one job file   *)
(* (Exercicio3/p1_base/main.c).  Main creates threads 1 to N one by one    *)
(* and joins them; each takes the next command of the file under mutex.    *)
(* After a BARRIER every thread returns, and main creates them anew.       *)
(*                                                                         *)
(* What a thread does between locking and unlocking mutex is one step: the *)
(* variable mutex only remembers a thread that has gone on without         *)
(* unlocking it.  Sleeping takes no step of its own.  The commands on the  *)
(* events are BatchStore's; a thread is just busy with them here.          *)
(***************************************************************************)
EXTENDS Integers, Sequences, FiniteSets

CONSTANTS N,           \* MAX_THREADS
          Jobs,        \* job files: sequences of commands
          NoOne        \* the holder of a free mutex

(* The command line asks for a thread, and the files name threads it has:  *)
(* nothing checks the thread of a WAIT against the array.                  *)
Commands == [op : {"run", "skip", "wait", "waitNone", "badWait", "help", "barrier"}]
              \cup [op : {"waitOn"}, thread : 1 .. N]
ASSUME BatchThreadsAssumption ==
  /\ N \in Nat \ {0}
  /\ NoOne \notin 1 .. N
  /\ Jobs \subseteq Seq(Commands)

VARIABLES
  job, pos,       \* the file and the place of its next command
  mutex,          \* who keeps mutex locked
  threadArray,    \* 0: a BARRIER was read; t: the delay thread t is to wait
  thread,         \* "none", "ready" (at the head of the loop), "busy", "ended"
  at,             \* the place of the command a busy thread runs
  result,         \* what the thread returned, once it has ended
  main, k         \* "create", "join", "judge" or "exit", and its loop counter

vars == <<job, pos, mutex, threadArray, thread, at, result, main, k>>
mainVars == <<main, k>>

Threads == 1 .. N
EXIT_SUCCESS == 0
BarrierFound == 2

-----------------------------------------------------------------------------
Init ==
  /\ job \in Jobs /\ pos = 1
  /\ mutex = NoOne
  /\ threadArray = [i \in 0 .. N |-> 0]
  /\ thread = [t \in Threads |-> "none"]
  /\ at = [t \in Threads |-> 0]
  /\ result = [t \in Threads |-> EXIT_SUCCESS]
  /\ main = "create" /\ k = 1

-----------------------------------------------------------------------------
(* The head of the loop of processFile: the thread locks mutex and takes   *)
(* the delay that was left for it.                                         *)
AtHead(t) == thread[t] = "ready" /\ mutex = NoOne
Served(t) == [threadArray EXCEPT ![t] = 0]

End(t, r) ==
  /\ thread' = [thread EXCEPT ![t] = "ended"]
  /\ result' = [result EXCEPT ![t] = r]
  /\ UNCHANGED <<job, mutex, at, mainVars>>

(* Another thread has read a BARRIER.                                      *)
SeeBarrier(t) ==
  /\ AtHead(t) /\ threadArray[0] # 0
  /\ threadArray' = Served(t)
  /\ End(t, BarrierFound)
  /\ UNCHANGED pos

(* get_next: the command that is taken.  Faulty variant: whatever the flag *)
(* of the barrier says.                                                    *)
NextOp == IF pos \in DOMAIN job THEN job[pos].op ELSE "eoc"
TakesThroughBarrier(t, op) == AtHead(t) /\ NextOp = op
Take(t, op) == AtHead(t) /\ threadArray[0] = 0 /\ NextOp = op

(* Faulty variants: the end of the file is an empty line; the thread ends  *)
(* before it has looked at its delay, or at the flag of the barrier.       *)
SkipsTheEnd(t) ==
  /\ Take(t, "eoc")
  /\ pos' = pos + 1
  /\ threadArray' = Served(t)
  /\ UNCHANGED <<job, mutex, thread, at, result, mainVars>>
EndsBeforeWaiting(t) ==
  /\ Take(t, "eoc")
  /\ End(t, EXIT_SUCCESS)
  /\ UNCHANGED <<pos, threadArray>>
EndsBeforeTheBarrier(t) ==
  /\ TakesThroughBarrier(t, "eoc")
  /\ threadArray' = Served(t)
  /\ End(t, EXIT_SUCCESS)
  /\ UNCHANGED pos
EndOfCommands(t) ==
  /\ Take(t, "eoc")
  /\ threadArray' = Served(t)
  /\ End(t, EXIT_SUCCESS)
  /\ UNCHANGED pos

(* A command on the events: mutex is unlocked while it runs.               *)
Run(t) ==
  /\ Take(t, "run")
  /\ pos' = pos + 1
  /\ threadArray' = Served(t)
  /\ thread' = [thread EXCEPT ![t] = "busy"]
  /\ at' = [at EXCEPT ![t] = pos]
  /\ UNCHANGED <<job, mutex, result, mainVars>>

FinishRun(t) ==
  /\ thread[t] = "busy"
  /\ thread' = [thread EXCEPT ![t] = "ready"]
  /\ at' = [at EXCEPT ![t] = 0]
  /\ UNCHANGED <<job, pos, mutex, threadArray, result, mainVars>>

(* An empty or invalid line, and a WAIT of all threads: the thread that    *)
(* read it sleeps before it unlocks mutex.                                 *)
PassOver(t) ==
  /\ Take(t, "skip") \/ Take(t, "wait")
  /\ pos' = pos + 1
  /\ threadArray' = Served(t)
  /\ UNCHANGED <<job, mutex, thread, at, result, mainVars>>

(* A WAIT of one thread.                                                   *)
WaitOn(t) ==
  /\ Take(t, "waitOn")
  /\ pos' = pos + 1
  /\ threadArray' = [Served(t) EXCEPT ![job[pos].thread] = 1]
  /\ UNCHANGED <<job, mutex, thread, at, result, mainVars>>

(* HELP, a WAIT of no time and a WAIT that does not parse leave the switch *)
(* with mutex locked.                                                      *)
KeepMutex(t) ==
  /\ Take(t, "help") \/ Take(t, "waitNone") \/ Take(t, "badWait")
  /\ pos' = pos + 1
  /\ threadArray' = Served(t)
  /\ mutex' = t
  /\ UNCHANGED <<job, thread, at, result, mainVars>>

ReadBarrier(t) ==
  /\ Take(t, "barrier")
  /\ pos' = pos + 1
  /\ threadArray' = [Served(t) EXCEPT ![0] = 1]
  /\ End(t, BarrierFound)

Thread(t) ==
  \/ SeeBarrier(t) \/ EndOfCommands(t) \/ Run(t) \/ FinishRun(t)
  \/ PassOver(t) \/ WaitOn(t) \/ KeepMutex(t) \/ ReadBarrier(t)

-----------------------------------------------------------------------------
(* Main creates threads 1 to N, joins them in that order, and looks at the *)
(* result of the first only: the break is outside the if.                  *)
threadVars == <<pos, mutex, at, result>>

LoopTo(there) == IF k < N THEN k' = k + 1 /\ UNCHANGED main
                 ELSE k' = 1 /\ main' = there

Create ==
  /\ main = "create"
  /\ thread' = [thread EXCEPT ![k] = "ready"]
  /\ LoopTo("join")
  /\ UNCHANGED <<job, threadArray, threadVars>>

(* Faulty variant: only the first thread is joined.                        *)
JoinsTheFirst ==
  /\ main = "join" /\ thread[1] = "ended"
  /\ main' = "judge"
  /\ UNCHANGED <<job, threadArray, thread, threadVars, k>>
Join ==
  /\ main = "join" /\ thread[k] = "ended"
  /\ LoopTo("judge")
  /\ UNCHANGED <<job, threadArray, thread, threadVars>>

(* Faulty variant: the flag of the barrier stays.                          *)
KeepsTheFlag ==
  /\ main = "judge"
  /\ main' = IF result[1] # EXIT_SUCCESS THEN "create" ELSE "exit"
  /\ UNCHANGED <<job, threadArray, thread, threadVars, k>>
Judge ==
  /\ main = "judge"
  /\ IF result[1] # EXIT_SUCCESS
     THEN /\ threadArray' = [threadArray EXCEPT ![0] = 0]
          /\ main' = "create"
     ELSE main' = "exit" /\ UNCHANGED threadArray
  /\ UNCHANGED <<job, thread, threadVars, k>>

MainStep == Create \/ Join \/ Judge

Next == MainStep \/ \E t \in Threads : Thread(t)

Spec == Init /\ [][Next]_vars

(* Nobody is kept from running for ever, nor from a free mutex.            *)
FairSpec == Spec /\ WF_vars(MainStep) /\ \A t \in Threads : WF_vars(Thread(t))

-----------------------------------------------------------------------------
(* Type invariant of the threads and of main.                              *)
TypeOK ==
  /\ job \in Seq(Commands) /\ pos \in 1 .. (Len(job) + 1)
  /\ mutex \in Threads \cup {NoOne}
  /\ threadArray \in [0 .. N -> {0, 1}]
  /\ thread \in [Threads -> {"none", "ready", "busy", "ended"}]
  /\ at \in [Threads -> 0 .. Len(job)]
  /\ result \in [Threads -> {EXIT_SUCCESS, BarrierFound}]
  /\ main \in {"create", "join", "judge", "exit"} /\ k \in Threads

(* When all threads have ended they have all seen the barrier, or none has *)
(* and the file is at its end: main need not look at more than one result. *)
ResultsAgree ==
  main = "judge" =>
    \A t \in Threads :
      IF threadArray[0] # 0 THEN result[t] = BarrierFound
      ELSE result[t] = EXIT_SUCCESS /\ pos > Len(job)

(* When main ends, every command has been taken and has finished: a thread *)
(* never outlives main, which closes the files and frees the store.        *)
AllRunAtEnd ==
  main = "exit" => pos > Len(job) /\ \A t \in Threads : thread[t] = "ended"

(* A BARRIER that was read is passed when main has joined every thread and *)
(* resets the flag.                                                        *)
Busy == {t \in Threads : thread[t] = "busy"}
Order == INSTANCE JobOrder
           WITH Width <- N, next <- IF threadArray[0] # 0 THEN pos - 1 ELSE pos,
                running <- {at[t] : t \in Busy}

(* The threads start the commands in the order of the file, and nothing    *)
(* runs on both sides of a BARRIER, in whatever order the threads take     *)
(* them and however late main creates them.                                *)
ImplementsJobOrder == Order!Spec

(* A file none of whose commands leaves mutex locked.                      *)
Unlocking == \A i \in DOMAIN job : job[i].op \notin {"help", "waitNone", "badWait"}

(* A delay that was left for a thread is taken by it, even by one that was *)
(* created again after a BARRIER.                                          *)
DelaysTaken ==
  Unlocking => \A t \in Threads : threadArray[t] # 0 ~> threadArray[t] = 0

(* A job ends, whatever its barriers and delays, if it unlocks mutex.      *)
JobFinishes == Unlocking => <>(main = "exit")

(* Every job ends: "Commands inside each .jobs file are executed in order" *)
(* (README.md:14).                                                         *)
EveryJobFinishes == <>(main = "exit")
=============================================================================
