------------------------- MODULE BatchThreadsProofs -------------------------
(***************************************************************************)
(* Proofs about BatchThreads: for any number of threads and any job files, *)
(* the results of a round agree, main outlives the threads and every       *)
(* command, and the threads implement JobOrder.                            *)
(***************************************************************************)
EXTENDS BatchThreads, FiniteSetTheorems, TLAPS

(* The threads of this round: those that main has created already.         *)
Created(t) == main # "create" \/ t < k
Flag == threadArray[0] # 0

(* Threads are where main believes them.                                   *)
RoundsMatch ==
  /\ \A t \in Threads :
       IF Created(t) THEN thread[t] # "none" ELSE thread[t] \in {"none", "ended"}
  /\ main = "join" => \A t \in Threads : t < k => thread[t] = "ended"
  /\ main \in {"judge", "exit"} => \A t \in Threads : thread[t] = "ended"
  /\ main = "judge" => k = 1
  /\ main = "exit" => ~ Flag

(* A thread of this round that has ended has seen the barrier, if there is *)
(* one, or else the end of the file.                                       *)
EndsMatch ==
  \A t \in Threads :
    Created(t) /\ thread[t] = "ended" =>
      IF Flag THEN result[t] = BarrierFound
      ELSE result[t] = EXIT_SUCCESS /\ pos > Len(job)

(* Busy threads run different commands, all of them read.                  *)
CommandsMatch ==
  /\ \A t \in Busy : at[t] \in 1 .. (pos - 1)
  /\ \A t, u \in Busy : at[t] = at[u] => t = u
  /\ Flag => pos > 1 /\ job[pos - 1].op = "barrier"

(* The inductive invariant.                                                *)
Inv == TypeOK /\ RoundsMatch /\ EndsMatch /\ CommandsMatch

-----------------------------------------------------------------------------
(* The command at the head of the loop, and the thread a WAIT names.       *)
LEMMA TakeFacts ==
  ASSUME TypeOK, NEW t \in Threads, NEW op \in {"run", "skip", "wait",
           "waitNone", "badWait", "help", "barrier", "waitOn"}, Take(t, op)
  PROVE  /\ pos \in 1 .. Len(job) /\ job[pos].op = op
         /\ op = "waitOn" => job[pos].thread \in Threads
         /\ threadArray[0] = 0 /\ thread[t] = "ready"
<1>1. pos \in DOMAIN job /\ job[pos].op = op BY DEF Take, NextOp
<1>2. DOMAIN job = 1 .. Len(job) /\ job[pos] \in Commands BY <1>1 DEF TypeOK
<1>3. op = "waitOn" => job[pos].thread \in Threads
  BY <1>1, <1>2 DEF Commands, Threads
<1> QED BY <1>1, <1>2, <1>3 DEF Take, AtHead

(* At the end of the file.                                                 *)
LEMMA EndFacts ==
  ASSUME TypeOK, NEW t \in Threads, Take(t, "eoc")
  PROVE  pos > Len(job) /\ threadArray[0] = 0 /\ thread[t] = "ready"
<1>1. pos \notin DOMAIN job
  <2> SUFFICES ASSUME pos \in DOMAIN job PROVE FALSE OBVIOUS
  <2>1. job[pos] \in Commands /\ job[pos].op = "eoc"
    BY DEF TypeOK, Take, NextOp
  <2> QED BY <2>1 DEF Commands
<1> QED BY <1>1 DEF TypeOK, Take, AtHead

(* A thread that takes delays leaves the flag and the types as they are.   *)
LEMMA ServedFacts ==
  ASSUME TypeOK, NEW t \in Threads
  PROVE  Served(t) \in [0 .. N -> {0, 1}] /\ Served(t)[0] = threadArray[0]
  BY BatchThreadsAssumption DEF TypeOK, Served, Threads

(* At the start nothing has been created.                                  *)
LEMMA InitInv == Init => Inv
<1> SUFFICES ASSUME Init PROVE Inv OBVIOUS
<1>1. job \in Seq(Commands) /\ Len(job) \in Nat BY BatchThreadsAssumption DEF Init
<1>2. TypeOK BY <1>1, BatchThreadsAssumption
               DEF Init, TypeOK, Threads, EXIT_SUCCESS, BarrierFound
<1> QED BY <1>2, BatchThreadsAssumption
        DEF Init, Inv, RoundsMatch, EndsMatch, CommandsMatch, Created, Flag, Busy, Threads

-----------------------------------------------------------------------------
(* A thread that goes on with the next command and stays at the head of    *)
(* the loop disturbs nothing but pos.                                      *)
LEMMA PassInv ==
  ASSUME Inv, NEW t \in Threads, NEW op \in {"skip", "wait", "waitNone",
           "badWait", "help", "waitOn"}, Take(t, op),
         pos' = pos + 1, threadArray' \in [0 .. N -> {0, 1}],
         threadArray'[0] = threadArray[0], mutex' \in Threads \cup {NoOne},
         UNCHANGED <<job, thread, at, result, mainVars>>
  PROVE  Inv'
<1>1. pos \in 1 .. Len(job) /\ threadArray[0] = 0 BY TakeFacts DEF Inv
<1>2. TypeOK' BY <1>1 DEF Inv, TypeOK, mainVars
<1>3. RoundsMatch' BY DEF Inv, RoundsMatch, Created, Flag, mainVars
<1>4. EndsMatch' BY <1>1 DEF Inv, TypeOK, EndsMatch, Created, Flag, mainVars
<1>5. CommandsMatch' BY <1>1 DEF Inv, TypeOK, CommandsMatch, Busy, Flag
<1> QED BY <1>2, <1>3, <1>4, <1>5 DEF Inv

(* A thread that ends with the result that the flag calls for.             *)
LEMMA EndInv ==
  ASSUME Inv, NEW t \in Threads, thread[t] = "ready",
         NEW r \in {EXIT_SUCCESS, BarrierFound}, End(t, r),
         pos' \in 1 .. (Len(job) + 1), pos' >= pos,
         threadArray' \in [0 .. N -> {0, 1}],
         threadArray[0] # 0 => threadArray'[0] # 0,
         threadArray'[0] = 0 => r = EXIT_SUCCESS /\ pos' > Len(job),
         threadArray'[0] # 0 => /\ r = BarrierFound
                                /\ pos' > 1 /\ job[pos' - 1].op = "barrier",
         threadArray[0] = 0 /\ threadArray'[0] # 0 => pos \in 1 .. Len(job)
  PROVE  Inv'
<1>1. /\ Created(t) /\ main \notin {"judge", "exit"}
      /\ main = "join" => t >= k
  BY DEF Inv, TypeOK, RoundsMatch, Threads
<1>2. TypeOK' BY DEF Inv, TypeOK, End, mainVars
<1>3. RoundsMatch'
  BY <1>1 DEF Inv, TypeOK, RoundsMatch, Created, Flag, End, mainVars, Threads
<1>4. EndsMatch'
  BY <1>1 DEF Inv, TypeOK, EndsMatch, Created, Flag, End, mainVars, Threads
<1>5. Busy' = Busy BY DEF Busy, End, Inv, TypeOK
<1>6. CommandsMatch'
  BY <1>5 DEF Inv, TypeOK, CommandsMatch, Flag, End, Busy
<1> QED BY <1>2, <1>3, <1>4, <1>6 DEF Inv

(* The steps of a thread keep the invariant.                               *)
LEMMA ThreadInv == ASSUME Inv, NEW t \in Threads, Thread(t) PROVE Inv'
<1> USE BatchThreadsAssumption
<1>0. Len(job) \in Nat BY DEF Inv, TypeOK
<1>1. CASE SeeBarrier(t)
  BY <1>0, <1>1, EndInv, ServedFacts
     DEF SeeBarrier, AtHead, Inv, TypeOK, CommandsMatch, Flag, BarrierFound
<1>2. CASE EndOfCommands(t)
  BY <1>0, <1>2, EndInv, EndFacts, ServedFacts
     DEF EndOfCommands, Inv, TypeOK, EXIT_SUCCESS
<1>3. CASE ReadBarrier(t)
  <2>1. pos \in 1 .. Len(job) /\ job[pos].op = "barrier" /\ thread[t] = "ready"
    BY <1>3, TakeFacts DEF ReadBarrier, Inv
  <2>2. /\ threadArray' \in [0 .. N -> {0, 1}] /\ threadArray'[0] = 1
    BY <1>3, ServedFacts DEF ReadBarrier, Inv
  <2>3. pos' = pos + 1 /\ End(t, BarrierFound) BY <1>3 DEF ReadBarrier
  <2>4. pos' \in 1 .. (Len(job) + 1) /\ pos' - 1 = pos /\ pos' > 1 /\ pos' >= pos
    BY <1>0, <2>1, <2>3
  <2> QED BY <2>1, <2>2, <2>3, <2>4, EndInv
<1>4. CASE PassOver(t)
  BY <1>4, PassInv, ServedFacts DEF PassOver, Inv, TypeOK
<1>5. CASE WaitOn(t)
  <2>1. job[pos].thread \in Threads BY <1>5, TakeFacts DEF WaitOn, Inv
  <2>2. /\ threadArray' \in [0 .. N -> {0, 1}]
        /\ threadArray'[0] = threadArray[0]
    BY <1>5, <2>1, ServedFacts DEF WaitOn, Inv, Threads
  <2> QED BY <1>5, <2>2, PassInv DEF WaitOn, Inv, TypeOK
<1>6. CASE KeepMutex(t)
  BY <1>6, PassInv, ServedFacts DEF KeepMutex, Inv, TypeOK
<1>7. CASE Run(t)
  <2>1. pos \in 1 .. Len(job) /\ threadArray[0] = 0 /\ thread[t] = "ready"
    BY <1>7, TakeFacts DEF Run, Inv
  <2>2. threadArray' \in [0 .. N -> {0, 1}] /\ threadArray'[0] = 0
    BY <1>7, <2>1, ServedFacts DEF Run, Inv
  <2>3. /\ Created(t) /\ main \notin {"judge", "exit"}
        /\ main = "join" => t >= k
    BY <2>1 DEF Inv, TypeOK, RoundsMatch, Threads
  <2>4. TypeOK' BY <1>0, <1>7, <2>1, <2>2 DEF Run, Inv, TypeOK, mainVars
  <2>5. RoundsMatch'
    BY <1>7, <2>2, <2>3
       DEF Run, Inv, TypeOK, RoundsMatch, Created, Flag, mainVars, Threads
  <2>6. EndsMatch'
    BY <1>0, <1>7, <2>1, <2>2
       DEF Run, Inv, TypeOK, EndsMatch, Created, Flag, mainVars
  <2>7. Busy' = Busy \cup {t} BY <1>7 DEF Run, Busy, Inv, TypeOK
  <2>8. CommandsMatch'
    BY <1>0, <1>7, <2>1, <2>2, <2>7 DEF Run, Inv, TypeOK, CommandsMatch, Flag, Busy
  <2> QED BY <2>4, <2>5, <2>6, <2>8 DEF Inv
<1>8. CASE FinishRun(t)
  <2>1. Created(t) /\ main \notin {"judge", "exit"} /\ (main = "join" => t >= k)
    BY <1>8 DEF FinishRun, Inv, TypeOK, RoundsMatch, Threads
  <2>2. TypeOK' BY <1>0, <1>8 DEF FinishRun, Inv, TypeOK, mainVars
  <2>3. RoundsMatch'
    BY <1>8, <2>1 DEF FinishRun, Inv, TypeOK, RoundsMatch, Created, Flag, mainVars, Threads
  <2>4. EndsMatch' BY <1>8 DEF FinishRun, Inv, TypeOK, EndsMatch, Created, Flag, mainVars
  <2>5. Busy' = Busy \ {t} BY <1>8 DEF FinishRun, Busy, Inv, TypeOK
  <2>6. CommandsMatch'
    BY <1>8, <2>5 DEF FinishRun, Inv, TypeOK, CommandsMatch, Flag, Busy
  <2> QED BY <2>2, <2>3, <2>4, <2>6 DEF Inv
<1> QED BY <1>1, <1>2, <1>3, <1>4, <1>5, <1>6, <1>7, <1>8 DEF Thread

(* The steps of main keep the invariant.                                   *)
LEMMA MainInv == ASSUME Inv, MainStep PROVE Inv'
<1> USE BatchThreadsAssumption
<1>0. Len(job) \in Nat /\ k \in 1 .. N BY DEF Inv, TypeOK, Threads
<1>1. CASE Create
  <2>1. TypeOK' BY <1>0, <1>1 DEF Create, LoopTo, Inv, TypeOK, threadVars, Threads
  <2>2. Busy' = Busy
    <3>1. k \in Threads /\ ~ Created(k)
      BY <1>0, <1>1 DEF Create, Created, Threads
    <3>2. thread[k] \in {"none", "ended"} BY <3>1 DEF Inv, RoundsMatch
    <3>3. \A t \in Threads : thread'[t] = "busy" <=> thread[t] = "busy"
      BY <1>1, <3>1, <3>2 DEF Create, Inv, TypeOK
    <3> QED BY <3>3 DEF Busy
  <2>3. RoundsMatch'
    BY <1>0, <1>1 DEF Create, LoopTo, Inv, TypeOK, RoundsMatch, Created, Flag, threadVars, Threads
  <2>4. EndsMatch'
    BY <1>0, <1>1 DEF Create, LoopTo, Inv, TypeOK, EndsMatch, Created, Flag, threadVars, Threads
  <2>5. CommandsMatch'
    BY <1>1, <2>2 DEF Create, Inv, CommandsMatch, Flag, threadVars, Busy
  <2> QED BY <2>1, <2>3, <2>4, <2>5 DEF Inv
<1>2. CASE Join
  <2>1. TypeOK' BY <1>0, <1>2 DEF Join, LoopTo, Inv, TypeOK, threadVars, Threads
  <2>2. RoundsMatch'
    BY <1>0, <1>2 DEF Join, LoopTo, Inv, TypeOK, RoundsMatch, Created, Flag, threadVars, Threads
  <2>3. EndsMatch'
    BY <1>0, <1>2 DEF Join, LoopTo, Inv, TypeOK, EndsMatch, Created, Flag, threadVars, Threads
  <2>4. CommandsMatch'
    BY <1>2 DEF Join, Inv, CommandsMatch, Flag, threadVars, Busy
  <2> QED BY <2>1, <2>2, <2>3, <2>4 DEF Inv
<1>3. CASE Judge
  <2>1. 1 \in Threads /\ thread[1] = "ended" /\ k = 1
    BY <1>3 DEF Judge, Inv, RoundsMatch, Threads
  <2>2. result[1] # EXIT_SUCCESS <=> Flag
    BY <1>3, <2>1 DEF Judge, Inv, EndsMatch, Created, EXIT_SUCCESS, BarrierFound
  <2>3. TypeOK' BY <1>3 DEF Judge, Inv, TypeOK, threadVars
  <2>4. RoundsMatch'
    BY <1>3, <2>1, <2>2
       DEF Judge, Inv, TypeOK, RoundsMatch, Created, Flag, threadVars, Threads
  <2>5. EndsMatch'
    BY <1>3, <2>1, <2>2
       DEF Judge, Inv, TypeOK, EndsMatch, Created, Flag, threadVars, Threads
  <2>6. Busy = {} /\ Busy' = {}
    BY <1>3 DEF Judge, Inv, RoundsMatch, Busy
  <2>7. CommandsMatch'
    BY <1>3, <2>6 DEF Judge, Inv, TypeOK, CommandsMatch, Flag, threadVars
  <2> QED BY <2>3, <2>4, <2>5, <2>7 DEF Inv
<1> QED BY <1>1, <1>2, <1>3 DEF MainStep

(* Every step keeps the invariant.                                         *)
LEMMA NextInv == Inv /\ [Next]_vars => Inv'
<1> SUFFICES ASSUME Inv, [Next]_vars PROVE Inv' OBVIOUS
<1>1. CASE UNCHANGED vars
  BY <1>1 DEF vars, Inv, TypeOK, RoundsMatch, EndsMatch, CommandsMatch, Created,
              Flag, Busy
<1> QED BY <1>1, ThreadInv, MainInv DEF Next

LEMMA Invariance == Spec => []Inv
  BY InitInv, NextInv, PTL DEF Spec

-----------------------------------------------------------------------------
(* Type correctness of the threads and of main.                            *)
THEOREM TypeCorrect == Spec => []TypeOK
<1>1. Inv => TypeOK BY DEF Inv
<1> QED BY <1>1, Invariance, PTL

(* All results of a round agree.                                           *)
THEOREM AllResultsAgree == Spec => []ResultsAgree
<1>1. Inv => ResultsAgree
  BY DEF Inv, RoundsMatch, EndsMatch, ResultsAgree, Created, Flag
<1> QED BY <1>1, Invariance, PTL

(* Main ends after every thread and every command.                         *)
THEOREM MainEndsLast == Spec => []AllRunAtEnd
<1>1. Inv => AllRunAtEnd
  BY BatchThreadsAssumption
     DEF Inv, RoundsMatch, EndsMatch, AllRunAtEnd, Created, Flag, Threads
<1> QED BY <1>1, Invariance, PTL

-----------------------------------------------------------------------------
(* The place in the file and the commands that run, as JobOrder sees them. *)
Place == IF threadArray[0] # 0 THEN pos - 1 ELSE pos
Running == {at[t] : t \in Busy}

(* A step that JobOrder does not see.                                      *)
LEMMA Stutter ==
  ASSUME UNCHANGED <<job, Place, Running>>
  PROVE  [Order!Next]_(Order!jobVars)
  BY DEF Order!jobVars, Place, Running

(* JobOrder counts as this module does.                                    *)
LEMMA SameCardinality == ASSUME NEW S PROVE Order!Cardinality(S) = Cardinality(S)
  BY DEF Order!Cardinality, Cardinality

(* A thread that is not busy leaves room for a command to start.           *)
LEMMA RoomToRun ==
  ASSUME TypeOK, NEW t \in Threads, thread[t] # "busy"
  PROVE  Cardinality(Running) < N
<1> USE BatchThreadsAssumption
<1>1. IsFiniteSet(Threads) /\ Cardinality(Threads) = N
  BY FS_Interval DEF Threads
<1>2. Busy \subseteq Threads \ {t} BY DEF Busy
<1>3. IsFiniteSet(Threads \ {t}) /\ Cardinality(Threads \ {t}) = N - 1
  BY <1>1, FS_RemoveElement
<1>4. IsFiniteSet(Busy) /\ Cardinality(Busy) <= N - 1
  BY <1>2, <1>3, FS_Subset
<1>5. IsFiniteSet(Running) /\ Cardinality(Running) <= Cardinality(Busy)
  <2> DEFINE f == [u \in Busy |-> at[u]]
  <2>1. f \in Surjection(Busy, Running) BY DEF Surjection, Running
  <2> QED BY <1>4, <2>1, FS_Surjection
<1> QED BY <1>4, <1>5, FS_CardinalityType

(* A thread that passes over a command, or ends, is a step of JobOrder.    *)
LEMMA PassOrder ==
  ASSUME Inv, NEW t \in Threads, NEW op \in {"skip", "wait", "waitNone",
           "badWait", "help", "waitOn"}, Take(t, op),
         pos' = pos + 1, threadArray'[0] = threadArray[0], UNCHANGED <<job, thread, at>>
  PROVE  [Order!Next]_(Order!jobVars)
<1>1. pos \in DOMAIN job /\ job[pos].op = op /\ threadArray[0] = 0
  BY TakeFacts DEF Inv, TypeOK
<1>2. Place = pos /\ Place' = pos + 1 BY <1>1 DEF Place
<1>3. Running' = Running BY DEF Running, Busy
<1>4. Order!Pass
  BY <1>1, <1>2, <1>3 DEF Order!Pass, Order!AtCommand, Place, Running
<1> QED BY <1>4 DEF Order!Next

LEMMA EndOrder ==
  ASSUME Inv, NEW t \in Threads, thread[t] = "ready", NEW r, End(t, r), Place' = Place
  PROVE  [Order!Next]_(Order!jobVars)
<1>1. Busy' = Busy BY DEF Inv, TypeOK, End, Busy
<1>2. Running' = Running BY <1>1 DEF Running, End
<1> QED BY <1>2, Stutter DEF End

LEMMA ThreadOrder ==
  ASSUME Inv, NEW t \in Threads, Thread(t) PROVE [Order!Next]_(Order!jobVars)
<1> USE BatchThreadsAssumption
<1>0. pos \in Nat /\ TypeOK BY DEF Inv, TypeOK
<1>1. CASE SeeBarrier(t)
  <2>1. Place' = Place BY <1>0, <1>1, ServedFacts DEF SeeBarrier, Place
  <2> QED BY <1>1, <2>1, EndOrder DEF SeeBarrier, AtHead
<1>2. CASE EndOfCommands(t)
  <2>1. Place' = Place BY <1>0, <1>2, ServedFacts DEF EndOfCommands, Place
  <2> QED BY <1>0, <1>2, <2>1, EndOrder, EndFacts DEF EndOfCommands
<1>3. CASE ReadBarrier(t)
  <2>1. threadArray[0] = 0 /\ thread[t] = "ready"
    BY <1>0, <1>3, TakeFacts DEF ReadBarrier
  <2>2. threadArray'[0] = 1 BY <1>0, <1>3, ServedFacts DEF ReadBarrier
  <2>3. Place' = Place BY <1>0, <1>3, <2>1, <2>2 DEF ReadBarrier, Place
  <2> QED BY <1>3, <2>1, <2>3, EndOrder DEF ReadBarrier
<1>4. CASE PassOver(t)
  BY <1>0, <1>4, PassOrder, ServedFacts DEF PassOver
<1>5. CASE WaitOn(t)
  <2>1. job[pos].thread \in Threads BY <1>0, <1>5, TakeFacts DEF WaitOn
  <2>2. threadArray'[0] = threadArray[0]
    BY <1>0, <1>5, <2>1, ServedFacts DEF WaitOn, Threads
  <2> QED BY <1>5, <2>2, PassOrder DEF WaitOn
<1>6. CASE KeepMutex(t)
  BY <1>0, <1>6, PassOrder, ServedFacts DEF KeepMutex
<1>7. CASE Run(t)
  <2>1. /\ pos \in DOMAIN job /\ job[pos].op = "run"
        /\ threadArray[0] = 0 /\ thread[t] = "ready"
    BY <1>0, <1>7, TakeFacts DEF Run, TypeOK
  <2>2. Place = pos /\ Place' = pos + 1
    BY <1>0, <1>7, <2>1, ServedFacts DEF Run, Place
  <2>3. Busy' = Busy \cup {t} /\ t \notin Busy
    BY <1>0, <1>7, <2>1 DEF Run, Busy, TypeOK
  <2>4. at'[t] = pos /\ \A u \in Busy : at'[u] = at[u]
    BY <1>0, <1>7, <2>3 DEF Run, TypeOK, Busy
  <2>5. Running' = Running \cup {pos} BY <2>3, <2>4 DEF Running
  <2>6. Cardinality(Running) < N BY <1>0, <2>1, RoomToRun
  <2>7. Order!Start
    BY <1>7, <2>1, <2>2, <2>5, <2>6, SameCardinality
       DEF Run, Order!Start, Order!AtCommand, Place, Running
  <2> QED BY <2>7 DEF Order!Next
<1>8. CASE FinishRun(t)
  <2>1. t \in Busy /\ Busy' = Busy \ {t} BY <1>0, <1>8 DEF FinishRun, Busy, TypeOK
  <2>2. \A u \in Busy \ {t} : at'[u] = at[u] /\ at[u] # at[t]
    BY <1>0, <1>8, <2>1 DEF FinishRun, Inv, CommandsMatch, TypeOK, Busy
  <2>3. Running' = Running \ {at[t]} BY <2>1, <2>2 DEF Running
  <2>4. Place' = Place BY <1>8 DEF FinishRun, Place
  <2>5. PICK p : p = at[t] OBVIOUS
  <2>6. p \in Running /\ Running' = Running \ {p} BY <2>1, <2>3, <2>5 DEF Running
  <2>7. Order!Finish(p)
    BY <1>8, <2>4, <2>6 DEF FinishRun, Order!Finish, Place, Running
  <2>8. Order!Next BY <2>6, <2>7 DEF Order!Next, Running
  <2> QED BY <2>8
<1> QED BY <1>1, <1>2, <1>3, <1>4, <1>5, <1>6, <1>7, <1>8 DEF Thread

LEMMA MainOrder ==
  ASSUME Inv, MainStep PROVE [Order!Next]_(Order!jobVars)
<1> USE BatchThreadsAssumption
<1>0. pos \in Nat /\ TypeOK BY DEF Inv, TypeOK
<1>1. CASE Create
  <2>1. k \in Threads /\ ~ Created(k)
    BY <1>0, <1>1 DEF Create, Created, TypeOK, Threads
  <2>2. thread[k] \in {"none", "ended"} BY <2>1 DEF Inv, RoundsMatch
  <2>3. \A t \in Threads : thread'[t] = "busy" <=> thread[t] = "busy"
    BY <1>0, <1>1, <2>1, <2>2 DEF Create, TypeOK
  <2>4. Busy' = Busy BY <2>3 DEF Busy
  <2>5. Running' = Running BY <1>1, <2>4 DEF Running, Create, threadVars
  <2> QED BY <1>1, <2>5, Stutter DEF Create, Place, threadVars
<1>2. CASE Join
  <2>1. Running' = Running BY <1>2 DEF Join, Running, Busy, threadVars
  <2> QED BY <1>2, <2>1, Stutter DEF Join, Place, threadVars
<1>3. CASE Judge
  <2>1. 1 \in Threads /\ Created(1) /\ thread[1] = "ended"
    BY <1>3 DEF Judge, Inv, RoundsMatch, Threads, Created
  <2>2. result[1] # EXIT_SUCCESS <=> Flag
    BY <2>1 DEF Inv, EndsMatch, EXIT_SUCCESS, BarrierFound
  <2>3. Running = {} /\ Running' = {}
    BY <1>3 DEF Judge, Inv, RoundsMatch, Busy, Running
  <2>4. CASE Flag
    <3>1. threadArray[0] # 0 /\ threadArray'[0] = 0
      BY <1>0, <1>3, <2>2, <2>4 DEF Judge, Flag, TypeOK
    <3>2. Place = pos - 1 /\ Place' = Place + 1
      BY <1>0, <1>3, <3>1 DEF Judge, threadVars, Place
    <3>3. pos - 1 \in DOMAIN job /\ job[pos - 1].op = "barrier"
      BY <1>0, <2>4 DEF Inv, CommandsMatch, TypeOK
    <3>4. Order!Barrier
      BY <1>3, <2>3, <3>2, <3>3
         DEF Judge, Order!Barrier, Order!AtCommand, Place, Running
    <3> QED BY <3>4 DEF Order!Next
  <2>5. CASE ~ Flag
    <3>1. UNCHANGED threadArray BY <1>3, <2>2, <2>5 DEF Judge
    <3> QED BY <1>3, <2>3, <3>1, Stutter DEF Judge, Place, threadVars
  <2> QED BY <2>4, <2>5
<1> QED BY <1>1, <1>2, <1>3 DEF MainStep

(* The threads implement JobOrder: commands start in the order of the      *)
(* file, at most N at once, and none on both sides of a BARRIER.           *)
THEOREM OrderImplemented == Spec => ImplementsJobOrder
<1>1. Init => Order!Init
  <2> SUFFICES ASSUME Init PROVE Order!Init OBVIOUS
  <2>1. threadArray[0] = 0 /\ Busy = {} BY BatchThreadsAssumption DEF Init, Busy
  <2> QED BY <2>1 DEF Init, Order!Init
<1>2. Inv /\ [Next]_vars => [Order!Next]_(Order!jobVars)
  <2> SUFFICES ASSUME Inv, [Next]_vars PROVE [Order!Next]_(Order!jobVars)
    OBVIOUS
  <2>1. CASE UNCHANGED vars
    BY <2>1, Stutter DEF vars, Place, Running, Busy
  <2> QED BY <2>1, ThreadOrder, MainOrder DEF Next
<1> QED BY <1>1, <1>2, Invariance, PTL DEF Spec, ImplementsJobOrder, Order!Spec
=============================================================================
