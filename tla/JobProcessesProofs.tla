------------------------- MODULE JobProcessesProofs -------------------------
(***************************************************************************)
(* Proofs about ProcessPool and JobProcesses.  For any directory and any   *)
(* limit, the parent counts its children exactly, never has more of them   *)
(* than MaxProc, and has waited for all of them when it ends well.         *)
(* JobProcesses implements ProcessPool, so that this holds with children   *)
(* that run real job files, of any contents.  Whatever these hold, the     *)
(* parser of a child stays in its file and reads numbers, the numbers on   *)
(* the seats of an event are those of the reservations it has made, and a  *)
(* child has written what JobReference asks for, for the commands it has   *)
(* read.  These are the lines of its file in their order, but for the few  *)
(* that an invalid line takes with it.                                     *)
(***************************************************************************)
EXTENDS JobProcesses, JobParserProofs

(* A job file gets its child after it was read and, unless a fork fails,   *)
(* as soon as it is no longer in hand.                                     *)
NoChildYet ==
  /\ \A f \in JobFiles \cap entries : child[f] = "none"
  /\ parent = "room" =>
       entry \in JobFiles /\ entry \notin entries /\ child[entry] = "none"
  /\ parent # "failed" =>
       \A f \in JobFiles :
         child[f] = "none" => f \in entries \/ (parent = "room" /\ f = entry)
  /\ parent \in {"drain", "done"} => entries = {}

(* The inductive invariant.                                                *)
Inv ==
  /\ TypeOK /\ NoChildYet
  /\ AtMostMaxProc /\ CountsChildren
  /\ parent = "done" => Unreaped = {}

-----------------------------------------------------------------------------
(* The children not waited for are finitely many.                          *)
LEMMA UnreapedFinite == IsFiniteSet(Unreaped)
  BY ProcessPoolAssumption, FS_Subset, JobFiles \subseteq Files,
     Unreaped \subseteq JobFiles DEF Unreaped

(* Waiting for one child takes one from their number.                      *)
LEMMA ReapCounts ==
  ASSUME TypeOK, NEW f \in JobFiles, Reap(f)
  PROVE  /\ Unreaped' = Unreaped \ {f} /\ f \in Unreaped
         /\ child' \in [JobFiles -> {"none", "running", "zombie", "reaped"}]
         /\ \A g \in JobFiles : child'[g] = "none" <=> child[g] = "none"
         /\ Cardinality(Unreaped') = Cardinality(Unreaped) - 1
         /\ Cardinality(Unreaped) \in Nat \ {0}
<1>1. Unreaped' = Unreaped \ {f} /\ f \in Unreaped
  BY DEF TypeOK, Reap, Unreaped
<1>2. Cardinality(Unreaped') = Cardinality(Unreaped) - 1
  BY <1>1, UnreapedFinite, FS_RemoveElement
<1>3. Cardinality(Unreaped) \in Nat /\ Cardinality(Unreaped) # 0
  BY <1>1, UnreapedFinite, FS_CardinalityType, FS_EmptySet
<1> QED BY <1>1, <1>2, <1>3 DEF TypeOK, Reap

(* At the start there is no child.                                         *)
LEMMA InitInv == Init => Inv
<1> SUFFICES ASSUME Init PROVE Inv OBVIOUS
<1>1. Unreaped = {} BY DEF Init, Unreaped
<1>2. Cardinality(Unreaped) = 0 BY <1>1, FS_EmptySet
<1> QED BY <1>1, <1>2, ProcessPoolAssumption
        DEF Init, Inv, TypeOK, NoChildYet, AtMostMaxProc, CountsChildren

(* Every step keeps the invariant.                                         *)
LEMMA NextInv == Inv /\ [Next]_vars => Inv'
<1> SUFFICES ASSUME Inv, [Next]_vars PROVE Inv' OBVIOUS
<1> USE ProcessPoolAssumption
<1>0. Cardinality(Unreaped) \in Nat BY UnreapedFinite, FS_CardinalityType
<1>1. ASSUME NEW f \in Files, ReadEntry(f) PROVE Inv'
  <2>1. Unreaped' = Unreaped BY <1>1 DEF ReadEntry, Unreaped
  <2> QED BY <1>0, <1>1, <2>1
          DEF Inv, ReadEntry, TypeOK, NoChildYet, AtMostMaxProc, CountsChildren
<1>2. CASE EndOfDirectory
  <2>1. Unreaped' = Unreaped BY <1>2 DEF EndOfDirectory, Unreaped
  <2> QED BY <1>0, <1>2, <2>1
          DEF Inv, EndOfDirectory, TypeOK, NoChildYet, AtMostMaxProc, CountsChildren
<1>3. CASE WaitForRoom
  <2>1. Unreaped # {}
    BY <1>3, FS_EmptySet
       DEF Inv, WaitForRoom, Full, CountsChildren, TypeOK
  <2>2. PICK f \in JobFiles : Reap(f) BY <1>3, <2>1 DEF WaitForRoom
  <2>3. /\ active_processes' = active_processes - 1
        /\ UNCHANGED <<parent, entries, entry>>
    BY <1>3, <2>1 DEF WaitForRoom
  <2> QED BY <1>0, <1>3, <2>2, <2>3, ReapCounts
          DEF Inv, WaitForRoom, TypeOK, NoChildYet, AtMostMaxProc, CountsChildren
<1>4. CASE Fork
  <2>1. CASE parent' = "failed" /\ UNCHANGED child
    <3>1. Unreaped' = Unreaped BY <2>1 DEF Unreaped
    <3> QED BY <1>0, <1>4, <2>1, <3>1
            DEF Inv, Fork, Full, TypeOK, NoChildYet, AtMostMaxProc, CountsChildren
  <2>2. CASE child' = [child EXCEPT ![entry] = "running"] /\ parent' = "scan"
    <3>1. entry \in JobFiles /\ child[entry] = "none"
      BY <1>4 DEF Fork, Inv, NoChildYet
    <3>2. Unreaped' = Unreaped \cup {entry} /\ entry \notin Unreaped
      BY <2>2, <3>1 DEF Inv, TypeOK, Unreaped
    <3>3. Cardinality(Unreaped') = Cardinality(Unreaped) + 1
      BY <3>2, UnreapedFinite, FS_AddElement
    <3> QED BY <1>0, <1>4, <2>2, <3>1, <3>3
            DEF Inv, Fork, Full, TypeOK, NoChildYet, AtMostMaxProc, CountsChildren
  <2> QED BY <1>4, <2>1, <2>2 DEF Fork
<1>5. ASSUME NEW f \in JobFiles, ChildEnds(f) PROVE Inv'
  <2>1. Unreaped' = Unreaped BY <1>5 DEF ChildEnds, Unreaped, Inv, TypeOK
  <2> QED BY <1>0, <1>5, <2>1
          DEF Inv, ChildEnds, TypeOK, NoChildYet, AtMostMaxProc, CountsChildren
<1>6. CASE Drain
  <2>1. CASE \E f \in JobFiles : Reap(f) /\ UNCHANGED parent
    <3>1. PICK f \in JobFiles : Reap(f) /\ UNCHANGED parent BY <2>1
    <3> QED BY <1>0, <1>6, <3>1, ReapCounts
            DEF Inv, Drain, TypeOK, NoChildYet, AtMostMaxProc, CountsChildren
  <2>2. CASE Unreaped = {} /\ parent' = "done" /\ UNCHANGED child
    <3>1. Unreaped' = Unreaped BY <2>2 DEF Unreaped
    <3> QED BY <1>0, <1>6, <2>2, <3>1
            DEF Inv, Drain, TypeOK, NoChildYet, AtMostMaxProc, CountsChildren
  <2> QED BY <1>6, <2>1, <2>2 DEF Drain
<1>7. CASE UNCHANGED vars
  <2>1. Unreaped' = Unreaped BY <1>7 DEF vars, Unreaped
  <2> QED BY <1>0, <1>7, <2>1
          DEF vars, Inv, TypeOK, NoChildYet, AtMostMaxProc, CountsChildren
<1> QED BY <1>1, <1>2, <1>3, <1>4, <1>5, <1>6, <1>7 DEF Next, Parent

-----------------------------------------------------------------------------
(* The invariant holds in every reachable state.                           *)
LEMMA Invariance == Spec => []Inv
  BY InitInv, NextInv, PTL DEF Spec

(* Type correctness of the parent.                                         *)
THEOREM TypeCorrect == Spec => []TypeOK
<1>1. Inv => TypeOK BY DEF Inv
<1> QED BY <1>1, Invariance, PTL

(* There are never more children, zombies included, than MaxProc.          *)
THEOREM ChildrenBounded == Spec => []AtMostMaxProc
<1>1. Inv => AtMostMaxProc BY DEF Inv
<1> QED BY <1>1, Invariance, PTL

(* While the directory is scanned the counter is the number of children.   *)
THEOREM CounterExact == Spec => []CountsChildren
<1>1. Inv => CountsChildren BY DEF Inv
<1> QED BY <1>1, Invariance, PTL

(* When the parent ends well it has waited for a child of every job file.  *)
THEOREM EveryChildReaped == Spec => []AllReaped
<1>1. Inv => AllReaped
  BY DEF Inv, TypeOK, NoChildYet, AllReaped, Unreaped
<1> QED BY <1>1, Invariance, PTL

-----------------------------------------------------------------------------
(* A step of the program is a step of the parent, the end of a child, or   *)
(* nothing that the parent sees.                                           *)
LEMMA StepImplemented == [JobsNext]_<<vars, jobVars>> => [Next]_vars
<1> SUFFICES ASSUME [JobsNext]_<<vars, jobVars>> PROVE [Next]_vars
  OBVIOUS
<1>1. CASE ParentStep BY <1>1 DEF ParentStep, Next
<1>2. ASSUME NEW f \in JobFiles, Execute(f) PROVE UNCHANGED vars
  BY <1>2 DEF Execute, vars
<1>3. ASSUME NEW f \in JobFiles, Finish(f) \/ EndsEarly(f) PROVE Next
  BY <1>3 DEF Finish, EndsEarly, Next
<1>4. CASE UNCHANGED <<vars, jobVars>> BY <1>4 DEF vars
<1> QED BY <1>1, <1>2, <1>3, <1>4 DEF JobsNext

(* The program with its job files is a ProcessPool.                        *)
THEOREM PoolImplemented == JobsSpec => Spec
<1>1. JobsInit => Init BY DEF JobsInit
<1> QED BY <1>1, StepImplemented, PTL DEF JobsSpec, Spec

(* Whatever the job files hold, there are never more than MaxProc children *)
(* and all have been waited for when the parent ends well.                 *)
THEOREM LimitKept == JobsSpec => [](AtMostMaxProc /\ CountsChildren /\ AllReaped)
  BY PoolImplemented, ChildrenBounded, CounterExact, EveryChildReaped, PTL

-----------------------------------------------------------------------------
(* Events in which the numbers used are those from 1 to the counter.       *)
Arrays == UNION {[0 .. (m - 1) -> Nat] : m \in Int}
EventRecords == [id : Nat, rows : Nat, cols : Nat, reservations : Nat, data : Arrays]
NumbersUsed(e) == {e.data[p] : p \in Places(e)} \ {0}
Events == {e \in EventRecords : /\ e.data \in [Places(e) -> Nat]
                                /\ NumbersUsed(e) = 1 .. e.reservations}

LEMMA InArrays ==
  ASSUME NEW r \in Nat, NEW c \in Nat, NEW a \in [0 .. (r * c - 1) -> Nat]
  PROVE  a \in Arrays
<1> DEFINE m == r * c
<1>1. m \in Int
  OBVIOUS
<1>2. a \in [0 .. (m - 1) -> Nat]
  OBVIOUS
<1> HIDE DEF m
<1> QED BY <1>1, <1>2 DEF Arrays

LEMMA EventIs ==
  ASSUME NEW e \in Events
  PROVE  /\ e.id \in Nat /\ e.rows \in Nat /\ e.cols \in Nat /\ e.reservations \in Nat
         /\ e.data \in [Places(e) -> Nat] /\ NumbersUsed(e) = 1 .. e.reservations
         /\ \A p \in Places(e) : e.data[p] \in 0 .. e.reservations
<1>1. /\ e.id \in Nat /\ e.rows \in Nat /\ e.cols \in Nat /\ e.reservations \in Nat
      /\ e.data \in [Places(e) -> Nat] /\ NumbersUsed(e) = 1 .. e.reservations
  BY DEF Events, EventRecords
<1>2. ASSUME NEW p \in Places(e)
      PROVE  e.data[p] \in 0 .. e.reservations
  <2>1. e.data[p] = 0 \/ e.data[p] \in NumbersUsed(e)
    BY DEF NumbersUsed
  <2> QED BY <1>1, <2>1
<1> QED BY <1>1, <1>2

(* A new event.                                                            *)
LEMMA NewIsEvent ==
  ASSUME NEW id \in Nat, NEW dims, dims[1] \in Nat, dims[2] \in Nat
  PROVE  NewEvent(id, dims) \in Events
<1> DEFINE e == NewEvent(id, dims)
           r == dims[1]
           c == dims[2]
           a == [i \in 0 .. (r * c - 1) |-> 0]
<1>1. e = [id |-> id, rows |-> r, cols |-> c, reservations |-> 0, data |-> a]
  BY DEF NewEvent
<1>2. a \in [0 .. (r * c - 1) -> Nat] /\ \A p \in 0 .. (r * c - 1) : a[p] = 0
  OBVIOUS
<1>3. r \in Nat /\ c \in Nat
  OBVIOUS
<1> HIDE DEF e, a, r, c
<1>4. a \in Arrays
  BY <1>2, <1>3, InArrays
<1>5. Places(e) = 0 .. (r * c - 1) /\ e.data = a /\ e.reservations = 0
  BY <1>1 DEF Places
<1>6. NumbersUsed(e) = {} /\ 1 .. e.reservations = {}
  BY <1>2, <1>5 DEF NumbersUsed
<1>7. e \in EventRecords
  BY <1>1, <1>3, <1>4 DEF EventRecords
<1> QED BY <1>2, <1>5, <1>6, <1>7 DEF Events, e

(* Where ems_reserve stops.                                                *)
LEMMA AcceptedIs ==
  ASSUME NEW e, NEW seats \in SeatLists
  PROVE  /\ Accepted(e, seats) \in 0 .. Len(seats)
         /\ \A k \in 1 .. Accepted(e, seats) : ~ Refused(e, seats, k)
<1> DEFINE n == Len(seats)
           Stops == {k \in 0 .. n : k = n \/ Refused(e, seats, k + 1)}
           Good(m) == /\ \A k \in 1 .. m : ~ Refused(e, seats, k)
                      /\ m = n \/ Refused(e, seats, m + 1)
<1>1. n \in Nat
  BY DEF SeatLists
<1> HIDE DEF n
<1>2. Stops \in SUBSET Nat /\ n \in Stops
  BY <1>1
<1>3. PICK m \in Stops : \A k \in Stops : m <= k
  <2> HIDE DEF Stops
  <2> QED BY <1>2, LeastElement
<1>4. m \in 0 .. n /\ (m = n \/ Refused(e, seats, m + 1))
  OBVIOUS
<1>5. ASSUME NEW k \in 1 .. m
      PROVE  ~ Refused(e, seats, k)
  <2>1. k - 1 \in 0 .. n /\ ~ (m <= k - 1) /\ (k - 1) + 1 = k
    BY <1>1, <1>4
  <2>2. k - 1 \notin Stops
    <3> HIDE DEF Stops
    <3> QED BY <1>3, <2>1
  <2> QED BY <2>1, <2>2
<1>6. Good(m)
  BY <1>4, <1>5
<1>7. Accepted(e, seats) = CHOOSE p \in 0 .. n : Good(p)
  BY DEF Accepted, n
<1>8. Accepted(e, seats) \in 0 .. n /\ Good(Accepted(e, seats))
  <2> HIDE DEF Good
  <2> QED BY <1>4, <1>6, <1>7
<1> QED BY <1>8 DEF n

(* What it has marked until then are places of the plan that were free.    *)
LEMMA MarkedWereFree ==
  ASSUME NEW e \in Events, NEW seats \in SeatLists, InPairs(seats),
         NEW k \in 1 .. Accepted(e, seats)
  PROVE  PlaceOf(e, seats[k]) \in Places(e) /\ e.data[PlaceOf(e, seats[k])] = 0
<1>1. k \in 1 .. Len(seats) /\ ~ Refused(e, seats, k)
  <2>1. Len(seats) \in Nat
    BY DEF SeatLists
  <2> QED BY <2>1, AcceptedIs
<1>2. seats[k] \in Seq(Nat) /\ Len(seats[k]) = 2
  BY <1>1 DEF SeatLists, InPairs
<1>3. seats[k][1] \in Nat /\ seats[k][2] \in Nat
  BY <1>2
<1>4. InBounds(e, seats[k][1], seats[k][2]) /\ e.data[PlaceOf(e, seats[k])] = 0
  BY <1>1 DEF Refused
<1>5. e.rows \in Nat /\ e.cols \in Nat
  BY EventIs
<1>6. <<seats[k][1], seats[k][2]>> \in Coords(e)
  BY <1>3, <1>4, <1>5 DEF InBounds, Coords
<1> QED BY <1>4, <1>5, <1>6, SeatIndexInRange DEF PlaceOf

(* Marking free places, one at least, with the next number.                *)
LEMMA MarksIsEvent ==
  ASSUME NEW e \in Events, NEW places \in SUBSET Places(e), places # {},
         \A p \in places : e.data[p] = 0
  PROVE  Marks(e, places, e.reservations + 1, 1) \in Events
<1> DEFINE n == e.reservations + 1
           a == [p \in DOMAIN e.data |-> IF p \in places THEN n ELSE e.data[p]]
           m == Marks(e, places, n, 1)
<1>1. /\ e \in EventRecords /\ e.data \in [Places(e) -> Nat] /\ n \in Nat
      /\ NumbersUsed(e) = 1 .. e.reservations /\ e.reservations \in Nat
      /\ e.rows \in Nat /\ e.cols \in Nat
  BY EventIs DEF Events
<1>2. m = [e EXCEPT !.reservations = n, !.data = a]
  BY DEF Marks
<1>3. a \in [Places(e) -> Nat] /\ \A p \in Places(e) : a[p] = IF p \in places THEN n ELSE e.data[p]
  BY <1>1
<1> HIDE DEF m, a, n
<1>4. a \in Arrays
  BY <1>1, <1>3, InArrays DEF Places
<1>5. /\ m \in EventRecords /\ m.data = a /\ m.reservations = n
      /\ m.rows = e.rows /\ m.cols = e.cols
  BY <1>1, <1>2, <1>4 DEF EventRecords
<1>6. Places(m) = Places(e)
  BY <1>5 DEF Places
<1>7. NumbersUsed(m) = {a[p] : p \in Places(e)} \ {0}
  BY <1>5, <1>6 DEF NumbersUsed
<1>8. {a[p] : p \in Places(e)} \ {0} = NumbersUsed(e) \cup {n}
  <2>1. ASSUME NEW x \in {a[p] : p \in Places(e)} \ {0}
        PROVE  x \in NumbersUsed(e) \cup {n}
    BY <1>3 DEF NumbersUsed
  <2>2. ASSUME NEW x \in NumbersUsed(e)
        PROVE  x \in {a[p] : p \in Places(e)} \ {0}
    <3>1. PICK p \in Places(e) : x = e.data[p] /\ x # 0
      BY DEF NumbersUsed
    <3>2. a[p] = x
      BY <1>3, <3>1
    <3> QED BY <3>1, <3>2
  <2>3. n \in {a[p] : p \in Places(e)} \ {0}
    <3>1. PICK p \in places : TRUE
      OBVIOUS
    <3>2. a[p] = n /\ p \in Places(e)
      BY <1>3
    <3>3. n # 0
      BY <1>1 DEF n
    <3> QED BY <3>2, <3>3
  <2> QED BY <2>1, <2>2, <2>3
<1>9. (1 .. e.reservations) \cup {n} = 1 .. n
  BY <1>1 DEF n
<1> QED BY <1>1, <1>3, <1>5, <1>6, <1>7, <1>8, <1>9 DEF Events, m, n

(* Undoing a reservation that failed leaves the event as it was.           *)
LEMMA UndoneIsUnchanged ==
  ASSUME NEW e \in Events, NEW places \in SUBSET Places(e), NEW n,
         \A p \in places : e.data[p] = 0
  PROVE  Undo(Marks(e, places, n, 1), places) = e
<1> DEFINE a == [p \in DOMAIN e.data |-> IF p \in places THEN n ELSE e.data[p]]
           m == Marks(e, places, n, 1)
           b == [p \in DOMAIN m.data |-> IF p \in places THEN 0 ELSE m.data[p]]
           u == Undo(m, places)
<1>1. e \in EventRecords /\ e.data \in [Places(e) -> Nat] /\ e.reservations \in Nat
  BY EventIs DEF Events
<1>2. m = [e EXCEPT !.reservations = e.reservations + 1, !.data = a]
  BY DEF Marks
<1>3. u = [m EXCEPT !.reservations = m.reservations + (-1), !.data = b]
  BY DEF Undo, Marks
<1>4. m.data = a /\ m.reservations = e.reservations + 1
  <2> HIDE DEF m, a
  <2> QED BY <1>1, <1>2 DEF EventRecords
<1>5. b = e.data
  <2>1. DOMAIN b = Places(e) /\ \A p \in Places(e) : b[p] = e.data[p]
    <3>1. DOMAIN m.data = Places(e)
      <4> HIDE DEF m
      <4> QED BY <1>1, <1>4
    <3>2. \A p \in Places(e) : m.data[p] = IF p \in places THEN n ELSE e.data[p]
      <4> HIDE DEF m
      <4> QED BY <1>1, <1>4
    <3> HIDE DEF m
    <3> QED BY <3>1, <3>2
  <2>2. b = [p \in DOMAIN b |-> b[p]]
    <3> HIDE DEF m
    <3> QED OBVIOUS
  <2> HIDE DEF b
  <2> QED BY <1>1, <2>1, <2>2
<1>6. m.reservations + (-1) = e.reservations
  <2> HIDE DEF m
  <2> QED BY <1>1, <1>4
<1> HIDE DEF a, b
<1>7. u = [m EXCEPT !.reservations = e.reservations, !.data = e.data]
  <2> HIDE DEF u, m
  <2> QED BY <1>3, <1>5, <1>6
<1> HIDE DEF m, u
<1>8. u = e
  BY <1>1, <1>2, <1>7 DEF EventRecords
<1> QED BY <1>8 DEF u, m

-----------------------------------------------------------------------------
(* The calls of the store keep a list of such events, and write lines.     *)
OutLines == [row : Seq(Nat)] \cup [event : Nat \cup {Garbled}]

LEMMA FirstEventIs ==
  ASSUME NEW events \in Seq(Events), NEW id, HasEvent(events, id)
  PROVE  FirstEvent(events, id) \in 1 .. Len(events)
<1> DEFINE Having == {i \in 1 .. Len(events) : events[i].id = id}
           First(i) == events[i].id = id /\ \A j \in 1 .. (i - 1) : events[j].id # id
<1>1. Len(events) \in Nat /\ DOMAIN events = 1 .. Len(events)
  BY LenProperties
<1>2. Having \in SUBSET Nat /\ Having # {}
  BY <1>1 DEF HasEvent
<1>3. PICK i \in Having : \A j \in Having : i <= j
  <2> HIDE DEF Having
  <2> QED BY <1>2, LeastElement
<1>4. i \in 1 .. Len(events) /\ events[i].id = id
  OBVIOUS
<1>5. ASSUME NEW j \in 1 .. (i - 1)
      PROVE  events[j].id # id
  <2>1. j \in 1 .. Len(events) /\ ~ (i <= j)
    BY <1>1, <1>4
  <2>2. j \notin Having
    <3> HIDE DEF Having
    <3> QED BY <1>3, <2>1
  <2> QED BY <2>1, <2>2
<1>6. First(i)
  BY <1>4, <1>5
<1>7. FirstEvent(events, id) = CHOOSE j \in 1 .. Len(events) : First(j)
  BY <1>1 DEF FirstEvent
<1> HIDE DEF First
<1> QED BY <1>4, <1>6, <1>7

LEMMA CreateKeeps ==
  ASSUME NEW events \in Seq(Events), NEW id \in Nat, NEW dims, dims[1] \in Nat, dims[2] \in Nat
  PROVE  ems_create(events, id, dims) \in Seq(Events)
<1>1. NewEvent(id, dims) \in Events
  BY NewIsEvent
<1> QED BY <1>1, AppendProperties DEF ems_create

LEMMA ReserveKeeps ==
  ASSUME NEW events \in Seq(Events), NEW id, NEW seats \in SeatLists,
         InPairs(seats), Len(seats) >= 1
  PROVE  ems_reserve(events, id, seats) \in Seq(Events)
<1> DEFINE i == FirstEvent(events, id)
           e == events[i]
           n == Accepted(e, seats)
           places == {PlaceOf(e, seats[k]) : k \in 1 .. n}
           m == Marks(e, places, e.reservations + 1, 1)
           x == IF n = Len(seats) THEN m ELSE Undo(m, places)
<1> SUFFICES ASSUME HasEvent(events, id) PROVE ems_reserve(events, id, seats) \in Seq(Events)
  BY DEF ems_reserve
<1>1. ems_reserve(events, id, seats) = [events EXCEPT ![i] = x]
  BY DEF ems_reserve
<1>2. i \in 1 .. Len(events) /\ e \in Events
  <2>1. i \in 1 .. Len(events)
    BY FirstEventIs
  <2> HIDE DEF i
  <2> QED BY <2>1, ElementOfSeq
<1> HIDE DEF i, e
<1>3. n \in 0 .. Len(seats) /\ Len(seats) \in Nat
  BY AcceptedIs DEF SeatLists
<1>4. \A k \in 1 .. n : PlaceOf(e, seats[k]) \in Places(e) /\ e.data[PlaceOf(e, seats[k])] = 0
  BY <1>2, MarkedWereFree
<1> HIDE DEF n
<1>5. places \in SUBSET Places(e) /\ \A p \in places : e.data[p] = 0
  BY <1>4
<1>6. CASE n = Len(seats)
  <2>1. places # {}
    <3>1. 1 \in 1 .. n
      BY <1>3, <1>6
    <3> QED BY <3>1
  <2> HIDE DEF places
  <2>2. m \in Events
    BY <1>2, <1>5, <2>1, MarksIsEvent
  <2> HIDE DEF m
  <2> QED BY <1>1, <1>2, <1>6, <2>2, ExceptSeq
<1>7. CASE n # Len(seats)
  <2> HIDE DEF places
  <2>1. Undo(m, places) = e
    BY <1>2, <1>5, UndoneIsUnchanged
  <2> HIDE DEF m
  <2> QED BY <1>1, <1>2, <1>7, <2>1, ExceptSeq
<1> QED BY <1>6, <1>7

LEMMA RowsAreLines ==
  ASSUME NEW e \in Events
  PROVE  [r \in 1 .. e.rows |-> [row |-> [c \in 1 .. e.cols |-> e.data[SeatIndex(e, r, c)]]]]
           \in Seq(OutLines)
<1> DEFINE R == e.rows
           C == e.cols
           Row(r) == [c \in 1 .. C |-> e.data[SeatIndex(e, r, c)]]
           rows == [r \in 1 .. R |-> [row |-> Row(r)]]
<1>1. R \in Nat /\ C \in Nat /\ e.data \in [Places(e) -> Nat]
  BY EventIs
<1>2. ASSUME NEW r \in 1 .. R
      PROVE  Row(r) \in Seq(Nat)
  <2>1. ASSUME NEW c \in 1 .. C
        PROVE  e.data[SeatIndex(e, r, c)] \in Nat
    <3>1. <<r, c>> \in Coords(e)
      BY DEF Coords
    <3>2. SeatIndex(e, r, c) \in Places(e)
      BY <1>1, <3>1, SeatIndexInRange
    <3> QED BY <1>1, <3>2
  <2>2. Row(r) \in [1 .. C -> Nat]
    <3> HIDE DEF C
    <3> QED BY <2>1
  <2> HIDE DEF Row, C
  <2> QED BY <1>1, <2>2, SeqDef
<1> HIDE DEF Row
<1>3. rows \in [1 .. R -> OutLines]
  BY <1>2 DEF OutLines
<1>4. rows \in Seq(OutLines)
  <2> HIDE DEF rows, R
  <2> QED BY <1>1, <1>3, SeqDef
<1> QED BY <1>4 DEF Row

LEMMA ShowWritesLines ==
  ASSUME NEW events \in Seq(Events), NEW id
  PROVE  ems_show(events, id) \in Seq(OutLines)
<1>1. CASE ~ HasEvent(events, id)
  BY <1>1, EmptySeq DEF ems_show
<1>2. CASE HasEvent(events, id)
  <2> DEFINE e == events[FirstEvent(events, id)]
  <2>1. e \in Events
    BY <1>2, FirstEventIs, ElementOfSeq
  <2>2. ems_show(events, id) =
          [r \in 1 .. e.rows |-> [row |-> [c \in 1 .. e.cols |-> e.data[SeatIndex(e, r, c)]]]]
    BY <1>2 DEF ems_show
  <2> HIDE DEF e
  <2> QED BY <2>1, <2>2, RowsAreLines
<1> QED BY <1>1, <1>2

LEMMA ListWritesLines ==
  ASSUME NEW events \in Seq(Events)
  PROVE  ems_list_events(events) \in Seq(OutLines)
<1> DEFINE n == Len(events)
           lines == [i \in 1 .. n |->
                       [event |-> IF events[i].id < 1000 THEN events[i].id ELSE Garbled]]
<1>1. n \in Nat /\ DOMAIN events = 1 .. n
  BY LenProperties
<1>2. ASSUME NEW i \in 1 .. n
      PROVE  (IF events[i].id < 1000 THEN events[i].id ELSE Garbled) \in Nat \cup {Garbled}
  <2>1. events[i] \in Events
    BY ElementOfSeq
  <2>2. events[i].id \in Nat
    BY <2>1, EventIs
  <2> QED BY <2>2
<1>3. ems_list_events(events) = lines
  BY <1>1 DEF ems_list_events
<1> HIDE DEF n
<1>4. lines \in [1 .. n -> OutLines]
  BY <1>2 DEF OutLines
<1>5. lines \in Seq(OutLines)
  <2> HIDE DEF lines
  <2> QED BY <1>1, <1>4, SeqDef
<1> QED BY <1>3, <1>5

LEMMA CommandKeeps ==
  ASSUME NEW events \in Seq(Events), NEW cmd, ArgumentsOK(cmd)
  PROVE  ListAfter(events, cmd) \in Seq(Events) /\ Written(events, cmd) \in Seq(OutLines)
<1>1. ListAfter(events, cmd) \in Seq(Events)
  <2>1. CASE cmd.op = "create"
    <3>1. cmd.id \in Nat /\ cmd.dims[1] \in Nat /\ cmd.dims[2] \in Nat
      BY <2>1 DEF ArgumentsOK
    <3>2. ems_create(events, cmd.id, cmd.dims) \in Seq(Events)
      BY <3>1, CreateKeeps
    <3> QED BY <2>1, <3>2 DEF ListAfter
  <2>2. CASE cmd.op = "reserve"
    <3>1. cmd.seats \in SeatLists /\ InPairs(cmd.seats) /\ Len(cmd.seats) >= 1
      BY <2>2 DEF ArgumentsOK
    <3>2. ems_reserve(events, cmd.id, cmd.seats) \in Seq(Events)
      BY <3>1, ReserveKeeps
    <3> QED BY <2>2, <3>2 DEF ListAfter
  <2>3. CASE cmd.op \notin {"create", "reserve"}
    BY <2>3 DEF ListAfter
  <2> QED BY <2>1, <2>2, <2>3
<1>2. Written(events, cmd) \in Seq(OutLines)
  <2>1. CASE cmd.op = "show"
    BY <2>1, ShowWritesLines DEF Written
  <2>2. CASE cmd.op = "list"
    BY <2>2, ListWritesLines DEF Written
  <2>3. CASE cmd.op \notin {"show", "list"}
    BY <2>3, EmptySeq DEF Written
  <2> QED BY <2>1, <2>2, <2>3
<1> QED BY <1>1, <1>2

-----------------------------------------------------------------------------
(* The inductive invariant of the children.                                *)
JobsInv ==
  /\ job \in Directories
  /\ DOMAIN at = JobFiles /\ DOMAIN begun = JobFiles
  /\ \A f \in JobFiles : at[f] \in 0 .. Len(Text(f)) /\ begun[f] \in Seq(0 .. Len(Text(f)))
  /\ list \in [JobFiles -> Seq(Events)]
  /\ out \in [JobFiles -> Seq(OutLines)]

LEMMA TextsAre ==
  ASSUME job \in Directories, NEW f \in JobFiles
  PROVE  Text(f) \in Texts
BY JobProcessesAssumption DEF Text, Texts

LEMMA StaleAre ==
  ASSUME NEW s \in Stale
  PROVE  s \in DigitRuns
<1>1. s \in Seq(STRING) /\ \A i \in DOMAIN s : IsDigit(s[i])
  BY JobProcessesAssumption
<1>2. s \in [1 .. Len(s) -> DigitChars] /\ Len(s) \in Nat
  <2>1. s \in [1 .. Len(s) -> STRING] /\ Len(s) \in Nat /\ DOMAIN s = 1 .. Len(s)
    BY <1>1, LenProperties
  <2>2. \A i \in 1 .. Len(s) : s[i] \in DigitChars
    BY <1>1, <2>1 DEF DigitChars
  <2> QED BY <2>1, <2>2
<1> QED BY <1>2, SeqDef DEF DigitRuns

LEMMA JobsInitInv == JobsInit => JobsInv
<1> SUFFICES ASSUME JobsInit PROVE JobsInv
  OBVIOUS
<1>1. ASSUME NEW f \in JobFiles
      PROVE  at[f] \in 0 .. Len(Text(f)) /\ begun[f] \in Seq(0 .. Len(Text(f)))
  <2>1. Len(Text(f)) \in Nat
    BY TextsAre, LenProperties DEF JobsInit, Texts
  <2> QED BY <2>1, EmptySeq DEF JobsInit
<1>2. list \in [JobFiles -> Seq(Events)] /\ out \in [JobFiles -> Seq(OutLines)]
  BY EmptySeq DEF JobsInit, EmptyList
<1> QED BY <1>1, <1>2 DEF JobsInit, JobsInv

LEMMA ExecuteKeeps ==
  ASSUME JobsInv, NEW f \in JobFiles, Execute(f)
  PROVE  JobsInv'
<1>1. PICK stale \in Stale :
        LET r == ReadCommand(Text(f), at[f], stale)
        IN /\ at' = [at EXCEPT ![f] = r.at]
           /\ list' = [list EXCEPT ![f] = ListAfter(@, r.cmd)]
           /\ out' = [out EXCEPT ![f] = @ \o Written(list[f], r.cmd)]
  BY DEF Execute
<1> DEFINE r == ReadCommand(Text(f), at[f], stale)
<1>2. /\ at' = [at EXCEPT ![f] = r.at]
      /\ list' = [list EXCEPT ![f] = ListAfter(list[f], r.cmd)]
      /\ out' = [out EXCEPT ![f] = out[f] \o Written(list[f], r.cmd)]
      /\ begun' = [begun EXCEPT ![f] = Append(begun[f], at[f])]
      /\ job' = job /\ at[f] < Len(Text(f))
  BY <1>1 DEF Execute
<1>3. /\ Text(f) \in Texts /\ at[f] \in 0 .. Len(Text(f)) /\ at[f] # Len(Text(f))
      /\ list[f] \in Seq(Events) /\ out[f] \in Seq(OutLines)
      /\ begun[f] \in Seq(0 .. Len(Text(f)))
  BY <1>2, TextsAre DEF JobsInv, Texts
<1>4. ReadOK(r, Text(f))
  BY <1>1, <1>3, StaleAre, CommandsTyped
<1> HIDE DEF r
<1>5. /\ r.at \in 0 .. Len(Text(f))
      /\ ListAfter(list[f], r.cmd) \in Seq(Events)
      /\ Written(list[f], r.cmd) \in Seq(OutLines)
  BY <1>3, <1>4, CommandKeeps DEF ReadOK
<1>6. out[f] \o Written(list[f], r.cmd) \in Seq(OutLines)
  BY <1>3, <1>5, ConcatProperties
<1>7. Append(begun[f], at[f]) \in Seq(0 .. Len(Text(f)))
  BY <1>3, AppendProperties
<1>8. list' \in [JobFiles -> Seq(Events)] /\ out' \in [JobFiles -> Seq(OutLines)]
  BY <1>2, <1>5, <1>6 DEF JobsInv
<1>9. \A g \in JobFiles : Text(g)' = Text(g)
  BY <1>2 DEF Text
<1>10. /\ DOMAIN at' = JobFiles /\ DOMAIN begun' = JobFiles
       /\ \A g \in JobFiles : at'[g] \in 0 .. Len(Text(g)) /\ begun'[g] \in Seq(0 .. Len(Text(g)))
  BY <1>2, <1>5, <1>7 DEF JobsInv
<1> QED BY <1>2, <1>8, <1>9, <1>10 DEF JobsInv

LEMMA JobsNextInv == JobsInv /\ [JobsNext]_<<vars, jobVars>> => JobsInv'
<1> SUFFICES ASSUME JobsInv, [JobsNext]_<<vars, jobVars>> PROVE JobsInv'
  OBVIOUS
<1>1. ASSUME UNCHANGED jobVars PROVE JobsInv'
  BY <1>1 DEF jobVars, JobsInv, Text
<1>2. ASSUME NEW f \in JobFiles, Execute(f) PROVE JobsInv'
  BY <1>2, ExecuteKeeps
<1>3. ASSUME NEW f \in JobFiles, Finish(f) \/ EndsEarly(f) PROVE UNCHANGED jobVars
  BY <1>3 DEF Finish, EndsEarly
<1>4. ParentStep => UNCHANGED jobVars
  BY DEF ParentStep
<1>5. UNCHANGED <<vars, jobVars>> => UNCHANGED jobVars
  OBVIOUS
<1> QED BY <1>1, <1>2, <1>3, <1>4, <1>5 DEF JobsNext

LEMMA JobsInvariance == JobsSpec => []JobsInv
  BY JobsInitInv, JobsNextInv, PTL DEF JobsSpec

(* Type correctness of what each child has read, keeps and wrote: no       *)
(* command is begun or read beyond the file, and no array of seats has a   *)
(* place too few or holds a number that was not given.                     *)
THEOREM JobsTypeCorrect == JobsSpec => []JobsTypeOK
<1>1. ASSUME JobsInv
      PROVE  JobsTypeOK
  <2> SUFFICES ASSUME NEW f \in JobFiles
               PROVE  /\ at[f] \in 0 .. Len(Text(f))
                      /\ begun[f] \in Seq(0 .. Len(Text(f)))
                      /\ \A i \in DOMAIN list[f] :
                           LET e == list[f][i]
                           IN /\ {e.id, e.rows, e.cols, e.reservations} \subseteq Nat
                              /\ e.data \in [Places(e) -> 0 .. e.reservations]
                      /\ \A i \in DOMAIN out[f] :
                           \/ out[f][i] \in [row : Seq(Nat)]
                           \/ out[f][i] \in [event : Nat \cup {Garbled}]
    BY DEF JobsTypeOK
  <2>1. list[f] \in Seq(Events) /\ out[f] \in Seq(OutLines)
    BY <1>1 DEF JobsInv
  <2>2. ASSUME NEW i \in DOMAIN list[f]
        PROVE  LET e == list[f][i]
               IN /\ {e.id, e.rows, e.cols, e.reservations} \subseteq Nat
                  /\ e.data \in [Places(e) -> 0 .. e.reservations]
    <3>1. list[f][i] \in Events
      BY <2>1
    <3> QED BY <3>1, EventIs
  <2>3. ASSUME NEW i \in DOMAIN out[f]
        PROVE  out[f][i] \in [row : Seq(Nat)] \/ out[f][i] \in [event : Nat \cup {Garbled}]
    <3>1. out[f][i] \in OutLines
      BY <2>1
    <3> QED BY <3>1 DEF OutLines
  <2>4. at[f] \in 0 .. Len(Text(f)) /\ begun[f] \in Seq(0 .. Len(Text(f)))
    BY <1>1 DEF JobsInv
  <2> QED BY <2>2, <2>3, <2>4
<1> QED BY <1>1, JobsInvariance, PTL

(* In every event of every child each reservation up to the counter holds  *)
(* a seat, and no seat has a number above it: one that fails, at whichever *)
(* seat, gives back all it took, whatever the job files hold.              *)
THEOREM NumbersAreHeld == JobsSpec => []NumbersHeld
<1>1. ASSUME JobsInv
      PROVE  NumbersHeld
  <2> SUFFICES ASSUME NEW f \in JobFiles, NEW i \in DOMAIN list[f]
               PROVE  NumbersUsed(list[f][i]) = 1 .. list[f][i].reservations
    BY DEF NumbersHeld, NumbersUsed
  <2>1. list[f][i] \in Events
    BY <1>1 DEF JobsInv
  <2> QED BY <2>1, EventIs
<1> QED BY <1>1, JobsInvariance, PTL

-----------------------------------------------------------------------------
(* The store against JobReference.  A list of events, each with its own    *)
(* id, stands for the state of the reference that has these events, and    *)
(* for each seat that is not free whom it was given to.                    *)
At(e, x) == e.data[PlaceOf(e, x)]
Stores == {events \in Seq(Events) :
             \A i, j \in 1 .. Len(events) : events[i].id = events[j].id => i = j}
Known(e) == [id |-> e.id, dims |-> <<e.rows, e.cols>>]
GivenBy(e) == {[id |-> e.id, seat |-> x, number |-> At(e, x)] :
                 x \in {y \in Coords(e) : At(e, y) # 0}}
Given(events) == UNION {GivenBy(events[i]) : i \in 1 .. Len(events)}
StandsFor(events, o) ==
  [events |-> [i \in 1 .. Len(events) |-> Known(events[i])], given |-> Given(events),
   out |-> o]

LEMMA StateFields ==
  ASSUME NEW a, NEW b, NEW c, NEW x, NEW s, s = [events |-> a, given |-> b, out |-> c]
  PROVE  /\ s.events = a /\ s.given = b /\ s.out = c
         /\ [s EXCEPT !.events = x] = [events |-> x, given |-> b, out |-> c]
         /\ [s EXCEPT !.given = x] = [events |-> a, given |-> x, out |-> c]
         /\ [s EXCEPT !.out = x] = [events |-> a, given |-> b, out |-> x]
OBVIOUS

LEMMA SeatsAndPlaces ==
  ASSUME NEW e \in Events
  PROVE  /\ \A x \in Coords(e) : x = <<x[1], x[2]>> /\ PlaceOf(e, x) \in Places(e)
         /\ \A x, y \in Coords(e) : PlaceOf(e, x) = PlaceOf(e, y) => x = y
         /\ \A p \in Places(e) : \E x \in Coords(e) : PlaceOf(e, x) = p
<1>1. e.rows \in Nat /\ e.cols \in Nat
  BY EventIs
<1>2. \A x \in Coords(e) : x = <<x[1], x[2]>>
  BY DEF Coords
<1>3. ASSUME NEW x \in Coords(e)
      PROVE  PlaceOf(e, x) \in Places(e)
  BY <1>1, <1>2, SeatIndexInRange DEF PlaceOf
<1>4. ASSUME NEW x \in Coords(e), NEW y \in Coords(e), PlaceOf(e, x) = PlaceOf(e, y)
      PROVE  x = y
  <2>1. <<x[1], x[2]>> \in Coords(e) /\ <<y[1], y[2]>> \in Coords(e)
    BY <1>2
  <2>2. SeatIndex(e, x[1], x[2]) = SeatIndex(e, y[1], y[2])
    BY <1>4 DEF PlaceOf
  <2> DEFINE a == x[1]
             b == x[2]
             c == y[1]
             d == y[2]
  <2>3. a = c /\ b = d
    <3>1. <<a, b>> \in Coords(e)
      BY <2>1
    <3>2. <<c, d>> \in Coords(e)
      BY <2>1
    <3>3. SeatIndex(e, a, b) = SeatIndex(e, c, d)
      BY <2>2
    <3>4. e.rows \in Nat
      BY <1>1
    <3>5. e.cols \in Nat
      BY <1>1
    <3> HIDE DEF a, b, c, d
    <3> QED BY <3>1, <3>2, <3>3, <3>4, <3>5, SeatIndexInjective, ZenonT(60)
  <2> QED BY <1>2, <2>3
<1>5. ASSUME NEW p \in Places(e)
      PROVE  \E x \in Coords(e) : PlaceOf(e, x) = p
  <2> DEFINE m == e.rows * e.cols
  <2>1. m \in Nat
    BY <1>1
  <2>2. p \in 0 .. (m - 1)
    BY DEF Places
  <2> HIDE DEF m
  <2>3. p + 1 \in 1 .. m /\ (p + 1) - 1 = p
    BY <2>1, <2>2
  <2>4. p + 1 \in 1 .. e.rows * e.cols
    BY <2>3 DEF m
  <2>5. RowMajor(e, p + 1) \in Coords(e)
    BY <1>1, <2>4, RowMajorInPlan
  <2>6. PlaceOf(e, RowMajor(e, p + 1)) = p
    BY <1>1, <2>3, <2>4, RowMajorIndex DEF PlaceOf
  <2> QED BY <2>5, <2>6
<1> QED BY <1>2, <1>3, <1>4, <1>5

(* The events of the reference, and what it knows of one.                  *)
LEMMA SameEvent ==
  ASSUME NEW events \in Stores, NEW o, NEW id
  PROVE  /\ Exists(StandsFor(events, o), id) <=> HasEvent(events, id)
         /\ HasEvent(events, id) =>
              /\ FirstEvent(events, id) \in 1 .. Len(events)
              /\ events[FirstEvent(events, id)] \in Events
              /\ events[FirstEvent(events, id)].id = id
              /\ \A i \in 1 .. Len(events) : events[i].id = id => i = FirstEvent(events, id)
              /\ EventOf(StandsFor(events, o), id) = Known(events[FirstEvent(events, id)])
<1> DEFINE n == Len(events)
           known == [i \in 1 .. n |-> Known(events[i])]
           i0 == FirstEvent(events, id)
<1>1. events \in Seq(Events) /\ n \in Nat /\ DOMAIN events = 1 .. n
  BY LenProperties DEF Stores
<1>2. \A i, j \in 1 .. n : events[i].id = events[j].id => i = j
  BY DEF Stores
<1>3. StandsFor(events, o).events = known
  BY DEF StandsFor
<1>4. \A i \in 1 .. n : known[i].id = events[i].id
  BY DEF Known
<1>5. ToSet(known) = {known[i] : i \in 1 .. n}
  BY DEF ToSet
<1>6. Exists(StandsFor(events, o), id) <=> HasEvent(events, id)
  <2>1. Exists(StandsFor(events, o), id) <=> \E x \in ToSet(known) : x.id = id
    BY <1>3 DEF Exists
  <2> HIDE DEF known
  <2>2. (\E x \in ToSet(known) : x.id = id) <=> \E i \in 1 .. n : known[i].id = id
    BY <1>5
  <2> QED BY <1>1, <1>4, <2>1, <2>2 DEF HasEvent
<1>7. ASSUME HasEvent(events, id)
      PROVE  i0 \in 1 .. n /\ events[i0] \in Events /\ events[i0].id = id
  <2>1. i0 \in 1 .. n /\ events[i0].id = id
    <3> DEFINE First(i) == events[i].id = id /\ \A j \in 1 .. (i - 1) : events[j].id # id
    <3>1. PICK i \in 1 .. n : events[i].id = id
      BY <1>1, <1>7 DEF HasEvent
    <3>2. First(i)
      <4>1. ASSUME NEW j \in 1 .. (i - 1), events[j].id = id
            PROVE  FALSE
        <5>1. j \in 1 .. n /\ j # i
          BY <1>1
        <5> QED BY <1>2, <3>1, <4>1, <5>1
      <4> QED BY <3>1, <4>1
    <3>3. i0 = CHOOSE j \in 1 .. n : First(j)
      BY <1>1 DEF FirstEvent
    <3> HIDE DEF First, i0
    <3>4. i0 \in 1 .. n /\ First(i0)
      BY <3>2, <3>3
    <3> QED BY <3>4 DEF First
  <2> HIDE DEF i0, n
  <2> QED BY <1>1, <2>1, ElementOfSeq DEF n
<1>8. ASSUME HasEvent(events, id)
      PROVE  EventOf(StandsFor(events, o), id) = Known(events[i0])
  <2>1. known[i0] \in ToSet(known) /\ known[i0].id = id /\ known[i0] = Known(events[i0])
    BY <1>4, <1>5, <1>7, <1>8
  <2>2. ASSUME NEW x \in ToSet(known), x.id = id
        PROVE  x = Known(events[i0])
    <3>1. PICK i \in 1 .. n : x = known[i]
      BY <1>5
    <3>2. i = i0
      BY <1>2, <1>4, <1>7, <1>8, <2>2, <3>1
    <3> QED BY <2>1, <3>1, <3>2
  <2>3. EventOf(StandsFor(events, o), id) = CHOOSE x \in ToSet(known) : x.id = id
    BY <1>3 DEF EventOf
  <2> HIDE DEF known, i0
  <2> QED BY <2>1, <2>2, <2>3
<1> QED BY <1>2, <1>6, <1>7, <1>8

(* The seats that it has given, and to whom.                               *)
LEMMA SameGiven ==
  ASSUME NEW events \in Stores, NEW o, NEW id, HasEvent(events, id)
  PROVE  GivenOf(StandsFor(events, o), id) = GivenBy(events[FirstEvent(events, id)])
<1> DEFINE i0 == FirstEvent(events, id)
           G == Given(events)
<1>1. /\ i0 \in 1 .. Len(events) /\ events[i0].id = id
      /\ \A i \in 1 .. Len(events) : events[i].id = id => i = i0
  BY SameEvent
<1>2. GivenOf(StandsFor(events, o), id) = {g \in G : g.id = id}
  BY DEF GivenOf, StandsFor
<1>3. \A i \in 1 .. Len(events) : \A g \in GivenBy(events[i]) : g.id = events[i].id
  BY DEF GivenBy
<1> HIDE DEF i0
<1>4. ASSUME NEW g \in G, g.id = id
      PROVE  g \in GivenBy(events[i0])
  <2>1. PICK i \in 1 .. Len(events) : g \in GivenBy(events[i])
    BY DEF Given
  <2>2. i = i0
    BY <1>1, <1>3, <1>4, <2>1
  <2> QED BY <2>1, <2>2
<1>5. ASSUME NEW g \in GivenBy(events[i0])
      PROVE  g \in G /\ g.id = id
  BY <1>1, <1>3 DEF Given
<1> QED BY <1>2, <1>4, <1>5 DEF i0

LEMMA WhatIsGiven ==
  ASSUME NEW e \in Events
  PROVE  /\ {g.seat : g \in GivenBy(e)} = {x \in Coords(e) : At(e, x) # 0}
         /\ {g.number : g \in GivenBy(e)} = 1 .. e.reservations
         /\ \A g \in GivenBy(e) : g.number = At(e, g.seat)
<1> DEFINE X == {x \in Coords(e) : At(e, x) # 0}
           Gift(x) == [id |-> e.id, seat |-> x, number |-> At(e, x)]
<1>1. GivenBy(e) = {Gift(x) : x \in X}
  BY DEF GivenBy
<1>2. \A x : Gift(x).seat = x /\ Gift(x).number = At(e, x)
  OBVIOUS
<1> HIDE DEF Gift
<1>3. {g.seat : g \in GivenBy(e)} = X
  <2> HIDE DEF X
  <2> QED BY <1>1, <1>2
<1>4. {g.number : g \in GivenBy(e)} = {At(e, x) : x \in X}
  <2> HIDE DEF X
  <2> QED BY <1>1, <1>2
<1>5. {At(e, x) : x \in X} = NumbersUsed(e)
  <2>1. ASSUME NEW x \in X
        PROVE  At(e, x) \in NumbersUsed(e)
    <3>1. PlaceOf(e, x) \in Places(e)
      BY SeatsAndPlaces
    <3> QED BY <3>1 DEF NumbersUsed, At
  <2>2. ASSUME NEW n \in NumbersUsed(e)
        PROVE  \E x \in X : n = At(e, x)
    <3>1. PICK p \in Places(e) : n = e.data[p] /\ n # 0
      BY DEF NumbersUsed
    <3>2. PICK x \in Coords(e) : PlaceOf(e, x) = p
      BY SeatsAndPlaces
    <3>3. At(e, x) = n
      BY <3>1, <3>2 DEF At
    <3> QED BY <3>1, <3>3
  <2> HIDE DEF X
  <2> QED BY <2>1, <2>2
<1>6. NumbersUsed(e) = 1 .. e.reservations
  BY EventIs
<1> QED BY <1>1, <1>2, <1>3, <1>4, <1>5, <1>6

LEMMA SameHolder ==
  ASSUME NEW events \in Stores, NEW o, NEW id, HasEvent(events, id),
         NEW x \in Coords(events[FirstEvent(events, id)])
  PROVE  Holder(StandsFor(events, o), id, x) = At(events[FirstEvent(events, id)], x)
<1> DEFINE e == events[FirstEvent(events, id)]
           s == StandsFor(events, o)
<1>1. e \in Events
  BY SameEvent
<1>2. GivenOf(s, id) = GivenBy(e)
  BY SameGiven
<1>3. SeatsGiven(s, id) = {g.seat : g \in GivenBy(e)}
  BY <1>2 DEF SeatsGiven
<1>4. Holder(s, id, x) =
        IF x \in SeatsGiven(s, id) THEN (CHOOSE g \in GivenBy(e) : g.seat = x).number ELSE 0
  BY <1>2 DEF Holder
<1> HIDE DEF e, s
<1>5. /\ {g.seat : g \in GivenBy(e)} = {y \in Coords(e) : At(e, y) # 0}
      /\ \A g \in GivenBy(e) : g.number = At(e, g.seat)
  BY <1>1, WhatIsGiven
<1>6. CASE At(e, x) # 0
  <2>1. PICK g \in GivenBy(e) : g.seat = x
    BY <1>5, <1>6 DEF e
  <2> DEFINE c == CHOOSE h \in GivenBy(e) : h.seat = x
  <2>2. c \in GivenBy(e) /\ c.seat = x
    BY <2>1
  <2>3. x \in SeatsGiven(s, id) /\ c.number = At(e, x)
    BY <1>3, <1>5, <2>2
  <2> QED BY <1>4, <2>3 DEF e, s
<1>7. CASE At(e, x) = 0
  BY <1>3, <1>4, <1>5, <1>7 DEF e, s
<1> QED BY <1>6, <1>7

(* SHOW and LIST.                                                          *)
LEMMA SameRows ==
  ASSUME NEW events \in Stores, NEW o, NEW id, HasEvent(events, id)
  PROVE  Rows(StandsFor(events, o), id) = ems_show(events, id)
<1> DEFINE e == events[FirstEvent(events, id)]
           s == StandsFor(events, o)
           Row(r) == [c \in 1 .. e.cols |-> e.data[SeatIndex(e, r, c)]]
           RowOf(r) == [c \in 1 .. e.cols |-> Holder(s, id, <<r, c>>)]
<1>1. EventOf(s, id).dims[1] = e.rows /\ EventOf(s, id).dims[2] = e.cols
  BY SameEvent DEF Known
<1>2. Rows(s, id) = [r \in 1 .. e.rows |-> [row |-> RowOf(r)]]
  <2> HIDE DEF e, s
  <2> QED BY <1>1 DEF Rows, s
<1>3. ems_show(events, id) = [r \in 1 .. e.rows |-> [row |-> Row(r)]]
  BY DEF ems_show
<1>4. ASSUME NEW r \in 1 .. e.rows
      PROVE  RowOf(r) = Row(r)
  <2>1. ASSUME NEW c \in 1 .. e.cols
        PROVE  Holder(s, id, <<r, c>>) = e.data[SeatIndex(e, r, c)]
    <3>1. <<r, c>> \in Coords(e)
      BY DEF Coords
    <3>2. Holder(s, id, <<r, c>>) = At(e, <<r, c>>)
      BY <3>1, SameHolder
    <3> QED BY <3>2 DEF At, PlaceOf
  <2> HIDE DEF e, s
  <2> QED BY <2>1
<1> HIDE DEF Row, RowOf, e, s
<1> QED BY <1>2, <1>3, <1>4 DEF s

SameLines(a, b) == Len(a) = Len(b) /\ \A i \in 1 .. Len(a) : SameLine(a[i], b[i])

LEMMA SameIds ==
  ASSUME NEW events \in Stores, NEW o
  PROVE  /\ Ids(StandsFor(events, o)) \in Seq(OutLines)
         /\ SameLines(Ids(StandsFor(events, o)), ems_list_events(events))
<1> DEFINE n == Len(events)
           ids == [i \in 1 .. n |-> [event |-> events[i].id]]
           s == StandsFor(events, o)
           listed == ems_list_events(events)
<1>1. events \in Seq(Events) /\ n \in Nat /\ DOMAIN events = 1 .. n
  BY LenProperties DEF Stores
<1>2. \A i \in 1 .. n : events[i].id \in Nat
  <2>1. \A i \in 1 .. n : events[i] \in Events
    BY <1>1, ElementOfSeq
  <2> QED BY <2>1, EventIs
<1>3. Ids(s) = ids
  <2>1. DOMAIN s.events = 1 .. n /\ \A i \in 1 .. n : s.events[i].id = events[i].id
    BY DEF StandsFor, Known
  <2> HIDE DEF s, n
  <2> QED BY <2>1 DEF Ids
<1>4. listed = [i \in 1 .. n |-> [event |-> IF events[i].id < 1000 THEN events[i].id ELSE Garbled]]
  BY <1>1 DEF ems_list_events
<1> HIDE DEF n
<1>5. ids \in Seq(OutLines) /\ Len(ids) = n
  <2>1. ids \in [1 .. n -> OutLines]
    BY <1>2 DEF OutLines
  <2> HIDE DEF ids
  <2> QED BY <1>1, <2>1, SeqDef, LenProperties
<1>6. Len(listed) = n
  BY <1>1, <1>4
<1>7. ASSUME NEW i \in 1 .. n
      PROVE  SameLine(ids[i], listed[i])
  <2>1. ids[i] = [event |-> events[i].id]
    OBVIOUS
  <2>2. CASE events[i].id < 1000
    BY <1>4, <2>1, <2>2 DEF SameLine
  <2>3. CASE ~ (events[i].id < 1000)
    <3>1. events[i].id > 999
      BY <1>2, <2>3
    <3>2. listed[i] = [event |-> Garbled]
      BY <1>4, <2>3
    <3> QED BY <2>1, <3>1, <3>2 DEF SameLine
  <2> QED BY <2>2, <2>3
<1> HIDE DEF ids, listed
<1> QED BY <1>3, <1>5, <1>6, <1>7 DEF SameLines, s, listed

-----------------------------------------------------------------------------
(* RESERVE.  A reservation is refused nowhere when it is possible.         *)
LEMMA PairIs ==
  ASSUME NEW seats \in SeatLists, InPairs(seats), NEW k \in 1 .. Len(seats)
  PROVE  /\ seats[k] = <<seats[k][1], seats[k][2]>>
         /\ seats[k][1] \in Nat /\ seats[k][2] \in Nat
<1>1. seats[k] \in Seq(Nat) /\ Len(seats[k]) = 2
  BY DEF SeatLists, InPairs
<1> QED BY <1>1

LEMMA SeatsInPlan ==
  ASSUME NEW e \in Events, NEW seats \in SeatLists, InPairs(seats), NEW k \in 1 .. Len(seats)
  PROVE  InBounds(e, seats[k][1], seats[k][2]) <=> seats[k] \in Coords(e)
<1>1. e.rows \in Nat /\ e.cols \in Nat
  BY EventIs
<1>2. /\ seats[k] = <<seats[k][1], seats[k][2]>>
      /\ seats[k][1] \in Nat /\ seats[k][2] \in Nat
  BY PairIs
<1> DEFINE r == seats[k][1]
           c == seats[k][2]
<1>3. InBounds(e, r, c) <=> r \in 1 .. e.rows /\ c \in 1 .. e.cols
  BY <1>1, <1>2 DEF InBounds
<1>4. <<r, c>> \in Coords(e) <=> r \in 1 .. e.rows /\ c \in 1 .. e.cols
  BY DEF Coords
<1> HIDE DEF r, c
<1>5. seats[k] = <<r, c>>
  BY <1>2 DEF r, c
<1> QED BY <1>3, <1>4, <1>5 DEF r, c

LEMMA AllAccepted ==
  ASSUME NEW e \in Events, NEW seats \in SeatLists, InPairs(seats)
  PROVE  Accepted(e, seats) = Len(seats) <=>
           /\ \A k \in 1 .. Len(seats) : seats[k] \in Coords(e) /\ At(e, seats[k]) = 0
           /\ IsInjective(seats)
<1> DEFINE n == Len(seats)
<1>1. n \in Nat /\ DOMAIN seats = 1 .. n
  BY LenProperties DEF SeatLists
<1>2. ASSUME Accepted(e, seats) = n
      PROVE  \A k \in 1 .. n : ~ Refused(e, seats, k)
  BY <1>2, AcceptedIs
<1>3. ASSUME \A k \in 1 .. n : ~ Refused(e, seats, k)
      PROVE  Accepted(e, seats) = n
  <2> DEFINE Good(m) == /\ \A k \in 1 .. m : ~ Refused(e, seats, k)
                        /\ m = n \/ Refused(e, seats, m + 1)
  <2>1. n \in 0 .. n /\ Good(n)
    BY <1>1, <1>3
  <2>2. ASSUME NEW m \in 0 .. n, Good(m)
        PROVE  m = n
    <3>1. m # n => m + 1 \in 1 .. n
      <4> HIDE DEF n
      <4> QED BY <1>1
    <3> QED BY <1>3, <2>2, <3>1
  <2>3. Accepted(e, seats) = CHOOSE m \in 0 .. n : Good(m)
    BY DEF Accepted
  <2> HIDE DEF Good
  <2> QED BY <2>1, <2>2, <2>3
<1>4. \A k \in 1 .. n : InBounds(e, seats[k][1], seats[k][2]) <=> seats[k] \in Coords(e)
  BY SeatsInPlan
<1> HIDE DEF n
<1>5. ASSUME \A k \in 1 .. n : ~ Refused(e, seats, k)
      PROVE  /\ \A k \in 1 .. n : seats[k] \in Coords(e) /\ At(e, seats[k]) = 0
             /\ IsInjective(seats)
  <2>1. \A k \in 1 .. n : seats[k] \in Coords(e) /\ At(e, seats[k]) = 0
    BY <1>4, <1>5 DEF Refused, At
  <2>2. ASSUME NEW j \in 1 .. n, NEW k \in 1 .. n, seats[j] = seats[k]
        PROVE  j = k
    <3>1. ASSUME NEW a \in 1 .. n, NEW b \in 1 .. n, a < b
          PROVE  seats[a] # seats[b]
      <4>1. a \in 1 .. (b - 1)
        BY <1>1, <3>1
      <4> QED BY <1>5, <4>1 DEF Refused
    <3>2. j < k \/ j = k \/ k < j
      BY <1>1
    <3> QED BY <2>2, <3>1, <3>2
  <2>3. IsInjective(seats)
    BY <1>1, <2>2 DEF IsInjective
  <2> QED BY <2>1, <2>3
<1>6. ASSUME \A k \in 1 .. n : seats[k] \in Coords(e) /\ At(e, seats[k]) = 0,
             IsInjective(seats)
      PROVE  \A k \in 1 .. n : ~ Refused(e, seats, k)
  <2> SUFFICES ASSUME NEW k \in 1 .. n, NEW j \in 1 .. (k - 1),
                      PlaceOf(e, seats[j]) = PlaceOf(e, seats[k])
               PROVE  FALSE
    BY <1>4, <1>6 DEF Refused, At
  <2>1. j \in 1 .. n /\ j # k
    BY <1>1
  <2>2. seats[j] = seats[k]
    BY <1>6, <2>1, SeatsAndPlaces
  <2> QED BY <1>1, <1>6, <2>1, <2>2 DEF IsInjective
<1> QED BY <1>2, <1>3, <1>5, <1>6 DEF n

LEMMA SamePossible ==
  ASSUME NEW events \in Stores, NEW o, NEW id, HasEvent(events, id),
         NEW seats \in SeatLists, InPairs(seats)
  PROVE  Possible(StandsFor(events, o), id, seats) <=>
           Accepted(events[FirstEvent(events, id)], seats) = Len(seats)
<1> DEFINE e == events[FirstEvent(events, id)]
           s == StandsFor(events, o)
<1>1. e \in Events /\ Exists(s, id)
      /\ EventOf(s, id).dims[1] = e.rows /\ EventOf(s, id).dims[2] = e.cols
  BY SameEvent DEF Known
<1>2. GivenOf(s, id) = GivenBy(e)
  BY SameGiven
<1> HIDE DEF e, s
<1>3. Plan(s, id) = Coords(e)
  BY <1>1 DEF Plan, Coords
<1>4. SeatsGiven(s, id) = {x \in Coords(e) : At(e, x) # 0}
  BY <1>1, <1>2, WhatIsGiven DEF SeatsGiven
<1>5. Plan(s, id) \ SeatsGiven(s, id) = {x \in Coords(e) : At(e, x) = 0}
  BY <1>3, <1>4
<1>6. ToSet(seats) = {seats[k] : k \in 1 .. Len(seats)}
  <2>1. DOMAIN seats = 1 .. Len(seats)
    BY LenProperties DEF SeatLists
  <2> QED BY <2>1 DEF ToSet
<1>7. ToSet(seats) \subseteq Plan(s, id) \ SeatsGiven(s, id) <=>
        \A k \in 1 .. Len(seats) : seats[k] \in Coords(e) /\ At(e, seats[k]) = 0
  BY <1>5, <1>6
<1>8. Possible(s, id, seats) <=>
        /\ \A k \in 1 .. Len(seats) : seats[k] \in Coords(e) /\ At(e, seats[k]) = 0
        /\ IsInjective(seats)
  BY <1>1, <1>7 DEF Possible
<1> QED BY <1>1, <1>8, AllAccepted DEF e, s

LEMMA MarksGive ==
  ASSUME NEW e \in Events, NEW seats \in SeatLists, InPairs(seats),
         \A k \in 1 .. Len(seats) : seats[k] \in Coords(e) /\ At(e, seats[k]) = 0,
         NEW places, places = {PlaceOf(e, seats[k]) : k \in 1 .. Len(seats)},
         NEW m, m = Marks(e, places, e.reservations + 1, 1)
  PROVE  /\ m.id = e.id /\ Known(m) = Known(e)
         /\ GivenBy(m) = GivenBy(e) \cup
              {[id |-> e.id, seat |-> x, number |-> e.reservations + 1] : x \in ToSet(seats)}
<1> DEFINE n == e.reservations + 1
           a == [p \in DOMAIN e.data |-> IF p \in places THEN n ELSE e.data[p]]
           S == ToSet(seats)
           Gift(x, number) == [id |-> e.id, seat |-> x, number |-> number]
<1>1. /\ e \in EventRecords /\ e.data \in [Places(e) -> Nat] /\ n \in Nat /\ n # 0
  BY EventIs DEF Events
<1>2. m = [e EXCEPT !.reservations = n, !.data = a]
  BY DEF Marks
<1>3. \A p \in Places(e) : a[p] = IF p \in places THEN n ELSE e.data[p]
  BY <1>1
<1> HIDE DEF a, n
<1>4. m.id = e.id /\ m.rows = e.rows /\ m.cols = e.cols /\ m.data = a
  BY <1>1, <1>2 DEF EventRecords
<1>5. Known(m) = Known(e) /\ Coords(m) = Coords(e)
  BY <1>4 DEF Known, Coords
<1>6. \A x : PlaceOf(m, x) = PlaceOf(e, x)
  BY <1>4 DEF PlaceOf, SeatIndex
<1>7. S = {seats[k] : k \in 1 .. Len(seats)}
  <2>1. DOMAIN seats = 1 .. Len(seats)
    BY LenProperties DEF SeatLists
  <2> QED BY <2>1 DEF ToSet
<1> HIDE DEF S
<1>8. ASSUME NEW x \in Coords(e)
      PROVE  At(m, x) = IF x \in S THEN n ELSE At(e, x)
  <2>1. PlaceOf(e, x) \in Places(e)
    BY SeatsAndPlaces
  <2>2. PlaceOf(e, x) \in places <=> x \in S
    <3>1. x \in S => PlaceOf(e, x) \in places
      BY <1>7
    <3>2. ASSUME PlaceOf(e, x) \in places
          PROVE  x \in S
      <4>1. PICK k \in 1 .. Len(seats) : PlaceOf(e, x) = PlaceOf(e, seats[k])
        BY <3>2
      <4>2. x = seats[k]
        BY <4>1, SeatsAndPlaces
      <4> QED BY <1>7, <4>2
    <3> QED BY <3>1, <3>2
  <2>3. At(m, x) = a[PlaceOf(e, x)]
    BY <1>4, <1>6 DEF At
  <2> QED BY <1>3, <2>1, <2>2, <2>3 DEF At
<1>9. \A x \in S : x \in Coords(e) /\ At(e, x) = 0
  BY <1>7
<1>10. GivenBy(m) = {Gift(x, At(m, x)) : x \in {y \in Coords(e) : At(m, y) # 0}}
  BY <1>4, <1>5 DEF GivenBy
<1>11. GivenBy(e) = {Gift(x, At(e, x)) : x \in {y \in Coords(e) : At(e, y) # 0}}
  BY DEF GivenBy
<1> HIDE DEF Gift
<1>12. ASSUME NEW g \in GivenBy(m)
       PROVE  g \in GivenBy(e) \cup {Gift(x, n) : x \in S}
  <2>1. PICK x \in Coords(e) : At(m, x) # 0 /\ g = Gift(x, At(m, x))
    BY <1>10
  <2> QED BY <1>8, <1>11, <2>1
<1>13. ASSUME NEW g \in GivenBy(e)
       PROVE  g \in GivenBy(m)
  <2>1. PICK x \in Coords(e) : At(e, x) # 0 /\ g = Gift(x, At(e, x))
    BY <1>11
  <2>2. At(m, x) = At(e, x)
    BY <1>8, <1>9, <2>1
  <2> QED BY <1>10, <2>1, <2>2
<1>14. ASSUME NEW x \in S
       PROVE  Gift(x, n) \in GivenBy(m)
  <2>1. At(m, x) = n /\ x \in Coords(e)
    BY <1>8, <1>9
  <2> QED BY <1>1, <1>10, <2>1
<1>15. GivenBy(m) = GivenBy(e) \cup {Gift(x, n) : x \in S}
  BY <1>12, <1>13, <1>14
<1> QED BY <1>4, <1>5, <1>15 DEF Gift, S, n

(* An event of the list gets other seats and keeps what is known of it.    *)
LEMMA ReplaceInList ==
  ASSUME NEW events \in Stores, NEW o, NEW i \in 1 .. Len(events), NEW m \in Events,
         m.id = events[i].id, Known(m) = Known(events[i]), NEW more,
         GivenBy(m) = GivenBy(events[i]) \cup more
  PROVE  /\ [events EXCEPT ![i] = m] \in Stores
         /\ StandsFor([events EXCEPT ![i] = m], o) =
              [StandsFor(events, o) EXCEPT !.given = @ \cup more]
<1> DEFINE n == Len(events)
           after == [events EXCEPT ![i] = m]
           known == [j \in 1 .. n |-> Known(events[j])]
<1>1. /\ events \in Seq(Events) /\ n \in Nat /\ DOMAIN events = 1 .. n
      /\ \A j, k \in 1 .. n : events[j].id = events[k].id => j = k
  BY LenProperties DEF Stores
<1>2. after \in Seq(Events) /\ Len(after) = n
  BY <1>1, ExceptSeq
<1>3. \A j \in 1 .. n : after[j] = IF j = i THEN m ELSE events[j]
  BY <1>1
<1> HIDE DEF after, n
<1>4. after \in Stores
  <2>1. \A j \in 1 .. n : after[j].id = events[j].id
    BY <1>3
  <2> QED BY <1>1, <1>2, <2>1 DEF Stores
<1>5. [j \in 1 .. n |-> Known(after[j])] = known
  BY <1>3
<1>6. Given(after) = Given(events) \cup more
  <2>1. Given(after) = UNION {GivenBy(after[j]) : j \in 1 .. n}
    BY <1>2 DEF Given
  <2>2. Given(events) = UNION {GivenBy(events[j]) : j \in 1 .. n}
    BY DEF Given, n
  <2>3. i \in 1 .. n
    BY DEF n
  <2>4. \A j \in 1 .. n : j # i => GivenBy(after[j]) = GivenBy(events[j])
    BY <1>3
  <2>5. GivenBy(after[i]) = GivenBy(events[i]) \cup more
    BY <1>3, <2>3
  <2> QED BY <2>1, <2>2, <2>3, <2>4, <2>5
<1>7. StandsFor(after, o) = [events |-> known, given |-> Given(events) \cup more, out |-> o]
  BY <1>2, <1>5, <1>6 DEF StandsFor
<1>8. StandsFor(events, o) = [events |-> known, given |-> Given(events), out |-> o]
  BY DEF StandsFor, n
<1> HIDE DEF known
<1>9. StandsFor(after, o) = [StandsFor(events, o) EXCEPT !.given = @ \cup more]
  <2> DEFINE s == StandsFor(events, o)
             g == Given(events)
             x == g \cup more
  <2>1. s = [events |-> known, given |-> g, out |-> o]
    BY <1>8
  <2> HIDE DEF s, g, x
  <2>2. s.given = g /\ [s EXCEPT !.given = x] = [events |-> known, given |-> x, out |-> o]
    BY <2>1, StateFields
  <2>3. [s EXCEPT !.given = s.given \cup more] = [s EXCEPT !.given = x]
    BY <2>2 DEF x
  <2> QED BY <1>7, <2>2, <2>3 DEF s, g, x
<1> QED BY <1>4, <1>9 DEF after

LEMMA SameReserve ==
  ASSUME NEW events \in Stores, NEW o, NEW id, NEW seats \in SeatLists,
         InPairs(seats), Len(seats) >= 1
  PROVE  /\ ems_reserve(events, id, seats) \in Stores
         /\ Possible(StandsFor(events, o), id, seats) =>
              StandsFor(ems_reserve(events, id, seats), o) =
                Give(StandsFor(events, o), id, seats)
         /\ ~ Possible(StandsFor(events, o), id, seats) =>
              ems_reserve(events, id, seats) = events
<1> DEFINE s == StandsFor(events, o)
           i == FirstEvent(events, id)
           e == events[i]
           n == Accepted(e, seats)
           places == {PlaceOf(e, seats[k]) : k \in 1 .. n}
           m == Marks(e, places, e.reservations + 1, 1)
           x == IF n = Len(seats) THEN m ELSE Undo(m, places)
<1>1. CASE ~ HasEvent(events, id)
  <2>1. ~ Possible(s, id, seats)
    BY <1>1, SameEvent DEF Possible
  <2> QED BY <1>1, <2>1 DEF ems_reserve
<1>2. CASE HasEvent(events, id)
  <2>1. ems_reserve(events, id, seats) = [events EXCEPT ![i] = x]
    BY <1>2 DEF ems_reserve
  <2>2. i \in 1 .. Len(events) /\ e \in Events /\ e.id = id
    BY <1>2, SameEvent
  <2>3. Possible(s, id, seats) <=> n = Len(seats)
    BY <1>2, SamePossible
  <2>4. GivenOf(s, id) = GivenBy(e)
    BY <1>2, SameGiven
  <2>5. events \in Seq(Events)
    BY DEF Stores
  <2> HIDE DEF s, i, e
  <2>6. n \in 0 .. Len(seats) /\ Len(seats) \in Nat
    BY AcceptedIs DEF SeatLists
  <2>7. \A k \in 1 .. n : PlaceOf(e, seats[k]) \in Places(e) /\ e.data[PlaceOf(e, seats[k])] = 0
    BY <2>2, MarkedWereFree
  <2>8. places \in SUBSET Places(e) /\ \A p \in places : e.data[p] = 0
    BY <2>7
  <2>9. CASE n = Len(seats)
    <3> DEFINE more == {[id |-> e.id, seat |-> y, number |-> e.reservations + 1] :
                          y \in ToSet(seats)}
    <3>1. \A k \in 1 .. Len(seats) : seats[k] \in Coords(e) /\ At(e, seats[k]) = 0
      BY <2>2, <2>9, AllAccepted
    <3>2. places = {PlaceOf(e, seats[k]) : k \in 1 .. Len(seats)}
      BY <2>9
    <3>3. places # {}
      <4>1. 1 \in 1 .. n
        BY <2>6, <2>9
      <4> QED BY <4>1
    <3>4. x = m
      BY <2>9
    <3> HIDE DEF places, n
    <3>5. m \in Events
      BY <2>2, <2>8, <3>3, MarksIsEvent
    <3>6. m.id = e.id /\ Known(m) = Known(e) /\ GivenBy(m) = GivenBy(e) \cup more
      BY <2>2, <3>1, <3>2, MarksGive
    <3> HIDE DEF m, more, x
    <3>7. /\ [events EXCEPT ![i] = m] \in Stores
          /\ StandsFor([events EXCEPT ![i] = m], o) = [s EXCEPT !.given = @ \cup more]
      BY <2>2, <3>5, <3>6, ReplaceInList, SMTT(60) DEF e, s
    <3>8. Cardinality(NumbersGiven(s, id)) = e.reservations
      <4>1. NumbersGiven(s, id) = 1 .. e.reservations
        BY <2>2, <2>4, WhatIsGiven DEF NumbersGiven
      <4>2. e.reservations \in Nat
        BY <2>2, EventIs
      <4>3. Cardinality(1 .. e.reservations) = e.reservations
        BY <4>2, FS_Interval
      <4> QED BY <4>1, <4>3
    <3>9. Give(s, id, seats) = [s EXCEPT !.given = @ \cup more]
      BY <2>2, <3>8 DEF Give, more
    <3> QED BY <2>1, <2>3, <2>9, <3>4, <3>7, <3>9 DEF s
  <2>10. CASE n # Len(seats)
    <3> HIDE DEF places, n
    <3>1. Undo(m, places) = e
      BY <2>2, <2>8, UndoneIsUnchanged
    <3> HIDE DEF m
    <3>2. [events EXCEPT ![i] = e] = events
      BY <2>2, <2>5 DEF e
    <3> QED BY <2>1, <2>3, <2>10, <3>1, <3>2 DEF s
  <2> QED BY <2>9, <2>10
<1> QED BY <1>1, <1>2

-----------------------------------------------------------------------------
(* CREATE.                                                                 *)
LEMMA SameCreate ==
  ASSUME NEW events \in Stores, NEW o, NEW id \in Nat, NEW dims \in Nat \X Nat
  PROVE  /\ ems_create(events, id, dims) \in Stores
         /\ HasEvent(events, id) => ems_create(events, id, dims) = events
         /\ ~ HasEvent(events, id) =>
              StandsFor(ems_create(events, id, dims), o) =
                [StandsFor(events, o) EXCEPT !.events = Append(@, [id |-> id, dims |-> dims])]
<1> DEFINE n == Len(events)
           e == NewEvent(id, dims)
           after == Append(events, e)
           known == [j \in 1 .. n |-> Known(events[j])]
           knownAfter == [j \in 1 .. (n + 1) |-> Known(after[j])]
<1>1. CASE HasEvent(events, id)
  BY <1>1 DEF ems_create
<1>2. CASE ~ HasEvent(events, id)
  <2>1. ems_create(events, id, dims) = after
    BY <1>2 DEF ems_create
  <2>2. /\ events \in Seq(Events) /\ n \in Nat /\ DOMAIN events = 1 .. n
        /\ \A j, k \in 1 .. n : events[j].id = events[k].id => j = k
    BY LenProperties DEF Stores
  <2>3. \A j \in 1 .. n : events[j].id # id
    BY <1>2, <2>2 DEF HasEvent
  <2>4. dims[1] \in Nat /\ dims[2] \in Nat /\ dims = <<dims[1], dims[2]>>
    OBVIOUS
  <2>5. e \in Events
    BY <2>4, NewIsEvent
  <2>6. e.id = id /\ Known(e) = [id |-> id, dims |-> dims]
    BY <2>4 DEF NewEvent, Known
  <2>7. GivenBy(e) = {}
    <3>1. \A p \in Places(e) : e.data[p] = 0
      BY DEF NewEvent, Places
    <3> HIDE DEF e
    <3>2. \A x \in Coords(e) : At(e, x) = 0
      BY <2>5, <3>1, SeatsAndPlaces DEF At
    <3> QED BY <3>2 DEF GivenBy
  <2> HIDE DEF e, n
  <2>8. /\ after \in Seq(Events) /\ Len(after) = n + 1 /\ after[n + 1] = e
        /\ \A j \in 1 .. n : after[j] = events[j]
    BY <2>2, <2>5, AppendProperties DEF n
  <2> HIDE DEF after
  <2>9. after \in Stores
    <3>1. ASSUME NEW j \in 1 .. (n + 1), NEW k \in 1 .. (n + 1), after[j].id = after[k].id
          PROVE  j = k
      <4>1. (j \in 1 .. n \/ j = n + 1) /\ (k \in 1 .. n \/ k = n + 1)
        BY <2>2
      <4> QED BY <2>2, <2>3, <2>6, <2>8, <3>1, <4>1
    <3> QED BY <2>8, <3>1 DEF Stores
  <2>10. Given(after) = Given(events)
    <3>1. Given(after) = UNION {GivenBy(after[j]) : j \in 1 .. (n + 1)}
      BY <2>8 DEF Given
    <3>2. Given(events) = UNION {GivenBy(events[j]) : j \in 1 .. n}
      BY DEF Given, n
    <3>3. 1 .. (n + 1) = (1 .. n) \cup {n + 1}
      BY <2>2
    <3> QED BY <2>7, <2>8, <3>1, <3>2, <3>3
  <2>11. knownAfter = Append(known, [id |-> id, dims |-> dims])
    <3>1. \A j \in 1 .. n : knownAfter[j] = known[j]
      BY <2>2, <2>8
    <3>2. knownAfter[n + 1] = [id |-> id, dims |-> dims]
      BY <2>2, <2>6, <2>8
    <3>3. /\ known = [j \in 1 .. n |-> Known(events[j])]
          /\ knownAfter = [j \in 1 .. (n + 1) |-> Known(after[j])]
      OBVIOUS
    <3> DEFINE new == [id |-> id, dims |-> dims]
    <3>4. knownAfter[n + 1] = new
      BY <3>2
    <3> HIDE DEF known, knownAfter, new
    <3>5. knownAfter = Append(known, new)
      BY <2>2, <2>8, <3>1, <3>3, <3>4, AppendIs
    <3> QED BY <3>5 DEF new
  <2>12. StandsFor(after, o) = [events |-> knownAfter, given |-> Given(after), out |-> o]
    BY <2>8 DEF StandsFor
  <2>13. StandsFor(events, o) = [events |-> known, given |-> Given(events), out |-> o]
    BY DEF StandsFor, n
  <2> HIDE DEF known, knownAfter
  <2>14. StandsFor(after, o) =
           [StandsFor(events, o) EXCEPT !.events = Append(@, [id |-> id, dims |-> dims])]
    <3> DEFINE s == StandsFor(events, o)
               g == Given(events)
               new == [id |-> id, dims |-> dims]
               x == Append(known, new)
    <3>1. s = [events |-> known, given |-> g, out |-> o]
      BY <2>13
    <3> HIDE DEF s, g, x
    <3>2. s.events = known /\ [s EXCEPT !.events = x] = [events |-> x, given |-> g, out |-> o]
      BY <3>1, StateFields
    <3> HIDE DEF new
    <3>3. [s EXCEPT !.events = Append(s.events, new)] = [s EXCEPT !.events = x]
      BY <3>2 DEF x
    <3> QED BY <2>10, <2>11, <2>12, <3>2, <3>3 DEF s, g, x, new
  <2> QED BY <1>2, <2>1, <2>9, <2>14
<1> QED BY <1>1, <1>2

-----------------------------------------------------------------------------
(* Each command does what the reference says, to what is kept and to what  *)
(* is written, up to the ids that LIST garbles.                            *)
THEOREM CommandDoesAsAsked ==
  ASSUME NEW events \in Stores, NEW o \in Seq(OutLines), NEW cmd, ArgumentsOK(cmd)
  PROVE  /\ ListAfter(events, cmd) \in Stores
         /\ \E more \in Seq(OutLines) :
              /\ Do(StandsFor(events, o), cmd) = StandsFor(ListAfter(events, cmd), o \o more)
              /\ SameLines(more, Written(events, cmd))
<1> DEFINE s == StandsFor(events, o)
<1>1. events \in Seq(Events) /\ <<>> \in Seq(OutLines) /\ o \o <<>> = o
  BY EmptySeq, ConcatEmptySeq DEF Stores
<1>2. \A x : SameLines(x, x)
  BY DEF SameLines, SameLine
<1>3. ASSUME NEW more \in Seq(OutLines)
      PROVE  [s EXCEPT !.out = @ \o more] = StandsFor(events, o \o more)
  <2> DEFINE known == [i \in 1 .. Len(events) |-> Known(events[i])]
             g == Given(events)
             x == o \o more
  <2>1. s = [events |-> known, given |-> g, out |-> o]
    BY DEF StandsFor
  <2>2. StandsFor(events, x) = [events |-> known, given |-> g, out |-> x]
    BY DEF StandsFor
  <2> HIDE DEF s, known, g, x
  <2>3. s.out = o /\ [s EXCEPT !.out = x] = [events |-> known, given |-> g, out |-> x]
    BY <2>1, StateFields
  <2>4. [s EXCEPT !.out = s.out \o more] = [s EXCEPT !.out = x]
    BY <2>3 DEF x
  <2> QED BY <2>2, <2>3, <2>4 DEF x
<1>4. CASE cmd.op = "create"
  <2>1. cmd.id \in Nat /\ cmd.dims \in Nat \X Nat
    BY <1>4 DEF ArgumentsOK
  <2>2. ListAfter(events, cmd) = ems_create(events, cmd.id, cmd.dims) /\ Written(events, cmd) = <<>>
    BY <1>4 DEF ListAfter, Written
  <2>3. Exists(s, cmd.id) <=> HasEvent(events, cmd.id)
    BY SameEvent
  <2>4. Do(s, cmd) = IF Exists(s, cmd.id) THEN s
                     ELSE [s EXCEPT !.events = Append(@, [id |-> cmd.id, dims |-> cmd.dims])]
    <3> HIDE DEF s
    <3> QED BY <1>4 DEF Do
  <2>5. Do(s, cmd) = StandsFor(ListAfter(events, cmd), o) /\ ListAfter(events, cmd) \in Stores
    <3> DEFINE dims == cmd.dims
               id == cmd.id
    <3>1. id \in Nat /\ dims \in Nat \X Nat
      BY <2>1
    <3>2. Do(s, cmd) = IF HasEvent(events, id) THEN s
                       ELSE [s EXCEPT !.events = Append(@, [id |-> id, dims |-> dims])]
      BY <2>3, <2>4
    <3>3. ListAfter(events, cmd) = ems_create(events, id, dims)
      BY <2>2
    <3> HIDE DEF dims, id, s
    <3>4. /\ ems_create(events, id, dims) \in Stores
          /\ HasEvent(events, id) => ems_create(events, id, dims) = events
          /\ ~ HasEvent(events, id) =>
               StandsFor(ems_create(events, id, dims), o) =
                 [s EXCEPT !.events = Append(@, [id |-> id, dims |-> dims])]
      BY <3>1, SameCreate DEF s
    <3>5. CASE HasEvent(events, id)
      BY <3>2, <3>3, <3>4, <3>5 DEF s
    <3>6. CASE ~ HasEvent(events, id)
      BY <3>2, <3>3, <3>4, <3>6
    <3> QED BY <3>5, <3>6
  <2> QED BY <1>1, <1>2, <2>2, <2>5
<1>5. CASE cmd.op = "reserve"
  <2>1. cmd.seats \in SeatLists /\ InPairs(cmd.seats) /\ Len(cmd.seats) >= 1
    BY <1>5 DEF ArgumentsOK
  <2>2. ListAfter(events, cmd) = ems_reserve(events, cmd.id, cmd.seats) /\ Written(events, cmd) = <<>>
    BY <1>5 DEF ListAfter, Written
  <2>3. Do(s, cmd) = IF Possible(s, cmd.id, cmd.seats) THEN Give(s, cmd.id, cmd.seats) ELSE s
    <3> HIDE DEF s
    <3> QED BY <1>5 DEF Do
  <2>4. Do(s, cmd) = StandsFor(ListAfter(events, cmd), o) /\ ListAfter(events, cmd) \in Stores
    BY <2>1, <2>2, <2>3, SameReserve
  <2> QED BY <1>1, <1>2, <2>2, <2>4
<1>6. CASE cmd.op = "show"
  <2>1. ListAfter(events, cmd) = events /\ Written(events, cmd) = ems_show(events, cmd.id)
    BY <1>6 DEF ListAfter, Written
  <2>2. Exists(s, cmd.id) <=> HasEvent(events, cmd.id)
    BY SameEvent
  <2>3. Do(s, cmd) = IF Exists(s, cmd.id) THEN [s EXCEPT !.out = @ \o Rows(s, cmd.id)] ELSE s
    <3> HIDE DEF s
    <3> QED BY <1>6 DEF Do
  <2>4. CASE HasEvent(events, cmd.id)
    <3>1. Rows(s, cmd.id) = ems_show(events, cmd.id)
      BY <2>4, SameRows
    <3>2. ems_show(events, cmd.id) \in Seq(OutLines)
      BY <1>1, ShowWritesLines
    <3> QED BY <1>2, <1>3, <2>1, <2>2, <2>3, <2>4, <3>1, <3>2
  <2>5. CASE ~ HasEvent(events, cmd.id)
    <3>1. ems_show(events, cmd.id) = <<>>
      BY <2>5 DEF ems_show
    <3> QED BY <1>1, <1>2, <2>1, <2>2, <2>3, <2>5, <3>1
  <2> QED BY <2>4, <2>5
<1>7. CASE cmd.op = "list"
  <2>1. ListAfter(events, cmd) = events /\ Written(events, cmd) = ems_list_events(events)
    BY <1>7 DEF ListAfter, Written
  <2>2. Do(s, cmd) = [s EXCEPT !.out = @ \o Ids(s)]
    <3> HIDE DEF s
    <3> QED BY <1>7 DEF Do
  <2>3. Ids(s) \in Seq(OutLines) /\ SameLines(Ids(s), ems_list_events(events))
    BY SameIds
  <2> QED BY <1>3, <2>1, <2>2, <2>3
<1>8. CASE cmd.op \notin {"create", "reserve", "show", "list"}
  <2>1. ListAfter(events, cmd) = events /\ Written(events, cmd) = <<>>
    BY <1>8 DEF ListAfter, Written
  <2>2. Do(s, cmd) = s
    <3> HIDE DEF s
    <3> QED BY <1>8 DEF Do
  <2> QED BY <1>1, <1>2, <2>1, <2>2
<1> QED BY <1>4, <1>5, <1>6, <1>7, <1>8

-----------------------------------------------------------------------------
(* The fold of JobReference over the commands.                             *)
StateAfter(cmds) == FoldLeft(Do, Nothing, cmds)
AllOK(cmds, n) == DOMAIN cmds = 1 .. n /\ \A k \in 1 .. n : ArgumentsOK(cmds[k])
StatesWith(events) == {StandsFor(events, o) : o \in Seq(OutLines)}
RefStates == UNION {StatesWith(events) : events \in Stores}
IsRun(run, n, cmds) ==
  \A t \in SUBSET (1 .. n) :
    run[t] = IF t = {} THEN Nothing ELSE Do(run[t \ {Max(t)}], cmds[Max(t)])

LEMMA NothingStands == Nothing = StandsFor(<<>>, <<>>) /\ Nothing \in RefStates
<1>1. <<>> \in Stores /\ <<>> \in Seq(OutLines)
  BY EmptySeq DEF Stores
<1>2. Given(<<>>) = {}
  BY EmptySeq DEF Given
<1>3. Nothing = StandsFor(<<>>, <<>>)
  BY <1>2 DEF Nothing, StandsFor
<1> DEFINE x == StandsFor(<<>>, <<>>)
<1>4. x \in RefStates
  <2>1. x \in StatesWith(<<>>)
    BY <1>1 DEF StatesWith
  <2> QED BY <1>1, <2>1 DEF RefStates
<1> QED BY <1>3, <1>4

LEMMA DoStays ==
  ASSUME NEW s \in RefStates, NEW cmd, ArgumentsOK(cmd)
  PROVE  Do(s, cmd) \in RefStates
<1>1. PICK events \in Stores, o \in Seq(OutLines) : s = StandsFor(events, o)
  BY DEF RefStates, StatesWith
<1>2. PICK more \in Seq(OutLines) :
        Do(s, cmd) = StandsFor(ListAfter(events, cmd), o \o more)
  BY <1>1, CommandDoesAsAsked
<1>3. ListAfter(events, cmd) \in Stores
  BY CommandDoesAsAsked
<1>4. o \o more \in Seq(OutLines)
  BY ConcatProperties
<1> DEFINE after == ListAfter(events, cmd)
           written == o \o more
<1>5. after \in Stores /\ written \in Seq(OutLines) /\ Do(s, cmd) = StandsFor(after, written)
  BY <1>2, <1>3, <1>4
<1> HIDE DEF after, written
<1>6. StandsFor(after, written) \in RefStates
  <2>1. StandsFor(after, written) \in StatesWith(after)
    BY <1>5 DEF StatesWith
  <2> QED BY <1>5, <2>1 DEF RefStates
<1> QED BY <1>5, <1>6

LEMMA RunOf ==
  ASSUME NEW n \in Nat, NEW cmds, AllOK(cmds, n)
  PROVE  \E run : IsRun(run, n, cmds) /\ StateAfter(cmds) = run[1 .. n]
<1> DEFINE S == RefStates
           Chosen(it) == it = [t \in SUBSET (1 .. n) |->
                                IF t = {} THEN Nothing
                                ELSE Do(it[t \ {Max(t)}], cmds[Max(t)])]
           run == CHOOSE it : Chosen(it)
           step == [k \in 1 .. n |-> [s \in S |-> Do(s, cmds[k])]]
<1>1. StateAfter(cmds) = run[1 .. n]
  <2>1. DOMAIN cmds = 1 .. n
    BY DEF AllOK
  <2> QED BY <2>1 DEF StateAfter, FoldLeft, MapThenFoldSet
<1>2. Nothing \in S
  BY NothingStands
<1>3. ASSUME NEW s \in S, NEW k \in 1 .. n
      PROVE  Do(s, cmds[k]) \in S
  BY DoStays DEF AllOK
<1> HIDE DEF S
<1>4. step \in [1 .. n -> [S -> S]]
  BY <1>3
<1>5. PICK it \in [SUBSET (1 .. n) -> S] : IsFold(it, n, Nothing, step)
  <2> HIDE DEF step
  <2> QED BY <1>2, <1>4, FoldExists
<1>6. ASSUME NEW t \in SUBSET (1 .. n)
      PROVE  it[t] = IF t = {} THEN Nothing ELSE Do(it[t \ {Max(t)}], cmds[Max(t)])
  <2>1. CASE t # {}
    <3>1. Max(t) \in 1 .. n /\ it[t \ {Max(t)}] \in S
      BY <2>1, MaxIsGreatest
    <3>2. step[Max(t)][it[t \ {Max(t)}]] = Do(it[t \ {Max(t)}], cmds[Max(t)])
      BY <3>1
    <3> HIDE DEF step
    <3> QED BY <1>5, <2>1, <3>2 DEF IsFold
  <2>2. CASE t = {}
    <3> HIDE DEF step
    <3> QED BY <1>5, <2>2 DEF IsFold
  <2> QED BY <2>1, <2>2
<1>7. Chosen(it)
  BY <1>5, <1>6
<1>8. Chosen(run)
  <2> HIDE DEF Chosen
  <2> QED BY <1>7
<1> HIDE DEF run
<1>9. IsRun(run, n, cmds)
  BY <1>8 DEF IsRun
<1> QED BY <1>1, <1>9

LEMMA OneCommandMore ==
  ASSUME NEW n \in Nat, NEW cmds, NEW longer, AllOK(cmds, n), AllOK(longer, n + 1),
         \A k \in 1 .. n : longer[k] = cmds[k]
  PROVE  StateAfter(longer) = Do(StateAfter(cmds), longer[n + 1])
<1>1. PICK run : IsRun(run, n, cmds) /\ StateAfter(cmds) = run[1 .. n]
  BY RunOf
<1>2. n + 1 \in Nat
  OBVIOUS
<1>3. PICK next : IsRun(next, n + 1, longer) /\ StateAfter(longer) = next[1 .. (n + 1)]
  BY <1>2, RunOf
<1> DEFINE T == [k \in 0 .. n |-> {next[1 .. k]}]
<1>4. run[{}] \in T[0]
  <2>1. 1 .. 0 = {} /\ T[0] = {next[1 .. 0]}
    OBVIOUS
  <2>2. run[{}] = Nothing /\ next[{}] = Nothing
    BY <1>1, <1>3 DEF IsRun
  <2> QED BY <2>1, <2>2
<1>5. ASSUME NEW k \in 1 .. n, run[1 .. (k - 1)] \in T[k - 1]
      PROVE  run[1 .. k] \in T[k]
  <2>1. /\ 1 .. k \in SUBSET (1 .. n) /\ 1 .. k # {}
        /\ Max(1 .. k) = k /\ (1 .. k) \ {k} = 1 .. (k - 1)
    BY PrefixesOfIndices
  <2>2. run[1 .. k] = Do(run[1 .. (k - 1)], cmds[k])
    BY <1>1, <2>1 DEF IsRun
  <2>3. 1 .. k \in SUBSET (1 .. (n + 1))
    OBVIOUS
  <2>4. next[1 .. k] = Do(next[1 .. (k - 1)], longer[k])
    BY <1>3, <2>1, <2>3 DEF IsRun
  <2>5. k - 1 \in 0 .. n /\ k \in 0 .. n
    OBVIOUS
  <2>6. T[k - 1] = {next[1 .. (k - 1)]} /\ T[k] = {next[1 .. k]}
    BY <2>5
  <2> HIDE DEF T
  <2>7. run[1 .. (k - 1)] = next[1 .. (k - 1)]
    BY <1>5, <2>6
  <2> QED BY <2>2, <2>4, <2>6, <2>7
<1>6. run[1 .. n] \in T[n]
  <2> HIDE DEF T
  <2> QED BY <1>4, <1>5, FoldSteps
<1>7. run[1 .. n] = next[1 .. n]
  <2>1. n \in 0 .. n
    OBVIOUS
  <2> QED BY <1>6, <2>1
<1>8. /\ 1 .. (n + 1) \in SUBSET (1 .. (n + 1)) /\ 1 .. (n + 1) # {}
      /\ Max(1 .. (n + 1)) = n + 1 /\ (1 .. (n + 1)) \ {n + 1} = 1 .. n
  <2> DEFINE m == n + 1
  <2>1. m \in Nat /\ m \in 1 .. m /\ m - 1 = n
    OBVIOUS
  <2> HIDE DEF m
  <2>2. /\ 1 .. m \in SUBSET (1 .. m) /\ 1 .. m # {}
        /\ Max(1 .. m) = m /\ (1 .. m) \ {m} = 1 .. (m - 1)
    BY <2>1, PrefixesOfIndices
  <2> QED BY <2>1, <2>2 DEF m
<1>9. next[1 .. (n + 1)] = Do(next[1 .. n], longer[n + 1])
  BY <1>3, <1>8 DEF IsRun
<1> QED BY <1>1, <1>3, <1>7, <1>9

-----------------------------------------------------------------------------
(* The commands that a child has read: one after the other from the head   *)
(* of the file on, each by the parser, with some digits behind the file.   *)
Reading(f, stales, k) == ReadCommand(Text(f), begun[f][k], stales[k])
CommandsRead(f, stales) == [k \in DOMAIN begun[f] |-> Reading(f, stales, k).cmd]
ReadInTurn(f, stales) ==
  /\ IF begun[f] = <<>> THEN at[f] = 0 ELSE begun[f][1] = 0
  /\ \A k \in DOMAIN begun[f] : ReadTo(f, k) = Reading(f, stales, k).at

CommandsAnswered ==
  \A f \in JobFiles : \E stales \in [DOMAIN begun[f] -> Stale] :
    /\ ReadInTurn(f, stales)
    /\ SameLines(Outcome(CommandsRead(f, stales)), out[f])

(* The inductive invariant: the memory of the child stands for the state   *)
(* of the reference.                                                       *)
Follows(f, stales, o) ==
  /\ ReadInTurn(f, stales)
  /\ AllOK(CommandsRead(f, stales), Len(begun[f]))
  /\ StateAfter(CommandsRead(f, stales)) = StandsFor(list[f], o)
  /\ SameLines(o, out[f])
AnsweredSoFar(f) ==
  /\ list[f] \in Stores
  /\ \E stales \in [1 .. Len(begun[f]) -> Stale] : \E o \in Seq(OutLines) :
       Follows(f, stales, o)
AnswersInv == JobsInv /\ \A f \in JobFiles : AnsweredSoFar(f)

LEMMA AnswersInit == JobsInit => AnswersInv
<1> SUFFICES ASSUME JobsInit PROVE AnswersInv
  OBVIOUS
<1>1. ASSUME NEW f \in JobFiles
      PROVE  AnsweredSoFar(f)
  <2> DEFINE stales == [k \in 1 .. 0 |-> 0]
  <2>1. at[f] = 0 /\ begun[f] = <<>> /\ list[f] = <<>> /\ out[f] = <<>>
    BY <1>1 DEF JobsInit, EmptyList
  <2>2. Len(begun[f]) = 0 /\ DOMAIN begun[f] = {} /\ 1 .. 0 = {}
    BY <2>1
  <2>3. stales \in [1 .. Len(begun[f]) -> Stale]
    BY <2>2
  <2>4. CommandsRead(f, stales) = <<>>
    BY <2>2 DEF CommandsRead
  <2>5. AllOK(CommandsRead(f, stales), Len(begun[f]))
    BY <2>2, <2>4 DEF AllOK
  <2>6. StateAfter(<<>>) = Nothing
    <3>1. AllOK(<<>>, 0)
      BY <2>2 DEF AllOK
    <3>2. PICK run : IsRun(run, 0, <<>>) /\ StateAfter(<<>>) = run[1 .. 0]
      BY <3>1, RunOf
    <3> QED BY <2>2, <3>2 DEF IsRun
  <2>7. SameLines(<<>>, <<>>) /\ <<>> \in Seq(OutLines) /\ <<>> \in Stores
    BY EmptySeq DEF SameLines, Stores
  <2> HIDE DEF stales
  <2>8. Follows(f, stales, <<>>)
    BY <2>1, <2>2, <2>4, <2>5, <2>6, <2>7, NothingStands DEF Follows, ReadInTurn
  <2> QED BY <2>1, <2>3, <2>7, <2>8 DEF AnsweredSoFar
<1> QED BY <1>1, JobsInitInv DEF AnswersInv

LEMMA LinesJoin ==
  ASSUME NEW a \in Seq(OutLines), NEW b \in Seq(OutLines), NEW c \in Seq(OutLines),
         NEW d \in Seq(OutLines), SameLines(a, b), SameLines(c, d)
  PROVE  SameLines(a \o c, b \o d)
<1>1. Len(a) = Len(b) /\ Len(c) = Len(d) /\ Len(a) \in Nat /\ Len(c) \in Nat
  BY LenProperties DEF SameLines
<1>2. /\ Len(a \o c) = Len(a) + Len(c)
      /\ \A i \in 1 .. Len(a) + Len(c) :
           (a \o c)[i] = IF i <= Len(a) THEN a[i] ELSE c[i - Len(a)]
  BY ConcatProperties
<1>3. /\ Len(b \o d) = Len(b) + Len(d)
      /\ \A i \in 1 .. Len(b) + Len(d) :
           (b \o d)[i] = IF i <= Len(b) THEN b[i] ELSE d[i - Len(b)]
  BY ConcatProperties
<1>4. ASSUME NEW i \in 1 .. Len(a) + Len(c)
      PROVE  SameLine((a \o c)[i], (b \o d)[i])
  <2>1. CASE i <= Len(a)
    <3>1. i \in 1 .. Len(a) /\ (a \o c)[i] = a[i] /\ (b \o d)[i] = b[i]
      BY <1>1, <1>2, <1>3, <2>1
    <3> QED BY <3>1 DEF SameLines
  <2>2. CASE i > Len(a)
    <3>1. /\ i - Len(a) \in 1 .. Len(c)
          /\ (a \o c)[i] = c[i - Len(a)] /\ (b \o d)[i] = d[i - Len(a)]
      BY <1>1, <1>2, <1>3, <2>2
    <3> QED BY <3>1 DEF SameLines
  <2> QED BY <1>1, <2>1, <2>2
<1> QED BY <1>1, <1>2, <1>3, <1>4 DEF SameLines

(* The child that reads a command does what the reference does.            *)
LEMMA ExecuteAnswers ==
  ASSUME AnswersInv, NEW f \in JobFiles, Execute(f)
  PROVE  AnsweredSoFar(f)'
<1> DEFINE text == Text(f)
<1>0. PICK n : n = Len(begun[f])
  OBVIOUS
<1>1. PICK stale \in Stale :
        LET r == ReadCommand(Text(f), at[f], stale)
        IN /\ at' = [at EXCEPT ![f] = r.at]
           /\ list' = [list EXCEPT ![f] = ListAfter(@, r.cmd)]
           /\ out' = [out EXCEPT ![f] = @ \o Written(list[f], r.cmd)]
  BY DEF Execute
<1> DEFINE r == ReadCommand(text, at[f], stale)
<1>2. /\ at'[f] = r.at
      /\ list'[f] = ListAfter(list[f], r.cmd)
      /\ out'[f] = out[f] \o Written(list[f], r.cmd)
      /\ begun'[f] = Append(begun[f], at[f])
      /\ Text(f)' = text /\ at[f] < Len(text)
  <2>1. DOMAIN at = JobFiles /\ DOMAIN begun = JobFiles /\ DOMAIN list = JobFiles
        /\ DOMAIN out = JobFiles
    BY DEF AnswersInv, JobsInv
  <2>2. begun' = [begun EXCEPT ![f] = Append(begun[f], at[f])] /\ job' = job /\ at[f] < Len(text)
    BY DEF Execute
  <2>3. Text(f)' = text
    BY <2>2 DEF Text
  <2> QED BY <1>1, <2>1, <2>2, <2>3
<1>3. /\ text \in Texts /\ at[f] \in 0 .. Len(text) /\ at[f] # Len(text)
      /\ list[f] \in Seq(Events) /\ out[f] \in Seq(OutLines)
      /\ begun[f] \in Seq(0 .. Len(text))
  BY <1>2, TextsAre DEF AnswersInv, JobsInv, Texts
<1>4. ArgumentsOK(r.cmd)
  BY <1>1, <1>3, StaleAre, CommandsTyped DEF ReadOK
<1>5. PICK stales \in [1 .. n -> Stale], o \in Seq(OutLines) : Follows(f, stales, o)
  BY <1>0 DEF AnswersInv, AnsweredSoFar
<1>6. list[f] \in Stores
  BY DEF AnswersInv, AnsweredSoFar
<1>7. ListAfter(list[f], r.cmd) \in Stores /\ Written(list[f], r.cmd) \in Seq(OutLines)
  BY <1>3, <1>4, <1>6, CommandDoesAsAsked, CommandKeeps
<1>8. PICK more \in Seq(OutLines) :
        /\ Do(StandsFor(list[f], o), r.cmd) = StandsFor(ListAfter(list[f], r.cmd), o \o more)
        /\ SameLines(more, Written(list[f], r.cmd))
  BY <1>4, <1>6, CommandDoesAsAsked
<1> HIDE DEF r, text
<1>9. /\ n \in Nat /\ DOMAIN begun[f] = 1 .. n /\ begun'[f] \in Seq(0 .. Len(text))
      /\ Len(begun'[f]) = n + 1 /\ DOMAIN begun'[f] = 1 .. (n + 1)
      /\ begun'[f][n + 1] = at[f] /\ \A k \in 1 .. n : begun'[f][k] = begun[f][k]
  BY <1>0, <1>2, <1>3, LenProperties, AppendProperties
<1>10. PICK after \in [1 .. (n + 1) -> Stale] :
         /\ after[n + 1] = stale /\ \A k \in 1 .. n : after[k] = stales[k]
  <2> DEFINE x == [k \in 1 .. (n + 1) |-> IF k = n + 1 THEN stale ELSE stales[k]]
  <2>1. \A k \in 1 .. (n + 1) : k # n + 1 => k \in 1 .. n
    BY <1>9
  <2>2. x \in [1 .. (n + 1) -> Stale] /\ x[n + 1] = stale
    BY <1>9, <2>1
  <2>3. \A k \in 1 .. n : x[k] = stales[k]
    BY <1>9
  <2> QED BY <2>2, <2>3
<1>11. (\A k \in 1 .. n : k \in 1 .. (n + 1)) /\ n + 1 \in 1 .. (n + 1)
  BY <1>9
<1> DEFINE read == CommandsRead(f, stales)
           readAfter == CommandsRead(f, after)'
<1>12. \A k \in 1 .. n : Reading(f, after, k)' = Reading(f, stales, k)
  BY <1>2, <1>9, <1>10 DEF Reading, text
<1>13. Reading(f, after, n + 1)' = r
  BY <1>2, <1>9, <1>10 DEF Reading, r
<1>14. AllOK(read, n) /\ StateAfter(read) = StandsFor(list[f], o)
  BY <1>0, <1>5 DEF Follows
<1>15. /\ DOMAIN readAfter = 1 .. (n + 1) /\ readAfter[n + 1] = r.cmd
       /\ \A k \in 1 .. n : readAfter[k] = read[k]
  BY <1>9, <1>11, <1>12, <1>13 DEF CommandsRead
<1> HIDE DEF read, readAfter
<1>16. AllOK(readAfter, n + 1)
  <2>1. \A k \in 1 .. (n + 1) : k \in 1 .. n \/ k = n + 1
    BY <1>9
  <2> QED BY <1>4, <1>14, <1>15, <2>1 DEF AllOK
<1>17. StateAfter(readAfter) = StandsFor(list'[f], o \o more)
  <2>1. StateAfter(readAfter) = Do(StateAfter(read), readAfter[n + 1])
    BY <1>9, <1>14, <1>15, <1>16, OneCommandMore
  <2> QED BY <1>2, <1>8, <1>14, <1>15, <2>1
<1>18. SameLines(o \o more, out'[f]) /\ o \o more \in Seq(OutLines)
  <2>1. SameLines(o, out[f])
    BY <1>5 DEF Follows
  <2> QED BY <1>2, <1>3, <1>7, <1>8, <2>1, LinesJoin, ConcatProperties
<1>19. ReadInTurn(f, after)'
  <2>1. ReadInTurn(f, stales)
    BY <1>5 DEF Follows
  <2>2. begun'[f] # <<>> /\ begun'[f][1] = 0
    <3>1. begun'[f] # <<>>
      BY <1>9
    <3>2. CASE n = 0
      <4>1. begun[f] = <<>>
        BY <1>0, <1>3, <3>2, EmptySeq
      <4> QED BY <1>9, <2>1, <3>1, <3>2, <4>1 DEF ReadInTurn
    <3>3. CASE n # 0
      <4>1. begun[f] # <<>> /\ 1 \in 1 .. n
        BY <1>0, <1>9, <3>3
      <4> QED BY <1>9, <2>1, <3>1, <4>1 DEF ReadInTurn
    <3> QED BY <3>2, <3>3
  <2>3. ASSUME NEW k \in 1 .. (n + 1)
        PROVE  ReadTo(f, k)' = Reading(f, after, k)'.at
    <3>1. CASE k = n + 1
      BY <1>2, <1>9, <1>13, <3>1 DEF ReadTo
    <3>2. CASE k \in 1 .. n
      <4>1. ReadTo(f, k) = Reading(f, stales, k).at
        BY <1>9, <2>1, <3>2 DEF ReadInTurn
      <4>2. ReadTo(f, k)' = begun'[f][k + 1]
        <5>1. k # n + 1
          BY <1>9, <3>2
        <5> QED BY <1>9, <5>1 DEF ReadTo
      <4>3. ReadTo(f, k) = begun'[f][k + 1]
        <5>1. CASE k = n
          BY <1>0, <1>9, <5>1 DEF ReadTo
        <5>2. CASE k # n
          <6>1. k + 1 \in 1 .. n
            BY <1>9, <3>2, <5>2
          <6> QED BY <1>0, <1>9, <5>2, <6>1 DEF ReadTo
        <5> QED BY <5>1, <5>2
      <4> QED BY <1>12, <3>2, <4>1, <4>2, <4>3
    <3> QED BY <1>9, <3>1, <3>2
  <2> QED BY <1>9, <2>2, <2>3 DEF ReadInTurn
<1>20. Follows(f, after, o \o more)'
  BY <1>9, <1>16, <1>17, <1>18, <1>19 DEF Follows, readAfter
<1> QED BY <1>2, <1>7, <1>9, <1>10, <1>18, <1>20 DEF AnsweredSoFar

LEMMA AnswersStay ==
  ASSUME NEW f \in JobFiles, AnsweredSoFar(f), job' = job, at'[f] = at[f],
         begun'[f] = begun[f], list'[f] = list[f], out'[f] = out[f]
  PROVE  AnsweredSoFar(f)'
BY ZenonT(60) DEF AnsweredSoFar, Follows, ReadInTurn, ReadTo, Reading, CommandsRead, Text

LEMMA AnswersNext == AnswersInv /\ [JobsNext]_<<vars, jobVars>> => AnswersInv'
<1> SUFFICES ASSUME AnswersInv, [JobsNext]_<<vars, jobVars>>
             PROVE  \A f \in JobFiles : AnsweredSoFar(f)'
  BY JobsNextInv DEF AnswersInv
<1>1. ASSUME UNCHANGED jobVars, NEW f \in JobFiles
      PROVE  AnsweredSoFar(f)'
  BY <1>1, AnswersStay DEF jobVars, AnswersInv
<1>2. ASSUME NEW f \in JobFiles, Execute(f), NEW g \in JobFiles
      PROVE  AnsweredSoFar(g)'
  <2>1. CASE g = f
    BY <1>2, <2>1, ExecuteAnswers
  <2>2. CASE g # f
    <3>1. job' = job /\ at'[g] = at[g] /\ begun'[g] = begun[g] /\ list'[g] = list[g]
          /\ out'[g] = out[g]
      BY <1>2, <2>2 DEF Execute, AnswersInv, JobsInv
    <3> QED BY <3>1, AnswersStay DEF AnswersInv
  <2> QED BY <2>1, <2>2
<1>3. ASSUME NEW f \in JobFiles, Finish(f) \/ EndsEarly(f) PROVE UNCHANGED jobVars
  BY <1>3 DEF Finish, EndsEarly
<1>4. ParentStep => UNCHANGED jobVars
  BY DEF ParentStep
<1>5. UNCHANGED <<vars, jobVars>> => UNCHANGED jobVars
  OBVIOUS
<1> QED BY <1>1, <1>2, <1>3, <1>4, <1>5 DEF JobsNext

(* A child reads its file command by command from the head on, and what it *)
(* has written is at any time what JobReference asks for the commands that *)
(* it has read, whatever the file holds and whatever happens to the other  *)
(* children: the loop of processFile and the store lose, repeat and        *)
(* reorder nothing, and a reservation that fails leaves no trace.          *)
THEOREM AnswersAsAsked == JobsSpec => []CommandsAnswered
<1>1. ASSUME AnswersInv
      PROVE  CommandsAnswered
  <2> SUFFICES ASSUME NEW f \in JobFiles
               PROVE  \E stales \in [DOMAIN begun[f] -> Stale] :
                        /\ ReadInTurn(f, stales)
                        /\ SameLines(Outcome(CommandsRead(f, stales)), out[f])
    BY DEF CommandsAnswered
  <2>1. PICK stales \in [1 .. Len(begun[f]) -> Stale], o \in Seq(OutLines) :
          Follows(f, stales, o)
    BY <1>1 DEF AnswersInv, AnsweredSoFar
  <2>2. DOMAIN begun[f] = 1 .. Len(begun[f])
    BY <1>1, LenProperties DEF AnswersInv, JobsInv
  <2>3. Outcome(CommandsRead(f, stales)) = StateAfter(CommandsRead(f, stales)).out
    BY DEF Outcome, StateAfter
  <2>4. StandsFor(list[f], o).out = o
    BY DEF StandsFor
  <2> QED BY <2>1, <2>2, <2>3, <2>4 DEF Follows
<1> QED BY <1>1, AnswersInit, AnswersNext, PTL DEF JobsSpec

-----------------------------------------------------------------------------
(* The lines of a file.  A child that reads has not come to its end.       *)
LinesInv ==
  /\ AnswersInv
  /\ \A f \in JobFiles : \A k \in DOMAIN begun[f] : begun[f][k] < Len(Text(f))

LEMMA LinesInit == JobsInit => LinesInv
<1> SUFFICES ASSUME JobsInit PROVE LinesInv
  OBVIOUS
<1>1. ASSUME NEW f \in JobFiles
      PROVE  DOMAIN begun[f] = {}
  <2>1. begun[f] = <<>>
    BY DEF JobsInit
  <2> QED BY <2>1
<1> QED BY <1>1, AnswersInit DEF LinesInv

LEMMA LinesNext == LinesInv /\ [JobsNext]_<<vars, jobVars>> => LinesInv'
<1> SUFFICES ASSUME LinesInv, [JobsNext]_<<vars, jobVars>>,
                    NEW f \in JobFiles, NEW k \in (DOMAIN begun[f])'
             PROVE  begun'[f][k] < Len(Text(f)')
  BY AnswersNext DEF LinesInv
<1>1. CASE UNCHANGED jobVars
  <2>1. Text(f)' = Text(f) /\ begun' = begun
    BY <1>1 DEF jobVars, Text
  <2> QED BY <2>1 DEF LinesInv
<1>2. ASSUME NEW g \in JobFiles, Execute(g)
      PROVE  begun'[f][k] < Len(Text(f)')
  <2>1. /\ begun' = [begun EXCEPT ![g] = Append(begun[g], at[g])] /\ job' = job
        /\ at[g] < Len(Text(g))
    BY <1>2 DEF Execute
  <2>2. Text(f)' = Text(f) /\ DOMAIN begun = JobFiles
    BY <2>1 DEF Text, LinesInv, AnswersInv, JobsInv
  <2>3. CASE f # g
    <3>1. begun'[f] = begun[f]
      BY <2>1, <2>2, <2>3
    <3> QED BY <2>2, <3>1 DEF LinesInv
  <2>4. CASE f = g
    <3> DEFINE n == Len(begun[f])
    <3>1. begun[f] \in Seq(0 .. Len(Text(f))) /\ at[f] \in 0 .. Len(Text(f))
      BY DEF LinesInv, AnswersInv, JobsInv
    <3>2. begun'[f] = Append(begun[f], at[f])
      BY <2>1, <2>2, <2>4
    <3>3. /\ n \in Nat /\ DOMAIN begun[f] = 1 .. n /\ DOMAIN begun'[f] = 1 .. (n + 1)
          /\ begun'[f][n + 1] = at[f] /\ \A i \in 1 .. n : begun'[f][i] = begun[f][i]
      BY <3>1, <3>2, AppendProperties, LenProperties
    <3> HIDE DEF n
    <3>4. k \in 1 .. n \/ k = n + 1
      BY <3>3
    <3>5. CASE k \in 1 .. n
      BY <2>2, <3>3, <3>5 DEF LinesInv
    <3>6. CASE k = n + 1
      BY <2>1, <2>2, <2>4, <3>3, <3>6
    <3> QED BY <3>4, <3>5, <3>6
  <2> QED BY <2>3, <2>4
<1>3. ASSUME NEW g \in JobFiles, Finish(g) \/ EndsEarly(g) PROVE UNCHANGED jobVars
  BY <1>3 DEF Finish, EndsEarly
<1>4. ParentStep => UNCHANGED jobVars
  BY DEF ParentStep
<1>5. UNCHANGED <<vars, jobVars>> => UNCHANGED jobVars
  OBVIOUS
<1> QED BY <1>1, <1>2, <1>3, <1>4, <1>5 DEF JobsNext

LEMMA LinesInvariance == JobsSpec => []LinesInv
  BY LinesInit, LinesNext, PTL DEF JobsSpec

LEMMA LinesOfTexts ==
  ASSUME job \in Directories, NEW f \in JobFiles
  PROVE  IsText(Text(f), Lines(f)) /\ Nul \notin ToSet(Text(f)) /\ Text(f) \in Texts
BY LinesAssumption, TextsAre DEF Text, Lines

(* The commands that a child has read, line by line: each begins at the    *)
(* head of one, and is read to the end of one.                             *)
FromLine(f, k, i) == i \in 1 .. Len(Lines(f)) /\ begun[f][k] = Lines(f)[i].from
LostAfter(f, k, i, j) ==
  /\ j \in i .. Len(Lines(f)) /\ ReadTo(f, k) = Lines(f)[j].to
  /\ j = i \/ Lines(f)[i].means.op = "invalid"
  /\ Cardinality(CommandsOf(Lines(f), i, j)) <= 2

LEMMA CommandReadToLineEnd ==
  ASSUME JobsInv, NEW f \in JobFiles, NEW k \in DOMAIN begun[f],
         NEW stales \in [1 .. Len(begun[f]) -> Stale], ReadInTurn(f, stales),
         NEW i, FromLine(f, k, i)
  PROVE  \E j : LostAfter(f, k, i, j)
<1> DEFINE text == Text(f)
           L == Lines(f)
           s == stales[k]
           r == Reading(f, stales, k)
<1>1. IsText(text, L) /\ Nul \notin ToSet(text) /\ text \in Texts
  BY LinesOfTexts DEF JobsInv
<1>2. s \in DigitRuns
  <2>1. DOMAIN begun[f] = 1 .. Len(begun[f])
    BY LenProperties DEF JobsInv
  <2>2. s \in Stale
    BY <2>1
  <2> QED BY <2>2, StaleAre
<1>3. i \in 1 .. Len(L) /\ r = ReadCommand(text, L[i].from, s)
  BY DEF FromLine, Reading
<1>4. ReadTo(f, k) = r.at
  BY DEF ReadInTurn
<1> HIDE DEF text, L, s, r
<1>5. PICK j \in i .. Len(L) :
        /\ r.at = L[j].to
        /\ j = i \/ L[i].means.op = "invalid"
        /\ Cardinality(CommandsOf(L, i, j)) <= 2
  BY <1>1, <1>2, <1>3, ReadToLineEnd
<1>6. LostAfter(f, k, i, j)
  BY <1>4, <1>5 DEF LostAfter, L
<1> QED BY <1>6

LEMMA EveryCommandFromLine ==
  ASSUME LinesInv, NEW f \in JobFiles, NEW k \in DOMAIN begun[f],
         NEW stales \in [1 .. Len(begun[f]) -> Stale], ReadInTurn(f, stales)
  PROVE  \E i : FromLine(f, k, i)
<1> DEFINE n == Len(begun[f])
           L == Lines(f)
           S == {m \in Nat : m + 1 <= n => \E i : FromLine(f, m + 1, i)}
<1>1. /\ n \in Nat /\ DOMAIN begun[f] = 1 .. n /\ JobsInv
      /\ \A m \in 1 .. n : begun[f][m] < Len(Text(f))
  BY LenProperties DEF LinesInv, AnswersInv, JobsInv
<1>2. IsText(Text(f), L) /\ Text(f) \in Texts
  BY LinesOfTexts DEF LinesInv, AnswersInv, JobsInv
<1>3. /\ Len(Text(f)) \in Nat /\ Len(Text(f)) # 0 => Len(L) # 0
      /\ Len(L) \in Nat /\ Len(L) # 0 => L[1].from = 0 /\ L[Len(L)].to = Len(Text(f))
      /\ \A i \in 1 .. Len(L) : i # Len(L) => i + 1 \in 1 .. Len(L) /\ L[i + 1].from = L[i].to
  BY <1>2, LinesAre
<1> HIDE DEF n, L
<1>4. 0 \in S
  <2>1. ASSUME 0 + 1 <= n
        PROVE  FromLine(f, 0 + 1, 1)
    <3>1. 1 \in 1 .. n /\ begun[f] # <<>>
      BY <1>1, <2>1
    <3>2. begun[f][1] = 0
      BY <3>1 DEF ReadInTurn
    <3>3. 1 \in 1 .. Len(L) /\ L[1].from = 0
      <4>1. 0 < Len(Text(f))
        BY <1>1, <3>1, <3>2
      <4> QED BY <1>3, <4>1
    <3> QED BY <3>2, <3>3 DEF FromLine, L
  <2> QED BY <2>1
<1>5. ASSUME NEW m \in S
      PROVE  m + 1 \in S
  <2>1. m \in Nat /\ m + 1 \in Nat
    OBVIOUS
  <2>2. ASSUME (m + 1) + 1 <= n
        PROVE  \E i : FromLine(f, (m + 1) + 1, i)
    <3> DEFINE x == m + 1
    <3>1. x \in 1 .. n /\ x # n /\ x + 1 \in 1 .. n /\ x <= n
      BY <1>1, <2>1, <2>2
    <3>2. PICK i : FromLine(f, x, i)
      BY <3>1
    <3> HIDE DEF x, S
    <3>3. PICK j : LostAfter(f, x, i, j)
      BY <1>1, <3>1, <3>2, CommandReadToLineEnd DEF n
    <3>4. i \in 1 .. Len(L) /\ j \in i .. Len(L) /\ begun[f][x + 1] = L[j].to
      BY <3>1, <3>2, <3>3 DEF FromLine, LostAfter, ReadTo, L, n
    <3>5. j \in 1 .. Len(L)
      BY <1>3, <3>4
    <3>6. j # Len(L)
      <4>1. begun[f][x + 1] < Len(Text(f))
        BY <1>1, <3>1
      <4>2. Len(L) # 0
        BY <1>3, <3>5
      <4> QED BY <1>3, <3>4, <4>1, <4>2
    <3>7. FromLine(f, x + 1, j + 1)
      BY <1>3, <3>4, <3>5, <3>6 DEF FromLine, L
    <3> QED BY <3>7 DEF x
  <2> QED BY <2>1, <2>2
<1>6. S = Nat
  <2>1. S \in SUBSET Nat
    OBVIOUS
  <2> HIDE DEF S
  <2> QED BY <1>4, <1>5, <2>1, SetInduction
<1>7. k - 1 \in S /\ (k - 1) + 1 = k /\ k <= n
  <2> HIDE DEF S
  <2>1. k \in 1 .. n
    BY <1>1
  <2> QED BY <1>1, <1>6, <2>1
<1> DEFINE m == k - 1
<1>8. m + 1 = k /\ m \in S /\ m + 1 <= n
  BY <1>7
<1> HIDE DEF m
<1> QED BY <1>8

(* Every command begins at the head of a line and is read to the end of    *)
(* one, whatever the file holds; an invalid line takes two commands with   *)
(* it at most, and no other line takes any.                                *)
THEOREM LostAreFew == JobsSpec => []LostOnlyAfterInvalid
<1>1. ASSUME LinesInv
      PROVE  LostOnlyAfterInvalid
  <2> SUFFICES ASSUME NEW f \in JobFiles, NEW k \in DOMAIN begun[f]
               PROVE  \E i \in DOMAIN Lines(f) : \E j \in i .. Len(Lines(f)) :
                        /\ begun[f][k] = Lines(f)[i].from /\ ReadTo(f, k) = Lines(f)[j].to
                        /\ j = i \/ Lines(f)[i].means.op = "invalid"
                        /\ Cardinality({l \in (i + 1) .. j :
                                Lines(f)[l].means.op \notin {"empty", "invalid"}}) <= 2
    BY DEF LostOnlyAfterInvalid
  <2>1. PICK stales \in [1 .. Len(begun[f]) -> Stale], o \in Seq(OutLines) :
          Follows(f, stales, o)
    BY <1>1 DEF LinesInv, AnswersInv, AnsweredSoFar
  <2>2. ReadInTurn(f, stales) /\ JobsInv
    BY <1>1, <2>1 DEF Follows, LinesInv, AnswersInv
  <2>3. PICK i : FromLine(f, k, i)
    BY <1>1, <2>2, EveryCommandFromLine
  <2>4. PICK j : LostAfter(f, k, i, j)
    BY <2>2, <2>3, CommandReadToLineEnd
  <2>5. DOMAIN Lines(f) = 1 .. Len(Lines(f))
    BY <2>2, LinesOfTexts DEF IsText, JobsInv
  <2> QED BY <2>3, <2>4, <2>5 DEF FromLine, LostAfter, CommandsOf
<1> QED BY <1>1, LinesInvariance, PTL

-----------------------------------------------------------------------------
(* The commands begin one after the other, and those of lines that have a  *)
(* newline or no number are read as what the lines mean.                   *)
LEMMA BegunInOrder ==
  ASSUME LinesInv, NEW f \in JobFiles,
         NEW stales \in [1 .. Len(begun[f]) -> Stale], ReadInTurn(f, stales),
         NEW k \in DOMAIN begun[f], NEW l \in DOMAIN begun[f], k < l
  PROVE  begun[f][k] < begun[f][l]
<1> DEFINE n == Len(begun[f])
           L == Lines(f)
           b == begun[f]
           S == {m \in Nat : k + 1 + m <= n => b[k] < b[k + 1 + m]}
<1>1. /\ n \in Nat /\ DOMAIN b = 1 .. n /\ JobsInv
      /\ \A m \in 1 .. n : b[m] \in Nat
  <2>1. /\ n \in Nat /\ DOMAIN b = 1 .. n /\ JobsInv /\ b \in Seq(0 .. Len(Text(f)))
    BY LenProperties DEF LinesInv, AnswersInv, JobsInv
  <2>2. \A m \in 1 .. n : b[m] \in 0 .. Len(Text(f))
    BY <2>1, ElementOfSeq
  <2>3. Len(Text(f)) \in Nat
    BY <2>1, TextsAre DEF JobsInv, Texts
  <2> HIDE DEF n, b
  <2> QED BY <2>1, <2>2, <2>3
<1>2. IsText(Text(f), L) /\ Text(f) \in Texts
  BY LinesOfTexts DEF LinesInv, AnswersInv, JobsInv
<1>3. /\ Len(L) \in Nat
      /\ \A i \in 1 .. Len(L) : L[i].from \in Nat /\ L[i].to \in Nat /\ L[i].from < L[i].to
  BY <1>2, LinesAre
<1>4. \A i, j \in 1 .. Len(L) : i < j => L[i].to <= L[j].from
  BY <1>2, LinesInOrder
<1> HIDE DEF n, L, b
<1>5. k \in 1 .. n /\ l \in 1 .. n /\ k \in Nat /\ l \in Nat /\ l <= n
  BY <1>1 DEF b
<1>6. ASSUME NEW x \in 1 .. n, x # n
      PROVE  x + 1 \in 1 .. n /\ b[x] < b[x + 1]
  <2>1. x \in DOMAIN begun[f] /\ x + 1 \in 1 .. n
    BY <1>1, <1>6 DEF b
  <2>2. PICK i : FromLine(f, x, i)
    BY <2>1, EveryCommandFromLine
  <2>3. PICK j : LostAfter(f, x, i, j)
    BY <1>1, <2>1, <2>2, CommandReadToLineEnd
  <2>4. /\ i \in 1 .. Len(L) /\ j \in i .. Len(L)
        /\ b[x] = L[i].from /\ b[x + 1] = L[j].to
    BY <1>6, <2>2, <2>3 DEF FromLine, LostAfter, ReadTo, L, b, n
  <2>5. i \in Nat /\ j \in Nat /\ j \in 1 .. Len(L) /\ i <= j
    BY <1>3, <2>4
  <2>6. L[i].to <= L[j].to
    <3>1. CASE i = j
      BY <1>3, <2>4, <3>1
    <3>2. CASE i # j
      <4>1. L[i].to <= L[j].from
        BY <1>4, <2>4, <2>5, <3>2
      <4> QED BY <1>3, <2>4, <2>5, <4>1
    <3> QED BY <3>1, <3>2
  <2>7. L[i].from \in Nat /\ L[i].to \in Nat /\ L[j].to \in Nat /\ L[i].from < L[i].to
    BY <1>3, <2>4, <2>5
  <2> QED BY <2>1, <2>4, <2>6, <2>7
<1>7. 0 \in S
  <2>1. ASSUME k + 1 <= n PROVE b[k] < b[k + 1]
    <3>1. k # n
      BY <1>1, <1>5, <2>1
    <3> QED BY <1>5, <1>6, <3>1
  <2>2. k + 1 + 0 = k + 1
    BY <1>5
  <2> QED BY <2>1, <2>2
<1>8. ASSUME NEW m \in S
      PROVE  m + 1 \in S
  <2> DEFINE x == k + 1 + m
  <2>1. m \in Nat /\ m + 1 \in Nat /\ (x <= n => b[k] < b[x])
    OBVIOUS
  <2>2. x \in Nat /\ x >= 1 /\ k + 1 + (m + 1) = x + 1
    BY <1>5, <2>1
  <2> HIDE DEF x
  <2>3. ASSUME x + 1 <= n PROVE b[k] < b[x + 1]
    <3>1. x \in 1 .. n /\ x # n /\ x <= n
      BY <1>1, <2>2, <2>3
    <3>2. b[x] < b[x + 1] /\ x + 1 \in 1 .. n
      BY <1>6, <3>1
    <3>3. b[k] \in Nat /\ b[x] \in Nat /\ b[x + 1] \in Nat
      BY <1>1, <1>5, <3>1, <3>2
    <3> QED BY <2>1, <3>1, <3>2, <3>3
  <2> QED BY <2>1, <2>2, <2>3
<1>9. S = Nat
  <2>1. S \in SUBSET Nat
    OBVIOUS
  <2> HIDE DEF S
  <2> QED BY <1>7, <1>8, <2>1, SetInduction
<1> DEFINE m == l - k - 1
<1>10. m \in Nat /\ k + 1 + m = l
  BY <1>5
<1> HIDE DEF m
<1>11. m \in S
  BY <1>9, <1>10
<1> QED BY <1>5, <1>10, <1>11 DEF b

LEMMA ReadAsMeant ==
  ASSUME JobsInv, NEW f \in JobFiles, NEW k \in DOMAIN begun[f],
         NEW stales \in [1 .. Len(begun[f]) -> Stale],
         NEW i, FromLine(f, k, i), Readable(f, Lines(f)[i])
  PROVE  CommandsRead(f, stales)[k] = Lines(f)[i].means
<1> DEFINE text == Text(f)
           L == Lines(f)
           s == stales[k]
           r == Reading(f, stales, k)
           from == L[i].from
           to == L[i].to
<1>1. IsText(text, L) /\ Nul \notin ToSet(text) /\ text \in Texts
  BY LinesOfTexts DEF JobsInv
<1>2. s \in DigitRuns
  <2>1. DOMAIN begun[f] = 1 .. Len(begun[f])
    BY LenProperties DEF JobsInv
  <2>2. s \in Stale
    BY <2>1
  <2> QED BY <2>2, StaleAre
<1>3. i \in 1 .. Len(L) /\ r = ReadCommand(text, from, s)
  BY DEF FromLine, Reading
<1>4. text[to] = Newline \/ L[i].means.op \notin WithNumbers
  BY DEF Readable, WithNumbers
<1>5. CommandsRead(f, stales)[k] = r.cmd
  BY DEF CommandsRead
<1> HIDE DEF text, L, s, r
<1>6. IsLine(text, from, to) /\ L[i].means = Meaning(Content(text, from, to))
  BY <1>1, <1>3, LinesAre
<1> HIDE DEF from, to
<1>7. ReadsAs(text, from, to, ReadCommand(text, from, s), Meaning(Content(text, from, to)))
  BY ONLY <1>1, <1>2, <1>6, LinesRead
<1>8. r.cmd = L[i].means
  BY <1>3, <1>4, <1>6, <1>7 DEF ReadsAs
<1> QED BY <1>5, <1>8 DEF L

-----------------------------------------------------------------------------
(* What the reference writes grows with each command.                      *)
LEMMA DoAppends ==
  ASSUME NEW s \in RefStates, NEW cmd, ArgumentsOK(cmd)
  PROVE  /\ s.out \in Seq(OutLines)
         /\ \E more \in Seq(OutLines) : Do(s, cmd).out = s.out \o more
<1>1. PICK events \in Stores, o \in Seq(OutLines) : s = StandsFor(events, o)
  BY DEF RefStates, StatesWith
<1>2. PICK more \in Seq(OutLines) :
        Do(s, cmd) = StandsFor(ListAfter(events, cmd), o \o more)
  BY <1>1, CommandDoesAsAsked
<1>3. s.out = o /\ Do(s, cmd).out = o \o more
  <2>1. \A x, y : StandsFor(x, y).out = y
    BY DEF StandsFor
  <2> QED BY <1>1, <1>2, <2>1
<1> QED BY <1>3

LEMMA RunSteps ==
  ASSUME NEW n \in Nat, NEW cmds, AllOK(cmds, n), NEW run, IsRun(run, n, cmds)
  PROVE  /\ run[1 .. 0] = Nothing
         /\ \A k \in 1 .. n : run[1 .. k] = Do(run[1 .. (k - 1)], cmds[k])
         /\ \A k \in 0 .. n : run[1 .. k] \in RefStates
<1>1. run[1 .. 0] = Nothing
  <2>1. {} \in SUBSET (1 .. n) /\ 1 .. 0 = {}
    OBVIOUS
  <2> QED BY <2>1 DEF IsRun
<1>2. ASSUME NEW k \in 1 .. n
      PROVE  run[1 .. k] = Do(run[1 .. (k - 1)], cmds[k])
  <2>1. /\ 1 .. k \in SUBSET (1 .. n) /\ 1 .. k # {}
        /\ Max(1 .. k) = k /\ (1 .. k) \ {k} = 1 .. (k - 1)
    BY PrefixesOfIndices
  <2> QED BY <2>1 DEF IsRun
<1>3. ASSUME NEW k \in 0 .. n
      PROVE  run[1 .. k] \in RefStates
  <2> DEFINE T == [m \in 0 .. k |-> RefStates]
  <2>1. k \in Nat /\ \A m \in 0 .. k : T[m] = RefStates
    OBVIOUS
  <2> HIDE DEF T
  <2>2. run[{}] \in T[0]
    <3>1. 1 .. 0 = {} /\ 0 \in 0 .. k
      BY <2>1
    <3> QED BY <1>1, <2>1, <3>1, NothingStands
  <2>3. ASSUME NEW m \in 1 .. k, run[1 .. (m - 1)] \in T[m - 1]
        PROVE  run[1 .. m] \in T[m]
    <3>1. m - 1 \in 0 .. k /\ m \in 0 .. k /\ m \in 1 .. n
      BY <2>1
    <3>2. run[1 .. (m - 1)] \in RefStates /\ ArgumentsOK(cmds[m])
      BY <2>1, <2>3, <3>1 DEF AllOK
    <3>3. run[1 .. m] = Do(run[1 .. (m - 1)], cmds[m])
      BY <1>2, <3>1
    <3>4. Do(run[1 .. (m - 1)], cmds[m]) \in RefStates
      BY <3>2, DoStays
    <3> QED BY <2>1, <3>1, <3>3, <3>4
  <2>4. run[1 .. k] \in T[k]
    BY <2>1, <2>2, <2>3, FoldSteps
  <2> QED BY <2>1, <2>4
<1> QED BY <1>1, <1>2, <1>3

(* What is expected is found line by line.                                 *)
Turn(f, s, line) == IF Heeded(f, line) THEN Do(s, line.means) ELSE s
IsLineRun(f, it) ==
  \A t \in SUBSET (1 .. Len(Lines(f))) :
    it[t] = IF t = {} THEN Nothing ELSE Turn(f, it[t \ {Max(t)}], Lines(f)[Max(t)])

LEMMA HeededIsBegun ==
  ASSUME LinesInv, NEW f \in JobFiles,
         NEW stales \in [1 .. Len(begun[f]) -> Stale],
         NEW i \in 1 .. Len(Lines(f)), Heeded(f, Lines(f)[i])
  PROVE  \E k \in DOMAIN begun[f] : /\ FromLine(f, k, i)
                                   /\ CommandsRead(f, stales)[k] = Lines(f)[i].means
<1>1. Lines(f)[i].from \in ToSet(begun[f]) /\ Readable(f, Lines(f)[i])
  BY DEF Heeded
<1>2. PICK k \in DOMAIN begun[f] : begun[f][k] = Lines(f)[i].from
  BY <1>1 DEF ToSet
<1>3. FromLine(f, k, i) /\ JobsInv
  BY <1>2 DEF FromLine, LinesInv, AnswersInv
<1>4. CommandsRead(f, stales)[k] = Lines(f)[i].means
  BY <1>1, <1>3, ReadAsMeant
<1> QED BY <1>3, <1>4

LEMMA ExpectedRun ==
  ASSUME LinesInv, NEW f \in JobFiles,
         NEW stales \in [1 .. Len(begun[f]) -> Stale],
         AllOK(CommandsRead(f, stales), Len(begun[f]))
  PROVE  \E run : IsLineRun(f, run) /\ Expected(f) = run[1 .. Len(Lines(f))].out
<1> DEFINE n == Len(Lines(f))
           L == Lines(f)
           S == RefStates
           Chosen(it) == it = [t \in SUBSET (1 .. n) |->
                                IF t = {} THEN Nothing
                                ELSE IF Heeded(f, L[Max(t)])
                                     THEN Do(it[t \ {Max(t)}], L[Max(t)].means)
                                     ELSE it[t \ {Max(t)}]]
           run == CHOOSE it : Chosen(it)
           step == [k \in 1 .. n |-> [s \in S |-> Turn(f, s, L[k])]]
<1>0. DOMAIN L = 1 .. n /\ n \in Nat
  BY LinesOfTexts DEF IsText, LinesInv, AnswersInv, JobsInv
<1>1. Expected(f) = run[1 .. n].out
  BY <1>0 DEF Expected, FoldLeft, MapThenFoldSet
<1>2. Nothing \in S
  BY NothingStands
<1>3. ASSUME NEW s \in S, NEW k \in 1 .. n
      PROVE  Turn(f, s, L[k]) \in S
  <2>1. CASE Heeded(f, L[k])
    <3>1. PICK m \in DOMAIN begun[f] : CommandsRead(f, stales)[m] = L[k].means
      BY <2>1, HeededIsBegun
    <3>2. ArgumentsOK(L[k].means)
      <4>1. m \in DOMAIN CommandsRead(f, stales)
        BY DEF CommandsRead
      <4> QED BY <3>1, <4>1 DEF AllOK
    <3> QED BY <2>1, <3>2, DoStays DEF Turn
  <2>2. CASE ~ Heeded(f, L[k])
    BY <2>2 DEF Turn
  <2> QED BY <2>1, <2>2
<1> HIDE DEF S, n, L
<1>4. step \in [1 .. n -> [S -> S]]
  BY <1>3
<1>5. PICK it \in [SUBSET (1 .. n) -> S] : IsFold(it, n, Nothing, step)
  <2> HIDE DEF step
  <2> QED BY <1>0, <1>2, <1>4, FoldExists
<1>6. ASSUME NEW t \in SUBSET (1 .. n)
      PROVE  it[t] = IF t = {} THEN Nothing ELSE Turn(f, it[t \ {Max(t)}], L[Max(t)])
  <2>1. CASE t # {}
    <3>1. Max(t) \in 1 .. n /\ it[t \ {Max(t)}] \in S
      BY <1>0, <2>1, MaxIsGreatest
    <3>2. step[Max(t)][it[t \ {Max(t)}]] = Turn(f, it[t \ {Max(t)}], L[Max(t)])
      BY <3>1
    <3> HIDE DEF step
    <3> QED BY <1>5, <2>1, <3>2 DEF IsFold
  <2>2. CASE t = {}
    <3> HIDE DEF step
    <3> QED BY <1>5, <2>2 DEF IsFold
  <2> QED BY <2>1, <2>2
<1>7. Chosen(it)
  BY <1>5, <1>6 DEF Turn
<1>8. Chosen(run)
  <2> HIDE DEF Chosen
  <2> QED BY <1>7
<1> HIDE DEF run
<1>9. IsLineRun(f, run)
  BY <1>8 DEF IsLineRun, Turn, n, L
<1> QED BY <1>1, <1>9 DEF n

(* After so many lines, what is expected is the state after the commands   *)
(* that began in them.                                                     *)
Pos(f, t) == IF t = 0 THEN 0 ELSE Lines(f)[t].to
BegunIn(f, t, k) ==
  /\ k \in 0 .. Len(begun[f])
  /\ \A m \in 1 .. Len(begun[f]) : IF m <= k THEN begun[f][m] < Pos(f, t)
                                            ELSE begun[f][m] >= Pos(f, t)

(* A command that did not begin in the lines up to t, and does not begin   *)
(* the next one, begins behind it.                                         *)
LEMMA BegunBehind ==
  ASSUME LinesInv, NEW f \in JobFiles,
         NEW stales \in [1 .. Len(begun[f]) -> Stale], ReadInTurn(f, stales),
         NEW t \in 1 .. Len(Lines(f)), NEW m \in 1 .. Len(begun[f]),
         begun[f][m] >= Lines(f)[t].from, begun[f][m] # Lines(f)[t].from
  PROVE  begun[f][m] >= Lines(f)[t].to
<1> DEFINE L == Lines(f)
<1>1. m \in DOMAIN begun[f] /\ JobsInv
  BY LenProperties DEF LinesInv, AnswersInv, JobsInv
<1>2. PICK i : FromLine(f, m, i)
  BY <1>1, EveryCommandFromLine
<1>3. IsText(Text(f), L) /\ Text(f) \in Texts
  BY <1>1, LinesOfTexts DEF JobsInv
<1>4. Len(L) \in Nat /\ \A j \in 1 .. Len(L) : /\ L[j].from \in Nat /\ L[j].to \in Nat
                                               /\ L[j].from < L[j].to
  BY <1>3, LinesAre
<1>5. \A j, l \in 1 .. Len(L) : j < l => L[j].to <= L[l].from
  BY <1>3, LinesInOrder
<1>6. i \in 1 .. Len(L) /\ begun[f][m] = L[i].from /\ t \in 1 .. Len(L)
  BY <1>2 DEF FromLine
<1>7. L[i].from >= L[t].from /\ L[i].from # L[t].from
  BY <1>6
<1> HIDE DEF L
<1>8. t < i
  <2>1. i # t
    BY <1>7
  <2>2. ASSUME i < t PROVE FALSE
    <3>1. L[i].to <= L[t].from /\ L[i].from < L[i].to
      BY <1>4, <1>5, <1>6, <2>2
    <3> QED BY <1>4, <1>6, <1>7, <3>1
  <2> QED BY <1>4, <1>6, <2>1, <2>2
<1>9. L[t].to <= L[i].from
  BY <1>5, <1>6, <1>8
<1> QED BY <1>4, <1>6, <1>9 DEF L

(* One line more: either its command begins there, and is the next one, or *)
(* none does.                                                              *)
LEMMA OneLineMore ==
  ASSUME LinesInv, NEW f \in JobFiles,
         NEW stales \in [1 .. Len(begun[f]) -> Stale], ReadInTurn(f, stales),
         NEW t \in 1 .. Len(Lines(f)), NEW k, BegunIn(f, t - 1, k)
  PROVE  IF Lines(f)[t].from \in ToSet(begun[f])
         THEN /\ k + 1 \in 1 .. Len(begun[f]) /\ FromLine(f, k + 1, t)
              /\ BegunIn(f, t, k + 1)
         ELSE BegunIn(f, t, k)
<1> DEFINE L == Lines(f)
           b == begun[f]
           n == Len(begun[f])
           from == L[t].from
           to == L[t].to
<1>1. n \in Nat /\ DOMAIN b = 1 .. n /\ JobsInv
  BY LenProperties DEF LinesInv, AnswersInv, JobsInv
<1>2. \A m \in 1 .. n : b[m] \in Nat
  <2>1. b \in Seq(0 .. Len(Text(f)))
    BY <1>1 DEF JobsInv
  <2>2. \A m \in 1 .. n : b[m] \in 0 .. Len(Text(f))
    BY <2>1, ElementOfSeq
  <2>3. Len(Text(f)) \in Nat
    BY <1>1, TextsAre DEF JobsInv, Texts
  <2> HIDE DEF n, b
  <2> QED BY <2>2, <2>3
<1>3. /\ Len(L) \in Nat /\ from \in Nat /\ to \in Nat /\ from < to
      /\ Pos(f, t) = to /\ Pos(f, t - 1) = from
  <2>1. IsText(Text(f), L) /\ Text(f) \in Texts
    BY <1>1, LinesOfTexts DEF JobsInv
  <2>2. /\ Len(L) \in Nat /\ (Len(L) # 0 => L[1].from = 0)
        /\ \A i \in 1 .. Len(L) : /\ L[i].from \in Nat /\ L[i].to \in Nat /\ L[i].from < L[i].to
                                  /\ i # Len(L) => L[i + 1].from = L[i].to
    BY <2>1, LinesAre
  <2>3. t \in 1 .. Len(L)
    OBVIOUS
  <2> HIDE DEF L
  <2>4. t \in Nat /\ t # 0 /\ Len(L) # 0
    BY <2>2, <2>3
  <2>5. CASE t = 1
    <3>1. t - 1 = 0
      BY <2>5
    <3> QED BY <2>2, <2>3, <2>4, <2>5, <3>1 DEF Pos, L
  <2>6. CASE t # 1
    <3> DEFINE u == t - 1
    <3>1. u \in 1 .. Len(L) /\ u # Len(L) /\ u # 0 /\ u + 1 = t
      BY <2>2, <2>3, <2>4, <2>6
    <3> HIDE DEF u
    <3>2. L[u + 1].from = L[u].to
      BY <2>2, <3>1
    <3>3. Pos(f, u) = L[u].to
      BY <3>1 DEF Pos, L
    <3> QED BY <2>2, <2>3, <2>4, <3>1, <3>2, <3>3 DEF Pos, L, u
  <2> QED BY <2>5, <2>6
<1>4. /\ k \in 0 .. n
      /\ \A m \in 1 .. n : IF m <= k THEN b[m] < from ELSE b[m] >= from
  BY <1>3 DEF BegunIn
<1>5. \A m \in 1 .. n : b[m] >= from /\ b[m] # from => b[m] >= to
  BY BegunBehind
<1>6. \A m, l \in 1 .. n : m < l => b[m] < b[l]
  BY <1>1, BegunInOrder
<1>7. t \in 1 .. Len(L)
  OBVIOUS
<1> HIDE DEF n, b, L, from, to
<1>8. k \in Nat /\ k <= n
  BY <1>1, <1>4
<1>9. CASE from \in ToSet(b)
  <2>1. PICK m \in 1 .. n : b[m] = from
    BY <1>1, <1>9 DEF ToSet
  <2>2. m \in Nat /\ m > k
    BY <1>1, <1>3, <1>4, <1>8, <2>1
  <2>3. m = k + 1
    <3>1. ASSUME k + 1 < m PROVE FALSE
      <4>1. k + 1 \in 1 .. n /\ ~ (k + 1 <= k)
        BY <1>1, <1>8, <2>1, <3>1
      <4>2. b[k + 1] >= from /\ b[k + 1] < b[m] /\ b[k + 1] \in Nat
        BY <1>2, <1>4, <1>6, <2>1, <3>1, <4>1
      <4> QED BY <1>3, <2>1, <4>2
    <3> QED BY <1>8, <2>2, <3>1
  <2>4. ASSUME NEW x \in 1 .. n
        PROVE  IF x <= k + 1 THEN b[x] < to ELSE b[x] >= to
    <3>0. x \in Nat /\ b[x] \in Nat
      BY <1>2
    <3>1. CASE x <= k
      <4>1. b[x] < from
        BY <1>4, <3>1
      <4> QED BY <1>3, <1>8, <3>0, <3>1, <4>1
    <3>2. CASE x = k + 1
      <4>1. b[x] = from /\ x <= k + 1
        BY <2>1, <2>3, <3>0, <3>2
      <4> QED BY <1>3, <4>1
    <3>3. CASE x > k + 1
      <4>1. m < x /\ ~ (x <= k + 1)
        BY <1>8, <2>3, <3>0, <3>3
      <4>2. b[m] < b[x]
        BY <1>6, <4>1
      <4>3. b[x] >= from /\ b[x] # from
        BY <1>3, <2>1, <3>0, <4>2
      <4> QED BY <1>5, <4>1, <4>3
    <3> QED BY <1>8, <3>0, <3>1, <3>2, <3>3
  <2>5. k + 1 \in 1 .. n /\ k + 1 \in 0 .. n
    BY <1>1, <1>8, <2>1, <2>3
  <2>6. b[k + 1] = from
    BY <2>1, <2>3
  <2>7. FromLine(f, k + 1, t)
    BY <1>7, <2>6 DEF FromLine, b, from, L
  <2>8. BegunIn(f, t, k + 1)
    BY <1>3, <2>4, <2>5 DEF BegunIn, b, n
  <2> QED BY <1>9, <2>5, <2>7, <2>8 DEF b, n, from, L
<1>10. CASE from \notin ToSet(b)
  <2>1. \A m \in 1 .. n : b[m] # from
    BY <1>1, <1>10 DEF ToSet
  <2>2. ASSUME NEW x \in 1 .. n
        PROVE  IF x <= k THEN b[x] < to ELSE b[x] >= to
    <3>1. CASE x <= k
      BY <1>2, <1>3, <1>4, <3>1
    <3>2. CASE ~ (x <= k)
      BY <1>4, <1>5, <2>1, <3>2
    <3> QED BY <3>1, <3>2
  <2>3. BegunIn(f, t, k)
    BY <1>3, <1>4, <2>2 DEF BegunIn, b, n
  <2> QED BY <1>10, <2>3 DEF b, from, L
<1> QED BY <1>9, <1>10

(* After all lines: all commands were done, or all but the last, which has *)
(* a number that nothing ends.                                             *)
AllReadable(f) == \A i \in BegunLines(f) : Readable(f, Lines(f)[i])

LEMMA LinesDone ==
  ASSUME LinesInv, NEW f \in JobFiles,
         NEW stales \in [1 .. Len(begun[f]) -> Stale], ReadInTurn(f, stales),
         AllOK(CommandsRead(f, stales), Len(begun[f])),
         NEW run, IsRun(run, Len(begun[f]), CommandsRead(f, stales)),
         NEW it, IsLineRun(f, it)
  PROVE  \/ it[1 .. Len(Lines(f))] = run[1 .. Len(begun[f])]
         \/ /\ ~ AllReadable(f) /\ Len(begun[f]) # 0
            /\ it[1 .. Len(Lines(f))] = run[1 .. (Len(begun[f]) - 1)]
<1> DEFINE L == Lines(f)
           n == Len(begun[f])
           N == Len(L)
           cmds == CommandsRead(f, stales)
           Done(t) == {s \in {run[1 .. k] : k \in 0 .. n} :
                         \E k \in 0 .. n : s = run[1 .. k] /\ BegunIn(f, t, k)}
           Short(t) == {s \in {run[1 .. (n - 1)]} : t = N /\ ~ AllReadable(f) /\ n # 0}
           T == [t \in 0 .. N |-> Done(t) \cup Short(t)]
<1>1. /\ n \in Nat /\ DOMAIN begun[f] = 1 .. n /\ JobsInv
      /\ \A m \in 1 .. n : begun[f][m] < Len(Text(f))
      /\ \A m \in 1 .. n : begun[f][m] \in Nat
  <2>1. /\ n \in Nat /\ DOMAIN begun[f] = 1 .. n /\ JobsInv
        /\ \A m \in 1 .. n : begun[f][m] < Len(Text(f))
    BY LenProperties DEF LinesInv, AnswersInv, JobsInv
  <2>2. begun[f] \in Seq(0 .. Len(Text(f)))
    BY <2>1 DEF JobsInv
  <2>3. \A m \in 1 .. n : begun[f][m] \in 0 .. Len(Text(f))
    BY <2>2, ElementOfSeq
  <2>4. Len(Text(f)) \in Nat
    BY <2>1, TextsAre DEF JobsInv, Texts
  <2> HIDE DEF n
  <2> QED BY <2>1, <2>3, <2>4
<1>2. /\ N \in Nat /\ (N # 0 => L[N].to = Len(Text(f)))
      /\ Len(Text(f)) \in Nat /\ DOMAIN L = 1 .. N
      /\ \A i \in 1 .. N : i # N => Text(f)[L[i].to] = Newline
  <2>1. IsText(Text(f), L) /\ Text(f) \in Texts
    BY <1>1, LinesOfTexts DEF JobsInv
  <2> QED BY <2>1, LinesAre
<1>3. /\ run[1 .. 0] = Nothing
      /\ \A k \in 1 .. n : run[1 .. k] = Do(run[1 .. (k - 1)], cmds[k])
  BY <1>1, RunSteps
<1>4. ASSUME NEW t \in 1 .. N, NEW k, BegunIn(f, t - 1, k)
      PROVE  IF L[t].from \in ToSet(begun[f])
             THEN k + 1 \in 1 .. n /\ FromLine(f, k + 1, t) /\ BegunIn(f, t, k + 1)
             ELSE BegunIn(f, t, k)
  BY <1>4, OneLineMore
<1>5. /\ it[{}] = Nothing
      /\ \A t \in 1 .. N : it[1 .. t] = Turn(f, it[1 .. (t - 1)], L[t])
  <2>1. it[{}] = Nothing
    <3>1. {} \in SUBSET (1 .. N)
      OBVIOUS
    <3> QED BY <3>1 DEF IsLineRun
  <2>2. ASSUME NEW t \in 1 .. N
        PROVE  it[1 .. t] = Turn(f, it[1 .. (t - 1)], L[t])
    <3>1. /\ 1 .. t \in SUBSET (1 .. N) /\ 1 .. t # {}
          /\ Max(1 .. t) = t /\ (1 .. t) \ {t} = 1 .. (t - 1)
      BY <1>2, PrefixesOfIndices
    <3> QED BY <3>1 DEF IsLineRun
  <2> QED BY <2>1, <2>2
<1>6. ASSUME NEW t \in 1 .. N, Heeded(f, L[t]), NEW k, FromLine(f, k, t), k \in 1 .. n
      PROVE  L[t].means = cmds[k]
  <2>1. Readable(f, L[t])
    BY <1>6 DEF Heeded
  <2> QED BY <1>1, <1>6, <2>1, ReadAsMeant
<1>7. \A t \in 1 .. N : ~ Readable(f, L[t]) => t = N
  BY <1>2 DEF Readable
<1> HIDE DEF n, N, L, cmds
<1>8. ASSUME NEW t \in 0 .. N, NEW k, BegunIn(f, t, k)
      PROVE  run[1 .. k] \in Done(t)
  <2>1. k \in 0 .. n
    BY <1>8 DEF BegunIn, n
  <2> QED BY <1>8, <2>1
<1>9. ASSUME NEW t \in 0 .. N, NEW s \in Done(t)
      PROVE  \E k \in 0 .. n : s = run[1 .. k] /\ BegunIn(f, t, k)
  BY <1>9
<1>10. \A t \in 0 .. N : T[t] = Done(t) \cup Short(t)
  OBVIOUS
<1>11. ASSUME NEW t \in 0 .. N, t # N
       PROVE  Short(t) = {}
  BY <1>11
<1>12. ASSUME ~ AllReadable(f), n # 0
       PROVE  run[1 .. (n - 1)] \in Short(N)
  BY <1>12
<1>13. ASSUME NEW s \in Short(N)
       PROVE  ~ AllReadable(f) /\ n # 0 /\ s = run[1 .. (n - 1)]
  BY <1>13
<1> HIDE DEF Done, Short, T
<1>14. it[{}] \in T[0]
  <2>1. BegunIn(f, 0, 0)
    <3>1. /\ 0 \in 0 .. n
          /\ \A m \in 1 .. n : IF m <= 0 THEN begun[f][m] < 0 ELSE begun[f][m] >= 0
      BY <1>1
    <3>2. Pos(f, 0) = 0
      BY DEF Pos
    <3> QED BY <3>1, <3>2 DEF BegunIn, n
  <2>2. 0 \in 0 .. N
    BY <1>2
  <2> QED BY <1>3, <1>5, <1>8, <1>10, <2>1, <2>2
<1>15. ASSUME NEW t \in 1 .. N, it[1 .. (t - 1)] \in T[t - 1]
       PROVE  it[1 .. t] \in T[t]
  <2>1. t \in 0 .. N /\ t - 1 \in 0 .. N /\ t - 1 # N /\ t \in Nat
    BY <1>2
  <2>2. PICK k \in 0 .. n : it[1 .. (t - 1)] = run[1 .. k] /\ BegunIn(f, t - 1, k)
    BY <1>9, <1>10, <1>11, <1>15, <2>1
  <2>3. it[1 .. t] = Turn(f, run[1 .. k], L[t])
    BY <1>5, <2>2
  <2>4. CASE L[t].from \notin ToSet(begun[f])
    <3>1. BegunIn(f, t, k)
      BY <1>4, <2>2, <2>4
    <3>2. it[1 .. t] = run[1 .. k]
      BY <2>3, <2>4 DEF Turn, Heeded
    <3> QED BY <1>8, <1>10, <2>1, <3>1, <3>2
  <2>5. CASE L[t].from \in ToSet(begun[f])
    <3>1. k + 1 \in 1 .. n /\ FromLine(f, k + 1, t) /\ BegunIn(f, t, k + 1)
      BY <1>4, <2>2, <2>5
    <3>2. CASE Heeded(f, L[t])
      <4>1. L[t].means = cmds[k + 1]
        BY <1>6, <3>1, <3>2
      <4>2. it[1 .. t] = Do(run[1 .. k], cmds[k + 1])
        BY <2>3, <3>2, <4>1 DEF Turn
      <4> DEFINE x == k + 1
      <4>3. x \in 1 .. n /\ x - 1 = k
        BY <1>1, <3>1
      <4> HIDE DEF x
      <4>4. run[1 .. x] = Do(run[1 .. k], cmds[x])
        BY <1>3, <4>3
      <4>5. it[1 .. t] = run[1 .. x] /\ BegunIn(f, t, x)
        BY <3>1, <4>2, <4>4 DEF x
      <4> QED BY <1>8, <1>10, <2>1, <4>5
    <3>3. CASE ~ Heeded(f, L[t])
      <4>1. ~ Readable(f, L[t])
        BY <2>5, <3>3 DEF Heeded
      <4>2. t = N
        BY <1>7, <4>1
      <4>3. ~ AllReadable(f)
        <5>1. t \in BegunLines(f)
          BY <1>2, <2>5 DEF BegunLines, L
        <5> QED BY <4>1, <5>1 DEF AllReadable, L
      <4>4. k + 1 = n
        <5>1. ASSUME k + 1 # n PROVE FALSE
          <6>1. n \in 1 .. n /\ ~ (n <= k + 1) /\ k \in Nat
            BY <1>1, <3>1, <5>1
          <6>2. begun[f][n] >= Pos(f, t)
            BY <3>1, <6>1 DEF BegunIn, n
          <6>3. Pos(f, t) = Len(Text(f))
            BY <1>2, <2>1, <4>2 DEF Pos, L
          <6>4. begun[f][n] < Len(Text(f)) /\ begun[f][n] \in Nat
            BY <1>1, <6>1
          <6> QED BY <1>2, <6>2, <6>3, <6>4
        <5> QED BY <5>1
      <4>5. n # 0 /\ n - 1 = k
        BY <1>1, <3>1, <4>4
      <4>6. it[1 .. t] = run[1 .. (n - 1)]
        BY <2>3, <3>3, <4>5 DEF Turn
      <4>7. run[1 .. (n - 1)] \in Short(N)
        BY <1>12, <4>3, <4>5
      <4> QED BY <1>10, <2>1, <4>2, <4>6, <4>7
    <3> QED BY <3>2, <3>3
  <2> QED BY <2>4, <2>5
<1>16. it[1 .. N] \in T[N]
  BY <1>2, <1>14, <1>15, FoldSteps
<1>17. N \in 0 .. N
  BY <1>2
<1>18. CASE it[1 .. N] \in Done(N)
  <2>1. PICK k \in 0 .. n : it[1 .. N] = run[1 .. k] /\ BegunIn(f, N, k)
    BY <1>9, <1>17, <1>18
  <2>2. k = n
    <3>1. ASSUME k # n PROVE FALSE
      <4>1. n \in 1 .. n /\ ~ (n <= k)
        BY <1>1, <3>1
      <4>2. begun[f][n] >= Pos(f, N)
        BY <2>1, <4>1 DEF BegunIn, n
      <4>3. begun[f][n] < Len(Text(f)) /\ begun[f][n] \in Nat
        BY <1>1, <4>1
      <4>4. N # 0
        <5>1. Len(Text(f)) # 0
          BY <1>2, <4>3
        <5>2. IsText(Text(f), L) /\ Text(f) \in Texts
          BY <1>1, LinesOfTexts DEF JobsInv, L
        <5> QED BY <5>1, <5>2, LinesAre DEF N
      <4>5. Pos(f, N) = Len(Text(f))
        BY <1>2, <4>4 DEF Pos, L
      <4> QED BY <1>2, <4>2, <4>3, <4>5
    <3> QED BY <3>1
  <2> QED BY <2>1, <2>2 DEF n, N, L
<1>19. CASE it[1 .. N] \in Short(N)
  <2>1. ~ AllReadable(f) /\ n # 0 /\ it[1 .. N] = run[1 .. (n - 1)]
    BY <1>13, <1>19
  <2> QED BY <2>1 DEF n, N, L
<1> QED BY <1>10, <1>16, <1>17, <1>18, <1>19

(* The output of every child is, at any time, what the lines it has begun  *)
(* ask for, by the grammar and JobReference, whatever the file holds and   *)
(* whatever the other children do.                                         *)
THEOREM OutputsAreRight == JobsSpec => []OutputsRight
<1>1. ASSUME LinesInv, NEW f \in JobFiles
      PROVE  LET expected == Expected(f)
             IN /\ Len(expected) <= Len(out[f])
                /\ \A i \in DOMAIN expected : SameLine(expected[i], out[f][i])
                /\ (\A i \in BegunLines(f) : Readable(f, Lines(f)[i])) =>
                     Len(expected) = Len(out[f])
  <2> DEFINE n == Len(begun[f])
             e == Expected(f)
             Goal == /\ Len(e) <= Len(out[f])
                     /\ \A i \in DOMAIN e : SameLine(e[i], out[f][i])
                     /\ AllReadable(f) => Len(e) = Len(out[f])
  <2> SUFFICES Goal
    BY DEF AllReadable
  <2>1. PICK stales \in [1 .. Len(begun[f]) -> Stale], o \in Seq(OutLines) :
          Follows(f, stales, o)
    BY <1>1 DEF LinesInv, AnswersInv, AnsweredSoFar
  <2> DEFINE cmds == CommandsRead(f, stales)
  <2>2. /\ ReadInTurn(f, stales) /\ AllOK(cmds, n)
        /\ StateAfter(cmds) = StandsFor(list[f], o) /\ SameLines(o, out[f])
    BY <2>1 DEF Follows
  <2>3. n \in Nat
    BY <1>1, LenProperties DEF LinesInv, AnswersInv, JobsInv
  <2>4. PICK run : IsRun(run, n, cmds) /\ StateAfter(cmds) = run[1 .. n]
    BY <2>2, <2>3, RunOf
  <2>5. PICK it : IsLineRun(f, it) /\ Expected(f) = it[1 .. Len(Lines(f))].out
    BY <1>1, <2>2, ExpectedRun
  <2>6. \/ it[1 .. Len(Lines(f))] = run[1 .. n]
        \/ /\ ~ AllReadable(f) /\ n # 0
           /\ it[1 .. Len(Lines(f))] = run[1 .. (n - 1)]
    BY <1>1, <2>2, <2>4, <2>5, LinesDone
  <2>7. run[1 .. n].out = o
    <3>1. \A x, y : StandsFor(x, y).out = y
      BY DEF StandsFor
    <3>2. run[1 .. n] = StandsFor(list[f], o)
      BY <2>2, <2>4
    <3> QED BY ONLY <3>1, <3>2
  <2>8. /\ Len(o) \in Nat /\ DOMAIN o = 1 .. Len(o) /\ Len(o) = Len(out[f])
        /\ \A i \in 1 .. Len(o) : SameLine(o[i], out[f][i])
    BY <2>2, LenProperties DEF SameLines
  <2> HIDE DEF n, cmds
  <2>9. e = run[1 .. n].out \/ (~ AllReadable(f) /\ n # 0 /\ e = run[1 .. (n - 1)].out)
    BY <2>5, <2>6
  <2> HIDE DEF e
  <2>10. CASE e = run[1 .. n].out
    BY <2>7, <2>8, <2>10
  <2>11. CASE ~ AllReadable(f) /\ n # 0 /\ e = run[1 .. (n - 1)].out
    <3>1. n \in 1 .. n /\ n - 1 \in 0 .. n
      BY <2>3, <2>11
    <3>2. run[1 .. n] = Do(run[1 .. (n - 1)], cmds[n]) /\ run[1 .. (n - 1)] \in RefStates
      BY <2>2, <2>3, <2>4, <3>1, RunSteps
    <3>3. ArgumentsOK(cmds[n])
      BY <2>2, <3>1 DEF AllOK
    <3> DEFINE s == run[1 .. (n - 1)]
    <3> HIDE DEF s
    <3>4. /\ s.out \in Seq(OutLines)
          /\ \E more \in Seq(OutLines) : Do(s, cmds[n]).out = s.out \o more
      BY <3>2, <3>3, DoAppends DEF s
    <3>5. PICK more \in Seq(OutLines) : o = e \o more
      BY <2>7, <2>11, <3>2, <3>4 DEF s
    <3>6. e \in Seq(OutLines)
      BY <2>11, <3>4 DEF s
    <3>7. Len(e) \in Nat /\ Len(more) \in Nat /\ DOMAIN e = 1 .. Len(e)
      BY <3>6, LenProperties
    <3>8. Len(o) = Len(e) + Len(more) /\ \A i \in 1 .. Len(e) : o[i] = e[i]
      <4>1. /\ Len(e \o more) = Len(e) + Len(more)
            /\ \A i \in 1 .. Len(e) + Len(more) :
                 (e \o more)[i] = IF i <= Len(e) THEN e[i] ELSE more[i - Len(e)]
        BY <3>6, ConcatProperties
      <4> QED BY <3>5, <3>7, <4>1
    <3> QED BY <2>8, <2>11, <3>7, <3>8
  <2> QED BY <2>9, <2>10, <2>11
<1>2. ASSUME LinesInv
      PROVE  OutputsRight
  BY <1>1, <1>2 DEF OutputsRight
<1> QED BY <1>2, LinesInvariance, PTL
=============================================================================
