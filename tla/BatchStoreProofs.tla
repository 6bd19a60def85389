-------------------------- MODULE BatchStoreProofs --------------------------
(***************************************************************************)
(* Theorems about BatchStore, for any number of threads and calls, any     *)
(* event ids, any seating plans and any requests.                          *)
(***************************************************************************)
EXTENDS BatchStore, CommonProofs, SequenceTheorems, FiniteSetTheorems, TLAPS

USE InterfaceAssumption, BatchStoreAssumption

-----------------------------------------------------------------------------
(* The inductive invariant.  A thread's command matches its place, it has  *)
(* exactly the locks of its place, and its event pointer is good.          *)
EventUsed == Holding \cup {"reserveMutex", "showOutput", "showSeat"}

RequestMatches(t) ==
  /\ pc[t] = "idle" <=> call[t] = NoRequest
  /\ pc[t] \in CreateLabels => Request(t) \in CreateCalls
  /\ pc[t] \in ReserveLabels => Request(t) \in ReserveCalls
  /\ pc[t] \in ShowLabels => Request(t) \in ShowCalls
  /\ pc[t] \in ListLabels => Request(t) \in ListCalls
LocksMatch(t) ==
  /\ outputLock = t <=> pc[t] \in Printing
  /\ \A i \in DOMAIN list : list[i].mutex = t <=> pc[t] \in Holding /\ ev[t] = i
PointersGood(t) ==
  /\ pc[t] \in EventUsed => ev[t] \in DOMAIN list /\ list[ev[t]].id = Request(t).id
  /\ pc[t] = "showSeat" => cur[t] > 0
  /\ pc[t] \in {"listOutput", "listNode"} => list # <<>>
  /\ pc[t] = "listNode" => cur[t] \in 0 .. Len(list)

(* The reservations of an event that were made, without the one that is    *)
(* being made.                                                             *)
Made(e) == IF Numbered(e) THEN e.reservations - 1 ELSE e.reservations

(* The k-th seat of a request, and why it makes reservation n of event e   *)
(* fail: it is not in the plan, it is taken, or the request names it twice.*)
Place(e, seats, k) == SeatIndex(e, seats[k][1], seats[k][2])
Inside(e, seats, k) == InBounds(e, seats[k][1], seats[k][2])
Blocked(e, seats, k, n) ==
  \/ ~ Inside(e, seats, k)
  \/ e.data[Place(e, seats, k)] \notin {0, n}
  \/ \E j \in 1 .. (k - 1) : Place(e, seats, j) = Place(e, seats, k)

(* Of the seats that reservation n has passed, each another one, those     *)
(* that are marked are the ones of the event that carry its number.        *)
CarryNumber(e, seats, passed, marked, n) ==
  /\ \A k \in passed : Inside(e, seats, k)
  /\ \A j, k \in passed : Place(e, seats, j) = Place(e, seats, k) => j = k
  /\ \A p \in Places(e) : e.data[p] = n <=> \E k \in marked : Place(e, seats, k) = p

(* The loop of ems_reserve, and the one that undoes it.                    *)
Passed(t) == 1 .. ((IF pc[t] = "rollbackSeat" THEN stop[t] ELSE cur[t]) - 1)
Marked(t) == IF pc[t] = "rollbackSeat" THEN cur[t] .. (stop[t] - 1)
             ELSE 1 .. (cur[t] - 1)
BlockedAt(t, k) == Blocked(list[ev[t]], Seats(t), k, rid[t])

LoopMatches(t) ==
  /\ pc[t] = "reserveSeat" => cur[t] \in 1 .. (Len(Seats(t)) + 1)
  /\ pc[t] = "reserveMark" => cur[t] \in 1 .. Len(Seats(t)) /\ SeatIsFree(t)
  /\ pc[t] = "rollback" => cur[t] \in 1 .. Len(Seats(t)) /\ BlockedAt(t, cur[t])
  /\ pc[t] = "rollbackSeat" =>
       stop[t] \in 1 .. Len(Seats(t)) /\ cur[t] \in 1 .. stop[t] /\ BlockedAt(t, stop[t])
MarksMatch(t) ==
  pc[t] \in Making =>
    /\ rid[t] > 0 /\ rid[t] = Made(list[ev[t]]) + 1
    /\ CarryNumber(list[ev[t]], Seats(t), Passed(t), Marked(t), rid[t])

ThreadInv(t) == /\ RequestMatches(t) /\ LocksMatch(t) /\ PointersGood(t)
                /\ LoopMatches(t) /\ MarksMatch(t)

(* A seat is free, or of a reservation that was made, or of the one in the *)
(* making; and every reservation that was made has a seat.                 *)
SeatsMatch(i) ==
  LET e == list[i]
  IN /\ \A p \in Places(e) : e.data[p] \in 0 .. Made(e) \/ InTheMaking(e, p)
     /\ \A n \in 1 .. Made(e) : \E p \in Places(e) : e.data[p] = n

BatchInv ==
  /\ TypeOK /\ UniqueEventIds
  /\ \A t \in Workers : ThreadInv(t)
  /\ \A i \in DOMAIN list : SeatsMatch(i)

-----------------------------------------------------------------------------
(* The list as a sequence of events.                                       *)
AnyEvent == UNION {Event(d) : d \in Dims}

LEMMA ListIsSeq ==
  ASSUME ListTypeOK
  PROVE  /\ list \in Seq(AnyEvent)
         /\ Len(list) \in Nat
         /\ DOMAIN list = 1 .. Len(list)
BY DEF ListTypeOK, AnyEvent

LEMMA SeqIsList ==
  ASSUME list' \in Seq(AnyEvent)
  PROVE  ListTypeOK'
BY DEF ListTypeOK, AnyEvent

LEMMA AnyEventType ==
  ASSUME NEW e \in AnyEvent
  PROVE  /\ e.id \in EventIds /\ e.reservations \in Nat
         /\ e.rows \in Nat /\ e.cols \in Nat
         /\ e.data \in [Places(e) -> Nat]
         /\ e.mutex \in Workers \cup {NoOne}
<1>1. PICK d \in Dims : e \in Event(d)
  BY DEF AnyEvent
<1> QED BY <1>1 DEF Event, Places

(* An event with another mutex, count or seats is an event of that plan.   *)
LEMMA MutexUpdate ==
  ASSUME NEW e \in AnyEvent, NEW m \in Workers \cup {NoOne}, NEW f, f = [e EXCEPT !.mutex = m]
  PROVE  /\ f \in AnyEvent
         /\ f.id = e.id /\ f.rows = e.rows /\ f.cols = e.cols
         /\ f.mutex = m /\ f.reservations = e.reservations /\ f.data = e.data
<1>1. PICK d \in Dims : e \in Event(d)
  BY DEF AnyEvent
<1>2. f \in Event(d)
  BY <1>1 DEF Event
<1> QED BY <1>1, <1>2 DEF AnyEvent, Event

LEMMA CountUpdate ==
  ASSUME NEW e \in AnyEvent, NEW n \in Nat, NEW f, f = [e EXCEPT !.reservations = n]
  PROVE  /\ f \in AnyEvent
         /\ f.id = e.id /\ f.rows = e.rows /\ f.cols = e.cols
         /\ f.mutex = e.mutex /\ f.reservations = n /\ f.data = e.data
<1>1. PICK d \in Dims : e \in Event(d)
  BY DEF AnyEvent
<1>2. f \in Event(d)
  BY <1>1 DEF Event
<1> QED BY <1>1, <1>2 DEF AnyEvent, Event

LEMMA DataUpdate ==
  ASSUME NEW e \in AnyEvent, NEW a \in [Places(e) -> Nat], NEW f, f = [e EXCEPT !.data = a]
  PROVE  /\ f \in AnyEvent
         /\ f.id = e.id /\ f.rows = e.rows /\ f.cols = e.cols
         /\ f.mutex = e.mutex /\ f.reservations = e.reservations /\ f.data = a
<1>1. PICK d \in Dims : e \in Event(d)
  BY DEF AnyEvent
<1>2. a \in [Places([rows |-> d[1], cols |-> d[2]]) -> Nat]
  BY <1>1 DEF Event, Places
<1>3. f \in Event(d)
  BY <1>1, <1>2 DEF Event
<1> QED BY <1>1, <1>3 DEF AnyEvent, Event

LEMMA ReplaceEvent ==
  ASSUME ListTypeOK, NEW i \in DOMAIN list, NEW e \in AnyEvent,
         list' = [list EXCEPT ![i] = e]
  PROVE  /\ ListTypeOK'
         /\ DOMAIN list' = DOMAIN list
         /\ Len(list') = Len(list)
         /\ list'[i] = e
         /\ \A j \in DOMAIN list : j # i => list'[j] = list[j]
BY ListIsSeq, SeqIsList

LEMMA AppendEvent ==
  ASSUME ListTypeOK, NEW e \in AnyEvent, list' = Append(list, e)
  PROVE  /\ ListTypeOK'
         /\ DOMAIN list' = 1 .. (Len(list) + 1)
         /\ Len(list') = Len(list) + 1
         /\ list'[Len(list) + 1] = e
         /\ \A j \in DOMAIN list : list'[j] = list[j]
BY ListIsSeq, SeqIsList

LEMMA NewEventType ==
  ASSUME NEW c \in CreateCalls
  PROVE  /\ NewEvent(c) \in AnyEvent
         /\ NewEvent(c).id = c.id /\ NewEvent(c).mutex = NoOne
         /\ NewEvent(c).reservations = 0
         /\ \A p \in Places(NewEvent(c)) : NewEvent(c).data[p] = 0
         /\ NewEvent(c).rows = c.dims[1] /\ NewEvent(c).cols = c.dims[2]
BY DEF AnyEvent, Event, Places, NewEvent, CreateCalls

-----------------------------------------------------------------------------
(* What a step of thread t does not touch: the other threads' variables,   *)
(* the output while another thread has it, an event that another thread    *)
(* has locked, and the id and plan of any event.  A new event comes at the *)
(* tail, under a new id, with all its seats free.                          *)
LocalsKept(t) ==
  \A u \in Workers \ {t} :
    /\ pc'[u] = pc[u] /\ call'[u] = call[u] /\ ev'[u] = ev[u]
    /\ rid'[u] = rid[u] /\ cur'[u] = cur[u] /\ stop'[u] = stop[u]
OutputKept(t) ==
  IF outputLock \in {NoOne, t} THEN outputLock' \in {NoOne, t}
  ELSE outputLock' = outputLock
EventKept(t, i) ==
  /\ list'[i].id = list[i].id
  /\ IF list[i].mutex \in {NoOne, t} THEN list'[i].mutex \in {NoOne, t}
     ELSE list'[i] = list[i]
IsBlank(e) ==
  e.mutex = NoOne /\ e.reservations = 0 /\ \A p \in Places(e) : e.data[p] = 0
ListGrows ==
  \/ Len(list') = Len(list) /\ DOMAIN list' = DOMAIN list
  \/ /\ Len(list') = Len(list) + 1 /\ DOMAIN list' = 1 .. (Len(list) + 1)
     /\ IsBlank(list'[Len(list) + 1])
     /\ NoneWithId(list'[Len(list) + 1].id)
Keeps(t) == /\ LocalsKept(t) /\ OutputKept(t)
            /\ ListGrows /\ \A i \in DOMAIN list : EventKept(t, i)

(* The invariant of a thread survives the steps of the others.             *)
LEMMA OthersInv ==
  ASSUME BatchInv, NEW t \in Workers, Keeps(t), NEW u \in Workers, u # t
  PROVE  ThreadInv(u)'
<1>1. /\ ThreadInv(u) /\ TypeOK
      /\ pc'[u] = pc[u] /\ call'[u] = call[u] /\ ev'[u] = ev[u]
      /\ rid'[u] = rid[u] /\ cur'[u] = cur[u] /\ stop'[u] = stop[u]
      /\ u # NoOne /\ t # NoOne
      /\ list \in Seq(AnyEvent) /\ Len(list) \in Nat /\ DOMAIN list = 1 .. Len(list)
  BY ListIsSeq DEF BatchInv, TypeOK, Keeps, LocalsKept
<1>2. RequestMatches(u)'
  BY <1>1 DEF ThreadInv, RequestMatches, Request
<1>3. LocksMatch(u)'
  <2>1. outputLock' = u <=> outputLock = u
    BY <1>1 DEF Keeps, OutputKept
  <2>2. ASSUME NEW i \in DOMAIN list
        PROVE  list'[i].mutex = u <=> list[i].mutex = u
    BY <1>1 DEF Keeps, EventKept
  <2>3. ASSUME NEW i \in DOMAIN list', i \notin DOMAIN list
        PROVE  list'[i].mutex # u /\ ~ (pc[u] \in Holding /\ ev[u] = i)
    BY <1>1, <2>3 DEF Keeps, ListGrows, IsBlank, ThreadInv, PointersGood, EventUsed
  <2> QED
    BY <1>1, <2>1, <2>2, <2>3 DEF ThreadInv, LocksMatch
<1>4. DOMAIN list \subseteq DOMAIN list' /\ Len(list') \in Nat /\ Len(list') >= Len(list)
  BY <1>1 DEF Keeps, ListGrows
<1>5. PointersGood(u)'
  <2>1. list # <<>> => list' # <<>>
    BY <1>1, <1>4
  <2> QED BY <1>1, <1>4, <2>1 DEF Keeps, EventKept, ThreadInv, PointersGood, Request
<1>6. CASE pc[u] \notin Holding
  <2>1. LoopMatches(u)' /\ MarksMatch(u)'
    BY <1>1, <1>6 DEF LoopMatches, MarksMatch, Making, Holding
  <2> QED BY <1>2, <1>3, <1>5, <2>1 DEF ThreadInv
<1>7. CASE pc[u] \in Holding
  <2>1. ev[u] \in DOMAIN list /\ list[ev[u]].mutex = u
    BY <1>1, <1>7 DEF ThreadInv, LocksMatch, PointersGood, EventUsed
  <2>2. list'[ev[u]] = list[ev[u]]
    BY <1>1, <2>1 DEF Keeps, EventKept
  <2>3. LoopMatches(u)'
    BY <1>1, <2>2 DEF ThreadInv, LoopMatches, Seats, Request, SeatIsFree, PlaceOf,
           BlockedAt
  <2>4. MarksMatch(u)'
    BY <1>1, <2>1, <2>2 DEF ThreadInv, MarksMatch, Seats, Request, Passed, Marked,
           Made, Numbered
  <2> QED BY <1>2, <1>3, <1>5, <2>3, <2>4 DEF ThreadInv
<1> QED BY <1>6, <1>7

(* So do the seats of an event that is not the step's.                     *)
LEMMA OtherSeats ==
  ASSUME BatchInv, NEW t \in Workers, Keeps(t), NEW i \in DOMAIN list,
         list[i].mutex # t, list'[i] = list[i]
  PROVE  SeatsMatch(i)'
<1>1. list[i].mutex \in Workers => /\ pc'[list[i].mutex] = pc[list[i].mutex]
                                   /\ rid'[list[i].mutex] = rid[list[i].mutex]
  BY DEF Keeps, LocalsKept
<1> QED BY <1>1 DEF BatchInv, SeatsMatch, Made, Numbered, InTheMaking

LEMMA UniqueIdsKept ==
  ASSUME BatchInv, NEW t \in Workers, Keeps(t)
  PROVE  UniqueEventIds'
<1>1. /\ list \in Seq(AnyEvent) /\ Len(list) \in Nat /\ DOMAIN list = 1 .. Len(list)
      /\ \A i \in DOMAIN list : list'[i].id = list[i].id
      /\ UniqueEventIds
  BY ListIsSeq DEF BatchInv, TypeOK, Keeps, EventKept
<1>2. CASE DOMAIN list' = DOMAIN list
  BY <1>1, <1>2 DEF UniqueEventIds
<1>3. CASE /\ DOMAIN list' = 1 .. (Len(list) + 1)
           /\ NoneWithId(list'[Len(list) + 1].id)
  <2>1. \A i \in DOMAIN list : list'[i].id # list'[Len(list) + 1].id
    BY <1>1, <1>3 DEF NoneWithId
  <2> QED BY <1>1, <1>3, <2>1 DEF UniqueEventIds
<1> QED BY <1>2, <1>3 DEF Keeps, ListGrows

(* What remains to be shown of a step that leaves the list alone and is    *)
(* not of a thread that holds an event.                                    *)
LEMMA QuietStep ==
  ASSUME BatchInv, NEW t \in Workers, list' = list, LocalsKept(t), OutputKept(t),
         pc[t] \notin Holding, TypeOK', ThreadInv(t)'
  PROVE  BatchInv'
<1>1. Keeps(t)
  BY DEF Keeps, ListGrows, EventKept
<1>2. ASSUME NEW i \in DOMAIN list
      PROVE  SeatsMatch(i)'
  BY <1>1, OtherSeats DEF BatchInv, ThreadInv, LocksMatch
<1> QED BY <1>1, <1>2, OthersInv, UniqueIdsKept DEF BatchInv

(* Of a step that changes one event, which is free or held by the thread.  *)
LEMMA EventStep ==
  ASSUME BatchInv, NEW t \in Workers, NEW i \in DOMAIN list, NEW e \in AnyEvent,
         list[i].mutex \in {NoOne, t}, e.mutex \in {NoOne, t},
         e.id = list[i].id, list' = [list EXCEPT ![i] = e],
         \A j \in DOMAIN list : j # i => list[j].mutex # t,
         LocalsKept(t), OutputKept(t), TypeOK', ThreadInv(t)', SeatsMatch(i)'
  PROVE  BatchInv'
<1>1. /\ DOMAIN list' = DOMAIN list /\ Len(list') = Len(list) /\ list'[i] = e
      /\ \A j \in DOMAIN list : j # i => list'[j] = list[j]
  BY ReplaceEvent DEF BatchInv, TypeOK
<1>2. Keeps(t)
  BY <1>1 DEF Keeps, ListGrows, EventKept
<1>3. ASSUME NEW j \in DOMAIN list
      PROVE  SeatsMatch(j)'
  BY <1>1, <1>2, OtherSeats
<1> QED BY <1>1, <1>2, <1>3, OthersInv, UniqueIdsKept DEF BatchInv

(* The variables of the threads are functions on the threads.              *)
LEMMA Domains ==
  ASSUME TypeOK
  PROVE  /\ pc \in [Workers -> Labels] /\ call \in [Workers -> NumberedCalls]
         /\ reply \in [Workers -> {NoReply, Done, Failed}]
         /\ ev \in [Workers -> Nat] /\ rid \in [Workers -> Nat]
         /\ cur \in [Workers -> Nat] /\ stop \in [Workers -> Nat]
         /\ buf \in [Workers -> Seq(Nat)]
BY DEF TypeOK

LEMMA ListTypeKept ==
  ASSUME ListTypeOK, list' = list
  PROVE  ListTypeOK'
BY ListIsSeq, SeqIsList

(* A quiet step that leaves the thread without an event, too.              *)
LEMMA UnlockedStep ==
  ASSUME BatchInv, NEW t \in Workers, list' = list, LocalsKept(t), OutputKept(t),
         pc[t] \notin Holding, pc'[t] \notin Holding, TypeOK',
         outputLock' = t <=> pc'[t] \in Printing,
         RequestMatches(t)', PointersGood(t)'
  PROVE  BatchInv'
<1>1. LocksMatch(t)'
  BY DEF BatchInv, ThreadInv, LocksMatch
<1>2. LoopMatches(t)' /\ MarksMatch(t)'
  BY DEF LoopMatches, MarksMatch, Making, Holding
<1> QED BY <1>1, <1>2, QuietStep DEF ThreadInv

-----------------------------------------------------------------------------
(* One lemma for each action.                                              *)
LEMMA CallsTyped ==
  /\ \A c \in Calls : c.op \in {"create", "reserve", "show", "list"} /\ c # NoCall
  /\ \A c \in CreateCalls : c.op = "create" /\ c.id \in EventIds
  /\ \A c \in ReserveCalls : c.op = "reserve" /\ c.id \in EventIds
  /\ \A c \in ShowCalls : c.op = "show" /\ c.id \in EventIds
  /\ \A c \in ListCalls : c.op = "list"
BY DEF Calls, CreateCalls, ReserveCalls, ShowCalls, ListCalls, NoCall

LEMMA InvokeStep ==
  ASSUME BatchInv, NEW t \in Workers, NEW c \in Calls, Invoke(t, c)
  PROVE  BatchInv'
<1>1. TypeOK /\ RequestMatches(t) /\ LocksMatch(t) /\ PointersGood(t)
  BY DEF BatchInv, ThreadInv
<1>2. /\ pc[t] = "idle" /\ calls' = calls + 1 /\ calls < MaxCalls
      /\ pc' = [pc EXCEPT ![t] = FirstStep[c.op]]
      /\ call' = [call EXCEPT ![t] = [number |-> calls + 1, request |-> c]]
      /\ UNCHANGED <<list, outputLock, output, reply, localVars>>
  BY DEF Invoke, Goto
<1>3. FirstStep[c.op] \in {"createFind", "reserveFind", "showFind", "listFirst"}
  BY CallsTyped DEF FirstStep
<1>4. pc' \in [Workers -> Labels] /\ pc'[t] = FirstStep[c.op]
  BY <1>1, <1>2, <1>3, Domains
     DEF Labels, CreateLabels, ReserveLabels, ShowLabels, ListLabels
<1>5. calls + 1 \in 1 .. MaxCalls /\ calls' \in 0 .. MaxCalls
  BY <1>1, <1>2 DEF TypeOK
<1>6. [number |-> calls + 1, request |-> c] \in NumberedCalls
  BY <1>5 DEF NumberedCalls
<1>7. call' \in [Workers -> NumberedCalls] /\ Request(t)' = c /\ call'[t].number = calls + 1
  BY <1>1, <1>2, <1>6, Domains DEF Request
<1>8. TypeOK'
  BY <1>1, <1>2, <1>4, <1>5, <1>7, ListTypeKept DEF TypeOK, localVars
<1>9. LocalsKept(t) /\ OutputKept(t)
  BY <1>1, <1>2, Domains DEF LocalsKept, OutputKept, localVars
<1>10. RequestMatches(t)'
  <2>1. call'[t] # NoRequest
    BY <1>5, <1>7 DEF NoRequest
  <2>2. \/ c.op = "create" /\ c \in CreateCalls /\ pc'[t] = "createFind"
        \/ c.op = "reserve" /\ c \in ReserveCalls /\ pc'[t] = "reserveFind"
        \/ c.op = "show" /\ c \in ShowCalls /\ pc'[t] = "showFind"
        \/ c.op = "list" /\ c \in ListCalls /\ pc'[t] = "listFirst"
    BY <1>4, CallsTyped DEF FirstStep, Calls
  <2> QED
    BY <1>7, <2>1, <2>2
    DEF RequestMatches, CreateLabels, ReserveLabels, ShowLabels, ListLabels, Holding
<1>11. PointersGood(t)' /\ pc'[t] \notin Holding /\ pc'[t] \notin Printing
  BY <1>3, <1>4 DEF PointersGood, EventUsed, Holding, Printing
<1>12. outputLock' # t /\ pc[t] \notin Holding
  BY <1>1, <1>2 DEF LocksMatch, Printing, Holding
<1> QED BY <1>2, <1>8, <1>9, <1>10, <1>11, <1>12, UnlockedStep

LEMMA ReturnStep ==
  ASSUME BatchInv, NEW t \in Workers, Return(t)
  PROVE  BatchInv'
<1>1. TypeOK /\ RequestMatches(t) /\ LocksMatch(t) /\ PointersGood(t)
  BY DEF BatchInv, ThreadInv
<1>2. pc[t] = "done" /\ pc' = [pc EXCEPT ![t] = "idle"]
  BY DEF Return, Goto
<1>3. pc' \in [Workers -> Labels] /\ call' \in [Workers -> NumberedCalls]
  BY <1>1, <1>2, Domains DEF Return, Labels, NumberedCalls
<1>4. reply' \in [Workers -> {NoReply, Done, Failed}]
  BY <1>1, Domains DEF Return
<1>5. /\ ev' \in [Workers -> Nat] /\ rid' \in [Workers -> Nat]
      /\ cur' \in [Workers -> Nat] /\ stop' \in [Workers -> Nat]
      /\ buf' \in [Workers -> Seq(Nat)]
  BY <1>1, Domains DEF Return
<1>6. TypeOK'
  BY <1>1, <1>3, <1>4, <1>5, ListTypeKept DEF TypeOK, Return
<1>7. LocalsKept(t) /\ OutputKept(t)
  BY <1>1, <1>2, Domains DEF LocalsKept, OutputKept, Return
<1>8. pc'[t] = "idle" /\ call'[t] = NoRequest
  BY <1>1, <1>2, Domains DEF Return
<1>9. RequestMatches(t)' /\ PointersGood(t)' /\ pc'[t] \notin Holding /\ pc'[t] \notin Printing
  BY <1>8 DEF RequestMatches, PointersGood, EventUsed, Holding, Printing, CreateLabels,
     ReserveLabels, ShowLabels, ListLabels
<1>10. outputLock' # t /\ pc[t] \notin Holding /\ list' = list
  BY <1>1, <1>2 DEF LocksMatch, Printing, Holding, Return
<1> QED BY <1>6, <1>7, <1>9, <1>10, UnlockedStep

LEMMA CreateFindStep ==
  ASSUME BatchInv, NEW t \in Workers, CreateFind(t)
  PROVE  BatchInv'
<1>1. TypeOK /\ RequestMatches(t) /\ LocksMatch(t) /\ PointersGood(t)
  BY DEF BatchInv, ThreadInv
<1>2. /\ pc[t] = "createFind"
      /\ UNCHANGED <<list, outputLock, output, call, localVars, calls>>
      /\ \/ pc' = [pc EXCEPT ![t] = "createAppend"] /\ reply' = reply
         \/ pc' = [pc EXCEPT ![t] = "done"] /\ reply' = [reply EXCEPT ![t] = Failed]
  BY DEF CreateFind, Finish, Goto
<1>3. pc' \in [Workers -> Labels] /\ pc'[t] \in {"createAppend", "done"}
  BY <1>1, <1>2, Domains DEF Labels, CreateLabels
<1>4. reply' \in [Workers -> {NoReply, Done, Failed}]
  BY <1>1, <1>2, Domains
<1>5. TypeOK'
  BY <1>1, <1>2, <1>3, <1>4, ListTypeKept DEF TypeOK, localVars
<1>6. LocalsKept(t) /\ OutputKept(t)
  BY <1>1, <1>2, Domains DEF LocalsKept, OutputKept, localVars
<1>7. RequestMatches(t)' /\ PointersGood(t)' /\ pc'[t] \notin Holding /\ pc'[t] \notin Printing
  BY <1>1, <1>2, <1>3 DEF RequestMatches, PointersGood, EventUsed, Holding, Printing,
     CreateLabels, ReserveLabels, ShowLabels, ListLabels, Request
<1>8. outputLock' # t /\ pc[t] \notin Holding /\ list' = list
  BY <1>1, <1>2 DEF LocksMatch, Printing, Holding
<1> QED BY <1>5, <1>6, <1>7, <1>8, UnlockedStep

(* The lookup of RESERVE and SHOW.                                         *)
LEMMA FindStep ==
  ASSUME BatchInv, NEW t \in Workers, NEW next,
         \/ pc[t] = "reserveFind" /\ next = "reserveMutex"
         \/ pc[t] = "showFind" /\ next = "showOutput",
         Find(t, next)
  PROVE  BatchInv'
<1>1. TypeOK /\ RequestMatches(t) /\ LocksMatch(t) /\ PointersGood(t)
  BY DEF BatchInv, ThreadInv
<1>2. UNCHANGED <<list, outputLock, output, call, rid, cur, stop, buf, calls>>
  BY DEF Find
<1>3. \/ /\ pc' = [pc EXCEPT ![t] = next] /\ reply' = reply
         /\ \E i \in DOMAIN list : /\ list[i].id = Request(t).id
                                  /\ ev' = [ev EXCEPT ![t] = i]
      \/ /\ pc' = [pc EXCEPT ![t] = "done"] /\ reply' = [reply EXCEPT ![t] = Failed]
         /\ ev' = ev
  BY DEF Find, Finish, Goto, FirstWithId
<1>4. pc' \in [Workers -> Labels] /\ pc'[t] \in {next, "done"}
  BY <1>1, <1>3, Domains, ZenonT(60) DEF Labels, ReserveLabels, ShowLabels
<1>5. reply' \in [Workers -> {NoReply, Done, Failed}] /\ ev' \in [Workers -> Nat]
  <2>1. DOMAIN list \subseteq Nat
    BY <1>1, ListIsSeq DEF TypeOK
  <2> QED BY <1>1, <1>3, <2>1, Domains
<1>6. TypeOK'
  BY <1>1, <1>2, <1>4, <1>5, ListTypeKept DEF TypeOK
<1>7. LocalsKept(t) /\ OutputKept(t)
  BY <1>1, <1>2, <1>3, Domains DEF LocalsKept, OutputKept
<1>8. pc'[t] # "done" => ev'[t] \in DOMAIN list' /\ list'[ev'[t]].id = Request(t)'.id
  BY <1>1, <1>2, <1>3, Domains DEF Request
<1>9. RequestMatches(t)' /\ PointersGood(t)' /\ pc'[t] \notin Holding /\ pc'[t] \notin Printing
  BY <1>1, <1>2, <1>4, <1>8 DEF RequestMatches, PointersGood, EventUsed, Holding, Printing,
     CreateLabels, ReserveLabels, ShowLabels, ListLabels, Request
<1>10. outputLock' # t /\ pc[t] \notin Holding
  BY <1>1, <1>2 DEF LocksMatch, Printing, Holding
<1> QED BY <1>2, <1>6, <1>7, <1>9, <1>10, UnlockedStep

(* The lock of the output, taken by SHOW and LIST.                         *)
LEMMA OutputStep ==
  ASSUME BatchInv, NEW t \in Workers, ShowOutput(t) \/ ListOutput(t)
  PROVE  BatchInv'
<1>1. TypeOK /\ RequestMatches(t) /\ LocksMatch(t) /\ PointersGood(t)
  BY DEF BatchInv, ThreadInv
<1>2. /\ \/ pc[t] = "showOutput" /\ pc' = [pc EXCEPT ![t] = "showSeat"]
         \/ pc[t] = "listOutput" /\ pc' = [pc EXCEPT ![t] = "listNode"]
      /\ outputLock = NoOne /\ outputLock' = t
      /\ cur' = [cur EXCEPT ![t] = 1]
      /\ UNCHANGED <<list, output, call, reply, ev, rid, stop, buf, calls>>
  BY DEF ShowOutput, ListOutput, TakeOutput, Goto
<1>3. pc' \in [Workers -> Labels] /\ cur' \in [Workers -> Nat] /\ cur'[t] = 1
  BY <1>1, <1>2, Domains DEF Labels, ShowLabels, ListLabels
<1>4. \/ pc[t] = "showOutput" /\ pc'[t] = "showSeat"
      \/ pc[t] = "listOutput" /\ pc'[t] = "listNode"
  BY <1>1, <1>2, Domains
<1>5. TypeOK'
  BY <1>1, <1>2, <1>3, ListTypeKept DEF TypeOK
<1>6. LocalsKept(t) /\ OutputKept(t)
  BY <1>1, <1>2, Domains DEF LocalsKept, OutputKept
<1>7. RequestMatches(t)'
  BY <1>1, <1>2, <1>4 DEF RequestMatches, Holding,
     CreateLabels, ReserveLabels, ShowLabels, ListLabels, Request
<1>8. PointersGood(t)'
  <2>1. list # <<>> => 1 \in 0 .. Len(list)
    BY <1>1, ListIsSeq DEF TypeOK
  <2> QED BY <1>1, <1>2, <1>3, <1>4, <2>1 DEF PointersGood, EventUsed, Holding, Request
<1>9. pc[t] \notin Holding /\ pc'[t] \notin Holding /\ pc'[t] \in Printing
  BY <1>4 DEF Printing, Holding
<1> QED BY <1>2, <1>5, <1>6, <1>7, <1>8, <1>9, UnlockedStep

(* A write of a thread that is in a call is a write of that call.          *)
Written(t) == [call |-> call[t].number, data |-> buf[t]]

LEMMA OneWriteTyped ==
  ASSUME BatchInv, NEW t \in Workers, pc[t] # "idle",
         output' = output \/ output' = Append(output, Written(t))
  PROVE  output' \in Seq([call : 1 .. MaxCalls, data : Seq(Nat)])
<1> DEFINE Writes == [call : 1 .. MaxCalls, data : Seq(Nat)]
<1>1. call[t].number \in 1 .. MaxCalls /\ buf[t] \in Seq(Nat)
  BY Domains DEF BatchInv, ThreadInv, RequestMatches, NumberedCalls
<1>2. Written(t) \in Writes
  BY <1>1 DEF Written
<1>3. output \in Seq(Writes)
  BY DEF BatchInv, TypeOK
<1> HIDE DEF Writes
<1>4. output' \in Seq(Writes)
  BY <1>2, <1>3
<1> QED BY <1>4 DEF Writes

(* The end of a call of SHOW or LIST, and a LIST of no events.             *)
LEMMA PrintedStep ==
  ASSUME BatchInv, NEW t \in Workers, ShowWrite(t) \/ ListWrite(t) \/ ListFirst(t)
  PROVE  BatchInv'
<1>1. TypeOK /\ RequestMatches(t) /\ LocksMatch(t) /\ PointersGood(t)
  BY DEF BatchInv, ThreadInv
<1>2. UNCHANGED <<list, call, localVars, calls>>
  BY DEF ShowWrite, ListWrite, ListFirst
<1>3. \/ /\ pc[t] \in Printing /\ outputLock' = NoOne
         /\ \E r \in {Done, Failed} : reply' = [reply EXCEPT ![t] = r]
         /\ pc' = [pc EXCEPT ![t] = "done"]
      \/ /\ pc[t] = "listFirst" /\ outputLock' = outputLock
         /\ \/ pc' = [pc EXCEPT ![t] = "done"] /\ reply' = [reply EXCEPT ![t] = Done]
            \/ /\ pc' = [pc EXCEPT ![t] = "listOutput"] /\ reply' = reply
               /\ list # <<>>
  BY DEF ShowWrite, ListWrite, ListFirst, Finish, Goto, Printing
<1>4. pc' \in [Workers -> Labels] /\ reply' \in [Workers -> {NoReply, Done, Failed}]
  BY <1>1, <1>3, Domains DEF Labels, ListLabels
<1>5. \/ pc'[t] = "done" /\ pc[t] \in Printing \cup {"listFirst"}
      \/ pc'[t] = "listOutput" /\ pc[t] = "listFirst" /\ list # <<>>
  BY <1>1, <1>3, Domains
<1>6. output' \in Seq([call : 1 .. MaxCalls, data : Seq(Nat)])
  <2>1. output' = output \/ output' = Append(output, Written(t))
    BY DEF ShowWrite, ListWrite, ListFirst, Write, Written
  <2> QED BY <1>5, <2>1, OneWriteTyped DEF Printing
<1>7. outputLock' \in Workers \cup {NoOne}
  BY <1>1, <1>3 DEF TypeOK
<1>8. TypeOK'
  BY <1>1, <1>2, <1>4, <1>6, <1>7, ListTypeKept DEF TypeOK, localVars
<1>9. LocalsKept(t)
  BY <1>1, <1>2, <1>3, Domains DEF LocalsKept, localVars
<1>10. OutputKept(t) /\ outputLock' # t
  BY <1>1, <1>3 DEF OutputKept, LocksMatch, Printing
<1>11. RequestMatches(t)' /\ PointersGood(t)' /\ pc'[t] \notin Holding
       /\ pc[t] \notin Holding /\ pc'[t] \notin Printing
  BY <1>1, <1>2, <1>5 DEF RequestMatches, PointersGood, EventUsed, Holding, Printing,
     CreateLabels, ReserveLabels, ShowLabels, ListLabels, Request
<1> QED BY <1>2, <1>8, <1>9, <1>10, <1>11, UnlockedStep

(* One seat of SHOW; the array is read inside its bounds.                  *)
LEMMA ShowSeatStep ==
  ASSUME BatchInv, NEW t \in Workers, ShowSeat(t)
  PROVE  BatchInv'
<1> DEFINE e == list[ev[t]]
           seat == RowMajor(e, cur[t])
           v == e.data[SeatIndex(e, seat[1], seat[2])]
<1>1. TypeOK /\ RequestMatches(t) /\ LocksMatch(t) /\ PointersGood(t)
  BY DEF BatchInv, ThreadInv
<1>2. /\ pc[t] = "showSeat" /\ cur[t] <= e.rows * e.cols
      /\ buf' = [buf EXCEPT ![t] = Append(@, v)]
      /\ cur' = [cur EXCEPT ![t] = @ + 1]
      /\ UNCHANGED <<list, outputLock, output, pc, call, reply, ev, rid, stop, calls>>
  BY DEF ShowSeat, Area
<1>3. e \in AnyEvent
  BY <1>1, <1>2, ListIsSeq DEF TypeOK, PointersGood, EventUsed
<1>4. v \in Nat
  <2>1. e.rows \in Nat /\ e.cols \in Nat /\ e.data \in [Places(e) -> Nat]
    BY <1>3, AnyEventType
  <2>2. cur[t] \in Nat /\ cur[t] > 0
    BY <1>1, <1>2, Domains DEF PointersGood
  <2> HIDE DEF e
  <2>3. cur[t] \in 1 .. e.rows * e.cols
    BY <1>2, <2>1, <2>2, Z3
  <2>4. SeatIndex(e, seat[1], seat[2]) = cur[t] - 1
    BY <2>1, <2>3, RowMajorIndex
  <2>5. cur[t] - 1 \in Places(e)
    <3> DEFINE area == e.rows * e.cols
    <3>1. area \in Nat
      BY <2>1, Z3
    <3> HIDE DEF area
    <3>2. cur[t] - 1 \in 0 .. (area - 1)
      BY <2>2, <2>3, <3>1 DEF area
    <3> QED BY <3>2 DEF Places, area
  <2> QED BY <2>1, <2>4, <2>5
<1> HIDE DEF v
<1>5. buf' \in [Workers -> Seq(Nat)] /\ cur' \in [Workers -> Nat] /\ cur'[t] > 0
  BY <1>1, <1>2, <1>4, Domains
<1>6. TypeOK'
  BY <1>1, <1>2, <1>5, ListTypeKept DEF TypeOK
<1>7. LocalsKept(t) /\ OutputKept(t)
  BY <1>1, <1>2, Domains DEF LocalsKept, OutputKept
<1>8. RequestMatches(t)'
  BY <1>1, <1>2 DEF RequestMatches, Request
<1>9. PointersGood(t)'
  BY <1>1, <1>2, <1>5 DEF PointersGood, EventUsed, Holding, Request
<1>10. outputLock' = t /\ pc[t] \notin Holding /\ pc'[t] \notin Holding /\ pc'[t] \in Printing
  BY <1>1, <1>2 DEF LocksMatch, Printing, Holding
<1> QED BY <1>2, <1>6, <1>7, <1>8, <1>9, <1>10, UnlockedStep

LEMMA ListNodeStep ==
  ASSUME BatchInv, NEW t \in Workers, ListNode(t)
  PROVE  BatchInv'
<1>1. TypeOK /\ RequestMatches(t) /\ LocksMatch(t) /\ PointersGood(t)
  BY DEF BatchInv, ThreadInv
<1>2. /\ pc[t] = "listNode" /\ cur[t] # 0
      /\ cur' = [cur EXCEPT ![t] = IF @ < Len(list) THEN @ + 1 ELSE 0]
      /\ UNCHANGED <<list, outputLock, pc, call, reply, ev, rid, stop, calls>>
      /\ \/ buf' = [buf EXCEPT ![t] = Append(@, list[cur[t]].id)] /\ output' = output
         \/ /\ output' = Append(output, [call |-> call[t].number, data |-> buf[t]])
            /\ buf' = [buf EXCEPT ![t] = <<>>]
  BY DEF ListNode, Write
<1>3. /\ list # <<>> /\ cur[t] \in 1 .. Len(list) /\ Len(list) \in Nat
      /\ list[cur[t]].id \in Nat
  <2>1. list # <<>> /\ cur[t] \in 1 .. Len(list) /\ Len(list) \in Nat
    BY <1>1, <1>2, ListIsSeq DEF TypeOK, PointersGood
  <2>2. list[cur[t]] \in AnyEvent
    BY <1>1, <2>1, ListIsSeq DEF TypeOK
  <2> QED BY <2>1, <2>2, AnyEventType
<1>4. cur' \in [Workers -> Nat] /\ cur'[t] \in 0 .. Len(list)
  BY <1>1, <1>2, <1>3, Domains
<1>5. buf' \in [Workers -> Seq(Nat)]
  <2>1. buf[t] \in Seq(Nat) /\ buf \in [Workers -> Seq(Nat)]
    BY <1>1, Domains
  <2>2. <<>> \in Seq(Nat) /\ Append(buf[t], list[cur[t]].id) \in Seq(Nat)
    BY <1>3, <2>1
  <2> QED BY <1>2, <2>1, <2>2
<1>6. output' \in Seq([call : 1 .. MaxCalls, data : Seq(Nat)])
  BY <1>2, OneWriteTyped DEF Written
<1>7. TypeOK'
  BY <1>1, <1>2, <1>4, <1>5, <1>6, ListTypeKept DEF TypeOK
<1>8. LocalsKept(t) /\ OutputKept(t)
  BY <1>1, <1>2, Domains DEF LocalsKept, OutputKept
<1>9. RequestMatches(t)'
  BY <1>1, <1>2 DEF RequestMatches, Request
<1>10. PointersGood(t)'
  BY <1>1, <1>2, <1>3, <1>4 DEF PointersGood, EventUsed, Holding, Request
<1>11. outputLock' = t /\ pc[t] \notin Holding /\ pc'[t] \notin Holding /\ pc'[t] \in Printing
  BY <1>1, <1>2 DEF LocksMatch, Printing, Holding
<1> QED BY <1>2, <1>7, <1>8, <1>9, <1>10, <1>11, UnlockedStep

(* A new event comes at the tail of the list, with all its seats free.     *)
LEMMA CreateAppendStep ==
  ASSUME BatchInv, NEW t \in Workers, CreateAppend(t)
  PROVE  BatchInv'
<1>1. /\ TypeOK /\ RequestMatches(t) /\ LocksMatch(t) /\ PointersGood(t)
      /\ list \in Seq(AnyEvent) /\ Len(list) \in Nat /\ DOMAIN list = 1 .. Len(list)
  BY ListIsSeq DEF BatchInv, ThreadInv, TypeOK
<1>2. /\ pc[t] = "createAppend" /\ pc' = [pc EXCEPT ![t] = "done"]
      /\ UNCHANGED <<outputLock, output, call, localVars, calls>>
      /\ \E r \in {Done, Failed} : reply' = [reply EXCEPT ![t] = r]
  BY DEF CreateAppend, Finish, Goto
<1>3. pc' \in [Workers -> Labels] /\ pc'[t] = "done"
  BY <1>1, <1>2, Domains DEF Labels
<1>4. reply' \in [Workers -> {NoReply, Done, Failed}]
  BY <1>1, <1>2, Domains
<1>5. LocalsKept(t) /\ OutputKept(t)
  BY <1>1, <1>2, Domains DEF LocalsKept, OutputKept, localVars
<1>6. RequestMatches(t)' /\ PointersGood(t)' /\ pc'[t] \notin Holding /\ pc'[t] \notin Printing
  BY <1>1, <1>2, <1>3 DEF RequestMatches, PointersGood, EventUsed, Holding, Printing,
     CreateLabels, ReserveLabels, ShowLabels, ListLabels, Request
<1>7. outputLock' # t /\ pc[t] \notin Holding
  BY <1>1, <1>2 DEF LocksMatch, Printing, Holding
<1>8. CASE list' = list
  <2>1. TypeOK'
    BY <1>1, <1>2, <1>3, <1>4, <1>8, ListTypeKept DEF TypeOK, localVars
  <2> QED BY <1>5, <1>6, <1>7, <1>8, <2>1, UnlockedStep
<1>9. CASE /\ NoneWithId(Request(t).id)
           /\ list' = Append(list, NewEvent(Request(t)))
  <2> DEFINE e == NewEvent(Request(t))
             n == Len(list) + 1
  <2>1. /\ e \in AnyEvent /\ IsBlank(e) /\ e.id = Request(t).id
    BY <1>1, <1>2, NewEventType DEF RequestMatches, CreateLabels, IsBlank
  <2> HIDE DEF e
  <2>2. /\ ListTypeOK' /\ DOMAIN list' = 1 .. n /\ Len(list') = n /\ list'[n] = e
        /\ \A j \in DOMAIN list : list'[j] = list[j]
    BY <1>1, <1>9, <2>1, AppendEvent DEF TypeOK, e
  <2>3. TypeOK'
    BY <1>1, <1>2, <1>3, <1>4, <2>2 DEF TypeOK, localVars
  <2>4. \A i \in DOMAIN list : list[i].mutex # t
    BY <1>1, <1>7 DEF LocksMatch
  <2>5. Keeps(t)
    BY <1>5, <1>9, <2>1, <2>2 DEF Keeps, ListGrows, EventKept
  <2>6. LocksMatch(t)'
    BY <1>1, <1>6, <1>7, <2>1, <2>2, <2>4 DEF LocksMatch, IsBlank
  <2>7. LoopMatches(t)' /\ MarksMatch(t)'
    BY <1>6 DEF LoopMatches, MarksMatch, Making, Holding
  <2>8. ASSUME NEW i \in DOMAIN list'
        PROVE  SeatsMatch(i)'
    <3>1. CASE i \in DOMAIN list
      BY <2>2, <2>4, <2>5, <3>1, OtherSeats
    <3>2. CASE i = n
      <4>1. /\ list'[i].mutex \notin Workers /\ list'[i].reservations = 0
            /\ \A p \in Places(list'[i]) : list'[i].data[p] = 0
        BY <2>1, <2>2, <3>2 DEF IsBlank
      <4> QED BY <4>1 DEF SeatsMatch, Made, Numbered
    <3> QED BY <1>1, <2>2, <3>1, <3>2
  <2> QED BY <1>6, <2>3, <2>5, <2>6, <2>7, <2>8, OthersInv, UniqueIdsKept
          DEF BatchInv, ThreadInv
<1> QED BY <1>8, <1>9 DEF CreateAppend

-----------------------------------------------------------------------------
(* What is known of a thread that holds an event, and of its event.        *)
LEMMA HeldEvent ==
  ASSUME BatchInv, NEW t \in Workers, pc[t] \in Holding
  PROVE  /\ ev[t] \in DOMAIN list /\ list[ev[t]] \in AnyEvent
         /\ list[ev[t]].id = Request(t).id
         /\ list[ev[t]].mutex = t /\ t # NoOne /\ outputLock # t
         /\ \A j \in DOMAIN list : j # ev[t] => list[j].mutex # t
         /\ call[t] # NoRequest /\ Request(t) \in ReserveCalls
         /\ Seats(t) \in Seq(Nat \X Nat) /\ Len(Seats(t)) \in Nat \ {0}
         /\ \A k \in 1 .. Len(Seats(t)) : /\ Seats(t)[k][1] \in Nat
                                          /\ Seats(t)[k][2] \in Nat
<1>1. TypeOK /\ RequestMatches(t) /\ LocksMatch(t) /\ PointersGood(t)
  BY DEF BatchInv, ThreadInv
<1>2. ev[t] \in DOMAIN list /\ list[ev[t]] \in AnyEvent /\ list[ev[t]].id = Request(t).id
  BY <1>1, ListIsSeq DEF TypeOK, PointersGood, EventUsed
<1>3. /\ list[ev[t]].mutex = t /\ t # NoOne /\ outputLock # t
      /\ \A j \in DOMAIN list : j # ev[t] => list[j].mutex # t
  BY <1>1, <1>2 DEF LocksMatch, Holding, Printing
<1>4. call[t] # NoRequest /\ Request(t) \in ReserveCalls
  BY <1>1 DEF RequestMatches, ReserveLabels, Holding
<1>5. Seats(t) \in Seq(Nat \X Nat) /\ Seats(t) # <<>>
  BY <1>4 DEF ReserveCalls, Seats
<1>6. Len(Seats(t)) \in Nat \ {0}
  BY <1>5
<1>7. \A k \in 1 .. Len(Seats(t)) : Seats(t)[k] \in Nat \X Nat
  BY <1>5
<1> QED BY <1>2, <1>3, <1>4, <1>5, <1>6, <1>7

(* A seat of the plan has a place in the array.                            *)
LEMMA PlaceInRange ==
  ASSUME NEW e \in AnyEvent, NEW seats \in Seq(Nat \X Nat),
         NEW k \in 1 .. Len(seats), Inside(e, seats, k)
  PROVE  Place(e, seats, k) \in Places(e)
<1>1. e.rows \in Nat /\ e.cols \in Nat
  BY AnyEventType
<1>2. <<seats[k][1], seats[k][2]>> \in Coords(e)
  <2>1. seats[k] \in Nat \X Nat
    OBVIOUS
  <2>2. seats[k][1] \in 1 .. e.rows /\ seats[k][2] \in 1 .. e.cols
    BY <1>1, <2>1 DEF Inside, InBounds
  <2> QED BY <2>2 DEF Coords
<1> QED BY <1>1, <1>2, SeatIndexInRange DEF Place

(* Two events of one plan have the same places.                            *)
LEMMA SamePlan ==
  ASSUME NEW e, NEW f, f.rows = e.rows, f.cols = e.cols
  PROVE  /\ Places(f) = Places(e)
         /\ \A seats, k : Place(f, seats, k) = Place(e, seats, k)
         /\ \A seats, k : Inside(f, seats, k) <=> Inside(e, seats, k)
BY DEF Places, Place, Inside, SeatIndex, InBounds

(* What remains to be shown of a step of a thread that holds an event and  *)
(* keeps it.                                                               *)
LEMMA HolderStep ==
  ASSUME BatchInv, NEW t \in Workers, pc[t] \in Holding,
         NEW label \in Holding, pc' = [pc EXCEPT ![t] = label],
         NEW e \in AnyEvent, e.mutex = t, e.id = list[ev[t]].id,
         list' = [list EXCEPT ![ev[t]] = e],
         UNCHANGED <<outputLock, output, call, reply, ev, buf, calls>>,
         NEW r \in Nat, rid' = [rid EXCEPT ![t] = r],
         NEW k \in Nat, cur' = [cur EXCEPT ![t] = k],
         NEW n \in Nat, stop' = [stop EXCEPT ![t] = n],
         LoopMatches(t)', MarksMatch(t)', SeatsMatch(ev[t])'
  PROVE  BatchInv'
<1>1. /\ TypeOK /\ RequestMatches(t) /\ LocksMatch(t) /\ PointersGood(t)
      /\ ev[t] \in DOMAIN list /\ list[ev[t]].mutex = t /\ outputLock # t
      /\ \A j \in DOMAIN list : j # ev[t] => list[j].mutex # t
  BY HeldEvent DEF BatchInv, ThreadInv
<1>2. pc' \in [Workers -> Labels] /\ pc'[t] = label
  BY <1>1, Domains DEF Labels, ReserveLabels
<1>3. /\ ListTypeOK' /\ DOMAIN list' = DOMAIN list /\ Len(list') = Len(list)
      /\ list'[ev[t]] = e /\ \A j \in DOMAIN list : j # ev[t] => list'[j] = list[j]
  BY <1>1, ReplaceEvent DEF TypeOK
<1>4. /\ rid' \in [Workers -> Nat] /\ cur' \in [Workers -> Nat] /\ stop' \in [Workers -> Nat]
  BY <1>1, Domains
<1>5. TypeOK'
  BY <1>1, <1>2, <1>3, <1>4 DEF TypeOK
<1>6. LocalsKept(t) /\ OutputKept(t)
  BY <1>1, Domains DEF LocalsKept, OutputKept
<1>7. RequestMatches(t)'
  BY <1>1, <1>2 DEF RequestMatches, Holding, CreateLabels, ReserveLabels, ShowLabels,
     ListLabels, Request
<1>8. LocksMatch(t)'
  BY <1>1, <1>2, <1>3 DEF LocksMatch, Holding, Printing
<1>9. PointersGood(t)'
  BY <1>1, <1>2, <1>3 DEF PointersGood, EventUsed, Holding, Request
<1>10. ThreadInv(t)'
  BY <1>7, <1>8, <1>9 DEF ThreadInv
<1> QED BY <1>1, <1>5, <1>6, <1>10, EventStep

(* Of a step that gives the event back.                                    *)
LEMMA UnlockStep ==
  ASSUME BatchInv, NEW t \in Workers, pc[t] \in Holding, MutexUnlock(ev[t]),
         NEW r \in {Done, Failed}, Finish(t, r),
         UNCHANGED <<outputLock, output, call, localVars, calls>>,
         SeatsMatch(ev[t])'
  PROVE  BatchInv'
<1> DEFINE i == ev[t]
           e == [list[i] EXCEPT !.mutex = NoOne]
<1>1. /\ TypeOK /\ RequestMatches(t) /\ LocksMatch(t) /\ PointersGood(t)
      /\ i \in DOMAIN list /\ list[i] \in AnyEvent /\ list[i].mutex = t /\ outputLock # t
      /\ \A j \in DOMAIN list : j # i => list[j].mutex # t
  BY HeldEvent DEF BatchInv, ThreadInv
<1>2. pc' = [pc EXCEPT ![t] = "done"] /\ reply' = [reply EXCEPT ![t] = r]
  BY DEF Finish, Goto
<1>3. pc' \in [Workers -> Labels] /\ pc'[t] = "done"
  BY <1>1, <1>2, Domains DEF Labels
<1>4. reply' \in [Workers -> {NoReply, Done, Failed}]
  BY <1>1, <1>2, Domains
<1>5. e \in AnyEvent /\ e.mutex = NoOne /\ e.id = list[i].id
  BY <1>1, MutexUpdate
<1> HIDE DEF e
<1>6. list' = [list EXCEPT ![i] = e]
  BY DEF MutexUnlock, e
<1>7. /\ ListTypeOK' /\ DOMAIN list' = DOMAIN list
      /\ list'[i] = e /\ \A j \in DOMAIN list : j # i => list'[j] = list[j]
  BY <1>1, <1>5, <1>6, ReplaceEvent DEF TypeOK
<1>8. TypeOK'
  BY <1>1, <1>3, <1>4, <1>7 DEF TypeOK, localVars
<1>9. LocalsKept(t) /\ OutputKept(t)
  BY <1>1, <1>2, Domains DEF LocalsKept, OutputKept, localVars
<1>10. ThreadInv(t)'
  <2>1. RequestMatches(t)' /\ PointersGood(t)'
    BY <1>1, <1>3 DEF RequestMatches, PointersGood, EventUsed, Holding,
       CreateLabels, ReserveLabels, ShowLabels, ListLabels, Request
  <2>2. LocksMatch(t)'
    BY <1>1, <1>3, <1>5, <1>7 DEF LocksMatch, Holding, Printing
  <2>3. LoopMatches(t)' /\ MarksMatch(t)'
    BY <1>3 DEF LoopMatches, MarksMatch, Making
  <2> QED BY <2>1, <2>2, <2>3 DEF ThreadInv
<1> QED BY <1>1, <1>5, <1>6, <1>8, <1>9, <1>10, EventStep DEF localVars

LEMMA ReserveMutexStep ==
  ASSUME BatchInv, NEW t \in Workers, ReserveMutex(t)
  PROVE  BatchInv'
<1> DEFINE i == ev[t]
           e == [list[i] EXCEPT !.mutex = t]
<1>1. /\ TypeOK /\ RequestMatches(t) /\ LocksMatch(t) /\ PointersGood(t)
      /\ \A j \in DOMAIN list : SeatsMatch(j)
      /\ pc[t] = "reserveMutex" /\ list[i].mutex = NoOne /\ t # NoOne
      /\ pc' = [pc EXCEPT ![t] = "reserveNumber"]
      /\ list' = [list EXCEPT ![i] = e]
      /\ UNCHANGED <<outputLock, output, call, reply, ev, rid, cur, stop, buf, calls>>
  BY DEF BatchInv, ThreadInv, ReserveMutex, MutexLock, Goto, localVars
<1>2. i \in DOMAIN list /\ list[i] \in AnyEvent
  BY <1>1, ListIsSeq DEF TypeOK, PointersGood, EventUsed
<1>3. /\ e \in AnyEvent /\ e.mutex = t /\ e.id = list[i].id
      /\ e.rows = list[i].rows /\ e.cols = list[i].cols
      /\ e.reservations = list[i].reservations /\ e.data = list[i].data
  BY <1>2, MutexUpdate
<1> HIDE DEF e
<1>4. pc' \in [Workers -> Labels] /\ pc'[t] = "reserveNumber"
  BY <1>1, Domains DEF Labels, ReserveLabels, Holding
<1>5. /\ ListTypeOK' /\ DOMAIN list' = DOMAIN list
      /\ list'[i] = e /\ \A j \in DOMAIN list : j # i => list'[j] = list[j]
  BY <1>1, <1>2, <1>3, ReplaceEvent DEF TypeOK
<1>6. TypeOK'
  BY <1>1, <1>4, <1>5 DEF TypeOK
<1>7. LocalsKept(t) /\ OutputKept(t)
  BY <1>1, Domains DEF LocalsKept, OutputKept
<1>8. \A j \in DOMAIN list : list[j].mutex # t
  BY <1>1 DEF LocksMatch, Holding
<1>9. ThreadInv(t)'
  <2>1. RequestMatches(t)'
    BY <1>1, <1>4 DEF RequestMatches, Holding, CreateLabels, ReserveLabels, ShowLabels,
       ListLabels, Request
  <2>2. PointersGood(t)'
    BY <1>1, <1>2, <1>3, <1>4, <1>5 DEF PointersGood, EventUsed, Holding, Request
  <2>3. LocksMatch(t)'
    BY <1>1, <1>3, <1>4, <1>5, <1>8 DEF LocksMatch, Holding, Printing
  <2>4. LoopMatches(t)' /\ MarksMatch(t)'
    BY <1>4 DEF LoopMatches, MarksMatch, Making
  <2> QED BY <2>1, <2>2, <2>3, <2>4 DEF ThreadInv
<1>10. SeatsMatch(i)'
  <2>1. Made(list[i])' = list[i].reservations /\ Made(list[i]) = list[i].reservations
    BY <1>1, <1>3, <1>4, <1>5 DEF Made, Numbered, Making
  <2>2. Places(list'[i]) = Places(list[i]) /\ list'[i].data = list[i].data
    BY <1>3, <1>5 DEF Places
  <2>3. SeatsMatch(i) /\ \A p : ~ InTheMaking(list[i], p)
    BY <1>1, <1>2 DEF InTheMaking
  <2> QED BY <1>1, <2>1, <2>2, <2>3 DEF SeatsMatch
<1> QED BY <1>1, <1>2, <1>3, <1>6, <1>7, <1>8, <1>9, <1>10, EventStep, ZenonT(60)

LEMMA ReserveNumberStep ==
  ASSUME BatchInv, NEW t \in Workers, ReserveNumber(t)
  PROVE  BatchInv'
<1> DEFINE i == ev[t]
           n == list[i].reservations + 1
           e == [list[i] EXCEPT !.reservations = n]
<1>1. /\ TypeOK /\ SeatsMatch(i) /\ list[i] \in AnyEvent
      /\ pc[t] = "reserveNumber" /\ i \in DOMAIN list /\ list[i].mutex = t
      /\ Len(Seats(t)) \in Nat \ {0} /\ list[i].reservations \in Nat
      /\ list[i].data \in [Places(list[i]) -> Nat]
  BY HeldEvent, AnyEventType DEF BatchInv, ReserveNumber, Holding
<1>2. /\ pc' = [pc EXCEPT ![t] = "reserveSeat"]
      /\ rid' = [rid EXCEPT ![t] = n] /\ cur' = [cur EXCEPT ![t] = 1]
      /\ stop' = [stop EXCEPT ![t] = stop[t]]
      /\ UNCHANGED <<outputLock, output, call, reply, ev, buf, calls>>
      /\ list' = [list EXCEPT ![i] = e]
  BY <1>1, Domains DEF ReserveNumber, Goto
<1>3. n \in Nat /\ n > 0 /\ stop[t] \in Nat
  BY <1>1, Domains
<1>4. /\ e \in AnyEvent /\ e.mutex = t /\ e.id = list[i].id
      /\ e.rows = list[i].rows /\ e.cols = list[i].cols
      /\ e.reservations = n /\ e.data = list[i].data
  BY <1>1, <1>3, CountUpdate
<1> HIDE DEF e
<1>5. pc'[t] = "reserveSeat" /\ rid'[t] = n /\ cur'[t] = 1 /\ list'[i] = e
  BY <1>1, <1>2, <1>4, ReplaceEvent, Domains DEF TypeOK
<1>6. Seats(t)' = Seats(t) /\ Places(e) = Places(list[i])
  BY <1>2, <1>4, SamePlan DEF Seats, Request
<1>7. \A p \in Places(list[i]) : list[i].data[p] \in 0 .. list[i].reservations
  BY <1>1 DEF SeatsMatch, Made, Numbered, InTheMaking, Making
<1>8. Made(list[i])' = list[i].reservations /\ Made(list[i]) = list[i].reservations
  <2>1. Numbered(list[i])' /\ ~ Numbered(list[i])
    BY <1>1, <1>2, <1>4, <1>5 DEF Numbered, Making
  <2>2. Made(list[i])' = e.reservations - 1 /\ Made(list[i]) = list[i].reservations
    BY <1>2, <1>5, <2>1 DEF Made
  <2> QED BY <1>1, <1>4, <2>2
<1>9. LoopMatches(t)'
  BY <1>1, <1>5, <1>6 DEF LoopMatches
<1>10. MarksMatch(t)'
  <2>1. Passed(t)' = {} /\ Marked(t)' = {}
    BY <1>5 DEF Passed, Marked
  <2>2. CarryNumber(e, Seats(t), {}, {}, n)
    BY <1>1, <1>4, <1>6, <1>7 DEF CarryNumber
  <2> QED BY <1>2, <1>3, <1>5, <1>6, <1>8, <2>1, <2>2 DEF MarksMatch
<1>11. SeatsMatch(i)'
  <2>1. \A p \in Places(e) : e.data[p] \in 0 .. list[i].reservations
    BY <1>4, <1>6, <1>7
  <2>2. \A m \in 1 .. list[i].reservations : \E p \in Places(e) : e.data[p] = m
    BY <1>1, <1>4, <1>6, <1>8 DEF SeatsMatch
  <2> QED BY <1>2, <1>5, <1>8, <2>1, <2>2 DEF SeatsMatch
<1> QED BY <1>1, <1>2, <1>3, <1>4, <1>9, <1>10, <1>11, HolderStep DEF Holding

LEMMA ReserveTestStep ==
  ASSUME BatchInv, NEW t \in Workers, ReserveTest(t)
  PROVE  BatchInv'
<1> DEFINE i == ev[t]
           label == IF SeatIsFree(t) THEN "reserveMark" ELSE "rollback"
<1>1. /\ TypeOK /\ SeatsMatch(i) /\ list[i] \in AnyEvent
      /\ LoopMatches(t) /\ MarksMatch(t)
      /\ pc[t] = "reserveSeat" /\ i \in DOMAIN list /\ list[i].mutex = t
      /\ Len(Seats(t)) \in Nat \ {0} /\ cur[t] <= Len(Seats(t))
      /\ Seats(t) \in Seq(Nat \X Nat)
  BY HeldEvent DEF BatchInv, ThreadInv, ReserveTest, Holding
<1>2. /\ pc' = [pc EXCEPT ![t] = label]
      /\ UNCHANGED <<list, outputLock, output, call, reply, ev, rid, cur, stop, buf, calls>>
  BY DEF ReserveTest, Goto, localVars
<1>3. /\ list' = [list EXCEPT ![i] = list[i]] /\ rid' = [rid EXCEPT ![t] = rid[t]]
      /\ cur' = [cur EXCEPT ![t] = cur[t]] /\ stop' = [stop EXCEPT ![t] = stop[t]]
      /\ rid[t] \in Nat /\ cur[t] \in Nat /\ stop[t] \in Nat
  BY <1>1, <1>2, Domains, ListIsSeq DEF TypeOK
<1>4. pc'[t] = label
  BY <1>1, <1>2, Domains
<1>5. cur[t] \in 1 .. Len(Seats(t))
  BY <1>1 DEF LoopMatches
<1>6. ~ SeatIsFree(t) => BlockedAt(t, cur[t])
  <2> DEFINE k == cur[t]
             p == Place(list[i], Seats(t), k)
  <2>1. ~ Inside(list[i], Seats(t), k) \/ list[i].data[p] \notin {0, rid[t]}
          => BlockedAt(t, k)
    BY DEF BlockedAt, Blocked
  <2>2. CASE Inside(list[i], Seats(t), k) /\ list[i].data[p] = rid[t]
    <3>1. p \in Places(list[i])
      BY <1>1, <1>5, <2>2, PlaceInRange
    <3>2. \E j \in 1 .. (k - 1) : Place(list[i], Seats(t), j) = p
      BY <1>1, <2>2, <3>1 DEF MarksMatch, Making, Marked, CarryNumber
    <3> QED BY <3>2 DEF BlockedAt, Blocked
  <2>3. Inside(list[i], Seats(t), k) /\ list[i].data[p] = 0 => SeatIsFree(t)
    BY DEF SeatIsFree, Inside, Place, PlaceOf
  <2> QED BY <2>1, <2>2, <2>3
<1>7. SeatIsFree(t)' = SeatIsFree(t) /\ BlockedAt(t, cur[t])' = BlockedAt(t, cur[t])
  BY <1>2 DEF SeatIsFree, PlaceOf, BlockedAt, Seats, Request
<1>8. LoopMatches(t)'
  BY <1>2, <1>4, <1>5, <1>6, <1>7 DEF LoopMatches, Seats, Request
<1>9. Made(list[i])' = Made(list[i])
  BY <1>1, <1>2, <1>4 DEF Made, Numbered, Making
<1>10. MarksMatch(t)'
  <2>1. Passed(t)' = Passed(t) /\ Marked(t)' = Marked(t) /\ Seats(t)' = Seats(t)
    BY <1>1, <1>2, <1>4 DEF Passed, Marked, Seats, Request
  <2> QED BY <1>1, <1>2, <1>9, <2>1 DEF MarksMatch, Making
<1>11. SeatsMatch(i)'
  <2>1. \A p : InTheMaking(list[i], p)' <=> InTheMaking(list[i], p)
    BY <1>1, <1>2, <1>4 DEF InTheMaking, Making
  <2> QED BY <1>1, <1>2, <1>9, <2>1 DEF SeatsMatch
<1> QED BY <1>1, <1>2, <1>3, <1>8, <1>10, <1>11, HeldEvent, HolderStep DEF Holding

-----------------------------------------------------------------------------
(* One seat more carries the number of the reservation, or one less.       *)
LEMMA MarkOne ==
  ASSUME NEW e \in AnyEvent, NEW seats \in Seq(Nat \X Nat), NEW n \in Nat \ {0},
         NEW k \in 1 .. Len(seats), Inside(e, seats, k),
         e.data[Place(e, seats, k)] = 0,
         CarryNumber(e, seats, 1 .. (k - 1), 1 .. (k - 1), n),
         NEW f \in AnyEvent, f.rows = e.rows, f.cols = e.cols,
         f.data = [e.data EXCEPT ![Place(e, seats, k)] = n]
  PROVE  CarryNumber(f, seats, 1 .. k, 1 .. k, n)
<1> DEFINE P(j) == Place(e, seats, j)
<1>1. /\ \A j \in 1 .. (k - 1) : Inside(e, seats, j)
      /\ \A i, j \in 1 .. (k - 1) : P(i) = P(j) => i = j
      /\ \A p \in Places(e) : e.data[p] = n <=> \E j \in 1 .. (k - 1) : P(j) = p
  BY DEF CarryNumber
<1>2. k \in Nat /\ P(k) \in Places(e) /\ e.data \in [Places(e) -> Nat]
  BY PlaceInRange, AnyEventType
<1>3. /\ Places(f) = Places(e)
      /\ \A j : Place(f, seats, j) = P(j)
      /\ \A j : Inside(f, seats, j) <=> Inside(e, seats, j)
  BY SamePlan
<1> HIDE DEF P
<1>4. \A j \in 1 .. (k - 1) : P(j) # P(k)
  BY <1>1, <1>2 DEF P
<1>5. \A j : j \in 1 .. k <=> j \in 1 .. (k - 1) \/ j = k
  BY <1>2
<1>6. \A j \in 1 .. k : Inside(f, seats, j)
  BY <1>1, <1>3, <1>5
<1>7. \A i, j \in 1 .. k : P(i) = P(j) => i = j
  BY <1>1, <1>4, <1>5
<1>8. \A p \in Places(e) : f.data[p] = n <=> \E j \in 1 .. k : P(j) = p
  <2> SUFFICES ASSUME NEW p \in Places(e)
               PROVE  f.data[p] = n <=> \E j \in 1 .. k : P(j) = p
    OBVIOUS
  <2>1. CASE p = P(k)
    BY <1>2, <2>1 DEF P
  <2>2. CASE p # P(k)
    <3>1. f.data[p] = e.data[p]
      BY <1>2, <2>2 DEF P
    <3>2. (\E j \in 1 .. k : P(j) = p) <=> \E j \in 1 .. (k - 1) : P(j) = p
      BY <1>5, <2>2
    <3> QED BY <1>1, <3>1, <3>2
  <2> QED BY <2>1, <2>2
<1> QED BY <1>3, <1>6, <1>7, <1>8 DEF CarryNumber

LEMMA ClearOne ==
  ASSUME NEW e \in AnyEvent, NEW seats \in Seq(Nat \X Nat), NEW n \in Nat \ {0},
         NEW m \in 1 .. Len(seats), NEW k \in 1 .. (m - 1),
         CarryNumber(e, seats, 1 .. (m - 1), k .. (m - 1), n),
         NEW f \in AnyEvent, f.rows = e.rows, f.cols = e.cols,
         f.data = [e.data EXCEPT ![Place(e, seats, k)] = 0]
  PROVE  CarryNumber(f, seats, 1 .. (m - 1), (k + 1) .. (m - 1), n)
<1> DEFINE P(j) == Place(e, seats, j)
<1>1. /\ \A j \in 1 .. (m - 1) : Inside(e, seats, j)
      /\ \A i, j \in 1 .. (m - 1) : P(i) = P(j) => i = j
      /\ \A p \in Places(e) : e.data[p] = n <=> \E j \in k .. (m - 1) : P(j) = p
  BY DEF CarryNumber
<1>2. /\ k \in Nat /\ m \in Nat /\ k <= m - 1 /\ k \in 1 .. Len(seats)
      /\ e.data \in [Places(e) -> Nat]
      /\ P(k) \in Places(e)
  <2>1. k \in Nat /\ m \in Nat /\ k <= m - 1 /\ k \in 1 .. Len(seats)
    OBVIOUS
  <2> QED BY <1>1, <2>1, PlaceInRange, AnyEventType
<1>3. /\ Places(f) = Places(e)
      /\ \A j : Place(f, seats, j) = P(j)
      /\ \A j : Inside(f, seats, j) <=> Inside(e, seats, j)
  BY SamePlan
<1> HIDE DEF P
<1>4. \A p \in Places(e) : f.data[p] = n <=> \E j \in (k + 1) .. (m - 1) : P(j) = p
  <2> SUFFICES ASSUME NEW p \in Places(e)
               PROVE  f.data[p] = n <=> \E j \in (k + 1) .. (m - 1) : P(j) = p
    OBVIOUS
  <2>1. CASE p = P(k)
    <3>1. f.data[p] = 0
      BY <1>2, <2>1 DEF P
    <3>2. \A j \in (k + 1) .. (m - 1) : P(j) # p
      BY <1>1, <1>2, <2>1, SMTT(30)
    <3> QED BY <3>1, <3>2
  <2>2. CASE p # P(k)
    <3>1. f.data[p] = e.data[p]
      BY <1>2, <2>2 DEF P
    <3>2. \A j \in k .. (m - 1) : j \in (k + 1) .. (m - 1) \/ j = k
      BY <1>2
    <3>3. \A j \in (k + 1) .. (m - 1) : j \in k .. (m - 1)
      BY <1>2
    <3>4. (\E j \in k .. (m - 1) : P(j) = p) <=> \E j \in (k + 1) .. (m - 1) : P(j) = p
      BY <2>2, <3>2, <3>3
    <3> QED BY <1>1, <3>1, <3>4
  <2> QED BY <2>1, <2>2
<1> QED BY <1>1, <1>3, <1>4 DEF CarryNumber

(* A seat that blocks the reservation still does after an earlier one of   *)
(* the request was freed.                                                  *)
LEMMA StillBlocked ==
  ASSUME NEW e \in AnyEvent, NEW seats, NEW k, NEW m, NEW n \in Nat,
         Blocked(e, seats, m, n), e.data[Place(e, seats, k)] = n,
         NEW f \in AnyEvent, f.rows = e.rows, f.cols = e.cols,
         f.data = [e.data EXCEPT ![Place(e, seats, k)] = 0]
  PROVE  Blocked(f, seats, m, n)
<1> DEFINE P(j) == Place(e, seats, j)
<1>1. /\ \A j : Place(f, seats, j) = P(j)
      /\ Inside(f, seats, m) <=> Inside(e, seats, m)
  BY SamePlan
<1>2. CASE e.data[P(m)] \notin {0, n}
  <2>1. P(m) # P(k)
    BY <1>2
  <2> HIDE DEF P
  <2>2. f.data[P(m)] = e.data[P(m)]
    BY <2>1, AnyEventType DEF P
  <2> QED BY <1>1, <1>2, <2>2 DEF Blocked
<1> QED BY <1>1, <1>2 DEF Blocked

(* The reservation in the making: its number, its seats and the others.    *)
LEMMA InMaking ==
  ASSUME BatchInv, NEW t \in Workers, pc[t] \in Making
  PROVE  LET e == list[ev[t]]
         IN /\ rid[t] \in Nat \ {0} /\ rid[t] = Made(e) + 1 /\ Made(e) \in Nat
            /\ e.reservations = IF pc[t] = "rollbackSeat" THEN Made(e) ELSE rid[t]
            /\ CarryNumber(e, Seats(t), Passed(t), Marked(t), rid[t])
            /\ \A p \in Places(e) : e.data[p] \in 0 .. Made(e) \/ e.data[p] = rid[t]
            /\ \A n \in 1 .. Made(e) : \E p \in Places(e) : e.data[p] = n
<1> DEFINE e == list[ev[t]]
<1>1. /\ e \in AnyEvent /\ ev[t] \in DOMAIN list /\ e.mutex = t
  BY HeldEvent DEF Making, Holding
<1>2. rid[t] \in Nat /\ e.reservations \in Nat
  BY <1>1, Domains, AnyEventType DEF BatchInv
<1>3. /\ rid[t] > 0 /\ rid[t] = Made(e) + 1
      /\ CarryNumber(e, Seats(t), Passed(t), Marked(t), rid[t])
  BY DEF BatchInv, ThreadInv, MarksMatch
<1>4. Made(e) = IF pc[t] = "rollbackSeat" THEN e.reservations ELSE e.reservations - 1
  BY <1>1 DEF Made, Numbered
<1>5. /\ \A p \in Places(e) : e.data[p] \in 0 .. Made(e) \/ e.data[p] = rid[t]
      /\ \A n \in 1 .. Made(e) : \E p \in Places(e) : e.data[p] = n
  BY <1>1 DEF BatchInv, SeatsMatch, InTheMaking
<1> HIDE DEF e
<1>6. /\ e.reservations = IF pc[t] = "rollbackSeat" THEN Made(e) ELSE rid[t]
      /\ Made(e) \in Nat
  BY <1>2, <1>3, <1>4
<1> QED BY <1>2, <1>3, <1>5, <1>6 DEF e

LEMMA ReserveMarkStep ==
  ASSUME BatchInv, NEW t \in Workers, ReserveMark(t)
  PROVE  BatchInv'
<1> DEFINE i == ev[t]
           E == list[i]
           k == cur[t]
           p == Place(E, Seats(t), k)
           a == [E.data EXCEPT ![p] = rid[t]]
           e == [E EXCEPT !.data = a]
<1>1. /\ TypeOK /\ E \in AnyEvent /\ LoopMatches(t)
      /\ pc[t] = "reserveMark" /\ i \in DOMAIN list /\ E.mutex = t
      /\ Seats(t) \in Seq(Nat \X Nat) /\ Len(Seats(t)) \in Nat \ {0}
      /\ E.data \in [Places(E) -> Nat]
  BY HeldEvent, AnyEventType DEF BatchInv, ThreadInv, ReserveMark, Holding
<1>2. /\ pc' = [pc EXCEPT ![t] = "reserveSeat"]
      /\ rid' = [rid EXCEPT ![t] = rid[t]] /\ cur' = [cur EXCEPT ![t] = k + 1]
      /\ stop' = [stop EXCEPT ![t] = stop[t]]
      /\ UNCHANGED <<outputLock, output, call, reply, ev, buf, calls>>
      /\ list' = [list EXCEPT ![i] = e]
      /\ rid' = rid
  BY <1>1, Domains DEF ReserveMark, Goto, PlaceOf, Place
<1>3. /\ k \in 1 .. Len(Seats(t)) /\ Inside(E, Seats(t), k) /\ E.data[p] = 0
      /\ stop[t] \in Nat /\ k + 1 \in Nat
  BY <1>1, Domains DEF LoopMatches, SeatIsFree, Inside, Place, PlaceOf
<1>4. p \in Places(E)
  BY <1>1, <1>3, PlaceInRange
<1>5. /\ rid[t] \in Nat \ {0} /\ rid[t] = Made(E) + 1 /\ Made(E) \in Nat
      /\ E.reservations = rid[t]
      /\ CarryNumber(E, Seats(t), 1 .. (k - 1), 1 .. (k - 1), rid[t])
      /\ \A q \in Places(E) : E.data[q] \in 0 .. Made(E) \/ E.data[q] = rid[t]
      /\ \A n \in 1 .. Made(E) : \E q \in Places(E) : E.data[q] = n
  BY <1>1, InMaking DEF Making, Passed, Marked
<1>6. a \in [Places(E) -> Nat]
  BY <1>1, <1>4, <1>5
<1>7. /\ e \in AnyEvent /\ e.mutex = t /\ e.id = E.id
      /\ e.rows = E.rows /\ e.cols = E.cols
      /\ e.reservations = rid[t] /\ e.data = a
  <2> HIDE DEF a, E
  <2> QED BY <1>1, <1>5, <1>6, DataUpdate
<1> HIDE DEF e, E
<1>8. pc'[t] = "reserveSeat" /\ rid'[t] = rid[t] /\ cur'[t] = k + 1 /\ list'[i] = e
  BY <1>1, <1>2, <1>7, ReplaceEvent, Domains DEF TypeOK, E
<1>9. Seats(t)' = Seats(t) /\ Places(e) = Places(E)
  BY <1>2, <1>7, SamePlan DEF Seats, Request
<1>10. Made(list[i])' = Made(E)
  <2>1. Numbered(list[i])'
    BY <1>2, <1>7, <1>8 DEF Numbered, Making
  <2>2. Made(list[i])' = e.reservations - 1
    BY <1>2, <1>8, <2>1 DEF Made
  <2> QED BY <1>5, <1>7, <2>2
<1>11. LoopMatches(t)'
  BY <1>1, <1>3, <1>8, <1>9 DEF LoopMatches
<1>12. MarksMatch(t)'
  <2>1. CarryNumber(e, Seats(t), 1 .. k, 1 .. k, rid[t])
    BY <1>1, <1>3, <1>5, <1>7, MarkOne
  <2>2. Passed(t)' = 1 .. k /\ Marked(t)' = 1 .. k
    BY <1>3, <1>8 DEF Passed, Marked
  <2> QED BY <1>2, <1>5, <1>8, <1>9, <1>10, <2>1, <2>2 DEF MarksMatch
<1>13. SeatsMatch(i)'
  <2>1. \A q \in Places(E) : e.data[q] \in 0 .. Made(E) \/ e.data[q] = rid[t]
    BY <1>1, <1>4, <1>5, <1>7
  <2>2. ASSUME NEW n \in 1 .. Made(E)
        PROVE  \E q \in Places(E) : e.data[q] = n
    <3>1. PICK q \in Places(E) : E.data[q] = n
      BY <1>5
    <3>2. q # p
      BY <1>3, <1>5, <3>1
    <3>3. e.data[q] = n
      BY <1>1, <1>7, <3>1, <3>2
    <3> QED BY <3>3
  <2>3. \A q : InTheMaking(list[i], q)' <=> e.data[q] = rid[t]
    BY <1>2, <1>7, <1>8 DEF InTheMaking, Making
  <2> QED BY <1>2, <1>8, <1>9, <1>10, <2>1, <2>2, <2>3 DEF SeatsMatch
<1> QED BY <1>1, <1>2, <1>3, <1>5, <1>7, <1>11, <1>12, <1>13, HolderStep, ZenonT(60) DEF Holding, E

LEMMA RollbackStep ==
  ASSUME BatchInv, NEW t \in Workers, Rollback(t)
  PROVE  BatchInv'
<1> DEFINE i == ev[t]
           E == list[i]
           k == cur[t]
           e == [E EXCEPT !.reservations = E.reservations - 1]
<1>1. /\ TypeOK /\ E \in AnyEvent /\ LoopMatches(t)
      /\ pc[t] = "rollback" /\ i \in DOMAIN list /\ E.mutex = t
      /\ Len(Seats(t)) \in Nat \ {0}
  BY HeldEvent DEF BatchInv, ThreadInv, Rollback, Holding
<1>2. /\ pc' = [pc EXCEPT ![t] = "rollbackSeat"]
      /\ rid' = [rid EXCEPT ![t] = rid[t]] /\ cur' = [cur EXCEPT ![t] = 1]
      /\ stop' = [stop EXCEPT ![t] = k]
      /\ UNCHANGED <<outputLock, output, call, reply, ev, buf, calls>>
      /\ list' = [list EXCEPT ![i] = e]
      /\ rid' = rid
  BY <1>1, Domains DEF Rollback, Goto
<1>3. k \in 1 .. Len(Seats(t)) /\ BlockedAt(t, k) /\ k \in Nat
  BY <1>1 DEF LoopMatches
<1>4. /\ rid[t] \in Nat \ {0} /\ rid[t] = Made(E) + 1 /\ Made(E) \in Nat
      /\ E.reservations = rid[t]
      /\ CarryNumber(E, Seats(t), 1 .. (k - 1), 1 .. (k - 1), rid[t])
      /\ \A q \in Places(E) : E.data[q] \in 0 .. Made(E) \/ E.data[q] = rid[t]
      /\ \A n \in 1 .. Made(E) : \E q \in Places(E) : E.data[q] = n
  BY <1>1, InMaking DEF Making, Passed, Marked
<1>5. E.reservations - 1 = Made(E)
  BY <1>4
<1>6. /\ e \in AnyEvent /\ e.mutex = t /\ e.id = E.id
      /\ e.rows = E.rows /\ e.cols = E.cols
      /\ e.reservations = Made(E) /\ e.data = E.data
  BY <1>1, <1>4, <1>5, CountUpdate
<1> HIDE DEF e, E
<1>7. pc'[t] = "rollbackSeat" /\ rid'[t] = rid[t] /\ cur'[t] = 1 /\ stop'[t] = k /\ list'[i] = e
  BY <1>1, <1>2, <1>6, ReplaceEvent, Domains DEF TypeOK, E
<1>8. Seats(t)' = Seats(t) /\ Places(e) = Places(E)
  BY <1>2, <1>6, SamePlan DEF Seats, Request
<1>9. Made(list[i])' = Made(E)
  <2>1. ~ Numbered(list[i])'
    BY <1>2, <1>6, <1>7 DEF Numbered, Making
  <2> QED BY <1>2, <1>6, <1>7, <2>1 DEF Made
<1>10. /\ \A s, j : Place(e, s, j) = Place(E, s, j)
       /\ \A s, j : Inside(e, s, j) <=> Inside(E, s, j)
  BY <1>6, SamePlan
<1>11. LoopMatches(t)'
  <2>1. Blocked(E, Seats(t), k, rid[t])
    BY <1>3 DEF BlockedAt, E
  <2>2. Blocked(e, Seats(t), k, rid[t])
    BY <1>6, <1>10, <2>1 DEF Blocked
  <2>4. 1 \in 1 .. k
    BY <1>3
  <2> QED BY <1>3, <1>7, <1>8, <2>2, <2>4, <1>2 DEF LoopMatches, BlockedAt
<1>12. MarksMatch(t)'
  <2>1. CarryNumber(e, Seats(t), 1 .. (k - 1), 1 .. (k - 1), rid[t])
    BY <1>4, <1>6, <1>8, <1>10 DEF CarryNumber
  <2>2. Passed(t)' = 1 .. (k - 1) /\ Marked(t)' = 1 .. (k - 1)
    BY <1>3, <1>7 DEF Passed, Marked
  <2> QED BY <1>2, <1>4, <1>7, <1>8, <1>9, <2>1, <2>2 DEF MarksMatch
<1>13. SeatsMatch(i)'
  <2>1. \A q : InTheMaking(list[i], q)' <=> E.data[q] = rid[t]
    BY <1>2, <1>6, <1>7 DEF InTheMaking, Making
  <2> QED BY <1>2, <1>4, <1>6, <1>7, <1>8, <1>9, <2>1 DEF SeatsMatch
<1> QED BY <1>1, <1>2, <1>3, <1>4, <1>6, <1>11, <1>12, <1>13, HolderStep, ZenonT(60) DEF Holding, E

LEMMA RollbackSeatStep ==
  ASSUME BatchInv, NEW t \in Workers, RollbackSeat(t)
  PROVE  BatchInv'
<1> DEFINE i == ev[t]
           E == list[i]
           k == cur[t]
           m == stop[t]
           p == Place(E, Seats(t), k)
           a == [E.data EXCEPT ![p] = 0]
           e == [E EXCEPT !.data = a]
<1>1. /\ TypeOK /\ E \in AnyEvent /\ LoopMatches(t)
      /\ pc[t] = "rollbackSeat" /\ i \in DOMAIN list /\ E.mutex = t
      /\ Seats(t) \in Seq(Nat \X Nat) /\ Len(Seats(t)) \in Nat \ {0}
      /\ E.data \in [Places(E) -> Nat]
  BY HeldEvent, AnyEventType DEF BatchInv, ThreadInv, RollbackSeat, Holding
<1>2. /\ pc' = [pc EXCEPT ![t] = "rollbackSeat"]
      /\ rid' = [rid EXCEPT ![t] = rid[t]] /\ cur' = [cur EXCEPT ![t] = k + 1]
      /\ stop' = [stop EXCEPT ![t] = m]
      /\ UNCHANGED <<outputLock, output, call, reply, ev, buf, calls>>
      /\ list' = [list EXCEPT ![i] = e]
      /\ rid' = rid
  BY <1>1, Domains DEF RollbackSeat, PlaceOf, Place
<1>3. /\ k \in 1 .. (m - 1) /\ m \in 1 .. Len(Seats(t)) /\ k \in 1 .. Len(Seats(t))
      /\ m \in Nat /\ k + 1 \in 1 .. m /\ k + 1 \in Nat
      /\ Blocked(E, Seats(t), m, rid[t])
  <2>1. k \in 1 .. m /\ m \in 1 .. Len(Seats(t)) /\ k < m
    BY <1>1 DEF LoopMatches, RollbackSeat
  <2>2. Blocked(E, Seats(t), m, rid[t])
    BY <1>1 DEF LoopMatches, BlockedAt
  <2>3. Len(Seats(t)) \in Nat
    BY <1>1
  <2> HIDE DEF k, m, E
  <2> QED BY <2>1, <2>2, <2>3
<1>4. /\ rid[t] \in Nat \ {0} /\ rid[t] = Made(E) + 1 /\ Made(E) \in Nat
      /\ E.reservations = Made(E)
      /\ CarryNumber(E, Seats(t), 1 .. (m - 1), k .. (m - 1), rid[t])
      /\ \A q \in Places(E) : E.data[q] \in 0 .. Made(E) \/ E.data[q] = rid[t]
      /\ \A n \in 1 .. Made(E) : \E q \in Places(E) : E.data[q] = n
  BY <1>1, InMaking DEF Making, Passed, Marked
<1>5. p \in Places(E) /\ E.data[p] = rid[t]
  <2>1. Inside(E, Seats(t), k)
    BY <1>3, <1>4 DEF CarryNumber
  <2>2. p \in Places(E)
    BY <1>1, <1>3, <2>1, PlaceInRange
  <2>3. k \in k .. (m - 1)
    BY <1>3
  <2> QED BY <1>4, <2>2, <2>3 DEF CarryNumber
<1>6. a \in [Places(E) -> Nat]
  BY <1>1, <1>5
<1>7. /\ e \in AnyEvent /\ e.mutex = t /\ e.id = E.id
      /\ e.rows = E.rows /\ e.cols = E.cols
      /\ e.reservations = Made(E) /\ e.data = a
  <2>1. E \in AnyEvent /\ E.mutex = t /\ E.reservations = Made(E)
    BY <1>1, <1>4
  <2> HIDE DEF a, E
  <2> QED BY <1>6, <2>1, DataUpdate
<1> HIDE DEF e, E
<1>8. /\ pc'[t] = "rollbackSeat" /\ rid'[t] = rid[t] /\ cur'[t] = k + 1 /\ stop'[t] = m
      /\ list'[i] = e
  BY <1>1, <1>2, <1>7, ReplaceEvent, Domains DEF TypeOK, E
<1>9. Seats(t)' = Seats(t) /\ Places(e) = Places(E)
  BY <1>2, <1>7, SamePlan DEF Seats, Request
<1>10. Made(list[i])' = Made(E)
  <2>1. ~ Numbered(list[i])'
    BY <1>2, <1>7, <1>8 DEF Numbered, Making
  <2> QED BY <1>2, <1>7, <1>8, <2>1 DEF Made
<1>11. LoopMatches(t)'
  <2>1. Blocked(e, Seats(t), m, rid[t])
    <3>1. e.data = [E.data EXCEPT ![Place(E, Seats(t), k)] = 0]
      BY <1>7
    <3>2. rid[t] \in Nat
      BY <1>4
    <3> HIDE DEF k, m, i
    <3> QED BY <1>1, <1>3, <1>5, <1>7, <3>1, <3>2, StillBlocked
  <2> QED BY <1>2, <1>3, <1>8, <1>9, <2>1 DEF LoopMatches, BlockedAt
<1>12. MarksMatch(t)'
  <2>1. CarryNumber(e, Seats(t), 1 .. (m - 1), (k + 1) .. (m - 1), rid[t])
    BY <1>1, <1>3, <1>4, <1>7, ClearOne
  <2>2. Passed(t)' = 1 .. (m - 1) /\ Marked(t)' = (k + 1) .. (m - 1)
    BY <1>8 DEF Passed, Marked
  <2> QED BY <1>2, <1>4, <1>8, <1>9, <1>10, <2>1, <2>2 DEF MarksMatch
<1>13. SeatsMatch(i)'
  <2>1. \A q \in Places(E) : e.data[q] \in 0 .. Made(E) \/ e.data[q] = rid[t]
    BY <1>1, <1>4, <1>5, <1>7
  <2>2. \A n \in 1 .. Made(E) : \E q \in Places(E) : e.data[q] = n
    BY <1>1, <1>4, <1>5, <1>7
  <2>3. \A q : InTheMaking(list[i], q)' <=> e.data[q] = rid[t]
    BY <1>2, <1>7, <1>8 DEF InTheMaking, Making
  <2> QED BY <1>2, <1>8, <1>9, <1>10, <2>1, <2>2, <2>3 DEF SeatsMatch
<1> QED BY <1>1, <1>2, <1>3, <1>4, <1>7, <1>11, <1>12, <1>13, HolderStep, ZenonT(60) DEF Holding, E

(* A reservation that was made, or undone, leaves the event with the ids 1 *)
(* to reservations on its seats.                                           *)
LEMMA SeatsGivenBack ==
  ASSUME BatchInv, NEW t \in Workers, pc[t] \in Holding, MutexUnlock(ev[t]), ev' = ev,
         LET e == list[ev[t]]
         IN /\ \A p \in Places(e) : e.data[p] \in 0 .. e.reservations
            /\ \A n \in 1 .. e.reservations : \E p \in Places(e) : e.data[p] = n
  PROVE  SeatsMatch(ev[t])'
<1> DEFINE i == ev[t]
           E == list[i]
           e == [E EXCEPT !.mutex = NoOne]
<1>1. /\ i \in DOMAIN list /\ E \in AnyEvent /\ ListTypeOK
      /\ list' = [list EXCEPT ![i] = e]
  BY HeldEvent DEF BatchInv, TypeOK, MutexUnlock
<1>2. /\ e \in AnyEvent /\ e.mutex = NoOne /\ e.rows = E.rows /\ e.cols = E.cols
      /\ e.reservations = E.reservations /\ e.data = E.data
  BY <1>1, MutexUpdate
<1> HIDE DEF e
<1>3. list'[i] = e
  BY <1>1, <1>2, ReplaceEvent
<1>4. Made(list[i])' = e.reservations
  BY <1>2, <1>3 DEF Made, Numbered
<1>5. Places(e) = Places(E)
  BY <1>2, SamePlan
<1> QED BY <1>2, <1>3, <1>4, <1>5 DEF SeatsMatch

LEMMA ReserveUnlockStep ==
  ASSUME BatchInv, NEW t \in Workers, ReserveUnlock(t)
  PROVE  BatchInv'
<1> DEFINE E == list[ev[t]]
           k == cur[t]
<1>1. /\ pc[t] = "reserveSeat" /\ k > Len(Seats(t)) /\ k \in Nat
      /\ MutexUnlock(ev[t]) /\ Finish(t, Done)
      /\ UNCHANGED <<outputLock, output, call, localVars, calls>> /\ ev' = ev
  BY Domains DEF ReserveUnlock, BatchInv, localVars
<1>2. /\ Seats(t) \in Seq(Nat \X Nat) /\ Len(Seats(t)) \in Nat \ {0} /\ E \in AnyEvent
  BY <1>1, HeldEvent DEF Holding
<1>3. /\ rid[t] \in Nat \ {0} /\ rid[t] = Made(E) + 1 /\ Made(E) \in Nat
      /\ E.reservations = rid[t]
      /\ CarryNumber(E, Seats(t), 1 .. (k - 1), 1 .. (k - 1), rid[t])
      /\ \A q \in Places(E) : E.data[q] \in 0 .. Made(E) \/ E.data[q] = rid[t]
      /\ \A n \in 1 .. Made(E) : \E q \in Places(E) : E.data[q] = n
  BY <1>1, InMaking DEF Making, Passed, Marked
<1>4. \E q \in Places(E) : E.data[q] = rid[t]
  <2>1. 1 \in 1 .. (k - 1) /\ 1 \in 1 .. Len(Seats(t))
    BY <1>1, <1>2
  <2>2. Inside(E, Seats(t), 1)
    BY <1>3, <2>1 DEF CarryNumber
  <2>3. Place(E, Seats(t), 1) \in Places(E)
    BY <1>2, <2>1, <2>2, PlaceInRange
  <2> QED BY <1>3, <2>1, <2>3 DEF CarryNumber
<1> HIDE DEF E
<1>5. \A q \in Places(E) : E.data[q] \in 0 .. E.reservations
  BY <1>3
<1>6. \A n \in 1 .. E.reservations : n \in 1 .. Made(E) \/ n = rid[t]
  BY <1>3
<1>7. \A n \in 1 .. E.reservations : \E q \in Places(E) : E.data[q] = n
  BY <1>3, <1>4, <1>6
<1>8. SeatsMatch(ev[t])'
  BY <1>1, <1>5, <1>7, SeatsGivenBack DEF E, Holding
<1> QED BY <1>1, <1>8, UnlockStep DEF Holding

LEMMA RollbackUnlockStep ==
  ASSUME BatchInv, NEW t \in Workers, RollbackUnlock(t)
  PROVE  BatchInv'
<1> DEFINE E == list[ev[t]]
           k == cur[t]
<1>1. /\ pc[t] = "rollbackSeat" /\ k = stop[t] /\ k \in Nat
      /\ MutexUnlock(ev[t]) /\ Finish(t, Failed)
      /\ UNCHANGED <<outputLock, output, call, localVars, calls>> /\ ev' = ev
  BY Domains DEF RollbackUnlock, BatchInv, localVars
<1>2. /\ rid[t] \in Nat \ {0} /\ rid[t] = Made(E) + 1 /\ Made(E) \in Nat
      /\ E.reservations = Made(E)
      /\ CarryNumber(E, Seats(t), 1 .. (k - 1), k .. (k - 1), rid[t])
      /\ \A q \in Places(E) : E.data[q] \in 0 .. Made(E) \/ E.data[q] = rid[t]
      /\ \A n \in 1 .. Made(E) : \E q \in Places(E) : E.data[q] = n
  BY <1>1, InMaking DEF Making, Passed, Marked
<1>3. \A q \in Places(E) : E.data[q] # rid[t]
  <2>1. k .. (k - 1) = {}
    BY <1>1
  <2> QED BY <1>2, <2>1 DEF CarryNumber
<1>4. SeatsMatch(ev[t])'
  BY <1>1, <1>2, <1>3, SeatsGivenBack DEF Holding
<1> QED BY <1>1, <1>4, UnlockStep DEF Holding

-----------------------------------------------------------------------------
LEMMA InitBatchInv == Init => BatchInv
<1> SUFFICES ASSUME Init
             PROVE  BatchInv
  OBVIOUS
<1>1. /\ list = <<>> /\ DOMAIN list = {} /\ list \in Seq(AnyEvent) /\ outputLock = NoOne
      /\ \A t \in Workers : pc[t] = "idle" /\ call[t] = NoRequest
  BY DEF Init
<1>2. TypeOK
  <2>1. ListTypeOK
    BY <1>1 DEF ListTypeOK
  <2>2. NoRequest \in NumberedCalls /\ "idle" \in Labels
    BY DEF NumberedCalls, Labels
  <2>3. /\ pc \in [Workers -> Labels] /\ call \in [Workers -> NumberedCalls]
        /\ reply \in [Workers -> {NoReply, Done, Failed}]
        /\ ev \in [Workers -> Nat] /\ rid \in [Workers -> Nat]
        /\ cur \in [Workers -> Nat] /\ stop \in [Workers -> Nat]
        /\ calls \in 0 .. MaxCalls
    BY <2>2 DEF Init
  <2>4. buf \in [Workers -> Seq(Nat)]
    BY DEF Init
  <2>5. output \in Seq([call : 1 .. MaxCalls, data : Seq(Nat)])
    BY DEF Init
  <2> QED BY <1>1, <2>1, <2>3, <2>4, <2>5 DEF TypeOK
<1>3. ASSUME NEW t \in Workers
      PROVE  ThreadInv(t)
  <2>1. pc[t] = "idle" /\ call[t] = NoRequest /\ outputLock # t
    BY <1>1
  <2> QED BY <1>1, <2>1 DEF ThreadInv, RequestMatches, LocksMatch, PointersGood, LoopMatches,
         MarksMatch, CreateLabels, ReserveLabels, ShowLabels, ListLabels, Holding, Printing,
         EventUsed, Making
<1> QED BY <1>1, <1>2, <1>3 DEF BatchInv, UniqueEventIds

LEMMA StutterStep ==
  ASSUME BatchInv, UNCHANGED vars
  PROVE  BatchInv'
<1>1. /\ list' = list /\ outputLock' = outputLock /\ output' = output /\ pc' = pc
      /\ call' = call /\ reply' = reply /\ ev' = ev /\ rid' = rid /\ cur' = cur
      /\ stop' = stop /\ buf' = buf /\ calls' = calls
  BY DEF vars, localVars
<1>2. TypeOK'
  BY <1>1, ListTypeKept DEF BatchInv, TypeOK
<1>3. UniqueEventIds'
  BY <1>1 DEF BatchInv, UniqueEventIds
<1>4. ASSUME NEW t \in Workers
      PROVE  ThreadInv(t)'
  <2>1. RequestMatches(t)' /\ LocksMatch(t)' /\ PointersGood(t)'
    BY <1>1 DEF BatchInv, ThreadInv, RequestMatches, LocksMatch, PointersGood, Request
  <2>2. LoopMatches(t)' /\ MarksMatch(t)'
    BY <1>1 DEF BatchInv, ThreadInv, LoopMatches, MarksMatch, Seats, Request, BlockedAt,
       SeatIsFree, PlaceOf, Passed, Marked, Made, Numbered
  <2> QED BY <2>1, <2>2 DEF ThreadInv
<1>5. ASSUME NEW i \in DOMAIN list'
      PROVE  SeatsMatch(i)'
  BY <1>1 DEF BatchInv, SeatsMatch, Made, Numbered, InTheMaking
<1> QED BY <1>2, <1>3, <1>4, <1>5 DEF BatchInv

LEMMA NextBatchInv ==
  ASSUME BatchInv, [Next]_vars
  PROVE  BatchInv'
<1>1. ASSUME NEW t \in Workers, NEW c \in Calls, Invoke(t, c)
      PROVE  BatchInv'
  BY <1>1, InvokeStep
<1>2. ASSUME NEW t \in Workers, Create(t)
      PROVE  BatchInv'
  BY <1>2, CreateFindStep, CreateAppendStep DEF Create
<1>3. ASSUME NEW t \in Workers, Reserve(t)
      PROVE  BatchInv'
  <2>1. CASE ReserveFind(t)
    BY <2>1, FindStep DEF ReserveFind
  <2> QED BY <1>3, <2>1, ReserveMutexStep, ReserveNumberStep, ReserveTestStep, ReserveMarkStep,
         ReserveUnlockStep, RollbackStep, RollbackSeatStep, RollbackUnlockStep DEF Reserve
<1>4. ASSUME NEW t \in Workers, Show(t)
      PROVE  BatchInv'
  <2>1. CASE ShowFind(t)
    BY <2>1, FindStep DEF ShowFind
  <2> QED BY <1>4, <2>1, OutputStep, ShowSeatStep, PrintedStep DEF Show
<1>5. ASSUME NEW t \in Workers, List(t)
      PROVE  BatchInv'
  BY <1>5, PrintedStep, OutputStep, ListNodeStep DEF List
<1> QED BY <1>1, <1>2, <1>3, <1>4, <1>5, ReturnStep, StutterStep DEF Next, Step

(* The invariant holds in every reachable state of every instance.         *)
THEOREM BatchInvariant == Spec => []BatchInv
<1>1. Init => BatchInv
  BY InitBatchInv
<1>2. BatchInv /\ [Next]_vars => BatchInv'
  BY NextBatchInv
<1> QED BY <1>1, <1>2, PTL DEF Spec

(* The store, its threads and the output have their types, and no step     *)
(* reads the array of an event out of its bounds.                          *)
THEOREM TypeCorrect == Spec => []TypeOK
<1>1. BatchInv => TypeOK
  BY DEF BatchInv
<1> QED BY <1>1, BatchInvariant, PTL

(* Two events never have one id: ems_create's second lookup is under the   *)
(* hold of Lock that links the event.                                      *)
THEOREM UniqueIds == Spec => []UniqueEventIds
<1>1. BatchInv => UniqueEventIds
  BY DEF BatchInv
<1> QED BY <1>1, BatchInvariant, PTL

(* An event that nobody holds has exactly the reservations it has counted, *)
(* each with a seat, whatever was made and undone before.                  *)
THEOREM CountMatchesSeats == Spec => []ReservationsHoldSeats
<1>1. ASSUME BatchInv
      PROVE  ReservationsHoldSeats
  <2> SUFFICES ASSUME NEW i \in DOMAIN list, list[i].mutex = NoOne
               PROVE  {list[i].data[p] : p \in Places(list[i])} \ {0}
                        = 1 .. list[i].reservations
    BY DEF ReservationsHoldSeats
  <2>1. list[i] \in AnyEvent
    BY <1>1, ListIsSeq DEF BatchInv, TypeOK
  <2>2. list[i].reservations \in Nat
    BY <2>1, AnyEventType
  <2>3. /\ \A p \in Places(list[i]) : list[i].data[p] \in 0 .. list[i].reservations
        /\ \A n \in 1 .. list[i].reservations :
             \E p \in Places(list[i]) : list[i].data[p] = n
    BY <1>1 DEF BatchInv, SeatsMatch, Made, Numbered, InTheMaking
  <2> QED BY <2>2, <2>3
<1> QED BY <1>1, BatchInvariant, PTL

-----------------------------------------------------------------------------
(* Seats once reserved.                                                    *)
KeepsSeats(i, e) ==
  /\ e.id = list[i].id
  /\ \A p \in Places(list[i]) :
       list[i].data[p] # 0 /\ ~ InTheMaking(list[i], p) => e.data[p] = list[i].data[p]

LEMMA SeatsKeptByEvent ==
  ASSUME BatchInv, NEW i \in DOMAIN list, NEW e,
         list' = [list EXCEPT ![i] = e], KeepsSeats(i, e)
  PROVE  SeatsKept
<1>1. list \in Seq(AnyEvent) /\ Len(list) \in Nat /\ DOMAIN list = 1 .. Len(list)
  BY ListIsSeq DEF BatchInv, TypeOK
<1>2. /\ DOMAIN list' = DOMAIN list /\ list'[i] = e
      /\ \A j \in DOMAIN list : j # i => list'[j] = list[j]
  BY <1>1
<1> QED BY <1>2 DEF SeatsKept, KeepsSeats

LEMMA SeatsKeptByMark ==
  ASSUME BatchInv, NEW t \in Workers, ReserveMark(t) \/ RollbackSeat(t)
  PROVE  SeatsKept
<1> DEFINE i == ev[t]
           E == list[i]
           p == Place(E, Seats(t), cur[t])
<1>1. /\ i \in DOMAIN list /\ E \in AnyEvent /\ E.mutex = t
      /\ pc[t] \in Making /\ LoopMatches(t) /\ MarksMatch(t)
      /\ E.data \in [Places(E) -> Nat]
  BY HeldEvent, AnyEventType
     DEF BatchInv, ThreadInv, ReserveMark, RollbackSeat, Holding, Making
<1>2. PICK n : list' = [list EXCEPT ![i] = [E EXCEPT !.data = [E.data EXCEPT ![p] = n]]]
  BY DEF ReserveMark, RollbackSeat, PlaceOf, Place
<1>3. E.data[p] = 0 \/ E.data[p] = rid[t]
  <2>1. CASE ReserveMark(t)
    BY <1>1, <2>1 DEF LoopMatches, ReserveMark, SeatIsFree, PlaceOf, Place
  <2>2. CASE RollbackSeat(t)
    <3>1. /\ pc[t] = "rollbackSeat" /\ cur[t] \in 1 .. stop[t] /\ cur[t] < stop[t]
          /\ stop[t] \in 1 .. Len(Seats(t)) /\ Seats(t) \in Seq(Nat \X Nat)
          /\ Len(Seats(t)) \in Nat
      BY <1>1, <2>2, HeldEvent DEF LoopMatches, RollbackSeat, Holding, Making
    <3>2. /\ cur[t] \in 1 .. (stop[t] - 1) /\ cur[t] \in cur[t] .. (stop[t] - 1)
          /\ cur[t] \in 1 .. Len(Seats(t))
      BY <3>1, SMTT(30)
    <3>3. CarryNumber(E, Seats(t), 1 .. (stop[t] - 1), cur[t] .. (stop[t] - 1), rid[t])
      BY <1>1, <3>1 DEF MarksMatch, Passed, Marked
    <3>4. p \in Places(E)
      BY <1>1, <3>1, <3>2, <3>3, PlaceInRange DEF CarryNumber
    <3> QED BY <3>2, <3>3, <3>4 DEF CarryNumber
  <2> QED BY <2>1, <2>2
<1> DEFINE e == [E EXCEPT !.data = [E.data EXCEPT ![p] = n]]
<1>4. e.id = E.id /\ e.data = [E.data EXCEPT ![p] = n]
  <2>1. PICK d \in Dims : E \in Event(d)
    BY <1>1 DEF AnyEvent
  <2> HIDE DEF p, E
  <2> QED BY <2>1 DEF Event
<1>5. \A q \in Places(E) : E.data[q] # 0 /\ ~ InTheMaking(E, q) => e.data[q] = E.data[q]
  <2> SUFFICES ASSUME NEW q \in Places(E), E.data[q] # 0, ~ InTheMaking(E, q)
               PROVE  e.data[q] = E.data[q]
    OBVIOUS
  <2>1. q # p
    BY <1>1, <1>3 DEF InTheMaking
  <2> HIDE DEF p, E, e
  <2> QED BY <1>1, <1>4, <2>1
<1> HIDE DEF p, e
<1>6. list' = [list EXCEPT ![i] = e]
  BY <1>2 DEF e
<1>7. KeepsSeats(i, e)
  BY <1>4, <1>5 DEF KeepsSeats
<1> QED BY <1>1, <1>6, <1>7, SeatsKeptByEvent

(* A lock, an unlock and a count leave the array alone.                    *)
LEMMA SeatsKeptByOthers ==
  ASSUME BatchInv, NEW t \in Workers,
         \/ ReserveMutex(t) \/ ReserveNumber(t) \/ ReserveUnlock(t)
         \/ Rollback(t) \/ RollbackUnlock(t)
  PROVE  SeatsKept
<1> DEFINE i == ev[t]
           E == list[i]
<1>1. i \in DOMAIN list /\ E \in AnyEvent
  <2>1. CASE ReserveMutex(t)
    BY <2>1, ListIsSeq
       DEF ReserveMutex, BatchInv, ThreadInv, PointersGood, EventUsed, TypeOK
  <2>2. CASE ~ ReserveMutex(t)
    BY <2>2, HeldEvent DEF ReserveNumber, ReserveUnlock, Rollback, RollbackUnlock, Holding
  <2> QED BY <2>1, <2>2
<1>2. PICK d \in Dims : E \in Event(d)
  BY <1>1 DEF AnyEvent
<1>3. \/ \E m : list' = [list EXCEPT ![i] = [E EXCEPT !.mutex = m]]
      \/ \E n : list' = [list EXCEPT ![i] = [E EXCEPT !.reservations = n]]
  BY DEF ReserveMutex, ReserveNumber, ReserveUnlock, Rollback, RollbackUnlock,
     MutexLock, MutexUnlock
<1>4. PICK e : list' = [list EXCEPT ![i] = e] /\ e.id = E.id /\ e.data = E.data
  <2> HIDE DEF E
  <2>1. ASSUME NEW m, list' = [list EXCEPT ![i] = [E EXCEPT !.mutex = m]]
        PROVE  \E e : list' = [list EXCEPT ![i] = e] /\ e.id = E.id /\ e.data = E.data
    <3> WITNESS [E EXCEPT !.mutex = m]
    <3> QED BY <1>2, <2>1 DEF Event
  <2>2. ASSUME NEW n, list' = [list EXCEPT ![i] = [E EXCEPT !.reservations = n]]
        PROVE  \E e : list' = [list EXCEPT ![i] = e] /\ e.id = E.id /\ e.data = E.data
    <3> WITNESS [E EXCEPT !.reservations = n]
    <3> QED BY <1>2, <2>2 DEF Event
  <2> QED BY <1>3, <2>1, <2>2
<1> QED BY <1>1, <1>4, SeatsKeptByEvent DEF KeepsSeats

LEMMA SeatsKeptBySame ==
  ASSUME list' = list
  PROVE  SeatsKept
BY DEF SeatsKept

LEMMA SeatsKeptByAppend ==
  ASSUME BatchInv, NEW t \in Workers, CreateAppend(t)
  PROVE  SeatsKept
<1>1. CASE list' = list
  BY <1>1, SeatsKeptBySame
<1>2. CASE list' = Append(list, NewEvent(Request(t)))
  <2>1. NewEvent(Request(t)) \in AnyEvent
    BY NewEventType
       DEF CreateAppend, BatchInv, ThreadInv, RequestMatches, CreateLabels
  <2>2. \A i \in DOMAIN list : i \in DOMAIN list' /\ list'[i] = list[i]
    BY <1>2, <2>1, AppendEvent, ListIsSeq DEF BatchInv, TypeOK
  <2> QED BY <2>2 DEF SeatsKept
<1> QED BY <1>1, <1>2 DEF CreateAppend

(* Every other step leaves the list alone.                                 *)
LEMMA QuietSteps ==
  ASSUME [Next]_vars
  PROVE  \/ list' = list
         \/ \E t \in Workers :
              \/ CreateAppend(t) \/ ReserveMark(t) \/ RollbackSeat(t)
              \/ ReserveMutex(t) \/ ReserveNumber(t) \/ ReserveUnlock(t)
              \/ Rollback(t) \/ RollbackUnlock(t)
<1>1. CASE UNCHANGED vars
  BY <1>1 DEF vars
<1>2. ASSUME NEW t \in Workers, \E c \in Calls : Invoke(t, c)
      PROVE  list' = list
  BY <1>2 DEF Invoke
<1>3. ASSUME NEW t \in Workers,
             \/ CreateFind(t) \/ ReserveFind(t) \/ ReserveTest(t) \/ Show(t) \/ List(t)
             \/ Return(t)
      PROVE  list' = list
  BY <1>3 DEF CreateFind, ReserveFind, Find, ReserveTest, Show, ShowFind, ShowOutput, ShowSeat,
     ShowWrite, List, ListFirst, ListOutput, ListNode, ListWrite, Return
<1> QED BY <1>1, <1>2, <1>3 DEF Next, Step, Create, Reserve

LEMMA NextSeatsKept ==
  ASSUME BatchInv, [Next]_vars
  PROVE  SeatsKept
BY QuietSteps, SeatsKeptBySame, SeatsKeptByAppend, SeatsKeptByMark, SeatsKeptByOthers

(* No reservation that was made ever loses a seat, although the failed     *)
(* ones of other threads put zeros in the array.                           *)
THEOREM MadeForever == Spec => CommittedForever
<1>1. BatchInv /\ [Next]_vars => SeatsKept
  BY NextSeatsKept
<1>2. BatchInv /\ [Next]_vars => [SeatsKept]_vars
  BY <1>1
<1> QED BY <1>2, BatchInvariant, PTL DEF Spec, CommittedForever

-----------------------------------------------------------------------------
(* For the refinement of EventStore: the calls have their numbers, and a   *)
(* thread its answer when it is done; a LIST that walks the list has       *)
(* copied the ids of the nodes before it, as long as they fit its buffer.  *)
EventsFit == Len(list) <= BufferLines

CallNumbers ==
  /\ \A t \in Workers : pc[t] # "idle" => call[t].number \in 1 .. calls
  /\ \A t, u \in Workers :
       pc[t] # "idle" /\ pc[u] # "idle" /\ call[t].number = call[u].number => t = u
  /\ \A k \in DOMAIN output : output[k].call <= calls
AnswerMatches(t) ==
  /\ pc[t] = "done" <=> reply[t] # NoReply
  /\ pc[t] \notin {"showSeat", "listNode", "done"} => buf[t] = <<>>
  /\ pc[t] = "listNode" /\ cur[t] # 0 => buf[t] = [k \in 1 .. (cur[t] - 1) |-> list[k].id]
  /\ pc[t] \in ListLabels => \A k \in DOMAIN output : output[k].call # call[t].number
OutputInv == CallNumbers /\ \A t \in Workers : AnswerMatches(t)

(* What a step of t leaves of the others, and adds to the output.          *)
OthersKept(t) ==
  \A u \in Workers \ {t} :
    /\ pc'[u] = pc[u] /\ call'[u] = call[u] /\ reply'[u] = reply[u] /\ ev'[u] = ev[u]
    /\ rid'[u] = rid[u] /\ cur'[u] = cur[u] /\ stop'[u] = stop[u] /\ buf'[u] = buf[u]
OutputGrows(t) ==
  \/ output' = output
  \/ pc[t] \in Printing /\ output' = Append(output, Written(t))

LEMMA StepFrame ==
  ASSUME BatchInv, NEW t \in Workers, (\E c \in Calls : Invoke(t, c)) \/ Step(t)
  PROVE  OthersKept(t) /\ OutputGrows(t)
<1>1. TypeOK
  BY DEF BatchInv
<1>2. CASE \E c \in Calls : Invoke(t, c)
  BY <1>1, <1>2, Domains DEF Invoke, Goto, OthersKept, OutputGrows, localVars
<1>3. CASE Create(t)
  BY <1>1, <1>3, Domains
     DEF Create, CreateFind, CreateAppend, Finish, Goto, OthersKept, OutputGrows, localVars
<1>4. CASE ReserveFind(t) \/ ShowFind(t)
  BY <1>1, <1>4, Domains
     DEF ReserveFind, ShowFind, Find, Finish, Goto, OthersKept, OutputGrows
<1>5. CASE ReserveMutex(t) \/ ReserveTest(t) \/ ReserveUnlock(t) \/ RollbackUnlock(t)
  BY <1>1, <1>5, Domains
     DEF ReserveMutex, ReserveTest, ReserveUnlock, RollbackUnlock, Finish, Goto, OthersKept,
         OutputGrows, localVars
<1>6. CASE ReserveNumber(t) \/ ReserveMark(t) \/ Rollback(t) \/ RollbackSeat(t)
  BY <1>1, <1>6, Domains
     DEF ReserveNumber, ReserveMark, Rollback, RollbackSeat, Goto, OthersKept, OutputGrows
<1>7. CASE ShowOutput(t) \/ ShowSeat(t) \/ ListOutput(t)
  BY <1>1, <1>7, Domains
     DEF ShowOutput, ShowSeat, ListOutput, Goto, OthersKept, OutputGrows
<1>8. CASE ShowWrite(t) \/ ListFirst(t) \/ ListWrite(t)
  BY <1>1, <1>8, Domains
     DEF ShowWrite, ListFirst, ListWrite, Write, Written, Finish, Goto, OthersKept, OutputGrows,
         Printing, localVars
<1>9. CASE ListNode(t)
  BY <1>1, <1>9, Domains
     DEF ListNode, Write, Written, OthersKept, OutputGrows, Printing
<1>10. CASE Return(t)
  BY <1>1, <1>10, Domains DEF Return, Goto, OthersKept, OutputGrows
<1> QED BY <1>2, <1>3, <1>4, <1>5, <1>6, <1>7, <1>8, <1>9, <1>10
        DEF Step, Reserve, Show, List

LEMMA OutputTyped ==
  ASSUME BatchInv, NEW t \in Workers, OutputGrows(t)
  PROVE  /\ DOMAIN output = 1 .. Len(output) /\ Len(output) \in Nat
         /\ \A k \in DOMAIN output : output[k].call \in Nat
         /\ \/ output' = output
            \/ /\ pc[t] \in Printing /\ DOMAIN output' = 1 .. (Len(output) + 1)
               /\ output'[Len(output) + 1] = Written(t)
               /\ \A k \in DOMAIN output : output'[k] = output[k]
<1> DEFINE Writes == [call : 1 .. MaxCalls, data : Seq(Nat)]
<1>1. output \in Seq(Writes)
  BY DEF BatchInv, TypeOK
<1>2. pc[t] \in Printing => Written(t) \in Writes
  <2>1. pc[t] \in Printing => call[t].number \in 1 .. MaxCalls /\ buf[t] \in Seq(Nat)
    BY Domains DEF BatchInv, ThreadInv, RequestMatches, NumberedCalls, Printing
  <2> QED BY <2>1 DEF Written
<1> HIDE DEF Writes
<1>3. \A k \in DOMAIN output : output[k] \in Writes
  BY <1>1
<1>4. \A k \in DOMAIN output : output[k].call \in Nat
  BY <1>3 DEF Writes
<1> QED BY <1>1, <1>2, <1>4 DEF OutputGrows

(* The part of a thread survives the steps of the others.                  *)
LEMMA OthersAnswer ==
  ASSUME BatchInv, OutputInv, NEW t \in Workers, OthersKept(t), OutputGrows(t), SeatsKept,
         NEW u \in Workers, u # t
  PROVE  AnswerMatches(u)'
<1>1. /\ AnswerMatches(u) /\ PointersGood(u)
      /\ pc'[u] = pc[u] /\ call'[u] = call[u] /\ reply'[u] = reply[u]
      /\ cur'[u] = cur[u] /\ buf'[u] = buf[u]
  BY DEF BatchInv, ThreadInv, OutputInv, OthersKept
<1>2. DOMAIN list = 1 .. Len(list) /\ Len(list) \in Nat
      /\ \A k \in DOMAIN list : list'[k].id = list[k].id
  BY ListIsSeq DEF BatchInv, TypeOK, SeatsKept
<1>3. pc[u] = "listNode" /\ cur[u] # 0 =>
        buf'[u] = [k \in 1 .. (cur'[u] - 1) |-> list'[k].id]
  <2> SUFFICES ASSUME pc[u] = "listNode", cur[u] # 0
               PROVE  buf[u] = [k \in 1 .. (cur[u] - 1) |-> list'[k].id]
    BY <1>1
  <2>1. cur[u] \in 1 .. Len(list)
    BY <1>1, <1>2 DEF PointersGood
  <2>2. \A k \in 1 .. (cur[u] - 1) : list'[k].id = list[k].id
    BY <1>2, <2>1
  <2> QED BY <1>1, <2>2 DEF AnswerMatches
<1>4. ASSUME pc[u] \in ListLabels, NEW k \in DOMAIN output'
      PROVE  output'[k].call # call[u].number
  <2>1. CASE output' = output
    BY <1>1, <1>4, <2>1 DEF AnswerMatches
  <2>2. CASE pc[t] \in Printing /\ k = Len(output) + 1 /\ output'[k] = Written(t)
    <3>1. pc[t] # "idle" /\ pc[u] # "idle"
      BY <1>4, <2>2 DEF Printing, ListLabels
    <3>2. call[t].number # call[u].number
      BY <3>1 DEF OutputInv, CallNumbers
    <3> QED BY <2>2, <3>2 DEF Written
  <2>3. CASE k \in DOMAIN output /\ output'[k] = output[k]
    BY <1>1, <1>4, <2>3 DEF AnswerMatches
  <2> QED BY <2>1, <2>2, <2>3, OutputTyped
<1> QED BY <1>1, <1>3, <1>4 DEF AnswerMatches

LEMMA NumbersKept ==
  ASSUME BatchInv, CallNumbers, NEW t \in Workers,
         (\E c \in Calls : Invoke(t, c)) \/ Step(t), OthersKept(t), OutputGrows(t)
  PROVE  CallNumbers'
<1>1. TypeOK /\ calls \in Nat
  BY SMTT(30) DEF BatchInv, TypeOK
<1>2. \/ /\ calls' = calls + 1 /\ call'[t].number = calls + 1 /\ pc[t] = "idle"
      \/ calls' = calls /\ pc'[t] = "idle"
      \/ calls' = calls /\ pc[t] # "idle" /\ call'[t] = call[t]
  <2>1. CASE \E c \in Calls : Invoke(t, c)
    BY <1>1, <2>1, Domains DEF Invoke
  <2>2. CASE Return(t)
    BY <1>1, <2>2, Domains DEF Return, Goto
  <2>3. CASE Create(t) \/ Reserve(t)
    BY <2>3 DEF Create, Reserve, CreateFind, CreateAppend, ReserveFind, Find, ReserveMutex,
       ReserveNumber, ReserveTest, ReserveMark, ReserveUnlock, Rollback, RollbackSeat,
       RollbackUnlock
  <2>4. CASE Show(t) \/ List(t)
    BY <2>4 DEF Show, List, ShowFind, Find, ShowOutput, ShowSeat, ShowWrite, ListFirst,
       ListOutput, ListNode, ListWrite
  <2> QED BY <2>1, <2>2, <2>3, <2>4 DEF Step
<1>3. calls' \in Nat /\ calls' >= calls
  BY <1>1, <1>2
<1>4. \A u \in Workers \ {t} : pc'[u] = pc[u] /\ call'[u] = call[u]
  BY DEF OthersKept
<1>5. /\ \A u \in Workers : pc[u] # "idle" => call[u].number \in 1 .. calls
      /\ \A u, v \in Workers :
           pc[u] # "idle" /\ pc[v] # "idle" /\ call[u].number = call[v].number => u = v
      /\ \A k \in DOMAIN output : output[k].call <= calls
  BY DEF CallNumbers
<1>6. ASSUME NEW u \in Workers, pc'[u] # "idle"
      PROVE  call'[u].number \in 1 .. calls'
  BY <1>1, <1>2, <1>3, <1>4, <1>5, <1>6
<1>7. ASSUME NEW u \in Workers, NEW v \in Workers, pc'[u] # "idle", pc'[v] # "idle",
             call'[u].number = call'[v].number
      PROVE  u = v
  <2>1. ASSUME NEW w \in Workers \ {t}, pc'[w] # "idle", pc'[t] # "idle"
        PROVE  call'[w].number # call'[t].number
    <3>1. pc[w] # "idle" /\ call'[w].number = call[w].number /\ call[w].number \in 1 .. calls
      BY <1>4, <1>5, <2>1
    <3>2. CASE call'[t].number = calls + 1
      BY <1>1, <3>1, <3>2
    <3>3. CASE pc[t] # "idle" /\ call'[t] = call[t]
      BY <1>5, <3>1, <3>3
    <3> QED BY <1>2, <2>1, <3>2, <3>3
  <2> QED BY <1>4, <1>5, <1>7, <2>1
<1>8. ASSUME NEW k \in DOMAIN output'
      PROVE  output'[k].call <= calls'
  <2>1. CASE k \in DOMAIN output /\ output'[k] = output[k]
    <3>1. output[k].call \in Nat
      BY <2>1, OutputTyped
    <3> QED BY <1>1, <1>3, <1>5, <2>1, <3>1
  <2>2. CASE pc[t] \in Printing /\ output'[k] = Written(t)
    <3>1. call[t].number \in 1 .. calls
      BY <1>5, <2>2 DEF Printing
    <3> QED BY <1>1, <1>3, <2>2, <3>1 DEF Written
  <2> QED BY <2>1, <2>2, OutputTyped
<1> QED BY <1>6, <1>7, <1>8 DEF CallNumbers

LEMMA AnswersDiffer == Done # NoReply /\ Failed # NoReply
BY DEF Done, Failed, NoReply, Reply

(* A thread that walks the list keeps its ids, and writes once.            *)
LEMMA ListNodeAnswer ==
  ASSUME BatchInv, OutputInv, EventsFit, NEW t \in Workers, ListNode(t)
  PROVE  /\ cur[t] \in 1 .. Len(list) /\ Len(list) \in Nat /\ output' = output
         /\ cur'[t] = IF cur[t] < Len(list) THEN cur[t] + 1 ELSE 0
         /\ buf'[t] = [k \in 1 .. cur[t] |-> list[k].id]
<1>1. /\ TypeOK /\ pc[t] = "listNode" /\ cur[t] # 0
      /\ cur[t] \in 1 .. Len(list) /\ Len(list) \in Nat /\ list \in Seq(AnyEvent)
  BY ListIsSeq, Domains, SMTT(30) DEF BatchInv, ThreadInv, PointersGood, ListNode, TypeOK
<1>2. buf[t] = [k \in 1 .. (cur[t] - 1) |-> list[k].id]
  BY <1>1 DEF OutputInv, AnswerMatches
<1>3. \A k \in 1 .. Len(list) : list[k].id \in Nat
  <2>1. \A k \in 1 .. Len(list) : list[k] \in AnyEvent
    BY <1>1
  <2> QED BY <2>1, AnyEventType
<1>4. buf[t] \in Seq(Nat) /\ Len(buf[t]) = cur[t] - 1
  <2>1. buf[t] \in Seq(Nat) /\ cur[t] - 1 \in Nat
    BY <1>1, Domains
  <2>2. DOMAIN buf[t] = 1 .. (cur[t] - 1) /\ DOMAIN buf[t] = 1 .. Len(buf[t])
    BY <1>2, <2>1
  <2>3. Len(buf[t]) \in Nat
    BY <2>1
  <2>4. Len(buf[t]) = cur[t] - 1
    BY <2>1, <2>2, <2>3
  <2> QED BY <2>1, <2>4
<1>5. Len(buf[t]) < BufferLines
  BY <1>1, <1>4 DEF EventsFit
<1>6. /\ output' = output
      /\ buf' = [buf EXCEPT ![t] = Append(@, list[cur[t]].id)]
      /\ cur' = [cur EXCEPT ![t] = IF @ < Len(list) THEN @ + 1 ELSE 0]
  BY <1>5 DEF ListNode
<1>7. buf'[t] = Append(buf[t], list[cur[t]].id)
  BY <1>1, <1>6, Domains
<1>8. Append(buf[t], list[cur[t]].id) = [k \in 1 .. cur[t] |-> list[k].id]
  <2> DEFINE x == list[cur[t]].id
             g == [k \in 1 .. cur[t] |-> list[k].id]
  <2>1. x \in Nat /\ cur[t] \in Nat
    BY <1>1, <1>3
  <2>2. g \in Seq(Nat) /\ Len(g) = cur[t]
    BY <1>1, <1>3, SMTT(30)
  <2>3. Append(buf[t], x) \in Seq(Nat) /\ Len(Append(buf[t], x)) = cur[t]
    BY <1>4, <2>1
  <2>4. \A k \in 1 .. cur[t] : Append(buf[t], x)[k] = g[k]
    <3>1. \A k \in 1 .. (cur[t] - 1) : Append(buf[t], x)[k] = buf[t][k]
      BY <1>4, <2>1
    <3>2. Append(buf[t], x)[cur[t]] = x
      BY <1>4, <2>1
    <3> QED BY <1>2, <2>1, <3>1, <3>2
  <2> HIDE DEF g, x
  <2>5. Append(buf[t], x) = g
    BY <2>2, <2>3, <2>4, SeqEqual
  <2> QED BY <2>5 DEF g, x
<1> QED BY <1>1, <1>6, <1>7, <1>8, Domains

LEMMA OwnAnswer ==
  ASSUME BatchInv, OutputInv, EventsFit, NEW t \in Workers,
         (\E c \in Calls : Invoke(t, c)) \/ Step(t)
  PROVE  AnswerMatches(t)'
<1>1. TypeOK /\ AnswerMatches(t) /\ PointersGood(t) /\ RequestMatches(t)
  BY DEF BatchInv, ThreadInv, OutputInv
<1>2. CASE \E c \in Calls : Invoke(t, c)
  <2>1. PICK c \in Calls : Invoke(t, c)
    BY <1>2
  <2>2. /\ pc[t] = "idle" /\ pc'[t] = FirstStep[c.op] /\ reply'[t] = reply[t]
        /\ buf'[t] = buf[t] /\ output' = output /\ call'[t].number = calls + 1
    BY <1>1, <2>1, Domains DEF Invoke, Goto, localVars
  <2>3. FirstStep[c.op] \in {"createFind", "reserveFind", "showFind", "listFirst"}
    BY CallsTyped DEF FirstStep
  <2>4. \A k \in DOMAIN output : output[k].call # calls + 1
    <3>1. \A k \in DOMAIN output : output[k].call \in Nat
      BY <2>2, OutputTyped DEF OutputGrows
    <3>2. calls \in Nat
      BY <1>1 DEF TypeOK
    <3> QED BY <3>1, <3>2 DEF OutputInv, CallNumbers
  <2> QED BY <1>1, <2>2, <2>3, <2>4 DEF AnswerMatches
<1>3. CASE Return(t)
  BY <1>1, <1>3, Domains DEF Return, Goto, AnswerMatches, ListLabels
<1>4. CASE ListNode(t)
  <2>1. /\ cur[t] \in 1 .. Len(list) /\ Len(list) \in Nat /\ output' = output
        /\ cur'[t] = IF cur[t] < Len(list) THEN cur[t] + 1 ELSE 0
        /\ buf'[t] = [k \in 1 .. cur[t] |-> list[k].id]
        /\ list' = list /\ pc' = pc /\ reply' = reply /\ call' = call /\ pc[t] = "listNode"
    BY <1>4, ListNodeAnswer DEF ListNode
  <2>2. cur'[t] # 0 => cur'[t] - 1 = cur[t]
    BY <2>1
  <2> QED BY <1>1, <2>1, <2>2 DEF AnswerMatches
<1>5. CASE ShowSeat(t)
  BY <1>1, <1>5 DEF ShowSeat, AnswerMatches, ListLabels
<1>6. CASE ListOutput(t)
  <2>1. /\ pc[t] = "listOutput" /\ pc'[t] = "listNode" /\ cur'[t] = 1 /\ buf'[t] = buf[t]
        /\ reply' = reply /\ output' = output /\ call' = call /\ list' = list
    BY <1>1, <1>6, Domains DEF ListOutput, Goto
  <2>2. buf[t] = <<>>
    BY <1>1, <2>1 DEF AnswerMatches
  <2>3. <<>> = [k \in 1 .. (1 - 1) |-> list[k].id]
    OBVIOUS
  <2> QED BY <1>1, <2>1, <2>2, <2>3 DEF AnswerMatches, ListLabels
<1>7. CASE ShowOutput(t)
  BY <1>1, <1>7, Domains DEF ShowOutput, Goto, AnswerMatches, ListLabels
<1>8. CASE ListFirst(t) /\ pc'[t] = "listOutput"
  <2>1. /\ pc[t] = "listFirst" /\ UNCHANGED <<reply, output, call, buf>>
    BY <1>1, <1>8, Domains DEF ListFirst, Finish, Goto, localVars
  <2> QED BY <1>1, <1>8, <2>1 DEF AnswerMatches, ListLabels
<1>9. ASSUME NEW r \in {Done, Failed}, Finish(t, r)
      PROVE  AnswerMatches(t)'
  <2>1. pc'[t] = "done" /\ reply'[t] = r
    BY <1>1, <1>9, Domains DEF Finish, Goto
  <2> QED BY <2>1, AnswersDiffer DEF AnswerMatches, ListLabels
<1>10. ASSUME NEW label \in {"createAppend", "showOutput"} \cup ReserveLabels,
              pc' = [pc EXCEPT ![t] = label],
               pc[t] \in {"createFind", "showFind"} \cup ReserveLabels,
              reply' = reply, buf' = buf
       PROVE  AnswerMatches(t)'
  <2>1. pc'[t] = label
    BY <1>1, <1>10, Domains
  <2> QED BY <1>1, <1>10, <2>1 DEF AnswerMatches, ListLabels, ReserveLabels, Holding
<1>11. CASE Create(t)
  <2>1. CASE CreateFind(t)
    BY <1>9, <1>10, <2>1 DEF CreateFind, Goto, localVars
  <2>2. CASE CreateAppend(t)
    BY <1>9, <2>2 DEF CreateAppend
  <2> QED BY <1>11, <2>1, <2>2 DEF Create
<1>12. CASE ReserveFind(t) \/ ShowFind(t)
  BY <1>9, <1>10, <1>12 DEF ReserveFind, ShowFind, Find, Goto, ReserveLabels
<1>13. CASE ReserveUnlock(t) \/ RollbackUnlock(t)
  BY <1>9, <1>13 DEF ReserveUnlock, RollbackUnlock
<1>14. CASE ReserveMutex(t) \/ ReserveTest(t)
  BY <1>10, <1>14
     DEF ReserveMutex, ReserveTest, Goto, localVars, ReserveLabels, Holding
<1>15. CASE ReserveNumber(t) \/ ReserveMark(t) \/ Rollback(t)
  BY <1>10, <1>15 DEF ReserveNumber, ReserveMark, Rollback, Goto, ReserveLabels, Holding
<1>16. CASE RollbackSeat(t)
  <2>1. pc[t] = "rollbackSeat" /\ pc' = pc /\ reply' = reply /\ buf' = buf
    BY <1>16 DEF RollbackSeat
  <2> QED BY <1>1, <2>1 DEF AnswerMatches, ListLabels
<1>17. CASE ShowWrite(t) \/ ListWrite(t)
  BY <1>9, <1>17 DEF ShowWrite, ListWrite
<1>18. CASE ListFirst(t) /\ pc'[t] # "listOutput"
  <2>1. Finish(t, Done)
    BY <1>1, <1>18, Domains DEF ListFirst, Goto
  <2> QED BY <1>9, <2>1
<1> QED BY <1>2, <1>3, <1>4, <1>5, <1>6, <1>7, <1>8, <1>11, <1>12, <1>13, <1>14, <1>15, <1>16,
           <1>17, <1>18 DEF Step, Reserve, Show, List

LEMMA InitOutputInv == Init => OutputInv
<1> SUFFICES ASSUME Init
             PROVE  OutputInv
  OBVIOUS
<1>1. output = <<>> /\ \A t \in Workers : pc[t] = "idle" /\ reply[t] = NoReply /\ buf[t] = <<>>
  BY DEF Init
<1> QED BY <1>1 DEF OutputInv, CallNumbers, AnswerMatches, ListLabels

LEMMA NextOutputInv ==
  ASSUME BatchInv, OutputInv, EventsFit, [Next]_vars
  PROVE  OutputInv'
<1>1. CASE UNCHANGED vars
  BY <1>1 DEF vars, localVars, OutputInv, CallNumbers, AnswerMatches
<1>2. ASSUME NEW t \in Workers, (\E c \in Calls : Invoke(t, c)) \/ Step(t)
      PROVE  OutputInv'
  <2>1. OthersKept(t) /\ OutputGrows(t) /\ SeatsKept
    BY <1>2, StepFrame, NextSeatsKept
  <2>2. CallNumbers'
    BY <1>2, <2>1, NumbersKept DEF OutputInv
  <2>3. ASSUME NEW u \in Workers
        PROVE  AnswerMatches(u)'
    BY <1>2, <2>1, OthersAnswer, OwnAnswer
  <2> QED BY <2>2, <2>3 DEF OutputInv
<1> QED BY <1>1, <1>2 DEF Next

-----------------------------------------------------------------------------
(* With a buffer of any size a LIST may write several times.  outputLock   *)
(* keeps its writes together: who prints has written last, if it has       *)
(* written at all, and who does not print yet has not written.             *)
WritesTogether ==
  \A j, k \in DOMAIN output :
    output[j].call = output[k].call =>
      \A m \in j .. k : output[m].call = output[j].call
HasWritten(t) == \E k \in DOMAIN output : output[k].call = call[t].number
WroteLast(t) ==
  /\ pc[t] \in Printing /\ HasWritten(t) => output[Len(output)].call = call[t].number
  /\ pc[t] \notin Printing \cup {"idle", "done"} => ~ HasWritten(t)
WritesInv == CallNumbers /\ WritesTogether /\ \A t \in Workers : WroteLast(t)

(* A call writes only between the two holds of its number: it begins with  *)
(* a new one, and ends when it has printed.                                *)
LEMMA CallGoesOn ==
  ASSUME BatchInv, NEW t \in Workers, (\E c \in Calls : Invoke(t, c)) \/ Step(t)
  PROVE  \/ /\ output' = output /\ call'[t].number = calls + 1
            /\ pc'[t] \notin Printing
         \/ pc'[t] \in {"idle", "done"}
         \/ /\ call'[t] = call[t] /\ pc[t] \notin {"idle", "done"}
            /\ pc[t] \in Printing => pc'[t] \in Printing
<1>1. TypeOK
  BY DEF BatchInv
<1>2. CASE \E c \in Calls : Invoke(t, c)
  <2>1. PICK c \in Calls : Invoke(t, c)
    BY <1>2
  <2>2. /\ output' = output /\ call'[t].number = calls + 1 /\ pc'[t] = FirstStep[c.op]
    BY <1>1, <2>1, Domains DEF Invoke, Goto
  <2>3. FirstStep[c.op] \in {"createFind", "reserveFind", "showFind", "listFirst"}
    BY CallsTyped DEF FirstStep
  <2> QED BY <2>2, <2>3 DEF Printing
<1>3. ASSUME NEW r \in {Done, Failed}, Finish(t, r)
      PROVE  pc'[t] = "done"
  BY <1>1, <1>3, Domains DEF Finish, Goto
<1>4. ASSUME NEW label, Goto(t, label), call' = call,
             pc[t] \notin {"idle", "done"} \cup Printing
      PROVE  /\ call'[t] = call[t] /\ pc[t] \notin {"idle", "done"}
             /\ pc[t] \in Printing => pc'[t] \in Printing
  BY <1>4
<1>5. CASE Create(t)
  BY <1>3, <1>4, <1>5 DEF Create, CreateFind, CreateAppend, Printing
<1>6. CASE ReserveFind(t) \/ ShowFind(t)
  BY <1>3, <1>4, <1>6 DEF ReserveFind, ShowFind, Find, Printing
<1>7. CASE ReserveMutex(t) \/ ReserveTest(t) \/ ReserveUnlock(t) \/ RollbackUnlock(t)
  BY <1>3, <1>4, <1>7
     DEF ReserveMutex, ReserveTest, ReserveUnlock, RollbackUnlock, Printing
<1>8. CASE ReserveNumber(t) \/ ReserveMark(t) \/ Rollback(t)
  BY <1>4, <1>8 DEF ReserveNumber, ReserveMark, Rollback, Printing
<1>9. CASE RollbackSeat(t) \/ ShowSeat(t) \/ ListNode(t)
  BY <1>9 DEF RollbackSeat, ShowSeat, ListNode
<1>10. CASE ShowOutput(t) \/ ListOutput(t)
  BY <1>4, <1>10 DEF ShowOutput, ListOutput, Printing
<1>11. CASE ShowWrite(t) \/ ListWrite(t)
  BY <1>3, <1>11 DEF ShowWrite, ListWrite
<1>12. CASE ListFirst(t)
  BY <1>3, <1>4, <1>12 DEF ListFirst, Printing
<1>13. CASE Return(t)
  BY <1>1, <1>13, Domains DEF Return, Goto
<1> QED BY <1>2, <1>5, <1>6, <1>7, <1>8, <1>9, <1>10, <1>11, <1>12, <1>13
        DEF Step, Reserve, Show, List

LEMMA NextWritesInv ==
  ASSUME BatchInv, WritesInv, [Next]_vars
  PROVE  WritesInv'
<1>1. CASE UNCHANGED vars
  BY <1>1 DEF vars, WritesInv, CallNumbers, WritesTogether, WroteLast, HasWritten
<1>2. ASSUME NEW t \in Workers, (\E c \in Calls : Invoke(t, c)) \/ Step(t)
      PROVE  WritesInv'
  <2>1. OthersKept(t) /\ OutputGrows(t)
    BY <1>2, StepFrame
  <2>2. CallNumbers'
    BY <1>2, <2>1, NumbersKept DEF WritesInv
  <2>3. /\ DOMAIN output = 1 .. Len(output) /\ Len(output) \in Nat
        /\ calls \in Nat /\ \A k \in DOMAIN output : output[k].call \in 0 .. calls
    <3>1. /\ DOMAIN output = 1 .. Len(output) /\ Len(output) \in Nat
          /\ \A k \in DOMAIN output : output[k].call \in Nat
      BY <2>1, OutputTyped
    <3>2. calls \in Nat
      BY SMTT(30) DEF BatchInv, TypeOK
    <3>3. \A k \in DOMAIN output : output[k].call <= calls
      BY DEF WritesInv, CallNumbers
    <3> QED BY <3>1, <3>2, <3>3
  <2>4. CASE output' = output
    <3>1. WritesTogether'
      BY <2>4 DEF WritesInv, WritesTogether
    <3>2. ASSUME NEW u \in Workers, u # t
          PROVE  WroteLast(u)'
      BY <2>1, <2>4, <3>2 DEF WritesInv, WroteLast, HasWritten, OthersKept
    <3>3. WroteLast(t)'
      <4>1. CASE call'[t].number = calls + 1 /\ pc'[t] \notin Printing
        <5>1. ~ HasWritten(t)'
          BY <2>3, <2>4, <4>1 DEF HasWritten
        <5> QED BY <4>1, <5>1 DEF WroteLast
      <4>2. CASE pc'[t] \in {"idle", "done"}
        BY <4>2 DEF WroteLast, Printing
      <4>3. CASE /\ call'[t] = call[t] /\ pc[t] \notin {"idle", "done"}
                 /\ pc[t] \in Printing => pc'[t] \in Printing
        <5>1. WroteLast(t)
          BY DEF WritesInv
        <5> QED BY <2>4, <4>3, <5>1 DEF WroteLast, HasWritten
      <4> QED BY <1>2, <4>1, <4>2, <4>3, CallGoesOn
    <3> QED BY <2>2, <3>1, <3>2, <3>3 DEF WritesInv
  <2>5. CASE output' # output
    <3> DEFINE n == Len(output)
               own == call[t].number
    <3>1. /\ pc[t] \in Printing /\ DOMAIN output' = 1 .. (n + 1)
          /\ output'[n + 1].call = own
          /\ \A k \in 1 .. n : output'[k] = output[k]
      <4>1. /\ pc[t] \in Printing /\ DOMAIN output' = 1 .. (Len(output) + 1)
            /\ output'[Len(output) + 1] = Written(t)
            /\ \A k \in DOMAIN output : output'[k] = output[k]
        BY <2>1, <2>5, OutputTyped
      <4> QED BY <2>3, <4>1 DEF Written
    <3>2. Len(output') = n + 1
      <4>1. output' = Append(output, Written(t))
        BY <2>1, <2>5 DEF OutputGrows
      <4>2. output \in Seq([call : 1 .. MaxCalls, data : Seq(Nat)])
        BY DEF BatchInv, TypeOK
      <4> QED BY <3>1, <4>1, <4>2
    <3>3. n \in Nat /\ DOMAIN output = 1 .. n
      BY <2>3
    <3>4. WritesTogether /\ WroteLast(t)
      BY DEF WritesInv
    <3> HIDE DEF n
    <3>5. WritesTogether'
      <4> SUFFICES ASSUME NEW j \in 1 .. (n + 1), NEW k \in 1 .. (n + 1),
                          output'[j].call = output'[k].call, NEW m \in j .. k
                   PROVE  output'[m].call = output'[j].call
        BY <3>1 DEF WritesTogether
      <4>1. CASE k \in 1 .. n
        <5>1. j \in 1 .. n /\ m \in 1 .. n
          BY <3>3, <4>1
        <5> QED BY <3>1, <3>3, <3>4, <4>1, <5>1 DEF WritesTogether
      <4>2. CASE k = n + 1 /\ j \in 1 .. n
        <5>1. output[j].call = own
          BY <3>1, <4>2
        <5>2. HasWritten(t)
          BY <3>3, <4>2, <5>1 DEF HasWritten
        <5>3. output[n].call = own
          BY <3>1, <3>4, <5>2 DEF WroteLast, n
        <5>4. m \in 1 .. n => output[m].call = own
          <6>1. m \in 1 .. n => m \in j .. n /\ n \in 1 .. n
            BY <3>3, <4>2
          <6> QED BY <3>3, <3>4, <4>2, <5>1, <5>3, <6>1 DEF WritesTogether
        <5>5. m \in 1 .. n \/ m = n + 1
          BY <3>3, <4>2
        <5> QED BY <3>1, <4>2, <5>1, <5>4, <5>5
      <4>3. CASE k = n + 1 /\ j = n + 1
        <5>1. m = j
          BY <3>3, <4>3
        <5> QED BY <5>1
      <4>4. (k \in 1 .. n \/ k = n + 1) /\ (j \in 1 .. n \/ j = n + 1)
        BY <3>3
      <4> QED BY <4>1, <4>2, <4>3, <4>4
    <3>6. ASSUME NEW u \in Workers, u # t
          PROVE  WroteLast(u)'
      <4>1. WroteLast(u) /\ pc'[u] = pc[u] /\ call'[u] = call[u]
        BY <2>1, <3>6 DEF WritesInv, OthersKept
      <4>2. pc[u] \notin Printing
        BY <3>1, <3>6 DEF BatchInv, ThreadInv, LocksMatch
      <4>3. pc[u] # "idle" => call[u].number # own
        BY <3>1, <3>6 DEF WritesInv, CallNumbers, Printing
      <4>4. pc[u] \notin {"idle", "done"} => ~ HasWritten(u)'
        <5>1. ASSUME pc[u] \notin {"idle", "done"}, NEW k \in 1 .. (n + 1)
              PROVE  output'[k].call # call[u].number
          <6>1. k \in 1 .. n \/ k = n + 1
            BY <3>3
          <6>2. ~ HasWritten(u)
            BY <4>1, <4>2, <5>1 DEF WroteLast
          <6> QED BY <3>1, <3>3, <4>3, <5>1, <6>1, <6>2 DEF HasWritten
        <5> QED BY <3>1, <4>1, <5>1 DEF HasWritten
      <4> QED BY <4>1, <4>2, <4>4 DEF WroteLast
    <3>7. WroteLast(t)'
      <4>1. CASE pc'[t] \in {"idle", "done"}
        BY <4>1 DEF WroteLast, Printing
      <4>2. CASE call'[t] = call[t] /\ pc'[t] \in Printing
        BY <3>1, <3>2, <4>2 DEF WroteLast
      <4> QED BY <1>2, <2>5, <3>1, <4>1, <4>2, CallGoesOn
    <3> QED BY <2>2, <3>5, <3>6, <3>7 DEF WritesInv
  <2> QED BY <2>4, <2>5
<1> QED BY <1>1, <1>2 DEF Next

(* The writes of one call to the output file are neighbours: no thread     *)
(* writes into the middle of a LIST, of however many writes, whatever the  *)
(* buffer of ems_list_events holds.                                        *)
THEOREM NoListTorn == Spec => []WritesTogether
<1>1. Init => WritesInv
  <2> SUFFICES ASSUME Init
               PROVE  WritesInv
    OBVIOUS
  <2>1. output = <<>> /\ \A t \in Workers : pc[t] = "idle"
    BY DEF Init
  <2> QED BY <2>1 DEF WritesInv, CallNumbers, WritesTogether, WroteLast, HasWritten, Printing
<1>2. BatchInv /\ WritesInv /\ [Next]_vars => WritesInv'
  BY NextWritesInv
<1>3. WritesInv => WritesTogether
  BY DEF WritesInv
<1> QED BY <1>1, <1>2, <1>3, BatchInvariant, PTL DEF Spec

-----------------------------------------------------------------------------
(* The mapping of states.                                                  *)
Owner(e, p) == IF InTheMaking(e, p) THEN 0 ELSE e.data[p]
AbsEvent(e) ==
  [id |-> e.id, rows |-> e.rows, cols |-> e.cols, reservations |-> Made(e),
   owner |-> [s \in Coords(e) |-> Owner(e, SeatIndex(e, s[1], s[2]))]]

LEMMA AbsCatalogIs == AbsCatalog = [i \in DOMAIN list |-> AbsEvent(list[i])]
BY DEF AbsCatalog, AbsEvent, Owner, Made

LEMMA PlaceOfSeat ==
  ASSUME NEW e \in AnyEvent, NEW s \in Coords(e)
  PROVE  SeatIndex(e, s[1], s[2]) \in Places(e)
<1>1. e.rows \in Nat /\ e.cols \in Nat /\ <<s[1], s[2]>> \in Coords(e)
  BY AnyEventType DEF Coords
<1> QED BY <1>1, SeatIndexInRange

(* An event that looks the same before and after.                          *)
SameView(i) ==
  /\ list'[i].id = list[i].id
  /\ list'[i].rows = list[i].rows /\ list'[i].cols = list[i].cols
  /\ Made(list[i])' = Made(list[i])
  /\ \A p \in Places(list[i]) : Owner(list[i], p)' = Owner(list[i], p)

LEMMA AbsEventKept ==
  ASSUME BatchInv, NEW i \in DOMAIN list, SameView(i)
  PROVE  AbsEvent(list[i])' = AbsEvent(list[i])
<1>1. list[i] \in AnyEvent
  BY ListIsSeq DEF BatchInv, TypeOK
<1>2. Coords(list'[i]) = Coords(list[i])
  BY DEF SameView, Coords
<1>3. ASSUME NEW s \in Coords(list[i])
      PROVE  Owner(list[i], SeatIndex(list[i], s[1], s[2]))'
               = Owner(list[i], SeatIndex(list[i], s[1], s[2]))
  <2>1. SeatIndex(list'[i], s[1], s[2]) = SeatIndex(list[i], s[1], s[2])
    BY DEF SameView, SeatIndex
  <2> DEFINE p == SeatIndex(list[i], s[1], s[2])
  <2>2. p \in Places(list[i])
    BY <1>1, PlaceOfSeat
  <2> QED BY <2>1, <2>2 DEF SameView, Owner, InTheMaking
<1>4. [s \in Coords(list[i]) |-> Owner(list[i], SeatIndex(list[i], s[1], s[2]))]'
        = [s \in Coords(list[i]) |-> Owner(list[i], SeatIndex(list[i], s[1], s[2]))]
  BY <1>2, <1>3
<1> QED BY <1>4 DEF AbsEvent, SameView

LEMMA UntouchedView ==
  ASSUME NEW t \in Workers, OthersKept(t), NEW i \in DOMAIN list,
         list[i].mutex # t, list'[i] = list[i]
  PROVE  SameView(i)
<1>1. list[i].mutex \in Workers => /\ pc'[list[i].mutex] = pc[list[i].mutex]
                                   /\ rid'[list[i].mutex] = rid[list[i].mutex]
  BY DEF OthersKept
<1> QED BY <1>1 DEF SameView, Made, Numbered, Owner, InTheMaking

LEMMA CatalogKept ==
  ASSUME BatchInv, NEW t \in Workers, OthersKept(t), DOMAIN list' = DOMAIN list,
         \A i \in DOMAIN list :
           SameView(i) \/ (list[i].mutex # t /\ list'[i] = list[i])
  PROVE  AbsCatalog' = AbsCatalog
<1>2. \A i \in DOMAIN list : AbsEvent(list[i])' = AbsEvent(list[i])
  BY UntouchedView, AbsEventKept
<1>3. AbsCatalog' = [i \in DOMAIN list' |-> AbsEvent(list[i])']
  BY DEF AbsCatalog, AbsEvent, Owner, Made
<1> QED BY <1>2, <1>3, AbsCatalogIs

(* A step of a thread that holds no event changes none.                    *)
LEMMA QuietCatalog ==
  ASSUME BatchInv, NEW t \in Workers, OthersKept(t), list' = list, pc[t] \notin Holding
  PROVE  AbsCatalog' = AbsCatalog
<1>1. \A i \in DOMAIN list : list[i].mutex # t
  BY DEF BatchInv, ThreadInv, LocksMatch
<1> QED BY <1>1, CatalogKept

(* What the others have asked for and have got is left alone.              *)
LEMMA OthersAbs ==
  ASSUME BatchInv, OutputInv, NEW t \in Workers, OthersKept(t), OutputGrows(t),
         NEW u \in Workers, u # t
  PROVE  AbsOutcome'[u] = AbsOutcome[u] /\ AbsPending'[u] = AbsPending[u]
<1>1. /\ pc'[u] = pc[u] /\ call'[u] = call[u] /\ reply'[u] = reply[u]
      /\ cur'[u] = cur[u] /\ buf'[u] = buf[u]
  BY DEF OthersKept
<1>2. pc[u] = "done" => WrittenBy(call[u].number)' = WrittenBy(call[u].number)
  <2> SUFFICES ASSUME pc[u] = "done"
               PROVE  WrittenBy(call[u].number)' = WrittenBy(call[u].number)
    OBVIOUS
  <2> DEFINE n == call[u].number
             mine == {k \in DOMAIN output : output[k].call = n}
  <2>1. \A k \in DOMAIN output' : output'[k].call = n <=> k \in mine
    <3>1. ASSUME pc[t] \in Printing
          PROVE  Written(t).call # n
      BY <3>1 DEF OutputInv, CallNumbers, Printing, Written
    <3>2. DOMAIN output = 1 .. Len(output) /\ Len(output) \in Nat
      BY OutputTyped
    <3> QED BY <3>1, <3>2, OutputTyped
  <2>2. \A k \in mine : k \in DOMAIN output' /\ output'[k] = output[k]
    BY OutputTyped
  <2>3. mine' = mine
    BY <1>1, <2>1, <2>2
  <2>4. mine # {} => (CHOOSE k \in mine : TRUE) \in mine
    OBVIOUS
  <2>5. /\ WrittenBy(n) = IF mine = {} THEN <<>> ELSE output[CHOOSE k \in mine : TRUE].data
        /\ WrittenBy(n)' = IF mine' = {} THEN <<>> ELSE output'[CHOOSE k \in mine' : TRUE].data
    BY DEF WrittenBy
  <2> HIDE DEF mine
  <2>6. mine # {} => output'[CHOOSE k \in mine : TRUE] = output[CHOOSE k \in mine : TRUE]
    BY <2>2, <2>4
  <2>7. WrittenBy(n)' = IF mine = {} THEN <<>> ELSE output'[CHOOSE k \in mine : TRUE].data
    BY <2>3, <2>5
  <2> QED BY <2>5, <2>6, <2>7
<1> QED BY <1>1, <1>2 DEF AbsOutcome, AbsPending, Request

(* The answers and calls of EventStore are those of the store.             *)
LEMMA AbsSame ==
  /\ Abs!NoReply = NoReply /\ Abs!Done = Done /\ Abs!Failed = Failed
  /\ Abs!NoCall = NoCall /\ Abs!Calls = Calls
  /\ \A c, d, b : Abs!Reply(c, d, b) = Reply(c, d, b)
  /\ \A e : Abs!Coords(e) = Coords(e)
  /\ \A s : Abs!IdsOf(s) = IdsOf(s)
BY DEF Abs!NoReply, Abs!Done, Abs!Failed, Abs!NoCall, Abs!Calls, Abs!Reply, Abs!Coords, Abs!IdsOf,
   NoReply, Done, Failed, NoCall, Calls, Reply, Coords, IdsOf, Abs!CreateCalls, Abs!ReserveCalls,
   Abs!ShowCalls, Abs!ListCalls, CreateCalls, ReserveCalls, ShowCalls, ListCalls

(* A step of t, seen by EventStore: nothing, or the effect of its call.    *)
LEMMA AbsFunctions ==
  ASSUME BatchInv, OutputInv, NEW t \in Workers, OthersKept(t), OutputGrows(t)
  PROVE  /\ AbsOutcome' = [AbsOutcome EXCEPT ![t] = AbsOutcome'[t]]
         /\ AbsPending' = [AbsPending EXCEPT ![t] = AbsPending'[t]]
         /\ AbsOutcome = [AbsOutcome EXCEPT ![t] = AbsOutcome[t]]
         /\ AbsPending = [AbsPending EXCEPT ![t] = AbsPending[t]]
<1>1. /\ AbsOutcome = [u \in Workers |-> AbsOutcome[u]]
      /\ AbsPending = [u \in Workers |-> AbsPending[u]]
  BY DEF AbsOutcome, AbsPending
<1>2. /\ AbsOutcome' = [u \in Workers |-> AbsOutcome'[u]]
      /\ AbsPending' = [u \in Workers |-> AbsPending'[u]]
  BY DEF AbsOutcome, AbsPending
<1>3. \A u \in Workers \ {t} : AbsOutcome'[u] = AbsOutcome[u] /\ AbsPending'[u] = AbsPending[u]
  BY OthersAbs
<1> QED BY <1>1, <1>2, <1>3

LEMMA AbsStutter ==
  ASSUME BatchInv, OutputInv, NEW t \in Workers, OthersKept(t), OutputGrows(t),
         AbsCatalog' = AbsCatalog,
         AbsOutcome'[t] = AbsOutcome[t], AbsPending'[t] = AbsPending[t]
  PROVE  UNCHANGED Abs!absVars
BY AbsFunctions DEF Abs!absVars

LEMMA AbsPerforms ==
  ASSUME BatchInv, OutputInv, NEW t \in Workers, OthersKept(t), OutputGrows(t),
         AbsPending'[t] = AbsPending[t],
         AbsOutcome[t] = NoReply, NEW r, AbsOutcome'[t] = r, r # NoReply,
         \/ Abs!PerformCreate(t, r) \/ Abs!PerformReserve(t, r) \/ Abs!PerformList(t, r)
  PROVE  Abs!Next
<1>1. /\ AbsOutcome' = [AbsOutcome EXCEPT ![t] = AbsOutcome'[t]]
      /\ AbsPending' = AbsPending
  BY AbsFunctions
<1>2. Abs!Perform(t)
  BY <1>1, AbsSame DEF Abs!Perform
<1> QED BY <1>2 DEF Abs!Next

LEMMA AbsInvoke ==
  ASSUME BatchInv, OutputInv, NEW t \in Workers, NEW c \in Calls, Invoke(t, c),
         OthersKept(t), OutputGrows(t)
  PROVE  [Abs!Next]_(Abs!absVars)
<1>1. TypeOK /\ RequestMatches(t) /\ AnswerMatches(t)
  BY DEF BatchInv, ThreadInv, OutputInv
<1>2. /\ pc[t] = "idle" /\ call[t] = NoRequest /\ reply[t] = NoReply /\ list' = list
      /\ pc'[t] = FirstStep[c.op] /\ Request(t)' = c /\ reply'[t] = NoReply
  BY <1>1, Domains
     DEF Invoke, Goto, RequestMatches, AnswerMatches, Request, localVars
<1>3. pc'[t] \notin {"listNode", "done"}
  BY <1>2, CallsTyped DEF FirstStep
<1>4. AbsCatalog' = AbsCatalog
  BY <1>2, QuietCatalog DEF Holding
<1>5. Request(t) = NoCall /\ NoCall.op = "none"
  BY <1>2 DEF Request, NoRequest, NoCall
<1>6. AbsOutcome[t] = NoReply /\ AbsPending[t] = NoCall
  BY <1>2, <1>5 DEF AbsOutcome, AbsPending
<1>7. AbsOutcome'[t] = NoReply
  BY <1>2, <1>3 DEF AbsOutcome
<1>8. AbsPending'[t] = IF c.op = "show" THEN NoCall ELSE c
  BY <1>2 DEF AbsPending
<1>9. CASE c.op = "show"
  <2>1. AbsPending'[t] = AbsPending[t] /\ AbsOutcome'[t] = AbsOutcome[t]
    BY <1>6, <1>7, <1>8, <1>9
  <2> QED BY <1>4, <2>1, AbsStutter
<1>10. CASE c.op # "show"
  <2>1. AbsOutcome' = AbsOutcome /\ AbsPending' = [AbsPending EXCEPT ![t] = c]
    BY <1>6, <1>7, <1>8, <1>10, AbsFunctions
  <2>2. Abs!Invoke(t, c) /\ c \in Abs!Calls
    BY <1>4, <1>6, <2>1, AbsSame DEF Abs!Invoke
  <2> QED BY <2>2 DEF Abs!Next
<1> QED BY <1>9, <1>10

LEMMA AbsReturn ==
  ASSUME BatchInv, OutputInv, NEW t \in Workers, Return(t), OthersKept(t), OutputGrows(t)
  PROVE  [Abs!Next]_(Abs!absVars)
<1>1. TypeOK /\ RequestMatches(t) /\ AnswerMatches(t)
  BY DEF BatchInv, ThreadInv, OutputInv
<1>2. /\ pc[t] = "done" /\ reply[t] # NoReply /\ list' = list
      /\ pc'[t] = "idle" /\ Request(t)' = NoCall /\ reply'[t] = NoReply
  BY <1>1, Domains DEF Return, Goto, AnswerMatches, Request, NoRequest
<1>3. AbsCatalog' = AbsCatalog
  BY <1>2, QuietCatalog DEF Holding
<1>4. NoCall.op = "none"
  BY DEF NoCall
<1>5. AbsOutcome'[t] = NoReply /\ AbsPending'[t] = NoCall
  BY <1>2, <1>4 DEF AbsOutcome, AbsPending
<1>6. CASE Request(t).op = "show"
  <2>1. AbsOutcome[t] = NoReply /\ AbsPending[t] = NoCall
    BY <1>2, <1>6 DEF AbsOutcome, AbsPending
  <2> QED BY <1>3, <1>5, <2>1, AbsStutter
<1>7. CASE Request(t).op # "show"
  <2>1. \A ids : Listing(ids) # NoReply
    BY DEF Listing, Failed, NoReply, Reply
  <2>2. AbsOutcome[t] # NoReply
    BY <1>2, <1>7, <2>1 DEF AbsOutcome
  <2>3. /\ AbsOutcome' = [AbsOutcome EXCEPT ![t] = NoReply]
        /\ AbsPending' = [AbsPending EXCEPT ![t] = NoCall]
    BY <1>5, AbsFunctions
  <2>4. Abs!Return(t)
    BY <1>3, <2>2, <2>3, AbsSame DEF Abs!Return
  <2> QED BY <2>4 DEF Abs!Next
<1> QED BY <1>6, <1>7

(* Steps of a call that has no effect yet, and every step of SHOW.         *)
LEMMA AbsQuiet ==
  ASSUME BatchInv, OutputInv, NEW t \in Workers, OthersKept(t), OutputGrows(t),
         call' = call, AbsCatalog' = AbsCatalog,
         \/ Request(t).op = "show" /\ pc[t] \notin ListLabels /\ pc'[t] \notin ListLabels
         \/ /\ pc[t] \notin {"listNode", "done"} /\ pc'[t] \notin {"listNode", "done"}
            /\ reply'[t] = reply[t]
  PROVE  UNCHANGED Abs!absVars
<1>1. AbsPending'[t] = AbsPending[t]
  BY DEF AbsPending, Request
<1>2. CASE Request(t).op = "show" /\ pc[t] \notin ListLabels /\ pc'[t] \notin ListLabels
  <2>1. AbsOutcome[t] = NoReply /\ AbsOutcome'[t] = NoReply
    BY <1>2 DEF AbsOutcome, Request, ListLabels
  <2> QED BY <1>1, <2>1, AbsStutter
<1>3. CASE /\ pc[t] \notin {"listNode", "done"} /\ pc'[t] \notin {"listNode", "done"}
           /\ reply'[t] = reply[t]
  <2>1. AbsOutcome'[t] = AbsOutcome[t]
    BY <1>3 DEF AbsOutcome, Request
  <2> QED BY <1>1, <2>1, AbsStutter
<1> QED BY <1>2, <1>3

(* A call of CREATE or RESERVE that ends in this step.                     *)
LEMMA AbsFinish ==
  ASSUME BatchInv, OutputInv, NEW t \in Workers, OthersKept(t), OutputGrows(t),
         pc[t] \in CreateLabels \cup ReserveLabels, call' = call,
         NEW r \in {Done, Failed}, Finish(t, r),
         Abs!PerformCreate(t, r) \/ Abs!PerformReserve(t, r)
  PROVE  Abs!Next
<1>1. TypeOK /\ RequestMatches(t) /\ AnswerMatches(t)
  BY DEF BatchInv, ThreadInv, OutputInv
<1>2. pc'[t] = "done" /\ reply'[t] = r
  BY <1>1, Domains DEF Finish, Goto
<1>3. Request(t).op \in {"create", "reserve"}
  BY <1>1, CallsTyped DEF RequestMatches
<1>4. /\ reply[t] = NoReply /\ pc[t] \notin {"listNode", "done"}
  BY <1>1 DEF AnswerMatches, CreateLabels, ReserveLabels, Holding
<1>5. AbsOutcome[t] = NoReply
  BY <1>4 DEF AbsOutcome
<1>6. AbsOutcome'[t] = r /\ AbsPending'[t] = AbsPending[t]
  BY <1>2, <1>3 DEF AbsOutcome, AbsPending, Request
<1> QED BY <1>5, <1>6, AnswersDiffer, AbsPerforms

LEMMA AbsCreateFind ==
  ASSUME BatchInv, OutputInv, NEW t \in Workers, CreateFind(t), OthersKept(t), OutputGrows(t)
  PROVE  [Abs!Next]_(Abs!absVars)
<1>1. RequestMatches(t) /\ TypeOK
  BY DEF BatchInv, ThreadInv
<1>2. pc[t] = "createFind" /\ list' = list /\ call' = call
  BY DEF CreateFind
<1>3. AbsCatalog' = AbsCatalog
  BY <1>2, QuietCatalog DEF Holding
<1>4. CASE Finish(t, Failed)
  <2>1. AbsPending[t].op = "create"
    BY <1>1, <1>2, CallsTyped DEF RequestMatches, CreateLabels, AbsPending
  <2>2. Abs!PerformCreate(t, Failed)
    BY <1>3, <2>1, AbsSame DEF Abs!PerformCreate
  <2> QED BY <1>2, <1>4, <2>2, AbsFinish DEF CreateLabels
<1>5. CASE Goto(t, "createAppend") /\ reply' = reply
  <2>1. pc'[t] = "createAppend"
    BY <1>1, <1>5, Domains DEF Goto
  <2> QED BY <1>2, <1>3, <1>5, <2>1, AbsQuiet
<1> QED BY <1>4, <1>5 DEF CreateFind

(* How a new event looks.                                                  *)
LEMMA NewView ==
  ASSUME NEW m, NEW f \in AnyEvent, IsBlank(f), list'[m] = f
  PROVE  AbsEvent(list[m])' =
           [id |-> f.id, rows |-> f.rows, cols |-> f.cols, reservations |-> 0,
            owner |-> [s \in Coords(f) |-> 0]]
<1>1. Made(list[m])' = 0
  BY DEF Made, Numbered, IsBlank
<1>2. ASSUME NEW s \in Coords(f)
      PROVE  Owner(list[m], SeatIndex(list[m], s[1], s[2]))' = 0
  <2>1. SeatIndex(f, s[1], s[2]) \in Places(f)
    BY PlaceOfSeat
  <2> QED BY <2>1 DEF Owner, InTheMaking, IsBlank
<1>3. [s \in Coords(list[m]) |-> Owner(list[m], SeatIndex(list[m], s[1], s[2]))]'
        = [s \in Coords(f) |-> 0]
  BY <1>2
<1> QED BY <1>1, <1>3 DEF AbsEvent

LEMMA AbsCreateAppend ==
  ASSUME BatchInv, OutputInv, NEW t \in Workers, CreateAppend(t), OthersKept(t), OutputGrows(t)
  PROVE  [Abs!Next]_(Abs!absVars)
<1> DEFINE c == Request(t)
           e == NewEvent(c)
<1>1. RequestMatches(t) /\ TypeOK /\ LocksMatch(t)
  BY DEF BatchInv, ThreadInv
<1>2. pc[t] = "createAppend" /\ call' = call /\ c \in CreateCalls
  BY <1>1 DEF CreateAppend, RequestMatches, CreateLabels
<1>3. AbsPending[t] = c /\ c.op = "create"
  BY <1>2, CallsTyped DEF AbsPending
<1>4. CASE Finish(t, Failed) /\ list' = list
  <2>1. AbsCatalog' = AbsCatalog
    BY <1>2, <1>4, QuietCatalog DEF Holding
  <2>2. Abs!PerformCreate(t, Failed)
    BY <1>3, <2>1, AbsSame DEF Abs!PerformCreate
  <2> QED BY <1>2, <1>4, <2>2, AbsFinish DEF CreateLabels
<1>5. CASE NoneWithId(c.id) /\ list' = Append(list, e) /\ Finish(t, Done)
  <2> DEFINE x == [id |-> c.id, rows |-> c.dims[1], cols |-> c.dims[2], reservations |-> 0,
                   owner |-> [s \in Coords(e) |-> 0]]
  <2>1. /\ e \in AnyEvent /\ e.id = c.id /\ IsBlank(e)
        /\ e.rows = c.dims[1] /\ e.cols = c.dims[2]
    BY <1>2, NewEventType DEF IsBlank
  <2> HIDE DEF e
  <2>2. PICK n \in Nat : n = Len(list)
    BY <1>1, ListIsSeq DEF TypeOK
  <2>3. /\ DOMAIN list = 1 .. n /\ DOMAIN list' = 1 .. (n + 1)
        /\ list'[n + 1] = e /\ \A i \in DOMAIN list : list'[i] = list[i]
    BY <1>1, <1>5, <2>1, <2>2, ListIsSeq, AppendEvent DEF TypeOK
  <2>4. AbsEvent(list[n + 1])' = x
    BY <2>1, <2>3, NewView, ZenonT(60)
  <2>5. \A i \in 1 .. n : AbsEvent(list[i])' = AbsEvent(list[i])
    <3>1. \A i \in DOMAIN list : list[i].mutex # t
      BY <1>1, <1>2 DEF LocksMatch, Holding
    <3> QED BY <2>3, <3>1, UntouchedView, AbsEventKept
  <2>6. AbsCatalog' = [i \in 1 .. (n + 1) |-> AbsEvent(list[i])']
    BY <2>3 DEF AbsCatalog, AbsEvent, Owner, Made
  <2>7. AbsCatalog = [i \in 1 .. n |-> AbsEvent(list[i])]
    BY <2>3, AbsCatalogIs
  <2> HIDE DEF x
  <2>8. AbsCatalog' = Append(AbsCatalog, x)
    BY <2>2, <2>4, <2>5, <2>6, <2>7, AppendIs
  <2>9. \A i \in DOMAIN AbsCatalog : AbsCatalog[i].id # c.id
    BY <1>5, <2>3, <2>7 DEF NoneWithId, AbsEvent
  <2>10. Coords(e) = Coords([id |-> c.id, rows |-> c.dims[1], cols |-> c.dims[2],
                             reservations |-> 0])
    BY <2>1 DEF Coords
  <2>11. Abs!PerformCreate(t, Done)
    BY <1>3, <2>8, <2>9, <2>10, AbsSame DEF Abs!PerformCreate, x
  <2> QED BY <1>2, <1>5, <2>11, AbsFinish DEF CreateLabels
<1> QED BY <1>2, <1>4, <1>5 DEF CreateAppend

-----------------------------------------------------------------------------
LEMMA AbsListFirst ==
  ASSUME BatchInv, OutputInv, NEW t \in Workers, ListFirst(t), OthersKept(t), OutputGrows(t)
  PROVE  [Abs!Next]_(Abs!absVars)
<1>1. /\ RequestMatches(t) /\ TypeOK /\ AnswerMatches(t)
      /\ pc[t] = "listFirst" /\ list' = list /\ call' = call /\ output' = output
  BY DEF BatchInv, ThreadInv, OutputInv, ListFirst
<1>2. AbsCatalog' = AbsCatalog
  BY <1>1, QuietCatalog DEF Holding
<1>3. CASE list = <<>> /\ Finish(t, Done)
  <2>1. Request(t).op = "list"
    BY <1>1, CallsTyped DEF RequestMatches, ListLabels
  <2>2. /\ AbsPending[t].op = "list" /\ AbsPending'[t] = AbsPending[t]
        /\ AbsOutcome[t] = NoReply
    BY <1>1, <2>1 DEF AbsPending, AbsOutcome, AnswerMatches, Request
  <2>3. \A k \in DOMAIN output : output[k].call # call[t].number
    BY <1>1 DEF AnswerMatches, ListLabels
  <2>4. WrittenBy(call[t].number)' = <<>>
    BY <1>1, <2>3 DEF WrittenBy
  <2>5. pc'[t] = "done"
    BY <1>1, <1>3, Domains DEF Finish, Goto
  <2>6. AbsOutcome'[t] = Failed
    BY <1>1, <2>1, <2>4, <2>5 DEF AbsOutcome, Request, Listing
  <2>7. AbsCatalog = <<>>
    BY <1>3 DEF AbsCatalog
  <2>8. Abs!PerformList(t, Failed)
    BY <1>2, <2>2, <2>7, AbsSame DEF Abs!PerformList
  <2> QED BY <2>2, <2>6, <2>8, AnswersDiffer, AbsPerforms
<1>4. CASE Goto(t, "listOutput") /\ reply' = reply
  <2>1. pc'[t] = "listOutput"
    BY <1>1, <1>4, Domains DEF Goto
  <2> QED BY <1>1, <1>2, <1>4, <2>1, AbsQuiet
<1> QED BY <1>3, <1>4 DEF ListFirst

(* LIST takes effect when its loop reads the last node.                    *)
LEMMA AbsListNode ==
  ASSUME BatchInv, OutputInv, EventsFit, NEW t \in Workers, ListNode(t),
         OthersKept(t), OutputGrows(t)
  PROVE  [Abs!Next]_(Abs!absVars)
<1>1. /\ RequestMatches(t) /\ TypeOK /\ AnswerMatches(t) /\ list \in Seq(AnyEvent)
      /\ pc[t] = "listNode" /\ pc' = pc /\ list' = list /\ call' = call /\ reply' = reply
      /\ cur[t] # 0
  BY ListIsSeq DEF BatchInv, ThreadInv, OutputInv, ListNode, TypeOK
<1>2. AbsCatalog' = AbsCatalog
  BY <1>1, QuietCatalog DEF Holding
<1>3. Request(t).op = "list"
  BY <1>1, CallsTyped DEF RequestMatches, ListLabels
<1>4. /\ AbsPending[t].op = "list" /\ AbsPending'[t] = AbsPending[t]
      /\ AbsOutcome[t] = NoReply
  BY <1>1, <1>3 DEF AbsPending, AbsOutcome, AnswerMatches, Request
<1>5. /\ cur[t] \in 1 .. Len(list) /\ Len(list) \in Nat
      /\ cur'[t] = IF cur[t] < Len(list) THEN cur[t] + 1 ELSE 0
      /\ buf'[t] = [k \in 1 .. cur[t] |-> list[k].id]
  BY ListNodeAnswer
<1>6. CASE cur'[t] # 0
  <2>1. AbsOutcome'[t] = NoReply
    BY <1>1, <1>3, <1>6 DEF AbsOutcome, AnswerMatches, Request
  <2> QED BY <1>2, <1>4, <2>1, AbsStutter
<1>7. CASE cur'[t] = 0
  <2> DEFINE ids == [k \in 1 .. Len(list) |-> list[k].id]
             r == Reply(0, <<Len(list), 1>>, ids)
  <2>1. cur[t] = Len(list) /\ Len(list) # 0
    BY <1>5, <1>7
  <2>2. ids = <<>> <=> Len(list) = 0
    BY <1>5
  <2>3. Len(ids) = Len(list)
    BY <1>5
  <2>4. Listing(ids) = r
    BY <2>1, <2>2, <2>3 DEF Listing
  <2>5. AbsOutcome'[t] = r
    BY <1>1, <1>5, <1>7, <2>1, <2>4 DEF AbsOutcome
  <2>6. r # NoReply
    BY DEF Reply, NoReply
  <2>7. AbsCatalog = [i \in 1 .. Len(list) |-> AbsEvent(list[i])]
    BY <1>1, AbsCatalogIs
  <2>8. /\ AbsCatalog # <<>> /\ Len(AbsCatalog) = Len(list)
        /\ DOMAIN AbsCatalog = 1 .. Len(list)
    BY <1>5, <2>1, <2>7
  <2>9. IdsOf(AbsCatalog) = ids
    BY <2>7 DEF IdsOf, AbsEvent
  <2> HIDE DEF r, ids
  <2>10. Abs!PerformList(t, r)
    BY <1>2, <1>4, <2>8, <2>9, AbsSame DEF Abs!PerformList, r
  <2> QED BY <1>4, <2>5, <2>6, <2>10, AbsPerforms
<1> QED BY <1>6, <1>7

LEMMA AbsListWrite ==
  ASSUME BatchInv, OutputInv, NEW t \in Workers, ListWrite(t), OthersKept(t), OutputGrows(t)
  PROVE  UNCHANGED Abs!absVars
<1>1. /\ RequestMatches(t) /\ TypeOK /\ AnswerMatches(t)
      /\ pc[t] = "listNode" /\ cur[t] = 0 /\ list' = list /\ call' = call
  BY DEF BatchInv, ThreadInv, OutputInv, ListWrite
<1>2. AbsCatalog' = AbsCatalog
  BY <1>1, QuietCatalog DEF Holding
<1>3. Request(t).op = "list"
  BY <1>1, CallsTyped DEF RequestMatches, ListLabels
<1>4. AbsPending'[t] = AbsPending[t] /\ AbsOutcome[t] = Listing(buf[t])
  BY <1>1 DEF AbsPending, AbsOutcome, Request
<1>5. pc'[t] = "done"
  BY <1>1, Domains DEF ListWrite, Finish, Goto
<1>6. WrittenBy(call[t].number)' = buf[t]
  <2> DEFINE n == call[t].number
  <2>1. \A k \in DOMAIN output : output[k].call # n
    BY <1>1 DEF AnswerMatches, ListLabels
  <2>2. CASE buf[t] = <<>> /\ output' = output
    BY <1>1, <2>1, <2>2 DEF WrittenBy
  <2>3. CASE output' = Append(output, Written(t))
    <3> DEFINE mine == {k \in DOMAIN output' : output'[k].call = n}
               last == Len(output) + 1
    <3>1. /\ DOMAIN output = 1 .. Len(output) /\ Len(output) \in Nat
          /\ DOMAIN output' = 1 .. last
          /\ output'[last] = Written(t) /\ \A k \in DOMAIN output : output'[k] = output[k]
      <4>1. Len(output) \in Nat /\ DOMAIN output = 1 .. Len(output)
        BY OutputTyped
      <4>2. output' # output
        <5>1. Len(output') = Len(output) + 1
          BY <1>1, <2>3 DEF TypeOK
        <5> QED BY <4>1, <5>1
      <4> QED BY <4>1, <4>2, OutputTyped
    <3>2. mine = {last}
      <4>1. Written(t).call = n
        BY DEF Written
      <4> QED BY <2>1, <3>1, <4>1
    <3>3. (CHOOSE k \in {last} : TRUE) = last
      OBVIOUS
    <3>4. WrittenBy(n)' = IF mine = {} THEN <<>> ELSE output'[CHOOSE k \in mine : TRUE].data
      BY <1>1 DEF WrittenBy
    <3> HIDE DEF mine
    <3>5. WrittenBy(n)' = output'[last].data
      BY <3>2, <3>3, <3>4
    <3> QED BY <3>1, <3>5 DEF Written
  <2> QED BY <2>2, <2>3 DEF ListWrite, Write, Written
<1>7. AbsOutcome'[t] = Listing(buf[t])
  BY <1>1, <1>3, <1>5, <1>6 DEF AbsOutcome, Request
<1> QED BY <1>2, <1>4, <1>7, AbsStutter

-----------------------------------------------------------------------------
(* The steps of ems_reserve and of its undoing: while a thread holds an    *)
(* event, EventStore sees it as it was when the thread locked it.          *)
LEMMA AbsHeld ==
  ASSUME BatchInv, OutputInv, NEW t \in Workers, OthersKept(t), OutputGrows(t),
         NEW i \in DOMAIN list, NEW f \in AnyEvent, list' = [list EXCEPT ![i] = f],
         \A j \in DOMAIN list : j # i => list[j].mutex # t, SameView(i),
         call' = call, reply' = reply, pc[t] \in ReserveLabels, pc'[t] \in ReserveLabels
  PROVE  UNCHANGED Abs!absVars
<1>1. DOMAIN list' = DOMAIN list /\ \A j \in DOMAIN list : j # i => list'[j] = list[j]
  BY ReplaceEvent DEF BatchInv, TypeOK
<1>2. AbsCatalog' = AbsCatalog
  BY <1>1, CatalogKept
<1> QED BY <1>2, AbsQuiet DEF ReserveLabels, Holding

LEMMA AbsReserveMutex ==
  ASSUME BatchInv, OutputInv, NEW t \in Workers, ReserveMutex(t), OthersKept(t), OutputGrows(t)
  PROVE  UNCHANGED Abs!absVars
<1> DEFINE i == ev[t]
           e == [list[i] EXCEPT !.mutex = t]
<1>1. /\ TypeOK /\ LocksMatch(t) /\ PointersGood(t)
      /\ pc[t] = "reserveMutex" /\ list[i].mutex = NoOne /\ t # NoOne
      /\ pc' = [pc EXCEPT ![t] = "reserveNumber"]
      /\ list' = [list EXCEPT ![i] = e] /\ call' = call /\ reply' = reply
  BY DEF BatchInv, ThreadInv, ReserveMutex, MutexLock, Goto, localVars
<1>2. i \in DOMAIN list /\ list[i] \in AnyEvent
  BY <1>1, ListIsSeq DEF TypeOK, PointersGood, EventUsed
<1>3. /\ e \in AnyEvent /\ e.mutex = t /\ e.id = list[i].id
      /\ e.rows = list[i].rows /\ e.cols = list[i].cols
      /\ e.reservations = list[i].reservations /\ e.data = list[i].data
  BY <1>2, MutexUpdate
<1> HIDE DEF e
<1>4. list'[i] = e /\ pc'[t] = "reserveNumber"
  BY <1>1, <1>2, <1>3, ReplaceEvent, Domains DEF TypeOK
<1>5. \A j \in DOMAIN list : list[j].mutex # t
  BY <1>1 DEF LocksMatch, Holding
<1>6. Made(list[i])' = list[i].reservations /\ Made(list[i]) = list[i].reservations
  BY <1>1, <1>3, <1>4 DEF Made, Numbered, Making, ReserveMutex, localVars
<1>7. \A p : Owner(list[i], p)' = list[i].data[p] /\ Owner(list[i], p) = list[i].data[p]
  BY <1>1, <1>3, <1>4 DEF Owner, InTheMaking, Making, ReserveMutex, localVars
<1>8. SameView(i)
  BY <1>3, <1>4, <1>6, <1>7 DEF SameView, ReserveMutex, localVars
<1> QED BY <1>1, <1>2, <1>3, <1>4, <1>5, <1>8, AbsHeld, ZenonT(60) DEF ReserveLabels, Holding

LEMMA AbsReserveNumber ==
  ASSUME BatchInv, OutputInv, NEW t \in Workers, ReserveNumber(t), OthersKept(t), OutputGrows(t)
  PROVE  UNCHANGED Abs!absVars
<1> DEFINE i == ev[t]
           n == list[i].reservations + 1
           e == [list[i] EXCEPT !.reservations = n]
<1>1. /\ TypeOK /\ SeatsMatch(i) /\ list[i] \in AnyEvent
      /\ pc[t] = "reserveNumber" /\ i \in DOMAIN list /\ list[i].mutex = t
      /\ list[i].reservations \in Nat /\ list[i].data \in [Places(list[i]) -> Nat]
      /\ \A j \in DOMAIN list : j # i => list[j].mutex # t
  BY HeldEvent, AnyEventType DEF BatchInv, ReserveNumber, Holding
<1>2. /\ pc'[t] = "reserveSeat" /\ rid'[t] = n
      /\ call' = call /\ reply' = reply /\ ev' = ev /\ list' = [list EXCEPT ![i] = e]
  BY <1>1, Domains DEF ReserveNumber, Goto
<1>3. n \in Nat
  BY <1>1
<1>4. /\ e \in AnyEvent /\ e.mutex = t /\ e.id = list[i].id
      /\ e.rows = list[i].rows /\ e.cols = list[i].cols
      /\ e.reservations = n /\ e.data = list[i].data
  BY <1>1, <1>3, CountUpdate
<1> HIDE DEF e
<1>5. list'[i] = e
  BY <1>1, <1>2, <1>4, ReplaceEvent DEF TypeOK
<1>6. ~ Numbered(list[i]) /\ \A p : ~ InTheMaking(list[i], p)
  BY <1>1 DEF Numbered, InTheMaking, Making
<1>7. Made(list[i])' = Made(list[i])
  <2>1. Numbered(list[i])'
    BY <1>2, <1>4, <1>5 DEF Numbered, Making
  <2>2. Made(list[i])' = e.reservations - 1 /\ Made(list[i]) = list[i].reservations
    BY <1>2, <1>5, <1>6, <2>1 DEF Made
  <2> QED BY <1>1, <1>4, <2>2
<1>8. ASSUME NEW p \in Places(list[i])
      PROVE  Owner(list[i], p)' = Owner(list[i], p)
  <2>1. list[i].data[p] \in 0 .. list[i].reservations
    BY <1>1, <1>6 DEF SeatsMatch, Made
  <2>2. list[i].data[p] # n
    BY <1>1, <2>1
  <2>3. ~ InTheMaking(list[i], p)'
    BY <1>2, <1>4, <1>5, <2>2 DEF InTheMaking
  <2> QED BY <1>2, <1>4, <1>5, <1>6, <2>3 DEF Owner
<1>9. SameView(i)
  BY <1>2, <1>4, <1>5, <1>7, <1>8 DEF SameView
<1> QED BY <1>1, <1>2, <1>4, <1>9, AbsHeld DEF ReserveLabels, Holding

LEMMA AbsReserveTest ==
  ASSUME BatchInv, OutputInv, NEW t \in Workers, ReserveTest(t), OthersKept(t), OutputGrows(t)
  PROVE  UNCHANGED Abs!absVars
<1> DEFINE i == ev[t]
<1>1. /\ TypeOK /\ list[i] \in AnyEvent
      /\ pc[t] = "reserveSeat" /\ i \in DOMAIN list /\ list[i].mutex = t
      /\ \A j \in DOMAIN list : j # i => list[j].mutex # t
  BY HeldEvent DEF BatchInv, ReserveTest, Holding
<1>2. /\ pc'[t] \in {"reserveMark", "rollback"}
      /\ UNCHANGED <<list, call, reply, ev, rid>>
  BY <1>1, Domains DEF ReserveTest, Goto, localVars
<1>3. list' = [list EXCEPT ![i] = list[i]]
  BY <1>1, <1>2, ListIsSeq DEF TypeOK
<1>4. Made(list[i])' = Made(list[i])
  BY <1>1, <1>2 DEF Made, Numbered, Making
<1>5. \A p : Owner(list[i], p)' = Owner(list[i], p)
  BY <1>1, <1>2 DEF Owner, InTheMaking, Making
<1>6. SameView(i)
  BY <1>2, <1>4, <1>5 DEF SameView
<1> QED BY <1>1, <1>2, <1>3, <1>6, AbsHeld DEF ReserveLabels, Holding

LEMMA AbsReserveMark ==
  ASSUME BatchInv, OutputInv, NEW t \in Workers, ReserveMark(t), OthersKept(t), OutputGrows(t)
  PROVE  UNCHANGED Abs!absVars
<1> DEFINE i == ev[t]
           E == list[i]
           k == cur[t]
           p == Place(E, Seats(t), k)
           a == [E.data EXCEPT ![p] = rid[t]]
           e == [E EXCEPT !.data = a]
<1>1. /\ TypeOK /\ E \in AnyEvent /\ LoopMatches(t)
      /\ pc[t] = "reserveMark" /\ i \in DOMAIN list /\ E.mutex = t
      /\ Seats(t) \in Seq(Nat \X Nat) /\ E.data \in [Places(E) -> Nat]
      /\ \A j \in DOMAIN list : j # i => list[j].mutex # t
  BY HeldEvent, AnyEventType DEF BatchInv, ThreadInv, ReserveMark, Holding
<1>2. /\ pc'[t] = "reserveSeat" /\ rid' = rid /\ ev' = ev /\ call' = call /\ reply' = reply
      /\ list' = [list EXCEPT ![i] = e]
  BY <1>1, Domains DEF ReserveMark, Goto, PlaceOf, Place
<1>3. /\ k \in 1 .. Len(Seats(t)) /\ Inside(E, Seats(t), k) /\ E.data[p] = 0
  BY <1>1 DEF LoopMatches, SeatIsFree, Inside, Place, PlaceOf
<1>4. p \in Places(E)
  BY <1>1, <1>3, PlaceInRange
<1>5. rid[t] \in Nat \ {0}
  BY <1>1, InMaking DEF Making
<1>6. a \in [Places(E) -> Nat]
  BY <1>1, <1>4, <1>5
<1>7. /\ e \in AnyEvent /\ e.mutex = t /\ e.id = E.id
      /\ e.rows = E.rows /\ e.cols = E.cols
      /\ e.reservations = E.reservations /\ e.data = a
  <2> HIDE DEF a, E
  <2> QED BY <1>1, <1>6, DataUpdate
<1> HIDE DEF e
<1>8. list'[i] = e
  BY <1>1, <1>2, <1>7, ReplaceEvent DEF TypeOK
<1>9. Made(list[i])' = Made(list[i])
  BY <1>1, <1>2, <1>7, <1>8 DEF Made, Numbered, Making
<1>10. ASSUME NEW q \in Places(E)
       PROVE  Owner(list[i], q)' = Owner(list[i], q)
  <2>1. InTheMaking(list[i], q)' <=> e.data[q] = rid[t]
    BY <1>1, <1>2, <1>7, <1>8 DEF InTheMaking, Making
  <2>2. InTheMaking(list[i], q) <=> E.data[q] = rid[t]
    BY <1>1 DEF InTheMaking, Making
  <2>3. CASE q = p
    <3>1. e.data[q] = rid[t]
      BY <1>1, <1>4, <1>7, <2>3
    <3> QED BY <1>2, <1>3, <1>8, <2>1, <2>3, <3>1 DEF Owner
  <2>4. CASE q # p
    <3>1. e.data[q] = E.data[q]
      BY <1>1, <1>7, <2>4
    <3> QED BY <1>2, <1>8, <2>1, <2>2, <3>1 DEF Owner
  <2> QED BY <2>3, <2>4
<1>11. SameView(i)
  BY <1>2, <1>7, <1>8, <1>9, <1>10 DEF SameView
<1> QED BY <1>1, <1>2, <1>7, <1>11, AbsHeld DEF ReserveLabels, Holding

LEMMA AbsRollback ==
  ASSUME BatchInv, OutputInv, NEW t \in Workers, Rollback(t), OthersKept(t), OutputGrows(t)
  PROVE  UNCHANGED Abs!absVars
<1> DEFINE i == ev[t]
           E == list[i]
           e == [E EXCEPT !.reservations = E.reservations - 1]
<1>1. /\ TypeOK /\ E \in AnyEvent
      /\ pc[t] = "rollback" /\ i \in DOMAIN list /\ E.mutex = t
      /\ \A j \in DOMAIN list : j # i => list[j].mutex # t
  BY HeldEvent DEF BatchInv, Rollback, Holding
<1>2. /\ pc'[t] = "rollbackSeat" /\ rid' = rid /\ ev' = ev /\ call' = call /\ reply' = reply
      /\ list' = [list EXCEPT ![i] = e]
  BY <1>1, Domains DEF Rollback, Goto
<1>3. /\ rid[t] = Made(E) + 1 /\ Made(E) \in Nat /\ E.reservations = rid[t]
  BY <1>1, InMaking DEF Making
<1>4. E.reservations - 1 = Made(E)
  BY <1>3
<1>5. /\ e \in AnyEvent /\ e.mutex = t /\ e.id = E.id
      /\ e.rows = E.rows /\ e.cols = E.cols
      /\ e.reservations = Made(E) /\ e.data = E.data
  BY <1>1, <1>3, <1>4, CountUpdate
<1> HIDE DEF e
<1>6. list'[i] = e
  BY <1>1, <1>2, <1>5, ReplaceEvent DEF TypeOK
<1>7. Made(list[i])' = Made(list[i])
  <2>1. ~ Numbered(list[i])'
    BY <1>2, <1>5, <1>6 DEF Numbered, Making
  <2> QED BY <1>2, <1>5, <1>6, <2>1 DEF Made
<1>8. \A p : Owner(list[i], p)' = Owner(list[i], p)
  BY <1>1, <1>2, <1>5, <1>6 DEF Owner, InTheMaking, Making
<1>9. SameView(i)
  BY <1>2, <1>5, <1>6, <1>7, <1>8 DEF SameView
<1> QED BY <1>1, <1>2, <1>5, <1>9, AbsHeld DEF ReserveLabels, Holding

LEMMA AbsRollbackSeat ==
  ASSUME BatchInv, OutputInv, NEW t \in Workers, RollbackSeat(t), OthersKept(t), OutputGrows(t)
  PROVE  UNCHANGED Abs!absVars
<1> DEFINE i == ev[t]
           E == list[i]
           k == cur[t]
           m == stop[t]
           p == Place(E, Seats(t), k)
           a == [E.data EXCEPT ![p] = 0]
           e == [E EXCEPT !.data = a]
<1>1. /\ TypeOK /\ E \in AnyEvent /\ LoopMatches(t)
      /\ pc[t] = "rollbackSeat" /\ i \in DOMAIN list /\ E.mutex = t
      /\ Seats(t) \in Seq(Nat \X Nat) /\ Len(Seats(t)) \in Nat \ {0}
      /\ E.data \in [Places(E) -> Nat]
      /\ \A j \in DOMAIN list : j # i => list[j].mutex # t
  BY HeldEvent, AnyEventType DEF BatchInv, ThreadInv, RollbackSeat, Holding
<1>2. /\ pc'[t] = "rollbackSeat" /\ rid' = rid /\ ev' = ev /\ call' = call /\ reply' = reply
      /\ list' = [list EXCEPT ![i] = e]
  BY <1>1 DEF RollbackSeat, PlaceOf, Place
<1>3. /\ k \in 1 .. (m - 1) /\ k \in 1 .. Len(Seats(t)) /\ k \in k .. (m - 1)
  <2>1. k \in 1 .. m /\ m \in 1 .. Len(Seats(t)) /\ k < m
    BY <1>1 DEF LoopMatches, RollbackSeat
  <2> HIDE DEF k, m
  <2> QED BY <1>1, <2>1
<1>4. /\ rid[t] \in Nat \ {0}
      /\ CarryNumber(E, Seats(t), 1 .. (m - 1), k .. (m - 1), rid[t])
  BY <1>1, InMaking DEF Making, Passed, Marked
<1>5. p \in Places(E) /\ E.data[p] = rid[t]
  <2>1. Inside(E, Seats(t), k)
    BY <1>3, <1>4 DEF CarryNumber
  <2>2. p \in Places(E)
    BY <1>1, <1>3, <2>1, PlaceInRange
  <2> QED BY <1>3, <1>4, <2>2 DEF CarryNumber
<1>6. a \in [Places(E) -> Nat]
  BY <1>1, <1>5
<1>7. /\ e \in AnyEvent /\ e.mutex = t /\ e.id = E.id
      /\ e.rows = E.rows /\ e.cols = E.cols
      /\ e.reservations = E.reservations /\ e.data = a
  <2> HIDE DEF a, E
  <2> QED BY <1>1, <1>6, DataUpdate
<1> HIDE DEF e
<1>8. list'[i] = e
  BY <1>1, <1>2, <1>7, ReplaceEvent DEF TypeOK
<1>9. Made(list[i])' = Made(list[i])
  BY <1>1, <1>2, <1>7, <1>8 DEF Made, Numbered, Making
<1>10. ASSUME NEW q \in Places(E)
       PROVE  Owner(list[i], q)' = Owner(list[i], q)
  <2>1. InTheMaking(list[i], q)' <=> e.data[q] = rid[t]
    BY <1>1, <1>2, <1>7, <1>8 DEF InTheMaking, Making
  <2>2. InTheMaking(list[i], q) <=> E.data[q] = rid[t]
    BY <1>1 DEF InTheMaking, Making
  <2>3. CASE q = p
    <3>1. e.data[q] = 0
      BY <1>1, <1>5, <1>7, <2>3
    <3> QED BY <1>2, <1>4, <1>5, <1>8, <2>1, <2>2, <2>3, <3>1 DEF Owner
  <2>4. CASE q # p
    <3>1. e.data[q] = E.data[q]
      BY <1>1, <1>7, <2>4
    <3> QED BY <1>2, <1>8, <2>1, <2>2, <3>1 DEF Owner
  <2> QED BY <2>3, <2>4
<1>11. SameView(i)
  BY <1>2, <1>7, <1>8, <1>9, <1>10 DEF SameView
<1> QED BY <1>1, <1>2, <1>7, <1>11, AbsHeld DEF ReserveLabels, Holding

(* A seat of the request, in the plan of EventStore.                       *)
LEMMA SeatInPlan ==
  ASSUME NEW e \in AnyEvent, NEW seats \in Seq(Nat \X Nat), NEW k \in 1 .. Len(seats)
  PROVE  /\ seats[k] \in Coords(e) <=> Inside(e, seats, k)
         /\ Inside(e, seats, k) =>
              AbsEvent(e).owner[seats[k]] = Owner(e, Place(e, seats, k))
<1>1. e.rows \in Nat /\ e.cols \in Nat /\ seats[k] \in Nat \X Nat
  BY AnyEventType
<1>2. seats[k] = <<seats[k][1], seats[k][2]>> /\ seats[k][1] \in Nat /\ seats[k][2] \in Nat
  BY <1>1
<1>3. seats[k] \in Coords(e) <=> Inside(e, seats, k)
  BY <1>1, <1>2 DEF Coords, Inside, InBounds
<1> QED BY <1>3 DEF AbsEvent, Place

LEMMA PlacesDiffer ==
  ASSUME NEW e \in AnyEvent, NEW s \in Coords(e), NEW u \in Coords(e),
         SeatIndex(e, s[1], s[2]) = SeatIndex(e, u[1], u[2])
  PROVE  s = u
<1>1. e.rows \in Nat /\ e.cols \in Nat
  BY AnyEventType
<1>2. s = <<s[1], s[2]>> /\ u = <<u[1], u[2]>>
  BY DEF Coords
<1>3. PICK r1, c1, r2, c2 : s[1] = r1 /\ s[2] = c1 /\ u[1] = r2 /\ u[2] = c2
  OBVIOUS
<1>4. /\ <<r1, c1>> \in Coords(e) /\ <<r2, c2>> \in Coords(e)
      /\ SeatIndex(e, r1, c1) = SeatIndex(e, r2, c2)
  BY <1>2, <1>3
<1>5. r1 = r2 /\ c1 = c2
  BY <1>1, <1>4, SeatIndexInjective, ZenonT(60)
<1> QED BY <1>2, <1>3, <1>5

(* The seat that blocks a reservation blocks it for EventStore, too.       *)
LEMMA BlockedIsRefused ==
  ASSUME NEW e \in AnyEvent, NEW seats \in Seq(Nat \X Nat), NEW m \in 1 .. Len(seats),
         NEW n, Blocked(e, seats, m, n),
         \A p \in Places(e) : Owner(e, p) = e.data[p]
  PROVE  ~ Abs!Reservable(AbsEvent(e), seats)
<1> SUFFICES ASSUME Abs!Reservable(AbsEvent(e), seats)
             PROVE  FALSE
  OBVIOUS
<1>1. DOMAIN seats = 1 .. Len(seats) /\ Coords(AbsEvent(e)) = Coords(e)
  BY DEF AbsEvent, Coords
<1>2. /\ \A k \in 1 .. Len(seats) : seats[k] \in Coords(e) /\ AbsEvent(e).owner[seats[k]] = 0
      /\ \A j, k \in 1 .. Len(seats) : seats[j] = seats[k] => j = k
  BY <1>1, AbsSame DEF Abs!Reservable
<1>3. ASSUME NEW k \in 1 .. Len(seats)
      PROVE  Inside(e, seats, k) /\ e.data[Place(e, seats, k)] = 0
  <2>1. Inside(e, seats, k)
    BY <1>2, SeatInPlan
  <2>2. Place(e, seats, k) \in Places(e)
    BY <2>1, PlaceInRange
  <2>3. Owner(e, Place(e, seats, k)) = 0
    BY <1>2, <2>1, SeatInPlan
  <2> QED BY <2>1, <2>2, <2>3
<1>4. PICK j \in 1 .. (m - 1) : Place(e, seats, j) = Place(e, seats, m)
  BY <1>3 DEF Blocked
<1>5. j \in 1 .. Len(seats) /\ j # m
  OBVIOUS
<1>6. seats[j] = seats[m]
  BY <1>2, <1>4, <1>5, PlacesDiffer DEF Place
<1> QED BY <1>2, <1>5, <1>6

LEMMA AbsRollbackUnlock ==
  ASSUME BatchInv, OutputInv, NEW t \in Workers, RollbackUnlock(t), OthersKept(t), OutputGrows(t)
  PROVE  Abs!Next
<1> DEFINE i == ev[t]
           E == list[i]
           e == [E EXCEPT !.mutex = NoOne]
           k == cur[t]
<1>1. /\ TypeOK /\ UniqueEventIds /\ E \in AnyEvent
      /\ pc[t] = "rollbackSeat" /\ i \in DOMAIN list /\ E.mutex = t
      /\ E.id = Request(t).id /\ Request(t) \in ReserveCalls
      /\ Seats(t) \in Seq(Nat \X Nat) /\ LoopMatches(t)
      /\ \A j \in DOMAIN list : j # i => list[j].mutex # t
  BY HeldEvent DEF BatchInv, ThreadInv, RollbackUnlock, Holding
<1>2. /\ list' = [list EXCEPT ![i] = e] /\ Finish(t, Failed) /\ call' = call /\ ev' = ev
      /\ k = stop[t] /\ k \in Nat
  BY <1>1, Domains DEF RollbackUnlock, MutexUnlock, localVars
<1>3. /\ e \in AnyEvent /\ e.mutex = NoOne /\ e.id = E.id
      /\ e.rows = E.rows /\ e.cols = E.cols
      /\ e.reservations = E.reservations /\ e.data = E.data
  BY <1>1, MutexUpdate
<1> HIDE DEF e
<1>4. list'[i] = e /\ DOMAIN list' = DOMAIN list
      /\ \A j \in DOMAIN list : j # i => list'[j] = list[j]
  BY <1>1, <1>2, <1>3, ReplaceEvent DEF TypeOK
<1>5. /\ E.reservations = Made(E)
      /\ CarryNumber(E, Seats(t), 1 .. (k - 1), k .. (k - 1), rid[t])
  BY <1>1, <1>2, InMaking DEF Making, Passed, Marked
<1>6. \A p \in Places(E) : E.data[p] # rid[t]
  <2>1. k .. (k - 1) = {}
    BY <1>2
  <2> QED BY <1>5, <2>1 DEF CarryNumber
<1>7. \A p \in Places(E) : Owner(E, p) = E.data[p]
  BY <1>1, <1>6 DEF Owner, InTheMaking
<1>8. SameView(i)
  <2>1. Made(list[i])' = E.reservations
    BY <1>2, <1>3, <1>4 DEF Made, Numbered
  <2>2. \A p : Owner(list[i], p)' = E.data[p]
    BY <1>2, <1>3, <1>4 DEF Owner, InTheMaking
  <2> QED BY <1>2, <1>3, <1>4, <1>5, <1>7, <2>1, <2>2 DEF SameView
<1>9. AbsCatalog' = AbsCatalog
  <2>1. \A j \in DOMAIN list : SameView(j) \/ (list[j].mutex # t /\ list'[j] = list[j])
    BY <1>1, <1>4, <1>8
  <2> QED BY <1>4, <2>1, CatalogKept
<1>10. k \in 1 .. Len(Seats(t)) /\ Blocked(E, Seats(t), k, rid[t])
  BY <1>1, <1>2 DEF LoopMatches, BlockedAt
<1>11. ~ Abs!Reservable(AbsEvent(E), Seats(t))
  BY <1>1, <1>7, <1>10, BlockedIsRefused
<1>12. AbsPending[t] = Request(t) /\ Request(t).op = "reserve"
  BY <1>1, CallsTyped DEF AbsPending
<1>13. ASSUME NEW j \in DOMAIN AbsCatalog, AbsCatalog[j].id = Request(t).id
       PROVE  AbsCatalog[j] = AbsEvent(E)
  <2>1. j \in DOMAIN list /\ AbsCatalog[j] = AbsEvent(list[j]) /\ list[j].id = E.id
    BY <1>1, <1>13, AbsCatalogIs DEF AbsEvent
  <2>2. j = i
    BY <1>1, <2>1 DEF UniqueEventIds
  <2> QED BY <2>1, <2>2
<1>14. Abs!PerformReserve(t, Failed)
  BY <1>9, <1>11, <1>12, <1>13, AbsSame DEF Abs!PerformReserve, Seats
<1> QED BY <1>1, <1>2, <1>14, AbsFinish DEF ReserveLabels, Holding

(* A reservation that has marked all its seats: EventStore lets it take    *)
(* them, and they are the ones that carry its number.                      *)
LEMMA TakesItsSeats ==
  ASSUME NEW e \in AnyEvent, NEW seats \in Seq(Nat \X Nat), NEW n,
         CarryNumber(e, seats, 1 .. Len(seats), 1 .. Len(seats), n),
         \A p \in Places(e) : Owner(e, p) = IF e.data[p] = n THEN 0 ELSE e.data[p]
  PROVE  /\ Abs!Reservable(AbsEvent(e), seats)
         /\ \A s \in Coords(e) :
              e.data[SeatIndex(e, s[1], s[2])]
                = IF s \in {seats[k] : k \in DOMAIN seats} THEN n
                  ELSE AbsEvent(e).owner[s]
<1>1. DOMAIN seats = 1 .. Len(seats) /\ Coords(AbsEvent(e)) = Coords(e)
  BY DEF AbsEvent, Coords
<1>2. /\ \A k \in 1 .. Len(seats) : Inside(e, seats, k)
      /\ \A j, k \in 1 .. Len(seats) : Place(e, seats, j) = Place(e, seats, k) => j = k
      /\ \A p \in Places(e) : e.data[p] = n <=>
                              \E k \in 1 .. Len(seats) : Place(e, seats, k) = p
  BY DEF CarryNumber
<1>3. ASSUME NEW k \in 1 .. Len(seats)
      PROVE  /\ seats[k] \in Coords(e) /\ AbsEvent(e).owner[seats[k]] = 0
             /\ e.data[Place(e, seats, k)] = n
  <2>1. Inside(e, seats, k)
    BY <1>2
  <2>2. Place(e, seats, k) \in Places(e)
    BY <2>1, PlaceInRange
  <2>3. e.data[Place(e, seats, k)] = n
    BY <1>2, <2>2
  <2>4. Owner(e, Place(e, seats, k)) = 0
    BY <2>2, <2>3
  <2> QED BY <2>1, <2>3, <2>4, SeatInPlan
<1>4. \A j, k \in 1 .. Len(seats) : seats[j] = seats[k] => j = k
  <2>1. \A j, k \in 1 .. Len(seats) :
          seats[j] = seats[k] => Place(e, seats, j) = Place(e, seats, k)
    BY DEF Place
  <2> QED BY <1>2, <2>1
<1>5. Abs!Reservable(AbsEvent(e), seats)
  BY <1>1, <1>3, <1>4, AbsSame DEF Abs!Reservable
<1>6. ASSUME NEW s \in Coords(e)
      PROVE  e.data[SeatIndex(e, s[1], s[2])]
               = IF s \in {seats[k] : k \in DOMAIN seats} THEN n ELSE AbsEvent(e).owner[s]
  <2> DEFINE p == SeatIndex(e, s[1], s[2])
  <2>1. p \in Places(e)
    BY PlaceOfSeat
  <2>2. AbsEvent(e).owner[s] = Owner(e, p)
    BY DEF AbsEvent
  <2> HIDE DEF p
  <2>3. CASE s \in {seats[k] : k \in DOMAIN seats}
    <3>1. PICK k \in 1 .. Len(seats) : s = seats[k]
      BY <1>1, <2>3
    <3>2. p = Place(e, seats, k)
      BY <3>1 DEF p, Place
    <3> QED BY <1>3, <2>3, <3>1, <3>2 DEF p
  <2>4. CASE s \notin {seats[k] : k \in DOMAIN seats}
    <3>1. ASSUME NEW k \in 1 .. Len(seats), Place(e, seats, k) = p
          PROVE  FALSE
      <4>1. seats[k] \in Coords(e)
        BY <1>3
      <4>2. s = seats[k]
        BY <3>1, <4>1, PlacesDiffer DEF Place, p
      <4> QED BY <1>1, <2>4, <4>2
    <3>2. e.data[p] # n
      BY <1>2, <2>1, <3>1
    <3>3. Owner(e, p) = e.data[p]
      BY <2>1, <3>2
    <3> QED BY <2>2, <2>4, <3>3 DEF p
  <2> QED BY <2>3, <2>4
<1> QED BY <1>5, <1>6

LEMMA ViewUpdate ==
  ASSUME NEW e, NEW n, NEW o
  PROVE  [AbsEvent(e) EXCEPT !.reservations = n, !.owner = o]
           = [id |-> e.id, rows |-> e.rows, cols |-> e.cols, reservations |-> n, owner |-> o]
<1> DEFINE Views == [id : {e.id}, rows : {e.rows}, cols : {e.cols}, reservations : {n}, owner : {o}]
           V == AbsEvent(e)
<1>1. PICK m, w : V \in [id : {e.id}, rows : {e.rows}, cols : {e.cols}, reservations : {m},
                         owner : {w}]
  BY DEF AbsEvent
<1> HIDE DEF V
<1>2. [V EXCEPT !.reservations = n, !.owner = o] \in Views
  BY <1>1
<1>3. ASSUME NEW y \in Views
      PROVE  y = [id |-> e.id, rows |-> e.rows, cols |-> e.cols, reservations |-> n, owner |-> o]
  <2>1. /\ y.id = e.id /\ y.rows = e.rows /\ y.cols = e.cols /\ y.reservations = n /\ y.owner = o
        /\ y = [id |-> y.id, rows |-> y.rows, cols |-> y.cols,
                reservations |-> y.reservations, owner |-> y.owner]
    OBVIOUS
  <2> QED BY <2>1
<1> QED BY <1>2, <1>3 DEF V

(* RESERVE takes effect when it unlocks the event.                         *)
LEMMA AbsReserveUnlock ==
  ASSUME BatchInv, OutputInv, NEW t \in Workers, ReserveUnlock(t), OthersKept(t), OutputGrows(t)
  PROVE  Abs!Next
<1> DEFINE i == ev[t]
           E == list[i]
           e == [E EXCEPT !.mutex = NoOne]
           seats == Seats(t)
           n == rid[t]
           taken == {seats[k] : k \in DOMAIN seats}
<1>1. /\ TypeOK /\ E \in AnyEvent /\ LoopMatches(t)
      /\ pc[t] = "reserveSeat" /\ i \in DOMAIN list /\ E.mutex = t
      /\ E.id = Request(t).id /\ Request(t) \in ReserveCalls
      /\ seats \in Seq(Nat \X Nat) /\ Len(seats) \in Nat
      /\ \A j \in DOMAIN list : j # i => list[j].mutex # t
  BY HeldEvent DEF BatchInv, ThreadInv, ReserveUnlock, Holding
<1>2. /\ list' = [list EXCEPT ![i] = e] /\ Finish(t, Done) /\ call' = call /\ ev' = ev
      /\ cur[t] > Len(seats)
  BY <1>1, Domains DEF ReserveUnlock, MutexUnlock, localVars
<1>3. /\ e \in AnyEvent /\ e.mutex = NoOne /\ e.id = E.id
      /\ e.rows = E.rows /\ e.cols = E.cols
      /\ e.reservations = E.reservations /\ e.data = E.data
  BY <1>1, MutexUpdate
<1> HIDE DEF e
<1>4. list'[i] = e /\ DOMAIN list' = DOMAIN list
      /\ \A j \in DOMAIN list : j # i => list'[j] = list[j]
  BY <1>1, <1>2, <1>3, ReplaceEvent DEF TypeOK
<1>5. cur[t] - 1 = Len(seats)
  BY <1>1, <1>2 DEF LoopMatches
<1>6. /\ n = Made(E) + 1 /\ E.reservations = n
      /\ CarryNumber(E, seats, 1 .. (cur[t] - 1), 1 .. (cur[t] - 1), n)
  BY <1>1, InMaking DEF Making, Passed, Marked
<1>7. \A p \in Places(E) : Owner(E, p) = IF E.data[p] = n THEN 0 ELSE E.data[p]
  BY <1>1 DEF Owner, InTheMaking, Making
<1>8. /\ Abs!Reservable(AbsEvent(E), seats)
      /\ \A s \in Coords(E) : E.data[SeatIndex(E, s[1], s[2])]
                                = IF s \in taken THEN n ELSE AbsEvent(E).owner[s]
  <2>1. CarryNumber(E, seats, 1 .. Len(seats), 1 .. Len(seats), n)
    BY <1>5, <1>6
  <2> HIDE DEF E, seats, n
  <2> QED BY <1>1, <1>7, <2>1, TakesItsSeats
<1> HIDE DEF seats, taken, n
<1> DEFINE x == [AbsEvent(E) EXCEPT
                   !.reservations = n,
                   !.owner = [s \in Coords(E) |->
                                IF s \in taken THEN n ELSE AbsEvent(E).owner[s]]]
<1>9. AbsEvent(list[i])' = x
  <2>1. Made(list[i])' = E.reservations
    BY <1>2, <1>3, <1>4 DEF Made, Numbered
  <2>2. \A p : Owner(list[i], p)' = E.data[p]
    BY <1>2, <1>3, <1>4 DEF Owner, InTheMaking
  <2>3. Coords(e) = Coords(E) /\ \A a, b : SeatIndex(e, a, b) = SeatIndex(E, a, b)
    BY <1>3 DEF Coords, SeatIndex
  <2>4. [s \in Coords(list[i]) |-> Owner(list[i], SeatIndex(list[i], s[1], s[2]))]'
          = [s \in Coords(E) |-> E.data[SeatIndex(E, s[1], s[2])]]
    BY <1>2, <1>4, <2>2, <2>3
  <2>5. [s \in Coords(E) |-> E.data[SeatIndex(E, s[1], s[2])]]
          = [s \in Coords(E) |-> IF s \in taken THEN n ELSE AbsEvent(E).owner[s]]
    BY <1>8
  <2> DEFINE o == [s \in Coords(E) |-> IF s \in taken THEN n ELSE AbsEvent(E).owner[s]]
  <2>6. AbsEvent(list[i])' =
          [id |-> E.id, rows |-> E.rows, cols |-> E.cols, reservations |-> n, owner |-> o]
    BY <1>2, <1>3, <1>4, <1>6, <2>1, <2>4, <2>5 DEF AbsEvent
  <2>7. x = [AbsEvent(E) EXCEPT !.reservations = n, !.owner = o]
    OBVIOUS
  <2> HIDE DEF o, x
  <2> QED BY <2>6, <2>7, ViewUpdate
<1>10. \A j \in DOMAIN list : j # i => AbsEvent(list[j])' = AbsEvent(list[j])
  BY <1>1, <1>4, UntouchedView, AbsEventKept
<1>11. AbsCatalog' = [j \in DOMAIN list |-> AbsEvent(list[j])']
  BY <1>4 DEF AbsCatalog, AbsEvent, Owner, Made
<1> HIDE DEF x
<1>12. AbsCatalog' = [AbsCatalog EXCEPT ![i] = x]
  <2>1. \A j \in DOMAIN list :
          AbsEvent(list[j])' = IF j = i THEN x ELSE AbsEvent(list[j])
    BY <1>2, <1>9, <1>10
  <2>2. AbsCatalog' = [j \in DOMAIN list |-> IF j = i THEN x ELSE AbsEvent(list[j])]
    BY <1>11, <2>1
  <2> QED BY <1>1, <2>2, AbsCatalogIs
<1>13. /\ i \in DOMAIN AbsCatalog /\ AbsCatalog[i] = AbsEvent(E)
       /\ AbsEvent(E).id = Request(t).id /\ AbsEvent(E).reservations + 1 = n
       /\ Coords(AbsEvent(E)) = Coords(E)
  BY <1>1, <1>6, AbsCatalogIs DEF AbsEvent, Coords
<1>14. AbsPending[t] = Request(t) /\ Request(t).op = "reserve" /\ Request(t).seats = seats
  BY <1>1, CallsTyped DEF AbsPending, Seats, seats
<1>15. Abs!PerformReserve(t, Done)
  <2> DEFINE V == AbsCatalog[i]
             c == AbsPending[t]
             named == {c.seats[k] : k \in DOMAIN c.seats}
             o == [s \in Abs!Coords(V) |->
                     IF s \in named THEN V.reservations + 1 ELSE V.owner[s]]
  <2>1. /\ i \in DOMAIN AbsCatalog /\ V.id = c.id /\ c.op = "reserve"
        /\ Abs!Reservable(V, c.seats)
    BY <1>8, <1>13, <1>14
  <2>2. named = taken /\ Abs!Coords(V) = Coords(E) /\ V.reservations + 1 = n
    BY <1>13, <1>14, AbsSame DEF taken
  <2>3. o = [s \in Coords(E) |-> IF s \in taken THEN n ELSE AbsEvent(E).owner[s]]
    BY <1>13, <2>2
  <2>4. x = [V EXCEPT !.reservations = V.reservations + 1, !.owner = o]
    BY <1>13, <2>2, <2>3 DEF x
  <2>5. AbsCatalog' =
          [AbsCatalog EXCEPT ![i] = [V EXCEPT !.reservations = V.reservations + 1, !.owner = o]]
    BY <1>12, <2>4
  <2> QED BY <2>1, <2>5, AbsSame DEF Abs!PerformReserve
<1> QED BY <1>1, <1>2, <1>15, AbsFinish DEF ReserveLabels, Holding

LEMMA AbsReserveFind ==
  ASSUME BatchInv, OutputInv, NEW t \in Workers, ReserveFind(t), OthersKept(t), OutputGrows(t)
  PROVE  [Abs!Next]_(Abs!absVars)
<1>1. /\ RequestMatches(t) /\ TypeOK
      /\ pc[t] = "reserveFind" /\ list' = list /\ call' = call
  BY DEF BatchInv, ThreadInv, ReserveFind, Find
<1>2. AbsCatalog' = AbsCatalog
  BY <1>1, QuietCatalog DEF Holding
<1>3. CASE NoneWithId(Request(t).id) /\ Finish(t, Failed)
  <2>1. AbsPending[t] = Request(t) /\ Request(t).op = "reserve"
    BY <1>1, CallsTyped DEF RequestMatches, ReserveLabels, AbsPending
  <2>2. \A i \in DOMAIN AbsCatalog : AbsCatalog[i].id # Request(t).id
    BY <1>3, AbsCatalogIs DEF NoneWithId, AbsEvent
  <2>3. Abs!PerformReserve(t, Failed)
    BY <1>2, <2>1, <2>2, AbsSame DEF Abs!PerformReserve
  <2> QED BY <1>1, <1>3, <2>3, AbsFinish DEF ReserveLabels
<1>4. CASE Goto(t, "reserveMutex") /\ reply' = reply
  <2>1. pc'[t] = "reserveMutex"
    BY <1>1, <1>4, Domains DEF Goto
  <2> QED BY <1>1, <1>2, <1>4, <2>1, AbsQuiet
<1> QED BY <1>3, <1>4 DEF ReserveFind, Find

(* SHOW is no call of EventStore, and LIST has no effect until it walks.   *)
LEMMA AbsShow ==
  ASSUME BatchInv, OutputInv, NEW t \in Workers, Show(t), OthersKept(t), OutputGrows(t)
  PROVE  UNCHANGED Abs!absVars
<1>1. /\ RequestMatches(t) /\ TypeOK
      /\ pc[t] \in ShowLabels /\ list' = list /\ call' = call
  BY DEF BatchInv, ThreadInv, Show, ShowFind, Find, ShowOutput, ShowSeat, ShowWrite, ShowLabels
<1>2. pc'[t] \in ShowLabels \cup {"done"}
  <2>1. CASE ShowFind(t)
    BY <1>1, <2>1, Domains DEF ShowFind, Find, Finish, Goto, ShowLabels
  <2>2. CASE ShowOutput(t) \/ ShowSeat(t)
    BY <1>1, <2>2, Domains DEF ShowOutput, ShowSeat, Goto, ShowLabels
  <2>3. CASE ShowWrite(t)
    BY <1>1, <2>3, Domains DEF ShowWrite, Finish, Goto
  <2> QED BY <2>1, <2>2, <2>3 DEF Show
<1>3. Request(t).op = "show"
  BY <1>1, CallsTyped DEF RequestMatches
<1>4. AbsCatalog' = AbsCatalog
  BY <1>1, QuietCatalog DEF ShowLabels, Holding
<1> QED BY <1>1, <1>2, <1>3, <1>4, AbsQuiet DEF ShowLabels, ListLabels

LEMMA AbsListOutput ==
  ASSUME BatchInv, OutputInv, NEW t \in Workers, ListOutput(t), OthersKept(t), OutputGrows(t)
  PROVE  UNCHANGED Abs!absVars
<1>1. /\ RequestMatches(t) /\ TypeOK
      /\ pc[t] = "listOutput" /\ list' = list /\ call' = call /\ reply' = reply
  BY DEF BatchInv, ThreadInv, ListOutput
<1>2. pc'[t] = "listNode" /\ cur'[t] = 1
  BY <1>1, Domains DEF ListOutput, Goto
<1>3. AbsCatalog' = AbsCatalog
  BY <1>1, QuietCatalog DEF Holding
<1>4. AbsPending'[t] = AbsPending[t] /\ AbsOutcome'[t] = AbsOutcome[t]
  BY <1>1, <1>2 DEF AbsPending, AbsOutcome, Request
<1> QED BY <1>3, <1>4, AbsStutter

-----------------------------------------------------------------------------
LEMMA InitAbs == Init => Abs!Init
<1> SUFFICES ASSUME Init
             PROVE  Abs!Init
  OBVIOUS
<1>1. list = <<>> /\ \A t \in Workers : /\ pc[t] = "idle" /\ reply[t] = NoReply
                                        /\ Request(t) = NoCall
  BY DEF Init, Request, NoRequest
<1>2. AbsCatalog = <<>>
  BY <1>1 DEF AbsCatalog
<1>3. NoCall.op = "none"
  BY DEF NoCall
<1>4. /\ AbsPending = [t \in Workers |-> NoCall]
      /\ AbsOutcome = [t \in Workers |-> NoReply]
  BY <1>1, <1>3 DEF AbsPending, AbsOutcome
<1> QED BY <1>2, <1>4, AbsSame DEF Abs!Init

LEMMA NextAbs ==
  ASSUME BatchInv, OutputInv, EventsFit, [Next]_vars
  PROVE  [Abs!Next]_(Abs!absVars)
<1>1. CASE UNCHANGED vars
  BY <1>1 DEF vars, localVars, Abs!absVars, AbsCatalog, AbsPending, AbsOutcome, Numbered,
     InTheMaking, Request, WrittenBy
<1>2. ASSUME NEW t \in Workers, (\E c \in Calls : Invoke(t, c)) \/ Step(t)
      PROVE  [Abs!Next]_(Abs!absVars)
  <2>1. OthersKept(t) /\ OutputGrows(t)
    BY <1>2, StepFrame
  <2>2. CASE \E c \in Calls : Invoke(t, c)
    BY <2>1, <2>2, AbsInvoke
  <2>3. CASE Create(t)
    BY <2>1, <2>3, AbsCreateFind, AbsCreateAppend DEF Create
  <2>4. CASE Reserve(t)
    BY <2>1, <2>4, AbsReserveFind, AbsReserveMutex, AbsReserveNumber, AbsReserveTest,
       AbsReserveMark, AbsReserveUnlock, AbsRollback, AbsRollbackSeat, AbsRollbackUnlock
       DEF Reserve
  <2>5. CASE Show(t)
    BY <2>1, <2>5, AbsShow
  <2>6. CASE List(t)
    BY <2>1, <2>6, AbsListFirst, AbsListOutput, AbsListNode, AbsListWrite DEF List
  <2>7. CASE Return(t)
    BY <2>1, <2>7, AbsReturn
  <2> QED BY <1>2, <2>2, <2>3, <2>4, <2>5, <2>6, <2>7 DEF Step
<1> QED BY <1>1, <1>2 DEF Next

(* The store of the threads implements EventStore, as long as the lines of *)
(* a LIST fit its buffer: CREATE, RESERVE and LIST take effect at once.    *)
THEOREM Linearizable == Spec /\ []EventsFit => ImplementsEventStore
<1>1. Init => Abs!Init
  BY InitAbs
<1>2. Init => OutputInv
  BY InitOutputInv
<1>3. BatchInv /\ OutputInv /\ EventsFit /\ [Next]_vars => OutputInv'
  BY NextOutputInv
<1>4. BatchInv /\ OutputInv /\ EventsFit /\ [Next]_vars => [Abs!Next]_(Abs!absVars)
  BY NextAbs
<1> QED BY <1>1, <1>2, <1>3, <1>4, BatchInvariant, PTL DEF Spec, ImplementsEventStore, Abs!Spec

-----------------------------------------------------------------------------
(* No more events than calls: every event of the list is of a CREATE that  *)
(* has ended, or that will not add another.                                *)
Creating == {t \in Workers : pc[t] \in CreateLabels}
FewEvents == /\ IsFiniteSet(Creating)
             /\ Len(list) + Cardinality(Creating) <= calls

LEMMA LengthKept ==
  ASSUME BatchInv, BatchInv', NEW t \in Workers,
         Reserve(t) \/ Show(t) \/ List(t) \/ Return(t)
  PROVE  Len(list') = Len(list)
<1>1. /\ list \in Seq(AnyEvent) /\ DOMAIN list = 1 .. Len(list) /\ Len(list) \in Nat
  BY ListIsSeq DEF BatchInv, TypeOK
<1>2. list' \in Seq({list[i] : i \in DOMAIN list})'
  BY DEF BatchInv, TypeOK, ListTypeOK
<1>3. Len(list') \in Nat /\ DOMAIN list' = 1 .. Len(list')
  BY <1>2
<1>4. DOMAIN list' = DOMAIN list
  <2>1. CASE ReserveFind(t) \/ ReserveTest(t) \/ Show(t) \/ List(t) \/ Return(t)
    BY <2>1 DEF ReserveFind, Find, ReserveTest, Show, ShowFind, ShowOutput, ShowSeat, ShowWrite,
       List, ListFirst, ListOutput, ListNode, ListWrite, Return
  <2>2. CASE \/ ReserveMark(t) \/ RollbackSeat(t) \/ ReserveMutex(t) \/ ReserveNumber(t)
             \/ ReserveUnlock(t) \/ Rollback(t) \/ RollbackUnlock(t)
    BY <1>1, <2>2 DEF ReserveMark, RollbackSeat, ReserveMutex, MutexLock, ReserveNumber,
       ReserveUnlock, Rollback, RollbackUnlock, MutexUnlock
  <2> QED BY <2>1, <2>2 DEF Reserve
<1>5. \A m, n \in Nat : 1 .. m = 1 .. n => m = n
  <2> SUFFICES ASSUME NEW m \in Nat, NEW n \in Nat, 1 .. m = 1 .. n
               PROVE  m = n
    OBVIOUS
  <2>1. m > 0 => m \in 1 .. n
    OBVIOUS
  <2>2. n > 0 => n \in 1 .. m
    OBVIOUS
  <2> QED BY <2>1, <2>2
<1> QED BY <1>1, <1>3, <1>4, <1>5

LEMMA InitFewEvents == Init => FewEvents
<1> SUFFICES ASSUME Init
             PROVE  FewEvents
  OBVIOUS
<1>1. Creating = {} /\ list = <<>> /\ calls = 0
  BY DEF Init, Creating, CreateLabels
<1> QED BY <1>1, FS_EmptySet DEF FewEvents

LEMMA NextFewEvents ==
  ASSUME BatchInv, BatchInv', FewEvents, [Next]_vars
  PROVE  FewEvents'
<1>1. /\ IsFiniteSet(Creating) /\ Cardinality(Creating) \in Nat
      /\ Len(list) \in Nat /\ calls \in Nat /\ list \in Seq(AnyEvent)
      /\ Len(list) + Cardinality(Creating) <= calls
  BY ListIsSeq, FS_CardinalityType DEF FewEvents, BatchInv, TypeOK
<1>2. CASE UNCHANGED vars
  BY <1>2 DEF vars, FewEvents, Creating
<1>3. ASSUME NEW t \in Workers, (\E c \in Calls : Invoke(t, c)) \/ Step(t)
      PROVE  FewEvents'
  <2>1. \A u \in Workers \ {t} : u \in Creating' <=> u \in Creating
    BY <1>3, StepFrame DEF OthersKept, Creating
  <2>2. CASE \E c \in Calls : Invoke(t, c)
    <3>1. t \notin Creating /\ calls' = calls + 1 /\ list' = list
      BY <2>2 DEF Invoke, Creating, CreateLabels
    <3>2. Creating' = Creating \/ Creating' = Creating \cup {t}
      BY <2>1, <3>1 DEF Creating
    <3>3. /\ IsFiniteSet(Creating \cup {t})
          /\ Cardinality(Creating \cup {t}) = Cardinality(Creating) + 1
      BY <1>1, <3>1, FS_AddElement
    <3>4. IsFiniteSet(Creating') /\ Cardinality(Creating') <= Cardinality(Creating) + 1
      <4>1. CASE Creating' = Creating
        BY <1>1, <4>1
      <4>2. CASE Creating' = Creating \cup {t}
        BY <1>1, <3>3, <4>2
      <4> QED BY <3>2, <4>1, <4>2
    <3>5. Cardinality(Creating') \in Nat
      BY <3>4, FS_CardinalityType
    <3> QED BY <1>1, <3>1, <3>4, <3>5 DEF FewEvents
  <2>3. ASSUME t \in Creating, t \notin Creating', calls' = calls, Len(list') <= Len(list) + 1,
               Len(list') \in Nat
        PROVE  FewEvents'
    <3>1. Creating' = Creating \ {t}
      BY <2>1, <2>3 DEF Creating
    <3>2. /\ IsFiniteSet(Creating \ {t})
          /\ Cardinality(Creating \ {t}) = Cardinality(Creating) - 1
      BY <1>1, <2>3, FS_RemoveElement
    <3> QED BY <1>1, <2>3, <3>1, <3>2 DEF FewEvents
  <2>4. ASSUME calls' = calls, Len(list') = Len(list), t \in Creating' => t \in Creating
        PROVE  FewEvents'
    <3>1. CASE t \in Creating /\ t \notin Creating'
      BY <1>1, <2>3, <2>4, <3>1
    <3>2. CASE t \in Creating <=> t \in Creating'
      <4>1. Creating' = Creating
        BY <2>1, <3>2 DEF Creating
      <4> QED BY <1>1, <2>4, <4>1 DEF FewEvents
    <3> QED BY <2>4, <3>1, <3>2
  <2>5. CASE CreateAppend(t)
    <3>1. pc[t] = "createAppend" /\ calls' = calls /\ pc'[t] = "done"
      BY <2>5, Domains DEF CreateAppend, Finish, Goto, BatchInv
    <3>2. t \in Creating /\ t \notin Creating'
      BY <3>1 DEF Creating, CreateLabels
    <3>3. list' = list \/ list' = Append(list, NewEvent(Request(t)))
      BY <2>5 DEF CreateAppend
    <3>4. Len(list') <= Len(list) + 1 /\ Len(list') \in Nat
      <4>1. NewEvent(Request(t)) \in AnyEvent
        BY <3>1, NewEventType DEF BatchInv, ThreadInv, RequestMatches, CreateLabels
      <4> QED BY <1>1, <3>3, <4>1
    <3> QED BY <2>3, <3>1, <3>2, <3>4
  <2>6. CASE CreateFind(t)
    <3>1. calls' = calls /\ list' = list /\ t \in Creating
      BY <2>6 DEF CreateFind, Creating, CreateLabels
    <3> QED BY <2>4, <3>1
  <2>7. CASE Step(t) /\ ~ Create(t)
    <3>1. calls' = calls
      BY <2>7 DEF Step, Reserve, Show, List, ReserveFind, ShowFind, Find, ReserveMutex,
         ReserveNumber, ReserveTest, ReserveMark, ReserveUnlock, Rollback, RollbackSeat,
         RollbackUnlock, ShowOutput, ShowSeat, ShowWrite, ListFirst, ListOutput, ListNode,
         ListWrite, Return
    <3>2. t \notin Creating'
      <4>1. pc \in [Workers -> Labels]
        BY Domains DEF BatchInv
      <4>2. CASE Reserve(t)
        BY <4>1, <4>2 DEF Reserve, ReserveFind, Find, ReserveMutex, ReserveNumber, ReserveTest,
           ReserveMark, ReserveUnlock, Rollback, RollbackSeat, RollbackUnlock, Finish, Goto,
           Creating, CreateLabels
      <4>3. CASE Show(t) \/ List(t)
        BY <4>1, <4>3 DEF Show, List, ShowFind, Find, ShowOutput, ShowSeat, ShowWrite, ListFirst,
           ListOutput, ListNode, ListWrite, Finish, Goto, Creating, CreateLabels
      <4>4. CASE Return(t)
        BY <4>1, <4>4 DEF Return, Goto, Creating, CreateLabels
      <4> QED BY <2>7, <4>2, <4>3, <4>4 DEF Step
    <3>3. Len(list') = Len(list)
      BY <2>7, LengthKept DEF Step
    <3> QED BY <2>4, <3>1, <3>2, <3>3
  <2> QED BY <1>3, <2>2, <2>5, <2>6, <2>7 DEF Create, Step
<1> QED BY <1>2, <1>3 DEF Next

(* It does so whenever the buffer has a line for every call: no hypothesis *)
(* on the behaviour is left.                                               *)
THEOREM FewCallsLinearizable ==
  ASSUME MaxCalls <= BufferLines
  PROVE  Spec => ImplementsEventStore
<1>1. Init => FewEvents
  BY InitFewEvents
<1>2. BatchInv /\ BatchInv' /\ FewEvents /\ [Next]_vars => FewEvents'
  BY NextFewEvents
<1>3. BatchInv /\ FewEvents => EventsFit
  <2> SUFFICES ASSUME BatchInv, FewEvents
               PROVE  EventsFit
    OBVIOUS
  <2>1. Len(list) \in Nat /\ calls \in 0 .. MaxCalls /\ Cardinality(Creating) \in Nat
    BY ListIsSeq, FS_CardinalityType DEF BatchInv, TypeOK, FewEvents
  <2> QED BY <2>1 DEF FewEvents, EventsFit
<1> QED BY <1>1, <1>2, <1>3, BatchInvariant, Linearizable, PTL DEF Spec
=============================================================================
