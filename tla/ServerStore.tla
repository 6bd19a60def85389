---------------------------- MODULE ServerStore ----------------------------
(***************************************************************************)
(* The event store of the server (server/operations.c over                 *)
(* server/eventlist.c) as the worker threads and the main thread run it:   *)
(* the list of events under a read-write lock, each event under a mutex of *)
(* its own, one step per lock operation, and per seat where a call reads   *)
(* or writes seats one by one.                                             *)
(*                                                                         *)
(* A worker is given any sequence of calls (at most MaxCalls in all); the  *)
(* main thread runs ems_program_status at any time (at most MaxStatus      *)
(* times), as SIGUSR1 makes it do.  ems_init has succeeded.                *)
(***************************************************************************)
EXTENDS StoreInterface

CONSTANTS Workers, Main,               \* the worker threads, the main thread
          NoOne,                       \* the holder of a free lock
          MaxCalls, MaxStatus          \* bounds on calls and on status reports

ASSUME ServerStoreAssumption ==
  /\ Main \notin Workers
  /\ NoOne \notin Workers \cup {Main}
  /\ MaxCalls \in Nat /\ MaxStatus \in Nat

Threads == Workers \cup {Main}

VARIABLES
  list,            \* event_list: the events in list order, each with its mutex
  writer, readers, \* event_list->rwl: the writing thread, each reader's holds
  pc, call, reply, \* where a thread is, the request it serves, the answer
  ev, rid,         \* its struct Event* (as a list position), reservation_id
  cur, buf,        \* its loop counter, the data it copied for the answer
  calls, reports   \* how many calls and status reports have been started

lockVars  == <<writer, readers>>
localVars == <<ev, rid, cur, buf>>
boundVars == <<calls, reports>>
vars == <<list, lockVars, pc, call, reply, localVars, boundVars>>

-----------------------------------------------------------------------------
(* pthread_rwlock_t of the default kind: a reader is let in whenever no    *)
(* writer holds the lock, even a reader that holds it already.             *)
RdLock(t) == /\ writer = NoOne
             /\ readers' = [readers EXCEPT ![t] = @ + 1]
             /\ UNCHANGED writer
RdUnlock(t) == /\ readers' = [readers EXCEPT ![t] = @ - 1]
               /\ UNCHANGED writer
WrLock(t) == /\ writer = NoOne
             /\ \A u \in Threads : readers[u] = 0
             /\ writer' = t
             /\ UNCHANGED readers
WrUnlock(t) == writer' = NoOne /\ UNCHANGED readers

(* pthread_mutex_t of event number i.                                      *)
MutexLock(i, t) == /\ list[i].mutex = NoOne
                   /\ list' = [list EXCEPT ![i].mutex = t]
MutexUnlock(i) == list' = [list EXCEPT ![i].mutex = NoOne]

(* get_event: the walk stops at the first node with the id; None at the    *)
(* tail.                                                                   *)
FirstWithId(i, id) == /\ i \in DOMAIN list
                      /\ list[i].id = id
                      /\ \A j \in 1 .. (i - 1) : list[j].id # id
(* Faulty variant: the walk never compares the tail.                       *)
SkipsTheTail(id) == \A i \in 1 .. (Len(list) - 1) : list[i].id # id
NoneWithId(id) == \A i \in DOMAIN list : list[i].id # id

(* The struct Event that ems_create fills in, all seats free.              *)
NewEvent(c) ==
  LET dims == [rows |-> c.dims[1], cols |-> c.dims[2]]
  IN [id |-> c.id, reservations |-> 0, rows |-> dims.rows, cols |-> dims.cols,
      data |-> [p \in Places(dims) |-> 0], mutex |-> NoOne]

Goto(t, label) == pc' = [pc EXCEPT ![t] = label]
Finish(t, r) == Goto(t, "done") /\ reply' = [reply EXCEPT ![t] = r]

-----------------------------------------------------------------------------
Init ==
  /\ list = <<>>
  /\ writer = NoOne /\ readers = [t \in Threads |-> 0]
  /\ pc = [t \in Threads |-> "idle"]
  /\ call = [w \in Workers |-> NoCall]
  /\ reply = [w \in Workers |-> NoReply]
  /\ ev = [t \in Threads |-> 0]
  /\ rid = [w \in Workers |-> 0]
  /\ cur = [t \in Threads |-> 0]
  /\ buf = [w \in Workers |-> <<>>]
  /\ calls = 0 /\ reports = 0

(* The worker has read a request and enters the case of its command.       *)
FirstStep == [create |-> "createLock", reserve |-> "reserveLock",
              show |-> "showLock", list |-> "listLock"]

Invoke(w, c) ==
  /\ pc[w] = "idle" /\ calls < MaxCalls
  /\ calls' = calls + 1
  /\ call' = [call EXCEPT ![w] = c]
  /\ Goto(w, FirstStep[c.op])
  /\ UNCHANGED <<list, lockVars, reply, localVars, reports>>

(* The worker writes the answer to the response pipe and reads on.         *)
Return(w) ==
  /\ pc[w] = "done"
  /\ Goto(w, "idle")
  /\ call' = [call EXCEPT ![w] = NoCall]
  /\ reply' = [reply EXCEPT ![w] = NoReply]
  /\ ev' = [ev EXCEPT ![w] = 0]
  /\ rid' = [rid EXCEPT ![w] = 0]
  /\ cur' = [cur EXCEPT ![w] = 0]
  /\ buf' = [buf EXCEPT ![w] = <<>>]
  /\ UNCHANGED <<list, lockVars, boundVars>>

-----------------------------------------------------------------------------
(* ems_create: everything under the write lock of the list.                *)
CreateLock(w) ==
  /\ pc[w] = "createLock"
  /\ WrLock(w)
  /\ Goto(w, "createFind")
  /\ UNCHANGED <<list, call, reply, localVars, boundVars>>

CreateFind(w) ==
  /\ pc[w] = "createFind"
  /\ \/ /\ NoneWithId(call[w].id)
        /\ Goto(w, "createAppend")
        /\ UNCHANGED <<lockVars, reply>>
     \/ /\ ~ NoneWithId(call[w].id)
        /\ WrUnlock(w)
        /\ Finish(w, Failed)
  /\ UNCHANGED <<list, call, localVars, boundVars>>

(* Either an allocation fails, or the new event is linked at the tail.     *)
CreateAppend(w) ==
  /\ pc[w] = "createAppend"
  /\ \/ /\ Finish(w, Failed)
        /\ UNCHANGED list
     \/ /\ list' = Append(list, NewEvent(call[w]))
        /\ Finish(w, Done)
  /\ WrUnlock(w)
  /\ UNCHANGED <<call, localVars, boundVars>>

-----------------------------------------------------------------------------
(* Shared by the calls that look an event up: rdlock, get_event, unlock,   *)
(* then the error return or the step that locks the event.                 *)
FindUnderRdLock(t, id, found, missing) ==
  /\ \/ \E i \in DOMAIN list :
          /\ FirstWithId(i, id)
          /\ ev' = [ev EXCEPT ![t] = i]
          /\ found
     \/ /\ NoneWithId(id)
        /\ missing
        /\ UNCHANGED ev
  /\ RdUnlock(t)
  /\ UNCHANGED list

(* ems_reserve *)
ReserveLock(w) ==
  /\ pc[w] = "reserveLock"
  /\ RdLock(w)
  /\ Goto(w, "reserveFind")
  /\ UNCHANGED <<list, call, reply, localVars, boundVars>>

ReserveFind(w) ==
  /\ pc[w] = "reserveFind"
  /\ FindUnderRdLock(w, call[w].id, Goto(w, "reserveMutex") /\ UNCHANGED reply,
                     Finish(w, Failed))
  /\ UNCHANGED <<call, rid, cur, buf, boundVars>>

ReserveMutex(w) ==
  /\ pc[w] = "reserveMutex"
  /\ MutexLock(ev[w], w)
  /\ Goto(w, "reserveCheck")
  /\ UNCHANGED <<lockVars, call, reply, localVars, boundVars>>

(* Faulty variant of the next definition: its loop ends one seat early.    *)
SkipsTheLastSeat(e, seats) ==
  \E k \in 1 .. (Len(seats) - 1) : e.data[SeatIndex(e, seats[k][1], seats[k][2])] # 0

(* A seat of the request whose place in the array is taken.                *)
SomeSeatTaken(e, seats) ==
  \E k \in DOMAIN seats : e.data[SeatIndex(e, seats[k][1], seats[k][2])] # 0

(* Faulty variants of the next action: the counter is bumped before the    *)
(* checks; the error return leaves the event locked.                       *)
BumpsBeforeChecking(w) ==
  /\ pc[w] = "reserveCheck"
  /\ LET e == list[ev[w]]
     IN IF RequestInBounds(e, call[w].seats) /\ ~ SomeSeatTaken(e, call[w].seats)
        THEN Goto(w, "reserveNumber") /\ UNCHANGED <<list, reply>>
        ELSE /\ list' = [list EXCEPT ![ev[w]].mutex = NoOne,
                                     ![ev[w]].reservations = @ + 1]
             /\ Finish(w, Failed)
  /\ UNCHANGED <<lockVars, call, localVars, boundVars>>
FailsHoldingTheEvent(w) ==
  /\ pc[w] = "reserveCheck"
  /\ LET e == list[ev[w]]
     IN IF RequestInBounds(e, call[w].seats) /\ ~ SomeSeatTaken(e, call[w].seats)
        THEN Goto(w, "reserveNumber") /\ UNCHANGED reply
        ELSE Finish(w, Failed)
  /\ UNCHANGED <<list, lockVars, call, localVars, boundVars>>

(* Both validating loops: a bad or a taken seat returns 1.                 *)
ReserveCheck(w) ==
  LET e == list[ev[w]]
      seats == call[w].seats
      valid == RequestInBounds(e, seats) /\ ~ SomeSeatTaken(e, seats)
  IN /\ pc[w] = "reserveCheck"
     /\ \/ /\ valid
           /\ Goto(w, "reserveNumber")
           /\ UNCHANGED <<list, reply>>
        \/ /\ ~ valid
           /\ MutexUnlock(ev[w])
           /\ Finish(w, Failed)
     /\ UNCHANGED <<lockVars, call, localVars, boundVars>>

(* reservation_id = ++event->reservations *)
ReserveNumber(w) ==
  /\ pc[w] = "reserveNumber"
  /\ list' = [list EXCEPT ![ev[w]].reservations = @ + 1]
  /\ rid' = [rid EXCEPT ![w] = list[ev[w]].reservations + 1]
  /\ cur' = [cur EXCEPT ![w] = 1]
  /\ Goto(w, "reserveMark")
  /\ UNCHANGED <<lockVars, call, reply, ev, buf, boundVars>>

(* One turn of the marking loop.                                           *)
ReserveMark(w) ==
  LET e == list[ev[w]]
      seat == call[w].seats[cur[w]]
  IN /\ pc[w] = "reserveMark" /\ cur[w] <= Len(call[w].seats)
     /\ list' = [list EXCEPT
                   ![ev[w]].data[SeatIndex(e, seat[1], seat[2])] = rid[w]]
     /\ cur' = [cur EXCEPT ![w] = @ + 1]
     /\ UNCHANGED <<lockVars, pc, call, reply, ev, rid, buf, boundVars>>

ReserveUnlock(w) ==
  /\ pc[w] = "reserveMark" /\ cur[w] > Len(call[w].seats)
  /\ MutexUnlock(ev[w])
  /\ Finish(w, Done)
  /\ UNCHANGED <<lockVars, call, localVars, boundVars>>

-----------------------------------------------------------------------------
(* ems_show *)
ShowLock(w) ==
  /\ pc[w] = "showLock"
  /\ RdLock(w)
  /\ Goto(w, "showFind")
  /\ UNCHANGED <<list, call, reply, localVars, boundVars>>

ShowFind(w) ==
  /\ pc[w] = "showFind"
  /\ FindUnderRdLock(w, call[w].id, Goto(w, "showMutex") /\ UNCHANGED reply,
                     Finish(w, Failed))
  /\ UNCHANGED <<call, rid, cur, buf, boundVars>>

(* Faulty variant: the event is read without its mutex.                    *)
ShowsUnlocked(w) ==
  /\ pc[w] = "showMutex"
  /\ cur' = [cur EXCEPT ![w] = 1]
  /\ Goto(w, "showCopy")
  /\ UNCHANGED <<list, lockVars, call, reply, ev, rid, buf, boundVars>>

ShowMutex(w) ==
  /\ pc[w] = "showMutex"
  /\ MutexLock(ev[w], w)
  /\ cur' = [cur EXCEPT ![w] = 1]
  /\ Goto(w, "showCopy")
  /\ UNCHANGED <<lockVars, call, reply, ev, rid, buf, boundVars>>

(* One turn of the copying loops: seat (i, j) in row-major order.          *)
ShowCopy(w) ==
  LET e == list[ev[w]]
      seat == RowMajor(e, cur[w])
  IN /\ pc[w] = "showCopy" /\ cur[w] <= e.rows * e.cols
     /\ buf' = [buf EXCEPT ![w] = Append(@, e.data[SeatIndex(e, seat[1], seat[2])])]
     /\ cur' = [cur EXCEPT ![w] = @ + 1]
     /\ UNCHANGED <<list, lockVars, pc, call, reply, ev, rid, boundVars>>

ShowUnlock(w) ==
  LET e == list[ev[w]]
  IN /\ pc[w] = "showCopy" /\ cur[w] > e.rows * e.cols
     /\ MutexUnlock(ev[w])
     /\ Finish(w, Reply(0, <<e.rows, e.cols>>, buf[w]))
     /\ UNCHANGED <<lockVars, call, localVars, boundVars>>

-----------------------------------------------------------------------------
(* ems_list_events: one walk counts the events, a second copies their ids. *)
ListLock(w) ==
  /\ pc[w] = "listLock"
  /\ RdLock(w)
  /\ Goto(w, "listCount")
  /\ UNCHANGED <<list, call, reply, localVars, boundVars>>

(* Faulty variant: the lock is dropped between the two walks.              *)
CountsAndUnlocks(w) ==
  /\ pc[w] = "listCount"
  /\ RdUnlock(w)
  /\ \/ list = <<>> /\ Finish(w, Failed) /\ UNCHANGED cur
     \/ /\ list # <<>>
        /\ cur' = [cur EXCEPT ![w] = Len(list)]
        /\ Goto(w, "listCopy")
        /\ UNCHANGED reply
  /\ UNCHANGED <<list, call, ev, rid, buf, boundVars>>

ListCount(w) ==
  /\ pc[w] = "listCount"
  /\ \/ /\ list = <<>>
        /\ RdUnlock(w)
        /\ Finish(w, Failed)
        /\ UNCHANGED cur
     \/ /\ list # <<>>
        /\ cur' = [cur EXCEPT ![w] = Len(list)]
        /\ Goto(w, "listCopy")
        /\ UNCHANGED <<lockVars, reply>>
  /\ UNCHANGED <<list, call, ev, rid, buf, boundVars>>

ListCopy(w) ==
  /\ pc[w] = "listCopy"
  /\ buf' = [buf EXCEPT ![w] = IdsOf(list)]
  /\ Goto(w, "listSend")
  /\ UNCHANGED <<list, lockVars, call, reply, ev, rid, cur, boundVars>>

ListSend(w) ==
  /\ pc[w] = "listSend"
  /\ RdUnlock(w)
  /\ Finish(w, Reply(0, <<cur[w], 1>>, buf[w]))
  /\ UNCHANGED <<list, call, localVars, boundVars>>

-----------------------------------------------------------------------------
(* ems_program_status, on the main thread: the read lock of the list is    *)
(* taken, and every event is shown by ems_signal_show.  Only the error     *)
(* return releases the lock.                                               *)
StatusLock ==
  /\ pc[Main] = "idle" /\ reports < MaxStatus
  /\ reports' = reports + 1
  /\ RdLock(Main)
  /\ Goto(Main, "statusWalk")
  /\ UNCHANGED <<list, call, reply, localVars, calls>>

StatusWalk ==
  /\ pc[Main] = "statusWalk"
  /\ \/ /\ list = <<>>
        /\ RdUnlock(Main)
        /\ Goto(Main, "idle")
        /\ UNCHANGED cur
     \/ /\ list # <<>>
        /\ cur' = [cur EXCEPT ![Main] = 1]
        /\ Goto(Main, "signalLock")
        /\ UNCHANGED lockVars
  /\ UNCHANGED <<list, call, reply, ev, rid, buf, boundVars>>

(* ems_signal_show takes the read lock a second time.                      *)
SignalLock ==
  /\ pc[Main] = "signalLock"
  /\ RdLock(Main)
  /\ Goto(Main, "signalFind")
  /\ UNCHANGED <<list, call, reply, localVars, boundVars>>

SignalFind ==
  /\ pc[Main] = "signalFind"
  /\ FindUnderRdLock(Main, list[cur[Main]].id,
                     Goto(Main, "signalMutex"), Goto(Main, "statusNext"))
  /\ UNCHANGED <<call, reply, rid, cur, buf, boundVars>>

SignalMutex ==
  /\ pc[Main] = "signalMutex"
  /\ MutexLock(ev[Main], Main)
  /\ Goto(Main, "signalPrint")
  /\ UNCHANGED <<lockVars, call, reply, localVars, boundVars>>

(* Faulty variant: a print error returns with the event locked.            *)
PrintKeepsTheEvent ==
  /\ pc[Main] = "signalPrint"
  /\ Goto(Main, "statusNext")
  /\ UNCHANGED <<list, lockVars, call, reply, localVars, boundVars>>

SignalPrint ==
  /\ pc[Main] = "signalPrint"
  /\ MutexUnlock(ev[Main])
  /\ Goto(Main, "statusNext")
  /\ UNCHANGED <<lockVars, call, reply, localVars, boundVars>>

StatusNext ==
  /\ pc[Main] = "statusNext"
  /\ \/ /\ cur[Main] < Len(list)
        /\ cur' = [cur EXCEPT ![Main] = @ + 1]
        /\ Goto(Main, "signalLock")
        /\ UNCHANGED ev
     \/ /\ cur[Main] = Len(list)
        /\ cur' = [cur EXCEPT ![Main] = 0]
        /\ ev' = [ev EXCEPT ![Main] = 0]
        /\ Goto(Main, "idle")
  /\ UNCHANGED <<list, lockVars, call, reply, rid, buf, boundVars>>

-----------------------------------------------------------------------------
Create(w)  == CreateLock(w) \/ CreateFind(w) \/ CreateAppend(w)
Reserve(w) == \/ ReserveLock(w) \/ ReserveFind(w) \/ ReserveMutex(w)
              \/ ReserveCheck(w) \/ ReserveNumber(w) \/ ReserveMark(w)
              \/ ReserveUnlock(w)
Show(w)    == \/ ShowLock(w) \/ ShowFind(w) \/ ShowMutex(w)
              \/ ShowCopy(w) \/ ShowUnlock(w)
List(w)    == ListLock(w) \/ ListCount(w) \/ ListCopy(w) \/ ListSend(w)
Serve(w)   == Create(w) \/ Reserve(w) \/ Show(w) \/ List(w) \/ Return(w)
ReportRest == \/ StatusWalk \/ SignalLock \/ SignalFind \/ SignalMutex
              \/ SignalPrint \/ StatusNext

Next == \/ \E w \in Workers : (\E c \in Calls : Invoke(w, c)) \/ Serve(w)
        \/ StatusLock \/ ReportRest

Spec == Init /\ [][Next]_vars

(* Every thread that can take its next step eventually does; new calls and *)
(* new status reports need not come.                                       *)
Fairness == (\A w \in Workers : WF_vars(Serve(w))) /\ WF_vars(ReportRest)
FairSpec == Spec /\ Fairness

-----------------------------------------------------------------------------
Event(d) == [id : EventIds, reservations : Nat, rows : {d[1]}, cols : {d[2]},
             data : [Places([rows |-> d[1], cols |-> d[2]]) -> Nat],
             mutex : Threads \cup {NoOne}]
Labels == {"idle", "done", "createLock", "createFind", "createAppend",
           "reserveLock", "reserveFind", "reserveMutex", "reserveCheck",
           "reserveNumber", "reserveMark", "showLock", "showFind", "showMutex",
           "showCopy", "listLock", "listCount", "listCopy", "listSend",
           "statusWalk", "signalLock", "signalFind", "signalMutex",
           "signalPrint", "statusNext"}

ListTypeOK ==
  /\ list \in Seq({list[i] : i \in DOMAIN list})
  /\ \A i \in DOMAIN list : \E d \in Dims : list[i] \in Event(d)

(* Type invariant of the store and of its threads.                         *)
TypeOK ==
  /\ ListTypeOK
  /\ writer \in Workers \cup {NoOne}
  /\ readers \in [Threads -> Nat]
  /\ pc \in [Threads -> Labels]
  /\ call \in [Workers -> Calls \cup {NoCall}]
  /\ reply \in [Workers -> Replies]
  /\ ev \in [Threads -> Nat] /\ rid \in [Workers -> Nat]
  /\ cur \in [Threads -> Nat] /\ buf \in [Workers -> Seq(Nat)]
  /\ calls \in 0 .. MaxCalls /\ reports \in 0 .. MaxStatus

(* The labels of each call, and those at which a thread uses an event, has *)
(* it locked, or has the list locked.                                      *)
CreateLabels  == {"createLock", "createFind", "createAppend"}
ReserveLabels == {"reserveLock", "reserveFind", "reserveMutex", "reserveCheck",
                  "reserveNumber", "reserveMark"}
ShowLabels    == {"showLock", "showFind", "showMutex", "showCopy"}
ListLabels    == {"listLock", "listCount", "listCopy", "listSend"}
StatusLabels  == {"idle", "statusWalk", "signalLock", "signalFind",
                  "signalMutex", "signalPrint", "statusNext"}
EventLocked == {"reserveCheck", "reserveNumber", "reserveMark", "showCopy",
                "signalPrint"}
EventUsed   == EventLocked \cup {"reserveMutex", "showMutex", "signalMutex"}
ListRead    == {"reserveFind", "showFind", "listCount", "listCopy", "listSend",
                "statusWalk", "signalFind"}
ListWritten == {"createFind", "createAppend"}

RequestMatches(t) ==
  IF t = Main THEN pc[t] \in StatusLabels
  ELSE \/ pc[t] \in {"idle", "done"}
       \/ pc[t] \in CreateLabels /\ call[t] \in CreateCalls
       \/ pc[t] \in ReserveLabels /\ call[t] \in ReserveCalls
       \/ pc[t] \in ShowLabels /\ call[t] \in ShowCalls
       \/ pc[t] \in ListLabels /\ call[t] \in ListCalls
ListLockMatches(t) ==
  /\ pc[t] \in ListRead => readers[t] > 0
  /\ writer = t <=> pc[t] \in ListWritten
  /\ writer # NoOne => readers[t] = 0
EventLockMatches(t) ==
  /\ pc[t] \in EventUsed => ev[t] \in DOMAIN list
  /\ \A i \in DOMAIN list :
       list[i].mutex = t <=> pc[t] \in EventLocked /\ ev[t] = i
FreshId(t) == pc[t] = "createAppend" => NoneWithId(call[t].id)
SeatsFree(t) ==
  LET e == list[ev[t]]
      seats == call[t].seats
      at(k) == e.data[SeatIndex(e, seats[k][1], seats[k][2])]
  IN /\ pc[t] \in {"reserveNumber", "reserveMark"} => RequestInBounds(e, seats)
     /\ pc[t] = "reserveNumber" => \A k \in DOMAIN seats : at(k) = 0
     /\ pc[t] = "reserveMark" =>
          cur[t] > 0 /\ \A k \in DOMAIN seats : at(k) \in {0, rid[t]}
CopyInPlan(t) == pc[t] = "showCopy" => cur[t] > 0

ThreadInv(t) ==
  /\ RequestMatches(t) /\ ListLockMatches(t) /\ EventLockMatches(t)
  /\ FreshId(t) /\ SeatsFree(t) /\ CopyInPlan(t)

(* No two events of the list carry the same id: CREATE looks the id up and *)
(* links the event under one hold of the write lock.                       *)
UniqueEventIds ==
  \A i, j \in DOMAIN list : list[i].id = list[j].id => i = j

(* The locks are held exactly where the code holds them, a call that       *)
(* writes seats found them free or wrote them itself, and an id that was   *)
(* looked up under the write lock stays absent until the event is linked.  *)
StoreInv == TypeOK /\ UniqueEventIds /\ \A t \in Threads : ThreadInv(t)

(* While nobody holds an event, its seats carry exactly the ids 1 to       *)
(* reservations: every reservation that was given an id holds a seat, and  *)
(* no seat carries an id that was never given (ems_reserve bumps the       *)
(* counter only after both checks).                                        *)
ReservationsHoldSeats ==
  \A i \in DOMAIN list :
    list[i].mutex = NoOne =>
      {list[i].data[p] : p \in Places(list[i])} \ {0} = 1 .. list[i].reservations

(* The events keep their places in the list, and the taken seats their     *)
(* owners.                                                                 *)
SeatsKept ==
  \A i \in DOMAIN list :
    /\ i \in DOMAIN list'
    /\ list'[i].id = list[i].id
    /\ \A p \in Places(list[i]) :
         list[i].data[p] # 0 => list'[i].data[p] = list[i].data[p]

(* A reserved seat is never freed nor given to another reservation, and an *)
(* event never moves in the list: the struct Event* a call keeps across    *)
(* the unlock of the list stays good.                                      *)
ReservedForever == [][SeatsKept]_vars

(* The store as its callers see it: a reservation being marked owns all    *)
(* its seats already, and its answer is settled.                           *)
Marking(w) == pc[w] = "reserveMark"
Owner(e, s) ==
  LET p == SeatIndex(e, s[1], s[2])
      toMark(w) == {k \in cur[w] .. Len(call[w].seats) :
                      SeatIndex(e, call[w].seats[k][1], call[w].seats[k][2]) = p}
  IN IF e.mutex \in Workers
     THEN IF Marking(e.mutex) /\ toMark(e.mutex) # {} THEN rid[e.mutex] ELSE e.data[p]
     ELSE e.data[p]
AbsCatalog ==
  [i \in DOMAIN list |->
     LET e == list[i]
     IN [id |-> e.id, rows |-> e.rows, cols |-> e.cols,
         reservations |-> e.reservations,
         owner |-> [s \in Coords(e) |-> Owner(e, s)]]]
AbsOutcome == [w \in Workers |-> IF Marking(w) THEN Done ELSE reply[w]]

Abs == INSTANCE EventStore
         WITH catalog <- AbsCatalog, pending <- call, outcome <- AbsOutcome,
              Repeats <- TRUE

(* Every call takes effect at one instant, as EventStore says: locks and   *)
(* loops are invisible to the clients (linearizability).                   *)
ImplementsEventStore == Abs!Spec

(* Every call is answered, unless a status report was asked for.           *)
Answered(w, ops) == (call[w].op \in ops) ~> (pc[w] = "done")
AllAnswered ==
  \A w \in Workers : (pc[w] # "idle") ~> (pc[w] = "done" \/ reports > 0)

(* Status reports never hold up a call that only reads the list, although  *)
(* the main thread locks it twice and keeps it locked.                     *)
ReadersAnswered == \A w \in Workers : Answered(w, {"reserve", "show", "list"})

(* ems_create returns 0 or 1 (server/operations.h:15-20), whatever the     *)
(* main thread does.                                                       *)
CreateAnswered == \A w \in Workers : Answered(w, {"create"})
=============================================================================
