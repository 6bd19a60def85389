----------------------------- MODULE BatchStore -----------------------------
(***************************************************************************)
(* The event store of the batch program with threads                       *)
(* (Exercicio3/p1_base/operations.c) as the threads of one job file call   *)
(* it, at most MaxCalls times in all.                                      *)
(*                                                                         *)
(* Lock, the read-write lock of all the data, is never held across a       *)
(* blocking call, and every two accesses that conflict are in sections     *)
(* that exclude each other or are the only access of their section: a      *)
(* section is one step, and Lock needs no variable.  (The one race left,   *)
(* a rollback's write of a seat that SHOW reads, is of one aligned word.)  *)
(* eventMutex and outputLock are held over many sections; SHOW takes no    *)
(* eventMutex.  Reservation ids stay below 10000: SHOW has four characters *)
(* for each, and room for all of them, as ids 1 to 999 hold a seat each    *)
(* before there is a longer one.                                           *)
(***************************************************************************)
EXTENDS StoreInterface

CONSTANTS Workers,         \* the threads
          NoOne,           \* the holder of a free lock
          MaxCalls,        \* bound on the calls
          Ops,             \* the commands the job file has
          BufferLines      \* lines that fit the buffer of ems_list_events

ASSUME BatchStoreAssumption ==
  /\ NoOne \notin Workers
  /\ MaxCalls \in Nat
  /\ Ops \subseteq {"create", "reserve", "show", "list"}
  /\ BufferLines \in Nat \ {0}

VARIABLES
  list,              \* event_list, in list order; mutex: eventMutex
  outputLock,        \* its holder
  output,            \* the writes to the output file: which call, what data
  pc, call, reply,   \* where a thread is, its command, what the call returned
  ev, rid, cur, stop, buf, \* event (as a list position), reservation_id, the
                     \* loop's counter and its end, buffer
  calls              \* how many calls have been made

localVars == <<ev, rid, cur, stop, buf>>
vars == <<list, outputLock, output, pc, call, reply, localVars, calls>>

-----------------------------------------------------------------------------
(* get_event: the first node with the id, if any.                          *)
FirstWithId(i, id) == /\ i \in DOMAIN list
                      /\ list[i].id = id
                      /\ \A j \in 1 .. (i - 1) : list[j].id # id
NoneWithId(id) == \A i \in DOMAIN list : list[i].id # id

(* The event that ems_create fills in before it is linked.                 *)
NewEvent(c) ==
  LET dims == [rows |-> c.dims[1], cols |-> c.dims[2]]
  IN [id |-> c.id, reservations |-> 0, rows |-> dims.rows, cols |-> dims.cols,
      data |-> [p \in Places(dims) |-> 0], mutex |-> NoOne]

Goto(t, label) == pc' = [pc EXCEPT ![t] = label]
Finish(t, r) == Goto(t, "done") /\ reply' = [reply EXCEPT ![t] = r]

(* pthread_mutex_lock and unlock of an eventMutex.                         *)
MutexLock(i, t) == /\ list[i].mutex = NoOne
                   /\ list' = [list EXCEPT ![i].mutex = t]
MutexUnlock(i) == list' = [list EXCEPT ![i].mutex = NoOne]

(* One write to the output file, for the call of thread t.                 *)
Write(t, data) == output' = Append(output, [call |-> call[t].number, data |-> data])

-----------------------------------------------------------------------------
NoRequest == [number |-> 0, request |-> NoCall]
Request(t) == call[t].request

Init ==
  /\ list = <<>> /\ outputLock = NoOne /\ output = <<>>
  /\ pc = [t \in Workers |-> "idle"]
  /\ call = [t \in Workers |-> NoRequest]
  /\ reply = [t \in Workers |-> NoReply]
  /\ ev = [t \in Workers |-> 0] /\ rid = [t \in Workers |-> 0]
  /\ cur = [t \in Workers |-> 0] /\ stop = [t \in Workers |-> 0]
  /\ buf = [t \in Workers |-> <<>>]
  /\ calls = 0

(* processFile calls the function of the command it has parsed.            *)
FirstStep == [create |-> "createFind", reserve |-> "reserveFind",
              show |-> "showFind", list |-> "listFirst"]
Invoke(t, c) ==
  /\ pc[t] = "idle" /\ calls < MaxCalls /\ c.op \in Ops
  /\ calls' = calls + 1
  /\ call' = [call EXCEPT ![t] = [number |-> calls + 1, request |-> c]]
  /\ Goto(t, FirstStep[c.op])
  /\ UNCHANGED <<list, outputLock, output, reply, localVars>>

Return(t) ==
  /\ pc[t] = "done"
  /\ Goto(t, "idle")
  /\ call' = [call EXCEPT ![t] = NoRequest]
  /\ reply' = [reply EXCEPT ![t] = NoReply]
  /\ ev' = [ev EXCEPT ![t] = 0] /\ rid' = [rid EXCEPT ![t] = 0]
  /\ cur' = [cur EXCEPT ![t] = 0] /\ stop' = [stop EXCEPT ![t] = 0]
  /\ buf' = [buf EXCEPT ![t] = <<>>]
  /\ UNCHANGED <<list, outputLock, output, calls>>

-----------------------------------------------------------------------------
(* ems_create: a lookup under the read lock, the allocation, and a second  *)
(* lookup under the write lock that links the event.                       *)
CreateFind(t) ==
  /\ pc[t] = "createFind"
  /\ \/ /\ NoneWithId(Request(t).id)
        /\ Goto(t, "createAppend")
        /\ UNCHANGED reply
     \/ ~ NoneWithId(Request(t).id) /\ Finish(t, Failed)
  /\ UNCHANGED <<list, outputLock, output, call, localVars, calls>>

(* Faulty variant: the first lookup is taken to be enough.                 *)
AppendsUnchecked(t) ==
  /\ pc[t] = "createAppend"
  /\ list' = Append(list, NewEvent(Request(t)))
  /\ Finish(t, Done)
  /\ UNCHANGED <<outputLock, output, call, localVars, calls>>

(* An allocation may also have failed.                                     *)
CreateAppend(t) ==
  /\ pc[t] = "createAppend"
  /\ \/ /\ NoneWithId(Request(t).id)
        /\ list' = Append(list, NewEvent(Request(t)))
        /\ Finish(t, Done)
     \/ Finish(t, Failed) /\ UNCHANGED list
  /\ UNCHANGED <<outputLock, output, call, localVars, calls>>

-----------------------------------------------------------------------------
(* The lookup of ems_reserve and ems_show.                                 *)
Find(t, next) ==
  /\ \/ \E i \in DOMAIN list :
          /\ FirstWithId(i, Request(t).id)
          /\ ev' = [ev EXCEPT ![t] = i]
          /\ Goto(t, next)
          /\ UNCHANGED reply
     \/ /\ NoneWithId(Request(t).id)
        /\ Finish(t, Failed)
        /\ UNCHANGED ev
  /\ UNCHANGED <<list, outputLock, output, call, rid, cur, stop, buf, calls>>

ReserveFind(t) == pc[t] = "reserveFind" /\ Find(t, "reserveMutex")

ReserveMutex(t) ==
  /\ pc[t] = "reserveMutex"
  /\ MutexLock(ev[t], t)
  /\ Goto(t, "reserveNumber")
  /\ UNCHANGED <<outputLock, output, call, reply, localVars, calls>>

(* Faulty variant of ReserveNumber: the number is used and not counted.    *)
DoesNotCount(t) ==
  /\ pc[t] = "reserveNumber"
  /\ rid' = [rid EXCEPT ![t] = list[ev[t]].reservations + 1]
  /\ cur' = [cur EXCEPT ![t] = 1]
  /\ Goto(t, "reserveSeat")
  /\ UNCHANGED <<list, outputLock, output, call, reply, ev, stop, buf, calls>>

(* reservation_id = ++event->reservations                                  *)
ReserveNumber(t) ==
  /\ pc[t] = "reserveNumber"
  /\ list' = [list EXCEPT ![ev[t]].reservations = @ + 1]
  /\ rid' = [rid EXCEPT ![t] = list[ev[t]].reservations + 1]
  /\ cur' = [cur EXCEPT ![t] = 1]
  /\ Goto(t, "reserveSeat")
  /\ UNCHANGED <<outputLock, output, call, reply, ev, stop, buf, calls>>

(* The seat of the loop: inside the plan and free, or the loop is left.    *)
Seats(t) == Request(t).seats
PlaceOf(t, k) == SeatIndex(list[ev[t]], Seats(t)[k][1], Seats(t)[k][2])
SeatIsFree(t) ==
  LET e == list[ev[t]]
  IN /\ InBounds(e, Seats(t)[cur[t]][1], Seats(t)[cur[t]][2])
     /\ e.data[PlaceOf(t, cur[t])] = 0

ReserveTest(t) ==
  /\ pc[t] = "reserveSeat" /\ cur[t] <= Len(Seats(t))
  /\ Goto(t, IF SeatIsFree(t) THEN "reserveMark" ELSE "rollback")
  /\ UNCHANGED <<list, outputLock, output, call, reply, localVars, calls>>

ReserveMark(t) ==
  /\ pc[t] = "reserveMark"
  /\ list' = [list EXCEPT ![ev[t]].data[PlaceOf(t, cur[t])] = rid[t]]
  /\ cur' = [cur EXCEPT ![t] = @ + 1]
  /\ Goto(t, "reserveSeat")
  /\ UNCHANGED <<outputLock, output, call, reply, ev, rid, stop, buf, calls>>

ReserveUnlock(t) ==
  /\ pc[t] = "reserveSeat" /\ cur[t] > Len(Seats(t))
  /\ MutexUnlock(ev[t])
  /\ Finish(t, Done)
  /\ UNCHANGED <<outputLock, output, call, localVars, calls>>

(* Faulty variants of Rollback: the seat that failed is freed too; the     *)
(* number is not given back.                                               *)
FreesOneMore(t) ==
  /\ pc[t] = "rollback"
  /\ list' = [list EXCEPT ![ev[t]].reservations = @ - 1]
  /\ cur' = [cur EXCEPT ![t] = 1]
  /\ stop' = [stop EXCEPT ![t] = cur[t] + 1]
  /\ Goto(t, "rollbackSeat")
  /\ UNCHANGED <<outputLock, output, call, reply, ev, rid, buf, calls>>
KeepsTheNumber(t) ==
  /\ pc[t] = "rollback"
  /\ cur' = [cur EXCEPT ![t] = 1]
  /\ stop' = [stop EXCEPT ![t] = cur[t]]
  /\ Goto(t, "rollbackSeat")
  /\ UNCHANGED <<list, outputLock, output, call, reply, ev, rid, buf, calls>>

(* A failed reservation gives its number back, without Lock, and frees the *)
(* seats before the one that failed (the code's i, here stop).             *)
Rollback(t) ==
  /\ pc[t] = "rollback"
  /\ list' = [list EXCEPT ![ev[t]].reservations = @ - 1]
  /\ cur' = [cur EXCEPT ![t] = 1]
  /\ stop' = [stop EXCEPT ![t] = cur[t]]
  /\ Goto(t, "rollbackSeat")
  /\ UNCHANGED <<outputLock, output, call, reply, ev, rid, buf, calls>>

RollbackSeat(t) ==
  /\ pc[t] = "rollbackSeat" /\ cur[t] < stop[t]
  /\ list' = [list EXCEPT ![ev[t]].data[PlaceOf(t, cur[t])] = 0]
  /\ cur' = [cur EXCEPT ![t] = @ + 1]
  /\ UNCHANGED <<outputLock, output, pc, call, reply, ev, rid, stop, buf, calls>>

(* Faulty variant: the error return leaves the event locked.               *)
FailsHoldingTheEvent(t) ==
  /\ pc[t] = "rollbackSeat" /\ cur[t] = stop[t]
  /\ Finish(t, Failed)
  /\ UNCHANGED <<list, outputLock, output, call, localVars, calls>>
RollbackUnlock(t) ==
  /\ pc[t] = "rollbackSeat" /\ cur[t] = stop[t]
  /\ MutexUnlock(ev[t])
  /\ Finish(t, Failed)
  /\ UNCHANGED <<outputLock, output, call, localVars, calls>>

-----------------------------------------------------------------------------
TakeOutput(t) == outputLock = NoOne /\ outputLock' = t

(* ems_show reads one seat under one hold of Lock, and writes once.        *)
ShowFind(t) == pc[t] = "showFind" /\ Find(t, "showOutput")

ShowOutput(t) ==
  /\ pc[t] = "showOutput"
  /\ TakeOutput(t)
  /\ cur' = [cur EXCEPT ![t] = 1]
  /\ Goto(t, "showSeat")
  /\ UNCHANGED <<list, output, call, reply, ev, rid, stop, buf, calls>>

Area(e) == e.rows * e.cols
ShowSeat(t) ==
  LET e == list[ev[t]]
      seat == RowMajor(e, cur[t])
  IN /\ pc[t] = "showSeat" /\ cur[t] <= Area(e)
     /\ buf' = [buf EXCEPT ![t] = Append(@, e.data[SeatIndex(e, seat[1], seat[2])])]
     /\ cur' = [cur EXCEPT ![t] = @ + 1]
     /\ UNCHANGED <<list, outputLock, output, pc, call, reply, ev, rid, stop, calls>>

(* The write may fail.                                                     *)
ShowWrite(t) ==
  /\ pc[t] = "showSeat" /\ cur[t] > Area(list[ev[t]])
  /\ outputLock' = NoOne
  /\ \/ Write(t, buf[t]) /\ Finish(t, Done)
     \/ Finish(t, Failed) /\ UNCHANGED output
  /\ UNCHANGED <<list, call, localVars, calls>>

-----------------------------------------------------------------------------
(* ems_list_events walks the list one node per hold of Lock; cur is the    *)
(* node, 0 after the last.                                                 *)
ListFirst(t) ==
  /\ pc[t] = "listFirst"
  /\ IF list = <<>> THEN Finish(t, Done) ELSE Goto(t, "listOutput") /\ UNCHANGED reply
  /\ UNCHANGED <<list, outputLock, output, call, localVars, calls>>

ListOutput(t) ==
  /\ pc[t] = "listOutput"
  /\ TakeOutput(t)
  /\ cur' = [cur EXCEPT ![t] = 1]
  /\ Goto(t, "listNode")
  /\ UNCHANGED <<list, output, call, reply, ev, rid, stop, buf, calls>>

(* A node that finds the buffer full has it written, and is lost itself.   *)
ListNode(t) ==
  /\ pc[t] = "listNode" /\ cur[t] # 0
  /\ IF Len(buf[t]) < BufferLines
     THEN /\ buf' = [buf EXCEPT ![t] = Append(@, list[cur[t]].id)]
          /\ UNCHANGED output
     ELSE Write(t, buf[t]) /\ buf' = [buf EXCEPT ![t] = <<>>]
  /\ cur' = [cur EXCEPT ![t] = IF @ < Len(list) THEN @ + 1 ELSE 0]
  /\ UNCHANGED <<list, outputLock, pc, call, reply, ev, rid, stop, calls>>

ListWrite(t) ==
  /\ pc[t] = "listNode" /\ cur[t] = 0
  /\ IF buf[t] = <<>> THEN UNCHANGED output ELSE Write(t, buf[t])
  /\ outputLock' = NoOne
  /\ Finish(t, Done)
  /\ UNCHANGED <<list, call, localVars, calls>>

-----------------------------------------------------------------------------
Create(t) == CreateFind(t) \/ CreateAppend(t)
Reserve(t) ==
  \/ ReserveFind(t) \/ ReserveMutex(t) \/ ReserveNumber(t) \/ ReserveTest(t)
  \/ ReserveMark(t) \/ ReserveUnlock(t)
  \/ Rollback(t) \/ RollbackSeat(t) \/ RollbackUnlock(t)
Show(t) == ShowFind(t) \/ ShowOutput(t) \/ ShowSeat(t) \/ ShowWrite(t)
List(t) == ListFirst(t) \/ ListOutput(t) \/ ListNode(t) \/ ListWrite(t)
Step(t) == Create(t) \/ Reserve(t) \/ Show(t) \/ List(t) \/ Return(t)

Next == \E t \in Workers : (\E c \in Calls : Invoke(t, c)) \/ Step(t)

Spec == Init /\ [][Next]_vars

(* A thread that can move does.  Nobody barges for ever: a mutex that is   *)
(* free again and again is taken (MaxCalls bounds the overtaking).         *)
FairSpec == Spec /\ \A t \in Workers : WF_vars(Step(t))

-----------------------------------------------------------------------------
CreateLabels  == {"createFind", "createAppend"}
Holding       == {"reserveNumber", "reserveSeat", "reserveMark", "rollback",
                  "rollbackSeat"}
ReserveLabels == Holding \cup {"reserveFind", "reserveMutex"}
Printing      == {"showSeat", "listNode"}
ShowLabels    == {"showFind", "showOutput", "showSeat"}
ListLabels    == {"listFirst", "listOutput", "listNode"}
Labels == {"idle", "done"} \cup CreateLabels \cup ReserveLabels
            \cup ShowLabels \cup ListLabels

Event(d) == [id : EventIds, reservations : Nat, rows : {d[1]}, cols : {d[2]},
             data : [Places([rows |-> d[1], cols |-> d[2]]) -> Nat],
             mutex : Workers \cup {NoOne}]
ListTypeOK ==
  /\ list \in Seq({list[i] : i \in DOMAIN list})
  /\ \A i \in DOMAIN list : \E d \in Dims : list[i] \in Event(d)
NumberedCalls == [number : 1 .. MaxCalls, request : Calls] \cup {NoRequest}

(* Type invariant of the store, of its threads and of the output.          *)
TypeOK ==
  /\ ListTypeOK
  /\ outputLock \in Workers \cup {NoOne}
  /\ output \in Seq([call : 1 .. MaxCalls, data : Seq(Nat)])
  /\ pc \in [Workers -> Labels]
  /\ call \in [Workers -> NumberedCalls]
  /\ reply \in [Workers -> {NoReply, Done, Failed}]
  /\ ev \in [Workers -> Nat] /\ rid \in [Workers -> Nat]
  /\ cur \in [Workers -> Nat] /\ stop \in [Workers -> Nat]
  /\ buf \in [Workers -> Seq(Nat)]
  /\ calls \in 0 .. MaxCalls

(* No two events of the list carry the same id: CREATE looks the id up     *)
(* again under the hold of Lock that links the event.                      *)
UniqueEventIds ==
  \A i, j \in DOMAIN list : list[i].id = list[j].id => i = j

(* While nobody holds an event its seats carry exactly the ids 1 to        *)
(* reservations: a rollback frees all it marked and gives its number back, *)
(* although the seats were marked one by one.                              *)
ReservationsHoldSeats ==
  \A i \in DOMAIN list :
    list[i].mutex = NoOne =>
      {list[i].data[p] : p \in Places(list[i])} \ {0} = 1 .. list[i].reservations

(* The number of the reservation that is being made or undone, and the     *)
(* seats that carry it.                                                    *)
Making == {"reserveSeat", "reserveMark", "rollback", "rollbackSeat"}
InTheMaking(e, p) ==
  /\ e.mutex \in Workers /\ pc[e.mutex] \in Making
  /\ e.data[p] = rid[e.mutex]

SeatsKept ==
  \A i \in DOMAIN list :
    /\ i \in DOMAIN list' /\ list'[i].id = list[i].id
    /\ \A p \in Places(list[i]) :
         list[i].data[p] # 0 /\ ~ InTheMaking(list[i], p)
           => list'[i].data[p] = list[i].data[p]

(* A seat of a reservation that was made is never freed nor given to       *)
(* another: a rollback frees nothing but its own.  Events keep their       *)
(* places, so the struct Event* kept without Lock stays good.              *)
CommittedForever == [][SeatsKept]_vars

(* The store as a thread sees it through CREATE, RESERVE and LIST: a       *)
(* reservation counts when its event is unlocked.  LIST of no events       *)
(* prints nothing; another LIST has read the whole list when its loop      *)
(* ends.  (Its events are few enough for one write.)  SHOW is no call.     *)
Numbered(e) == e.mutex \in Workers /\ pc[e.mutex] \in Making \ {"rollbackSeat"}
AbsCatalog ==
  [i \in DOMAIN list |->
     LET e == list[i]
         at(s) == SeatIndex(e, s[1], s[2])
     IN [id |-> e.id, rows |-> e.rows, cols |-> e.cols,
         reservations |-> IF Numbered(e) THEN e.reservations - 1 ELSE e.reservations,
         owner |-> [s \in Coords(e) |->
                      IF InTheMaking(e, at(s)) THEN 0 ELSE e.data[at(s)]]]]

Listing(ids) == IF ids = <<>> THEN Failed ELSE Reply(0, <<Len(ids), 1>>, ids)
WrittenBy(n) == LET mine == {k \in DOMAIN output : output[k].call = n}
                IN IF mine = {} THEN <<>> ELSE output[CHOOSE k \in mine : TRUE].data
AbsOutcome ==
  [t \in Workers |->
     IF pc[t] = "listNode" /\ cur[t] = 0 THEN Listing(buf[t])
     ELSE IF pc[t] = "done" /\ Request(t).op = "list"
     THEN Listing(WrittenBy(call[t].number))
     ELSE IF Request(t).op = "show" THEN NoReply ELSE reply[t]]
AbsPending ==
  [t \in Workers |-> IF Request(t).op = "show" THEN NoCall ELSE Request(t)]

Abs == INSTANCE EventStore
         WITH catalog <- AbsCatalog, outcome <- AbsOutcome,
              pending <- AbsPending, Repeats <- FALSE

(* CREATE, RESERVE and LIST take effect at one instant, as EventStore      *)
(* says, although RESERVE writes its seats one by one; SHOW does not.      *)
ImplementsEventStore == Abs!Spec

(* Every call returns: no lock is left behind on any path.                 *)
AllAnswered ==
  \A t \in Workers : pc[t] \notin {"idle", "done"} ~> pc[t] = "done"
=============================================================================
