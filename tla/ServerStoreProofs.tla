-------------------------- MODULE ServerStoreProofs --------------------------
(***************************************************************************)
(* Theorems about ServerStore, for any number of workers, calls and status *)
(* reports, any event ids, any seating plans and any requests.             *)
(***************************************************************************)
EXTENDS ServerStore, CommonProofs, SequenceTheorems, TLAPS

AnyEvent == UNION {Event(d) : d \in Dims}

USE InterfaceAssumption, ServerStoreAssumption

-----------------------------------------------------------------------------
(* The list as a sequence of events.                                       *)
LEMMA ListIsSeq ==
  ASSUME ListTypeOK
  PROVE  /\ list \in Seq(AnyEvent)
         /\ Len(list) \in Nat
         /\ DOMAIN list = 1 .. Len(list)
BY DEF ListTypeOK, AnyEvent

LEMMA SeqIsList ==
  ASSUME list' \in Seq(AnyEvent)
  PROVE  ListTypeOK'
BY DEF ListTypeOK, AnyEvent

LEMMA EventType ==
  ASSUME NEW d \in Dims, NEW e \in Event(d)
  PROVE  /\ e.id \in EventIds /\ e.reservations \in Nat
         /\ e.rows \in Nat /\ e.cols \in Nat
         /\ e.rows = d[1] /\ e.cols = d[2]
         /\ e.data \in [Places(e) -> Nat]
         /\ e.mutex \in Threads \cup {NoOne}
BY DEF Event, Places

LEMMA AnyEventType ==
  ASSUME NEW e \in AnyEvent
  PROVE  /\ e.id \in EventIds /\ e.reservations \in Nat
         /\ e.rows \in Nat /\ e.cols \in Nat
         /\ e.data \in [Places(e) -> Nat]
         /\ e.mutex \in Threads \cup {NoOne}
BY EventType DEF AnyEvent

(* Changing fields other than the plan of an event leaves it an event.     *)
LEMMA EventUpdate ==
  ASSUME NEW e \in AnyEvent, NEW m \in Threads \cup {NoOne}, NEW n \in Nat,
         NEW a \in [Places(e) -> Nat]
  PROVE  /\ [e EXCEPT !.mutex = m] \in AnyEvent
         /\ [e EXCEPT !.reservations = n] \in AnyEvent
         /\ [e EXCEPT !.data = a] \in AnyEvent
<1>1. PICK d \in Dims : e \in Event(d)
  BY DEF AnyEvent
<1>2. a \in [Places([rows |-> d[1], cols |-> d[2]]) -> Nat]
  BY <1>1, EventType DEF Places
<1>3. [e EXCEPT !.mutex = m] \in Event(d)
  BY <1>1 DEF Event
<1>4. [e EXCEPT !.reservations = n] \in Event(d)
  BY <1>1 DEF Event
<1>5. [e EXCEPT !.data = a] \in Event(d)
  BY <1>1, <1>2 DEF Event
<1> QED BY <1>3, <1>4, <1>5 DEF AnyEvent

LEMMA EventFields ==
  ASSUME NEW e \in AnyEvent, NEW m, NEW n, NEW a
  PROVE  /\ LET f == [e EXCEPT !.mutex = m]
            IN /\ f.mutex = m /\ f.id = e.id /\ f.data = e.data
               /\ f.rows = e.rows /\ f.cols = e.cols
         /\ LET f == [e EXCEPT !.reservations = n]
            IN /\ f.mutex = e.mutex /\ f.id = e.id /\ f.data = e.data
               /\ f.rows = e.rows /\ f.cols = e.cols
         /\ LET f == [e EXCEPT !.data = a]
            IN /\ f.mutex = e.mutex /\ f.id = e.id /\ f.data = a
               /\ f.rows = e.rows /\ f.cols = e.cols
<1>1. PICK d \in Dims : e \in Event(d)
  BY DEF AnyEvent
<1> QED BY <1>1 DEF Event

LEMMA NewEventType ==
  ASSUME NEW c \in CreateCalls
  PROVE  NewEvent(c) \in AnyEvent
BY DEF AnyEvent, Event, Places, NewEvent, CreateCalls

LEMMA ReplaceEvent ==
  ASSUME ListTypeOK, NEW i \in DOMAIN list, NEW e \in AnyEvent,
         list' = [list EXCEPT ![i] = e]
  PROVE  /\ ListTypeOK'
         /\ DOMAIN list' = DOMAIN list
         /\ Len(list') = Len(list)
         /\ list'[i] = e
         /\ \A j \in DOMAIN list : j # i => list'[j] = list[j]
BY ListIsSeq, SeqIsList

LEMMA AppendEvent ==
  ASSUME ListTypeOK, NEW e \in AnyEvent, list' = Append(list, e)
  PROVE  /\ ListTypeOK'
         /\ DOMAIN list' = 1 .. (Len(list) + 1)
         /\ list'[Len(list) + 1] = e
         /\ \A j \in DOMAIN list : list'[j] = list[j]
BY ListIsSeq, SeqIsList

-----------------------------------------------------------------------------
(* What a step of thread t does not touch: the other threads' variables,   *)
(* a lock that another thread holds, an event that another thread has      *)
(* locked, and the id and plan of any event.  A new event comes only under *)
(* the write lock, at the tail, under a new id.                            *)
LocalsKept(t) ==
  /\ \A u \in Threads \ {t} :
       /\ pc'[u] = pc[u] /\ ev'[u] = ev[u]
       /\ cur'[u] = cur[u] /\ readers'[u] = readers[u]
  /\ \A u \in Workers \ {t} : call'[u] = call[u] /\ rid'[u] = rid[u]
WriterKept(t) ==
  IF writer \in {NoOne, t} THEN writer' \in {NoOne, t} ELSE writer' = writer
WriterAlone(t) == writer' = t /\ writer # t => \A u \in Threads \ {t} : readers[u] = 0
EventKept(t, i) ==
  /\ list'[i].id = list[i].id
  /\ IF list[i].mutex \in {NoOne, t} THEN list'[i].mutex \in {NoOne, t}
     ELSE list'[i] = list[i]
ListGrows(t) ==
  \/ DOMAIN list' = DOMAIN list
  \/ /\ writer = t
     /\ DOMAIN list' = 1 .. (Len(list) + 1)
     /\ list'[Len(list) + 1].mutex = NoOne
     /\ NoneWithId(list'[Len(list) + 1].id)
Keeps(t) ==
  /\ LocalsKept(t) /\ WriterKept(t) /\ WriterAlone(t)
  /\ ListGrows(t) /\ \A i \in DOMAIN list : EventKept(t, i)

(* The invariant of a thread survives the steps of the others.             *)
LEMMA OthersInv ==
  ASSUME StoreInv, NEW t \in Threads, Keeps(t), NEW u \in Threads, u # t
  PROVE  ThreadInv(u)'
<1>1. /\ ThreadInv(u) /\ TypeOK
      /\ pc'[u] = pc[u] /\ ev'[u] = ev[u] /\ cur'[u] = cur[u]
      /\ readers'[u] = readers[u]
      /\ u \in Workers => call'[u] = call[u] /\ rid'[u] = rid[u]
      /\ u # NoOne /\ t # NoOne
      /\ list \in Seq(AnyEvent) /\ Len(list) \in Nat /\ DOMAIN list = 1 .. Len(list)
  BY ListIsSeq DEF StoreInv, TypeOK, Keeps, LocalsKept, Threads
<1>2. RequestMatches(u)'
  BY <1>1 DEF ThreadInv, RequestMatches, Threads
<1>3. ListLockMatches(u)'
  BY <1>1 DEF Keeps, WriterKept, WriterAlone, ThreadInv, ListLockMatches
<1>4. EventLockMatches(u)'
  <2>1. DOMAIN list \subseteq DOMAIN list'
    BY <1>1 DEF Keeps, ListGrows
  <2>2. ASSUME NEW i \in DOMAIN list
        PROVE  list'[i].mutex = u <=> list[i].mutex = u
    BY <1>1 DEF Keeps, EventKept
  <2>3. ASSUME NEW i \in DOMAIN list', i \notin DOMAIN list
        PROVE  list'[i].mutex # u
    BY <1>1, <2>3 DEF Keeps, ListGrows
  <2> QED
    BY <1>1, <2>1, <2>2, <2>3 DEF ThreadInv, EventLockMatches, EventUsed
<1>5. FreshId(u)'
  BY <1>1 DEF Keeps, ListGrows, EventKept, ThreadInv, FreshId, ListLockMatches,
              NoneWithId, ListWritten, RequestMatches, Threads, StatusLabels
<1>6. SeatsFree(u)'
  <2>1. CASE pc[u] \notin {"reserveNumber", "reserveMark"}
    BY <1>1, <2>1 DEF SeatsFree
  <2>2. CASE pc[u] \in {"reserveNumber", "reserveMark"}
    <3>1. ev[u] \in DOMAIN list /\ list[ev[u]].mutex = u /\ SeatsFree(u)
      BY <1>1, <2>2 DEF ThreadInv, EventLockMatches, EventLocked, EventUsed
    <3>2. list'[ev[u]] = list[ev[u]]
      BY <1>1, <3>1 DEF Keeps, EventKept
    <3>3. u \in Workers
      BY <1>1, <2>2 DEF ThreadInv, RequestMatches, Threads, StatusLabels
    <3> QED BY <1>1, <3>1, <3>2, <3>3 DEF SeatsFree
  <2> QED BY <2>1, <2>2
<1>7. CopyInPlan(u)'
  BY <1>1 DEF ThreadInv, CopyInPlan
<1> QED BY <1>2, <1>3, <1>4, <1>5, <1>6, <1>7 DEF ThreadInv

LEMMA UniqueIdsKept ==
  ASSUME StoreInv, NEW t \in Threads, Keeps(t)
  PROVE  UniqueEventIds'
<1>1. /\ list \in Seq(AnyEvent) /\ Len(list) \in Nat /\ DOMAIN list = 1 .. Len(list)
      /\ \A i \in DOMAIN list : list'[i].id = list[i].id
      /\ UniqueEventIds
  BY ListIsSeq DEF StoreInv, TypeOK, Keeps, EventKept
<1>2. CASE DOMAIN list' = DOMAIN list
  BY <1>1, <1>2 DEF UniqueEventIds
<1>3. CASE /\ DOMAIN list' = 1 .. (Len(list) + 1)
           /\ NoneWithId(list'[Len(list) + 1].id)
  <2>1. \A i \in DOMAIN list : list'[i].id # list'[Len(list) + 1].id
    BY <1>1, <1>3 DEF NoneWithId
  <2> QED BY <1>1, <1>3, <2>1 DEF UniqueEventIds
<1> QED BY <1>2, <1>3 DEF Keeps, ListGrows

LEMMA StepOfOneThread ==
  ASSUME StoreInv, NEW t \in Threads, TypeOK', Keeps(t), ThreadInv(t)'
  PROVE  StoreInv'
BY OthersInv, UniqueIdsKept DEF StoreInv

LEMMA SameList ==
  ASSUME ListTypeOK, list' = list
  PROVE  ListTypeOK'
BY DEF ListTypeOK

LEMMA WorkersAndMain ==
  /\ Main \in Threads /\ Main \notin Workers /\ NoOne \notin Threads
  /\ \A w \in Workers : w \in Threads /\ w # Main /\ w # NoOne
BY DEF Threads

-----------------------------------------------------------------------------
(* The steps that leave the list alone.                                    *)
USE DEF lockVars, localVars, boundVars

LEMMA QuietStep ==
  ASSUME StoreInv, NEW t \in Threads, list' = list,
         LocalsKept(t), WriterKept(t), WriterAlone(t),
         ListTypeOK' => TypeOK', ThreadInv(t)'
  PROVE  StoreInv'
<1>1. TypeOK'
  BY SameList DEF StoreInv, TypeOK
<1>2. Keeps(t)
  BY DEF Keeps, ListGrows, EventKept
<1> QED BY <1>1, <1>2, StepOfOneThread

LEMMA IdsTyped ==
  ASSUME ListTypeOK
  PROVE  IdsOf(list) \in Seq(Nat)
<1>1. \A i \in DOMAIN list : list[i].id \in Nat
  <2>1. \A i \in DOMAIN list : list[i] \in AnyEvent
    BY ListIsSeq
  <2> QED BY <2>1, AnyEventType
<1>2. IdsOf(list) = [i \in 1 .. Len(list) |-> list[i].id]
  BY ListIsSeq DEF IdsOf
<1> QED BY <1>1, <1>2, ListIsSeq

LEMMA RepliesTyped ==
  /\ NoReply \in Replies /\ Done \in Replies /\ Failed \in Replies
  /\ \A d \in Nat \X Nat : \A b \in Seq(Nat) : Reply(0, d, b) \in Replies
BY DEF NoReply, Done, Failed, Reply, Replies

(* The variables of the threads are functions on the threads.              *)
LEMMA Domains ==
  ASSUME TypeOK
  PROVE  /\ pc \in [Threads -> Labels] /\ readers \in [Threads -> Nat]
         /\ ev \in [Threads -> Nat] /\ cur \in [Threads -> Nat]
         /\ call \in [Workers -> Calls \cup {NoCall}] /\ rid \in [Workers -> Nat]
         /\ reply \in [Workers -> Replies] /\ buf \in [Workers -> Seq(Nat)]
BY DEF TypeOK

LEMMA InvokeStep ==
  ASSUME StoreInv, NEW w \in Workers, NEW c \in Calls, Invoke(w, c)
  PROVE  StoreInv'
<1>1. /\ TypeOK /\ ThreadInv(w) /\ w \in Threads
      /\ w # Main /\ w # NoOne
      /\ pc[w] = "idle" /\ pc' = [pc EXCEPT ![w] = FirstStep[c.op]]
      /\ call' = [call EXCEPT ![w] = c]
      /\ calls < MaxCalls /\ calls' = calls + 1
      /\ \/ c \in CreateCalls /\ FirstStep[c.op] = "createLock"
         \/ c \in ReserveCalls /\ FirstStep[c.op] = "reserveLock"
         \/ c \in ShowCalls /\ FirstStep[c.op] = "showLock"
         \/ c \in ListCalls /\ FirstStep[c.op] = "listLock"
      /\ UNCHANGED <<list, lockVars, reply, localVars, reports>>
  BY WorkersAndMain DEF StoreInv, Invoke, Goto, FirstStep, Calls, CreateCalls,
         ReserveCalls, ShowCalls, ListCalls
<1>2. ListTypeOK' => TypeOK'
  <2>1. pc' \in [Threads -> Labels]
    BY <1>1 DEF TypeOK, Labels
  <2> QED BY <1>1, <2>1, RepliesTyped, SMTT(30) DEF TypeOK
<1>3. LocalsKept(w) /\ WriterKept(w) /\ WriterAlone(w)
  BY <1>1, Domains DEF LocalsKept, WriterKept, WriterAlone
<1>4. RequestMatches(w)'
  BY <1>1 DEF TypeOK, ThreadInv, RequestMatches, CreateLabels,
         ReserveLabels, ShowLabels, ListLabels, StatusLabels
<1>5. ListLockMatches(w)'
  BY <1>1 DEF TypeOK, ThreadInv, ListLockMatches, ListRead, ListWritten
<1>6. EventLockMatches(w)'
  BY <1>1 DEF TypeOK, ThreadInv, EventLockMatches, EventUsed, EventLocked
<1>7. FreshId(w)' /\ SeatsFree(w)' /\ CopyInPlan(w)'
  BY <1>1 DEF TypeOK, ThreadInv, FreshId, NoneWithId, SeatsFree, CopyInPlan
<1> QED BY <1>1, <1>2, <1>3, <1>4, <1>5, <1>6, <1>7, QuietStep DEF ThreadInv

LEMMA ReturnStep ==
  ASSUME StoreInv, NEW w \in Workers, Return(w)
  PROVE  StoreInv'
<1>1. /\ TypeOK /\ ThreadInv(w) /\ w \in Threads
      /\ w # Main /\ w # NoOne
      /\ pc[w] = "done" /\ pc' = [pc EXCEPT ![w] = "idle"]
      /\ call' = [call EXCEPT ![w] = NoCall]
      /\ reply' = [reply EXCEPT ![w] = NoReply]
      /\ ev' = [ev EXCEPT ![w] = 0] /\ rid' = [rid EXCEPT ![w] = 0]
      /\ cur' = [cur EXCEPT ![w] = 0] /\ buf' = [buf EXCEPT ![w] = <<>>]
      /\ UNCHANGED <<list, lockVars, boundVars>>
  BY WorkersAndMain DEF StoreInv, Return, Goto
<1>2. ListTypeOK' => TypeOK'
  <2>1. pc' \in [Threads -> Labels]
    BY <1>1 DEF TypeOK, Labels
  <2>2. reply' \in [Workers -> Replies]
    BY <1>1, Domains, RepliesTyped
  <2>3. ev' \in [Threads -> Nat]
    BY <1>1, Domains
  <2>4. cur' \in [Threads -> Nat]
    BY <1>1, Domains
  <2> QED BY <1>1, <2>1, <2>2, <2>3, <2>4, RepliesTyped DEF TypeOK
<1>3. LocalsKept(w) /\ WriterKept(w) /\ WriterAlone(w)
  BY <1>1, Domains DEF LocalsKept, WriterKept, WriterAlone
<1>4. RequestMatches(w)'
  BY <1>1 DEF TypeOK, ThreadInv, RequestMatches, CreateLabels,
         ReserveLabels, ShowLabels, ListLabels, StatusLabels
<1>5. ListLockMatches(w)'
  BY <1>1 DEF TypeOK, ThreadInv, ListLockMatches, ListRead, ListWritten
<1>6. EventLockMatches(w)'
  BY <1>1 DEF TypeOK, ThreadInv, EventLockMatches, EventUsed, EventLocked
<1>7. FreshId(w)' /\ SeatsFree(w)' /\ CopyInPlan(w)'
  BY <1>1 DEF TypeOK, ThreadInv, FreshId, NoneWithId, SeatsFree, CopyInPlan
<1> QED BY <1>1, <1>2, <1>3, <1>4, <1>5, <1>6, <1>7, QuietStep DEF ThreadInv

LEMMA CreateLockStep ==
  ASSUME StoreInv, NEW w \in Workers, CreateLock(w)
  PROVE  StoreInv'
<1>1. /\ TypeOK /\ ThreadInv(w) /\ w \in Threads
      /\ w # Main /\ w # NoOne
      /\ pc[w] = "createLock" /\ pc' = [pc EXCEPT ![w] = "createFind"]
      /\ writer = NoOne /\ writer' = w
      /\ \A u \in Threads : readers[u] = 0
      /\ readers' = readers
      /\ UNCHANGED <<list, call, reply, localVars, boundVars>>
  BY WorkersAndMain DEF StoreInv, CreateLock, WrLock, Goto
<1>2. ListTypeOK' => TypeOK'
  <2>1. pc' \in [Threads -> Labels]
    BY <1>1 DEF TypeOK, Labels
  <2> QED BY <1>1, <2>1, RepliesTyped DEF TypeOK
<1>3. LocalsKept(w) /\ WriterKept(w) /\ WriterAlone(w)
  BY <1>1, Domains DEF LocalsKept, WriterKept, WriterAlone
<1>4. RequestMatches(w)'
  BY <1>1 DEF TypeOK, ThreadInv, RequestMatches, CreateLabels,
         ReserveLabels, ShowLabels, ListLabels, StatusLabels
<1>5. ListLockMatches(w)'
  BY <1>1 DEF TypeOK, ThreadInv, ListLockMatches, ListRead, ListWritten
<1>6. EventLockMatches(w)'
  BY <1>1 DEF TypeOK, ThreadInv, EventLockMatches, EventUsed, EventLocked
<1>7. FreshId(w)' /\ SeatsFree(w)' /\ CopyInPlan(w)'
  BY <1>1 DEF TypeOK, ThreadInv, FreshId, NoneWithId, SeatsFree, CopyInPlan
<1> QED BY <1>1, <1>2, <1>3, <1>4, <1>5, <1>6, <1>7, QuietStep DEF ThreadInv

LEMMA ReserveLockStep ==
  ASSUME StoreInv, NEW w \in Workers, ReserveLock(w)
  PROVE  StoreInv'
<1>1. /\ TypeOK /\ ThreadInv(w) /\ w \in Threads
      /\ w # Main /\ w # NoOne
      /\ pc[w] = "reserveLock" /\ pc' = [pc EXCEPT ![w] = "reserveFind"]
      /\ writer = NoOne /\ writer' = writer
      /\ readers' = [readers EXCEPT ![w] = @ + 1]
      /\ UNCHANGED <<list, call, reply, localVars, boundVars>>
  BY WorkersAndMain DEF StoreInv, ReserveLock, RdLock, Goto
<1>2. ListTypeOK' => TypeOK'
  <2>1. pc' \in [Threads -> Labels]
    BY <1>1 DEF TypeOK, Labels
  <2> QED BY <1>1, <2>1, RepliesTyped DEF TypeOK
<1>3. LocalsKept(w) /\ WriterKept(w) /\ WriterAlone(w)
  BY <1>1, Domains DEF LocalsKept, WriterKept, WriterAlone
<1>4. RequestMatches(w)'
  BY <1>1 DEF TypeOK, ThreadInv, RequestMatches, CreateLabels,
         ReserveLabels, ShowLabels, ListLabels, StatusLabels
<1>5. ListLockMatches(w)'
  BY <1>1 DEF TypeOK, ThreadInv, ListLockMatches, ListRead, ListWritten
<1>6. EventLockMatches(w)'
  BY <1>1 DEF TypeOK, ThreadInv, EventLockMatches, EventUsed, EventLocked
<1>7. FreshId(w)' /\ SeatsFree(w)' /\ CopyInPlan(w)'
  BY <1>1 DEF TypeOK, ThreadInv, FreshId, NoneWithId, SeatsFree, CopyInPlan
<1> QED BY <1>1, <1>2, <1>3, <1>4, <1>5, <1>6, <1>7, QuietStep DEF ThreadInv

LEMMA ShowLockStep ==
  ASSUME StoreInv, NEW w \in Workers, ShowLock(w)
  PROVE  StoreInv'
<1>1. /\ TypeOK /\ ThreadInv(w) /\ w \in Threads
      /\ w # Main /\ w # NoOne
      /\ pc[w] = "showLock" /\ pc' = [pc EXCEPT ![w] = "showFind"]
      /\ writer = NoOne /\ writer' = writer
      /\ readers' = [readers EXCEPT ![w] = @ + 1]
      /\ UNCHANGED <<list, call, reply, localVars, boundVars>>
  BY WorkersAndMain DEF StoreInv, ShowLock, RdLock, Goto
<1>2. ListTypeOK' => TypeOK'
  <2>1. pc' \in [Threads -> Labels]
    BY <1>1 DEF TypeOK, Labels
  <2> QED BY <1>1, <2>1, RepliesTyped DEF TypeOK
<1>3. LocalsKept(w) /\ WriterKept(w) /\ WriterAlone(w)
  BY <1>1, Domains DEF LocalsKept, WriterKept, WriterAlone
<1>4. RequestMatches(w)'
  BY <1>1 DEF TypeOK, ThreadInv, RequestMatches, CreateLabels,
         ReserveLabels, ShowLabels, ListLabels, StatusLabels
<1>5. ListLockMatches(w)'
  BY <1>1 DEF TypeOK, ThreadInv, ListLockMatches, ListRead, ListWritten
<1>6. EventLockMatches(w)'
  BY <1>1 DEF TypeOK, ThreadInv, EventLockMatches, EventUsed, EventLocked
<1>7. FreshId(w)' /\ SeatsFree(w)' /\ CopyInPlan(w)'
  BY <1>1 DEF TypeOK, ThreadInv, FreshId, NoneWithId, SeatsFree, CopyInPlan
<1> QED BY <1>1, <1>2, <1>3, <1>4, <1>5, <1>6, <1>7, QuietStep DEF ThreadInv

LEMMA ListLockStep ==
  ASSUME StoreInv, NEW w \in Workers, ListLock(w)
  PROVE  StoreInv'
<1>1. /\ TypeOK /\ ThreadInv(w) /\ w \in Threads
      /\ w # Main /\ w # NoOne
      /\ pc[w] = "listLock" /\ pc' = [pc EXCEPT ![w] = "listCount"]
      /\ writer = NoOne /\ writer' = writer
      /\ readers' = [readers EXCEPT ![w] = @ + 1]
      /\ UNCHANGED <<list, call, reply, localVars, boundVars>>
  BY WorkersAndMain DEF StoreInv, ListLock, RdLock, Goto
<1>2. ListTypeOK' => TypeOK'
  <2>1. pc' \in [Threads -> Labels]
    BY <1>1 DEF TypeOK, Labels
  <2> QED BY <1>1, <2>1, RepliesTyped DEF TypeOK
<1>3. LocalsKept(w) /\ WriterKept(w) /\ WriterAlone(w)
  BY <1>1, Domains DEF LocalsKept, WriterKept, WriterAlone
<1>4. RequestMatches(w)'
  BY <1>1 DEF TypeOK, ThreadInv, RequestMatches, CreateLabels,
         ReserveLabels, ShowLabels, ListLabels, StatusLabels
<1>5. ListLockMatches(w)'
  BY <1>1 DEF TypeOK, ThreadInv, ListLockMatches, ListRead, ListWritten
<1>6. EventLockMatches(w)'
  BY <1>1 DEF TypeOK, ThreadInv, EventLockMatches, EventUsed, EventLocked
<1>7. FreshId(w)' /\ SeatsFree(w)' /\ CopyInPlan(w)'
  BY <1>1 DEF TypeOK, ThreadInv, FreshId, NoneWithId, SeatsFree, CopyInPlan
<1> QED BY <1>1, <1>2, <1>3, <1>4, <1>5, <1>6, <1>7, QuietStep DEF ThreadInv

LEMMA ListCopyStep ==
  ASSUME StoreInv, NEW w \in Workers, ListCopy(w)
  PROVE  StoreInv'
<1>1. /\ TypeOK /\ ThreadInv(w) /\ w \in Threads
      /\ w # Main /\ w # NoOne
      /\ pc[w] = "listCopy" /\ pc' = [pc EXCEPT ![w] = "listSend"]
      /\ buf' = [buf EXCEPT ![w] = IdsOf(list)]
      /\ IdsOf(list) \in Seq(Nat)
      /\ UNCHANGED <<list, lockVars, call, reply, ev, rid, cur, boundVars>>
  BY WorkersAndMain, IdsTyped DEF StoreInv, TypeOK, ListCopy, Goto
<1>2. ListTypeOK' => TypeOK'
  <2>1. pc' \in [Threads -> Labels]
    BY <1>1 DEF TypeOK, Labels
  <2> QED BY <1>1, <2>1, RepliesTyped DEF TypeOK
<1>3. LocalsKept(w) /\ WriterKept(w) /\ WriterAlone(w)
  BY <1>1, Domains DEF LocalsKept, WriterKept, WriterAlone
<1>4. RequestMatches(w)'
  BY <1>1 DEF TypeOK, ThreadInv, RequestMatches, CreateLabels,
         ReserveLabels, ShowLabels, ListLabels, StatusLabels
<1>5. ListLockMatches(w)'
  BY <1>1 DEF TypeOK, ThreadInv, ListLockMatches, ListRead, ListWritten
<1>6. EventLockMatches(w)'
  BY <1>1 DEF TypeOK, ThreadInv, EventLockMatches, EventUsed, EventLocked
<1>7. FreshId(w)' /\ SeatsFree(w)' /\ CopyInPlan(w)'
  BY <1>1 DEF TypeOK, ThreadInv, FreshId, NoneWithId, SeatsFree, CopyInPlan
<1> QED BY <1>1, <1>2, <1>3, <1>4, <1>5, <1>6, <1>7, QuietStep DEF ThreadInv

LEMMA ListSendStep ==
  ASSUME StoreInv, NEW w \in Workers, ListSend(w)
  PROVE  StoreInv'
<1>1. /\ TypeOK /\ ThreadInv(w) /\ w \in Threads
      /\ w # Main /\ w # NoOne
      /\ pc[w] = "listSend" /\ pc' = [pc EXCEPT ![w] = "done"]
      /\ writer' = writer
      /\ readers' = [readers EXCEPT ![w] = @ - 1]
      /\ readers[w] > 0
      /\ reply' = [reply EXCEPT ![w] = Reply(0, <<cur[w], 1>>, buf[w])]
      /\ UNCHANGED <<list, call, localVars, boundVars>>
  BY WorkersAndMain DEF StoreInv, ListSend, Goto, Finish, RdUnlock,
         ThreadInv, ListLockMatches, ListRead
<1>2. ListTypeOK' => TypeOK'
  <2>1. pc' \in [Threads -> Labels]
    BY <1>1 DEF TypeOK, Labels
  <2>2. readers' \in [Threads -> Nat]
    BY <1>1, Domains
  <2>3. reply' \in [Workers -> Replies]
    BY <1>1, Domains, RepliesTyped
  <2> QED BY <1>1, <2>1, <2>2, <2>3, RepliesTyped DEF TypeOK
<1>3. LocalsKept(w) /\ WriterKept(w) /\ WriterAlone(w)
  BY <1>1, Domains DEF LocalsKept, WriterKept, WriterAlone
<1>4. RequestMatches(w)'
  BY <1>1 DEF TypeOK, ThreadInv, RequestMatches, CreateLabels,
         ReserveLabels, ShowLabels, ListLabels, StatusLabels
<1>5. ListLockMatches(w)'
  BY <1>1 DEF TypeOK, ThreadInv, ListLockMatches, ListRead, ListWritten
<1>6. EventLockMatches(w)'
  BY <1>1 DEF TypeOK, ThreadInv, EventLockMatches, EventUsed, EventLocked
<1>7. FreshId(w)' /\ SeatsFree(w)' /\ CopyInPlan(w)'
  BY <1>1 DEF TypeOK, ThreadInv, FreshId, NoneWithId, SeatsFree, CopyInPlan
<1> QED BY <1>1, <1>2, <1>3, <1>4, <1>5, <1>6, <1>7, QuietStep DEF ThreadInv

LEMMA ReserveFindStep ==
  ASSUME StoreInv, NEW w \in Workers, ReserveFind(w)
  PROVE  StoreInv'
<1>1. /\ TypeOK /\ ThreadInv(w) /\ w \in Threads
      /\ w # Main /\ w # NoOne
      /\ pc[w] = "reserveFind"
      /\ \/ /\ pc' = [pc EXCEPT ![w] = "reserveMutex"] /\ reply' = reply
            /\ \E i \in DOMAIN list : ev' = [ev EXCEPT ![w] = i]
         \/ /\ pc' = [pc EXCEPT ![w] = "done"] /\ ev' = ev
            /\ reply' = [reply EXCEPT ![w] = Failed]
      /\ writer' = writer
      /\ readers' = [readers EXCEPT ![w] = @ - 1]
      /\ readers[w] > 0
      /\ DOMAIN list \subseteq Nat
      /\ UNCHANGED <<list, call, rid, cur, buf, boundVars>>
  <2>1. TypeOK /\ ThreadInv(w) /\ w \in Threads
    BY WorkersAndMain DEF StoreInv
  <2>2. pc[w] = "reserveFind" /\ readers[w] > 0
    BY <2>1 DEF ReserveFind, ThreadInv, ListLockMatches, ListRead
  <2>3. DOMAIN list \subseteq Nat
    BY <2>1, ListIsSeq DEF TypeOK
  <2> QED
    BY <2>1, <2>2, <2>3, WorkersAndMain
    DEF ReserveFind, FindUnderRdLock, FirstWithId, RdUnlock, Goto, Finish
<1>2. ListTypeOK' => TypeOK'
  <2>1. pc' \in [Threads -> Labels]
    BY <1>1 DEF TypeOK, Labels
  <2>2. readers' \in [Threads -> Nat]
    BY <1>1, Domains
  <2>3. reply' \in [Workers -> Replies]
    BY <1>1, Domains, RepliesTyped
  <2>4. ev' \in [Threads -> Nat]
    BY <1>1, Domains
  <2> QED BY <1>1, <2>1, <2>2, <2>3, <2>4, RepliesTyped DEF TypeOK
<1>3. LocalsKept(w) /\ WriterKept(w) /\ WriterAlone(w)
  BY <1>1, Domains DEF LocalsKept, WriterKept, WriterAlone
<1>4. RequestMatches(w)'
  BY <1>1 DEF TypeOK, ThreadInv, RequestMatches, CreateLabels,
         ReserveLabels, ShowLabels, ListLabels, StatusLabels
<1>5. ListLockMatches(w)'
  BY <1>1 DEF TypeOK, ThreadInv, ListLockMatches, ListRead, ListWritten
<1>6. EventLockMatches(w)'
  BY <1>1 DEF TypeOK, ThreadInv, EventLockMatches, EventUsed, EventLocked
<1>7. FreshId(w)' /\ SeatsFree(w)' /\ CopyInPlan(w)'
  BY <1>1 DEF TypeOK, ThreadInv, FreshId, NoneWithId, SeatsFree, CopyInPlan
<1> QED BY <1>1, <1>2, <1>3, <1>4, <1>5, <1>6, <1>7, QuietStep DEF ThreadInv

LEMMA ShowFindStep ==
  ASSUME StoreInv, NEW w \in Workers, ShowFind(w)
  PROVE  StoreInv'
<1>1. /\ TypeOK /\ ThreadInv(w) /\ w \in Threads
      /\ w # Main /\ w # NoOne
      /\ pc[w] = "showFind"
      /\ \/ /\ pc' = [pc EXCEPT ![w] = "showMutex"] /\ reply' = reply
            /\ \E i \in DOMAIN list : ev' = [ev EXCEPT ![w] = i]
         \/ /\ pc' = [pc EXCEPT ![w] = "done"] /\ ev' = ev
            /\ reply' = [reply EXCEPT ![w] = Failed]
      /\ writer' = writer
      /\ readers' = [readers EXCEPT ![w] = @ - 1]
      /\ readers[w] > 0
      /\ DOMAIN list \subseteq Nat
      /\ UNCHANGED <<list, call, rid, cur, buf, boundVars>>
  <2>1. TypeOK /\ ThreadInv(w) /\ w \in Threads
    BY WorkersAndMain DEF StoreInv
  <2>2. pc[w] = "showFind" /\ readers[w] > 0
    BY <2>1 DEF ShowFind, ThreadInv, ListLockMatches, ListRead
  <2>3. DOMAIN list \subseteq Nat
    BY <2>1, ListIsSeq DEF TypeOK
  <2> QED
    BY <2>1, <2>2, <2>3, WorkersAndMain
    DEF ShowFind, FindUnderRdLock, FirstWithId, RdUnlock, Goto, Finish
<1>2. ListTypeOK' => TypeOK'
  <2>1. pc' \in [Threads -> Labels]
    BY <1>1 DEF TypeOK, Labels
  <2>2. readers' \in [Threads -> Nat]
    BY <1>1, Domains
  <2>3. reply' \in [Workers -> Replies]
    BY <1>1, Domains, RepliesTyped
  <2>4. ev' \in [Threads -> Nat]
    BY <1>1, Domains
  <2> QED BY <1>1, <2>1, <2>2, <2>3, <2>4, RepliesTyped DEF TypeOK
<1>3. LocalsKept(w) /\ WriterKept(w) /\ WriterAlone(w)
  BY <1>1, Domains DEF LocalsKept, WriterKept, WriterAlone
<1>4. RequestMatches(w)'
  BY <1>1 DEF TypeOK, ThreadInv, RequestMatches, CreateLabels,
         ReserveLabels, ShowLabels, ListLabels, StatusLabels
<1>5. ListLockMatches(w)'
  BY <1>1 DEF TypeOK, ThreadInv, ListLockMatches, ListRead, ListWritten
<1>6. EventLockMatches(w)'
  BY <1>1 DEF TypeOK, ThreadInv, EventLockMatches, EventUsed, EventLocked
<1>7. FreshId(w)' /\ SeatsFree(w)' /\ CopyInPlan(w)'
  BY <1>1 DEF TypeOK, ThreadInv, FreshId, NoneWithId, SeatsFree, CopyInPlan
<1> QED BY <1>1, <1>2, <1>3, <1>4, <1>5, <1>6, <1>7, QuietStep DEF ThreadInv

LEMMA StatusLockStep ==
  ASSUME StoreInv, StatusLock
  PROVE  StoreInv'
<1>1. /\ TypeOK /\ ThreadInv(Main) /\ Main \in Threads
      /\ Main \notin Workers /\ Main # NoOne
      /\ pc[Main] = "idle" /\ pc' = [pc EXCEPT ![Main] = "statusWalk"]
      /\ writer = NoOne /\ writer' = writer
      /\ readers' = [readers EXCEPT ![Main] = @ + 1]
      /\ reports < MaxStatus /\ reports' = reports + 1
      /\ UNCHANGED <<list, call, reply, localVars, calls>>
  BY WorkersAndMain DEF StoreInv, StatusLock, RdLock, Goto
<1>2. ListTypeOK' => TypeOK'
  <2>1. pc' \in [Threads -> Labels]
    BY <1>1 DEF TypeOK, Labels
  <2> QED BY <1>1, <2>1, RepliesTyped DEF TypeOK
<1>3. LocalsKept(Main) /\ WriterKept(Main) /\ WriterAlone(Main)
  BY <1>1, Domains DEF LocalsKept, WriterKept, WriterAlone
<1>4. RequestMatches(Main)'
  BY <1>1 DEF TypeOK, ThreadInv, RequestMatches, CreateLabels,
         ReserveLabels, ShowLabels, ListLabels, StatusLabels
<1>5. ListLockMatches(Main)'
  BY <1>1 DEF TypeOK, ThreadInv, ListLockMatches, ListRead, ListWritten
<1>6. EventLockMatches(Main)'
  BY <1>1 DEF TypeOK, ThreadInv, EventLockMatches, EventUsed, EventLocked
<1>7. FreshId(Main)' /\ SeatsFree(Main)' /\ CopyInPlan(Main)'
  BY <1>1 DEF TypeOK, ThreadInv, FreshId, NoneWithId, SeatsFree, CopyInPlan
<1> QED BY <1>1, <1>2, <1>3, <1>4, <1>5, <1>6, <1>7, QuietStep DEF ThreadInv

LEMMA SignalLockStep ==
  ASSUME StoreInv, SignalLock
  PROVE  StoreInv'
<1>1. /\ TypeOK /\ ThreadInv(Main) /\ Main \in Threads
      /\ Main \notin Workers /\ Main # NoOne
      /\ pc[Main] = "signalLock" /\ pc' = [pc EXCEPT ![Main] = "signalFind"]
      /\ writer = NoOne /\ writer' = writer
      /\ readers' = [readers EXCEPT ![Main] = @ + 1]
      /\ UNCHANGED <<list, call, reply, localVars, boundVars>>
  BY WorkersAndMain DEF StoreInv, SignalLock, RdLock, Goto
<1>2. ListTypeOK' => TypeOK'
  <2>1. pc' \in [Threads -> Labels]
    BY <1>1 DEF TypeOK, Labels
  <2> QED BY <1>1, <2>1, RepliesTyped DEF TypeOK
<1>3. LocalsKept(Main) /\ WriterKept(Main) /\ WriterAlone(Main)
  BY <1>1, Domains DEF LocalsKept, WriterKept, WriterAlone
<1>4. RequestMatches(Main)'
  BY <1>1 DEF TypeOK, ThreadInv, RequestMatches, CreateLabels,
         ReserveLabels, ShowLabels, ListLabels, StatusLabels
<1>5. ListLockMatches(Main)'
  BY <1>1 DEF TypeOK, ThreadInv, ListLockMatches, ListRead, ListWritten
<1>6. EventLockMatches(Main)'
  BY <1>1 DEF TypeOK, ThreadInv, EventLockMatches, EventUsed, EventLocked
<1>7. FreshId(Main)' /\ SeatsFree(Main)' /\ CopyInPlan(Main)'
  BY <1>1 DEF TypeOK, ThreadInv, FreshId, NoneWithId, SeatsFree, CopyInPlan
<1> QED BY <1>1, <1>2, <1>3, <1>4, <1>5, <1>6, <1>7, QuietStep DEF ThreadInv

LEMMA StatusWalkStep ==
  ASSUME StoreInv, StatusWalk
  PROVE  StoreInv'
<1>1. /\ TypeOK /\ ThreadInv(Main) /\ Main \in Threads
      /\ Main \notin Workers /\ Main # NoOne
      /\ pc[Main] = "statusWalk"
      /\ writer' = writer /\ readers[Main] > 0
      /\ \/ /\ pc' = [pc EXCEPT ![Main] = "idle"] /\ cur' = cur
            /\ readers' = [readers EXCEPT ![Main] = @ - 1]
         \/ /\ pc' = [pc EXCEPT ![Main] = "signalLock"] /\ readers' = readers
            /\ cur' = [cur EXCEPT ![Main] = 1]
      /\ UNCHANGED <<list, call, reply, ev, rid, buf, boundVars>>
  BY WorkersAndMain DEF StoreInv, StatusWalk, RdUnlock, Goto,
         ThreadInv, ListLockMatches, ListRead
<1>2. ListTypeOK' => TypeOK'
  <2>1. pc' \in [Threads -> Labels]
    BY <1>1 DEF TypeOK, Labels
  <2>2. readers' \in [Threads -> Nat]
    <3>1. CASE readers' = [readers EXCEPT ![Main] = @ - 1]
      BY <3>1, <1>1, Domains
    <3>2. CASE readers' = readers
      BY <3>2, Domains, <1>1
    <3> QED BY <3>1, <3>2, <1>1
  <2>3. cur' \in [Threads -> Nat]
    <3>1. CASE cur' = [cur EXCEPT ![Main] = 1]
      BY <3>1, <1>1, Domains
    <3>2. CASE cur' = cur
      BY <3>2, <1>1, Domains
    <3> QED BY <3>1, <3>2, <1>1
  <2> QED BY <1>1, <2>1, <2>2, <2>3, RepliesTyped DEF TypeOK
<1>3. LocalsKept(Main) /\ WriterKept(Main) /\ WriterAlone(Main)
  BY <1>1, Domains DEF LocalsKept, WriterKept, WriterAlone
<1>4. RequestMatches(Main)'
  BY <1>1 DEF TypeOK, ThreadInv, RequestMatches, CreateLabels,
         ReserveLabels, ShowLabels, ListLabels, StatusLabels
<1>5. ListLockMatches(Main)'
  BY <1>1 DEF TypeOK, ThreadInv, ListLockMatches, ListRead, ListWritten
<1>6. EventLockMatches(Main)'
  BY <1>1 DEF TypeOK, ThreadInv, EventLockMatches, EventUsed, EventLocked
<1>7. FreshId(Main)' /\ SeatsFree(Main)' /\ CopyInPlan(Main)'
  BY <1>1 DEF TypeOK, ThreadInv, FreshId, NoneWithId, SeatsFree, CopyInPlan
<1> QED BY <1>1, <1>2, <1>3, <1>4, <1>5, <1>6, <1>7, QuietStep DEF ThreadInv

LEMMA SignalFindStep ==
  ASSUME StoreInv, SignalFind
  PROVE  StoreInv'
<1>1. /\ TypeOK /\ ThreadInv(Main) /\ Main \in Threads
      /\ Main \notin Workers /\ Main # NoOne
      /\ pc[Main] = "signalFind"
      /\ \/ /\ pc' = [pc EXCEPT ![Main] = "signalMutex"]
            /\ \E i \in DOMAIN list : ev' = [ev EXCEPT ![Main] = i]
         \/ pc' = [pc EXCEPT ![Main] = "statusNext"] /\ ev' = ev
      /\ writer' = writer
      /\ readers' = [readers EXCEPT ![Main] = @ - 1]
      /\ readers[Main] > 0
      /\ DOMAIN list \subseteq Nat
      /\ UNCHANGED <<list, call, reply, rid, cur, buf, boundVars>>
  <2>1. TypeOK /\ ThreadInv(Main) /\ Main \in Threads
    BY WorkersAndMain DEF StoreInv
  <2>2. pc[Main] = "signalFind" /\ readers[Main] > 0
    BY <2>1 DEF SignalFind, ThreadInv, ListLockMatches, ListRead
  <2>3. DOMAIN list \subseteq Nat
    BY <2>1, ListIsSeq DEF TypeOK
  <2> QED
    BY <2>1, <2>2, <2>3, WorkersAndMain
    DEF SignalFind, FindUnderRdLock, FirstWithId, RdUnlock, Goto
<1>2. ListTypeOK' => TypeOK'
  <2>1. pc' \in [Threads -> Labels]
    BY <1>1 DEF TypeOK, Labels
  <2>2. readers' \in [Threads -> Nat]
    BY <1>1, Domains
  <2>3. ev' \in [Threads -> Nat]
    BY <1>1, Domains
  <2> QED BY <1>1, <2>1, <2>2, <2>3, RepliesTyped DEF TypeOK
<1>3. LocalsKept(Main) /\ WriterKept(Main) /\ WriterAlone(Main)
  BY <1>1, Domains DEF LocalsKept, WriterKept, WriterAlone
<1>4. RequestMatches(Main)'
  BY <1>1 DEF TypeOK, ThreadInv, RequestMatches, CreateLabels,
         ReserveLabels, ShowLabels, ListLabels, StatusLabels
<1>5. ListLockMatches(Main)'
  BY <1>1 DEF TypeOK, ThreadInv, ListLockMatches, ListRead, ListWritten
<1>6. EventLockMatches(Main)'
  BY <1>1 DEF TypeOK, ThreadInv, EventLockMatches, EventUsed, EventLocked
<1>7. FreshId(Main)' /\ SeatsFree(Main)' /\ CopyInPlan(Main)'
  BY <1>1 DEF TypeOK, ThreadInv, FreshId, NoneWithId, SeatsFree, CopyInPlan
<1> QED BY <1>1, <1>2, <1>3, <1>4, <1>5, <1>6, <1>7, QuietStep DEF ThreadInv

LEMMA StatusNextStep ==
  ASSUME StoreInv, StatusNext
  PROVE  StoreInv'
<1>1. /\ TypeOK /\ ThreadInv(Main) /\ Main \in Threads
      /\ Main \notin Workers /\ Main # NoOne
      /\ pc[Main] = "statusNext"
      /\ \/ /\ pc' = [pc EXCEPT ![Main] = "signalLock"] /\ ev' = ev
            /\ cur' = [cur EXCEPT ![Main] = @ + 1]
         \/ /\ pc' = [pc EXCEPT ![Main] = "idle"]
            /\ cur' = [cur EXCEPT ![Main] = 0] /\ ev' = [ev EXCEPT ![Main] = 0]
      /\ UNCHANGED <<list, lockVars, call, reply, rid, buf, boundVars>>
  BY WorkersAndMain DEF StoreInv, StatusNext, Goto
<1>2. ListTypeOK' => TypeOK'
  <2>1. pc' \in [Threads -> Labels]
    BY <1>1, ZenonT(60) DEF TypeOK, Labels
  <2>2. ev' \in [Threads -> Nat]
    <3>1. CASE ev' = [ev EXCEPT ![Main] = 0]
      BY <3>1, <1>1, Domains
    <3>2. CASE ev' = ev
      BY <3>2, <1>1, Domains
    <3> QED BY <3>1, <3>2, <1>1
  <2>3. cur' \in [Threads -> Nat]
    <3>1. CASE cur' = [cur EXCEPT ![Main] = @ + 1]
      BY <3>1, <1>1, Domains
    <3>2. CASE cur' = [cur EXCEPT ![Main] = 0]
      BY <3>2, <1>1, Domains
    <3> QED BY <3>1, <3>2, <1>1
  <2> QED BY <1>1, <2>1, <2>2, <2>3, RepliesTyped DEF TypeOK
<1>3. LocalsKept(Main) /\ WriterKept(Main) /\ WriterAlone(Main)
  BY <1>1, Domains DEF LocalsKept, WriterKept, WriterAlone
<1>4. RequestMatches(Main)'
  BY <1>1 DEF TypeOK, ThreadInv, RequestMatches, CreateLabels,
         ReserveLabels, ShowLabels, ListLabels, StatusLabels
<1>5. ListLockMatches(Main)'
  BY <1>1 DEF TypeOK, ThreadInv, ListLockMatches, ListRead, ListWritten
<1>6. EventLockMatches(Main)'
  BY <1>1 DEF TypeOK, ThreadInv, EventLockMatches, EventUsed, EventLocked
<1>7. FreshId(Main)' /\ SeatsFree(Main)' /\ CopyInPlan(Main)'
  BY <1>1 DEF TypeOK, ThreadInv, FreshId, NoneWithId, SeatsFree, CopyInPlan
<1> QED BY <1>1, <1>2, <1>3, <1>4, <1>5, <1>6, <1>7, QuietStep DEF ThreadInv

LEMMA ListCountStep ==
  ASSUME StoreInv, NEW w \in Workers, ListCount(w)
  PROVE  StoreInv'
<1>1. /\ TypeOK /\ ThreadInv(w) /\ w \in Threads
      /\ w # Main /\ w # NoOne
      /\ pc[w] = "listCount"
      /\ writer' = writer /\ readers[w] > 0
      /\ \/ /\ pc' = [pc EXCEPT ![w] = "done"] /\ cur' = cur
            /\ readers' = [readers EXCEPT ![w] = @ - 1]
            /\ reply' = [reply EXCEPT ![w] = Failed]
         \/ /\ pc' = [pc EXCEPT ![w] = "listCopy"] /\ readers' = readers
            /\ cur' = [cur EXCEPT ![w] = Len(list)] /\ reply' = reply
      /\ Len(list) \in Nat
      /\ UNCHANGED <<list, call, ev, rid, buf, boundVars>>
  BY WorkersAndMain DEF StoreInv, ListCount, RdUnlock, Goto, Finish,
         ThreadInv, ListLockMatches, ListRead
<1>2. ListTypeOK' => TypeOK'
  <2>1. pc' \in [Threads -> Labels]
    BY <1>1 DEF TypeOK, Labels
  <2>2. readers' \in [Threads -> Nat]
    <3>1. CASE readers' = [readers EXCEPT ![w] = @ - 1]
      BY <3>1, <1>1, Domains
    <3>2. CASE readers' = readers
      BY <3>2, Domains, <1>1
    <3> QED BY <3>1, <3>2, <1>1
  <2>3. reply' \in [Workers -> Replies]
    <3>1. CASE reply' = [reply EXCEPT ![w] = Failed]
      BY <3>1, <1>1, Domains, RepliesTyped
    <3>2. CASE reply' = reply
      BY <3>2, Domains, <1>1
    <3> QED BY <3>1, <3>2, <1>1
  <2>4. cur' \in [Threads -> Nat]
    <3>1. CASE cur' = [cur EXCEPT ![w] = Len(list)]
      BY <3>1, <1>1, Domains
    <3>2. CASE cur' = cur
      BY <3>2, Domains, <1>1
    <3> QED BY <3>1, <3>2, <1>1
  <2> QED BY <1>1, <2>1, <2>2, <2>3, <2>4, RepliesTyped DEF TypeOK
<1>3. LocalsKept(w) /\ WriterKept(w) /\ WriterAlone(w)
  BY <1>1, Domains DEF LocalsKept, WriterKept, WriterAlone
<1>4. RequestMatches(w)'
  BY <1>1 DEF TypeOK, ThreadInv, RequestMatches, CreateLabels,
         ReserveLabels, ShowLabels, ListLabels, StatusLabels
<1>5. ListLockMatches(w)'
  BY <1>1 DEF TypeOK, ThreadInv, ListLockMatches, ListRead, ListWritten
<1>6. EventLockMatches(w)'
  BY <1>1 DEF TypeOK, ThreadInv, EventLockMatches, EventUsed, EventLocked
<1>7. FreshId(w)' /\ SeatsFree(w)' /\ CopyInPlan(w)'
  BY <1>1 DEF TypeOK, ThreadInv, FreshId, NoneWithId, SeatsFree, CopyInPlan
<1> QED BY <1>1, <1>2, <1>3, <1>4, <1>5, <1>6, <1>7, QuietStep DEF ThreadInv

LEMMA CreateFindStep ==
  ASSUME StoreInv, NEW w \in Workers, CreateFind(w)
  PROVE  StoreInv'
<1>1. /\ TypeOK /\ ThreadInv(w) /\ w \in Threads
      /\ w # Main /\ w # NoOne
      /\ pc[w] = "createFind"
      /\ writer = w /\ readers' = readers
      /\ \/ /\ pc' = [pc EXCEPT ![w] = "createAppend"]
            /\ NoneWithId(call[w].id) /\ UNCHANGED <<writer, reply>>
         \/ /\ pc' = [pc EXCEPT ![w] = "done"]
            /\ writer' = NoOne /\ reply' = [reply EXCEPT ![w] = Failed]
      /\ UNCHANGED <<list, call, localVars, boundVars>>
  BY WorkersAndMain DEF StoreInv, CreateFind, WrUnlock, Goto, Finish,
         ThreadInv, ListLockMatches, ListWritten
<1>2. ListTypeOK' => TypeOK'
  <2>1. pc' \in [Threads -> Labels]
    BY <1>1 DEF TypeOK, Labels
  <2>2. reply' \in [Workers -> Replies]
    BY <1>1, Domains, RepliesTyped
  <2> QED BY <1>1, <2>1, <2>2, RepliesTyped DEF TypeOK
<1>3. LocalsKept(w) /\ WriterKept(w) /\ WriterAlone(w)
  BY <1>1, Domains DEF LocalsKept, WriterKept, WriterAlone
<1>4. RequestMatches(w)'
  BY <1>1 DEF TypeOK, ThreadInv, RequestMatches, CreateLabels,
         ReserveLabels, ShowLabels, ListLabels, StatusLabels
<1>5. ListLockMatches(w)'
  BY <1>1 DEF TypeOK, ThreadInv, ListLockMatches, ListRead, ListWritten
<1>6. EventLockMatches(w)'
  BY <1>1 DEF TypeOK, ThreadInv, EventLockMatches, EventUsed, EventLocked
<1>7. FreshId(w)' /\ SeatsFree(w)' /\ CopyInPlan(w)'
  BY <1>1 DEF TypeOK, ThreadInv, FreshId, NoneWithId, SeatsFree, CopyInPlan
<1> QED BY <1>1, <1>2, <1>3, <1>4, <1>5, <1>6, <1>7, QuietStep DEF ThreadInv

(* A valid request goes on; the seats it names are in the plan and free.   *)
LEMMA ReserveCheckPasses ==
  ASSUME StoreInv, NEW w \in Workers, ReserveCheck(w), list' = list, reply' = reply,
         Goto(w, "reserveNumber"), RequestInBounds(list[ev[w]], call[w].seats),
         ~ SomeSeatTaken(list[ev[w]], call[w].seats)
  PROVE  StoreInv'
<1>1. /\ TypeOK /\ ThreadInv(w) /\ w \in Threads
      /\ w # Main /\ w # NoOne
      /\ pc[w] = "reserveCheck" /\ pc' = [pc EXCEPT ![w] = "reserveNumber"]
      /\ UNCHANGED <<list, lockVars, call, reply, localVars, boundVars>>
  BY WorkersAndMain DEF StoreInv, ReserveCheck, Goto
<1>2. ListTypeOK' => TypeOK'
  <2>1. pc' \in [Threads -> Labels]
    BY <1>1 DEF TypeOK, Labels
  <2> QED BY <1>1, <2>1 DEF TypeOK
<1>3. LocalsKept(w) /\ WriterKept(w) /\ WriterAlone(w)
  BY <1>1, Domains DEF LocalsKept, WriterKept, WriterAlone
<1>4. RequestMatches(w)'
  BY <1>1 DEF TypeOK, ThreadInv, RequestMatches, CreateLabels,
         ReserveLabels, ShowLabels, ListLabels, StatusLabels
<1>5. ListLockMatches(w)'
  BY <1>1 DEF TypeOK, ThreadInv, ListLockMatches, ListRead, ListWritten
<1>6. EventLockMatches(w)'
  BY <1>1 DEF TypeOK, ThreadInv, EventLockMatches, EventUsed, EventLocked
<1>7. SeatsFree(w)'
  BY <1>1 DEF TypeOK, SeatsFree, SomeSeatTaken, RequestInBounds
<1>8. FreshId(w)' /\ CopyInPlan(w)'
  BY <1>1 DEF TypeOK, FreshId, CopyInPlan
<1> QED BY <1>1, <1>2, <1>3, <1>4, <1>5, <1>6, <1>7, <1>8, QuietStep DEF ThreadInv

(* One turn of the copying loop reads a place of the array.                *)
LEMMA ShowCopyStep ==
  ASSUME StoreInv, NEW w \in Workers, ShowCopy(w)
  PROVE  StoreInv'
<1> DEFINE e == list[ev[w]]
           seat == RowMajor(e, cur[w])
           value == e.data[SeatIndex(e, seat[1], seat[2])]
<1>1. /\ TypeOK /\ ThreadInv(w) /\ w \in Threads
      /\ w # Main /\ w # NoOne
      /\ pc[w] = "showCopy" /\ pc' = pc
      /\ cur[w] <= e.rows * e.cols
      /\ buf' = [buf EXCEPT ![w] = Append(@, value)]
      /\ cur' = [cur EXCEPT ![w] = @ + 1]
      /\ UNCHANGED <<list, lockVars, pc, call, reply, ev, rid, boundVars>>
  BY WorkersAndMain DEF StoreInv, ShowCopy
<1>2. e \in AnyEvent /\ cur[w] \in Nat /\ cur[w] > 0
  <2>1. ev[w] \in DOMAIN list /\ cur[w] > 0
    BY <1>1 DEF ThreadInv, EventLockMatches, EventUsed, EventLocked, CopyInPlan
  <2> QED BY <2>1, <1>1, ListIsSeq, Domains DEF TypeOK
<1>3. value \in Nat
  <2>1. e.rows \in Nat /\ e.cols \in Nat /\ e.data \in [Places(e) -> Nat]
    BY <1>2, AnyEventType
  <2>2. cur[w] \in 1 .. e.rows * e.cols
    BY <1>1, <1>2, <2>1
  <2>3. SeatIndex(e, seat[1], seat[2]) = cur[w] - 1
    BY <2>1, <2>2, RowMajorIndex
  <2>4. cur[w] - 1 \in Places(e)
    <3> DEFINE n == e.rows * e.cols
    <3>1. n \in Nat /\ cur[w] \in 1 .. n
      BY <2>1, <2>2, Z3
    <3> HIDE DEF n
    <3>2. cur[w] - 1 \in 0 .. (n - 1)
      BY <3>1
    <3> QED BY <3>2 DEF Places, n
  <2> HIDE DEF e
  <2> QED BY <2>1, <2>3, <2>4
<1> HIDE DEF value
<1>4. ListTypeOK' => TypeOK'
  <2>1. buf' \in [Workers -> Seq(Nat)]
    BY <1>1, <1>3, Domains
  <2>2. cur' \in [Threads -> Nat]
    BY <1>1, Domains
  <2> QED BY <1>1, <2>1, <2>2 DEF TypeOK
<1>5. LocalsKept(w) /\ WriterKept(w) /\ WriterAlone(w)
  BY <1>1, Domains DEF LocalsKept, WriterKept, WriterAlone
<1>6. RequestMatches(w)'
  BY <1>1 DEF ThreadInv, RequestMatches
<1>7. ListLockMatches(w)'
  BY <1>1 DEF ThreadInv, ListLockMatches
<1>8. EventLockMatches(w)'
  BY <1>1 DEF ThreadInv, EventLockMatches
<1>9. FreshId(w)' /\ SeatsFree(w)' /\ CopyInPlan(w)'
  BY <1>1, <1>2, Domains DEF FreshId, SeatsFree, CopyInPlan
<1> QED BY <1>1, <1>4, <1>5, <1>6, <1>7, <1>8, <1>9, QuietStep DEF ThreadInv

-----------------------------------------------------------------------------
(* The steps that change an event they have locked, or lock it.            *)
LEMMA ChangeEvent ==
  ASSUME StoreInv, NEW t \in Threads, NEW i \in DOMAIN list, NEW e \in AnyEvent,
         list' = [list EXCEPT ![i] = e], e.id = list[i].id,
         list[i].mutex \in {NoOne, t}, e.mutex \in {NoOne, t},
         LocalsKept(t), UNCHANGED lockVars
  PROVE  /\ ListTypeOK' /\ Keeps(t)
         /\ DOMAIN list' = DOMAIN list /\ list'[i] = e
         /\ \A j \in DOMAIN list : j # i => list'[j] = list[j]
<1>1. ListTypeOK
  BY DEF StoreInv, TypeOK
<1>2. /\ ListTypeOK'
      /\ DOMAIN list' = DOMAIN list /\ list'[i] = e
      /\ \A j \in DOMAIN list : j # i => list'[j] = list[j]
  BY <1>1, ReplaceEvent
<1>3. Keeps(t)
  BY <1>2 DEF Keeps, WriterKept, WriterAlone, ListGrows, EventKept
<1> QED BY <1>2, <1>3

(* pthread_mutex_lock of the event a call has found.                       *)
LEMMA LockEvent ==
  ASSUME StoreInv, NEW t \in Threads, NEW a, NEW b,
         \/ t \in Workers /\ a = "reserveMutex" /\ b = "reserveCheck" /\ cur' = cur
         \/ /\ t \in Workers /\ a = "showMutex" /\ b = "showCopy"
            /\ cur' = [cur EXCEPT ![t] = 1]
         \/ t = Main /\ a = "signalMutex" /\ b = "signalPrint" /\ cur' = cur,
         pc[t] = a, Goto(t, b), MutexLock(ev[t], t),
         UNCHANGED <<lockVars, call, reply, ev, rid, buf, boundVars>>
  PROVE  StoreInv'
<1> DEFINE i == ev[t]
           e == [list[i] EXCEPT !.mutex = t]
<1>1. /\ TypeOK /\ ThreadInv(t) /\ t # NoOne
      /\ pc' = [pc EXCEPT ![t] = b]
      /\ list[i].mutex = NoOne /\ list' = [list EXCEPT ![i] = e]
  BY WorkersAndMain DEF StoreInv, Goto, MutexLock
<1>2. i \in DOMAIN list
  BY <1>1 DEF ThreadInv, EventLockMatches, EventUsed
<1>3. list[i] \in AnyEvent
  BY <1>1, <1>2, ListIsSeq DEF TypeOK
<1>4. e \in AnyEvent /\ e.mutex = t /\ e.id = list[i].id
  <2>1. e \in AnyEvent
    BY <1>3, EventUpdate, AnyEventType
  <2> QED BY <2>1, <1>3, EventFields
<1> HIDE DEF e
<1>5. cur' \in [Threads -> Nat]
  <2>1. CASE cur' = cur
    BY <2>1, <1>1, Domains
  <2>2. CASE cur' = [cur EXCEPT ![t] = 1]
    BY <2>2, <1>1, Domains
  <2> QED BY <2>1, <2>2
<1>6. LocalsKept(t)
  BY <1>1, Domains DEF LocalsKept
<1>7. /\ ListTypeOK' /\ Keeps(t)
      /\ DOMAIN list' = DOMAIN list /\ list'[i] = e
      /\ \A j \in DOMAIN list : j # i => list'[j] = list[j]
  BY <1>1, <1>2, <1>4, <1>6, ChangeEvent
<1>8. TypeOK'
  <2>1. pc' \in [Threads -> Labels]
    BY <1>1, Domains DEF Labels
  <2> QED BY <1>1, <1>5, <1>7, <2>1 DEF TypeOK
<1>9. pc'[t] = b /\ ev' = ev
  BY <1>1, Domains
<1>10. RequestMatches(t)'
  BY <1>1, <1>9, WorkersAndMain DEF ThreadInv, RequestMatches, CreateLabels,
         ReserveLabels, ShowLabels, ListLabels, StatusLabels
<1>11. ListLockMatches(t)'
  BY <1>1, <1>9 DEF ThreadInv, ListLockMatches, ListRead, ListWritten
<1>12. EventLockMatches(t)'
  BY <1>1, <1>2, <1>4, <1>7, <1>9
  DEF ThreadInv, EventLockMatches, EventUsed, EventLocked
<1>13. FreshId(t)' /\ SeatsFree(t)' /\ CopyInPlan(t)'
  BY <1>1, <1>9, Domains, SMTT(30) DEF FreshId, SeatsFree, CopyInPlan
<1> QED BY <1>7, <1>8, <1>10, <1>11, <1>12, <1>13, StepOfOneThread DEF ThreadInv

(* pthread_mutex_unlock of the event a call has locked.                    *)
LEMMA UnlockEvent ==
  ASSUME StoreInv, NEW t \in Threads, NEW b,
         \/ t \in Workers /\ b = "done" /\ pc[t] \in {"reserveCheck", "reserveMark", "showCopy"}
         \/ t = Main /\ b = "statusNext" /\ pc[t] = "signalPrint",
         Goto(t, b), MutexUnlock(ev[t]), reply' \in [Workers -> Replies],
         UNCHANGED <<lockVars, call, localVars, boundVars>>
  PROVE  StoreInv'
<1> DEFINE i == ev[t]
           e == [list[i] EXCEPT !.mutex = NoOne]
<1>1. /\ TypeOK /\ ThreadInv(t) /\ t # NoOne
      /\ pc' = [pc EXCEPT ![t] = b]
      /\ list' = [list EXCEPT ![i] = e]
      /\ pc[t] \in EventLocked
  BY WorkersAndMain DEF StoreInv, Goto, MutexUnlock, EventLocked
<1>2. i \in DOMAIN list /\ list[i].mutex = t
  BY <1>1 DEF ThreadInv, EventLockMatches, EventUsed
<1>3. list[i] \in AnyEvent
  BY <1>1, <1>2, ListIsSeq DEF TypeOK
<1>4. e \in AnyEvent /\ e.mutex = NoOne /\ e.id = list[i].id
  <2>1. e \in AnyEvent
    BY <1>3, EventUpdate, AnyEventType
  <2> QED BY <2>1, <1>3, EventFields
<1> HIDE DEF e
<1>5. LocalsKept(t)
  BY <1>1, Domains DEF LocalsKept
<1>6. /\ ListTypeOK' /\ Keeps(t)
      /\ DOMAIN list' = DOMAIN list /\ list'[i] = e
      /\ \A j \in DOMAIN list : j # i => list'[j] = list[j]
  BY <1>1, <1>2, <1>4, <1>5, ChangeEvent
<1>7. TypeOK'
  <2>1. pc' \in [Threads -> Labels]
    BY <1>1, Domains DEF Labels
  <2> QED BY <1>1, <1>6, <2>1 DEF TypeOK
<1>8. pc'[t] = b /\ ev' = ev
  BY <1>1, Domains
<1>9. RequestMatches(t)'
  BY <1>8, WorkersAndMain DEF RequestMatches, StatusLabels
<1>10. ListLockMatches(t)'
  BY <1>1, <1>8 DEF ThreadInv, ListLockMatches, ListRead, ListWritten, EventLocked
<1>11. EventLockMatches(t)'
  BY <1>1, <1>2, <1>4, <1>6, <1>8
  DEF ThreadInv, EventLockMatches, EventUsed, EventLocked
<1>12. FreshId(t)' /\ SeatsFree(t)' /\ CopyInPlan(t)'
  BY <1>8 DEF FreshId, SeatsFree, CopyInPlan
<1> QED BY <1>6, <1>7, <1>9, <1>10, <1>11, <1>12, StepOfOneThread DEF ThreadInv

LEMMA ReserveMutexStep ==
  ASSUME StoreInv, NEW w \in Workers, ReserveMutex(w)
  PROVE  StoreInv'
<1>1. /\ w \in Threads /\ pc[w] = "reserveMutex" /\ Goto(w, "reserveCheck")
      /\ MutexLock(ev[w], w) /\ cur' = cur
      /\ UNCHANGED <<lockVars, call, reply, ev, rid, buf, boundVars>>
  BY WorkersAndMain DEF ReserveMutex
<1> QED BY <1>1, LockEvent

LEMMA ShowMutexStep ==
  ASSUME StoreInv, NEW w \in Workers, ShowMutex(w)
  PROVE  StoreInv'
<1>1. /\ w \in Threads /\ pc[w] = "showMutex" /\ Goto(w, "showCopy")
      /\ MutexLock(ev[w], w) /\ cur' = [cur EXCEPT ![w] = 1]
      /\ UNCHANGED <<lockVars, call, reply, ev, rid, buf, boundVars>>
  BY WorkersAndMain DEF ShowMutex
<1> QED BY <1>1, LockEvent

LEMMA SignalMutexStep ==
  ASSUME StoreInv, SignalMutex
  PROVE  StoreInv'
<1>1. /\ Main \in Threads /\ pc[Main] = "signalMutex" /\ Goto(Main, "signalPrint")
      /\ MutexLock(ev[Main], Main) /\ cur' = cur
      /\ UNCHANGED <<lockVars, call, reply, ev, rid, buf, boundVars>>
  BY WorkersAndMain DEF SignalMutex
<1> QED BY <1>1, LockEvent

LEMMA ReplyTyped ==
  ASSUME TypeOK, NEW w \in Workers, NEW r \in Replies,
         reply' = [reply EXCEPT ![w] = r]
  PROVE  reply' \in [Workers -> Replies]
BY Domains

LEMMA ReserveCheckStep ==
  ASSUME StoreInv, NEW w \in Workers, ReserveCheck(w)
  PROVE  StoreInv'
<1> DEFINE valid == /\ RequestInBounds(list[ev[w]], call[w].seats)
                    /\ ~ SomeSeatTaken(list[ev[w]], call[w].seats)
<1>1. CASE valid /\ Goto(w, "reserveNumber") /\ UNCHANGED <<list, reply>>
  BY <1>1, ReserveCheckPasses
<1>2. CASE MutexUnlock(ev[w]) /\ Finish(w, Failed)
  <2>1. /\ TypeOK /\ w \in Threads /\ Failed \in Replies
        /\ pc[w] = "reserveCheck" /\ Goto(w, "done")
        /\ MutexUnlock(ev[w]) /\ reply' = [reply EXCEPT ![w] = Failed]
        /\ UNCHANGED <<lockVars, call, localVars, boundVars>>
    BY <1>2, WorkersAndMain, RepliesTyped DEF ReserveCheck, StoreInv, Finish
  <2>2. reply' \in [Workers -> Replies]
    BY <2>1, ReplyTyped
  <2> QED BY <2>1, <2>2, UnlockEvent
<1> QED BY <1>1, <1>2 DEF ReserveCheck

LEMMA ReserveUnlockStep ==
  ASSUME StoreInv, NEW w \in Workers, ReserveUnlock(w)
  PROVE  StoreInv'
<1>1. /\ TypeOK /\ w \in Threads /\ Done \in Replies
      /\ pc[w] = "reserveMark" /\ Goto(w, "done")
      /\ MutexUnlock(ev[w]) /\ reply' = [reply EXCEPT ![w] = Done]
      /\ UNCHANGED <<lockVars, call, localVars, boundVars>>
  BY WorkersAndMain, RepliesTyped DEF ReserveUnlock, StoreInv, Finish
<1>2. reply' \in [Workers -> Replies]
  BY <1>1, ReplyTyped
<1> QED BY <1>1, <1>2, UnlockEvent

LEMMA ShowUnlockStep ==
  ASSUME StoreInv, NEW w \in Workers, ShowUnlock(w)
  PROVE  StoreInv'
<1> DEFINE e == list[ev[w]]
           r == Reply(0, <<e.rows, e.cols>>, buf[w])
<1>1. /\ TypeOK /\ ThreadInv(w) /\ w \in Threads
      /\ pc[w] = "showCopy" /\ Goto(w, "done")
      /\ MutexUnlock(ev[w]) /\ reply' = [reply EXCEPT ![w] = r]
      /\ UNCHANGED <<lockVars, call, localVars, boundVars>>
  BY WorkersAndMain DEF ShowUnlock, StoreInv, Finish
<1>2. r \in Replies
  <2>1. ev[w] \in DOMAIN list
    BY <1>1 DEF ThreadInv, EventLockMatches, EventUsed, EventLocked
  <2>2. e \in AnyEvent
    BY <2>1, <1>1, ListIsSeq DEF TypeOK
  <2>3. <<e.rows, e.cols>> \in Nat \X Nat
    BY <2>2, AnyEventType
  <2>4. buf[w] \in Seq(Nat)
    BY <1>1, Domains
  <2> QED BY <2>3, <2>4, RepliesTyped
<1> HIDE DEF r
<1>3. reply' \in [Workers -> Replies]
  BY <1>1, <1>2, ReplyTyped
<1> QED BY <1>1, <1>3, UnlockEvent

LEMMA SignalPrintStep ==
  ASSUME StoreInv, SignalPrint
  PROVE  StoreInv'
<1>1. /\ TypeOK /\ Main \in Threads
      /\ pc[Main] = "signalPrint" /\ Goto(Main, "statusNext")
      /\ MutexUnlock(ev[Main]) /\ reply' = reply
      /\ UNCHANGED <<lockVars, call, localVars, boundVars>>
  BY WorkersAndMain DEF SignalPrint, StoreInv
<1>2. reply' \in [Workers -> Replies]
  BY <1>1, Domains
<1> QED BY <1>1, <1>2, UnlockEvent

LEMMA ReserveNumberStep ==
  ASSUME StoreInv, NEW w \in Workers, ReserveNumber(w)
  PROVE  StoreInv'
<1> DEFINE i == ev[w]
           n == list[i].reservations + 1
           e == [list[i] EXCEPT !.reservations = n]
<1>1. /\ TypeOK /\ ThreadInv(w) /\ w \in Threads
      /\ w # Main /\ w # NoOne
      /\ pc[w] = "reserveNumber" /\ pc' = [pc EXCEPT ![w] = "reserveMark"]
      /\ list' = [list EXCEPT ![i] = e]
      /\ rid' = [rid EXCEPT ![w] = n] /\ cur' = [cur EXCEPT ![w] = 1]
      /\ UNCHANGED <<lockVars, call, reply, ev, buf, boundVars>>
  BY WorkersAndMain DEF StoreInv, ReserveNumber, Goto
<1>2. i \in DOMAIN list /\ list[i].mutex = w
  BY <1>1 DEF ThreadInv, EventLockMatches, EventUsed, EventLocked
<1>3. list[i] \in AnyEvent
  BY <1>1, <1>2, ListIsSeq DEF TypeOK
<1>4. n \in Nat
  BY <1>3, AnyEventType
<1> HIDE DEF n
<1>5. /\ e \in AnyEvent /\ e.mutex = w /\ e.id = list[i].id
      /\ e.data = list[i].data /\ e.rows = list[i].rows /\ e.cols = list[i].cols
  <2>1. e \in AnyEvent
    BY <1>3, <1>4, EventUpdate, AnyEventType
  <2> QED BY <2>1, <1>2, <1>3, EventFields
<1> HIDE DEF e
<1>6. LocalsKept(w)
  BY <1>1, Domains DEF LocalsKept
<1>7. /\ ListTypeOK' /\ Keeps(w)
      /\ DOMAIN list' = DOMAIN list /\ list'[i] = e
      /\ \A j \in DOMAIN list : j # i => list'[j] = list[j]
  BY <1>1, <1>2, <1>5, <1>6, ChangeEvent
<1>8. TypeOK'
  <2>1. pc' \in [Threads -> Labels]
    BY <1>1, Domains DEF Labels
  <2>2. rid' \in [Workers -> Nat] /\ cur' \in [Threads -> Nat]
    BY <1>1, <1>4, Domains
  <2> QED BY <1>1, <1>7, <2>1, <2>2 DEF TypeOK
<1>9. pc'[w] = "reserveMark" /\ ev' = ev /\ cur'[w] = 1 /\ rid'[w] = n
  BY <1>1, Domains
<1>10. RequestMatches(w)'
  BY <1>1, <1>9 DEF ThreadInv, RequestMatches, CreateLabels,
         ReserveLabels, ShowLabels, ListLabels, StatusLabels
<1>11. ListLockMatches(w)'
  BY <1>1, <1>9 DEF ThreadInv, ListLockMatches, ListRead, ListWritten
<1>12. EventLockMatches(w)'
  BY <1>1, <1>2, <1>5, <1>7, <1>9
  DEF ThreadInv, EventLockMatches, EventUsed, EventLocked
<1>13. SeatsFree(w)'
  <2> DEFINE seats == call[w].seats
  <2>1. /\ RequestInBounds(list[i], seats)
        /\ \A k \in DOMAIN seats :
             list[i].data[SeatIndex(list[i], seats[k][1], seats[k][2])] = 0
    BY <1>1 DEF ThreadInv, SeatsFree
  <2>2. /\ RequestInBounds(e, seats)
        /\ \A k \in DOMAIN seats : e.data[SeatIndex(e, seats[k][1], seats[k][2])] = 0
    BY <2>1, <1>5 DEF RequestInBounds, InBounds, SeatIndex
  <2>3. list'[ev'[w]] = e /\ call'[w].seats = seats
    BY <1>1, <1>7
  <2> HIDE DEF seats
  <2> QED BY <2>2, <2>3, <1>9 DEF SeatsFree
<1>14. FreshId(w)' /\ CopyInPlan(w)'
  BY <1>9 DEF FreshId, CopyInPlan
<1> QED BY <1>1, <1>7, <1>8, <1>10, <1>11, <1>12, <1>13, <1>14, StepOfOneThread
        DEF ThreadInv

(* A turn of the marking loop: the seats of the request stay free or       *)
(* marked by this very request.                                            *)
LEMMA ReserveMarkStep ==
  ASSUME StoreInv, NEW w \in Workers, ReserveMark(w)
  PROVE  StoreInv'
<1> DEFINE i == ev[w]
           seats == call[w].seats
           place(k) == SeatIndex(list[i], seats[k][1], seats[k][2])
           data == [list[i].data EXCEPT ![place(cur[w])] = rid[w]]
           e == [list[i] EXCEPT !.data = data]
<1>1. /\ TypeOK /\ ThreadInv(w) /\ w \in Threads
      /\ w # Main /\ w # NoOne
      /\ pc[w] = "reserveMark" /\ pc' = pc
      /\ list' = [list EXCEPT ![i] = e]
      /\ cur' = [cur EXCEPT ![w] = @ + 1]
      /\ UNCHANGED <<lockVars, call, reply, ev, rid, buf, boundVars>>
  BY WorkersAndMain DEF StoreInv, ReserveMark
<1>2. i \in DOMAIN list /\ list[i].mutex = w
  BY <1>1 DEF ThreadInv, EventLockMatches, EventUsed, EventLocked
<1>3. list[i] \in AnyEvent
  BY <1>1, <1>2, ListIsSeq DEF TypeOK
<1>4. list[i].data \in [Places(list[i]) -> Nat] /\ rid[w] \in Nat /\ cur[w] \in Nat
  BY <1>1, <1>3, AnyEventType, Domains
<1>5. data \in [Places(list[i]) -> Nat]
  BY <1>4
<1>6. /\ e \in AnyEvent /\ e.mutex = w /\ e.id = list[i].id
      /\ e.data = data /\ e.rows = list[i].rows /\ e.cols = list[i].cols
  <2> HIDE DEF data
  <2>1. e \in AnyEvent
    BY <1>3, <1>5, EventUpdate, AnyEventType
  <2> QED BY <2>1, <1>2, <1>3, EventFields
<1>7. /\ RequestInBounds(list[i], seats) /\ cur[w] > 0
      /\ \A k \in DOMAIN seats : list[i].data[place(k)] \in {0, rid[w]}
  BY <1>1 DEF ThreadInv, SeatsFree
<1>8. \A k \in DOMAIN seats : data[place(k)] \in {0, rid[w]}
  BY <1>4, <1>7
<1> HIDE DEF e, data
<1>9. LocalsKept(w)
  BY <1>1, Domains DEF LocalsKept
<1>10. /\ ListTypeOK' /\ Keeps(w)
       /\ DOMAIN list' = DOMAIN list /\ list'[i] = e
       /\ \A j \in DOMAIN list : j # i => list'[j] = list[j]
  BY <1>1, <1>2, <1>6, <1>9, ChangeEvent
<1>11. TypeOK'
  <2>1. cur' \in [Threads -> Nat]
    BY <1>1, Domains
  <2> QED BY <1>1, <1>10, <2>1 DEF TypeOK
<1>12. pc'[w] = "reserveMark" /\ ev' = ev /\ cur'[w] = cur[w] + 1
  BY <1>1, Domains
<1>13. RequestMatches(w)'
  BY <1>1 DEF ThreadInv, RequestMatches
<1>14. ListLockMatches(w)'
  BY <1>1 DEF ThreadInv, ListLockMatches
<1>15. EventLockMatches(w)'
  BY <1>1, <1>2, <1>6, <1>10, <1>12
  DEF ThreadInv, EventLockMatches, EventUsed, EventLocked
<1>16. SeatsFree(w)'
  <2>1. /\ RequestInBounds(e, seats)
        /\ \A k \in DOMAIN seats :
             e.data[SeatIndex(e, seats[k][1], seats[k][2])] \in {0, rid[w]}
    BY <1>6, <1>7, <1>8 DEF RequestInBounds, InBounds, SeatIndex
  <2>2. list'[ev'[w]] = e /\ call'[w].seats = seats /\ rid'[w] = rid[w]
    BY <1>1, <1>10
  <2>3. cur'[w] > 0
    BY <1>4, <1>7, <1>12
  <2> HIDE DEF seats
  <2> QED BY <2>1, <2>2, <2>3, <1>12 DEF SeatsFree
<1>17. FreshId(w)' /\ CopyInPlan(w)'
  BY <1>12 DEF FreshId, CopyInPlan
<1> QED BY <1>1, <1>10, <1>11, <1>13, <1>14, <1>15, <1>16, <1>17, StepOfOneThread
        DEF ThreadInv

(* The new event is linked under the write lock.                           *)
LEMMA CreateAppendStep ==
  ASSUME StoreInv, NEW w \in Workers, CreateAppend(w)
  PROVE  StoreInv'
<1> DEFINE e == NewEvent(call[w])
<1>1. /\ TypeOK /\ ThreadInv(w) /\ w \in Threads
      /\ w # Main /\ w # NoOne
      /\ pc[w] = "createAppend" /\ pc' = [pc EXCEPT ![w] = "done"]
      /\ \/ list' = list /\ reply' = [reply EXCEPT ![w] = Failed]
         \/ list' = Append(list, e) /\ reply' = [reply EXCEPT ![w] = Done]
      /\ writer' = NoOne
      /\ UNCHANGED <<readers, call, localVars, boundVars>>
  BY WorkersAndMain DEF StoreInv, CreateAppend, Goto, Finish, WrUnlock
<1>2. /\ call[w] \in CreateCalls /\ NoneWithId(call[w].id) /\ writer = w
  BY <1>1 DEF ThreadInv, RequestMatches, FreshId, ListLockMatches, ListWritten,
              CreateLabels, ReserveLabels, ShowLabels, ListLabels
<1>3. e \in AnyEvent /\ e.id = call[w].id /\ e.mutex = NoOne
  <2>1. e \in AnyEvent
    BY <1>2, NewEventType
  <2>2. e.id = call[w].id /\ e.mutex = NoOne
    BY DEF NewEvent
  <2> QED BY <2>1, <2>2
<1> HIDE DEF e
<1>4. /\ ListTypeOK' /\ ListGrows(w)
      /\ DOMAIN list \subseteq DOMAIN list'
      /\ \A i \in DOMAIN list : list'[i] = list[i]
      /\ \A i \in DOMAIN list' : i \in DOMAIN list \/ list'[i].mutex = NoOne
  <2>1. CASE list' = list
    BY <2>1, <1>1, SameList DEF ListGrows, TypeOK
  <2>2. CASE list' = Append(list, e)
    <3>1. /\ ListTypeOK'
          /\ DOMAIN list' = 1 .. (Len(list) + 1)
          /\ list'[Len(list) + 1] = e
          /\ \A j \in DOMAIN list : list'[j] = list[j]
      BY <2>2, <1>1, <1>3, AppendEvent DEF TypeOK
    <3>2. DOMAIN list = 1 .. Len(list) /\ Len(list) \in Nat
      BY <1>1, ListIsSeq DEF TypeOK
    <3>3. ListGrows(w)
      BY <3>1, <1>2, <1>3 DEF ListGrows
    <3>4. \A i \in DOMAIN list' : i \in DOMAIN list \/ i = Len(list) + 1
      BY <3>1, <3>2
    <3> QED BY <3>1, <3>2, <3>3, <3>4, <1>3
  <2> QED BY <2>1, <2>2, <1>1
<1>5. TypeOK'
  <2>1. pc' \in [Threads -> Labels]
    BY <1>1, Domains DEF Labels
  <2>2. reply' \in [Workers -> Replies]
    BY <1>1, ReplyTyped, RepliesTyped
  <2> QED BY <1>1, <1>4, <2>1, <2>2 DEF TypeOK
<1>6. Keeps(w)
  <2>1. LocalsKept(w)
    BY <1>1, Domains DEF LocalsKept
  <2>2. WriterKept(w) /\ WriterAlone(w)
    BY <1>1, <1>2 DEF WriterKept, WriterAlone
  <2>3. \A i \in DOMAIN list : EventKept(w, i)
    BY <1>4 DEF EventKept
  <2> QED BY <1>4, <2>1, <2>2, <2>3 DEF Keeps
<1>7. pc'[w] = "done" /\ ev' = ev
  BY <1>1, Domains
<1>8. RequestMatches(w)'
  BY <1>1, <1>7 DEF RequestMatches
<1>9. ListLockMatches(w)'
  BY <1>1, <1>7 DEF ListLockMatches, ListRead, ListWritten
<1>10. EventLockMatches(w)'
  BY <1>1, <1>4, <1>7 DEF ThreadInv, EventLockMatches, EventUsed, EventLocked
<1>11. FreshId(w)' /\ SeatsFree(w)' /\ CopyInPlan(w)'
  BY <1>7 DEF FreshId, SeatsFree, CopyInPlan
<1> QED BY <1>1, <1>5, <1>6, <1>8, <1>9, <1>10, <1>11, StepOfOneThread DEF ThreadInv

-----------------------------------------------------------------------------
LEMMA InitStoreInv ==
  ASSUME Init
  PROVE  StoreInv
<1>1. ListTypeOK
  BY DEF Init, ListTypeOK
<1>2. TypeOK
  BY <1>1, RepliesTyped DEF Init, TypeOK, Labels, Threads
<1>3. UniqueEventIds
  BY DEF Init, UniqueEventIds
<1>4. ASSUME NEW t \in Threads
      PROVE  ThreadInv(t)
  <2>1. pc[t] = "idle" /\ readers[t] = 0 /\ writer = NoOne /\ DOMAIN list = {} /\ t # NoOne
    BY WorkersAndMain DEF Init
  <2>2. RequestMatches(t) /\ ListLockMatches(t) /\ EventLockMatches(t)
    BY <2>1 DEF RequestMatches, StatusLabels, ListLockMatches, ListRead, ListWritten,
         EventLockMatches, EventUsed, EventLocked
  <2>3. FreshId(t) /\ SeatsFree(t) /\ CopyInPlan(t)
    BY <2>1 DEF FreshId, SeatsFree, CopyInPlan
  <2> QED BY <2>2, <2>3 DEF ThreadInv
<1> QED BY <1>2, <1>3, <1>4 DEF StoreInv

LEMMA StutterStep ==
  ASSUME StoreInv, UNCHANGED vars
  PROVE  StoreInv'
<1>1. /\ UNCHANGED <<list, lockVars, pc, call, reply, localVars, boundVars>>
      /\ TypeOK /\ ThreadInv(Main) /\ Main \in Threads
  BY WorkersAndMain DEF vars, StoreInv
<1>2. ListTypeOK' => TypeOK'
  BY <1>1 DEF TypeOK
<1>3. LocalsKept(Main) /\ WriterKept(Main) /\ WriterAlone(Main)
  BY <1>1 DEF LocalsKept, WriterKept, WriterAlone
<1>4. RequestMatches(Main)' /\ FreshId(Main)' /\ CopyInPlan(Main)'
  BY <1>1 DEF ThreadInv, RequestMatches, FreshId, NoneWithId, CopyInPlan
<1>5. ListLockMatches(Main)'
  BY <1>1 DEF ThreadInv, ListLockMatches
<1>6. EventLockMatches(Main)'
  BY <1>1 DEF ThreadInv, EventLockMatches
<1>7. SeatsFree(Main)'
  BY <1>1 DEF ThreadInv, SeatsFree
<1> QED BY <1>1, <1>2, <1>3, <1>4, <1>5, <1>6, <1>7, QuietStep DEF ThreadInv

LEMMA NextStoreInv ==
  ASSUME StoreInv, [Next]_vars
  PROVE  StoreInv'
<1>1. CASE UNCHANGED vars
  BY <1>1, StutterStep
<1>2. ASSUME NEW w \in Workers, NEW c \in Calls, Invoke(w, c)
      PROVE  StoreInv'
  BY <1>2, InvokeStep
<1>3. ASSUME NEW w \in Workers, Create(w)
      PROVE  StoreInv'
  BY <1>3, CreateLockStep, CreateFindStep, CreateAppendStep DEF Create
<1>4. ASSUME NEW w \in Workers, Reserve(w)
      PROVE  StoreInv'
  BY <1>4, ReserveLockStep, ReserveFindStep, ReserveMutexStep, ReserveCheckStep,
     ReserveNumberStep, ReserveMarkStep, ReserveUnlockStep DEF Reserve
<1>5. ASSUME NEW w \in Workers, Show(w)
      PROVE  StoreInv'
  BY <1>5, ShowLockStep, ShowFindStep, ShowMutexStep, ShowCopyStep, ShowUnlockStep
  DEF Show
<1>6. ASSUME NEW w \in Workers, List(w)
      PROVE  StoreInv'
  BY <1>6, ListLockStep, ListCountStep, ListCopyStep, ListSendStep DEF List
<1>7. CASE StatusLock \/ ReportRest
  BY <1>7, StatusLockStep, StatusWalkStep, SignalLockStep, SignalFindStep,
     SignalMutexStep, SignalPrintStep, StatusNextStep DEF ReportRest
<1> QED BY <1>1, <1>2, <1>3, <1>4, <1>5, <1>6, <1>7, ReturnStep DEF Next, Serve

(* The locks of server/operations.c protect what they are meant to: a      *)
(* thread is at a label that reads the list only while it holds its lock,  *)
(* is the only one to write it, and a call that uses an event holds a      *)
(* position that stays good.                                               *)
THEOREM StoreInvariant == Spec => []StoreInv
<1>1. Init => StoreInv
  BY InitStoreInv
<1>2. StoreInv /\ [Next]_vars => StoreInv'
  BY NextStoreInv
<1> QED BY <1>1, <1>2, PTL DEF Spec

(* Every variable of the store and of its threads keeps its type; the      *)
(* seats of an event keep the size of its plan (struct Event).             *)
THEOREM TypeCorrect == Spec => []TypeOK
<1>1. StoreInv => TypeOK
  BY DEF StoreInv
<1> QED BY <1>1, StoreInvariant, PTL

(* ems_create links an event only under an id that the list does not hold, *)
(* whatever calls run at the same time.                                    *)
THEOREM UniqueIds == Spec => []UniqueEventIds
<1>1. StoreInv => UniqueEventIds
  BY DEF StoreInv
<1> QED BY <1>1, StoreInvariant, PTL

-----------------------------------------------------------------------------
(* What happens to the seats in one step.                                  *)
LEMMA SeatsKeptIfSame ==
  ASSUME list' = list
  PROVE  SeatsKept
BY DEF SeatsKept

LEMMA SeatsKeptIfReplaced ==
  ASSUME StoreInv, NEW i \in DOMAIN list, NEW e \in AnyEvent,
         list' = [list EXCEPT ![i] = e], e.id = list[i].id,
         \A p \in Places(list[i]) :
           list[i].data[p] # 0 => e.data[p] = list[i].data[p]
  PROVE  SeatsKept
<1>1. ListTypeOK
  BY DEF StoreInv, TypeOK
<1>2. /\ DOMAIN list' = DOMAIN list /\ list'[i] = e
      /\ \A j \in DOMAIN list : j # i => list'[j] = list[j]
  BY <1>1, ReplaceEvent
<1> QED BY <1>2 DEF SeatsKept

LEMMA SeatsKeptByMutex ==
  ASSUME StoreInv, NEW t \in Threads, pc[t] \in EventUsed, NEW m \in Threads \cup {NoOne},
         list' = [list EXCEPT ![ev[t]].mutex = m]
  PROVE  SeatsKept
<1> DEFINE i == ev[t]
           e == [list[i] EXCEPT !.mutex = m]
<1>1. i \in DOMAIN list
  BY DEF StoreInv, ThreadInv, EventLockMatches
<1>2. list[i] \in AnyEvent
  BY <1>1, ListIsSeq DEF StoreInv, TypeOK
<1>3. e \in AnyEvent
  BY <1>2, EventUpdate, AnyEventType
<1>4. e.id = list[i].id /\ e.data = list[i].data
  BY <1>2, EventFields
<1>5. list' = [list EXCEPT ![i] = e]
  OBVIOUS
<1> HIDE DEF e
<1> QED BY <1>1, <1>3, <1>4, <1>5, SeatsKeptIfReplaced

LEMMA SeatsKeptByNumber ==
  ASSUME StoreInv, NEW w \in Workers, ReserveNumber(w)
  PROVE  SeatsKept
<1> DEFINE i == ev[w]
           n == list[i].reservations + 1
           e == [list[i] EXCEPT !.reservations = n]
<1>1. i \in DOMAIN list
  BY WorkersAndMain
  DEF ReserveNumber, StoreInv, ThreadInv, EventLockMatches, EventUsed, EventLocked
<1>2. list[i] \in AnyEvent
  BY <1>1, ListIsSeq DEF StoreInv, TypeOK
<1>3. n \in Nat
  BY <1>2, AnyEventType
<1>4. list' = [list EXCEPT ![i] = e]
  BY DEF ReserveNumber
<1> HIDE DEF n
<1>5. e \in AnyEvent
  BY <1>2, <1>3, EventUpdate, AnyEventType
<1>6. e.id = list[i].id /\ e.data = list[i].data
  BY <1>2, EventFields
<1> HIDE DEF e
<1> QED BY <1>1, <1>4, <1>5, <1>6, SeatsKeptIfReplaced

LEMMA SeatsKeptByMark ==
  ASSUME StoreInv, NEW w \in Workers, ReserveMark(w)
  PROVE  SeatsKept
<1> DEFINE i == ev[w]
           seats == call[w].seats
           place(k) == SeatIndex(list[i], seats[k][1], seats[k][2])
           data == [list[i].data EXCEPT ![place(cur[w])] = rid[w]]
           e == [list[i] EXCEPT !.data = data]
<1>1. /\ TypeOK /\ ThreadInv(w) /\ w \in Threads
      /\ pc[w] = "reserveMark" /\ w # Main
      /\ cur[w] <= Len(seats) /\ list' = [list EXCEPT ![i] = e]
  BY WorkersAndMain DEF StoreInv, ReserveMark
<1>2. i \in DOMAIN list
  BY <1>1 DEF ThreadInv, EventLockMatches, EventUsed, EventLocked
<1>3. list[i] \in AnyEvent
  BY <1>1, <1>2, ListIsSeq DEF TypeOK
<1>4. /\ list[i].data \in [Places(list[i]) -> Nat]
      /\ rid[w] \in Nat /\ cur[w] \in Nat
  BY <1>1, <1>3, AnyEventType, Domains
<1>5. data \in [Places(list[i]) -> Nat]
  BY <1>4
<1>6. e \in AnyEvent /\ e.id = list[i].id /\ e.data = data
  <2> HIDE DEF data
  <2>1. e \in AnyEvent
    BY <1>3, <1>5, EventUpdate, AnyEventType
  <2> QED BY <2>1, <1>3, EventFields
<1>7. list[i].data[place(cur[w])] \in {0, rid[w]}
  <2>1. call[w] \in ReserveCalls
    BY <1>1 DEF ThreadInv, RequestMatches, CreateLabels, ReserveLabels,
                ShowLabels, ListLabels
  <2>2. seats \in Seq(Nat \X Nat)
    BY <2>1 DEF ReserveCalls
  <2>3. /\ cur[w] > 0
        /\ \A k \in DOMAIN seats : list[i].data[place(k)] \in {0, rid[w]}
    BY <1>1 DEF ThreadInv, SeatsFree
  <2>4. cur[w] \in DOMAIN seats
    BY <1>1, <1>4, <2>2, <2>3
  <2> QED BY <2>3, <2>4
<1>8. \A p \in Places(list[i]) :
        list[i].data[p] # 0 => e.data[p] = list[i].data[p]
  <2> HIDE DEF e
  <2> QED BY <1>4, <1>6, <1>7
<1> HIDE DEF e
<1> QED BY <1>1, <1>2, <1>6, <1>8, SeatsKeptIfReplaced

LEMMA SeatsKeptByAppend ==
  ASSUME StoreInv, NEW w \in Workers, CreateAppend(w)
  PROVE  SeatsKept
<1>1. CASE list' = list
  BY <1>1, SeatsKeptIfSame
<1>2. CASE list' = Append(list, NewEvent(call[w]))
  <2>1. /\ ListTypeOK
        /\ DOMAIN list = 1 .. Len(list) /\ Len(list) \in Nat
    BY ListIsSeq DEF StoreInv, TypeOK
  <2>2. call[w] \in CreateCalls
    BY WorkersAndMain DEF CreateAppend, StoreInv, ThreadInv, RequestMatches,
              CreateLabels, ReserveLabels, ShowLabels, ListLabels
  <2>3. \A j \in DOMAIN list : j \in DOMAIN list' /\ list'[j] = list[j]
    BY <1>2, <2>1, <2>2, NewEventType, AppendEvent
  <2> QED BY <2>3 DEF SeatsKept
<1> QED BY <1>1, <1>2 DEF CreateAppend

LEMMA NextSeatsKept ==
  ASSUME StoreInv, [Next]_vars
  PROVE  SeatsKept
<1>1. CASE list' = list
  BY <1>1, SeatsKeptIfSame
<1>2. ASSUME NEW t \in Threads, pc[t] \in EventUsed,
             MutexLock(ev[t], t) \/ MutexUnlock(ev[t])
      PROVE  SeatsKept
  BY <1>2, SeatsKeptByMutex DEF MutexLock, MutexUnlock
<1>3. ASSUME NEW w \in Workers, Create(w)
      PROVE  SeatsKept
  BY <1>1, <1>3, SeatsKeptByAppend DEF Create, CreateLock, CreateFind
<1>4. ASSUME NEW w \in Workers, Reserve(w)
      PROVE  SeatsKept
  <2>1. w \in Threads
    BY WorkersAndMain
  <2>2. CASE ReserveLock(w) \/ ReserveFind(w)
    BY <2>2, <1>1 DEF ReserveLock, ReserveFind, FindUnderRdLock
  <2>3. CASE ReserveMutex(w)
    BY <2>1, <2>3, <1>2 DEF ReserveMutex, EventUsed
  <2>4. CASE ReserveCheck(w)
    BY <2>1, <2>4, <1>1, <1>2 DEF ReserveCheck, EventUsed, EventLocked
  <2>5. CASE ReserveUnlock(w)
    BY <2>1, <2>5, <1>2 DEF ReserveUnlock, EventUsed, EventLocked
  <2> QED BY <1>4, <2>2, <2>3, <2>4, <2>5, SeatsKeptByNumber, SeatsKeptByMark
          DEF Reserve
<1>5. ASSUME NEW w \in Workers, Show(w)
      PROVE  SeatsKept
  <2>1. w \in Threads
    BY WorkersAndMain
  <2>2. CASE ShowLock(w) \/ ShowFind(w) \/ ShowCopy(w)
    BY <2>2, <1>1 DEF ShowLock, ShowFind, FindUnderRdLock, ShowCopy
  <2>3. CASE ShowMutex(w)
    BY <2>1, <2>3, <1>2 DEF ShowMutex, EventUsed
  <2>4. CASE ShowUnlock(w)
    BY <2>1, <2>4, <1>2 DEF ShowUnlock, EventUsed, EventLocked
  <2> QED BY <1>5, <2>2, <2>3, <2>4 DEF Show
<1>6. ASSUME NEW w \in Workers, List(w) \/ Return(w) \/ \E c \in Calls : Invoke(w, c)
      PROVE  SeatsKept
  BY <1>6, <1>1 DEF List, ListLock, ListCount, ListCopy, ListSend, Return, Invoke
<1>7. CASE StatusLock \/ ReportRest
  <2>1. CASE StatusLock \/ StatusWalk \/ SignalLock \/ SignalFind \/ StatusNext
    BY <2>1, <1>1 DEF StatusLock, StatusWalk, SignalLock, SignalFind,
                      FindUnderRdLock, StatusNext
  <2>2. CASE SignalMutex
    BY <2>2, <1>2, WorkersAndMain DEF SignalMutex, EventUsed
  <2>3. CASE SignalPrint
    BY <2>3, <1>2, WorkersAndMain DEF SignalPrint, EventUsed, EventLocked
  <2> QED BY <1>7, <2>1, <2>2, <2>3 DEF ReportRest
<1>8. CASE UNCHANGED vars
  BY <1>8, <1>1 DEF vars
<1> QED BY <1>3, <1>4, <1>5, <1>6, <1>7, <1>8 DEF Next, Serve

(* ems_reserve never frees a reserved seat nor gives it to another         *)
(* reservation, and no call moves an event in the list, so that the struct *)
(* Event* kept across the unlock of the list stays good.                   *)
THEOREM SeatsReservedForever == Spec => ReservedForever
<1>1. StoreInv /\ [Next]_vars => [SeatsKept]_vars
  BY NextSeatsKept
<1> QED BY <1>1, StoreInvariant, PTL DEF Spec, ReservedForever

-----------------------------------------------------------------------------
(* What the calls have done so far, for the count of the reservations and  *)
(* for the refinement of EventStore.  A thread is marking under the last   *)
(* number its event has given, and the seats before its loop counter carry *)
(* it; SHOW and LIST have copied what the event and the list still hold;   *)
(* and a thread has its answer when it is done.                            *)
Place(e, seats, k) == SeatIndex(e, seats[k][1], seats[k][2])

MarkedSoFar(e, seats, k, n) ==
  /\ k \in 1 .. (Len(seats) + 1)
  /\ n > 0 /\ n = e.reservations
  /\ \A j \in 1 .. (k - 1) : e.data[Place(e, seats, j)] = n
CopiedSoFar(e, k, copy) ==
  /\ k <= e.rows * e.cols + 1
  /\ copy = [j \in 1 .. (k - 1) |-> e.data[j - 1]]
AnswerMatches(w) ==
  /\ pc[w] = "idle" <=> call[w] = NoCall
  /\ pc[w] = "done" <=> reply[w] # NoReply
  /\ pc[w] \notin {"showCopy", "listSend", "done"} => buf[w] = <<>>
  /\ pc[w] \in EventUsed => list[ev[w]].id = call[w].id
  /\ Marking(w) => MarkedSoFar(list[ev[w]], call[w].seats, cur[w], rid[w])
  /\ pc[w] = "showCopy" => CopiedSoFar(list[ev[w]], cur[w], buf[w])
  /\ pc[w] \in {"listCopy", "listSend"} => list # <<>> /\ cur[w] = Len(list)
  /\ pc[w] = "listSend" => buf[w] = IdsOf(list)

(* The reservations of an event: the one whose seats are being marked has  *)
(* its number, and perhaps no seat yet.                                    *)
Numbered(e) == e.mutex \in Workers /\ Marking(e.mutex)
Made(e) == IF Numbered(e) THEN e.reservations - 1 ELSE e.reservations
SeatsMatch(i) ==
  LET e == list[i]
  IN /\ \A p \in Places(e) : e.data[p] \in 0 .. e.reservations
     /\ \A n \in 1 .. Made(e) : \E p \in Places(e) : e.data[p] = n

AnswerInv == /\ \A w \in Workers : AnswerMatches(w)
             /\ \A i \in DOMAIN list : SeatsMatch(i)

-----------------------------------------------------------------------------
(* What a step of thread t leaves of the others and of the list.           *)
OthersKept(t) ==
  \A u \in Workers \ {t} :
    /\ pc'[u] = pc[u] /\ call'[u] = call[u] /\ reply'[u] = reply[u] /\ ev'[u] = ev[u]
    /\ rid'[u] = rid[u] /\ cur'[u] = cur[u] /\ buf'[u] = buf[u]
EventsKept(t) ==
  /\ Len(list') = Len(list) \/ writer = t
  /\ \A i \in DOMAIN list :
       /\ i \in DOMAIN list' /\ list'[i].id = list[i].id
       /\ list[i].mutex \notin {NoOne, t} => list'[i] = list[i]
Frame(t) == ListTypeOK' /\ OthersKept(t) /\ EventsKept(t)

LEMMA SameListKept ==
  ASSUME StoreInv, NEW t \in Threads, list' = list
  PROVE  EventsKept(t)
BY DEF EventsKept

(* A step on the event that t uses.                                        *)
LEMMA EventKeptByChange ==
  ASSUME StoreInv, NEW t \in Threads, NEW i \in DOMAIN list, NEW f \in AnyEvent,
         list' = [list EXCEPT ![i] = f], f.id = list[i].id, list[i].mutex \in {NoOne, t}
  PROVE  EventsKept(t)
<1>1. /\ DOMAIN list' = DOMAIN list /\ list'[i] = f /\ Len(list') = Len(list)
      /\ \A j \in DOMAIN list : j # i => list'[j] = list[j]
  BY ReplaceEvent DEF StoreInv, TypeOK
<1> QED BY <1>1 DEF EventsKept

LEMMA HeldEvent ==
  ASSUME StoreInv, NEW t \in Threads, pc[t] \in EventUsed
  PROVE  /\ ev[t] \in DOMAIN list /\ list[ev[t]] \in AnyEvent
         /\ pc[t] \in EventLocked => list[ev[t]].mutex = t
         /\ \A j \in DOMAIN list : j # ev[t] => list[j].mutex # t
BY ListIsSeq DEF StoreInv, TypeOK, ThreadInv, EventLockMatches

LEMMA MutexFields ==
  ASSUME NEW e \in AnyEvent, NEW m \in Threads \cup {NoOne}
  PROVE  LET f == [e EXCEPT !.mutex = m]
         IN /\ f \in AnyEvent /\ f.mutex = m /\ f.id = e.id
            /\ f.rows = e.rows /\ f.cols = e.cols
            /\ f.reservations = e.reservations /\ f.data = e.data
<1>1. PICK d \in Dims : e \in Event(d)
  BY DEF AnyEvent
<1>2. [e EXCEPT !.mutex = m] \in Event(d)
  BY <1>1 DEF Event
<1> QED BY <1>1, <1>2 DEF Event, AnyEvent

LEMMA CountFields ==
  ASSUME NEW e \in AnyEvent, NEW n \in Nat
  PROVE  LET f == [e EXCEPT !.reservations = n]
         IN /\ f \in AnyEvent /\ f.mutex = e.mutex /\ f.id = e.id
            /\ f.rows = e.rows /\ f.cols = e.cols
            /\ f.reservations = n /\ f.data = e.data
<1>1. PICK d \in Dims : e \in Event(d)
  BY DEF AnyEvent
<1>2. [e EXCEPT !.reservations = n] \in Event(d)
  BY <1>1 DEF Event
<1> QED BY <1>1, <1>2 DEF Event, AnyEvent

LEMMA DataFields ==
  ASSUME NEW e \in AnyEvent, NEW a \in [Places(e) -> Nat]
  PROVE  LET f == [e EXCEPT !.data = a]
         IN /\ f \in AnyEvent /\ f.mutex = e.mutex /\ f.id = e.id
            /\ f.rows = e.rows /\ f.cols = e.cols
            /\ f.reservations = e.reservations /\ f.data = a
<1>1. [e EXCEPT !.data = a] \in AnyEvent
  <2>1. e.mutex \in Threads \cup {NoOne} /\ e.reservations \in Nat
    BY AnyEventType
  <2> QED BY <2>1, EventUpdate
<1>2. PICK d \in Dims : e \in Event(d)
  BY DEF AnyEvent
<1> QED BY <1>1, <1>2 DEF Event

LEMMA EventsKeptByMutex ==
  ASSUME StoreInv, NEW t \in Threads, pc[t] \in EventUsed, NEW m \in Threads \cup {NoOne},
         list' = [list EXCEPT ![ev[t]].mutex = m], list[ev[t]].mutex \in {NoOne, t}
  PROVE  EventsKept(t)
<1> DEFINE i == ev[t]
           f == [list[i] EXCEPT !.mutex = m]
<1>1. i \in DOMAIN list /\ list[i] \in AnyEvent
  BY HeldEvent
<1>2. f \in AnyEvent /\ f.id = list[i].id
  BY <1>1, MutexFields
<1>3. list' = [list EXCEPT ![i] = f]
  OBVIOUS
<1> HIDE DEF f
<1> QED BY <1>1, <1>2, <1>3, EventKeptByChange

LEMMA ServeEventsKept ==
  ASSUME StoreInv, NEW w \in Workers, (\E c \in Calls : Invoke(w, c)) \/ Serve(w)
  PROVE  EventsKept(w)
<1>1. w \in Threads /\ w # NoOne /\ ThreadInv(w)
  BY WorkersAndMain DEF StoreInv
<1>2. CASE list' = list
  BY <1>1, <1>2, SameListKept
<1>3. CASE ReserveMutex(w) \/ ShowMutex(w)
  <2>1. /\ pc[w] \in EventUsed /\ list' = [list EXCEPT ![ev[w]].mutex = w]
        /\ list[ev[w]].mutex = NoOne
    BY <1>3 DEF ReserveMutex, ShowMutex, MutexLock, EventUsed
  <2> QED BY <1>1, <2>1, EventsKeptByMutex
<1>4. CASE MutexUnlock(ev[w]) /\ pc[w] \in EventLocked
  <2>1. /\ pc[w] \in EventUsed /\ list' = [list EXCEPT ![ev[w]].mutex = NoOne]
    BY <1>4 DEF MutexUnlock, EventUsed
  <2>2. list[ev[w]].mutex = w
    BY <1>1, <1>4, <2>1, HeldEvent
  <2> QED BY <1>1, <2>1, <2>2, EventsKeptByMutex
<1>5. CASE ReserveNumber(w)
  <2> DEFINE i == ev[w]
             n == list[i].reservations + 1
             f == [list[i] EXCEPT !.reservations = n]
  <2>1. /\ pc[w] \in EventUsed /\ pc[w] \in EventLocked
        /\ list' = [list EXCEPT ![i] = f]
    BY <1>5 DEF ReserveNumber, EventUsed, EventLocked
  <2>2. i \in DOMAIN list /\ list[i] \in AnyEvent /\ list[i].mutex = w
    BY <1>1, <2>1, HeldEvent
  <2>3. n \in Nat
    BY <2>2, AnyEventType
  <2> HIDE DEF n
  <2>4. f \in AnyEvent /\ f.id = list[i].id
    BY <2>2, <2>3, CountFields
  <2> HIDE DEF f
  <2> QED BY <1>1, <2>1, <2>2, <2>4, EventKeptByChange
<1>6. CASE ReserveMark(w)
  <2> DEFINE i == ev[w]
             seats == call[w].seats
             p == SeatIndex(list[i], seats[cur[w]][1], seats[cur[w]][2])
             a == [list[i].data EXCEPT ![p] = rid[w]]
             f == [list[i] EXCEPT !.data = a]
  <2>1. /\ pc[w] \in EventUsed /\ pc[w] \in EventLocked
        /\ list' = [list EXCEPT ![i] = f]
    BY <1>6 DEF ReserveMark, EventUsed, EventLocked
  <2>2. i \in DOMAIN list /\ list[i] \in AnyEvent /\ list[i].mutex = w
    BY <1>1, <2>1, HeldEvent
  <2>3. rid[w] \in Nat /\ list[i].data \in [Places(list[i]) -> Nat]
    BY <2>2, AnyEventType, Domains DEF StoreInv
  <2>4. a \in [Places(list[i]) -> Nat]
    BY <2>3
  <2> HIDE DEF a
  <2>5. f \in AnyEvent /\ f.id = list[i].id
    BY <2>2, <2>4, DataFields
  <2> HIDE DEF f
  <2> QED BY <1>1, <2>1, <2>2, <2>5, EventKeptByChange
<1>7. CASE list' = Append(list, NewEvent(call[w])) /\ pc[w] = "createAppend"
  <2>1. writer = w /\ call[w] \in CreateCalls
    BY <1>1, <1>7 DEF ThreadInv, ListLockMatches, ListWritten, RequestMatches, CreateLabels,
       ReserveLabels, ShowLabels, ListLabels
  <2>2. /\ DOMAIN list = 1 .. Len(list) /\ Len(list) \in Nat
        /\ DOMAIN list' = 1 .. (Len(list) + 1)
        /\ \A j \in DOMAIN list : list'[j] = list[j]
    BY <1>7, <2>1, ListIsSeq, AppendEvent, NewEventType DEF StoreInv, TypeOK
  <2> QED BY <2>1, <2>2 DEF EventsKept
<1>8. CASE \E c \in Calls : Invoke(w, c)
  BY <1>2, <1>8 DEF Invoke
<1>9. CASE Create(w) \/ Return(w)
  BY <1>2, <1>7, <1>9 DEF Create, CreateLock, CreateFind, CreateAppend, Return
<1>10. CASE Reserve(w)
  <2>1. CASE ReserveLock(w) \/ ReserveFind(w)
    BY <1>2, <2>1 DEF ReserveLock, ReserveFind, FindUnderRdLock
  <2>2. CASE ReserveCheck(w) \/ ReserveUnlock(w)
    BY <1>2, <1>4, <2>2 DEF ReserveCheck, ReserveUnlock, EventLocked
  <2> QED BY <1>3, <1>5, <1>6, <1>10, <2>1, <2>2 DEF Reserve
<1>11. CASE Show(w)
  <2>1. CASE ShowLock(w) \/ ShowFind(w) \/ ShowCopy(w)
    BY <1>2, <2>1 DEF ShowLock, ShowFind, FindUnderRdLock, ShowCopy
  <2>2. CASE ShowUnlock(w)
    BY <1>4, <2>2 DEF ShowUnlock, EventLocked
  <2> QED BY <1>3, <1>11, <2>1, <2>2 DEF Show
<1>12. CASE List(w)
  BY <1>2, <1>12 DEF List, ListLock, ListCount, ListCopy, ListSend
<1> QED BY <1>8, <1>9, <1>10, <1>11, <1>12 DEF Serve

LEMMA ReportEventsKept ==
  ASSUME StoreInv, StatusLock \/ ReportRest
  PROVE  EventsKept(Main)
<1>1. Main \in Threads
  BY WorkersAndMain
<1>2. CASE list' = list
  BY <1>1, <1>2, SameListKept
<1>3. CASE SignalMutex
  <2>1. /\ pc[Main] \in EventUsed /\ list' = [list EXCEPT ![ev[Main]].mutex = Main]
        /\ list[ev[Main]].mutex = NoOne
    BY <1>3 DEF SignalMutex, MutexLock, EventUsed
  <2> QED BY <1>1, <2>1, EventsKeptByMutex
<1>4. CASE SignalPrint
  <2>1. /\ pc[Main] \in EventUsed /\ pc[Main] \in EventLocked
        /\ list' = [list EXCEPT ![ev[Main]].mutex = NoOne]
    BY <1>4 DEF SignalPrint, MutexUnlock, EventUsed, EventLocked
  <2>2. list[ev[Main]].mutex = Main
    BY <1>1, <2>1, HeldEvent
  <2> QED BY <1>1, <2>1, <2>2, EventsKeptByMutex
<1>5. CASE StatusLock \/ StatusWalk \/ SignalLock \/ SignalFind \/ StatusNext
  BY <1>2, <1>5 DEF StatusLock, StatusWalk, SignalLock, SignalFind, FindUnderRdLock, StatusNext
<1> QED BY <1>3, <1>4, <1>5 DEF ReportRest

LEMMA ServeOthersKept ==
  ASSUME StoreInv, NEW w \in Workers, (\E c \in Calls : Invoke(w, c)) \/ Serve(w)
  PROVE  OthersKept(w)
<1>1. TypeOK /\ \A u \in Workers : u \in Threads
  BY WorkersAndMain DEF StoreInv
<1>2. CASE \E c \in Calls : Invoke(w, c)
  BY <1>1, <1>2, Domains DEF Invoke, Goto, OthersKept
<1>3. CASE Create(w) \/ Return(w)
  BY <1>1, <1>3, Domains
     DEF Create, CreateLock, CreateFind, CreateAppend, Return, Finish, Goto, OthersKept
<1>4. CASE ReserveLock(w) \/ ReserveFind(w) \/ ShowLock(w) \/ ShowFind(w)
  BY <1>1, <1>4, Domains
     DEF ReserveLock, ReserveFind, ShowLock, ShowFind, FindUnderRdLock, Finish, Goto, OthersKept
<1>5. CASE ReserveMutex(w) \/ ReserveCheck(w) \/ ReserveNumber(w) \/ ReserveMark(w)
           \/ ReserveUnlock(w)
  BY <1>1, <1>5, Domains
     DEF ReserveMutex, ReserveCheck, ReserveNumber, ReserveMark, ReserveUnlock, Finish, Goto,
         OthersKept
<1>6. CASE ShowMutex(w) \/ ShowCopy(w) \/ ShowUnlock(w)
  BY <1>1, <1>6, Domains DEF ShowMutex, ShowCopy, ShowUnlock, Finish, Goto, OthersKept
<1>7. CASE List(w)
  BY <1>1, <1>7, Domains
     DEF List, ListLock, ListCount, ListCopy, ListSend, Finish, Goto, OthersKept
<1> QED BY <1>2, <1>3, <1>4, <1>5, <1>6, <1>7 DEF Serve, Reserve, Show

LEMMA ReportOthersKept ==
  ASSUME StoreInv, StatusLock \/ ReportRest
  PROVE  OthersKept(Main)
<1>1. TypeOK /\ \A u \in Workers : u \in Threads /\ u # Main
  BY WorkersAndMain DEF StoreInv
<1>2. CASE StatusLock \/ StatusWalk \/ StatusNext
  BY <1>1, <1>2, Domains DEF StatusLock, StatusWalk, StatusNext, Goto, OthersKept
<1>3. CASE SignalLock \/ SignalFind \/ SignalMutex \/ SignalPrint
  BY <1>1, <1>3, Domains
     DEF SignalLock, SignalFind, FindUnderRdLock, SignalMutex, SignalPrint, Goto, OthersKept
<1> QED BY <1>2, <1>3 DEF ReportRest

LEMMA ServeFrame ==
  ASSUME StoreInv, NEW w \in Workers, (\E c \in Calls : Invoke(w, c)) \/ Serve(w)
  PROVE  Frame(w)
<1>1. ListTypeOK'
  BY NextStoreInv DEF Next, StoreInv, TypeOK
<1> QED BY <1>1, ServeOthersKept, ServeEventsKept DEF Frame

LEMMA ReportFrame ==
  ASSUME StoreInv, StatusLock \/ ReportRest
  PROVE  Frame(Main)
<1>1. ListTypeOK'
  BY NextStoreInv DEF Next, StoreInv, TypeOK
<1> QED BY <1>1, ReportOthersKept, ReportEventsKept DEF Frame

-----------------------------------------------------------------------------
(* The answer of a thread survives the steps of the others.                *)
LEMMA OthersAnswer ==
  ASSUME StoreInv, NEW t \in Threads, Frame(t), NEW u \in Workers, u # t, AnswerMatches(u)
  PROVE  AnswerMatches(u)'
<1>1. /\ u \in Threads /\ u # NoOne /\ t # NoOne /\ ThreadInv(u) /\ TypeOK
      /\ pc'[u] = pc[u] /\ call'[u] = call[u] /\ reply'[u] = reply[u] /\ ev'[u] = ev[u]
      /\ rid'[u] = rid[u] /\ cur'[u] = cur[u] /\ buf'[u] = buf[u]
  BY WorkersAndMain DEF StoreInv, Frame, OthersKept
<1>2. ASSUME pc[u] \in EventUsed
      PROVE  ev[u] \in DOMAIN list /\ list'[ev[u]].id = list[ev[u]].id
  BY <1>1, <1>2 DEF Frame, EventsKept, ThreadInv, EventLockMatches
<1>3. ASSUME pc[u] \in EventLocked
      PROVE  list'[ev[u]] = list[ev[u]]
  <2>1. ev[u] \in DOMAIN list /\ list[ev[u]].mutex = u
    BY <1>1, <1>3, HeldEvent DEF EventUsed
  <2> QED BY <1>1, <2>1 DEF Frame, EventsKept
<1>4. ASSUME pc[u] \in {"listCopy", "listSend"}
      PROVE  Len(list') = Len(list) /\ IdsOf(list') = IdsOf(list) /\ (list # <<>> => list' # <<>>)
  <2>1. writer # t
    <3>1. readers[u] > 0 /\ readers[u] \in Nat
      BY <1>1, <1>4, Domains DEF ThreadInv, ListLockMatches, ListRead
    <3> QED BY <1>1, <3>1 DEF ThreadInv, ListLockMatches
  <2>2. Len(list') = Len(list) /\ \A i \in DOMAIN list : list'[i].id = list[i].id
    BY <2>1 DEF Frame, EventsKept
  <2>3. /\ DOMAIN list = 1 .. Len(list) /\ Len(list) \in Nat /\ list \in Seq(AnyEvent)
        /\ list' \in Seq(AnyEvent)
    BY <1>1, ListIsSeq DEF TypeOK, Frame, ListTypeOK, AnyEvent
  <2>4. DOMAIN list' = DOMAIN list
    BY <2>2, <2>3
  <2>5. IdsOf(list') = IdsOf(list)
    BY <2>2, <2>4 DEF IdsOf
  <2> QED BY <2>2, <2>3, <2>5
<1>5. pc[u] \in EventUsed => list'[ev[u]].id = call[u].id
  BY <1>2 DEF AnswerMatches
<1>6. Marking(u) => MarkedSoFar(list'[ev[u]], call[u].seats, cur[u], rid[u])
  BY <1>3 DEF AnswerMatches, Marking, EventLocked
<1>7. pc[u] = "showCopy" => CopiedSoFar(list'[ev[u]], cur[u], buf[u])
  BY <1>3 DEF AnswerMatches, EventLocked
<1>8. /\ pc[u] \in {"listCopy", "listSend"} => list' # <<>> /\ cur[u] = Len(list')
      /\ pc[u] = "listSend" => buf[u] = IdsOf(list')
  BY <1>4 DEF AnswerMatches
<1> QED BY <1>1, <1>5, <1>6, <1>7, <1>8 DEF AnswerMatches, Marking

LEMMA AnswersDiffer == Done # NoReply /\ Failed # NoReply /\ \A d, b : Reply(0, d, b) # NoReply
BY DEF Done, Failed, NoReply, Reply

LEMMA CallsTyped ==
  ASSUME NEW c \in Calls
  PROVE  /\ c # NoCall
         /\ c \in CreateCalls <=> c.op = "create"
         /\ c \in ReserveCalls <=> c.op = "reserve"
         /\ c \in ShowCalls <=> c.op = "show"
         /\ c \in ListCalls <=> c.op = "list"
BY DEF Calls, CreateCalls, ReserveCalls, ShowCalls, ListCalls, NoCall

(* Steps between labels at which a thread has copied nothing.              *)
Unanswered == Labels \ {"idle", "done", "reserveMark", "showCopy", "listCopy", "listSend"}
LEMMA QuietAnswer ==
  ASSUME StoreInv, NEW w \in Workers, AnswerMatches(w), NEW label \in Unanswered,
         pc[w] \in Unanswered, Goto(w, label), reply' = reply, buf' = buf, call' = call,
         label \in EventUsed => list'[ev'[w]].id = call[w].id
  PROVE  AnswerMatches(w)'
<1>1. TypeOK /\ w \in Threads /\ w # Main
  BY WorkersAndMain DEF StoreInv
<1>2. pc'[w] = label
  BY <1>1, Domains DEF Goto
<1> QED BY <1>1, <1>2 DEF AnswerMatches, Unanswered, Marking

LEMMA FinishAnswer ==
  ASSUME StoreInv, NEW w \in Workers, AnswerMatches(w), NEW r, r # NoReply, Finish(w, r),
         pc[w] # "idle", call' = call
  PROVE  AnswerMatches(w)'
<1>1. TypeOK /\ w \in Threads
  BY WorkersAndMain DEF StoreInv
<1>2. pc'[w] = "done" /\ reply'[w] = r
  BY <1>1, Domains DEF Finish, Goto
<1> QED BY <1>1, <1>2 DEF AnswerMatches, EventUsed, EventLocked, Marking

LEMMA InvokeAnswer ==
  ASSUME StoreInv, NEW w \in Workers, AnswerMatches(w), NEW c \in Calls, Invoke(w, c)
  PROVE  AnswerMatches(w)'
<1>1. TypeOK /\ w \in Threads
  BY WorkersAndMain DEF StoreInv
<1>2. /\ pc[w] = "idle" /\ pc'[w] = FirstStep[c.op] /\ call'[w] = c
      /\ reply' = reply /\ buf' = buf
  BY <1>1, Domains DEF Invoke, Goto
<1>3. FirstStep[c.op] \in {"createLock", "reserveLock", "showLock", "listLock"}
  BY CallsTyped DEF Calls, CreateCalls, ReserveCalls, ShowCalls, ListCalls, FirstStep
<1> QED BY <1>1, <1>2, <1>3, CallsTyped DEF AnswerMatches, EventUsed, EventLocked, Marking

LEMMA ReturnAnswer ==
  ASSUME StoreInv, NEW w \in Workers, AnswerMatches(w), Return(w)
  PROVE  AnswerMatches(w)'
<1>1. TypeOK /\ w \in Threads
  BY WorkersAndMain DEF StoreInv
<1>2. pc'[w] = "idle" /\ call'[w] = NoCall /\ reply'[w] = NoReply /\ buf'[w] = <<>>
  BY <1>1, Domains DEF Return, Goto
<1> QED BY <1>1, <1>2 DEF AnswerMatches, EventUsed, EventLocked, Marking

LEMMA FindAnswer ==
  ASSUME StoreInv, NEW w \in Workers, AnswerMatches(w), ReserveFind(w) \/ ShowFind(w)
  PROVE  AnswerMatches(w)'
<1>1. TypeOK /\ w \in Threads /\ pc[w] \in {"reserveFind", "showFind"}
      /\ call' = call /\ buf' = buf
  BY WorkersAndMain DEF StoreInv, ReserveFind, ShowFind
<1>2. CASE Finish(w, Failed)
  BY <1>1, <1>2, AnswersDiffer, FinishAnswer
<1>3. ASSUME NEW i \in DOMAIN list, FirstWithId(i, call[w].id), ev' = [ev EXCEPT ![w] = i],
             list' = list, reply' = reply, NEW label \in {"reserveMutex", "showMutex"},
             Goto(w, label)
      PROVE  AnswerMatches(w)'
  <2>1. list'[ev'[w]].id = call[w].id
    BY <1>1, <1>3, Domains DEF FirstWithId
  <2>2. label \in Unanswered /\ pc[w] \in Unanswered
    BY <1>1 DEF Unanswered, Labels
  <2> QED BY <1>1, <1>3, <2>1, <2>2, QuietAnswer
<1> QED BY <1>2, <1>3 DEF ReserveFind, ShowFind, FindUnderRdLock

LEMMA LockAnswer ==
  ASSUME StoreInv, NEW w \in Workers, AnswerMatches(w),
         \/ CreateLock(w) \/ ReserveLock(w) \/ ShowLock(w) \/ ListLock(w)
         \/ CreateFind(w) /\ reply' = reply
  PROVE  AnswerMatches(w)'
<1>1. TypeOK /\ w \in Threads /\ call' = call /\ buf' = buf /\ reply' = reply
  BY WorkersAndMain DEF StoreInv, CreateLock, ReserveLock, ShowLock, ListLock, CreateFind
<1>2. PICK label \in {"createFind", "createAppend", "reserveFind", "showFind", "listCount"} :
        Goto(w, label) \/ (CreateFind(w) /\ Finish(w, Failed))
  BY DEF CreateLock, ReserveLock, ShowLock, ListLock, CreateFind
<1>3. pc[w] \in {"createLock", "createFind", "reserveLock", "showLock", "listLock"}
  BY DEF CreateLock, ReserveLock, ShowLock, ListLock, CreateFind
<1>4. CASE Goto(w, label)
  <2>1. label \in Unanswered /\ pc[w] \in Unanswered /\ label \notin EventUsed
    BY <1>3 DEF Unanswered, Labels, EventUsed, EventLocked
  <2> QED BY <1>1, <1>4, <2>1, QuietAnswer
<1>5. CASE CreateFind(w) /\ Finish(w, Failed)
  BY <1>1, <1>3, <1>5, AnswersDiffer, FinishAnswer
<1> QED BY <1>2, <1>4, <1>5

LEMMA ReserveAnswer ==
  ASSUME StoreInv, NEW w \in Workers, AnswerMatches(w), Frame(w),
         ReserveMutex(w) \/ (ReserveCheck(w) /\ reply' = reply)
  PROVE  AnswerMatches(w)'
<1>1. /\ TypeOK /\ w \in Threads /\ call' = call /\ buf' = buf /\ reply' = reply
      /\ ev' = ev /\ pc[w] \in {"reserveMutex", "reserveCheck"}
  BY WorkersAndMain DEF StoreInv, ReserveMutex, ReserveCheck
<1>2. list'[ev'[w]].id = call[w].id
  BY <1>1, HeldEvent DEF AnswerMatches, Frame, EventsKept, EventUsed, EventLocked
<1>3. CASE Goto(w, "reserveCheck") \/ Goto(w, "reserveNumber")
  <2>1. PICK label \in {"reserveCheck", "reserveNumber"} : Goto(w, label)
    BY <1>3
  <2>2. label \in Unanswered /\ pc[w] \in Unanswered
    BY <1>1 DEF Unanswered, Labels
  <2> QED BY <1>1, <1>2, <2>1, <2>2, QuietAnswer
<1>4. CASE Finish(w, Failed)
  BY <1>1, <1>4, AnswersDiffer, FinishAnswer
<1> QED BY <1>3, <1>4 DEF ReserveMutex, ReserveCheck

LEMMA ReserveNumberAnswer ==
  ASSUME StoreInv, NEW w \in Workers, AnswerMatches(w), ReserveNumber(w)
  PROVE  AnswerMatches(w)'
<1> DEFINE i == ev[w]
           n == list[i].reservations + 1
           f == [list[i] EXCEPT !.reservations = n]
<1>1. /\ TypeOK /\ ListTypeOK /\ ThreadInv(w) /\ w \in Threads /\ pc[w] = "reserveNumber"
      /\ w # Main
  BY WorkersAndMain DEF StoreInv, ReserveNumber, TypeOK
<1>2. /\ i \in DOMAIN list /\ list[i] \in AnyEvent
  BY <1>1, HeldEvent DEF EventUsed, EventLocked
<1>3. n \in Nat /\ n > 0
  BY <1>2, AnyEventType
<1> HIDE DEF n
<1>4. f \in AnyEvent /\ f.id = list[i].id /\ f.reservations = n
  BY <1>2, <1>3, CountFields
<1> HIDE DEF f
<1>5. list'[i] = f
  BY <1>1, <1>2, <1>4, ReplaceEvent DEF ReserveNumber, f, n
<1>6. /\ pc'[w] = "reserveMark" /\ rid'[w] = n /\ cur'[w] = 1
      /\ ev' = ev /\ call' = call /\ reply' = reply /\ buf' = buf
  BY <1>1, Domains DEF ReserveNumber, Goto, n
<1>7. call[w].seats \in Seq(Nat \X Nat)
  BY <1>1 DEF ThreadInv, RequestMatches, CreateLabels, ReserveLabels, ShowLabels, ListLabels,
     ReserveCalls
<1>8. MarkedSoFar(f, call[w].seats, 1, n)
  BY <1>3, <1>4, <1>7 DEF MarkedSoFar
<1>9. f.id = call[w].id
  BY <1>1, <1>4 DEF AnswerMatches, EventUsed, EventLocked
<1> QED BY <1>1, <1>5, <1>6, <1>8, <1>9 DEF AnswerMatches, Marking

LEMMA PlaceInRange ==
  ASSUME NEW e \in AnyEvent, NEW seats \in Seq(Nat \X Nat), RequestInBounds(e, seats),
         NEW k \in 1 .. Len(seats)
  PROVE  Place(e, seats, k) \in Places(e)
<1>1. seats[k] \in Nat \X Nat /\ k \in DOMAIN seats /\ e.rows \in Nat /\ e.cols \in Nat
  BY AnyEventType
<1>2. <<seats[k][1], seats[k][2]>> \in Coords(e)
  BY <1>1 DEF RequestInBounds, InBounds, Coords
<1> QED BY <1>1, <1>2, SeatIndexInRange DEF Place

(* The event as a turn of the marking loop leaves it.                      *)
LEMMA MarkedEvent ==
  ASSUME StoreInv, NEW w \in Workers, AnswerMatches(w), ReserveMark(w)
  PROVE  LET i == ev[w]
             e == list[i]
             p == Place(e, call[w].seats, cur[w])
         IN /\ i \in DOMAIN list /\ e \in AnyEvent /\ list'[i] \in AnyEvent
            /\ e.mutex = w /\ e.data \in [Places(e) -> Nat]
            /\ p \in Places(e) /\ e.data[p] \in {0, rid[w]}
            /\ cur[w] \in 1 .. Len(call[w].seats) /\ call[w].seats \in Seq(Nat \X Nat)
            /\ RequestInBounds(e, call[w].seats)
            /\ list'[i].mutex = w /\ list'[i].id = e.id /\ list'[i].rows = e.rows
            /\ list'[i].cols = e.cols /\ list'[i].reservations = e.reservations
            /\ list'[i].data = [e.data EXCEPT ![p] = rid[w]]
            /\ DOMAIN list' = DOMAIN list
            /\ \A j \in DOMAIN list : j # i => list'[j] = list[j]
<1> DEFINE i == ev[w]
           e == list[i]
           seats == call[w].seats
           p == Place(e, seats, cur[w])
           a == [e.data EXCEPT ![p] = rid[w]]
           f == [e EXCEPT !.data = a]
<1>1. /\ TypeOK /\ ListTypeOK /\ ThreadInv(w) /\ w \in Threads /\ w # Main
      /\ pc[w] = "reserveMark" /\ cur[w] <= Len(seats) /\ list' = [list EXCEPT ![i] = f]
  BY WorkersAndMain DEF StoreInv, ReserveMark, TypeOK, Place
<1>2. /\ i \in DOMAIN list /\ e \in AnyEvent /\ e.mutex = w
      /\ e.data \in [Places(e) -> Nat] /\ rid[w] \in Nat /\ cur[w] \in Nat
  BY <1>1, HeldEvent, AnyEventType, Domains DEF EventUsed, EventLocked
<1>3. seats \in Seq(Nat \X Nat) /\ Len(seats) \in Nat
  BY <1>1 DEF ThreadInv, RequestMatches, CreateLabels, ReserveLabels, ShowLabels, ListLabels,
     ReserveCalls
<1>4. /\ RequestInBounds(e, seats) /\ cur[w] > 0
      /\ \A k \in DOMAIN seats : e.data[Place(e, seats, k)] \in {0, rid[w]}
  BY <1>1 DEF ThreadInv, SeatsFree, Place
<1>5. cur[w] \in 1 .. Len(seats) /\ cur[w] \in DOMAIN seats
  BY <1>1, <1>2, <1>3, <1>4
<1>6. p \in Places(e) /\ e.data[p] \in {0, rid[w]}
  <2> HIDE DEF e, seats
  <2> QED BY <1>2, <1>3, <1>4, <1>5, PlaceInRange
<1>7. a \in [Places(e) -> Nat]
  BY <1>2, <1>6
<1> HIDE DEF a
<1>8. /\ f \in AnyEvent /\ f.mutex = w /\ f.id = e.id /\ f.rows = e.rows /\ f.cols = e.cols
      /\ f.reservations = e.reservations /\ f.data = a
  BY <1>2, <1>7, DataFields
<1> HIDE DEF f
<1>9. /\ DOMAIN list' = DOMAIN list /\ list'[i] = f
      /\ \A j \in DOMAIN list : j # i => list'[j] = list[j]
  BY <1>1, <1>2, <1>8, ReplaceEvent
<1> QED BY <1>2, <1>3, <1>4, <1>5, <1>6, <1>8, <1>9 DEF a

LEMMA ReserveMarkAnswer ==
  ASSUME StoreInv, NEW w \in Workers, AnswerMatches(w), ReserveMark(w)
  PROVE  AnswerMatches(w)'
<1> DEFINE i == ev[w]
           e == list[i]
           seats == call[w].seats
           p == Place(e, seats, cur[w])
           f == list'[i]
<1>1. /\ TypeOK /\ ThreadInv(w) /\ w \in Threads /\ pc[w] = "reserveMark" /\ pc' = pc
      /\ ev' = ev /\ rid' = rid /\ call' = call /\ reply' = reply /\ buf' = buf
      /\ cur'[w] = cur[w] + 1
  BY WorkersAndMain, Domains DEF StoreInv, ReserveMark
<1>2. /\ e \in AnyEvent /\ e.data \in [Places(e) -> Nat] /\ p \in Places(e)
      /\ cur[w] \in 1 .. Len(seats) /\ seats \in Seq(Nat \X Nat)
      /\ RequestInBounds(e, seats)
      /\ f.id = e.id /\ f.rows = e.rows /\ f.cols = e.cols
      /\ f.reservations = e.reservations /\ f.data = [e.data EXCEPT ![p] = rid[w]]
  BY MarkedEvent
<1>3. MarkedSoFar(e, seats, cur[w], rid[w]) /\ e.id = call[w].id
  BY <1>1 DEF AnswerMatches, Marking, EventUsed, EventLocked
<1>4. Len(seats) \in Nat /\ cur[w] + 1 \in 1 .. (Len(seats) + 1)
  BY <1>2
<1>5. ASSUME NEW j \in 1 .. (cur[w] + 1 - 1)
      PROVE  f.data[Place(f, seats, j)] = rid[w]
  <2>1. Place(f, seats, j) = Place(e, seats, j)
    BY <1>2 DEF Place, SeatIndex
  <2>2. j \in 1 .. Len(seats) /\ (j \in 1 .. (cur[w] - 1) \/ j = cur[w])
    BY <1>2, <1>4
  <2>3. Place(e, seats, j) \in Places(e)
    <3> HIDE DEF e, seats
    <3> QED BY <1>2, <2>2, PlaceInRange
  <2>4. j \in 1 .. (cur[w] - 1) => e.data[Place(e, seats, j)] = rid[w]
    BY <1>3 DEF MarkedSoFar
  <2> HIDE DEF e, f
  <2> QED BY <1>2, <2>1, <2>2, <2>3, <2>4
<1>6. MarkedSoFar(f, seats, cur[w] + 1, rid[w])
  BY <1>2, <1>3, <1>4, <1>5, SMTT(30) DEF MarkedSoFar
<1> QED BY <1>1, <1>2, <1>3, <1>6 DEF AnswerMatches, Marking

LEMMA ShowMutexAnswer ==
  ASSUME StoreInv, NEW w \in Workers, AnswerMatches(w), ShowMutex(w), Frame(w)
  PROVE  AnswerMatches(w)'
<1> DEFINE i == ev[w]
           f == [list[i] EXCEPT !.mutex = w]
<1>1. /\ TypeOK /\ ListTypeOK /\ w \in Threads /\ pc[w] = "showMutex" /\ pc'[w] = "showCopy"
      /\ cur'[w] = 1 /\ ev' = ev /\ call' = call /\ reply' = reply /\ buf' = buf
      /\ list' = [list EXCEPT ![i] = f]
  BY WorkersAndMain, Domains DEF StoreInv, ShowMutex, MutexLock, Goto, TypeOK
<1>2. i \in DOMAIN list /\ list[i] \in AnyEvent
  BY <1>1, HeldEvent DEF EventUsed
<1>3. f \in AnyEvent /\ f.id = list[i].id
  BY <1>1, <1>2, MutexFields
<1> HIDE DEF f
<1>4. list'[i] = f
  BY <1>1, <1>2, <1>3, ReplaceEvent
<1>5. buf[w] = <<>> /\ list[i].id = call[w].id
  BY <1>1 DEF AnswerMatches, EventUsed
<1>6. CopiedSoFar(f, 1, <<>>)
  <2>1. f.rows \in Nat /\ f.cols \in Nat
    BY <1>3, AnyEventType
  <2>2. f.rows * f.cols \in Nat
    BY <2>1, Z3
  <2>3. 1 <= f.rows * f.cols + 1
    <3> DEFINE n == f.rows * f.cols
    <3> HIDE DEF n
    <3>1. n \in Nat => 1 <= n + 1
      OBVIOUS
    <3> QED BY <2>2, <3>1 DEF n
  <2>4. <<>> = [j \in 1 .. (1 - 1) |-> f.data[j - 1]]
    OBVIOUS
  <2> QED BY <2>3, <2>4 DEF CopiedSoFar
<1> QED BY <1>1, <1>3, <1>4, <1>5, <1>6 DEF AnswerMatches, Marking

LEMMA ShowCopyAnswer ==
  ASSUME StoreInv, NEW w \in Workers, AnswerMatches(w), ShowCopy(w)
  PROVE  AnswerMatches(w)'
<1> DEFINE e == list[ev[w]]
           k == cur[w]
           seat == RowMajor(e, k)
           value == e.data[SeatIndex(e, seat[1], seat[2])]
           n == e.rows * e.cols
<1>1. /\ TypeOK /\ ThreadInv(w) /\ w \in Threads /\ pc[w] = "showCopy" /\ pc' = pc
      /\ k <= n /\ buf'[w] = Append(buf[w], value) /\ cur'[w] = k + 1
      /\ list' = list /\ ev' = ev /\ call' = call /\ reply' = reply
  BY WorkersAndMain, Domains DEF StoreInv, ShowCopy
<1>2. /\ e \in AnyEvent /\ k \in Nat /\ k > 0 /\ buf[w] \in Seq(Nat)
      /\ e.rows \in Nat /\ e.cols \in Nat /\ e.data \in [Places(e) -> Nat]
  BY <1>1, HeldEvent, AnyEventType, Domains DEF EventUsed, EventLocked, ThreadInv, CopyInPlan
<1>3. buf[w] = [j \in 1 .. (k - 1) |-> e.data[j - 1]] /\ e.id = call[w].id
  BY <1>1 DEF AnswerMatches, CopiedSoFar, EventUsed, EventLocked
<1>4. n \in Nat /\ k \in 1 .. n
  <2>1. n \in Nat
    BY <1>2, Z3
  <2> HIDE DEF n
  <2> QED BY <1>1, <1>2, <2>1
<1>5. value = e.data[k - 1]
  BY <1>2, <1>4, RowMajorIndex
<1> HIDE DEF n
<1>6. \A j \in 1 .. k : e.data[j - 1] \in Nat
  <2>1. \A j \in 1 .. k : j - 1 \in Places(e)
    BY <1>4 DEF Places, n
  <2> QED BY <1>2, <2>1
<1> DEFINE m == k + 1
<1> HIDE DEF value, e, m
<1>7. Append(buf[w], value) = [j \in 1 .. (m - 1) |-> e.data[j - 1]]
  <2> DEFINE g == [j \in 1 .. k |-> e.data[j - 1]]
             x == e.data[k - 1]
  <2>1. g \in Seq(Nat) /\ Len(g) = k /\ x \in Nat
    <3>1. g \in [1 .. k -> Nat]
      BY <1>6
    <3> HIDE DEF g
    <3>2. g \in Seq(Nat)
      BY <1>2, <3>1
    <3>3. Len(g) = k
      BY <1>2, <3>1, <3>2
    <3>4. k \in 1 .. k
      BY <1>2
    <3> QED BY <1>6, <3>2, <3>3, <3>4
  <2>2. Len(buf[w]) = k - 1
    <3>1. DOMAIN buf[w] = 1 .. (k - 1) /\ DOMAIN buf[w] = 1 .. Len(buf[w]) /\ k - 1 \in Nat
      BY <1>2, <1>3
    <3>2. Len(buf[w]) \in Nat
      BY <1>2
    <3> QED BY <3>1, <3>2
  <2>3. Append(buf[w], x) \in Seq(Nat) /\ Len(Append(buf[w], x)) = k
    BY <1>2, <2>1, <2>2
  <2>4. \A j \in 1 .. k : Append(buf[w], x)[j] = g[j]
    <3>1. \A j \in 1 .. (k - 1) : Append(buf[w], x)[j] = buf[w][j]
      BY <1>2, <2>1, <2>2
    <3>2. Append(buf[w], x)[k] = x
      BY <1>2, <2>1, <2>2
    <3> QED BY <1>2, <1>3, <3>1, <3>2
  <2> HIDE DEF x, g
  <2>5. Append(buf[w], x) = g
    BY <2>1, <2>3, <2>4, SeqEqual
  <2>6. m - 1 = k
    BY <1>2 DEF m
  <2> QED BY <1>5, <2>5, <2>6 DEF x, g
<1>8. m <= e.rows * e.cols + 1
  <2>1. k + 1 <= n + 1
    BY <1>4
  <2> QED BY <2>1 DEF n, m
<1>9. CopiedSoFar(e, m, buf'[w])
  BY <1>1, <1>7, <1>8 DEF CopiedSoFar
<1> QED BY <1>1, <1>3, <1>9 DEF AnswerMatches, Marking, e, m

LEMMA ListAnswer ==
  ASSUME StoreInv, NEW w \in Workers, AnswerMatches(w), ListCount(w) \/ ListCopy(w)
  PROVE  AnswerMatches(w)'
<1>1. TypeOK /\ w \in Threads
  BY WorkersAndMain DEF StoreInv
<1>2. CASE ListCount(w) /\ list = <<>>
  BY <1>1, <1>2, AnswersDiffer, FinishAnswer DEF ListCount
<1>3. CASE ListCount(w) /\ list # <<>>
  <2>1. /\ pc[w] = "listCount" /\ pc'[w] = "listCopy" /\ cur'[w] = Len(list)
        /\ list' = list /\ call' = call /\ reply' = reply /\ buf' = buf
    BY <1>1, <1>3, Domains DEF ListCount, Goto
  <2> QED BY <1>3, <2>1 DEF AnswerMatches, EventUsed, EventLocked, Marking
<1>4. CASE ListCopy(w)
  <2>1. /\ pc[w] = "listCopy" /\ pc'[w] = "listSend" /\ buf'[w] = IdsOf(list)
        /\ list' = list /\ call' = call /\ reply' = reply /\ cur' = cur
    BY <1>1, <1>4, Domains DEF ListCopy, Goto
  <2> QED BY <2>1 DEF AnswerMatches, EventUsed, EventLocked, Marking
<1> QED BY <1>2, <1>3, <1>4

LEMMA OwnAnswer ==
  ASSUME StoreInv, NEW w \in Workers, AnswerMatches(w), Frame(w),
         (\E c \in Calls : Invoke(w, c)) \/ Serve(w)
  PROVE  AnswerMatches(w)'
<1>1. CASE Create(w)
  <2>1. CASE CreateFind(w) /\ reply' # reply
    BY <2>1, AnswersDiffer, FinishAnswer DEF CreateFind
  <2>2. CASE CreateAppend(w)
    <3>1. PICK r \in {Done, Failed} : Finish(w, r)
      BY <2>2 DEF CreateAppend
    <3> QED BY <2>2, <3>1, AnswersDiffer, FinishAnswer DEF CreateAppend
  <2> QED BY <1>1, <2>1, <2>2, LockAnswer DEF Create
<1>2. CASE Reserve(w)
  <2>1. CASE ReserveCheck(w) /\ reply' # reply
    BY <2>1, AnswersDiffer, FinishAnswer DEF ReserveCheck
  <2>2. CASE ReserveUnlock(w)
    BY <2>2, AnswersDiffer, FinishAnswer DEF ReserveUnlock
  <2> QED BY <1>2, <2>1, <2>2, LockAnswer, FindAnswer, ReserveAnswer, ReserveNumberAnswer,
             ReserveMarkAnswer DEF Reserve
<1>3. CASE Show(w)
  <2>1. CASE ShowUnlock(w)
    BY <2>1, AnswersDiffer, FinishAnswer DEF ShowUnlock
  <2> QED BY <1>3, <2>1, LockAnswer, FindAnswer, ShowMutexAnswer, ShowCopyAnswer DEF Show
<1>4. CASE List(w)
  <2>1. CASE ListSend(w)
    BY <2>1, AnswersDiffer, FinishAnswer DEF ListSend
  <2> QED BY <1>4, <2>1, LockAnswer, ListAnswer DEF List
<1> QED BY <1>1, <1>2, <1>3, <1>4, InvokeAnswer, ReturnAnswer DEF Serve

-----------------------------------------------------------------------------
(* The count of the reservations.                                          *)
LEMMA MutexChange ==
  ASSUME StoreInv, NEW t \in Threads, pc[t] \in EventUsed, NEW m \in Threads \cup {NoOne},
         list' = [list EXCEPT ![ev[t]].mutex = m]
  PROVE  LET i == ev[t]
             e == list[i]
         IN /\ i \in DOMAIN list /\ e \in AnyEvent /\ list'[i] \in AnyEvent
            /\ list'[i].mutex = m /\ list'[i].id = e.id /\ list'[i].rows = e.rows
            /\ list'[i].cols = e.cols /\ list'[i].reservations = e.reservations
            /\ list'[i].data = e.data
            /\ DOMAIN list' = DOMAIN list
            /\ \A j \in DOMAIN list : j # i => list[j].mutex # t /\ list'[j] = list[j]
<1> DEFINE i == ev[t]
           f == [list[i] EXCEPT !.mutex = m]
<1>1. /\ i \in DOMAIN list /\ list[i] \in AnyEvent /\ ListTypeOK
      /\ \A j \in DOMAIN list : j # i => list[j].mutex # t
  BY HeldEvent DEF StoreInv, TypeOK
<1>2. /\ f \in AnyEvent /\ f.mutex = m /\ f.id = list[i].id /\ f.rows = list[i].rows
      /\ f.cols = list[i].cols /\ f.reservations = list[i].reservations
      /\ f.data = list[i].data
  BY <1>1, MutexFields
<1>3. list' = [list EXCEPT ![i] = f]
  OBVIOUS
<1> HIDE DEF f
<1>4. /\ DOMAIN list' = DOMAIN list /\ list'[i] = f
      /\ \A j \in DOMAIN list : j # i => list'[j] = list[j]
  BY <1>1, <1>2, <1>3, ReplaceEvent
<1> QED BY <1>1, <1>2, <1>4

LEMMA NumberedEvent ==
  ASSUME StoreInv, NEW w \in Workers, ReserveNumber(w)
  PROVE  LET i == ev[w]
             e == list[i]
         IN /\ i \in DOMAIN list /\ e \in AnyEvent /\ list'[i] \in AnyEvent
            /\ e.mutex = w /\ list'[i].mutex = w /\ list'[i].id = e.id
            /\ list'[i].rows = e.rows /\ list'[i].cols = e.cols
            /\ list'[i].reservations = e.reservations + 1 /\ list'[i].data = e.data
            /\ DOMAIN list' = DOMAIN list
            /\ \A j \in DOMAIN list : j # i => list[j].mutex # w /\ list'[j] = list[j]
<1> DEFINE i == ev[w]
           n == list[i].reservations + 1
           f == [list[i] EXCEPT !.reservations = n]
<1>1. w \in Threads /\ pc[w] = "reserveNumber" /\ ListTypeOK /\ list' = [list EXCEPT ![i] = f]
  BY WorkersAndMain DEF ReserveNumber, StoreInv, TypeOK
<1>2. /\ i \in DOMAIN list /\ list[i] \in AnyEvent /\ list[i].mutex = w
      /\ \A j \in DOMAIN list : j # i => list[j].mutex # w
  BY <1>1, HeldEvent DEF EventUsed, EventLocked
<1>3. n \in Nat
  BY <1>2, AnyEventType
<1> HIDE DEF n
<1>4. /\ f \in AnyEvent /\ f.mutex = w /\ f.id = list[i].id /\ f.rows = list[i].rows
      /\ f.cols = list[i].cols /\ f.reservations = n /\ f.data = list[i].data
  BY <1>2, <1>3, CountFields
<1> HIDE DEF f
<1>5. /\ DOMAIN list' = DOMAIN list /\ list'[i] = f
      /\ \A j \in DOMAIN list : j # i => list'[j] = list[j]
  BY <1>1, <1>2, <1>4, ReplaceEvent
<1> QED BY <1>2, <1>4, <1>5 DEF n

LEMMA SamePlan ==
  ASSUME NEW e, NEW f, f.rows = e.rows, f.cols = e.cols
  PROVE  /\ Places(f) = Places(e) /\ Coords(f) = Coords(e)
         /\ \A r, c : SeatIndex(f, r, c) = SeatIndex(e, r, c)
BY DEF Places, Coords, SeatIndex

LEMMA OtherSeats ==
  ASSUME StoreInv, NEW t \in Threads, OthersKept(t), NEW i \in DOMAIN list, SeatsMatch(i),
         list[i].mutex # t, list'[i] = list[i]
  PROVE  SeatsMatch(i)'
<1>1. list[i].mutex \in Workers => pc'[list[i].mutex] = pc[list[i].mutex]
  BY DEF OthersKept
<1>2. Made(list[i])' = Made(list[i])
  BY <1>1 DEF Made, Numbered, Marking
<1> QED BY <1>2 DEF SeatsMatch

(* A thread that leaves the list alone and marks no seats.                 *)
LEMMA QuietSeats ==
  ASSUME StoreInv, NEW t \in Threads, OthersKept(t), list' = list,
         t \in Workers => pc[t] # "reserveMark" /\ pc'[t] # "reserveMark",
         NEW i \in DOMAIN list, SeatsMatch(i)
  PROVE  SeatsMatch(i)'
<1>1. CASE list[i].mutex # t
  BY <1>1, OtherSeats
<1>2. CASE list[i].mutex = t
  <2>1. Made(list[i])' = Made(list[i])
    BY <1>2 DEF Made, Numbered, Marking
  <2> QED BY <2>1 DEF SeatsMatch
<1> QED BY <1>1, <1>2

(* A lock or an unlock, but of an event whose seats have been marked.      *)
LEMMA MutexSeats ==
  ASSUME StoreInv, NEW t \in Threads, OthersKept(t), pc[t] \in EventUsed,
         list[ev[t]].mutex \in {NoOne, t}, NEW m \in {NoOne, t},
         list' = [list EXCEPT ![ev[t]].mutex = m],
         t \in Workers => pc[t] # "reserveMark" /\ pc'[t] # "reserveMark",
         NEW i \in DOMAIN list, SeatsMatch(i)
  PROVE  SeatsMatch(i)'
<1>1. m \in Threads \cup {NoOne}
  OBVIOUS
<1>2. LET k == ev[t]
          e == list[k]
      IN /\ k \in DOMAIN list /\ list'[k].mutex = m /\ list'[k].rows = e.rows
         /\ list'[k].cols = e.cols /\ list'[k].reservations = e.reservations
         /\ list'[k].data = e.data
         /\ \A j \in DOMAIN list : j # k => list[j].mutex # t /\ list'[j] = list[j]
  BY <1>1, MutexChange
<1>3. CASE i # ev[t]
  BY <1>2, <1>3, OtherSeats
<1>4. CASE i = ev[t]
  <2>1. NoOne \notin Workers
    BY WorkersAndMain
  <2>2. Made(list[i])' = list[i].reservations
    BY <1>2, <1>4, <2>1 DEF Made, Numbered, Marking
  <2>3. Made(list[i]) = list[i].reservations
    BY <1>4, <2>1 DEF Made, Numbered, Marking
  <2>4. Places(list'[i]) = Places(list[i])
    BY <1>2, <1>4, SamePlan
  <2> QED BY <1>2, <1>4, <2>2, <2>3, <2>4 DEF SeatsMatch
<1> QED BY <1>3, <1>4

LEMMA NumberSeats ==
  ASSUME StoreInv, NEW w \in Workers, OthersKept(w), ReserveNumber(w),
         NEW i \in DOMAIN list, SeatsMatch(i)
  PROVE  SeatsMatch(i)'
<1> DEFINE e == list[i]
           f == list'[i]
<1>1. w \in Threads /\ TypeOK
  BY WorkersAndMain DEF StoreInv
<1>2. LET k == ev[w]
          d == list[k]
          g == list'[k]
      IN /\ d \in AnyEvent /\ d.mutex = w /\ g.mutex = w
         /\ g.rows = d.rows /\ g.cols = d.cols
         /\ g.reservations = d.reservations + 1 /\ g.data = d.data
         /\ \A j \in DOMAIN list : j # k => list[j].mutex # w /\ list'[j] = list[j]
  BY NumberedEvent
<1>3. CASE i # ev[w]
  BY <1>1, <1>2, <1>3, OtherSeats
<1>4. CASE i = ev[w]
  <2>1. pc[w] = "reserveNumber" /\ pc'[w] = "reserveMark"
    BY <1>1, Domains DEF ReserveNumber, Goto
  <2>2. e.reservations \in Nat
    BY <1>2, <1>4, AnyEventType
  <2>3. Made(list[i])' = e.reservations
    <3>1. Made(list[i])' = f.reservations - 1
      BY <1>2, <1>4, <2>1 DEF Made, Numbered, Marking
    <3> QED BY <1>2, <1>4, <2>2, <3>1
  <2>4. Made(list[i]) = e.reservations
    BY <1>2, <1>4, <2>1 DEF Made, Numbered, Marking
  <2>5. Places(f) = Places(e) /\ f.data = e.data /\ f.reservations = e.reservations + 1
    BY <1>2, <1>4, SamePlan
  <2>6. /\ \A p \in Places(e) : e.data[p] \in 0 .. e.reservations
        /\ \A n \in 1 .. e.reservations : \E p \in Places(e) : e.data[p] = n
    BY <2>4 DEF SeatsMatch
  <2>7. \A p \in Places(e) : e.data[p] \in 0 .. (e.reservations + 1)
    BY <2>2, <2>6
  <2> QED BY <2>3, <2>5, <2>6, <2>7 DEF SeatsMatch
<1> QED BY <1>3, <1>4

LEMMA MarkSeats ==
  ASSUME StoreInv, NEW w \in Workers, OthersKept(w), AnswerMatches(w), ReserveMark(w),
         NEW i \in DOMAIN list, SeatsMatch(i)
  PROVE  SeatsMatch(i)'
<1> DEFINE k == ev[w]
           e == list[k]
           f == list'[k]
           p == Place(e, call[w].seats, cur[w])
<1>1. w \in Threads /\ pc[w] = "reserveMark" /\ pc' = pc
  BY WorkersAndMain DEF ReserveMark
<1>2. /\ k \in DOMAIN list /\ e \in AnyEvent /\ e.mutex = w
      /\ e.data \in [Places(e) -> Nat] /\ p \in Places(e) /\ e.data[p] \in {0, rid[w]}
      /\ f.mutex = w /\ f.rows = e.rows /\ f.cols = e.cols
      /\ f.reservations = e.reservations /\ f.data = [e.data EXCEPT ![p] = rid[w]]
      /\ \A j \in DOMAIN list : j # k => list'[j] = list[j]
  BY MarkedEvent
<1>3. CASE i # k
  <2>1. list[i].mutex # w
    BY <1>1, <1>3, HeldEvent DEF EventUsed, EventLocked
  <2> QED BY <1>1, <1>2, <1>3, <2>1, OtherSeats
<1>4. CASE i = k
  <2>1. rid[w] = e.reservations /\ rid[w] > 0 /\ e.reservations \in Nat
    BY <1>1, <1>2, AnyEventType DEF AnswerMatches, Marking, MarkedSoFar
  <2>2. Made(list[i])' = e.reservations - 1 /\ Made(list[i]) = e.reservations - 1
    BY <1>1, <1>2, <1>4 DEF Made, Numbered, Marking
  <2>3. Places(f) = Places(e)
    BY <1>2, SamePlan
  <2>4. /\ \A q \in Places(e) : e.data[q] \in 0 .. e.reservations
        /\ \A n \in 1 .. (e.reservations - 1) : \E q \in Places(e) : e.data[q] = n
    BY <1>4, <2>2 DEF SeatsMatch
  <2> HIDE DEF e, f, p
  <2>5. \A q \in Places(e) : f.data[q] \in 0 .. e.reservations
    BY <1>2, <2>1, <2>4
  <2>6. ASSUME NEW n \in 1 .. (e.reservations - 1)
        PROVE  \E q \in Places(e) : f.data[q] = n
    <3>1. PICK q \in Places(e) : e.data[q] = n
      BY <2>4
    <3>2. q # p
      BY <1>2, <2>1, <3>1
    <3> QED BY <1>2, <3>1, <3>2
  <2>7. /\ \A q \in Places(f) : f.data[q] \in 0 .. f.reservations
        /\ \A n \in 1 .. (e.reservations - 1) : \E q \in Places(f) : f.data[q] = n
    BY <1>2, <2>3, <2>5, <2>6
  <2> QED BY <1>4, <2>2, <2>7 DEF SeatsMatch, f, e
<1> QED BY <1>3, <1>4

LEMMA UnlockSeats ==
  ASSUME StoreInv, NEW w \in Workers, OthersKept(w), AnswerMatches(w), ReserveUnlock(w),
         NEW i \in DOMAIN list, SeatsMatch(i)
  PROVE  SeatsMatch(i)'
<1> DEFINE k == ev[w]
           e == list[k]
           f == list'[k]
           seats == call[w].seats
<1>1. /\ w \in Threads /\ pc[w] = "reserveMark" /\ list' = [list EXCEPT ![k].mutex = NoOne]
      /\ NoOne \notin Workers /\ cur[w] > Len(seats) /\ pc[w] \in EventUsed
      /\ pc[w] \in EventLocked /\ ThreadInv(w) /\ w # Main
  BY WorkersAndMain DEF ReserveUnlock, MutexUnlock, EventUsed, EventLocked, StoreInv
<1>2. /\ k \in DOMAIN list /\ e \in AnyEvent
      /\ f.mutex = NoOne /\ f.rows = e.rows /\ f.cols = e.cols
      /\ f.reservations = e.reservations /\ f.data = e.data
      /\ \A j \in DOMAIN list : j # k => list[j].mutex # w /\ list'[j] = list[j]
  BY <1>1, MutexChange, ZenonT(60)
<1>3. CASE i # k
  BY <1>1, <1>2, <1>3, OtherSeats
<1>4. CASE i = k
  <2>1. /\ rid[w] = e.reservations /\ rid[w] > 0 /\ e.reservations \in Nat
        /\ cur[w] \in 1 .. (Len(seats) + 1)
        /\ \A j \in 1 .. (cur[w] - 1) : e.data[Place(e, seats, j)] = rid[w]
    BY <1>1, <1>2, AnyEventType DEF AnswerMatches, Marking, MarkedSoFar
  <2>2. Made(list[i])' = e.reservations
    BY <1>1, <1>2, <1>4 DEF Made, Numbered
  <2>3. Made(list[i]) = e.reservations - 1
    <3>1. e.mutex = w
      BY <1>1, HeldEvent
    <3> QED BY <1>1, <1>4, <3>1 DEF Made, Numbered, Marking
  <2>4. Places(f) = Places(e)
    BY <1>2, SamePlan
  <2>5. /\ seats \in Seq(Nat \X Nat) \ {<<>>} /\ RequestInBounds(e, seats)
    BY <1>1 DEF ThreadInv, RequestMatches, CreateLabels, ReserveLabels, ShowLabels, ListLabels,
       ReserveCalls, SeatsFree
  <2>6. 1 \in 1 .. Len(seats) /\ 1 \in 1 .. (cur[w] - 1)
    <3> HIDE DEF seats
    <3>1. Len(seats) \in Nat /\ Len(seats) # 0
      BY <2>5
    <3> QED BY <1>1, <2>1, <3>1
  <2>7. Place(e, seats, 1) \in Places(e) /\ e.data[Place(e, seats, 1)] = e.reservations
    <3> HIDE DEF e, seats
    <3> QED BY <1>2, <2>1, <2>5, <2>6, PlaceInRange
  <2>8. /\ \A q \in Places(e) : e.data[q] \in 0 .. e.reservations
        /\ \A n \in 1 .. (e.reservations - 1) : \E q \in Places(e) : e.data[q] = n
    BY <1>4, <2>3 DEF SeatsMatch
  <2> HIDE DEF e, f, seats
  <2>9. \A n \in 1 .. e.reservations : n \in 1 .. (e.reservations - 1) \/ n = e.reservations
    BY <2>1
  <2>10. /\ \A q \in Places(f) : f.data[q] \in 0 .. f.reservations
         /\ \A n \in 1 .. e.reservations : \E q \in Places(f) : f.data[q] = n
    BY <1>2, <2>4, <2>7, <2>8, <2>9
  <2> QED BY <1>4, <2>2, <2>10 DEF SeatsMatch, f, e
<1> QED BY <1>3, <1>4

LEMMA NewFields ==
  ASSUME NEW c \in CreateCalls
  PROVE  LET e == NewEvent(c)
         IN /\ e \in AnyEvent /\ e.id = c.id /\ e.rows = c.dims[1] /\ e.cols = c.dims[2]
            /\ e.mutex = NoOne /\ e.reservations = 0
            /\ \A p \in Places(e) : e.data[p] = 0
BY NewEventType DEF NewEvent, Places

LEMMA AppendedEvent ==
  ASSUME StoreInv, NEW w \in Workers, CreateAppend(w), list' # list
  PROVE  LET c == call[w]
             f == list'[Len(list) + 1]
         IN /\ c \in CreateCalls /\ NoneWithId(c.id) /\ f = NewEvent(c)
            /\ Len(list) \in Nat /\ DOMAIN list = 1 .. Len(list)
            /\ DOMAIN list' = 1 .. (Len(list) + 1)
            /\ \A j \in DOMAIN list : list[j].mutex # w /\ list'[j] = list[j]
<1>1. /\ w \in Threads /\ ThreadInv(w) /\ ListTypeOK /\ pc[w] = "createAppend"
      /\ list' = Append(list, NewEvent(call[w]))
  BY WorkersAndMain DEF StoreInv, TypeOK, CreateAppend
<1>2. call[w] \in CreateCalls /\ NoneWithId(call[w].id)
  BY <1>1 DEF ThreadInv, FreshId, RequestMatches, CreateLabels, ReserveLabels, ShowLabels,
     ListLabels
<1>3. \A j \in DOMAIN list : list[j].mutex # w
  BY <1>1 DEF ThreadInv, EventLockMatches, EventLocked
<1>4. Len(list) \in Nat /\ DOMAIN list = 1 .. Len(list)
  BY <1>1, ListIsSeq
<1>5. /\ DOMAIN list' = 1 .. (Len(list) + 1)
      /\ list'[Len(list) + 1] = NewEvent(call[w])
      /\ \A j \in DOMAIN list : list'[j] = list[j]
  BY <1>1, <1>2, AppendEvent, NewEventType
<1> QED BY <1>2, <1>3, <1>4, <1>5

LEMMA AppendSeats ==
  ASSUME StoreInv, NEW w \in Workers, OthersKept(w), CreateAppend(w), list' # list,
         \A i \in DOMAIN list : SeatsMatch(i), NEW i \in DOMAIN list'
  PROVE  SeatsMatch(i)'
<1>1. /\ call[w] \in CreateCalls /\ list'[Len(list) + 1] = NewEvent(call[w])
      /\ Len(list) \in Nat /\ DOMAIN list = 1 .. Len(list)
      /\ DOMAIN list' = 1 .. (Len(list) + 1)
      /\ \A j \in DOMAIN list : list[j].mutex # w /\ list'[j] = list[j]
  BY AppendedEvent
<1>2. CASE i \in DOMAIN list
  <2>1. w \in Threads
    BY WorkersAndMain
  <2> QED BY <1>1, <1>2, <2>1, OtherSeats
<1>3. CASE i = Len(list) + 1
  <2> DEFINE e == NewEvent(call[w])
  <2>1. e.mutex = NoOne /\ e.reservations = 0 /\ \A p \in Places(e) : e.data[p] = 0
    BY <1>1, NewFields
  <2>2. list'[i] = e /\ NoOne \notin Workers
    BY <1>1, <1>3, WorkersAndMain
  <2> HIDE DEF e
  <2>3. Made(list[i])' = 0
    BY <2>1, <2>2 DEF Made, Numbered
  <2> QED BY <2>1, <2>2, <2>3 DEF SeatsMatch
<1> QED BY <1>1, <1>2, <1>3

(* The steps that do not change the list, and what they leave unmarked.    *)
Quiet(w) == \/ \E c \in Calls : Invoke(w, c)
            \/ CreateLock(w) \/ CreateFind(w) \/ (CreateAppend(w) /\ list' = list)
            \/ ReserveLock(w) \/ ReserveFind(w) \/ (ReserveCheck(w) /\ list' = list)
            \/ ShowLock(w) \/ ShowFind(w) \/ ShowCopy(w) \/ List(w) \/ Return(w)
LEMMA UnmarkedStep ==
  ASSUME StoreInv, NEW w \in Workers, Quiet(w)
  PROVE  list' = list /\ pc[w] # "reserveMark" /\ pc'[w] # "reserveMark"
<1>1. TypeOK /\ w \in Threads
  BY WorkersAndMain DEF StoreInv
<1>2. CASE \E c \in Calls : Invoke(w, c)
  <2>1. PICK c \in Calls : Invoke(w, c)
    BY <1>2
  <2>2. FirstStep[c.op] \in {"createLock", "reserveLock", "showLock", "listLock"}
    BY DEF Calls, CreateCalls, ReserveCalls, ShowCalls, ListCalls, FirstStep
  <2> QED BY <1>1, <2>1, <2>2, Domains DEF Invoke, Goto
<1>3. CASE CreateLock(w) \/ CreateFind(w) \/ (CreateAppend(w) /\ list' = list) \/ Return(w)
  BY <1>1, <1>3, Domains DEF CreateLock, CreateFind, CreateAppend, Return, Finish, Goto
<1>4. CASE ReserveLock(w) \/ ReserveFind(w) \/ ShowLock(w) \/ ShowFind(w)
  BY <1>1, <1>4, Domains
     DEF ReserveLock, ReserveFind, ShowLock, ShowFind, FindUnderRdLock, Finish, Goto
<1>5. CASE (ReserveCheck(w) /\ list' = list) \/ ShowCopy(w)
  BY <1>1, <1>5, Domains DEF ReserveCheck, ShowCopy, Finish, Goto
<1>6. CASE List(w)
  BY <1>1, <1>6, Domains DEF List, ListLock, ListCount, ListCopy, ListSend, Finish, Goto
<1> QED BY <1>2, <1>3, <1>4, <1>5, <1>6 DEF Quiet

LEMMA ServeSeats ==
  ASSUME StoreInv, NEW w \in Workers, OthersKept(w), AnswerMatches(w),
         (\E c \in Calls : Invoke(w, c)) \/ Serve(w),
         \A i \in DOMAIN list : SeatsMatch(i), NEW i \in DOMAIN list'
  PROVE  SeatsMatch(i)'
<1>1. w \in Threads /\ TypeOK /\ NoOne \notin Workers /\ w # Main
  BY WorkersAndMain DEF StoreInv
<1>2. CASE Quiet(w)
  BY <1>1, <1>2, UnmarkedStep, QuietSeats
<1>3. CASE ReserveMutex(w) \/ ShowMutex(w)
  <2>1. /\ pc[w] \in EventUsed /\ pc[w] # "reserveMark" /\ pc'[w] # "reserveMark"
        /\ list' = [list EXCEPT ![ev[w]].mutex = w] /\ list[ev[w]].mutex = NoOne
    BY <1>1, <1>3, Domains DEF ReserveMutex, ShowMutex, MutexLock, Goto, EventUsed
  <2>2. i \in DOMAIN list
    BY <1>1, <2>1, ListIsSeq DEF TypeOK
  <2> QED BY <1>1, <2>1, <2>2, MutexSeats
<1>4. CASE (ReserveCheck(w) /\ list' # list) \/ ShowUnlock(w)
  <2>1. /\ pc[w] \in EventUsed /\ pc[w] \in EventLocked /\ pc[w] # "reserveMark"
        /\ pc'[w] # "reserveMark" /\ list' = [list EXCEPT ![ev[w]].mutex = NoOne]
    BY <1>1, <1>4, Domains
       DEF ReserveCheck, ShowUnlock, MutexUnlock, Finish, Goto, EventUsed, EventLocked
  <2>2. i \in DOMAIN list /\ list[ev[w]].mutex = w
    BY <1>1, <2>1, HeldEvent, ListIsSeq DEF TypeOK
  <2> QED BY <1>1, <2>1, <2>2, MutexSeats
<1>5. CASE ReserveNumber(w) \/ ReserveMark(w) \/ ReserveUnlock(w)
  <2>1. i \in DOMAIN list
    BY <1>1, <1>5, ListIsSeq
       DEF ReserveNumber, ReserveMark, ReserveUnlock, MutexUnlock, TypeOK
  <2> QED BY <1>5, <2>1, NumberSeats, MarkSeats, UnlockSeats
<1>6. CASE CreateAppend(w) /\ list' # list
  BY <1>6, AppendSeats
<1>7. CASE Create(w)
  BY <1>2, <1>6, <1>7 DEF Quiet, Create
<1>8. CASE Reserve(w)
  BY <1>2, <1>3, <1>4, <1>5, <1>8 DEF Quiet, Reserve
<1>9. CASE Show(w)
  BY <1>2, <1>3, <1>4, <1>9 DEF Quiet, Show
<1>10. CASE (\E c \in Calls : Invoke(w, c)) \/ List(w) \/ Return(w)
  BY <1>2, <1>10 DEF Quiet
<1> QED BY <1>7, <1>8, <1>9, <1>10 DEF Serve

LEMMA ReportSeats ==
  ASSUME StoreInv, OthersKept(Main), StatusLock \/ ReportRest,
         \A i \in DOMAIN list : SeatsMatch(i), NEW i \in DOMAIN list'
  PROVE  SeatsMatch(i)'
<1>1. Main \in Threads /\ Main \notin Workers /\ TypeOK
  BY WorkersAndMain DEF StoreInv
<1>2. CASE StatusLock \/ StatusWalk \/ SignalLock \/ SignalFind \/ StatusNext
  <2>1. list' = list
    BY <1>2 DEF StatusLock, StatusWalk, SignalLock, SignalFind, FindUnderRdLock, StatusNext
  <2> QED BY <1>1, <2>1, QuietSeats
<1>3. CASE SignalMutex
  <2>1. /\ pc[Main] \in EventUsed /\ list' = [list EXCEPT ![ev[Main]].mutex = Main]
        /\ list[ev[Main]].mutex = NoOne
    BY <1>3 DEF SignalMutex, MutexLock, EventUsed
  <2>2. i \in DOMAIN list
    BY <1>1, <2>1, ListIsSeq DEF TypeOK
  <2> QED BY <1>1, <2>1, <2>2, MutexSeats
<1>4. CASE SignalPrint
  <2>1. /\ pc[Main] \in EventUsed /\ pc[Main] \in EventLocked
        /\ list' = [list EXCEPT ![ev[Main]].mutex = NoOne]
    BY <1>4 DEF SignalPrint, MutexUnlock, EventUsed, EventLocked
  <2>2. i \in DOMAIN list /\ list[ev[Main]].mutex = Main
    BY <1>1, <2>1, HeldEvent, ListIsSeq DEF TypeOK
  <2> QED BY <1>1, <2>1, <2>2, MutexSeats
<1> QED BY <1>2, <1>3, <1>4 DEF ReportRest

LEMMA InitAnswerInv == Init => AnswerInv
<1> SUFFICES ASSUME Init
             PROVE  AnswerInv
  OBVIOUS
<1>1. /\ DOMAIN list = {}
      /\ \A w \in Workers : /\ w \in Threads /\ pc[w] = "idle" /\ call[w] = NoCall
                            /\ reply[w] = NoReply /\ buf[w] = <<>>
  BY WorkersAndMain DEF Init
<1> QED BY <1>1 DEF AnswerInv, AnswerMatches, EventUsed, EventLocked, Marking

LEMMA NextAnswerInv ==
  ASSUME StoreInv, AnswerInv, [Next]_vars
  PROVE  AnswerInv'
<1>1. CASE UNCHANGED vars
  BY <1>1 DEF vars, AnswerInv, AnswerMatches, SeatsMatch, Made, Numbered, Marking
<1>2. ASSUME NEW w \in Workers, (\E c \in Calls : Invoke(w, c)) \/ Serve(w)
      PROVE  AnswerInv'
  <2>1. Frame(w) /\ OthersKept(w) /\ w \in Threads
    BY <1>2, ServeFrame, WorkersAndMain DEF Frame
  <2>2. ASSUME NEW u \in Workers
        PROVE  AnswerMatches(u)'
    BY <1>2, <2>1, OthersAnswer, OwnAnswer DEF AnswerInv
  <2>3. AnswerMatches(w) /\ \A i \in DOMAIN list : SeatsMatch(i)
    BY DEF AnswerInv
  <2>4. ASSUME NEW i \in DOMAIN list'
        PROVE  SeatsMatch(i)'
    BY <1>2, <2>1, <2>3, ServeSeats
  <2> QED BY <2>2, <2>4 DEF AnswerInv
<1>3. CASE StatusLock \/ ReportRest
  <2>1. Frame(Main) /\ OthersKept(Main) /\ Main \in Threads
    BY <1>3, ReportFrame, WorkersAndMain DEF Frame
  <2>2. ASSUME NEW u \in Workers
        PROVE  AnswerMatches(u)'
    BY <1>3, <2>1, OthersAnswer, WorkersAndMain DEF AnswerInv
  <2>3. ASSUME NEW i \in DOMAIN list'
        PROVE  SeatsMatch(i)'
    BY <1>3, <2>1, ReportSeats DEF AnswerInv
  <2> QED BY <2>2, <2>3 DEF AnswerInv
<1> QED BY <1>1, <1>2, <1>3 DEF Next

(* What the threads have copied, marked and answered is always what the    *)
(* locked list and event hold.                                             *)
THEOREM AnswersHold == Spec => []AnswerInv
<1>1. Init => AnswerInv
  BY InitAnswerInv
<1>2. StoreInv /\ AnswerInv /\ [Next]_vars => AnswerInv'
  BY NextAnswerInv
<1> QED BY <1>1, <1>2, StoreInvariant, PTL DEF Spec

(* ems_reserve counts a reservation only after both its checks, and marks  *)
(* a seat for it: an event that nobody holds has as many reservations as   *)
(* it has counted, each with a seat.                                       *)
THEOREM CountMatchesSeats == Spec => []ReservationsHoldSeats
<1>1. ASSUME StoreInv, AnswerInv
      PROVE  ReservationsHoldSeats
  <2> SUFFICES ASSUME NEW i \in DOMAIN list, list[i].mutex = NoOne
               PROVE  {list[i].data[p] : p \in Places(list[i])} \ {0}
                        = 1 .. list[i].reservations
    BY DEF ReservationsHoldSeats
  <2>1. list[i] \in AnyEvent
    BY <1>1, ListIsSeq DEF StoreInv, TypeOK
  <2>2. list[i].reservations \in Nat
    BY <2>1, AnyEventType
  <2>3. NoOne \notin Workers
    BY WorkersAndMain
  <2>4. /\ \A p \in Places(list[i]) : list[i].data[p] \in 0 .. list[i].reservations
        /\ \A n \in 1 .. list[i].reservations :
             \E p \in Places(list[i]) : list[i].data[p] = n
    BY <1>1, <2>3 DEF AnswerInv, SeatsMatch, Made, Numbered
  <2> QED BY <2>2, <2>4
<1> QED BY <1>1, AnswersHold, StoreInvariant, PTL

-----------------------------------------------------------------------------
(* The store as EventStore sees it.                                        *)
AbsEvent(e) ==
  [id |-> e.id, rows |-> e.rows, cols |-> e.cols, reservations |-> e.reservations,
   owner |-> [s \in Coords(e) |-> Owner(e, s)]]

LEMMA AbsCatalogIs == AbsCatalog = [i \in DOMAIN list |-> AbsEvent(list[i])]
BY DEF AbsCatalog, AbsEvent

LEMMA PlaceOfSeat ==
  ASSUME NEW e \in AnyEvent, NEW s \in Coords(e)
  PROVE  SeatIndex(e, s[1], s[2]) \in Places(e)
<1>1. e.rows \in Nat /\ e.cols \in Nat /\ <<s[1], s[2]>> \in Coords(e)
  BY AnyEventType DEF Coords
<1> QED BY <1>1, SeatIndexInRange

(* The owner of a seat: whoever its place carries, but for the seats that  *)
(* a reservation has still to mark.                                        *)
LEMMA OwnerUnnumbered ==
  ASSUME NEW e, ~ Numbered(e), NEW s
  PROVE  Owner(e, s) = e.data[SeatIndex(e, s[1], s[2])]
BY DEF Owner, Numbered

LEMMA OwnerNumbered ==
  ASSUME NEW e, NEW w \in Workers, e.mutex = w, Marking(w), NEW s
  PROVE  Owner(e, s) =
           IF \E k \in cur[w] .. Len(call[w].seats) :
                Place(e, call[w].seats, k) = SeatIndex(e, s[1], s[2])
           THEN rid[w] ELSE e.data[SeatIndex(e, s[1], s[2])]
BY DEF Owner, Place

(* An event that looks the same before and after.                          *)
SameView(i) ==
  /\ list'[i].id = list[i].id
  /\ list'[i].rows = list[i].rows /\ list'[i].cols = list[i].cols
  /\ list'[i].reservations = list[i].reservations
  /\ \A s \in Coords(list[i]) : Owner(list[i], s)' = Owner(list[i], s)

LEMMA AbsEventKept ==
  ASSUME NEW i \in DOMAIN list, SameView(i)
  PROVE  AbsEvent(list[i])' = AbsEvent(list[i])
<1>1. Coords(list'[i]) = Coords(list[i])
  BY SamePlan DEF SameView
<1>2. [s \in Coords(list[i]) |-> Owner(list[i], s)]' = [s \in Coords(list[i]) |-> Owner(list[i], s)]
  BY <1>1 DEF SameView
<1> QED BY <1>2 DEF AbsEvent, SameView

LEMMA UntouchedView ==
  ASSUME NEW t \in Threads, OthersKept(t), NEW i \in DOMAIN list,
         list[i].mutex # t, list'[i] = list[i]
  PROVE  SameView(i)
<1> DEFINE u == list[i].mutex
<1>1. u \in Workers => /\ pc'[u] = pc[u] /\ rid'[u] = rid[u] /\ cur'[u] = cur[u]
                       /\ call'[u] = call[u]
  BY DEF OthersKept
<1>2. ASSUME NEW s
      PROVE  Owner(list[i], s)' = Owner(list[i], s)
  <2>1. CASE ~ Numbered(list[i])
    <3>1. ~ Numbered(list[i])'
      BY <1>1, <2>1 DEF Numbered, Marking
    <3> QED BY <2>1, <3>1 DEF Owner, Numbered
  <2>2. CASE Numbered(list[i])
    BY <1>1, <2>2 DEF Owner, Numbered, Marking
  <2> QED BY <2>1, <2>2
<1> QED BY <1>2 DEF SameView

LEMMA CatalogKept ==
  ASSUME NEW t \in Threads, OthersKept(t), DOMAIN list' = DOMAIN list,
         \A i \in DOMAIN list :
           SameView(i) \/ (list[i].mutex # t /\ list'[i] = list[i])
  PROVE  AbsCatalog' = AbsCatalog
<1>1. \A i \in DOMAIN list : AbsEvent(list[i])' = AbsEvent(list[i])
  BY UntouchedView, AbsEventKept
<1>2. AbsCatalog' = [i \in DOMAIN list' |-> AbsEvent(list[i])']
  BY DEF AbsCatalog, AbsEvent
<1> QED BY <1>1, <1>2, AbsCatalogIs

(* A thread that marks no seats does not show in an event.                 *)
Unmarked(t) == t \in Workers => pc[t] # "reserveMark" /\ pc'[t] # "reserveMark"

LEMMA UnmarkedView ==
  ASSUME NEW t \in Threads, Unmarked(t), NEW i \in DOMAIN list,
         list[i].mutex \in {NoOne, t}, list'[i].mutex \in {NoOne, t},
         list'[i].id = list[i].id, list'[i].rows = list[i].rows, list'[i].cols = list[i].cols,
         list'[i].reservations = list[i].reservations, list'[i].data = list[i].data
  PROVE  SameView(i)
<1>1. NoOne \notin Workers
  BY WorkersAndMain
<1>2. ASSUME NEW s
      PROVE  Owner(list[i], s)' = Owner(list[i], s)
  <2>1. Owner(list[i], s) = list[i].data[SeatIndex(list[i], s[1], s[2])]
    BY <1>1 DEF Owner, Unmarked, Marking
  <2>2. Owner(list[i], s)' = list'[i].data[SeatIndex(list'[i], s[1], s[2])]
    BY <1>1 DEF Owner, Unmarked, Marking
  <2>3. SeatIndex(list'[i], s[1], s[2]) = SeatIndex(list[i], s[1], s[2])
    BY SamePlan
  <2> QED BY <2>1, <2>2, <2>3
<1> QED BY <1>2 DEF SameView

LEMMA QuietCatalog ==
  ASSUME NEW t \in Threads, OthersKept(t), Unmarked(t), list' = list
  PROVE  AbsCatalog' = AbsCatalog
<1>1. ASSUME NEW i \in DOMAIN list
      PROVE  SameView(i) \/ (list[i].mutex # t /\ list'[i] = list[i])
  <2>1. CASE list[i].mutex = t
    BY <2>1, UnmarkedView
  <2> QED BY <2>1
<1> QED BY <1>1, CatalogKept

LEMMA MutexCatalog ==
  ASSUME StoreInv, NEW t \in Threads, OthersKept(t), Unmarked(t), pc[t] \in EventUsed,
         list[ev[t]].mutex \in {NoOne, t}, NEW m \in {NoOne, t},
         list' = [list EXCEPT ![ev[t]].mutex = m]
  PROVE  AbsCatalog' = AbsCatalog
<1>1. m \in Threads \cup {NoOne}
  OBVIOUS
<1>2. LET i == ev[t]
          e == list[i]
      IN /\ i \in DOMAIN list
         /\ list'[i].mutex = m /\ list'[i].id = e.id /\ list'[i].rows = e.rows
         /\ list'[i].cols = e.cols /\ list'[i].reservations = e.reservations
         /\ list'[i].data = e.data
         /\ DOMAIN list' = DOMAIN list
         /\ \A j \in DOMAIN list : j # i => list[j].mutex # t /\ list'[j] = list[j]
  BY <1>1, MutexChange
<1>3. SameView(ev[t])
  BY <1>2, UnmarkedView
<1> QED BY <1>2, <1>3, CatalogKept

(* The answers and calls of EventStore are those of the store.             *)
LEMMA AbsSame ==
  /\ Abs!NoReply = NoReply /\ Abs!Done = Done /\ Abs!Failed = Failed
  /\ Abs!NoCall = NoCall /\ Abs!Calls = Calls
  /\ \A c, d, b : Abs!Reply(c, d, b) = Reply(c, d, b)
  /\ \A e : Abs!Coords(e) = Coords(e)
  /\ \A e, k : Abs!RowMajor(e, k) = RowMajor(e, k)
  /\ \A s : Abs!IdsOf(s) = IdsOf(s)
BY DEF Abs!NoReply, Abs!Done, Abs!Failed, Abs!NoCall, Abs!Calls, Abs!Reply, Abs!Coords, Abs!IdsOf,
   Abs!RowMajor, RowMajor,
   NoReply, Done, Failed, NoCall, Calls, Reply, Coords, IdsOf, Abs!CreateCalls, Abs!ReserveCalls,
   Abs!ShowCalls, Abs!ListCalls, CreateCalls, ReserveCalls, ShowCalls, ListCalls

(* A step of a thread, seen by EventStore: nothing, or the effect of its   *)
(* call.                                                                   *)
LEMMA OutcomeOfOne ==
  ASSUME NEW w \in Workers, OthersKept(w)
  PROVE  /\ AbsOutcome' = [AbsOutcome EXCEPT ![w] = AbsOutcome'[w]]
         /\ AbsOutcome = [AbsOutcome EXCEPT ![w] = AbsOutcome[w]]
<1>1. /\ AbsOutcome = [u \in Workers |-> AbsOutcome[u]]
      /\ AbsOutcome' = [u \in Workers |-> AbsOutcome'[u]]
  BY DEF AbsOutcome
<1>2. \A u \in Workers \ {w} : AbsOutcome'[u] = AbsOutcome[u]
  BY DEF AbsOutcome, Marking, OthersKept
<1> QED BY <1>1, <1>2

LEMMA AbsStutter ==
  ASSUME NEW w \in Workers, OthersKept(w), AbsCatalog' = AbsCatalog, call' = call,
         AbsOutcome'[w] = AbsOutcome[w]
  PROVE  UNCHANGED Abs!absVars
BY OutcomeOfOne DEF Abs!absVars

LEMMA AbsPerforms ==
  ASSUME NEW w \in Workers, OthersKept(w), call' = call,
         AbsOutcome[w] = NoReply, NEW r, AbsOutcome'[w] = r, r # NoReply,
         \/ Abs!PerformCreate(w, r) \/ Abs!PerformReserve(w, r)
         \/ Abs!PerformShow(w, r) \/ Abs!PerformList(w, r)
  PROVE  Abs!Next
<1>1. AbsOutcome' = [AbsOutcome EXCEPT ![w] = AbsOutcome'[w]]
  BY OutcomeOfOne
<1>2. Abs!Perform(w)
  BY <1>1, AbsSame DEF Abs!Perform
<1> QED BY <1>2 DEF Abs!Next

(* A call that ends in this step takes its effect in it.                   *)
LEMMA AbsFinish ==
  ASSUME StoreInv, NEW w \in Workers, AnswerMatches(w), OthersKept(w), call' = call,
         pc[w] # "done", pc[w] # "reserveMark", NEW r, r # NoReply, Finish(w, r),
         \/ Abs!PerformCreate(w, r) \/ Abs!PerformReserve(w, r)
         \/ Abs!PerformShow(w, r) \/ Abs!PerformList(w, r)
  PROVE  Abs!Next
<1>1. TypeOK /\ w \in Threads
  BY WorkersAndMain DEF StoreInv
<1>2. pc'[w] = "done" /\ reply'[w] = r /\ reply[w] = NoReply
  BY <1>1, Domains DEF Finish, Goto, AnswerMatches
<1>3. AbsOutcome[w] = NoReply /\ AbsOutcome'[w] = r
  BY <1>2 DEF AbsOutcome, Marking
<1> QED BY <1>3, AbsPerforms

(* A step that shows in neither the events nor the answers.                *)
LEMMA AbsQuiet ==
  ASSUME NEW w \in Workers, OthersKept(w), AbsCatalog' = AbsCatalog, call' = call,
         reply' = reply, Unmarked(w)
  PROVE  UNCHANGED Abs!absVars
<1>1. AbsOutcome'[w] = AbsOutcome[w]
  BY DEF AbsOutcome, Unmarked, Marking
<1> QED BY <1>1, AbsStutter

LEMMA AbsInvoke ==
  ASSUME StoreInv, NEW w \in Workers, AnswerMatches(w), OthersKept(w), NEW c \in Calls,
         Invoke(w, c)
  PROVE  Abs!Next
<1>1. list' = list /\ w \in Threads /\ Unmarked(w)
  BY UnmarkedStep, WorkersAndMain DEF Quiet, Unmarked
<1>2. AbsCatalog' = AbsCatalog
  BY <1>1, QuietCatalog
<1>3. call[w] = NoCall /\ call' = [call EXCEPT ![w] = c] /\ reply' = reply
  BY DEF Invoke, AnswerMatches
<1>4. AbsOutcome'[w] = AbsOutcome[w]
  BY <1>1, <1>3 DEF AbsOutcome, Unmarked, Marking
<1>5. AbsOutcome' = AbsOutcome
  BY <1>4, OutcomeOfOne
<1>6. Abs!Invoke(w, c) /\ c \in Abs!Calls
  BY <1>2, <1>3, <1>5, AbsSame DEF Abs!Invoke
<1> QED BY <1>6 DEF Abs!Next

LEMMA AbsReturn ==
  ASSUME StoreInv, NEW w \in Workers, AnswerMatches(w), OthersKept(w), Return(w)
  PROVE  Abs!Next
<1>1. list' = list /\ w \in Threads /\ Unmarked(w) /\ TypeOK
  BY UnmarkedStep, WorkersAndMain DEF Quiet, Unmarked, StoreInv
<1>2. AbsCatalog' = AbsCatalog
  BY <1>1, QuietCatalog
<1>3. /\ pc[w] = "done" /\ reply[w] # NoReply /\ reply'[w] = NoReply
      /\ call' = [call EXCEPT ![w] = NoCall]
  BY <1>1, Domains DEF Return, AnswerMatches
<1>4. AbsOutcome[w] # NoReply /\ AbsOutcome'[w] = NoReply
  BY <1>1, <1>3 DEF AbsOutcome, Unmarked, Marking
<1>5. AbsOutcome' = [AbsOutcome EXCEPT ![w] = NoReply]
  BY <1>4, OutcomeOfOne
<1>6. Abs!Return(w)
  BY <1>2, <1>3, <1>4, <1>5, AbsSame DEF Abs!Return
<1> QED BY <1>6 DEF Abs!Next

(* The step of a call that has no effect yet.                              *)
LEMMA QuietKept ==
  ASSUME StoreInv, NEW w \in Workers, OthersKept(w), Quiet(w)
  PROVE  AbsCatalog' = AbsCatalog /\ Unmarked(w) /\ list' = list
<1>1. list' = list /\ w \in Threads /\ Unmarked(w)
  BY UnmarkedStep, WorkersAndMain DEF Unmarked
<1> QED BY <1>1, QuietCatalog

LEMMA RequestKind ==
  ASSUME StoreInv, NEW w \in Workers
  PROVE  /\ pc[w] \in CreateLabels => call[w] \in CreateCalls /\ call[w].op = "create"
         /\ pc[w] \in ReserveLabels => call[w] \in ReserveCalls /\ call[w].op = "reserve"
         /\ pc[w] \in ShowLabels => call[w] \in ShowCalls /\ call[w].op = "show"
         /\ pc[w] \in ListLabels => call[w] \in ListCalls /\ call[w].op = "list"
<1>1. RequestMatches(w) /\ w # Main
  BY WorkersAndMain DEF StoreInv, ThreadInv
<1>2. pc[w] \in CreateLabels => call[w] \in CreateCalls
  BY <1>1 DEF RequestMatches, CreateLabels, ReserveLabels, ShowLabels, ListLabels
<1>3. pc[w] \in ReserveLabels => call[w] \in ReserveCalls
  BY <1>1 DEF RequestMatches, CreateLabels, ReserveLabels, ShowLabels, ListLabels
<1>4. pc[w] \in ShowLabels => call[w] \in ShowCalls
  BY <1>1 DEF RequestMatches, CreateLabels, ReserveLabels, ShowLabels, ListLabels
<1>5. pc[w] \in ListLabels => call[w] \in ListCalls
  BY <1>1 DEF RequestMatches, CreateLabels, ReserveLabels, ShowLabels, ListLabels
<1> QED BY <1>2, <1>3, <1>4, <1>5 DEF CreateCalls, ReserveCalls, ShowCalls, ListCalls

(* A call that fails, or that answers without an effect.                   *)
LEMMA AbsMissing ==
  ASSUME StoreInv, NEW w \in Workers, AnswerMatches(w), OthersKept(w), Quiet(w),
         ReserveFind(w) \/ ShowFind(w)
  PROVE  [Abs!Next]_(Abs!absVars)
<1>1. /\ AbsCatalog' = AbsCatalog /\ Unmarked(w) /\ call' = call
      /\ pc[w] \in {"reserveFind", "showFind"}
  BY QuietKept DEF ReserveFind, ShowFind
<1>2. CASE reply' = reply
  BY <1>1, <1>2, AbsQuiet
<1>3. CASE NoneWithId(call[w].id) /\ Finish(w, Failed)
  <2>1. \A i \in DOMAIN AbsCatalog : AbsCatalog[i].id # call[w].id
    BY <1>3, AbsCatalogIs DEF NoneWithId, AbsEvent
  <2>2. Abs!PerformReserve(w, Failed) \/ Abs!PerformShow(w, Failed)
    <3>1. CASE pc[w] = "reserveFind"
      <4>1. call[w].op = "reserve"
        BY <3>1, RequestKind DEF ReserveLabels
      <4>2. Abs!PerformReserve(w, Failed)
        BY <1>1, <2>1, <4>1, AbsSame DEF Abs!PerformReserve
      <4> QED BY <4>2
    <3>2. CASE pc[w] = "showFind"
      <4>1. call[w].op = "show"
        BY <3>2, RequestKind DEF ShowLabels
      <4>2. Abs!PerformShow(w, Failed)
        BY <1>1, <2>1, <4>1, AbsSame DEF Abs!PerformShow
      <4> QED BY <4>2
    <3> QED BY <1>1, <3>1, <3>2
  <2>3. pc[w] # "done" /\ pc[w] # "reserveMark"
    BY <1>1
  <2> QED BY <1>1, <1>3, <2>2, <2>3, AnswersDiffer, AbsFinish
<1> QED BY <1>2, <1>3 DEF ReserveFind, ShowFind, FindUnderRdLock

LEMMA AbsLock ==
  ASSUME StoreInv, NEW w \in Workers, OthersKept(w), Quiet(w),
         \/ CreateLock(w) \/ ReserveLock(w) \/ ShowLock(w) \/ ListLock(w)
         \/ ShowCopy(w) \/ ListCopy(w)
  PROVE  UNCHANGED Abs!absVars
<1>1. call' = call /\ reply' = reply
  BY DEF CreateLock, ReserveLock, ShowLock, ListLock, ShowCopy, ListCopy
<1> QED BY <1>1, QuietKept, AbsQuiet

LEMMA AbsMutex ==
  ASSUME StoreInv, NEW w \in Workers, OthersKept(w), ReserveMutex(w) \/ ShowMutex(w)
  PROVE  UNCHANGED Abs!absVars
<1>1. /\ w \in Threads /\ TypeOK /\ pc[w] \in EventUsed /\ list[ev[w]].mutex = NoOne
      /\ list' = [list EXCEPT ![ev[w]].mutex = w] /\ call' = call /\ reply' = reply
      /\ Unmarked(w)
  <2>1. w \in Threads /\ TypeOK
    BY WorkersAndMain DEF StoreInv
  <2> QED BY <2>1, Domains
          DEF ReserveMutex, ShowMutex, MutexLock, Goto, EventUsed, Unmarked
<1>2. AbsCatalog' = AbsCatalog
  BY <1>1, MutexCatalog
<1> QED BY <1>1, <1>2, AbsQuiet

LEMMA AbsCreateFind ==
  ASSUME StoreInv, NEW w \in Workers, AnswerMatches(w), OthersKept(w), CreateFind(w)
  PROVE  [Abs!Next]_(Abs!absVars)
<1>1. /\ AbsCatalog' = AbsCatalog /\ Unmarked(w) /\ call' = call /\ pc[w] = "createFind"
      /\ call[w].op = "create"
  BY QuietKept, RequestKind DEF Quiet, CreateFind, CreateLabels
<1>2. CASE reply' = reply
  BY <1>1, <1>2, AbsQuiet
<1>3. CASE Finish(w, Failed)
  <2>1. Abs!PerformCreate(w, Failed)
    BY <1>1, AbsSame DEF Abs!PerformCreate
  <2> QED BY <1>1, <1>3, <2>1, AnswersDiffer, AbsFinish
<1> QED BY <1>2, <1>3 DEF CreateFind

(* How a new event looks.                                                  *)
LEMMA NewView ==
  ASSUME NEW m, NEW f \in AnyEvent, list'[m] = f, f.mutex = NoOne, f.reservations = 0,
         \A p \in Places(f) : f.data[p] = 0
  PROVE  AbsEvent(list[m])' =
           [id |-> f.id, rows |-> f.rows, cols |-> f.cols, reservations |-> 0,
            owner |-> [s \in Coords(f) |-> 0]]
<1>1. NoOne \notin Workers
  BY WorkersAndMain
<1>2. ASSUME NEW s \in Coords(f)
      PROVE  Owner(list[m], s)' = 0
  <2>1. SeatIndex(f, s[1], s[2]) \in Places(f)
    BY PlaceOfSeat
  <2>2. Owner(list[m], s)' = f.data[SeatIndex(f, s[1], s[2])]
    BY <1>1 DEF Owner
  <2>3. f.data[SeatIndex(f, s[1], s[2])] = 0
    BY <2>1
  <2> QED BY <2>2, <2>3
<1>3. [s \in Coords(list[m]) |-> Owner(list[m], s)]' = [s \in Coords(f) |-> 0]
  BY <1>2
<1> QED BY <1>3 DEF AbsEvent

LEMMA AbsCreateAppend ==
  ASSUME StoreInv, NEW w \in Workers, AnswerMatches(w), OthersKept(w), CreateAppend(w)
  PROVE  [Abs!Next]_(Abs!absVars)
<1> DEFINE c == call[w]
           e == NewEvent(c)
<1>1. /\ w \in Threads /\ TypeOK /\ call' = call /\ pc[w] = "createAppend"
      /\ c \in CreateCalls /\ c.op = "create"
  BY WorkersAndMain, RequestKind DEF StoreInv, CreateAppend, CreateLabels
<1>2. CASE Finish(w, Failed) /\ list' = list
  <2>1. AbsCatalog' = AbsCatalog
    BY <1>2, QuietKept DEF Quiet
  <2>2. Abs!PerformCreate(w, Failed)
    BY <1>1, <2>1, AbsSame DEF Abs!PerformCreate
  <2> QED BY <1>1, <1>2, <2>2, AnswersDiffer, AbsFinish
<1>3. CASE list' = Append(list, e) /\ Finish(w, Done)
  <2> DEFINE x == [id |-> c.id, rows |-> c.dims[1], cols |-> c.dims[2], reservations |-> 0,
                   owner |-> [s \in Coords(e) |-> 0]]
  <2>1. /\ e \in AnyEvent /\ e.id = c.id /\ e.rows = c.dims[1] /\ e.cols = c.dims[2]
        /\ e.mutex = NoOne /\ e.reservations = 0 /\ \A p \in Places(e) : e.data[p] = 0
    BY <1>1, NewFields
  <2> HIDE DEF e
  <2>2. PICK n \in Nat : n = Len(list)
    BY <1>1, ListIsSeq DEF TypeOK
  <2>3. /\ DOMAIN list = 1 .. n /\ DOMAIN list' = 1 .. (n + 1)
        /\ list'[n + 1] = e /\ \A i \in DOMAIN list : list'[i] = list[i]
    BY <1>1, <1>3, <2>1, <2>2, ListIsSeq, AppendEvent DEF TypeOK
  <2>4. list' # list
    <3>1. n + 1 \in DOMAIN list' /\ n + 1 \notin DOMAIN list
      BY <2>3
    <3> QED BY <3>1
  <2>5. NoneWithId(c.id) /\ \A i \in DOMAIN list : list[i].mutex # w
    BY <2>4, AppendedEvent
  <2>6. AbsEvent(list[n + 1])' = x
    <3>1. AbsEvent(list[n + 1])' =
            [id |-> e.id, rows |-> e.rows, cols |-> e.cols, reservations |-> 0,
             owner |-> [s \in Coords(e) |-> 0]]
      BY <2>1, <2>3, NewView
    <3> QED BY <2>1, <3>1
  <2>7. \A i \in 1 .. n : AbsEvent(list[i])' = AbsEvent(list[i])
    BY <1>1, <2>3, <2>5, UntouchedView, AbsEventKept
  <2>8. AbsCatalog' = [i \in 1 .. (n + 1) |-> AbsEvent(list[i])']
    BY <2>3 DEF AbsCatalog, AbsEvent
  <2>9. AbsCatalog = [i \in 1 .. n |-> AbsEvent(list[i])]
    BY <2>3, AbsCatalogIs
  <2> HIDE DEF x
  <2>10. AbsCatalog' = Append(AbsCatalog, x)
    BY <2>2, <2>6, <2>7, <2>8, <2>9, AppendIs
  <2>11. \A i \in DOMAIN AbsCatalog : AbsCatalog[i].id # c.id
    BY <2>3, <2>5, <2>9 DEF NoneWithId, AbsEvent
  <2>12. Coords(e) = Coords([id |-> c.id, rows |-> c.dims[1], cols |-> c.dims[2],
                             reservations |-> 0])
    BY <2>1 DEF Coords
  <2>13. Abs!PerformCreate(w, Done)
    BY <1>1, <2>10, <2>11, <2>12, AbsSame DEF Abs!PerformCreate, x
  <2> QED BY <1>1, <1>3, <2>13, AnswersDiffer, AbsFinish
<1> QED BY <1>2, <1>3 DEF CreateAppend

-----------------------------------------------------------------------------
(* LIST takes effect when it drops the lock of the list.                   *)
LEMMA AbsListCount ==
  ASSUME StoreInv, NEW w \in Workers, AnswerMatches(w), OthersKept(w), ListCount(w)
  PROVE  [Abs!Next]_(Abs!absVars)
<1>1. /\ AbsCatalog' = AbsCatalog /\ Unmarked(w) /\ call' = call /\ pc[w] = "listCount"
      /\ call[w].op = "list"
  BY QuietKept, RequestKind DEF Quiet, List, ListCount, ListLabels
<1>2. CASE reply' = reply
  BY <1>1, <1>2, AbsQuiet
<1>3. CASE list = <<>> /\ Finish(w, Failed)
  <2>1. AbsCatalog = <<>>
    BY <1>3 DEF AbsCatalog
  <2>2. Abs!PerformList(w, Failed)
    BY <1>1, <2>1, AbsSame DEF Abs!PerformList
  <2> QED BY <1>1, <1>3, <2>2, AnswersDiffer, AbsFinish
<1> QED BY <1>2, <1>3 DEF ListCount

LEMMA AbsListSend ==
  ASSUME StoreInv, NEW w \in Workers, AnswerMatches(w), OthersKept(w), ListSend(w)
  PROVE  Abs!Next
<1> DEFINE r == Reply(0, <<cur[w], 1>>, buf[w])
<1>1. /\ AbsCatalog' = AbsCatalog /\ call' = call /\ pc[w] = "listSend"
      /\ call[w].op = "list" /\ Finish(w, r)
  BY QuietKept, RequestKind DEF Quiet, List, ListSend, ListLabels
<1>2. /\ list # <<>> /\ cur[w] = Len(list) /\ buf[w] = IdsOf(list)
      /\ DOMAIN list = 1 .. Len(list) /\ Len(list) \in Nat
  BY <1>1, ListIsSeq DEF AnswerMatches, StoreInv, TypeOK
<1>3. /\ AbsCatalog # <<>> /\ Len(AbsCatalog) = Len(list)
      /\ DOMAIN AbsCatalog = DOMAIN list
  <2>1. AbsCatalog = [i \in 1 .. Len(list) |-> AbsEvent(list[i])]
    BY <1>2, AbsCatalogIs
  <2>2. Len(list) # 0
    <3>1. list \in Seq(AnyEvent)
      BY ListIsSeq DEF StoreInv, TypeOK
    <3> QED BY <1>2, <3>1
  <2> QED BY <1>2, <2>1, <2>2
<1>4. IdsOf(AbsCatalog) = IdsOf(list)
  BY <1>3, AbsCatalogIs DEF IdsOf, AbsEvent
<1>5. r = Reply(0, <<Len(AbsCatalog), 1>>, IdsOf(AbsCatalog))
  BY <1>2, <1>3, <1>4
<1> HIDE DEF r
<1>6. Abs!PerformList(w, r)
  BY <1>1, <1>3, <1>5, AbsSame DEF Abs!PerformList
<1> QED BY <1>1, <1>6, AnswersDiffer, AbsFinish DEF r

-----------------------------------------------------------------------------
(* What ems_reserve tests is what EventStore asks of a reservation.        *)
LEMMA ReservableIs ==
  ASSUME NEW e \in AnyEvent, ~ Numbered(e), NEW seats \in Seq(Nat \X Nat)
  PROVE  Abs!Reservable(AbsEvent(e), seats)
           <=> RequestInBounds(e, seats) /\ ~ SomeSeatTaken(e, seats)
<1>1. DOMAIN seats = 1 .. Len(seats) /\ Coords(AbsEvent(e)) = Coords(e)
  BY DEF AbsEvent, Coords
<1>2. Abs!Reservable(AbsEvent(e), seats) <=>
        \A k \in DOMAIN seats : seats[k] \in Coords(e) /\ AbsEvent(e).owner[seats[k]] = 0
  BY <1>1, AbsSame DEF Abs!Reservable
<1>3. ASSUME NEW k \in DOMAIN seats
      PROVE  /\ seats[k] \in Coords(e) <=> InBounds(e, seats[k][1], seats[k][2])
             /\ seats[k] \in Coords(e) =>
                  AbsEvent(e).owner[seats[k]] = e.data[SeatIndex(e, seats[k][1], seats[k][2])]
  <2>1. e.rows \in Nat /\ e.cols \in Nat /\ seats[k] \in Nat \X Nat
    BY AnyEventType
  <2>2. seats[k] = <<seats[k][1], seats[k][2]>> /\ seats[k][1] \in Nat /\ seats[k][2] \in Nat
    BY <2>1
  <2>3. seats[k] \in Coords(e) <=> InBounds(e, seats[k][1], seats[k][2])
    BY <2>1, <2>2 DEF Coords, InBounds
  <2> QED BY <2>3, OwnerUnnumbered DEF AbsEvent
<1> QED BY <1>2, <1>3 DEF RequestInBounds, SomeSeatTaken

LEMMA AbsEventOfId ==
  ASSUME StoreInv, NEW i \in DOMAIN list
  PROVE  \A j \in DOMAIN AbsCatalog :
           AbsCatalog[j].id = list[i].id => AbsCatalog[j] = AbsEvent(list[i])
<1> SUFFICES ASSUME NEW j \in DOMAIN AbsCatalog, AbsCatalog[j].id = list[i].id
             PROVE  AbsCatalog[j] = AbsEvent(list[i])
  OBVIOUS
<1>1. j \in DOMAIN list /\ AbsCatalog[j] = AbsEvent(list[j]) /\ list[j].id = list[i].id
  BY AbsCatalogIs DEF AbsEvent
<1>2. j = i
  BY <1>1 DEF StoreInv, UniqueEventIds
<1> QED BY <1>1, <1>2

LEMMA AbsReserveCheck ==
  ASSUME StoreInv, NEW w \in Workers, AnswerMatches(w), OthersKept(w), ReserveCheck(w)
  PROVE  [Abs!Next]_(Abs!absVars)
<1> DEFINE i == ev[w]
           e == list[i]
           seats == call[w].seats
           valid == RequestInBounds(e, seats) /\ ~ SomeSeatTaken(e, seats)
<1>1. /\ w \in Threads /\ TypeOK /\ call' = call /\ pc[w] = "reserveCheck"
      /\ pc[w] \in EventUsed /\ pc[w] \in EventLocked
      /\ call[w] \in ReserveCalls /\ call[w].op = "reserve"
  BY WorkersAndMain, RequestKind
     DEF StoreInv, ReserveCheck, ReserveLabels, EventUsed, EventLocked
<1>2. /\ i \in DOMAIN list /\ e \in AnyEvent /\ e.mutex = w /\ e.id = call[w].id
      /\ seats \in Seq(Nat \X Nat)
  BY <1>1, HeldEvent DEF AnswerMatches, ReserveCalls
<1>3. CASE valid /\ UNCHANGED <<list, reply>>
  <2>1. Quiet(w)
    BY <1>3 DEF Quiet
  <2> QED BY <1>1, <1>3, <2>1, QuietKept, AbsQuiet
<1>4. CASE ~ valid /\ MutexUnlock(i) /\ Finish(w, Failed)
  <2>1. pc'[w] = "done"
    BY <1>1, <1>4, Domains DEF Finish, Goto
  <2>2. AbsCatalog' = AbsCatalog
    <3>1. Unmarked(w) /\ list' = [list EXCEPT ![ev[w]].mutex = NoOne]
      BY <1>1, <1>4, <2>1 DEF Unmarked, MutexUnlock
    <3>2. list[ev[w]].mutex \in {NoOne, w}
      BY <1>2
    <3> QED BY <1>1, <3>1, <3>2, MutexCatalog
  <2>3. ~ Numbered(e)
    BY <1>1, <1>2 DEF Numbered, Marking
  <2>4. ~ Abs!Reservable(AbsEvent(e), seats)
    <3> HIDE DEF e, seats
    <3> QED BY <1>2, <1>4, <2>3, ReservableIs
  <2>5. \A j \in DOMAIN AbsCatalog :
          AbsCatalog[j].id = call[w].id => ~ Abs!Reservable(AbsCatalog[j], call[w].seats)
    <3>1. \A j \in DOMAIN AbsCatalog : AbsCatalog[j].id = e.id => AbsCatalog[j] = AbsEvent(e)
      BY <1>2, AbsEventOfId
    <3> QED BY <1>2, <2>4, <3>1
  <2>6. Abs!PerformReserve(w, Failed)
    BY <1>1, <2>2, <2>5, AbsSame DEF Abs!PerformReserve
  <2> QED BY <1>1, <1>4, <2>6, AnswersDiffer, AbsFinish
<1> QED BY <1>3, <1>4 DEF ReserveCheck

LEMMA PlacesDiffer ==
  ASSUME NEW e \in AnyEvent, NEW s \in Coords(e), NEW u \in Coords(e),
         SeatIndex(e, s[1], s[2]) = SeatIndex(e, u[1], u[2])
  PROVE  s = u
<1>1. e.rows \in Nat /\ e.cols \in Nat
  BY AnyEventType
<1>2. s = <<s[1], s[2]>> /\ u = <<u[1], u[2]>>
  BY DEF Coords
<1>3. PICK r1, c1, r2, c2 : s[1] = r1 /\ s[2] = c1 /\ u[1] = r2 /\ u[2] = c2
  OBVIOUS
<1>4. /\ <<r1, c1>> \in Coords(e) /\ <<r2, c2>> \in Coords(e)
      /\ SeatIndex(e, r1, c1) = SeatIndex(e, r2, c2)
  BY <1>2, <1>3
<1>5. r1 = r2 /\ c1 = c2
  BY <1>1, <1>4, SeatIndexInjective, ZenonT(60)
<1> QED BY <1>2, <1>3, <1>5

LEMMA ViewUpdate ==
  ASSUME NEW e, NEW n, NEW o
  PROVE  [AbsEvent(e) EXCEPT !.reservations = n, !.owner = o]
           = [id |-> e.id, rows |-> e.rows, cols |-> e.cols, reservations |-> n, owner |-> o]
<1> DEFINE Views == [id : {e.id}, rows : {e.rows}, cols : {e.cols}, reservations : {n}, owner : {o}]
           V == AbsEvent(e)
<1>1. PICK m, w : V \in [id : {e.id}, rows : {e.rows}, cols : {e.cols}, reservations : {m},
                         owner : {w}]
  BY DEF AbsEvent
<1> HIDE DEF V
<1>2. [V EXCEPT !.reservations = n, !.owner = o] \in Views
  BY <1>1
<1>3. ASSUME NEW y \in Views
      PROVE  y = [id |-> e.id, rows |-> e.rows, cols |-> e.cols, reservations |-> n, owner |-> o]
  <2>1. /\ y.id = e.id /\ y.rows = e.rows /\ y.cols = e.cols /\ y.reservations = n /\ y.owner = o
        /\ y = [id |-> y.id, rows |-> y.rows, cols |-> y.cols,
                reservations |-> y.reservations, owner |-> y.owner]
    OBVIOUS
  <2> QED BY <2>1
<1> QED BY <1>2, <1>3 DEF V

LEMMA TakenPlaces ==
  ASSUME NEW e \in AnyEvent, NEW seats \in Seq(Nat \X Nat), RequestInBounds(e, seats),
         NEW s \in Coords(e)
  PROVE  (\E k \in 1 .. Len(seats) : Place(e, seats, k) = SeatIndex(e, s[1], s[2]))
           <=> s \in {seats[k] : k \in DOMAIN seats}
<1>1. ASSUME NEW k \in 1 .. Len(seats)
      PROVE  k \in DOMAIN seats /\ seats[k] \in Coords(e)
  <2>1. k \in DOMAIN seats /\ seats[k] \in Nat \X Nat /\ e.rows \in Nat /\ e.cols \in Nat
    BY AnyEventType
  <2> QED BY <2>1 DEF RequestInBounds, InBounds, Coords
<1>2. ASSUME NEW k \in 1 .. Len(seats), Place(e, seats, k) = SeatIndex(e, s[1], s[2])
      PROVE  s = seats[k]
  BY <1>1, <1>2, PlacesDiffer DEF Place
<1>3. \A k \in DOMAIN seats : k \in 1 .. Len(seats)
  OBVIOUS
<1> QED BY <1>1, <1>2, <1>3 DEF Place

(* RESERVE takes effect when it gives the reservation its number: all the  *)
(* seats it names were free under the lock of the event, and are its own   *)
(* from then on.                                                           *)
LEMMA NumberedView ==
  ASSUME StoreInv, NEW w \in Workers, OthersKept(w), ReserveNumber(w)
  PROVE  LET i == ev[w]
             e == list[i]
             n == e.reservations + 1
             taken == {call[w].seats[k] : k \in DOMAIN call[w].seats}
         IN AbsEvent(list[i])' =
              [AbsEvent(e) EXCEPT !.reservations = n,
                                  !.owner = [s \in Coords(e) |->
                                    IF s \in taken THEN n ELSE AbsEvent(e).owner[s]]]
<1> DEFINE i == ev[w]
           e == list[i]
           f == list'[i]
           n == e.reservations + 1
           seats == call[w].seats
           taken == {seats[k] : k \in DOMAIN seats}
<1>1. /\ i \in DOMAIN list /\ e \in AnyEvent /\ f \in AnyEvent
      /\ e.mutex = w /\ f.mutex = w /\ f.id = e.id /\ f.rows = e.rows /\ f.cols = e.cols
      /\ f.reservations = n /\ f.data = e.data
  BY NumberedEvent
<1>2. /\ w \in Threads /\ w # Main /\ TypeOK /\ ThreadInv(w) /\ pc[w] = "reserveNumber"
      /\ pc'[w] = "reserveMark" /\ rid'[w] = n /\ cur'[w] = 1 /\ call' = call /\ ev' = ev
      /\ call[w] \in ReserveCalls
  BY WorkersAndMain, Domains, RequestKind DEF StoreInv, ReserveNumber, Goto, ReserveLabels
<1>3. seats \in Seq(Nat \X Nat) /\ RequestInBounds(e, seats)
  BY <1>2 DEF ThreadInv, SeatsFree, ReserveCalls
<1>4. ASSUME NEW s \in Coords(e)
      PROVE  Owner(list[i], s)' = IF s \in taken THEN n ELSE AbsEvent(e).owner[s]
  <2> DEFINE q == SeatIndex(e, s[1], s[2])
             named == \E k \in 1 .. Len(seats) : Place(e, seats, k) = q
  <2>1. named <=> s \in taken
    <3> HIDE DEF e, seats
    <3> QED BY <1>1, <1>3, TakenPlaces
  <2>2. AbsEvent(e).owner[s] = e.data[q]
    BY <1>2, <1>1, OwnerUnnumbered DEF AbsEvent, Numbered, Marking
  <2>3. \A a, b : SeatIndex(f, a, b) = SeatIndex(e, a, b)
    BY <1>1, SamePlan
  <2>4. Owner(list[i], s)' = IF named THEN n ELSE f.data[q]
    <3> DEFINE marks == {k \in 1 .. Len(seats) :
                           SeatIndex(f, seats[k][1], seats[k][2]) = SeatIndex(f, s[1], s[2])}
    <3>1. Owner(list[i], s)' =
            IF f.mutex \in Workers
            THEN IF /\ pc'[f.mutex] = "reserveMark"
                    /\ {k \in cur'[f.mutex] .. Len(call'[f.mutex].seats) :
                          SeatIndex(f, call'[f.mutex].seats[k][1], call'[f.mutex].seats[k][2])
                            = SeatIndex(f, s[1], s[2])} # {}
                 THEN rid'[f.mutex] ELSE f.data[SeatIndex(f, s[1], s[2])]
            ELSE f.data[SeatIndex(f, s[1], s[2])]
      BY <1>2 DEF Owner, Marking
    <3>2. Owner(list[i], s)' = IF marks # {} THEN n ELSE f.data[SeatIndex(f, s[1], s[2])]
      BY <1>1, <1>2, <3>1
    <3>3. marks # {} <=> named
      BY <2>3 DEF Place
    <3> HIDE DEF marks, named
    <3> QED BY <2>3, <3>2, <3>3
  <2> QED BY <1>1, <2>1, <2>2, <2>4
<1>5. Coords(f) = Coords(e)
  BY <1>1, SamePlan
<1>6. [s \in Coords(list[i]) |-> Owner(list[i], s)]'
        = [s \in Coords(e) |-> IF s \in taken THEN n ELSE AbsEvent(e).owner[s]]
  BY <1>2, <1>4, <1>5
<1> DEFINE o == [s \in Coords(e) |-> IF s \in taken THEN n ELSE AbsEvent(e).owner[s]]
<1>7. AbsEvent(list[i])' =
        [id |-> e.id, rows |-> e.rows, cols |-> e.cols, reservations |-> n, owner |-> o]
  BY <1>1, <1>2, <1>6 DEF AbsEvent
<1> HIDE DEF o, n
<1>8. AbsEvent(list[i])' = [AbsEvent(e) EXCEPT !.reservations = n, !.owner = o]
  BY <1>7, ViewUpdate
<1> QED BY <1>8 DEF o, n

LEMMA AbsReserveNumber ==
  ASSUME StoreInv, NEW w \in Workers, AnswerMatches(w), OthersKept(w), ReserveNumber(w)
  PROVE  Abs!Next
<1> DEFINE i == ev[w]
           e == list[i]
           n == e.reservations + 1
           seats == call[w].seats
           taken == {seats[k] : k \in DOMAIN seats}
           x == [AbsEvent(e) EXCEPT !.reservations = n,
                                    !.owner = [s \in Coords(e) |->
                                      IF s \in taken THEN n ELSE AbsEvent(e).owner[s]]]
<1>1. /\ i \in DOMAIN list /\ e \in AnyEvent /\ e.mutex = w
      /\ DOMAIN list' = DOMAIN list
      /\ \A j \in DOMAIN list : j # i => list[j].mutex # w /\ list'[j] = list[j]
  BY NumberedEvent
<1>2. /\ w \in Threads /\ w # Main /\ TypeOK /\ ThreadInv(w) /\ pc[w] = "reserveNumber"
      /\ pc'[w] = "reserveMark" /\ call' = call
      /\ call[w] \in ReserveCalls /\ call[w].op = "reserve"
  BY WorkersAndMain, Domains, RequestKind DEF StoreInv, ReserveNumber, Goto, ReserveLabels
<1>3. seats \in Seq(Nat \X Nat) /\ RequestInBounds(e, seats) /\ ~ SomeSeatTaken(e, seats)
  BY <1>2 DEF ThreadInv, SeatsFree, SomeSeatTaken, ReserveCalls
<1>4. ~ Numbered(e)
  BY <1>1, <1>2 DEF Numbered, Marking
<1>5. Abs!Reservable(AbsEvent(e), seats)
  <2> HIDE DEF e, seats
  <2> QED BY <1>1, <1>3, <1>4, ReservableIs
<1>6. AbsEvent(list[i])' = x
  BY NumberedView
<1>7. \A j \in DOMAIN list : j # i => AbsEvent(list[j])' = AbsEvent(list[j])
  BY <1>1, <1>2, UntouchedView, AbsEventKept
<1> HIDE DEF x
<1>8. AbsCatalog' = [AbsCatalog EXCEPT ![i] = x]
  <2>1. AbsCatalog' = [j \in DOMAIN list |-> AbsEvent(list[j])']
    BY <1>1 DEF AbsCatalog, AbsEvent
  <2>2. ASSUME NEW j \in DOMAIN list
        PROVE  AbsEvent(list[j])' = IF j = i THEN x ELSE AbsEvent(list[j])
    <3>1. i' = i
      BY DEF ReserveNumber
    <3> QED BY <1>6, <1>7, <3>1
  <2>3. AbsCatalog' = [j \in DOMAIN list |-> IF j = i THEN x ELSE AbsEvent(list[j])]
    BY <2>1, <2>2
  <2> QED BY <1>1, <2>3, AbsCatalogIs
<1>9. /\ i \in DOMAIN AbsCatalog /\ AbsCatalog[i] = AbsEvent(e) /\ AbsEvent(e).id = call[w].id
      /\ AbsEvent(e).reservations = e.reservations /\ Abs!Coords(AbsEvent(e)) = Coords(e)
  <2>1. e.id = call[w].id
    BY <1>2 DEF AnswerMatches, EventUsed, EventLocked
  <2> QED BY <1>1, <2>1, AbsCatalogIs, AbsSame DEF AbsEvent, Coords
<1>10. Abs!PerformReserve(w, Done)
  <2> DEFINE V == AbsCatalog[i]
             c == call[w]
             named == {c.seats[k] : k \in DOMAIN c.seats}
             o == [s \in Abs!Coords(V) |->
                     IF s \in named THEN V.reservations + 1 ELSE V.owner[s]]
  <2>1. o = [s \in Coords(e) |-> IF s \in taken THEN n ELSE AbsEvent(e).owner[s]]
    BY <1>9
  <2>2. x = [V EXCEPT !.reservations = V.reservations + 1, !.owner = o]
    BY <1>9, <2>1 DEF x
  <2>3. AbsCatalog' =
          [AbsCatalog EXCEPT ![i] = [V EXCEPT !.reservations = V.reservations + 1, !.owner = o]]
    BY <1>8, <2>2
  <2>4. V.id = c.id /\ c.op = "reserve" /\ Abs!Reservable(V, c.seats)
    BY <1>2, <1>5, <1>9
  <2> QED BY <1>9, <2>3, <2>4, AbsSame DEF Abs!PerformReserve
<1>11. AbsOutcome[w] = NoReply /\ AbsOutcome'[w] = Done
  BY <1>2 DEF AbsOutcome, Marking, AnswerMatches
<1> QED BY <1>2, <1>10, <1>11, AnswersDiffer, AbsPerforms

(* A turn of the marking loop does not show: the seat it marks belonged to *)
(* the reservation already.                                                *)
LEMMA MarkedView ==
  ASSUME StoreInv, NEW w \in Workers, AnswerMatches(w), ReserveMark(w)
  PROVE  SameView(ev[w])
<1> DEFINE i == ev[w]
           e == list[i]
           f == list'[i]
           seats == call[w].seats
           p == Place(e, seats, cur[w])
<1>1. /\ e.mutex = w /\ e.data \in [Places(e) -> Nat] /\ p \in Places(e) /\ e \in AnyEvent
      /\ cur[w] \in 1 .. Len(seats) /\ seats \in Seq(Nat \X Nat)
      /\ f.mutex = w /\ f.id = e.id /\ f.rows = e.rows /\ f.cols = e.cols
      /\ f.reservations = e.reservations /\ f.data = [e.data EXCEPT ![p] = rid[w]]
  BY MarkedEvent
<1>2. /\ pc[w] = "reserveMark" /\ pc' = pc /\ call' = call /\ rid' = rid /\ ev' = ev
      /\ cur'[w] = cur[w] + 1
  BY WorkersAndMain, Domains DEF StoreInv, ReserveMark
<1>3. ASSUME NEW s \in Coords(e)
      PROVE  Owner(list[i], s)' = Owner(list[i], s)
  <2> DEFINE q == SeatIndex(e, s[1], s[2])
             Left(m) == \E k \in m .. Len(seats) : Place(e, seats, k) = q
  <2>1. Owner(list[i], s) = IF Left(cur[w]) THEN rid[w] ELSE e.data[q]
    <3>1. e.mutex = w /\ Marking(w)
      BY <1>1, <1>2 DEF Marking
    <3> HIDE DEF e
    <3>2. Owner(e, s) = IF Left(cur[w]) THEN rid[w] ELSE e.data[q]
      BY <3>1, OwnerNumbered
    <3> QED BY <3>2 DEF e
  <2>2. Owner(list[i], s)' = IF Left(cur[w] + 1) THEN rid[w] ELSE f.data[q]
    <3> DEFINE marks == {k \in (cur[w] + 1) .. Len(seats) :
                           SeatIndex(f, seats[k][1], seats[k][2]) = SeatIndex(f, s[1], s[2])}
    <3>1. Owner(list[i], s)' =
            IF f.mutex \in Workers
            THEN IF /\ pc'[f.mutex] = "reserveMark"
                    /\ {k \in cur'[f.mutex] .. Len(call'[f.mutex].seats) :
                          SeatIndex(f, call'[f.mutex].seats[k][1], call'[f.mutex].seats[k][2])
                            = SeatIndex(f, s[1], s[2])} # {}
                 THEN rid'[f.mutex] ELSE f.data[SeatIndex(f, s[1], s[2])]
            ELSE f.data[SeatIndex(f, s[1], s[2])]
      BY <1>2 DEF Owner, Marking
    <3>2. Owner(list[i], s)' = IF marks # {} THEN rid[w] ELSE f.data[SeatIndex(f, s[1], s[2])]
      <4>1. f.mutex = w /\ pc'[w] = "reserveMark" /\ call'[w].seats = seats
            /\ rid'[w] = rid[w] /\ cur'[w] = cur[w] + 1
        BY <1>1, <1>2
      <4> HIDE DEF f, seats
      <4> QED BY <3>1, <4>1
    <3>3. \A a, b : SeatIndex(f, a, b) = SeatIndex(e, a, b)
      <4>1. f.rows = e.rows /\ f.cols = e.cols
        BY <1>1
      <4> HIDE DEF e, f
      <4> QED BY <4>1, SamePlan
    <3>4. marks # {} <=> Left(cur[w] + 1)
      BY <3>3 DEF Place
    <3> HIDE DEF marks, Left
    <3> QED BY <3>2, <3>3, <3>4
  <2>3. Left(cur[w]) <=> p = q \/ Left(cur[w] + 1)
    <3> HIDE DEF e, seats, q
    <3>1. Len(seats) \in Nat /\ cur[w] \in cur[w] .. Len(seats)
      BY <1>1
    <3>2. \A k \in cur[w] .. Len(seats) : k = cur[w] \/ k \in (cur[w] + 1) .. Len(seats)
      BY <1>1
    <3>3. \A k \in (cur[w] + 1) .. Len(seats) : k \in cur[w] .. Len(seats)
      BY <1>1
    <3> QED BY <3>1, <3>2, <3>3
  <2>4. q \in Places(e)
    BY <1>1, PlaceOfSeat
  <2>5. f.data[q] = IF p = q THEN rid[w] ELSE e.data[q]
    BY <1>1, <2>4
  <2> HIDE DEF Left
  <2> QED BY <2>1, <2>2, <2>3, <2>5
<1> QED BY <1>1, <1>2, <1>3 DEF SameView

LEMMA AbsReserveMark ==
  ASSUME StoreInv, NEW w \in Workers, AnswerMatches(w), OthersKept(w), ReserveMark(w)
  PROVE  UNCHANGED Abs!absVars
<1>1. /\ w \in Threads /\ pc' = pc /\ call' = call /\ reply' = reply
      /\ pc[w] = "reserveMark" /\ pc[w] \in EventUsed
  BY WorkersAndMain DEF ReserveMark, EventUsed, EventLocked
<1>2. /\ DOMAIN list' = DOMAIN list
      /\ \A j \in DOMAIN list : j # ev[w] => list[j].mutex # w /\ list'[j] = list[j]
  BY <1>1, HeldEvent, MarkedEvent, ZenonT(60)
<1>3. AbsCatalog' = AbsCatalog
  BY <1>1, <1>2, MarkedView, CatalogKept
<1>4. AbsOutcome'[w] = AbsOutcome[w]
  BY <1>1 DEF AbsOutcome, Marking
<1> QED BY <1>1, <1>3, <1>4, AbsStutter

LEMMA AbsReserveUnlock ==
  ASSUME StoreInv, NEW w \in Workers, AnswerMatches(w), OthersKept(w), ReserveUnlock(w)
  PROVE  UNCHANGED Abs!absVars
<1> DEFINE i == ev[w]
           e == list[i]
           f == list'[i]
           seats == call[w].seats
<1>1. /\ w \in Threads /\ TypeOK /\ pc[w] = "reserveMark" /\ pc'[w] = "done" /\ call' = call
      /\ reply'[w] = Done /\ ev' = ev /\ cur[w] > Len(seats) /\ cur[w] \in Nat
      /\ pc[w] \in EventUsed /\ pc[w] \in EventLocked /\ NoOne \notin Workers
      /\ list' = [list EXCEPT ![ev[w]].mutex = NoOne] /\ call[w] \in ReserveCalls
  BY WorkersAndMain, Domains, RequestKind
     DEF StoreInv, ReserveUnlock, MutexUnlock, Finish, Goto, EventUsed, EventLocked, ReserveLabels
<1>2. /\ i \in DOMAIN list /\ f.mutex = NoOne /\ f.id = e.id /\ f.rows = e.rows
      /\ f.cols = e.cols /\ f.reservations = e.reservations /\ f.data = e.data
      /\ DOMAIN list' = DOMAIN list
      /\ \A j \in DOMAIN list : j # i => list[j].mutex # w /\ list'[j] = list[j]
  <2>1. NoOne \in Threads \cup {NoOne}
    OBVIOUS
  <2>2. /\ w \in Threads /\ pc[w] \in EventUsed
        /\ list' = [list EXCEPT ![ev[w]].mutex = NoOne]
    BY <1>1
  <2> QED BY <2>1, <2>2, MutexChange, ZenonT(60)
<1>3. e.mutex = w
  BY <1>1, HeldEvent
<1>4. ASSUME NEW s
      PROVE  Owner(list[i], s)' = Owner(list[i], s)
  <2>1. cur[w] .. Len(seats) = {}
    <3>1. Len(seats) \in Nat
      BY <1>1 DEF ReserveCalls
    <3> QED BY <1>1, <3>1
  <2>2. Owner(list[i], s) = e.data[SeatIndex(e, s[1], s[2])]
    BY <1>1, <1>3, <2>1, OwnerNumbered DEF Marking
  <2>3. Owner(list[i], s)' = f.data[SeatIndex(f, s[1], s[2])]
    BY <1>1, <1>2 DEF Owner
  <2>4. SeatIndex(f, s[1], s[2]) = SeatIndex(e, s[1], s[2])
    BY <1>2, SamePlan
  <2> QED BY <1>2, <2>2, <2>3, <2>4
<1>5. SameView(i)
  BY <1>1, <1>2, <1>4 DEF SameView
<1>6. AbsCatalog' = AbsCatalog
  BY <1>1, <1>2, <1>5, CatalogKept
<1>7. AbsOutcome'[w] = AbsOutcome[w]
  BY <1>1 DEF AbsOutcome, Marking
<1> QED BY <1>1, <1>6, <1>7, AbsStutter

(* SHOW takes effect when it unlocks the event: nobody has changed a seat  *)
(* since the first one was copied.                                         *)
LEMMA CopyIsPicture ==
  ASSUME NEW e \in AnyEvent, ~ Numbered(e), NEW k \in Nat, NEW copy,
         CopiedSoFar(e, k, copy), k > e.rows * e.cols
  PROVE  copy = [j \in 1 .. e.rows * e.cols |-> AbsEvent(e).owner[RowMajor(e, j)]]
<1> DEFINE n == e.rows * e.cols
<1>1. e.rows \in Nat /\ e.cols \in Nat
  BY AnyEventType
<1>2. ASSUME NEW j \in 1 .. n
      PROVE  AbsEvent(e).owner[RowMajor(e, j)] = e.data[j - 1]
  <2>1. RowMajor(e, j) \in Coords(e)
    BY <1>1, RowMajorInPlan
  <2>2. SeatIndex(e, RowMajor(e, j)[1], RowMajor(e, j)[2]) = j - 1
    BY <1>1, RowMajorIndex
  <2> QED BY <2>1, <2>2, OwnerUnnumbered DEF AbsEvent
<1>3. n \in Nat
  BY <1>1, Z3
<1> HIDE DEF n
<1>4. k <= n + 1 /\ k > n /\ copy = [j \in 1 .. (k - 1) |-> e.data[j - 1]]
  BY DEF CopiedSoFar, n
<1>5. k - 1 = n
  BY <1>3, <1>4
<1>6. copy = [j \in 1 .. n |-> e.data[j - 1]]
  BY <1>4, <1>5
<1>7. copy = [j \in 1 .. n |-> AbsEvent(e).owner[RowMajor(e, j)]]
  BY <1>2, <1>6
<1> QED BY <1>7 DEF n

LEMMA AbsShowUnlock ==
  ASSUME StoreInv, NEW w \in Workers, AnswerMatches(w), OthersKept(w), ShowUnlock(w)
  PROVE  Abs!Next
<1> DEFINE i == ev[w]
           e == list[i]
           r == Reply(0, <<e.rows, e.cols>>, buf[w])
<1>1. /\ w \in Threads /\ TypeOK /\ pc[w] = "showCopy" /\ pc'[w] = "done" /\ call' = call
      /\ Finish(w, r) /\ cur[w] > e.rows * e.cols /\ cur[w] \in Nat
      /\ pc[w] \in EventUsed /\ pc[w] \in EventLocked /\ call[w].op = "show"
      /\ list' = [list EXCEPT ![ev[w]].mutex = NoOne]
  BY WorkersAndMain, Domains, RequestKind
     DEF StoreInv, ShowUnlock, MutexUnlock, Finish, Goto, EventUsed, EventLocked, ShowLabels
<1>2. /\ i \in DOMAIN list /\ e \in AnyEvent /\ e.mutex = w /\ e.id = call[w].id
      /\ CopiedSoFar(e, cur[w], buf[w])
  BY <1>1, HeldEvent DEF AnswerMatches
<1>3. AbsCatalog' = AbsCatalog
  <2>1. Unmarked(w) /\ list[ev[w]].mutex \in {NoOne, w}
    BY <1>1, <1>2 DEF Unmarked
  <2> QED BY <1>1, <2>1, MutexCatalog
<1>4. buf[w] = [j \in 1 .. e.rows * e.cols |-> AbsEvent(e).owner[RowMajor(e, j)]]
  <2>1. ~ Numbered(e)
    BY <1>1, <1>2 DEF Numbered, Marking
  <2> HIDE DEF e
  <2> QED BY <1>1, <1>2, <2>1, CopyIsPicture
<1>5. /\ i \in DOMAIN AbsCatalog /\ AbsCatalog[i] = AbsEvent(e) /\ AbsEvent(e).id = call[w].id
      /\ AbsEvent(e).rows = e.rows /\ AbsEvent(e).cols = e.cols
      /\ \A j : RowMajor(AbsEvent(e), j) = RowMajor(e, j)
  BY <1>2, AbsCatalogIs DEF AbsEvent, RowMajor
<1>6. Abs!PerformShow(w, r)
  <2> DEFINE V == AbsCatalog[i]
  <2>1. [k \in 1 .. V.rows * V.cols |-> V.owner[RowMajor(V, k)]]
          = [j \in 1 .. e.rows * e.cols |-> AbsEvent(e).owner[RowMajor(e, j)]]
    BY <1>5
  <2>2. r = Reply(0, <<V.rows, V.cols>>, [k \in 1 .. V.rows * V.cols |-> V.owner[RowMajor(V, k)]])
    BY <1>4, <1>5, <2>1
  <2>3. V.id = call[w].id /\ i \in DOMAIN AbsCatalog
    BY <1>5
  <2> HIDE DEF r, i
  <2> QED BY <1>1, <1>3, <2>2, <2>3, AbsSame DEF Abs!PerformShow
<1> HIDE DEF r
<1> QED BY <1>1, <1>6, AnswersDiffer, AbsFinish DEF r

(* The status report does not show.                                        *)
LEMMA AbsReport ==
  ASSUME StoreInv, OthersKept(Main), StatusLock \/ ReportRest
  PROVE  UNCHANGED Abs!absVars
<1>1. Main \in Threads /\ Main \notin Workers /\ Unmarked(Main)
  BY WorkersAndMain DEF Unmarked
<1>2. call' = call
  BY DEF StatusLock, ReportRest, StatusWalk, SignalLock, SignalFind, SignalMutex, SignalPrint,
     StatusNext
<1>3. AbsOutcome' = AbsOutcome
  <2>1. \A u \in Workers : pc'[u] = pc[u] /\ reply'[u] = reply[u]
    BY <1>1 DEF OthersKept
  <2> QED BY <2>1 DEF AbsOutcome, Marking
<1>4. AbsCatalog' = AbsCatalog
  <2>1. CASE StatusLock \/ StatusWalk \/ SignalLock \/ SignalFind \/ StatusNext
    <3>1. list' = list
      BY <2>1 DEF StatusLock, StatusWalk, SignalLock, SignalFind, FindUnderRdLock, StatusNext
    <3> QED BY <1>1, <3>1, QuietCatalog
  <2>2. CASE SignalMutex
    <3>1. /\ pc[Main] \in EventUsed /\ list[ev[Main]].mutex \in {NoOne, Main}
          /\ list' = [list EXCEPT ![ev[Main]].mutex = Main]
      BY <2>2 DEF SignalMutex, MutexLock, EventUsed
    <3> QED BY <1>1, <3>1, MutexCatalog
  <2>3. CASE SignalPrint
    <3>1. /\ pc[Main] \in EventUsed /\ pc[Main] \in EventLocked
          /\ list' = [list EXCEPT ![ev[Main]].mutex = NoOne]
      BY <2>3 DEF SignalPrint, MutexUnlock, EventUsed, EventLocked
    <3>2. list[ev[Main]].mutex \in {NoOne, Main}
      BY <1>1, <3>1, HeldEvent
    <3> QED BY <1>1, <3>1, <3>2, MutexCatalog
  <2> QED BY <2>1, <2>2, <2>3 DEF ReportRest
<1> QED BY <1>2, <1>3, <1>4 DEF Abs!absVars

-----------------------------------------------------------------------------
LEMMA InitAbs == Init => Abs!Init
<1> SUFFICES ASSUME Init
             PROVE  Abs!Init
  OBVIOUS
<1>1. \A w \in Workers : w \in Threads /\ pc[w] = "idle" /\ reply[w] = NoReply
  BY WorkersAndMain DEF Init
<1>2. AbsCatalog = <<>> /\ call = [w \in Workers |-> NoCall]
  BY DEF Init, AbsCatalog
<1>3. AbsOutcome = [w \in Workers |-> NoReply]
  BY <1>1 DEF AbsOutcome, Marking
<1> QED BY <1>2, <1>3, AbsSame DEF Abs!Init

LEMMA NextAbs ==
  ASSUME StoreInv, AnswerInv, [Next]_vars
  PROVE  [Abs!Next]_(Abs!absVars)
<1>1. CASE UNCHANGED vars
  BY <1>1 DEF vars, Abs!absVars, AbsCatalog, AbsOutcome, Owner, Marking
<1>2. ASSUME NEW w \in Workers, (\E c \in Calls : Invoke(w, c)) \/ Serve(w)
      PROVE  [Abs!Next]_(Abs!absVars)
  <2>1. OthersKept(w) /\ AnswerMatches(w)
    BY <1>2, ServeOthersKept DEF AnswerInv
  <2>2. CASE \E c \in Calls : Invoke(w, c)
    BY <2>1, <2>2, AbsInvoke
  <2>3. CASE Create(w)
    BY <2>1, <2>3, AbsLock, AbsCreateFind, AbsCreateAppend DEF Create, Quiet
  <2>4. CASE Reserve(w)
    BY <2>1, <2>4, AbsLock, AbsMissing, AbsMutex, AbsReserveCheck, AbsReserveNumber,
       AbsReserveMark, AbsReserveUnlock DEF Reserve, Quiet
  <2>5. CASE Show(w)
    BY <2>1, <2>5, AbsLock, AbsMissing, AbsMutex, AbsShowUnlock DEF Show, Quiet
  <2>6. CASE List(w)
    BY <2>1, <2>6, AbsLock, AbsListCount, AbsListSend DEF List, Quiet
  <2>7. CASE Return(w)
    BY <2>1, <2>7, AbsReturn
  <2> QED BY <1>2, <2>2, <2>3, <2>4, <2>5, <2>6, <2>7 DEF Serve
<1>3. CASE StatusLock \/ ReportRest
  BY <1>3, ReportOthersKept, AbsReport
<1> QED BY <1>1, <1>2, <1>3 DEF Next

(* The server's store implements EventStore: every CREATE, RESERVE, SHOW   *)
(* and LIST of server/operations.c takes effect at one instant between its *)
(* call and its answer, whatever the other workers and the status reports  *)
(* do meanwhile.                                                           *)
THEOREM Linearizable == Spec => ImplementsEventStore
<1>1. Init => Abs!Init
  BY InitAbs
<1>2. StoreInv /\ AnswerInv /\ [Next]_vars => [Abs!Next]_(Abs!absVars)
  BY NextAbs
<1> QED BY <1>1, <1>2, StoreInvariant, AnswersHold, PTL DEF Spec, ImplementsEventStore, Abs!Spec
=============================================================================
