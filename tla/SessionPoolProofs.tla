------------------------- MODULE SessionPoolProofs -------------------------
(***************************************************************************)
(* Proofs about SessionPool, for any number of workers and clients: the    *)
(* indices of the ring buffer and the session ids stay in range; the count *)
(* of clients that everybody updates without a lock never exceeds the      *)
(* limit by more than one; no worker takes a slot no client was put in, as *)
(* long as none wakes without a signal; and a client's session id is its   *)
(* own until a scan finds none free, which needs N + 2 clients and a quit. *)
(***************************************************************************)
EXTENDS SessionPool, FiniteSetTheorems, TLAPS

(* Every value on its way into active_clients is bounded.                  *)
LoadsBounded ==
  /\ pc = "load" => active_clients <= N
  /\ pc = "store" => tmp <= N
  /\ \A w \in Workers : wpc[w] = "store" => wtmp[w] <= N + 1

(* The inductive invariant.                                                *)
Inv == TypeOK /\ ActiveBounded /\ LoadsBounded

-----------------------------------------------------------------------------
(* There is a worker, so the limit is positive.                            *)
LEMMA LimitPositive == N \in Nat /\ N > 0
<1>1. N \in Nat BY SessionPoolAssumption, FS_CardinalityType DEF N
<1>2. N # 0 BY SessionPoolAssumption, FS_EmptySet DEF N
<1> QED BY <1>1, <1>2

(* The next slot of any index is in the ring.                              *)
LEMMA NextSlotInRing ==
  ASSUME NEW i \in Int PROVE NextSlot(i) \in Ids
<1>1. (i + 1) % N \in 0 .. (N - 1) BY LimitPositive
<1> QED BY <1>1 DEF NextSlot, Ids

(* The session of nobody is a session.                                     *)
LEMMA NoSessionType == NoSession \in Sessions
  BY LimitPositive DEF NoSession, Sessions, Ids

(* At the start nothing is counted.                                        *)
LEMMA InitInv == Init => Inv
<1> SUFFICES ASSUME Init PROVE Inv OBVIOUS
<1>1. TypeOK
  <2>1. /\ serverPipe \in Seq(Clients) /\ at \in [Clients -> ClientLabels]
        /\ received \in [Clients -> Seq(Ids)]
        /\ quitSent \in [Clients -> BOOLEAN]
    BY DEF Init, ClientLabels
  <2>2. /\ pc \in MainLabels /\ new \in Sessions /\ tmp \in Int /\ cursor \in 0 .. N
        /\ active_clients \in Int /\ sessionIDs \in [Ids -> {0, 1}]
        /\ data \in [Ids -> Sessions]
    BY LimitPositive, NoSessionType DEF Init, MainLabels
  <2>3. front \in Ids /\ rear \in Ids \cup {-1} /\ count \in Int
    BY LimitPositive DEF Init, Ids
  <2>4. /\ wpc \in [Workers -> WorkerLabels] /\ sess \in [Workers -> Sessions]
        /\ wtmp \in [Workers -> Int]
    BY NoSessionType DEF Init, WorkerLabels
  <2>5. killed \in BOOLEAN /\ noneFree \in BOOLEAN BY DEF Init
  <2>6. spurious \in 0 .. MaxSpurious
    BY SessionPoolAssumption DEF Init, SessionPoolAssumption
  <2> QED BY <2>1, <2>2, <2>3, <2>4, <2>5, <2>6 DEF TypeOK
<1>2. ActiveBounded /\ LoadsBounded
  BY LimitPositive DEF Init, ActiveBounded, LoadsBounded
<1> QED BY <1>1, <1>2 DEF Inv

-----------------------------------------------------------------------------
(* A step of a client moves nothing of the server.                         *)
LEMMA ClientInv ==
  ASSUME Inv, NEW c \in Clients, Client(c) PROVE Inv'
<1>1. UNCHANGED <<mainVars, active_clients, sessionIDs, bufVars, workerVars,
                  endVars>>
  BY DEF Client, Request, ClientOpenReq, ClientOpenResp, ReadId, Quit, Unlink,
         Abandon, ServerSame
<1>2. at' \in [Clients -> ClientLabels]
  <2>1. \E label \in ClientLabels : ClientGoto(c, label)
    BY DEF Client, Request, ClientOpenReq, ClientOpenResp, ReadId, Quit, Unlink,
           Abandon, ClientLabels
  <2> QED BY <2>1 DEF Inv, TypeOK, ClientGoto
<1>3. quitSent' \in [Clients -> BOOLEAN]
  <2>1. UNCHANGED quitSent \/ quitSent' = [quitSent EXCEPT ![c] = TRUE]
    BY DEF Client, Request, ClientOpenReq, ClientOpenResp, ReadId, Quit, Unlink,
           Abandon
  <2> QED BY <2>1, Zenon DEF Inv, TypeOK
<1>4. serverPipe' \in Seq(Clients)
  <2>1. UNCHANGED serverPipe \/ serverPipe' = Append(serverPipe, c)
    BY DEF Client, Request, ClientOpenReq, ClientOpenResp, ReadId, Quit, Unlink,
           Abandon
  <2>2. serverPipe \in Seq(Clients) BY DEF Inv, TypeOK
  <2> QED BY <2>1, <2>2
<1>5. UNCHANGED received
  BY DEF Client, Request, ClientOpenReq, ClientOpenResp, ReadId, Quit, Unlink,
         Abandon
<1>6. TypeOK'
  BY <1>1, <1>2, <1>3, <1>4, <1>5
     DEF Inv, TypeOK, mainVars, bufVars, workerVars, endVars
<1>7. (ActiveBounded /\ LoadsBounded)'
  BY <1>1 DEF Inv, ActiveBounded, LoadsBounded, mainVars, workerVars
<1> QED BY <1>6, <1>7 DEF Inv

(* A step of the main thread: what it increments was clamped, and workers  *)
(* can only have lowered the count since.                                  *)
LEMMA MainInv ==
  ASSUME Inv, MainSteps \/ MainSpurious PROVE Inv'
<1> USE LimitPositive
        DEF Inv, TypeOK, ActiveBounded, LoadsBounded, MainGoto, MainLabels,
            clientVars, bufVars, workerVars, endVars
<1>1. CASE MainRead
  <2>1. Head(serverPipe) \in Clients /\ Tail(serverPipe) \in Seq(Clients)
    BY <1>1 DEF MainRead
  <2>2. new' \in Sessions BY <1>1, <2>1 DEF MainRead, Sessions
  <2> QED BY <1>1, <2>1, <2>2 DEF MainRead
<1>2. CASE MainCheck BY <1>2 DEF MainCheck
<1>3. CASE MainWait BY <1>3 DEF MainWait
<1>4. CASE MainEnter BY <1>4 DEF MainEnter
<1>5. CASE MainClamp BY <1>5 DEF MainClamp
<1>6. CASE MainClampStore BY <1>6 DEF MainClampStore
<1>7. CASE MainLoad BY <1>7 DEF MainLoad
<1>8. CASE MainStore BY <1>8 DEF MainStore
<1>9. CASE MainScan
  <2>1. /\ new' \in Sessions /\ cursor' \in 0 .. N
        /\ sessionIDs' \in [Ids -> {0, 1}]
    <3>1. cursor < N => cursor \in Ids /\ cursor + 1 \in 0 .. N BY DEF Ids
    <3>2. cursor \in Ids => [new EXCEPT !.id = cursor] \in Sessions
      BY DEF Sessions
    <3> QED BY <1>9, <3>1, <3>2 DEF MainScan
  <2>2. pc' \in {"scan", "enqueue"} BY <1>9 DEF MainScan
  <2> QED BY <1>9, <2>1, <2>2 DEF MainScan
<1>10. CASE MainEnqueue
  <2>1. rear \in Int BY DEF Ids
  <2>2. NextSlot(rear) \in Ids BY <2>1, NextSlotInRing
  <2>3. rear' \in Ids \cup {-1} /\ data' \in [Ids -> Sessions]
    BY <1>10, <2>2 DEF MainEnqueue
  <2>4. pc' \in {"signal", "countLoad"} BY <1>10 DEF MainEnqueue
  <2> QED BY <1>10, <2>3, <2>4 DEF MainEnqueue
<1>11. CASE MainCountLoad BY <1>11 DEF MainCountLoad
<1>12. CASE MainCountStore BY <1>12 DEF MainCountStore
<1>13. CASE MainSignal
  <2>1. /\ wpc' \in [Workers -> WorkerLabels]
        /\ \A w \in Workers : wpc'[w] = "store" => wpc[w] = "store"
    BY <1>13 DEF MainSignal, Asleep, WorkerLabels
  <2> QED BY <1>13, <2>1 DEF MainSignal
<1>14. CASE MainSpurious BY <1>14, SessionPoolAssumption DEF MainSpurious
<1> QED BY <1>1, <1>2, <1>3, <1>4, <1>5, <1>6, <1>7, <1>8, <1>9, <1>10, <1>11,
           <1>12, <1>13, <1>14 DEF MainSteps

-----------------------------------------------------------------------------
(* A worker never loads more than the limit and one, and what it stores is *)
(* one less than what it loaded.                                           *)
LEMMA WorkerInv ==
  ASSUME Inv, NEW w \in Workers, Worker(w) \/ WorkerSpurious(w) PROVE Inv'
<1> USE LimitPositive
        DEF Inv, TypeOK, ActiveBounded, LoadsBounded, WorkerGoto, WorkerLabels,
            OnlyWorker, clientVars, mainVars, bufVars, workerVars, endVars
<1>1. CASE WorkerWait(w) BY <1>1 DEF WorkerWait
<1>2. CASE WorkerWake(w) BY <1>2 DEF WorkerWake
<1>3. CASE WorkerTake(w)
  <2>1. sess' \in [Workers -> Sessions] BY <1>3 DEF WorkerTake
  <2> QED BY <1>3, <2>1 DEF WorkerTake
<1>4. CASE WorkerFrontLoad(w)
  <2>1. front \in Int BY DEF Ids
  <2> QED BY <1>4, <2>1 DEF WorkerFrontLoad
<1>5. CASE WorkerFrontStore(w) BY <1>5, NextSlotInRing DEF WorkerFrontStore
<1>6. CASE WorkerCountLoad(w) BY <1>6 DEF WorkerCountLoad
<1>7. CASE WorkerCountStore(w) BY <1>7 DEF WorkerCountStore
<1>8. CASE WorkerOpenReq(w) BY <1>8 DEF WorkerOpenReq, WorkerOpen
<1>9. CASE WorkerOpenResp(w) BY <1>9 DEF WorkerOpenResp, WorkerOpen
<1>10. CASE WorkerWriteId(w)
  <2>1. sess[w].id \in Ids BY DEF Sessions
  <2>2. received' \in [Clients -> Seq(Ids)]
    <3>1. \A q \in Seq(Ids) : Append(q, sess[w].id) \in Seq(Ids) BY <2>1
    <3>2. received \in [Clients -> Seq(Ids)] OBVIOUS
    <3>3. UNCHANGED received \/ received' =
            [received EXCEPT ![Session(w)] = Append(@, sess[w].id)]
      BY <1>10 DEF WorkerWriteId
    <3> HIDE DEF Inv, TypeOK
    <3> QED BY <3>1, <3>2, <3>3
  <2> QED BY <1>10, <2>2 DEF WorkerWriteId
<1>11. CASE WorkerQuit(w)
  <2>1. sessionIDs' \in [Ids -> {0, 1}] /\ quitSent' \in [Clients -> BOOLEAN]
    BY <1>11 DEF WorkerQuit
  <2> QED BY <1>11, <2>1 DEF WorkerQuit
<1>12. CASE WorkerClamp(w) BY <1>12 DEF WorkerClamp
<1>13. CASE WorkerClampStore(w) BY <1>13 DEF WorkerClampStore
<1>14. CASE WorkerCheck(w) BY <1>14 DEF WorkerCheck
<1>15. CASE WorkerSignal(w) BY <1>15 DEF WorkerSignal, MainLabels
<1>16. CASE WorkerLoad(w) BY <1>16 DEF WorkerLoad
<1>17. CASE WorkerStore(w) BY <1>17 DEF WorkerStore
<1>18. CASE WorkerSpurious(w) BY <1>18, SessionPoolAssumption DEF WorkerSpurious
<1> QED BY <1>1, <1>2, <1>3, <1>4, <1>5, <1>6, <1>7, <1>8, <1>9, <1>10, <1>11,
           <1>12, <1>13, <1>14, <1>15, <1>16, <1>17, <1>18 DEF Worker

-----------------------------------------------------------------------------
(* Every step keeps the invariant.                                         *)
LEMMA NextInv == Inv /\ [Next]_vars => Inv'
<1> SUFFICES ASSUME Inv, [Next]_vars PROVE Inv' OBVIOUS
<1>1. CASE UNCHANGED vars
  BY <1>1 DEF Inv, TypeOK, ActiveBounded, LoadsBounded, vars, clientVars,
              mainVars, bufVars, workerVars, endVars
<1>2. CASE Next BY <1>2, ClientInv, MainInv, WorkerInv DEF Next
<1> QED BY <1>1, <1>2

(* The invariant holds in every behaviour.                                 *)
LEMMA Invariance == Spec => []Inv
  BY InitInv, NextInv, PTL DEF Spec

(* Types: the indices of the ring buffer, the ids handed out and the slots *)
(* never leave their ranges, although the workers take from the buffer     *)
(* outside the mutex (server/main.c:62-92, 101).                           *)
THEOREM TypeCorrect == Spec => []TypeOK
<1>1. Inv => TypeOK BY DEF Inv
<1> QED BY <1>1, Invariance, PTL

(* active_clients, incremented by the main thread and decremented by the   *)
(* workers with no common lock (server/main.c:240, 339), never exceeds     *)
(* MAX_SESSION_COUNT by more than one.                                     *)
THEOREM CountBounded == Spec => []ActiveBounded
<1>1. Inv => ActiveBounded BY DEF Inv
<1> QED BY <1>1, Invariance, PTL

-----------------------------------------------------------------------------
(* Why no worker takes a slot that was never written, unless it wakes      *)
(* without a signal.  Until the last slot is written the indices do not    *)
(* wrap round.  There is one signal for each session put in the buffer,    *)
(* and so for every index that a worker has loaded or may load, the takes  *)
(* begun or promised after it do not go beyond the sessions put in; and    *)
(* the count, however it is raced for, does not get to the limit.          *)
Filled(i) == data[i].client \in Clients
Takers == {w \in Workers : wpc[w] \in {"woken", "take", "frontLoad", "frontStore"}}
IsFront(v) == v = front \/ \E w \in Workers : wpc[w] = "frontStore" /\ v = wtmp[w]
Unsignalled == IF pc \in {"countLoad", "countStore", "signal"} THEN 1 ELSE 0
Uncounted == IF pc \in {"countLoad", "countStore"} THEN 1 ELSE 0
FirstRound ==
  /\ rear < N - 1
  /\ \A i \in 0 .. rear : Filled(i)
  /\ \A v \in Ids : IsFront(v) => v + Cardinality(Takers) + Unsignalled <= rear + 1
  /\ \A w \in Workers : wpc[w] = "frontStore" => wtmp[w] \in Ids
  /\ count + Uncounted <= rear + 1
  /\ pc = "countStore" => tmp <= rear
  /\ \A w \in Workers : wpc[w] = "countStore" => wtmp[w] <= rear + 1
AllFilled == \A i \in Ids : Filled(i)

(* Who has taken a session has taken a client's.                           *)
HasTaken == {"frontLoad", "frontStore", "countLoad", "countStore", "openReq",
             "openResp", "writeId", "serve"}
ClientInHand == pc # "read" => new.client \in Clients
TakenFilled == \A w \in Workers : wpc[w] \in HasTaken => Session(w) \in Clients

SlotInv == (FirstRound \/ AllFilled) /\ ClientInHand /\ TakenFilled

-----------------------------------------------------------------------------
(* The workers that take a session are finitely many.                      *)
LEMMA TakersFinite == IsFiniteSet(Takers) /\ Cardinality(Takers) \in Nat
<1>1. Takers \subseteq Workers
  BY DEF Takers
<1> QED BY <1>1, SessionPoolAssumption, FS_Subset, FS_CardinalityType

(* At the start no worker has taken anything.                              *)
LEMMA InitSlotInv == Init => SlotInv
<1> SUFFICES ASSUME Init PROVE SlotInv
  OBVIOUS
<1>1. Takers = {} /\ Cardinality(Takers) = 0
  BY FS_EmptySet DEF Init, Takers
<1>2. FirstRound
  BY <1>1, LimitPositive DEF Init, FirstRound, IsFront, Unsignalled, Uncounted, Ids
<1> QED BY <1>2 DEF Init, SlotInv, ClientInHand, TakenFilled, HasTaken

(* What a step must leave alone so that the first round goes on.           *)
Calm ==
  /\ UNCHANGED <<data, front, rear, count>> /\ Takers' = Takers
  /\ \/ pc' = pc /\ tmp' = tmp
     \/ {pc, pc'} \cap {"countLoad", "countStore", "signal"} = {}
  /\ \A w \in Workers : wpc'[w] \in {"frontStore", "countStore"} =>
       wpc[w] = wpc'[w] /\ wtmp'[w] = wtmp[w]

LEMMA CalmStep ==
  ASSUME FirstRound \/ AllFilled, Calm
  PROVE  FirstRound' \/ AllFilled'
<1>1. /\ UNCHANGED <<data, front, rear, count>> /\ Takers' = Takers
      /\ \/ pc' = pc /\ tmp' = tmp
         \/ {pc, pc'} \cap {"countLoad", "countStore", "signal"} = {}
      /\ \A w \in Workers : wpc'[w] \in {"frontStore", "countStore"} =>
           wpc[w] = wpc'[w] /\ wtmp'[w] = wtmp[w]
  BY DEF Calm
<1>2. CASE AllFilled
  BY <1>1, <1>2 DEF AllFilled, Filled
<1>3. CASE FirstRound
  <2>1. \A v : IsFront(v)' => IsFront(v)
    BY <1>1 DEF IsFront
  <2>2. Unsignalled' = Unsignalled /\ Uncounted' = Uncounted
    BY <1>1 DEF Unsignalled, Uncounted
  <2>3. rear' < N - 1 /\ \A i \in 0 .. rear' : Filled(i)'
    BY <1>1, <1>3 DEF FirstRound, Filled
  <2>4. \A v \in Ids : IsFront(v)' => v + Cardinality(Takers') + Unsignalled' <= rear' + 1
    BY <1>1, <1>3, <2>1, <2>2 DEF FirstRound
  <2>5. count' + Uncounted' <= rear' + 1
    BY <1>1, <1>3, <2>2 DEF FirstRound
  <2>6. /\ \A w \in Workers : wpc'[w] = "frontStore" => wtmp'[w] \in Ids
        /\ pc' = "countStore" => tmp' <= rear'
        /\ \A w \in Workers : wpc'[w] = "countStore" => wtmp'[w] <= rear' + 1
    BY <1>1, <1>3 DEF FirstRound
  <2> QED BY <2>3, <2>4, <2>5, <2>6 DEF FirstRound
<1> QED BY <1>2, <1>3

(* A step of a client moves nothing of this.                               *)
LEMMA ClientSlots ==
  ASSUME SlotInv, NEW c \in Clients, Client(c)
  PROVE  SlotInv'
<1>1. UNCHANGED <<mainVars, bufVars, workerVars>>
  BY DEF Client, Request, ClientOpenReq, ClientOpenResp, ReadId, Quit, Unlink,
         Abandon, ServerSame
<1>2. Calm /\ ClientInHand' /\ TakenFilled'
  BY <1>1 DEF Calm, Takers, mainVars, bufVars, workerVars, SlotInv, ClientInHand,
              TakenFilled, Session
<1> QED BY <1>2, CalmStep DEF SlotInv

(* Neither does a step of the main thread that is not about the buffer.    *)
LEMMA MainCalm ==
  ASSUME Inv, SlotInv,
         \/ MainRead \/ MainCheck \/ MainWait \/ MainEnter \/ MainClamp
         \/ MainClampStore \/ MainLoad \/ MainStore \/ MainScan \/ MainSpurious
  PROVE  SlotInv'
<1>1. /\ UNCHANGED <<bufVars, workerVars>>
      /\ {pc, pc'} \cap {"countLoad", "countStore", "signal"} = {}
  BY DEF MainRead, MainCheck, MainWait, MainEnter, MainClamp, MainClampStore, MainLoad,
         MainStore, MainScan, MainSpurious, MainGoto
<1>2. Calm /\ TakenFilled'
  BY <1>1 DEF Calm, Takers, bufVars, workerVars, SlotInv, TakenFilled, Session
<1>3. ClientInHand'
  <2>1. CASE MainRead
    <3>1. serverPipe \in Seq(Clients) /\ serverPipe # <<>> /\ new \in Sessions
      BY <2>1 DEF MainRead, Inv, TypeOK
    <3>2. Head(serverPipe) \in Clients
      BY <3>1
    <3>3. new'.client = Head(serverPipe)
      BY <2>1, <3>1 DEF MainRead, Sessions
    <3> QED BY <3>2, <3>3 DEF ClientInHand
  <2>2. CASE MainScan
    <3>1. pc = "scan" /\ new \in Sessions
      BY <2>2 DEF MainScan, Inv, TypeOK
    <3>2. new'.client = new.client
      BY <2>2, <3>1 DEF MainScan, Sessions
    <3> QED BY <3>1, <3>2 DEF SlotInv, ClientInHand
  <2>3. CASE ~ MainRead /\ ~ MainScan
    BY <2>3 DEF MainCheck, MainWait, MainEnter, MainClamp, MainClampStore, MainLoad,
         MainStore, MainSpurious, SlotInv, ClientInHand
  <2> QED BY <2>1, <2>2, <2>3
<1> QED BY <1>2, <1>3, CalmStep DEF SlotInv

(* The main thread puts a session in the buffer: until the round is over   *)
(* the buffer is not full, and the slot is the next.                       *)
LEMMA EnqueueSlots ==
  ASSUME Inv, SlotInv, MainEnqueue
  PROVE  SlotInv'
<1>1. /\ pc = "enqueue" /\ UNCHANGED <<new, front, count, workerVars>>
      /\ \/ IsFull /\ pc' = "signal" /\ UNCHANGED <<rear, data>>
         \/ /\ ~ IsFull /\ rear' = NextSlot(rear) /\ pc' = "countLoad"
            /\ data' = [data EXCEPT ![NextSlot(rear)] = new]
  BY DEF MainEnqueue, MainGoto, workerVars
<1>2. /\ rear \in Int /\ rear >= -1 /\ data \in [Ids -> Sessions] /\ count \in Int
      /\ front \in Ids /\ wtmp \in [Workers -> Int]
  BY LimitPositive DEF Inv, TypeOK, Ids
<1>3. new.client \in Clients
  BY <1>1 DEF SlotInv, ClientInHand
<1>4. ClientInHand' /\ TakenFilled'
  BY <1>1 DEF SlotInv, ClientInHand, TakenFilled, Session, workerVars
<1>5. CASE AllFilled
  <2>1. AllFilled'
    BY <1>1, <1>2, <1>3, <1>5 DEF AllFilled, Filled
  <2> QED BY <1>4, <2>1 DEF SlotInv
<1>6. CASE FirstRound
  <2>1. /\ rear < N - 1 /\ count <= rear + 1 /\ N \in Nat
        /\ \A i \in 0 .. rear : Filled(i)
        /\ \A v \in Ids : IsFront(v) => v + Cardinality(Takers) <= rear + 1
        /\ \A w \in Workers : wpc[w] = "frontStore" => wtmp[w] \in Ids
        /\ \A w \in Workers : wpc[w] = "countStore" => wtmp[w] <= rear + 1
    <3>1. Unsignalled = 0 /\ Uncounted = 0
      BY <1>1 DEF Unsignalled, Uncounted
    <3>2. \A v \in Ids : IsFront(v) => v + Cardinality(Takers) <= rear + 1
      <4>1. \A v \in Ids : IsFront(v) => v + Cardinality(Takers) + 0 <= rear + 1
        BY <1>6, <3>1 DEF FirstRound
      <4>2. Cardinality(Takers) \in Nat /\ \A v \in Ids : v \in Int
        BY TakersFinite DEF Ids
      <4> QED BY <4>1, <4>2
    <3>3. count <= rear + 1
      <4>1. count + 0 <= rear + 1
        BY <1>6, <3>1 DEF FirstRound
      <4> QED BY <1>2, <4>1
    <3> QED BY <1>6, <3>2, <3>3, LimitPositive DEF FirstRound
  <2>2. ~ IsFull
    BY <1>2, <2>1 DEF IsFull
  <2>3. NextSlot(rear) = rear + 1
    <3>1. (rear + 1) % N = rear + 1
      BY <1>2, <2>1
    <3> QED BY <3>1 DEF NextSlot
  <2>4. /\ rear' = rear + 1 /\ pc' = "countLoad" /\ data' = [data EXCEPT ![rear + 1] = new]
        /\ rear + 1 \in Ids
    BY <1>1, <1>2, <2>1, <2>2, <2>3 DEF Ids
  <2>5. \A i \in 0 .. rear' : Filled(i)'
    <3>1. \A i \in 0 .. (rear + 1) : i \in Ids /\ (i # rear + 1 => i \in 0 .. rear)
      BY <1>2, <2>1 DEF Ids
    <3> QED BY <1>2, <1>3, <2>1, <2>4, <3>1 DEF Filled
  <2>6. CASE rear + 1 = N - 1
    <3>1. AllFilled'
      BY <2>4, <2>5, <2>6 DEF AllFilled, Ids
    <3> QED BY <1>4, <3>1 DEF SlotInv
  <2>7. CASE rear + 1 # N - 1
    <3>1. rear' < N - 1
      BY <1>2, <2>1, <2>4, <2>7
    <3>2. /\ Unsignalled' = 1 /\ Uncounted' = 1 /\ Takers' = Takers /\ count' = count
          /\ \A v : IsFront(v)' <=> IsFront(v)
      BY <1>1, <2>4 DEF Unsignalled, Uncounted, Takers, IsFront, workerVars
    <3>3. \A v \in Ids : IsFront(v)' => v + Cardinality(Takers') + Unsignalled' <= rear' + 1
      BY <1>2, <2>1, <2>4, <3>2, TakersFinite DEF Ids
    <3>4. count' + Uncounted' <= rear' + 1
      BY <1>2, <2>1, <2>4, <3>2
    <3>5. /\ pc' # "countStore"
          /\ \A w \in Workers : wpc'[w] = "frontStore" => wtmp'[w] \in Ids
          /\ \A w \in Workers : wpc'[w] = "countStore" => wtmp'[w] <= rear' + 1
      BY <1>1, <1>2, <2>1, <2>4 DEF workerVars
    <3>6. FirstRound'
      BY <2>5, <3>1, <3>3, <3>4, <3>5 DEF FirstRound
    <3> QED BY <1>4, <3>6 DEF SlotInv
  <2> QED BY <2>6, <2>7
<1> QED BY <1>5, <1>6 DEF SlotInv

(* It counts the session, and gives the signal for it.                     *)
LEMMA CountSlots ==
  ASSUME Inv, SlotInv, MainCountLoad \/ MainCountStore
  PROVE  SlotInv'
<1>1. /\ UNCHANGED <<new, data, front, rear, workerVars>>
      /\ \/ pc = "countLoad" /\ pc' = "countStore" /\ tmp' = count /\ count' = count
         \/ pc = "countStore" /\ pc' = "signal" /\ count' = tmp + 1
  BY DEF MainCountLoad, MainCountStore, MainGoto, bufVars
<1>2. rear \in Int /\ count \in Int /\ tmp \in Int
  BY LimitPositive DEF Inv, TypeOK, Ids
<1>3. ClientInHand' /\ TakenFilled'
  BY <1>1 DEF SlotInv, ClientInHand, TakenFilled, Session, workerVars
<1>4. AllFilled => AllFilled'
  BY <1>1 DEF AllFilled, Filled
<1>5. ASSUME FirstRound
      PROVE  FirstRound'
  <2>1. /\ Unsignalled' = Unsignalled /\ Takers' = Takers
        /\ \A v : IsFront(v)' <=> IsFront(v)
    BY <1>1 DEF Unsignalled, Takers, IsFront, workerVars
  <2>2. /\ \A v \in Ids : IsFront(v)' => v + Cardinality(Takers') + Unsignalled' <= rear' + 1
        /\ rear' < N - 1 /\ \A i \in 0 .. rear' : Filled(i)'
    BY <1>1, <1>5, <2>1 DEF FirstRound, Filled
  <2>3. /\ \A w \in Workers : wpc'[w] = "frontStore" => wtmp'[w] \in Ids
        /\ \A w \in Workers : wpc'[w] = "countStore" => wtmp'[w] <= rear' + 1
    BY <1>1, <1>5 DEF FirstRound, workerVars
  <2>4. /\ count' + Uncounted' <= rear' + 1
        /\ pc' = "countStore" => tmp' <= rear'
    BY <1>1, <1>2, <1>5 DEF FirstRound, Uncounted
  <2> QED BY <2>2, <2>3, <2>4 DEF FirstRound
<1> QED BY <1>3, <1>4, <1>5 DEF SlotInv

LEMMA SignalSlots ==
  ASSUME Inv, SlotInv, MainSignal
  PROVE  SlotInv'
<1>1. /\ pc = "signal" /\ pc' = "read" /\ UNCHANGED <<data, front, rear, count, sess, wtmp>>
      /\ \/ UNCHANGED wpc
         \/ \E w \in Asleep : wpc' = [wpc EXCEPT ![w] = "woken"]
  BY DEF MainSignal, MainGoto, bufVars
<1>2. rear \in Int /\ count \in Int /\ wpc \in [Workers -> WorkerLabels]
  BY LimitPositive DEF Inv, TypeOK, Ids
<1>3. \A w \in Workers : wpc'[w] = wpc[w] \/ wpc'[w] = "woken"
  BY <1>1, <1>2 DEF Asleep
<1>4. ClientInHand' /\ TakenFilled'
  BY <1>1, <1>3 DEF SlotInv, ClientInHand, TakenFilled, Session, HasTaken
<1>5. AllFilled => AllFilled'
  BY <1>1 DEF AllFilled, Filled
<1>6. ASSUME FirstRound
      PROVE  FirstRound'
  <2>1. Cardinality(Takers') <= Cardinality(Takers) + 1 /\ Cardinality(Takers') \in Nat
    <3>1. CASE UNCHANGED wpc
      <4>1. Takers' = Takers
        BY <3>1 DEF Takers
      <4> QED BY <4>1, TakersFinite
    <3>2. ASSUME NEW w \in Asleep, wpc' = [wpc EXCEPT ![w] = "woken"]
          PROVE  Cardinality(Takers') <= Cardinality(Takers) + 1
                   /\ Cardinality(Takers') \in Nat
      <4>1. Takers' = Takers \cup {w}
        BY <1>2, <3>2 DEF Takers, Asleep
      <4>2. w \notin Takers
        BY DEF Takers, Asleep
      <4>3. Cardinality(Takers') = Cardinality(Takers) + 1
        BY <4>1, <4>2, TakersFinite, FS_AddElement
      <4> QED BY <4>3, TakersFinite
    <3> QED BY <1>1, <3>1, <3>2
  <2>2. \A v : IsFront(v)' => IsFront(v)
    BY <1>1, <1>3 DEF IsFront
  <2>3. Unsignalled = 1 /\ Unsignalled' = 0 /\ Uncounted = 0 /\ Uncounted' = 0
    BY <1>1 DEF Unsignalled, Uncounted
  <2>4. \A v \in Ids : IsFront(v)' => v + Cardinality(Takers') + Unsignalled' <= rear' + 1
    <3> SUFFICES ASSUME NEW v \in Ids, IsFront(v)'
                 PROVE  v + Cardinality(Takers') + Unsignalled' <= rear' + 1
      OBVIOUS
    <3>1. v + Cardinality(Takers) + 1 <= rear + 1
      BY <1>6, <2>2, <2>3 DEF FirstRound
    <3>2. v \in Int
      BY DEF Ids
    <3> QED BY <1>1, <1>2, <2>1, <2>3, <3>1, <3>2, TakersFinite
  <2>5. /\ rear' < N - 1 /\ \A i \in 0 .. rear' : Filled(i)'
        /\ \A w \in Workers : wpc'[w] = "frontStore" => wtmp'[w] \in Ids
        /\ \A w \in Workers : wpc'[w] = "countStore" => wtmp'[w] <= rear' + 1
        /\ count' + Uncounted' <= rear' + 1
    BY <1>1, <1>3, <1>6, <2>3 DEF FirstRound, Filled
  <2> QED BY <1>1, <2>4, <2>5 DEF FirstRound
<1> QED BY <1>4, <1>5, <1>6 DEF SlotInv

(* A worker's step that is not about the buffer; no step is a wakeup       *)
(* without a signal.                                                       *)
LEMMA WorkerCalm ==
  ASSUME Inv, SlotInv, NEW w \in Workers,
         \/ WorkerWait(w) \/ WorkerWake(w)
         \/ WorkerOpenReq(w) \/ WorkerOpenResp(w) \/ WorkerWriteId(w)
         \/ WorkerQuit(w) \/ WorkerClamp(w) \/ WorkerClampStore(w)
         \/ WorkerCheck(w) \/ WorkerSignal(w) \/ WorkerLoad(w)
         \/ WorkerStore(w)
  PROVE  SlotInv'
<1> DEFINE Off == {"start", "waiting", "openReq", "openResp", "writeId", "serve", "clamp",
                   "clampStore", "check", "signal", "load", "store", "dead", "stuck"}
<1>1. /\ UNCHANGED <<data, front, rear, count, sess, new, tmp>>
      /\ pc' = pc \/ (pc = "waiting" /\ pc' = "enter")
      /\ \A v \in Workers : v # w => wtmp'[v] = wtmp[v]
  BY DEF WorkerWait, WorkerWake, WorkerOpenReq, WorkerOpenResp, WorkerOpen, WorkerWriteId,
         WorkerQuit, WorkerClamp, WorkerClampStore, WorkerCheck, WorkerSignal, WorkerLoad,
         WorkerStore, OnlyWorker, mainVars, bufVars, workerVars, Inv, TypeOK
<1>2. \/ UNCHANGED wpc /\ UNCHANGED wtmp
      \/ \E from \in Off, to \in Off :
           /\ WorkerGoto(w, from, to)
           /\ to \in HasTaken => from \in HasTaken
      \/ WorkerGoto(w, "woken", "take")
  <2>1. CASE WorkerWriteId(w)
    BY <2>1 DEF WorkerWriteId, workerVars, HasTaken
  <2>2. CASE WorkerOpenReq(w) \/ WorkerOpenResp(w)
    BY <2>2 DEF WorkerOpenReq, WorkerOpenResp, WorkerOpen, HasTaken
  <2>3. CASE WorkerWait(w) \/ WorkerWake(w)
    BY <2>3 DEF WorkerWait, WorkerWake, HasTaken
  <2>4. CASE \/ WorkerQuit(w) \/ WorkerClamp(w) \/ WorkerClampStore(w)
             \/ WorkerCheck(w) \/ WorkerSignal(w) \/ WorkerLoad(w) \/ WorkerStore(w)
    BY <2>4 DEF WorkerQuit, WorkerClamp, WorkerClampStore, WorkerCheck, WorkerSignal,
         WorkerLoad, WorkerStore, HasTaken
  <2> QED BY <2>1, <2>2, <2>3, <2>4
<1>3. /\ \A v \in Workers : v # w => wpc'[v] = wpc[v]
      /\ \/ wpc' = wpc /\ wtmp' = wtmp
         \/ wpc[w] \in Off /\ wpc'[w] \in Off /\ (wpc'[w] \in HasTaken => wpc[w] \in HasTaken)
         \/ wpc[w] = "woken" /\ wpc'[w] = "take"
  BY <1>2 DEF WorkerGoto, Inv, TypeOK
<1>4. Takers' = Takers
  BY <1>3 DEF Takers
<1>5. Calm
  <2>1. \A v \in Workers : wpc'[v] \in {"frontStore", "countStore"} =>
          wpc[v] = wpc'[v] /\ wtmp'[v] = wtmp[v]
    BY <1>1, <1>3
  <2> QED BY <1>1, <1>4, <2>1 DEF Calm
<1>6. TakenFilled'
  <2>1. \A v \in Workers : wpc'[v] \in HasTaken => wpc[v] \in HasTaken
    BY <1>3 DEF HasTaken
  <2> QED BY <1>1, <2>1 DEF SlotInv, TakenFilled, Session
<1>7. ClientInHand'
  BY <1>1 DEF SlotInv, ClientInHand
<1> QED BY <1>5, <1>6, <1>7, CalmStep DEF SlotInv

(* The copy of a session: the slot is not behind the ones written.         *)
LEMMA TakeSlots ==
  ASSUME Inv, SlotInv, NEW w \in Workers, WorkerTake(w)
  PROVE  SlotInv'
<1>1. /\ wpc[w] = "take" /\ wpc' = [wpc EXCEPT ![w] = "frontLoad"]
      /\ sess' = [sess EXCEPT ![w] = data[front]]
      /\ UNCHANGED <<mainVars, bufVars, wtmp>>
  BY DEF WorkerTake, WorkerGoto, OnlyWorker
<1>2. /\ wpc \in [Workers -> WorkerLabels] /\ front \in Ids /\ rear \in Int
      /\ sess \in [Workers -> Sessions]
  BY LimitPositive DEF Inv, TypeOK, Ids
<1>3. Calm
  <2>1. Takers' = Takers
    BY <1>1, <1>2 DEF Takers
  <2>2. \A v \in Workers : wpc'[v] \in {"frontStore", "countStore"} => wpc[v] = wpc'[v]
    BY <1>1, <1>2
  <2> QED BY <1>1, <2>1, <2>2 DEF Calm, mainVars, bufVars
<1>4. Filled(front)
  <2>1. CASE AllFilled
    BY <1>2, <2>1 DEF AllFilled
  <2>2. CASE FirstRound
    <3>1. Cardinality(Takers) \in Nat \ {0}
      <4>1. w \in Takers
        BY <1>1 DEF Takers
      <4> QED BY <4>1, TakersFinite, FS_EmptySet
    <3>2. front + Cardinality(Takers) + Unsignalled <= rear + 1 /\ Unsignalled \in {0, 1}
      BY <1>2, <2>2 DEF FirstRound, IsFront, Unsignalled
    <3>3. front \in 0 .. rear
      BY <1>2, <3>1, <3>2 DEF Ids
    <3> QED BY <2>2, <3>3 DEF FirstRound
  <2> QED BY <2>1, <2>2 DEF SlotInv
<1>5. TakenFilled'
  <2>1. \A v \in Workers : v # w => wpc'[v] = wpc[v] /\ sess'[v] = sess[v]
    BY <1>1, <1>2
  <2>2. sess'[w].client \in Clients
    BY <1>1, <1>2, <1>4 DEF Filled
  <2> QED BY <2>1, <2>2 DEF SlotInv, TakenFilled, Session
<1>6. ClientInHand'
  BY <1>1 DEF SlotInv, ClientInHand, mainVars
<1> QED BY <1>3, <1>5, <1>6, CalmStep DEF SlotInv

(* Between two places where a session is held.                             *)
LEMMA StillTaken ==
  ASSUME Inv, SlotInv, NEW w \in Workers, NEW from \in HasTaken, NEW to,
         WorkerGoto(w, from, to), UNCHANGED <<sess, pc, new>>
  PROVE  /\ wpc[w] = from /\ wpc'[w] = to
         /\ \A v \in Workers : v # w => wpc'[v] = wpc[v]
         /\ TakenFilled' /\ ClientInHand'
<1>1. /\ wpc[w] = from /\ wpc'[w] = to
      /\ \A v \in Workers : v # w => wpc'[v] = wpc[v]
  BY DEF WorkerGoto, Inv, TypeOK
<1> QED BY <1>1 DEF SlotInv, TakenFilled, ClientInHand, Session

(* The front is loaded, and then moved past the slot that was loaded.      *)
LEMMA FrontLoadSlots ==
  ASSUME Inv, SlotInv, NEW w \in Workers, WorkerFrontLoad(w)
  PROVE  SlotInv'
<1>1. /\ WorkerGoto(w, "frontLoad", "frontStore") /\ wtmp' = [wtmp EXCEPT ![w] = front]
      /\ UNCHANGED <<sess, pc, new, tmp, data, front, rear, count>>
  BY DEF WorkerFrontLoad, OnlyWorker, mainVars, bufVars
<1>2. /\ wpc[w] = "frontLoad" /\ wpc'[w] = "frontStore"
      /\ \A v \in Workers : v # w => wpc'[v] = wpc[v] /\ wtmp'[v] = wtmp[v]
      /\ TakenFilled' /\ ClientInHand' /\ wtmp'[w] = front /\ front \in Ids
  <2>1. "frontLoad" \in HasTaken /\ wtmp \in [Workers -> Int] /\ front \in Ids
    BY DEF HasTaken, Inv, TypeOK
  <2> QED BY <1>1, <2>1, StillTaken
<1>3. AllFilled => AllFilled'
  BY <1>1 DEF AllFilled, Filled
<1>4. ASSUME FirstRound
      PROVE  FirstRound'
  <2>1. /\ Takers' = Takers /\ Unsignalled' = Unsignalled /\ Uncounted' = Uncounted
    BY <1>1, <1>2 DEF Takers, Unsignalled, Uncounted
  <2>2. \A v : IsFront(v)' => IsFront(v)
    BY <1>1, <1>2 DEF IsFront
  <2>3. \A v \in Ids : IsFront(v)' => v + Cardinality(Takers') + Unsignalled' <= rear' + 1
    BY <1>1, <1>4, <2>1, <2>2 DEF FirstRound
  <2>4. /\ rear' < N - 1 /\ \A i \in 0 .. rear' : Filled(i)'
        /\ count' + Uncounted' <= rear' + 1
        /\ pc' = "countStore" => tmp' <= rear'
    BY <1>1, <1>4, <2>1 DEF FirstRound, Filled
  <2>5. /\ \A v \in Workers : wpc'[v] = "frontStore" => wtmp'[v] \in Ids
        /\ \A v \in Workers : wpc'[v] = "countStore" => wtmp'[v] <= rear' + 1
    BY <1>1, <1>2, <1>4 DEF FirstRound
  <2> QED BY <2>3, <2>4, <2>5 DEF FirstRound
<1> QED BY <1>2, <1>3, <1>4 DEF SlotInv

LEMMA FrontStoreSlots ==
  ASSUME Inv, SlotInv, NEW w \in Workers, WorkerFrontStore(w)
  PROVE  SlotInv'
<1>1. /\ WorkerGoto(w, "frontStore", "countLoad") /\ front' = NextSlot(wtmp[w])
      /\ UNCHANGED <<sess, pc, new, tmp, data, rear, count, wtmp>>
  BY DEF WorkerFrontStore, mainVars
<1>2. /\ wpc[w] = "frontStore" /\ wpc'[w] = "countLoad"
      /\ \A v \in Workers : v # w => wpc'[v] = wpc[v]
      /\ TakenFilled' /\ ClientInHand'
  <2>1. "frontStore" \in HasTaken
    BY DEF HasTaken
  <2> QED BY <1>1, <2>1, StillTaken
<1>3. AllFilled => AllFilled'
  BY <1>1 DEF AllFilled, Filled
<1>4. ASSUME FirstRound
      PROVE  FirstRound'
  <2> DEFINE n == Cardinality(Takers)
  <2>1. Takers' = Takers \ {w} /\ w \in Takers
    BY <1>2 DEF Takers
  <2>2. Cardinality(Takers') = n - 1 /\ n \in Nat /\ n >= 1
    <3>1. Cardinality(Takers') = n - 1
      BY <2>1, TakersFinite, FS_RemoveElement
    <3>2. n # 0
      BY <2>1, TakersFinite, FS_EmptySet
    <3> QED BY <3>1, <3>2, TakersFinite
  <2> HIDE DEF n
  <2>3. Unsignalled' = Unsignalled /\ Uncounted' = Uncounted /\ Unsignalled \in {0, 1}
    BY <1>1 DEF Unsignalled, Uncounted
  <2>4. /\ wtmp[w] \in Ids /\ IsFront(wtmp[w]) /\ rear \in Int /\ rear < N - 1
        /\ wtmp[w] \in Nat /\ N \in Nat
    BY <1>2, <1>4, LimitPositive DEF FirstRound, IsFront, Ids, Inv, TypeOK
  <2>5. wtmp[w] + n + Unsignalled <= rear + 1
    BY <1>4, <2>4 DEF FirstRound, n
  <2>6. wtmp[w] + 1 < N
    BY <2>2, <2>3, <2>4, <2>5
  <2>7. front' = wtmp[w] + 1
    <3>1. (wtmp[w] + 1) % N = wtmp[w] + 1
      BY <2>4, <2>6
    <3> QED BY <1>1, <3>1 DEF NextSlot
  <2>8. \A v \in Ids : IsFront(v)' => v = wtmp[w] + 1 \/ IsFront(v)
    BY <1>1, <1>2, <2>7 DEF IsFront
  <2>9. \A v \in Ids : IsFront(v)' => v + Cardinality(Takers') + Unsignalled' <= rear' + 1
    <3> SUFFICES ASSUME NEW v \in Ids, IsFront(v)'
                 PROVE  v + Cardinality(Takers') + Unsignalled' <= rear' + 1
      OBVIOUS
    <3>1. CASE v = wtmp[w] + 1
      BY <1>1, <2>2, <2>3, <2>4, <2>5, <3>1
    <3>2. CASE IsFront(v)
      <4>1. v + n + Unsignalled <= rear + 1
        BY <1>4, <3>2 DEF FirstRound, n
      <4>2. v \in Int
        BY DEF Ids
      <4> QED BY <1>1, <2>2, <2>3, <2>4, <4>1, <4>2
    <3> QED BY <2>8, <3>1, <3>2
  <2>10. /\ rear' < N - 1 /\ \A i \in 0 .. rear' : Filled(i)'
         /\ count' + Uncounted' <= rear' + 1
         /\ pc' = "countStore" => tmp' <= rear'
         /\ \A v \in Workers : wpc'[v] = "frontStore" => wtmp'[v] \in Ids
         /\ \A v \in Workers : wpc'[v] = "countStore" => wtmp'[v] <= rear' + 1
    BY <1>1, <1>2, <1>4, <2>3 DEF FirstRound, Filled
  <2> QED BY <2>9, <2>10 DEF FirstRound
<1> QED BY <1>2, <1>3, <1>4 DEF SlotInv

(* The count is loaded, and what was loaded is stored less one.            *)
LEMMA CountDownSlots ==
  ASSUME Inv, SlotInv, NEW w \in Workers, WorkerCountLoad(w) \/ WorkerCountStore(w)
  PROVE  SlotInv'
<1>1. /\ UNCHANGED <<sess, pc, new, tmp, data, front, rear>>
      /\ \/ /\ WorkerGoto(w, "countLoad", "countStore")
            /\ wtmp' = [wtmp EXCEPT ![w] = count] /\ count' = count
         \/ /\ WorkerGoto(w, "countStore", "openReq")
            /\ wtmp' = wtmp /\ count' = wtmp[w] - 1
  BY DEF WorkerCountLoad, WorkerCountStore, OnlyWorker, mainVars, bufVars
<1>2. /\ TakenFilled' /\ ClientInHand'
      /\ \A v \in Workers : v # w => wpc'[v] = wpc[v]
      /\ \/ wpc[w] = "countLoad" /\ wpc'[w] = "countStore"
         \/ wpc[w] = "countStore" /\ wpc'[w] = "openReq" /\ count' = wtmp[w] - 1 /\ wtmp' = wtmp
  <2>1. {"countLoad", "countStore"} \subseteq HasTaken
    BY DEF HasTaken
  <2> QED BY <1>1, <2>1, StillTaken
<1>3. /\ \A v \in Workers : v # w => wtmp'[v] = wtmp[v]
      /\ wpc'[w] = "countStore" => wtmp'[w] = count /\ count' = count
  <2>1. wtmp \in [Workers -> Int]
    BY DEF Inv, TypeOK
  <2>2. CASE wtmp' = [wtmp EXCEPT ![w] = count] /\ count' = count
    BY <2>1, <2>2
  <2>3. CASE wtmp' = wtmp /\ wpc'[w] # "countStore"
    BY <2>1, <2>3
  <2>4. \/ wtmp' = [wtmp EXCEPT ![w] = count] /\ count' = count
        \/ wtmp' = wtmp /\ wpc'[w] # "countStore"
    BY <1>1, <1>2 DEF WorkerGoto
  <2> QED BY <2>2, <2>3, <2>4
<1>4. AllFilled => AllFilled'
  BY <1>1 DEF AllFilled, Filled
<1>5. ASSUME FirstRound
      PROVE  FirstRound'
  <2>1. /\ Takers' = Takers /\ Unsignalled' = Unsignalled /\ Uncounted' = Uncounted
        /\ Uncounted \in {0, 1}
    BY <1>1, <1>2 DEF Takers, Unsignalled, Uncounted
  <2>2. \A v : IsFront(v)' => IsFront(v)
    BY <1>1, <1>2, <1>3 DEF IsFront
  <2>3. \A v \in Ids : IsFront(v)' => v + Cardinality(Takers') + Unsignalled' <= rear' + 1
    BY <1>1, <1>5, <2>1, <2>2 DEF FirstRound
  <2>4. count \in Int /\ rear \in Int /\ wtmp[w] \in Int /\ count + Uncounted <= rear + 1
    BY <1>5, LimitPositive DEF Inv, TypeOK, Ids, FirstRound
  <2>5. count' + Uncounted' <= rear' + 1
    <3>1. CASE wpc[w] = "countLoad"
      BY <1>1, <1>2, <1>3, <2>1, <2>4, <3>1
    <3>2. CASE wpc[w] = "countStore"
      <4>1. wtmp[w] <= rear + 1 /\ count' = wtmp[w] - 1
        BY <1>2, <1>5, <3>2 DEF FirstRound
      <4> QED BY <1>1, <2>1, <2>4, <4>1
    <3> QED BY <1>2, <3>1, <3>2
  <2>6. /\ rear' < N - 1 /\ \A i \in 0 .. rear' : Filled(i)'
        /\ pc' = "countStore" => tmp' <= rear'
        /\ \A v \in Workers : wpc'[v] = "frontStore" => wtmp'[v] \in Ids
    BY <1>1, <1>2, <1>3, <1>5 DEF FirstRound, Filled
  <2>7. \A v \in Workers : wpc'[v] = "countStore" => wtmp'[v] <= rear' + 1
    <3>1. wpc'[w] = "countStore" => wtmp'[w] <= rear' + 1
      BY <1>1, <1>3, <2>1, <2>4
    <3> QED BY <1>1, <1>2, <1>3, <1>5, <3>1 DEF FirstRound
  <2> QED BY <2>3, <2>5, <2>6, <2>7 DEF FirstRound
<1> QED BY <1>2, <1>4, <1>5 DEF SlotInv

(* Every step keeps the invariant that is no wakeup without a signal.      *)
LEMMA NextSlotInv ==
  ASSUME Inv, SlotInv, [Next]_vars,
         \A w \in Workers : ~ WorkerSpurious(w)
  PROVE  SlotInv'
<1>1. ASSUME NEW c \in Clients, Client(c)
      PROVE  SlotInv'
  BY <1>1, ClientSlots
<1>2. CASE MainSteps \/ MainSpurious
  BY <1>2, MainCalm, EnqueueSlots, CountSlots, SignalSlots DEF MainSteps
<1>3. ASSUME NEW w \in Workers, Worker(w)
      PROVE  SlotInv'
  BY <1>3, WorkerCalm, TakeSlots, FrontLoadSlots, FrontStoreSlots, CountDownSlots DEF Worker
<1>4. CASE UNCHANGED vars
  <2>1. UNCHANGED <<mainVars, bufVars, workerVars>>
    BY <1>4 DEF vars
  <2>2. Calm /\ ClientInHand' /\ TakenFilled'
    BY <2>1 DEF Calm, Takers, mainVars, bufVars, workerVars, SlotInv, ClientInHand,
                TakenFilled, Session
  <2> QED BY <2>2, CalmStep DEF SlotInv
<1> QED BY <1>1, <1>2, <1>3, <1>4 DEF Next

(* The wakeups without a signal are counted and never forgotten.           *)
LEMMA SpuriousGrows ==
  ASSUME Inv, [Next]_vars
  PROVE  /\ spurious' = 0 => spurious = 0
         /\ \A w \in Workers : WorkerSpurious(w) => spurious' # 0
<1>1. spurious \in Nat
  BY SessionPoolAssumption DEF Inv, TypeOK
<1>2. /\ spurious' = spurious \/ spurious' = spurious + 1
      /\ \A w \in Workers : WorkerSpurious(w) => spurious' = spurious + 1
  <2>1. ASSUME NEW c \in Clients, Client(c)
        PROVE  spurious' = spurious
    BY <2>1 DEF Client, Request, ClientOpenReq, ClientOpenResp, ReadId, Quit, Unlink,
                Abandon, ServerSame, endVars
  <2>2. ASSUME MainSteps \/ MainSpurious
        PROVE  spurious' = spurious \/ spurious' = spurious + 1
    BY <2>2 DEF MainSteps, MainRead, MainCheck, MainWait, MainEnter, MainClamp,
                MainClampStore, MainLoad, MainStore, MainScan, MainEnqueue, MainCountLoad,
                MainCountStore, MainSignal, MainSpurious, endVars
  <2>3. ASSUME NEW w \in Workers, Worker(w)
        PROVE  spurious' = spurious
    BY <2>3 DEF Worker, WorkerWait, WorkerWake, WorkerTake, WorkerFrontLoad, WorkerFrontStore,
                WorkerCountLoad, WorkerCountStore, WorkerOpenReq, WorkerOpenResp, WorkerOpen,
                WorkerWriteId, WorkerQuit, WorkerClamp, WorkerClampStore, WorkerCheck,
                WorkerSignal, WorkerLoad, WorkerStore, OnlyWorker, endVars
  <2>4. \A w \in Workers : WorkerSpurious(w) => spurious' = spurious + 1
    BY DEF WorkerSpurious
  <2>5. CASE UNCHANGED vars
    BY <2>4, <2>5 DEF vars, endVars
  <2> QED BY <2>1, <2>2, <2>3, <2>4, <2>5 DEF Next
<1> QED BY <1>1, <1>2

(* As long as no thread wakes without a signal a worker never takes a slot *)
(* that no client was put in, for any number of workers and clients:       *)
(* although the sessions are taken outside the mutex and front and count   *)
(* are raced for (server/main.c:62-92).                                    *)
THEOREM TakesAClient == Spec => []NoPhantom
<1> DEFINE CalmInv == spurious = 0 => SlotInv
<1>1. Init => CalmInv
  BY InitSlotInv
<1>2. Inv /\ CalmInv /\ [Next]_vars => CalmInv'
  <2> SUFFICES ASSUME Inv, CalmInv, [Next]_vars, spurious' = 0
               PROVE  SlotInv'
    OBVIOUS
  <2>1. spurious = 0 /\ \A w \in Workers : ~ WorkerSpurious(w)
    BY SpuriousGrows
  <2> QED BY <2>1, NextSlotInv
<1>3. CalmInv => NoPhantom
  <2>1. NoClient \notin Clients
    BY SessionPoolAssumption
  <2> QED BY <2>1 DEF SlotInv, TakenFilled, HasTaken, NoPhantom
<1> HIDE DEF CalmInv
<1> QED BY <1>1, <1>2, <1>3, Invariance, PTL DEF Spec

-----------------------------------------------------------------------------
(* Why a connected client's session id is its own until a scan has found   *)
(* none free, and why that takes a quit and two clients more than the      *)
(* limit.  A client is in line until the main thread has looked for an id  *)
(* for it; then the id goes with it through the buffer and the worker to   *)
(* its pipe.                                                               *)
InHand == {"check", "beforeWait", "waiting", "enter", "clamp", "clampStore", "load",
           "store", "scan"}
InLine(c) ==
  \/ at[c] = "start"
  \/ \E k \in 1 .. Len(serverPipe) : serverPipe[k] = c
  \/ pc \in InHand /\ new.client = c
GivenTo(c, i) ==
  \/ pc \in {"enqueue", "countLoad", "countStore", "signal"} /\ new.client = c /\ new.id = i
  \/ \E s \in Ids : data[s].client = c /\ data[s].id = i
  \/ \E w \in Workers : sess[w].client = c /\ sess[w].id = i
  \/ \E k \in 1 .. Len(received[c]) : received[c][k] = i

(* Clients no longer in line, and the ids that are in use.                 *)
Served == {c \in Clients : ~ InLine(c)}
Marked == {i \in Ids : sessionIDs[i] = 1}

(* Every client has one id at most, its own until its quit is handled.     *)
IdsGiven ==
  /\ \A c \in Clients, i \in Ids : GivenTo(c, i) => ~ InLine(c)
  /\ \A c \in Clients, i, j \in Ids : GivenTo(c, i) /\ GivenTo(c, j) => i = j
  /\ \A c, d \in Clients \ Handled, i \in Ids : GivenTo(c, i) /\ GivenTo(d, i) => c = d
  /\ \A c \in Clients \ Handled, i \in Ids : GivenTo(c, i) => i \in Marked

(* A client is in line once.                                               *)
InOrder ==
  /\ \A j, k \in 1 .. Len(serverPipe) : serverPipe[j] = serverPipe[k] => j = k
  /\ \A k \in 1 .. Len(serverPipe) : at[serverPipe[k]] # "start"
  /\ pc \in InHand =>
       /\ new.client \in Clients /\ at[new.client] # "start"
       /\ \A k \in 1 .. Len(serverPipe) : serverPipe[k] # new.client

(* What a client or a worker knows of the other where it stands.           *)
SidesAgree ==
  /\ \A c \in Clients : quitSent[c] => at[c] \in {"closed", "gone"}
  /\ \A c \in Clients : at[c] = "connected" => received[c] # <<>>
  /\ \A w \in Workers : wpc[w] \in {"openResp", "writeId", "serve"} => Session(w) \in Clients
  /\ \A w \in Workers :
       wpc[w] \in {"clamp", "clampStore", "check", "signal", "load", "store"} => Handled # {}

(* Each client served has its id or has given it back.  While no quit was  *)
(* handled active_clients is exact, and the limit is kept.  The scan finds *)
(* a free id unless more clients were served than there are ids.           *)
Counting ==
  /\ Cardinality(Marked) + Cardinality(Handled) <= Cardinality(Served)
  /\ Handled = {} =>
       /\ active_clients = Cardinality(Served) + (IF pc = "scan" THEN 1 ELSE 0)
       /\ pc = "store" => tmp = active_clients
       /\ pc # "clampStore"
       /\ Cardinality(Served) <= N
       /\ pc \in {"enter", "clamp", "load", "store", "scan"} => Cardinality(Served) < N
  /\ pc = "scan" /\ Cardinality(Served) <= N => \E i \in cursor .. (N - 1) : i \notin Marked

(* What is known when a scan has found no id free.                         *)
PastLimit == Handled # {} /\ Cardinality(Asked) >= N + 2

OwnInv ==
  /\ InOrder /\ SidesAgree /\ IsFiniteSet(Asked)
  /\ ~ noneFree => IdsGiven
  /\ ~ noneFree /\ spurious = 0 => Counting
  /\ noneFree /\ spurious = 0 => PastLimit

-----------------------------------------------------------------------------
(* The sets that are counted are finite.                                   *)
LEMMA CountsAreNumbers ==
  ASSUME OwnInv
  PROVE  /\ IsFiniteSet(Marked) /\ Cardinality(Marked) \in Nat
         /\ IsFiniteSet(Handled) /\ Cardinality(Handled) \in Nat
         /\ IsFiniteSet(Served) /\ Cardinality(Served) \in Nat
         /\ IsFiniteSet(Asked) /\ Cardinality(Asked) \in Nat
         /\ IsFiniteSet(Ids) /\ Cardinality(Ids) = N
<1>1. IsFiniteSet(Ids) /\ Cardinality(Ids) = N
  <2>1. 0 \in Int /\ N - 1 \in Int /\ ~ (0 > N - 1) /\ (N - 1) - 0 + 1 = N
    BY LimitPositive
  <2> QED BY <2>1, FS_Interval DEF Ids
<1>2. Marked \subseteq Ids /\ Handled \subseteq Asked /\ Served \subseteq Asked
  BY DEF Marked, Handled, Served, InLine, Asked
<1>3. IsFiniteSet(Asked)
  BY DEF OwnInv
<1> QED BY <1>1, <1>2, <1>3, FS_Subset, FS_CardinalityType

(* While fewer clients than the limit hold an id, or the limit and one has *)
(* given its back, there is a free one.                                    *)
LEMMA IdIsFree ==
  ASSUME OwnInv, Counting, Cardinality(Served) <= N,
         Handled # {} \/ Cardinality(Served) < N
  PROVE  \E i \in Ids : i \notin Marked
<1> SUFFICES ASSUME Ids \subseteq Marked PROVE FALSE
  OBVIOUS
<1>1. Marked = Ids
  BY DEF Marked
<1>2. Cardinality(Marked) = N /\ N \in Nat
  BY <1>1, CountsAreNumbers, LimitPositive
<1>3. Cardinality(Marked) + Cardinality(Handled) <= Cardinality(Served)
  BY DEF Counting
<1>4. Cardinality(Handled) = 0 => Handled = {}
  BY CountsAreNumbers, FS_EmptySet
<1> QED BY <1>2, <1>3, <1>4, CountsAreNumbers

(* What most steps leave to show: they find no scan at its end, and at     *)
(* most one client asks.                                                   *)
LEMMA StepOwn ==
  ASSUME OwnInv, UNCHANGED noneFree, spurious' = 0 => spurious = 0,
         Asked' = Asked \/ \E c \in Clients : Asked' = Asked \cup {c},
         Handled \subseteq Handled', InOrder', SidesAgree',
         IdsGiven => IdsGiven',
         spurious' = 0 /\ IdsGiven /\ Counting => Counting'
  PROVE  OwnInv'
<1>1. IsFiniteSet(Asked)
  BY DEF OwnInv
<1>2. /\ IsFiniteSet(Asked') /\ Cardinality(Asked') \in Nat /\ Cardinality(Asked) \in Nat
      /\ Cardinality(Asked) <= Cardinality(Asked')
  <2>1. IsFiniteSet(Asked')
    BY <1>1, FS_AddElement
  <2>2. Asked \subseteq Asked'
    OBVIOUS
  <2> QED BY <1>1, <2>1, <2>2, FS_Subset, FS_CardinalityType
<1>3. noneFree' /\ spurious' = 0 => PastLimit'
  <2> SUFFICES ASSUME noneFree', spurious' = 0
               PROVE  PastLimit'
    OBVIOUS
  <2>1. Handled # {} /\ Cardinality(Asked) >= N + 2
    BY DEF OwnInv, PastLimit
  <2>2. Handled' # {}
    BY <2>1
  <2>3. Cardinality(Asked') >= N + 2
    BY <1>2, <2>1, LimitPositive
  <2> QED BY <2>2, <2>3 DEF PastLimit
<1>4. ~ noneFree' => IdsGiven'
  BY DEF OwnInv
<1>5. ~ noneFree' /\ spurious' = 0 => Counting'
  BY DEF OwnInv
<1> QED BY <1>2, <1>3, <1>4, <1>5 DEF OwnInv

(* At the start everybody is in line.                                      *)
LEMMA InitOwnInv ==
  ASSUME Init
  PROVE  OwnInv
<1>1. /\ \A c \in Clients : at[c] = "start" /\ ~ quitSent[c] /\ received[c] = <<>>
      /\ serverPipe = <<>> /\ pc = "read" /\ active_clients = 0 /\ noneFree = FALSE
      /\ \A i \in Ids : sessionIDs[i] = 0 /\ data[i].client = NoClient
      /\ \A w \in Workers : wpc[w] = "start" /\ sess[w].client = NoClient
  BY DEF Init, NoSession
<1>2. NoClient \notin Clients
  BY SessionPoolAssumption
<1>3. Handled = {} /\ Served = {} /\ Marked = {} /\ Asked = {}
  BY <1>1 DEF Handled, Served, InLine, Marked, Asked
<1>4. \A c \in Clients, i \in Ids : ~ GivenTo(c, i)
  <2>1. Len(<<>>) = 0
    OBVIOUS
  <2> QED BY <1>1, <1>2, <2>1 DEF GivenTo
<1>5. IdsGiven
  BY <1>4 DEF IdsGiven
<1>6. InOrder
  <2>1. 1 .. Len(serverPipe) = {}
    BY <1>1
  <2> QED BY <1>1, <2>1 DEF InOrder, InHand
<1>7. SidesAgree
  BY <1>1 DEF SidesAgree
<1>8. Counting
  <2>1. Cardinality({}) = 0
    BY FS_EmptySet
  <2> QED BY <1>1, <1>3, <2>1, LimitPositive DEF Counting
<1>9. IsFiniteSet(Asked)
  BY <1>3, FS_EmptySet
<1> QED BY <1>1, <1>5, <1>6, <1>7, <1>8, <1>9 DEF OwnInv

(* A step that gives no id, and takes no mark away.                        *)
LEMMA SameHolders ==
  ASSUME IdsGiven, \A c \in Clients : InLine(c)' => InLine(c),
         \A c \in Clients, i \in Ids : GivenTo(c, i)' => GivenTo(c, i),
         Handled \subseteq Handled', Marked \subseteq Marked'
  PROVE  IdsGiven'
<1>1. \A c \in Clients, i \in Ids : GivenTo(c, i)' => ~ InLine(c)'
  BY DEF IdsGiven
<1>2. \A c \in Clients, i, j \in Ids : GivenTo(c, i)' /\ GivenTo(c, j)' => i = j
  BY DEF IdsGiven
<1>3. \A c, d \in Clients \ Handled', i \in Ids : GivenTo(c, i)' /\ GivenTo(d, i)' => c = d
  BY DEF IdsGiven
<1>4. \A c \in Clients \ Handled', i \in Ids : GivenTo(c, i)' => i \in Marked'
  BY DEF IdsGiven
<1> QED BY <1>1, <1>2, <1>3, <1>4 DEF IdsGiven

(* A step that counts nothing.                                             *)
LEMMA SameCounts ==
  ASSUME Counting, Marked' = Marked, Handled' = Handled, Served' = Served,
         Handled = {} => active_clients' = active_clients,
         UNCHANGED <<pc, tmp, cursor>>
  PROVE  Counting'
BY DEF Counting

(* A step of a client: only its own place changes, it gets in line once,   *)
(* and its quit is not handled yet.                                        *)
LEMMA ClientOwn ==
  ASSUME Inv, OwnInv, NEW c \in Clients, Client(c)
  PROVE  OwnInv'
<1>1. /\ UNCHANGED <<pc, new, tmp, cursor, active_clients, sessionIDs, data, wpc, sess, received,
                     noneFree, spurious>>
      /\ \/ at[c] = "start" /\ at' = [at EXCEPT ![c] = "openReq"]
            /\ serverPipe' = Append(serverPipe, c) /\ quitSent' = quitSent
         \/ /\ serverPipe' = serverPipe
            /\ \/ /\ quitSent' = quitSent
                  /\ \/ at[c] = "openReq" /\ at' = [at EXCEPT ![c] = "openResp"]
                     \/ at[c] = "openResp" /\ at' = [at EXCEPT ![c] = "readId"]
                     \/ at[c] = "readId" /\ at' = [at EXCEPT ![c] = "connected"]
                        /\ received[c] # <<>>
                     \/ at[c] = "closed" /\ at' = [at EXCEPT ![c] = "gone"]
                     \/ at[c] = "connected" /\ at' = [at EXCEPT ![c] = "abandoned"]
               \/ /\ at[c] = "connected" /\ at' = [at EXCEPT ![c] = "closed"]
                  /\ quitSent' = [quitSent EXCEPT ![c] = TRUE]
  BY DEF Client, Request, ClientOpenReq, ClientOpenResp, ReadId, Quit, Unlink,
         Abandon, ServerSame, ClientGoto, mainVars, bufVars, workerVars, endVars
<1>2. /\ at \in [Clients -> ClientLabels] /\ quitSent \in [Clients -> BOOLEAN]
      /\ serverPipe \in Seq(Clients)
  BY DEF Inv, TypeOK
<1>3. /\ \A d \in Clients : d # c => at'[d] = at[d] /\ quitSent'[d] = quitSent[d]
      /\ at'[c] # "start" /\ (quitSent'[c] => at'[c] \in {"closed", "gone"})
      /\ (at'[c] = "connected" => received[c] # <<>>)
      /\ (c \in Handled' <=> c \in Handled)
      /\ \/ at[c] # "start" /\ serverPipe' = serverPipe
         \/ at[c] = "start" /\ serverPipe' = Append(serverPipe, c)
  <2>1. quitSent[c] => at[c] \in {"closed", "gone"}
    BY DEF OwnInv, SidesAgree
  <2>2. CASE quitSent' = quitSent
    BY <1>1, <1>2, <2>1, <2>2 DEF Handled
  <2>3. CASE /\ at[c] = "connected" /\ at' = [at EXCEPT ![c] = "closed"]
             /\ quitSent' = [quitSent EXCEPT ![c] = TRUE] /\ serverPipe' = serverPipe
    BY <1>1, <1>2, <2>1, <2>3 DEF Handled
  <2> QED BY <1>1, <2>2, <2>3
<1>4. Handled' = Handled /\ Marked' = Marked
  <2>1. \A d \in Clients : d \in Handled' <=> d \in Handled
    BY <1>3 DEF Handled
  <2> QED BY <1>1, <2>1 DEF Handled, Marked
<1>5. /\ serverPipe' = serverPipe
         \/ (at[c] = "start" /\ Len(serverPipe') = Len(serverPipe) + 1
               /\ serverPipe'[Len(serverPipe) + 1] = c
               /\ \A k \in 1 .. Len(serverPipe) : serverPipe'[k] = serverPipe[k])
      /\ Len(serverPipe) \in Nat
  <2>1. Len(serverPipe) \in Nat
    BY <1>2
  <2>2. CASE serverPipe' = Append(serverPipe, c) /\ at[c] = "start"
    <3>1. /\ Len(Append(serverPipe, c)) = Len(serverPipe) + 1
          /\ Append(serverPipe, c)[Len(serverPipe) + 1] = c
          /\ \A k \in 1 .. Len(serverPipe) : Append(serverPipe, c)[k] = serverPipe[k]
      BY <1>2
    <3> QED BY <2>1, <2>2, <3>1
  <2> QED BY <1>3, <2>1, <2>2
<1>6. \A d \in Clients : InLine(d)' <=> InLine(d)
  <2> SUFFICES ASSUME NEW d \in Clients PROVE InLine(d)' <=> InLine(d)
    OBVIOUS
  <2>1. CASE serverPipe' = serverPipe /\ at[c] # "start"
    <3>1. at'[d] = "start" <=> at[d] = "start"
      BY <1>3, <2>1
    <3> QED BY <1>1, <2>1, <3>1 DEF InLine
  <2>2. CASE /\ at[c] = "start" /\ Len(serverPipe') = Len(serverPipe) + 1
             /\ serverPipe'[Len(serverPipe) + 1] = c
             /\ \A k \in 1 .. Len(serverPipe) : serverPipe'[k] = serverPipe[k]
    <3>1. (\E k \in 1 .. Len(serverPipe') : serverPipe'[k] = d) <=>
            (d = c \/ \E k \in 1 .. Len(serverPipe) : serverPipe[k] = d)
      BY <1>5, <2>2
    <3>2. at'[d] = "start" <=> (at[d] = "start" /\ d # c)
      BY <1>3
    <3> QED BY <1>1, <2>2, <3>1, <3>2 DEF InLine
  <2> QED BY <1>3, <1>5, <2>1, <2>2
<1>7. \A d \in Clients, i \in Ids : GivenTo(d, i)' <=> GivenTo(d, i)
  BY <1>1 DEF GivenTo
<1>8. IdsGiven => IdsGiven'
  BY <1>4, <1>6, <1>7, SameHolders
<1>9. InOrder'
  <2>1. CASE serverPipe' = serverPipe /\ at[c] # "start"
    <3>1. \A d \in Clients : at[d] # "start" => at'[d] # "start"
      BY <1>3
    <3>2. \A k \in 1 .. Len(serverPipe) : serverPipe[k] \in Clients
      BY <1>2
    <3> QED BY <1>1, <2>1, <3>1, <3>2 DEF OwnInv, InOrder
  <2>2. CASE /\ at[c] = "start" /\ Len(serverPipe') = Len(serverPipe) + 1
             /\ serverPipe'[Len(serverPipe) + 1] = c
             /\ \A k \in 1 .. Len(serverPipe) : serverPipe'[k] = serverPipe[k]
    <3>1. \A k \in 1 .. Len(serverPipe) : serverPipe[k] \in Clients /\ serverPipe[k] # c
      BY <1>2, <2>2 DEF OwnInv, InOrder
    <3>2. pc \in InHand => new.client \in Clients /\ new.client # c
      BY <2>2 DEF OwnInv, InOrder
    <3>3. \A k \in 1 .. Len(serverPipe') :
            k \in 1 .. Len(serverPipe) \/ k = Len(serverPipe) + 1
      BY <1>5, <2>2
    <3>4. \A j, k \in 1 .. Len(serverPipe') : serverPipe'[j] = serverPipe'[k] => j = k
      BY <2>2, <3>1, <3>3 DEF OwnInv, InOrder
    <3>5. \A k \in 1 .. Len(serverPipe') : at'[serverPipe'[k]] # "start"
      BY <1>3, <2>2, <3>1, <3>3 DEF OwnInv, InOrder
    <3>6. pc' \in InHand =>
            /\ new'.client \in Clients /\ at'[new'.client] # "start"
            /\ \A k \in 1 .. Len(serverPipe') : serverPipe'[k] # new'.client
      BY <1>1, <1>3, <2>2, <3>2, <3>3 DEF OwnInv, InOrder
    <3> QED BY <3>4, <3>5, <3>6 DEF InOrder
  <2> QED BY <1>3, <1>5, <2>1, <2>2
<1>10. SidesAgree'
  <2>1. \A d \in Clients : quitSent'[d] => at'[d] \in {"closed", "gone"}
    BY <1>3 DEF OwnInv, SidesAgree
  <2>2. \A d \in Clients : at'[d] = "connected" => received'[d] # <<>>
    BY <1>1, <1>3 DEF OwnInv, SidesAgree
  <2> QED BY <1>1, <1>4, <2>1, <2>2 DEF OwnInv, SidesAgree, Session
<1>11. Counting => Counting'
  <2>1. Served' = Served
    BY <1>6 DEF Served
  <2> QED BY <1>1, <1>4, <2>1, SameCounts
<1>12. Asked' = Asked \cup {c}
  BY <1>2, <1>3 DEF Asked
<1> QED BY <1>1, <1>4, <1>8, <1>9, <1>10, <1>11, <1>12, StepOwn

(* The main thread reads a request: the client stays in line.              *)
LEMMA ReadOwn ==
  ASSUME Inv, OwnInv, MainRead
  PROVE  OwnInv'
<1> DEFINE c == Head(serverPipe)
<1>1. /\ pc = "read" /\ pc' = "check" /\ serverPipe # <<>>
      /\ serverPipe \in Seq(Clients) /\ serverPipe' = Tail(serverPipe)
      /\ new' = [new EXCEPT !.client = c] /\ new \in Sessions
      /\ UNCHANGED <<at, received, quitSent, tmp, cursor, active_clients, sessionIDs, data,
                     wpc, sess, noneFree, spurious>>
  BY DEF MainRead, MainGoto, bufVars, workerVars, endVars, Inv, TypeOK
<1>2. /\ Len(serverPipe) \in Nat \ {0} /\ c \in Clients /\ c = serverPipe[1]
      /\ Len(serverPipe') = Len(serverPipe) - 1
      /\ \A k \in 1 .. (Len(serverPipe) - 1) : serverPipe'[k] = serverPipe[k + 1]
  BY <1>1
<1>3. new'.client = c
  BY <1>1 DEF Sessions
<1> HIDE DEF c
<1>4. \A k \in 1 .. Len(serverPipe) : k = 1 \/ (k - 1 \in 1 .. Len(serverPipe')
                                                 /\ serverPipe'[k - 1] = serverPipe[k])
  BY <1>2
<1>5. \A k \in 1 .. Len(serverPipe') : /\ k + 1 \in 1 .. Len(serverPipe) /\ k + 1 # 1
                                       /\ serverPipe'[k] = serverPipe[k + 1]
  BY <1>2
<1>6. 1 \in 1 .. Len(serverPipe)
  BY <1>2
<1>7. \A d \in Clients : InLine(d)' <=> InLine(d)
  <2> SUFFICES ASSUME NEW d \in Clients PROVE InLine(d)' <=> InLine(d)
    OBVIOUS
  <2>1. (\E k \in 1 .. Len(serverPipe) : serverPipe[k] = d) <=>
          (d = c \/ \E k \in 1 .. Len(serverPipe') : serverPipe'[k] = d)
    BY <1>2, <1>4, <1>5, <1>6
  <2> QED BY <1>1, <1>3, <2>1 DEF InLine, InHand
<1>8. Handled' = Handled /\ Marked' = Marked /\ Served' = Served /\ Asked' = Asked
  BY <1>1, <1>7 DEF Handled, Marked, Served, Asked
<1>9. \A d \in Clients, i \in Ids : GivenTo(d, i)' => GivenTo(d, i)
  BY <1>1 DEF GivenTo
<1>10. IdsGiven => IdsGiven'
  BY <1>7, <1>8, <1>9, SameHolders
<1>11. InOrder'
  <2>1. \A j, k \in 1 .. Len(serverPipe') : serverPipe'[j] = serverPipe'[k] => j = k
    <3> SUFFICES ASSUME NEW j \in 1 .. Len(serverPipe'), NEW k \in 1 .. Len(serverPipe'),
                        serverPipe'[j] = serverPipe'[k]
                 PROVE  j = k
      OBVIOUS
    <3>1. j + 1 = k + 1
      BY <1>5 DEF OwnInv, InOrder
    <3> QED BY <3>1
  <2>2. \A k \in 1 .. Len(serverPipe') : at'[serverPipe'[k]] # "start"
    BY <1>1, <1>5 DEF OwnInv, InOrder
  <2>3. \A k \in 1 .. Len(serverPipe') : serverPipe'[k] # c
    BY <1>2, <1>5, <1>6 DEF OwnInv, InOrder
  <2>4. c \in Clients /\ at'[c] # "start"
    BY <1>1, <1>2, <1>6 DEF OwnInv, InOrder
  <2> QED BY <1>3, <2>1, <2>2, <2>3, <2>4 DEF InOrder
<1>12. SidesAgree'
  BY <1>1, <1>8 DEF OwnInv, SidesAgree, Session
<1>13. Counting => Counting'
  BY <1>1, <1>8 DEF Counting
<1> QED BY <1>1, <1>8, <1>10, <1>11, <1>12, <1>13, StepOwn

(* What a step leaves alone that moves nobody in the line, and neither     *)
(* gives an id nor takes one back.                                         *)
StandsStill ==
  /\ UNCHANGED <<serverPipe, at, received, quitSent, sessionIDs>>
  /\ \A c \in Clients : InLine(c)' <=> InLine(c)
  /\ \A c \in Clients, i \in Ids : GivenTo(c, i)' => GivenTo(c, i)
  /\ pc' \in InHand => pc \in InHand /\ new'.client = new.client

LEMMA StillOwn ==
  ASSUME OwnInv, StandsStill
  PROVE  /\ IdsGiven => IdsGiven'
         /\ InOrder'
         /\ Handled' = Handled /\ Marked' = Marked /\ Served' = Served /\ Asked' = Asked
<1>1. /\ UNCHANGED <<serverPipe, at, received, quitSent, sessionIDs>>
      /\ \A c \in Clients : InLine(c)' <=> InLine(c)
      /\ \A c \in Clients, i \in Ids : GivenTo(c, i)' => GivenTo(c, i)
      /\ pc' \in InHand => pc \in InHand /\ new'.client = new.client
  BY DEF StandsStill
<1>2. Handled' = Handled /\ Marked' = Marked /\ Served' = Served /\ Asked' = Asked
  BY <1>1 DEF Handled, Marked, Served, Asked
<1>3. IdsGiven => IdsGiven'
  BY <1>1, <1>2, SameHolders
<1>4. InOrder'
  BY <1>1 DEF OwnInv, InOrder
<1> QED BY <1>2, <1>3, <1>4

(* The steps of the main thread before it looks for an id.                 *)
LEMMA BeforeScanOwn ==
  ASSUME Inv, OwnInv,
         \/ MainCheck \/ MainWait \/ MainSpurious \/ MainEnter \/ MainClamp
         \/ MainClampStore \/ MainLoad \/ MainStore
  PROVE  OwnInv'
<1>1. /\ UNCHANGED <<serverPipe, at, received, quitSent, new, sessionIDs, data, wpc, sess,
                     noneFree>>
      /\ pc \in InHand /\ pc' \in InHand /\ pc # "scan"
      /\ spurious \in Nat /\ (spurious' = spurious \/ (MainSpurious /\ spurious' = spurious + 1))
  BY SessionPoolAssumption
     DEF MainCheck, MainWait, MainSpurious, MainEnter, MainClamp, MainClampStore, MainLoad,
         MainStore, MainGoto, clientVars, bufVars, workerVars, endVars, InHand, Inv, TypeOK
<1>2. spurious' = 0 => spurious = 0 /\ ~ MainSpurious
  BY <1>1 DEF MainSpurious
<1>3. StandsStill
  <2>1. \A c \in Clients : InLine(c)' <=> InLine(c)
    BY <1>1 DEF InLine
  <2>2. \A c \in Clients, i \in Ids : GivenTo(c, i)' => GivenTo(c, i)
    BY <1>1 DEF GivenTo, InHand
  <2> QED BY <1>1, <2>1, <2>2 DEF StandsStill
<1>4. /\ IdsGiven => IdsGiven'
      /\ InOrder' /\ Asked' = Asked
      /\ Handled' = Handled /\ Marked' = Marked /\ Served' = Served
  BY <1>3, StillOwn
<1>5. SidesAgree'
  BY <1>1, <1>4 DEF OwnInv, SidesAgree, Session
<1>6. ASSUME spurious' = 0, Counting
      PROVE  Counting'
  <2> DEFINE n == Cardinality(Served)
             Early == {"enter", "clamp", "load", "store", "scan"}
             Exact == /\ active_clients' = n + (IF pc' = "scan" THEN 1 ELSE 0)
                      /\ pc' = "store" => tmp' = active_clients'
                      /\ pc' # "clampStore"
                      /\ n <= N
                      /\ pc' \in Early => n < N
             Found == pc' = "scan" /\ n <= N => \E i \in cursor' .. (N - 1) : i \notin Marked
  <2>1. n \in Nat /\ N \in Nat
    BY CountsAreNumbers, LimitPositive
  <2>2. /\ Cardinality(Marked) + Cardinality(Handled) <= n
        /\ Handled = {} =>
             /\ active_clients = n
             /\ pc = "store" => tmp = active_clients
             /\ pc # "clampStore"
             /\ n <= N
             /\ pc \in Early => n < N
    <3>1. Handled = {} => active_clients = n + 0
      BY <1>1, <1>6 DEF Counting
    <3> QED BY <1>6, <2>1, <3>1 DEF Counting
  <2>3. MainStore /\ n <= N => \E i \in 0 .. (N - 1) : i \notin Marked
    <3>1. MainStore => pc = "store"
      BY DEF MainStore
    <3> QED BY <1>6, <2>2, <3>1, IdIsFree DEF Ids
  <2> HIDE DEF n
  <2>4. Handled = {} => Exact
    <3> SUFFICES ASSUME Handled = {} PROVE Exact
      OBVIOUS
    <3>1. n + 0 = n
      BY <2>1
    <3>2. CASE MainCheck
      <4>1. /\ pc' = (IF active_clients = N THEN "beforeWait" ELSE "enter")
            /\ active_clients' = active_clients
        BY <3>2 DEF MainCheck, MainGoto
      <4> QED BY <2>1, <2>2, <3>1, <4>1
    <3>3. CASE MainWait \/ MainEnter
      <4>1. /\ active_clients' = active_clients
            /\ pc' = "waiting" \/ (pc = "enter" /\ pc' = "clamp")
        BY <3>3 DEF MainWait, MainEnter, MainGoto
      <4> QED BY <2>2, <3>1, <4>1
    <3>4. CASE MainClamp
      <4>1. /\ active_clients' = active_clients /\ pc = "clamp"
            /\ pc' = (IF active_clients > N THEN "clampStore" ELSE "load")
        BY <3>4 DEF MainClamp, MainGoto
      <4> QED BY <2>1, <2>2, <3>1, <4>1
    <3>5. CASE MainClampStore
      BY <2>2, <3>5 DEF MainClampStore
    <3>6. CASE MainLoad
      <4>1. /\ pc = "load" /\ pc' = "store" /\ active_clients' = active_clients
            /\ tmp' = active_clients
        BY <3>6 DEF MainLoad, MainGoto
      <4> QED BY <2>2, <3>1, <4>1
    <3>7. CASE MainStore
      <4>1. pc = "store" /\ pc' = "scan" /\ active_clients' = tmp + 1
        BY <3>7 DEF MainStore, MainGoto
      <4> QED BY <2>2, <4>1
    <3> QED BY <1>2, <1>6, <3>2, <3>3, <3>4, <3>5, <3>6, <3>7
  <2>5. Found
    <3>1. pc' = "scan" => MainStore /\ cursor' = 0
      BY <1>2, <1>6 DEF MainCheck, MainWait, MainEnter, MainClamp, MainClampStore, MainLoad,
                        MainStore, MainGoto
    <3> QED BY <2>3, <3>1
  <2> QED BY <1>4, <2>2, <2>4, <2>5 DEF Counting, n
<1> QED BY <1>1, <1>2, <1>4, <1>5, <1>6, StepOwn

(* A turn of the scan.  The id it finds is nobody's who may still use it.  *)
LEMMA ScanOwn ==
  ASSUME Inv, OwnInv, MainScan
  PROVE  OwnInv'
<1> DEFINE c == new.client
<1>1. /\ pc = "scan" /\ new \in Sessions /\ cursor \in 0 .. N /\ N \in Nat
      /\ sessionIDs \in [Ids -> {0, 1}]
      /\ UNCHANGED <<serverPipe, at, received, quitSent, data, wpc, sess, tmp, active_clients,
                     spurious>>
      /\ \/ /\ cursor < N /\ sessionIDs[cursor] = 0
            /\ new' = [new EXCEPT !.id = cursor]
            /\ sessionIDs' = [sessionIDs EXCEPT ![cursor] = 1]
            /\ pc' = "enqueue" /\ cursor' = cursor /\ noneFree' = noneFree
         \/ /\ cursor < N /\ sessionIDs[cursor] # 0
            /\ cursor' = cursor + 1 /\ pc' = "scan"
            /\ UNCHANGED <<new, sessionIDs, noneFree>>
         \/ /\ cursor = N /\ pc' = "enqueue" /\ noneFree' = TRUE
            /\ UNCHANGED <<new, sessionIDs, cursor>>
  BY LimitPositive DEF MainScan, MainGoto, clientVars, bufVars, workerVars, Inv, TypeOK
<1>2. /\ c \in Clients /\ at[c] # "start" /\ InLine(c) /\ c \notin Served
      /\ \A k \in 1 .. Len(serverPipe) : serverPipe[k] # c
  BY <1>1 DEF OwnInv, InOrder, InLine, InHand, Served
<1>3. Handled' = Handled /\ Asked' = Asked
  BY <1>1 DEF Handled, Asked
<1>4. SidesAgree'
  BY <1>1, <1>3 DEF OwnInv, SidesAgree, Session
<1>5. pc' = "enqueue" => InOrder'
  BY <1>1 DEF OwnInv, InOrder, InHand
<1>6. CASE cursor < N /\ sessionIDs[cursor] # 0
  <2>1. /\ cursor' = cursor + 1 /\ pc' = "scan" /\ UNCHANGED <<new, sessionIDs, noneFree>>
    BY <1>1, <1>6
  <2>2. cursor \in Marked
    BY <1>1, <1>6 DEF Marked, Ids
  <2>3. StandsStill
    <3>1. \A d \in Clients : InLine(d)' <=> InLine(d)
      BY <1>1, <2>1 DEF InLine
    <3>2. \A d \in Clients, i \in Ids : GivenTo(d, i)' => GivenTo(d, i)
      BY <1>1, <2>1 DEF GivenTo
    <3> QED BY <1>1, <2>1, <3>1, <3>2 DEF StandsStill
  <2>4. /\ IdsGiven => IdsGiven'
        /\ InOrder' /\ Asked' = Asked
        /\ Handled' = Handled /\ Marked' = Marked /\ Served' = Served
    BY <2>3, StillOwn
  <2>5. Counting => Counting'
    <3>1. \A i \in cursor .. (N - 1) : i \notin Marked => i \in cursor' .. (N - 1)
      BY <1>1, <2>1, <2>2
    <3> QED BY <1>1, <2>1, <2>4, <3>1 DEF Counting
  <2> QED BY <1>1, <1>4, <2>1, <2>4, <2>5, StepOwn
<1>7. CASE cursor < N /\ sessionIDs[cursor] = 0
  <2>1. /\ new' = [new EXCEPT !.id = cursor] /\ pc' = "enqueue" /\ noneFree' = noneFree
        /\ sessionIDs' = [sessionIDs EXCEPT ![cursor] = 1] /\ cursor \in Ids
    BY <1>1, <1>7 DEF Ids
  <2>2. new'.client = c /\ new'.id = cursor
    BY <1>1, <2>1 DEF Sessions
  <2> HIDE DEF c
  <2>3. cursor \notin Marked /\ Marked' = Marked \cup {cursor}
    BY <1>1, <1>7, <2>1 DEF Marked
  <2>4. \A d \in Clients : InLine(d)' <=> (InLine(d) /\ d # c)
    <3>1. \A d \in Clients : InLine(d)' =>
            at[d] = "start" \/ \E k \in 1 .. Len(serverPipe) : serverPipe[k] = d
      BY <1>1, <2>1 DEF InLine, InHand
    <3>2. \A d \in Clients : InLine(d) /\ d # c => InLine(d)'
      BY <1>1 DEF InLine, c
    <3>3. \A d \in Clients : InLine(d)' => InLine(d) /\ d # c
      BY <1>2, <3>1 DEF InLine
    <3> QED BY <3>2, <3>3
  <2>5. Served' = Served \cup {c}
    BY <1>1, <1>2, <2>4 DEF Served
  <2>6. \A d \in Clients, i \in Ids :
          GivenTo(d, i)' => GivenTo(d, i) \/ (d = c /\ i = cursor)
    BY <1>1, <2>2 DEF GivenTo
  <2>7. ASSUME IdsGiven
        PROVE  IdsGiven'
    <3>1. \A i \in Ids : ~ GivenTo(c, i)
      BY <1>2, <2>7 DEF IdsGiven
    <3>2. \A d \in Clients, i \in Ids : GivenTo(d, i)' => ~ InLine(d)'
      BY <2>4, <2>6, <2>7 DEF IdsGiven
    <3>3. \A d \in Clients, i, j \in Ids : GivenTo(d, i)' /\ GivenTo(d, j)' => i = j
      BY <2>6, <2>7, <3>1 DEF IdsGiven
    <3>4. \A d, e \in Clients \ Handled, i \in Ids : GivenTo(d, i)' /\ GivenTo(e, i)' => d = e
      <4>1. \A d \in Clients \ Handled, i \in Ids : GivenTo(d, i) => i # cursor
        BY <2>3, <2>7 DEF IdsGiven
      <4> QED BY <2>6, <2>7, <4>1 DEF IdsGiven
    <3>5. \A d \in Clients \ Handled, i \in Ids : GivenTo(d, i)' => i \in Marked'
      BY <2>3, <2>6, <2>7 DEF IdsGiven
    <3> QED BY <1>3, <3>2, <3>3, <3>4, <3>5 DEF IdsGiven
  <2>8. ASSUME Counting
        PROVE  Counting'
    <3>1. /\ Cardinality(Marked') = Cardinality(Marked) + 1
          /\ Cardinality(Served') = Cardinality(Served) + 1
      BY <1>2, <2>3, <2>5, CountsAreNumbers, FS_AddElement DEF c
    <3>2. /\ Cardinality(Marked) + Cardinality(Handled) <= Cardinality(Served)
          /\ Handled = {} => /\ active_clients = Cardinality(Served) + 1
                             /\ Cardinality(Served) < N
      BY <1>1, <2>8 DEF Counting
    <3>3. Cardinality(Marked') + Cardinality(Handled') <= Cardinality(Served')
      BY <1>3, <3>1, <3>2, CountsAreNumbers
    <3>4. Handled' = {} => /\ active_clients' = Cardinality(Served') + 0
                           /\ Cardinality(Served') <= N
      BY <1>1, <1>3, <3>1, <3>2, CountsAreNumbers
    <3> QED BY <2>1, <3>3, <3>4 DEF Counting
  <2> QED BY <1>1, <1>3, <1>4, <1>5, <2>1, <2>7, <2>8, StepOwn
<1>8. CASE cursor = N
  <2>1. pc' = "enqueue" /\ noneFree' = TRUE
    BY <1>1, <1>8
  <2>2. ASSUME spurious = 0, ~ noneFree
        PROVE  PastLimit
    <3>1. Counting
      BY <2>2 DEF OwnInv
    <3>2. Cardinality(Served) > N
      <4>1. cursor .. (N - 1) = {}
        BY <1>1, <1>8
      <4> QED BY <1>1, <3>1, <4>1, CountsAreNumbers DEF Counting
    <3>3. Handled # {}
      BY <1>1, <3>1, <3>2, CountsAreNumbers DEF Counting
    <3>4. Served \cup {c} \subseteq Asked
      BY <1>2 DEF Served, InLine, Asked
    <3>5. /\ IsFiniteSet(Served \cup {c})
          /\ Cardinality(Served \cup {c}) = Cardinality(Served) + 1
      BY <1>2, CountsAreNumbers, FS_AddElement
    <3>6. Cardinality(Served \cup {c}) <= Cardinality(Asked)
      BY <3>4, CountsAreNumbers, FS_Subset
    <3>7. Cardinality(Asked) >= N + 2
      BY <1>1, <3>2, <3>5, <3>6, CountsAreNumbers
    <3> QED BY <3>3, <3>7 DEF PastLimit
  <2>3. spurious = 0 => PastLimit
    BY <2>2 DEF OwnInv
  <2>4. spurious' = 0 => PastLimit'
    BY <1>1, <1>3, <2>3 DEF PastLimit
  <2> QED BY <1>3, <1>4, <1>5, <2>1, <2>4 DEF OwnInv
<1> QED BY <1>1, <1>6, <1>7, <1>8

(* The session goes into the buffer, and its client is no longer in hand.  *)
LEMMA AfterScanOwn ==
  ASSUME Inv, OwnInv, MainEnqueue \/ MainCountLoad \/ MainCountStore \/ MainSignal
  PROVE  OwnInv'
<1> DEFINE Given == {"enqueue", "countLoad", "countStore", "signal"}
<1>1. /\ UNCHANGED <<serverPipe, at, received, quitSent, new, sessionIDs, active_clients, sess,
                     noneFree, spurious>>
      /\ pc \in Given /\ pc' \in Given \cup {"read"}
      /\ \A s \in Ids : data'[s] = data[s] \/ (pc = "enqueue" /\ data'[s] = new)
  <2>1. data \in [Ids -> Sessions]
    BY DEF Inv, TypeOK
  <2> QED BY <2>1 DEF MainEnqueue, MainCountLoad, MainCountStore, MainSignal, MainGoto,
                      clientVars, bufVars, workerVars, endVars
<1>2. \A w \in Workers : wpc'[w] = wpc[w] \/ wpc'[w] = "woken"
  <2>1. wpc \in [Workers -> WorkerLabels]
    BY DEF Inv, TypeOK
  <2> QED BY <2>1 DEF MainEnqueue, MainCountLoad, MainCountStore, MainSignal, workerVars
<1>3. StandsStill
  <2>1. \A c \in Clients : InLine(c)' <=> InLine(c)
    BY <1>1 DEF InLine, InHand
  <2>2. \A c \in Clients, i \in Ids : GivenTo(c, i)' => GivenTo(c, i)
    BY <1>1 DEF GivenTo
  <2> QED BY <1>1, <2>1, <2>2 DEF StandsStill, InHand
<1>4. /\ IdsGiven => IdsGiven'
      /\ InOrder' /\ Asked' = Asked
      /\ Handled' = Handled /\ Marked' = Marked /\ Served' = Served
  BY <1>3, StillOwn
<1>5. SidesAgree'
  BY <1>1, <1>2, <1>4 DEF OwnInv, SidesAgree, Session
<1>6. Counting => Counting'
  <2>1. /\ pc # "scan" /\ pc' \notin {"scan", "enter", "clamp", "clampStore", "load", "store"}
    BY <1>1
  <2> QED BY <1>1, <1>4, <2>1 DEF Counting
<1> QED BY <1>1, <1>4, <1>5, <1>6, StepOwn

(* What a worker knows where it goes it has learnt there, or knew before.  *)
Signing == {"openResp", "writeId", "serve"}
Leaving == {"clamp", "clampStore", "check", "signal", "load", "store"}
LEMMA WorkerAgrees ==
  ASSUME Inv, OwnInv, NEW w \in Workers, NEW from, NEW to, WorkerGoto(w, from, to),
         UNCHANGED <<at, quitSent>>, Handled' = Handled,
         \A c \in Clients : received[c] # <<>> => received'[c] # <<>>,
         \A v \in Workers : v # w => sess'[v] = sess[v],
         to \in Signing => sess'[w] = sess[w] /\ (from \in Signing \/ Session(w) \in Clients),
         to \in Leaving => from \in Leaving
  PROVE  SidesAgree'
<1>1. /\ wpc[w] = from /\ wpc'[w] = to
      /\ \A v \in Workers : v # w => wpc'[v] = wpc[v]
  BY DEF WorkerGoto, Inv, TypeOK
<1>2. /\ \A c \in Clients : quitSent'[c] => at'[c] \in {"closed", "gone"}
      /\ \A c \in Clients : at'[c] = "connected" => received'[c] # <<>>
  BY DEF OwnInv, SidesAgree
<1>3. \A v \in Workers : wpc'[v] \in Signing => Session(v)' \in Clients
  BY <1>1 DEF OwnInv, SidesAgree, Session, Signing
<1>4. \A v \in Workers : wpc'[v] \in Leaving => Handled' # {}
  BY <1>1 DEF OwnInv, SidesAgree, Leaving
<1> QED BY <1>2, <1>3, <1>4 DEF SidesAgree, Signing, Leaving

(* The steps of a worker that neither answer a client nor end its session. *)
LEMMA WorkerStillOwn ==
  ASSUME Inv, OwnInv, NEW w \in Workers,
         \/ WorkerWait(w) \/ WorkerWake(w) \/ WorkerTake(w)
         \/ WorkerFrontLoad(w) \/ WorkerFrontStore(w)
         \/ WorkerCountLoad(w) \/ WorkerCountStore(w)
         \/ WorkerOpenReq(w) \/ WorkerOpenResp(w)
         \/ WorkerClamp(w) \/ WorkerClampStore(w)
         \/ WorkerCheck(w) \/ WorkerLoad(w) \/ WorkerStore(w)
         \/ WorkerSpurious(w)
  PROVE  OwnInv'
<1>1. /\ UNCHANGED <<serverPipe, at, received, quitSent, sessionIDs, pc, new, tmp, cursor, data,
                     noneFree>>
      /\ sess' = sess \/ (WorkerTake(w) /\ sess' = [sess EXCEPT ![w] = data[front]])
      /\ active_clients' = active_clients \/ wpc[w] \in {"clampStore", "store"}
  BY DEF WorkerWait, WorkerWake, WorkerTake, WorkerFrontLoad, WorkerFrontStore,
         WorkerCountLoad, WorkerCountStore, WorkerOpenReq, WorkerOpenResp, WorkerOpen,
         WorkerClamp, WorkerClampStore, WorkerCheck, WorkerLoad, WorkerStore, WorkerSpurious,
         WorkerGoto, OnlyWorker, clientVars, mainVars, bufVars, endVars
<1>2. \E from, to :
        /\ WorkerGoto(w, from, to)
        /\ to \in Signing => ~ WorkerTake(w) /\ (from \in Signing \/ Session(w) \in Clients)
        /\ to \in Leaving => from \in Leaving
  <2>1. CASE WorkerOpenReq(w) \/ WorkerOpenResp(w)
    <3>1. PICK from, to :
            WorkerGoto(w, from, to) /\ to \notin Leaving
              /\ (to \in Signing => Session(w) \in Clients)
      BY <2>1 DEF WorkerOpenReq, WorkerOpenResp, WorkerOpen, Missing, Signing, Leaving
    <3>2. ~ WorkerTake(w)
      BY <2>1 DEF WorkerTake, WorkerOpenReq, WorkerOpenResp, WorkerOpen, WorkerGoto
    <3> QED BY <3>1, <3>2
  <2>2. CASE \/ WorkerWait(w) \/ WorkerWake(w) \/ WorkerTake(w)
             \/ WorkerFrontLoad(w) \/ WorkerFrontStore(w)
             \/ WorkerCountLoad(w) \/ WorkerCountStore(w) \/ WorkerSpurious(w)
    BY <2>2 DEF WorkerWait, WorkerWake, WorkerTake, WorkerFrontLoad, WorkerFrontStore,
         WorkerCountLoad, WorkerCountStore, WorkerSpurious, Signing, Leaving
  <2>3. CASE \/ WorkerClamp(w) \/ WorkerClampStore(w)
             \/ WorkerCheck(w) \/ WorkerLoad(w) \/ WorkerStore(w)
    BY <2>3 DEF WorkerClamp, WorkerClampStore, WorkerCheck, WorkerLoad, WorkerStore,
         Signing, Leaving
  <2> QED BY <2>1, <2>2, <2>3
<1>3. \A v \in Workers : sess'[v] = sess[v] \/ (v = w /\ WorkerTake(w) /\ sess'[v] = data[front])
  BY <1>1 DEF Inv, TypeOK
<1>4. StandsStill
  <2>1. \A c \in Clients : InLine(c)' <=> InLine(c)
    BY <1>1 DEF InLine
  <2>2. \A c \in Clients, i \in Ids : GivenTo(c, i)' => GivenTo(c, i)
    <3>1. front \in Ids
      BY DEF Inv, TypeOK
    <3> QED BY <1>1, <1>3, <3>1 DEF GivenTo
  <2> QED BY <1>1, <2>1, <2>2 DEF StandsStill
<1>5. /\ IdsGiven => IdsGiven'
      /\ InOrder' /\ Asked' = Asked
      /\ Handled' = Handled /\ Marked' = Marked /\ Served' = Served
  BY <1>4, StillOwn
<1>6. SidesAgree'
  <2>1. PICK from, to :
          /\ WorkerGoto(w, from, to)
          /\ to \in Signing => ~ WorkerTake(w) /\ (from \in Signing \/ Session(w) \in Clients)
          /\ to \in Leaving => from \in Leaving
    BY <1>2
  <2>2. \A v \in Workers : v # w => sess'[v] = sess[v]
    BY <1>3
  <2>3. to \in Signing => sess'[w] = sess[w]
    BY <1>3, <2>1
  <2> QED BY <1>1, <1>5, <2>1, <2>2, <2>3, WorkerAgrees
<1>7. Counting => Counting'
  <2>1. wpc[w] \in {"clampStore", "store"} => Handled # {}
    BY DEF OwnInv, SidesAgree
  <2> QED BY <1>1, <1>5, <2>1, SameCounts
<1>8. spurious' = 0 => spurious = 0
  BY SpuriousGrows DEF Next, Worker
<1> QED BY <1>1, <1>5, <1>6, <1>7, <1>8, StepOwn

(* A sequence that something was appended to is not empty.                *)
LEMMA AppendNotEmpty ==
  ASSUME NEW S, NEW q \in Seq(S), NEW x \in S
  PROVE  Append(q, x) # <<>>
<1>1. Len(Append(q, x)) = Len(q) + 1
  OBVIOUS
<1>2. Len(q) \in Nat
  OBVIOUS
<1>3. Len(<<>>) = 0
  OBVIOUS
<1> QED BY <1>1, <1>2, <1>3

(* The worker writes the id to its client, or dies of it.                  *)
LEMMA WriteIdOwn ==
  ASSUME Inv, OwnInv, NEW w \in Workers, WorkerWriteId(w)
  PROVE  OwnInv'
<1> DEFINE c == Session(w)
<1>1. /\ UNCHANGED <<serverPipe, at, quitSent, sessionIDs, pc, new, tmp, cursor, data,
                     active_clients, sess, noneFree, spurious>>
      /\ wpc[w] = "writeId"
      /\ \/ UNCHANGED <<received, wpc>>
         \/ /\ WorkerGoto(w, "writeId", "serve")
            /\ received' = [received EXCEPT ![c] = Append(@, sess[w].id)]
  BY DEF WorkerWriteId, WorkerGoto, clientVars, mainVars, bufVars, workerVars, endVars
<1>2. c \in Clients /\ received \in [Clients -> Seq(Ids)]
  BY <1>1 DEF OwnInv, SidesAgree, Inv, TypeOK
<1>3. sess[w].client = c /\ sess[w].id \in Ids
  BY DEF Session, Inv, TypeOK, Sessions
<1> HIDE DEF c
<1>4. \A d \in Clients :
        \/ received'[d] = received[d]
        \/ d = c /\ received'[d] = Append(received[d], sess[w].id)
  BY <1>1, <1>2
<1>5. \A d \in Clients : \A k \in 1 .. Len(received'[d]) :
        \/ k \in 1 .. Len(received[d]) /\ received'[d][k] = received[d][k]
        \/ d = c /\ received'[d][k] = sess[w].id
  <2> SUFFICES ASSUME NEW d \in Clients, NEW k \in 1 .. Len(received'[d])
               PROVE  \/ k \in 1 .. Len(received[d]) /\ received'[d][k] = received[d][k]
                      \/ d = c /\ received'[d][k] = sess[w].id
    OBVIOUS
  <2>1. CASE received'[d] = received[d]
    BY <2>1
  <2>2. CASE d = c /\ received'[d] = Append(received[d], sess[w].id)
    <3> DEFINE s == received[d]
               i == sess[w].id
    <3>1. s \in Seq(Ids) /\ i \in Ids
      BY <1>2, <1>3
    <3> HIDE DEF s, i
    <3>2. /\ Len(Append(s, i)) = Len(s) + 1 /\ Append(s, i)[Len(s) + 1] = i /\ Len(s) \in Nat
          /\ \A j \in 1 .. Len(s) : Append(s, i)[j] = s[j]
      BY <3>1
    <3>3. k \in 1 .. Len(s) \/ k = Len(s) + 1
      BY <2>2, <3>2 DEF s, i
    <3> QED BY <2>2, <3>2, <3>3 DEF s, i
  <2> QED BY <1>4, <2>1, <2>2
<1>6. /\ Handled' = Handled /\ Marked' = Marked /\ Served' = Served /\ Asked' = Asked
      /\ \A d \in Clients : InLine(d)' <=> InLine(d)
  BY <1>1 DEF Handled, Marked, Served, Asked, InLine
<1>7. \A d \in Clients, i \in Ids : GivenTo(d, i)' => GivenTo(d, i)
  BY <1>1, <1>3, <1>5 DEF GivenTo
<1>8. IdsGiven => IdsGiven'
  BY <1>6, <1>7, SameHolders
<1>9. InOrder'
  BY <1>1 DEF OwnInv, InOrder
<1>10. SidesAgree'
  <2>1. CASE UNCHANGED <<received, wpc>>
    BY <1>1, <1>6, <2>1 DEF OwnInv, SidesAgree, Session
  <2>2. CASE WorkerGoto(w, "writeId", "serve")
    <3>1. \A d \in Clients : received[d] # <<>> => received'[d] # <<>>
      <4> SUFFICES ASSUME NEW d \in Clients, received[d] # <<>> PROVE received'[d] # <<>>
        OBVIOUS
      <4>1. CASE received'[d] = Append(received[d], sess[w].id)
        <5>1. received[d] \in Seq(Ids)
          BY <1>2
        <5>2. Append(received[d], sess[w].id) # <<>>
          BY <1>3, <5>1, AppendNotEmpty
        <5> QED BY <4>1, <5>2
      <4> QED BY <1>4, <4>1
    <3>2. "writeId" \in Signing /\ "serve" \notin Leaving
      BY DEF Signing, Leaving
    <3> QED BY <1>1, <1>6, <2>2, <3>1, <3>2, WorkerAgrees
  <2> QED BY <1>1, <2>1, <2>2
<1>11. Counting => Counting'
  BY <1>1, <1>6, SameCounts
<1> QED BY <1>1, <1>6, <1>8, <1>9, <1>10, <1>11, StepOwn

(* The worker reads the quit of its client, whose id is given back.        *)
LEMMA QuitOwn ==
  ASSUME Inv, OwnInv, NEW w \in Workers, WorkerQuit(w)
  PROVE  OwnInv'
<1> DEFINE c == Session(w)
           id == sess[w].id
<1>1. /\ wpc[w] = "serve" /\ wpc' = [wpc EXCEPT ![w] = "clamp"]
      /\ quitSent[c] /\ quitSent' = [quitSent EXCEPT ![c] = FALSE]
      /\ sessionIDs' = [sessionIDs EXCEPT ![id] = 0]
      /\ UNCHANGED <<serverPipe, at, received, pc, new, tmp, cursor, active_clients, data, sess,
                     noneFree, spurious>>
  BY DEF WorkerQuit, WorkerGoto, mainVars, bufVars, endVars
<1>2. /\ c \in Clients /\ id \in Ids /\ sess[w].client = c
      /\ quitSent \in [Clients -> BOOLEAN] /\ wpc \in [Workers -> WorkerLabels]
      /\ sessionIDs \in [Ids -> {0, 1}]
  BY <1>1 DEF OwnInv, SidesAgree, Inv, TypeOK, Sessions, Session
<1>3. GivenTo(c, id)
  BY <1>2 DEF GivenTo
<1> HIDE DEF c, id
<1>4. c \notin Handled /\ at[c] \in {"closed", "gone"} /\ (IdsGiven => id \in Marked)
  BY <1>1, <1>2, <1>3 DEF OwnInv, SidesAgree, IdsGiven, Handled
<1>5. Handled' = Handled \cup {c} /\ Marked' = Marked \ {id}
  <2>1. Handled' = Handled \cup {c}
    BY <1>1, <1>2, <1>4 DEF Handled
  <2>2. Marked' = Marked \ {id}
    BY <1>1, <1>2 DEF Marked
  <2> QED BY <2>1, <2>2
<1>6. Served' = Served /\ Asked' = Asked /\ \A d \in Clients : InLine(d)' <=> InLine(d)
  BY <1>1 DEF Served, Asked, InLine
<1>7. \A d \in Clients, i \in Ids : GivenTo(d, i)' <=> GivenTo(d, i)
  BY <1>1 DEF GivenTo
<1>8. ASSUME IdsGiven
      PROVE  IdsGiven'
  <2>1. \A d \in Clients, i \in Ids : GivenTo(d, i)' => ~ InLine(d)'
    BY <1>6, <1>7, <1>8 DEF IdsGiven
  <2>2. \A d \in Clients, i, j \in Ids : GivenTo(d, i)' /\ GivenTo(d, j)' => i = j
    BY <1>7, <1>8 DEF IdsGiven
  <2>3. \A d, e \in Clients \ Handled', i \in Ids : GivenTo(d, i)' /\ GivenTo(e, i)' => d = e
    BY <1>5, <1>7, <1>8 DEF IdsGiven
  <2>4. \A d \in Clients \ Handled', i \in Ids : GivenTo(d, i)' => i \in Marked'
    <3> SUFFICES ASSUME NEW d \in Clients \ Handled', NEW i \in Ids, GivenTo(d, i)'
                 PROVE  i \in Marked'
      OBVIOUS
    <3>1. d \in Clients \ Handled /\ d # c /\ GivenTo(d, i)
      BY <1>5, <1>7
    <3>2. i \in Marked /\ i # id
      BY <1>2, <1>3, <1>4, <1>8, <3>1 DEF IdsGiven
    <3> QED BY <1>5, <3>2
  <2> QED BY <2>1, <2>2, <2>3, <2>4 DEF IdsGiven
<1>9. InOrder'
  BY <1>1 DEF OwnInv, InOrder
<1>10. SidesAgree'
  <2>1. \A d \in Clients : quitSent'[d] => at'[d] \in {"closed", "gone"}
    BY <1>1, <1>2 DEF OwnInv, SidesAgree
  <2>2. \A v \in Workers : v # w => wpc'[v] = wpc[v]
    BY <1>1, <1>2
  <2>3. wpc'[w] = "clamp" /\ Handled' # {}
    BY <1>1, <1>2, <1>5
  <2>4. \A v \in Workers : wpc'[v] \in {"openResp", "writeId", "serve"} => Session(v)' \in Clients
    BY <1>1, <2>2, <2>3 DEF OwnInv, SidesAgree, Session
  <2> QED BY <1>1, <2>1, <2>3, <2>4 DEF OwnInv, SidesAgree
<1>11. ASSUME IdsGiven, Counting
       PROVE  Counting'
  <2>1. /\ Cardinality(Handled') = Cardinality(Handled) + 1
        /\ Cardinality(Marked') = Cardinality(Marked) - 1
    BY <1>4, <1>5, <1>11, CountsAreNumbers, FS_AddElement, FS_RemoveElement
  <2>2. Cardinality(Marked') + Cardinality(Handled') <= Cardinality(Served')
    <3>1. Cardinality(Marked) + Cardinality(Handled) <= Cardinality(Served)
      BY <1>11 DEF Counting
    <3> QED BY <1>6, <2>1, <3>1, CountsAreNumbers
  <2>3. Handled' # {}
    BY <1>5
  <2>4. pc' = "scan" /\ Cardinality(Served') <= N =>
          \E i \in cursor' .. (N - 1) : i \notin Marked'
    BY <1>1, <1>5, <1>6, <1>11 DEF Counting
  <2> QED BY <2>2, <2>3, <2>4 DEF Counting
<1> QED BY <1>1, <1>5, <1>6, <1>8, <1>9, <1>10, <1>11, StepOwn

(* The worker tells the main thread that there is room.                    *)
LEMMA RoomOwn ==
  ASSUME Inv, OwnInv, NEW w \in Workers, WorkerSignal(w)
  PROVE  OwnInv'
<1>1. /\ WorkerGoto(w, "signal", "load") /\ wpc[w] = "signal"
      /\ UNCHANGED <<serverPipe, at, received, quitSent, sessionIDs, new, tmp, cursor, data,
                     active_clients, sess, noneFree, spurious>>
      /\ pc' = (IF pc = "waiting" THEN "enter" ELSE pc)
  BY DEF WorkerSignal, WorkerGoto, clientVars, bufVars, endVars
<1>2. StandsStill
  <2>1. pc' \in InHand <=> pc \in InHand
    BY <1>1 DEF InHand
  <2>2. \A c \in Clients : InLine(c)' <=> InLine(c)
    BY <1>1, <2>1 DEF InLine
  <2>3. \A c \in Clients, i \in Ids : GivenTo(c, i)' => GivenTo(c, i)
    BY <1>1 DEF GivenTo
  <2> QED BY <1>1, <2>1, <2>2, <2>3 DEF StandsStill
<1>3. /\ IdsGiven => IdsGiven'
      /\ InOrder' /\ Asked' = Asked
      /\ Handled' = Handled /\ Marked' = Marked /\ Served' = Served
  BY <1>2, StillOwn
<1>4. SidesAgree'
  <2>1. "load" \notin Signing /\ "signal" \in Leaving
    BY DEF Signing, Leaving
  <2> QED BY <1>1, <1>3, <2>1, WorkerAgrees
<1>5. Handled # {}
  BY <1>1 DEF OwnInv, SidesAgree
<1>6. Counting => Counting'
  BY <1>1, <1>3, <1>5 DEF Counting
<1> QED BY <1>1, <1>3, <1>4, <1>6, StepOwn

(* Every step keeps the invariant.                                         *)
LEMMA NextOwnInv ==
  ASSUME Inv, OwnInv, [Next]_vars
  PROVE  OwnInv'
<1>1. ASSUME NEW c \in Clients, Client(c)
      PROVE  OwnInv'
  BY <1>1, ClientOwn
<1>2. CASE MainSteps \/ MainSpurious
  BY <1>2, ReadOwn, BeforeScanOwn, ScanOwn, AfterScanOwn DEF MainSteps
<1>3. ASSUME NEW w \in Workers, Worker(w) \/ WorkerSpurious(w)
      PROVE  OwnInv'
  BY <1>3, WorkerStillOwn, WriteIdOwn, QuitOwn, RoomOwn DEF Worker
<1>4. CASE UNCHANGED vars
  <2>1. UNCHANGED <<serverPipe, at, received, quitSent, sessionIDs, pc, new, tmp, cursor, data,
                    active_clients, sess, wpc, noneFree, spurious>>
    BY <1>4 DEF vars, clientVars, mainVars, bufVars, workerVars, endVars
  <2>2. StandsStill
    <3>1. \A c \in Clients : InLine(c)' <=> InLine(c)
      BY <2>1 DEF InLine
    <3>2. \A c \in Clients, i \in Ids : GivenTo(c, i)' => GivenTo(c, i)
      BY <2>1 DEF GivenTo
    <3> QED BY <2>1, <3>1, <3>2 DEF StandsStill
  <2>3. /\ IdsGiven => IdsGiven'
        /\ InOrder' /\ Asked' = Asked
        /\ Handled' = Handled /\ Marked' = Marked /\ Served' = Served
    BY <2>2, StillOwn
  <2>4. SidesAgree'
    BY <2>1, <2>3 DEF OwnInv, SidesAgree, Session
  <2>5. Counting => Counting'
    BY <2>1, <2>3, SameCounts
  <2> QED BY <2>1, <2>3, <2>4, <2>5, StepOwn
<1> QED BY <1>1, <1>2, <1>3, <1>4 DEF Next

(* The id of a connected client is its own and stays marked until it quits *)
(* (server/main.c:245-258, 323-341), for any number of workers and clients *)
(* and however the threads are woken, until a scan finds no id free; while *)
(* no thread wakes without a signal that needs a client that has quit and  *)
(* two clients more than the limit.                                        *)
THEOREM IdsAreOwn == Spec => []OwnIds
<1>1. Init => OwnInv
  BY InitOwnInv
<1>2. Inv /\ OwnInv /\ [Next]_vars => OwnInv'
  BY NextOwnInv
<1>3. ASSUME Inv, OwnInv
      PROVE  OwnIds
  <2>1. \A c \in Connected : /\ c \in Clients \ Handled /\ IdOf(c) \in Ids
                             /\ GivenTo(c, IdOf(c))
    <3> SUFFICES ASSUME NEW c \in Connected
                 PROVE  /\ c \in Clients \ Handled /\ IdOf(c) \in Ids
                        /\ GivenTo(c, IdOf(c))
      OBVIOUS
    <3>1. c \in Clients /\ at[c] = "connected"
      BY DEF Connected
    <3>2. received[c] # <<>> /\ received[c] \in Seq(Ids)
      BY <1>3, <3>1 DEF OwnInv, SidesAgree, Inv, TypeOK
    <3>3. 1 \in 1 .. Len(received[c]) /\ received[c][1] \in Ids
      BY <3>2
    <3> QED BY <3>1, <3>3 DEF Handled, IdOf, GivenTo
  <2>2. \A i \in Marked : sessionIDs[i] = 1
    BY DEF Marked
  <2>3. ~ noneFree => \A c \in Connected : sessionIDs[IdOf(c)] = 1
    BY <1>3, <2>1, <2>2 DEF OwnInv, IdsGiven
  <2>4. ~ noneFree => \A c, d \in Connected : IdOf(c) = IdOf(d) => c = d
    BY <1>3, <2>1 DEF OwnInv, IdsGiven
  <2>5. noneFree /\ spurious = 0 => Handled # {} /\ Cardinality(Asked) >= N + 2
    BY <1>3 DEF OwnInv, PastLimit
  <2> QED BY <2>3, <2>4, <2>5 DEF OwnIds
<1>4. Inv /\ OwnInv => OwnIds
  BY <1>3
<1> QED BY <1>1, <1>2, <1>4, Invariance, PTL DEF Spec
=============================================================================
