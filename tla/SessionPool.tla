---------------------------- MODULE SessionPool ----------------------------
(***************************************************************************)
(* How the server admits clients (server/main.c): the main thread reads    *)
(* setup requests, gives each client a session id and puts it in a ring    *)
(* buffer; the worker threads wait on a condition variable, take sessions  *)
(* from the buffer, and serve a client until it quits.  client/api.c       *)
(* supplies the clients' side of the pipes.                                *)
(*                                                                         *)
(* session_mutex is held by the main thread from its label "clamp" to the  *)
(* signal; a worker holds it only to start and to end a wait, so it needs  *)
(* no variable.  server_mutex is locked by the main thread alone and       *)
(* orders nothing.  The workers touch the buffer, active_clients and       *)
(* sessionIDs outside any lock: a load and the store that depends on it    *)
(* are two steps.                                                          *)
(***************************************************************************)
EXTENDS Integers, Sequences, FiniteSets

CONSTANTS Clients, Workers,
          NoClient,              \* the contents of a slot never written
          MaxSpurious            \* bound on wakeups without a signal

ASSUME SessionPoolAssumption ==
  /\ IsFiniteSet(Workers) /\ Workers # {}
  /\ NoClient \notin Clients
  /\ MaxSpurious \in Nat

(* MAX_SESSION_COUNT: workers, slots of the buffer and session ids.        *)
N == Cardinality(Workers)
Ids == 0 .. (N - 1)

NoSession == [client |-> NoClient, id |-> 0]

VARIABLES
  serverPipe,            \* the setup requests not yet read
  at, received,          \* per client: its place, the ids in its response pipe
  quitSent,              \* per client: "2" is in its request pipe
  pc, new, tmp, cursor,  \* main: place, new_session, a loaded value, loop index
  active_clients, sessionIDs,
  data, front, rear, count,          \* sessionBuffer
  wpc, sess, wtmp,       \* per worker: place, currentSession, a loaded value
  killed,                \* SIGPIPE ended the server
  spurious,              \* wakeups without a signal so far
  noneFree               \* a scan for an id has found none; for the properties

clientVars == <<serverPipe, at, received, quitSent>>
mainVars   == <<pc, new, tmp, cursor>>
bufVars    == <<data, front, rear, count>>
workerVars == <<wpc, sess, wtmp>>
endVars    == <<killed, spurious, noneFree>>
vars == <<clientVars, mainVars, active_clients, sessionIDs, bufVars,
          workerVars, endVars>>

-----------------------------------------------------------------------------
Init ==
  /\ serverPipe = <<>>
  /\ at = [c \in Clients |-> "start"]
  /\ received = [c \in Clients |-> <<>>]
  /\ quitSent = [c \in Clients |-> FALSE]
  /\ pc = "read" /\ new = NoSession /\ tmp = 0 /\ cursor = 0
  /\ active_clients = 0
  /\ sessionIDs = [i \in Ids |-> 0]
  /\ data = [i \in Ids |-> NoSession]
  /\ front = 0 /\ rear = -1 /\ count = 0
  /\ wpc = [w \in Workers |-> "start"]
  /\ sess = [w \in Workers |-> NoSession]
  /\ wtmp = [w \in Workers |-> 0]
  /\ killed = FALSE /\ spurious = 0 /\ noneFree = FALSE

(* The next slot of the ring.  Faulty variant: it does not wrap round.     *)
NoWrap(i) == i + 1
NextSlot(i) == (i + 1) % N

(* isBufferFull.  Faulty variant: full one slot early.                     *)
FullEarly == count >= N - 1
IsFull == count = N

(* session_mutex is free for the workers.                                  *)
MainInside == pc \in {"clamp", "clampStore", "load", "store", "scan",
                      "enqueue", "countLoad", "countStore", "signal"}

-----------------------------------------------------------------------------
(* The client.  Its FIFOs exist from the request to the unlink.            *)
Exists(c) == at[c] \in {"openReq", "openResp", "readId", "connected",
                        "closed", "abandoned"}
Writing == {"openReq", "openResp", "readId", "connected"}
Reading == {"openResp", "readId", "connected"}

ClientGoto(c, label) == at' = [at EXCEPT ![c] = label]
ServerSame == UNCHANGED <<mainVars, active_clients, sessionIDs, bufVars,
                          workerVars, endVars>>

(* mkfifo twice, then the setup request into the server's pipe.            *)
Request(c) ==
  /\ at[c] = "start"
  /\ ClientGoto(c, "openReq")
  /\ serverPipe' = Append(serverPipe, c)
  /\ UNCHANGED <<received, quitSent>> /\ ServerSame

(* An open of a FIFO waits for the other end.                              *)
ServedAt(c, labels) == \E w \in Workers : sess[w].client = c /\ wpc[w] \in labels

ClientOpenReq(c) ==
  /\ at[c] = "openReq"
  /\ ServedAt(c, {"openReq", "openResp", "writeId", "serve"})
  /\ ClientGoto(c, "openResp")
  /\ UNCHANGED <<serverPipe, received, quitSent>> /\ ServerSame

ClientOpenResp(c) ==
  /\ at[c] = "openResp"
  /\ ServedAt(c, {"openResp", "writeId", "serve"})
  /\ ClientGoto(c, "readId")
  /\ UNCHANGED <<serverPipe, received, quitSent>> /\ ServerSame

ReadId(c) ==
  /\ at[c] = "readId" /\ received[c] # <<>>
  /\ ClientGoto(c, "connected")
  /\ UNCHANGED <<serverPipe, received, quitSent>> /\ ServerSame

(* ems_quit writes "2" and closes both pipes, then unlinks them.           *)
Quit(c) ==
  /\ at[c] = "connected"
  /\ quitSent' = [quitSent EXCEPT ![c] = TRUE]
  /\ ClientGoto(c, "closed")
  /\ UNCHANGED <<serverPipe, received>> /\ ServerSame

Unlink(c) ==
  /\ at[c] = "closed"
  /\ ClientGoto(c, "gone")
  /\ UNCHANGED <<serverPipe, received, quitSent>> /\ ServerSame

(* client/main.c returns without ems_quit when its job file is no good.    *)
Abandon(c) ==
  /\ at[c] = "connected"
  /\ ClientGoto(c, "abandoned")
  /\ UNCHANGED <<serverPipe, received, quitSent>> /\ ServerSame

-----------------------------------------------------------------------------
(* The main thread.                                                        *)
MainGoto(label) == ~ killed /\ pc' = label

MainRead ==
  /\ pc = "read" /\ serverPipe # <<>>
  /\ MainGoto("check")
  /\ new' = [new EXCEPT !.client = Head(serverPipe)]
  /\ serverPipe' = Tail(serverPipe)
  /\ UNCHANGED <<at, received, quitSent, tmp, cursor, active_clients,
                 sessionIDs, bufVars, workerVars, endVars>>

(* At the limit the main thread waits for a quit, without a loop.          *)
MainCheck ==
  /\ pc = "check"
  /\ MainGoto(IF active_clients = N THEN "beforeWait" ELSE "enter")
  /\ UNCHANGED <<clientVars, new, tmp, cursor, active_clients, sessionIDs,
                 bufVars, workerVars, endVars>>

MainWait ==
  /\ pc = "beforeWait"
  /\ MainGoto("waiting")
  /\ UNCHANGED <<clientVars, new, tmp, cursor, active_clients, sessionIDs,
                 bufVars, workerVars, endVars>>

MainSpurious ==
  /\ pc = "waiting" /\ spurious < MaxSpurious
  /\ MainGoto("enter")
  /\ spurious' = spurious + 1
  /\ UNCHANGED <<clientVars, new, tmp, cursor, active_clients, sessionIDs,
                 bufVars, workerVars, killed, noneFree>>

(* session_mutex: no worker holds it across a step.                        *)
MainEnter ==
  /\ pc = "enter"
  /\ MainGoto("clamp")
  /\ UNCHANGED <<clientVars, new, tmp, cursor, active_clients, sessionIDs,
                 bufVars, workerVars, endVars>>

(* Faulty variant: no clamp before the increment.                          *)
MainNoClamp ==
  /\ pc = "clamp"
  /\ MainGoto("load")
  /\ UNCHANGED <<clientVars, new, tmp, cursor, active_clients, sessionIDs,
                 bufVars, workerVars, endVars>>

MainClamp ==
  /\ pc = "clamp"
  /\ MainGoto(IF active_clients > N THEN "clampStore" ELSE "load")
  /\ UNCHANGED <<clientVars, new, tmp, cursor, active_clients, sessionIDs,
                 bufVars, workerVars, endVars>>

MainClampStore ==
  /\ pc = "clampStore"
  /\ MainGoto("load")
  /\ active_clients' = N
  /\ UNCHANGED <<clientVars, new, tmp, cursor, sessionIDs, bufVars,
                 workerVars, endVars>>

(* active_clients++ *)
MainLoad ==
  /\ pc = "load"
  /\ MainGoto("store")
  /\ tmp' = active_clients
  /\ UNCHANGED <<clientVars, new, cursor, active_clients, sessionIDs, bufVars,
                 workerVars, endVars>>

MainStore ==
  /\ pc = "store"
  /\ MainGoto("scan")
  /\ active_clients' = tmp + 1
  /\ cursor' = 0
  /\ UNCHANGED <<clientVars, new, tmp, sessionIDs, bufVars, workerVars, endVars>>

(* Faulty variant of the next action: the id it finds is not marked.       *)
MainScanNoMark ==
  /\ pc = "scan"
  /\ IF cursor < N /\ sessionIDs[cursor] # 0
     THEN cursor' = cursor + 1 /\ MainGoto("scan") /\ UNCHANGED new
     ELSE /\ new' = IF cursor < N THEN [new EXCEPT !.id = cursor] ELSE new
          /\ MainGoto("enqueue")
          /\ UNCHANGED cursor
  /\ UNCHANGED <<clientVars, tmp, active_clients, sessionIDs, bufVars,
                 workerVars, endVars>>

(* One turn of the search for a free id.  With none free the id left in    *)
(* new_session by the previous client stays.                               *)
MainScan ==
  /\ pc = "scan"
  /\ \/ /\ cursor < N /\ sessionIDs[cursor] = 0
        /\ new' = [new EXCEPT !.id = cursor]
        /\ sessionIDs' = [sessionIDs EXCEPT ![cursor] = 1]
        /\ MainGoto("enqueue")
        /\ UNCHANGED <<cursor, noneFree>>
     \/ /\ cursor < N /\ sessionIDs[cursor] # 0
        /\ cursor' = cursor + 1
        /\ MainGoto("scan")
        /\ UNCHANGED <<new, sessionIDs, noneFree>>
     \/ /\ cursor = N
        /\ MainGoto("enqueue")
        /\ noneFree' = TRUE
        /\ UNCHANGED <<new, sessionIDs, cursor>>
  /\ UNCHANGED <<clientVars, tmp, active_clients, bufVars, workerVars, killed,
                 spurious>>

(* enqueueSession; a full buffer drops the session without a word to main. *)
MainEnqueue ==
  /\ pc = "enqueue"
  /\ \/ IsFull /\ MainGoto("signal") /\ UNCHANGED <<rear, data>>
     \/ /\ ~ IsFull
        /\ rear' = NextSlot(rear)
        /\ data' = [data EXCEPT ![NextSlot(rear)] = new]
        /\ MainGoto("countLoad")
  /\ UNCHANGED <<clientVars, new, tmp, cursor, active_clients, sessionIDs,
                 front, count, workerVars, endVars>>

MainCountLoad ==
  /\ pc = "countLoad"
  /\ MainGoto("countStore")
  /\ tmp' = count
  /\ UNCHANGED <<clientVars, new, cursor, active_clients, sessionIDs, bufVars,
                 workerVars, endVars>>

MainCountStore ==
  /\ pc = "countStore"
  /\ MainGoto("signal")
  /\ count' = tmp + 1
  /\ UNCHANGED <<clientVars, new, tmp, cursor, active_clients, sessionIDs,
                 data, front, rear, workerVars, endVars>>

(* The signal wakes one waiting worker; with none waiting it is lost.      *)
Asleep == {w \in Workers : wpc[w] = "waiting"}
MainSignal ==
  /\ pc = "signal"
  /\ MainGoto("read")
  /\ \/ Asleep = {} /\ UNCHANGED wpc
     \/ \E w \in Asleep : wpc' = [wpc EXCEPT ![w] = "woken"]
  /\ UNCHANGED <<clientVars, new, tmp, cursor, active_clients, sessionIDs,
                 bufVars, sess, wtmp, endVars>>

-----------------------------------------------------------------------------
(* A worker thread.                                                        *)
WorkerGoto(w, from, to) ==
  /\ ~ killed
  /\ wpc[w] = from
  /\ wpc' = [wpc EXCEPT ![w] = to]
OnlyWorker(w) == UNCHANGED <<clientVars, mainVars, active_clients, sessionIDs,
                             bufVars, endVars>>

(* pthread_cond_wait, at every turn, whatever the buffer holds.            *)
WorkerWait(w) ==
  /\ ~ MainInside
  /\ WorkerGoto(w, "start", "waiting")
  /\ OnlyWorker(w) /\ UNCHANGED <<sess, wtmp>>

WorkerSpurious(w) ==
  /\ spurious < MaxSpurious
  /\ WorkerGoto(w, "waiting", "woken")
  /\ spurious' = spurious + 1
  /\ UNCHANGED <<clientVars, mainVars, active_clients, sessionIDs, bufVars,
                 sess, wtmp, killed, noneFree>>

WorkerWake(w) ==
  /\ ~ MainInside
  /\ WorkerGoto(w, "woken", "take")
  /\ OnlyWorker(w) /\ UNCHANGED <<sess, wtmp>>

(* Faulty variant of the next action: the front is moved before the copy.  *)
WorkerTakeNext(w) ==
  /\ WorkerGoto(w, "take", "frontLoad")
  /\ sess' = [sess EXCEPT ![w] = data[NextSlot(front)]]
  /\ OnlyWorker(w) /\ UNCHANGED wtmp

(* dequeueSession, after the mutex was released.                           *)
WorkerTake(w) ==
  /\ WorkerGoto(w, "take", "frontLoad")
  /\ sess' = [sess EXCEPT ![w] = data[front]]
  /\ OnlyWorker(w) /\ UNCHANGED wtmp

WorkerFrontLoad(w) ==
  /\ WorkerGoto(w, "frontLoad", "frontStore")
  /\ wtmp' = [wtmp EXCEPT ![w] = front]
  /\ OnlyWorker(w) /\ UNCHANGED sess

WorkerFrontStore(w) ==
  /\ WorkerGoto(w, "frontStore", "countLoad")
  /\ front' = NextSlot(wtmp[w])
  /\ UNCHANGED <<clientVars, mainVars, active_clients, sessionIDs, data, rear,
                 count, sess, wtmp, endVars>>

WorkerCountLoad(w) ==
  /\ WorkerGoto(w, "countLoad", "countStore")
  /\ wtmp' = [wtmp EXCEPT ![w] = count]
  /\ OnlyWorker(w) /\ UNCHANGED sess

WorkerCountStore(w) ==
  /\ WorkerGoto(w, "countStore", "openReq")
  /\ count' = wtmp[w] - 1
  /\ UNCHANGED <<clientVars, mainVars, active_clients, sessionIDs, data, front,
                 rear, sess, wtmp, endVars>>

(* An open finds the other end, or waits for ever for a client that has    *)
(* closed it, or ends the thread when the FIFOs are not there.  Without    *)
(* the first the second is opened still (server/main.c:109), which waits   *)
(* for ever if it was not removed yet: the worker is lost either way.      *)
Session(w) == sess[w].client
Missing(w) == Session(w) \notin {c \in Clients : Exists(c)}

WorkerOpen(w, from, to, otherEnd) ==
  /\ \/ WorkerGoto(w, from, "dead") /\ Missing(w)
     \/ /\ WorkerGoto(w, from, to)
        /\ ~ Missing(w) /\ at[Session(w)] \in otherEnd
     \/ /\ WorkerGoto(w, from, "stuck")
        /\ ~ Missing(w) /\ at[Session(w)] \in {"closed", "abandoned"}
  /\ OnlyWorker(w) /\ UNCHANGED <<sess, wtmp>>

WorkerOpenReq(w)  == WorkerOpen(w, "openReq", "openResp", Writing)
WorkerOpenResp(w) == WorkerOpen(w, "openResp", "writeId", Reading)

(* The session id; a write into a closed pipe raises SIGPIPE.              *)
WorkerWriteId(w) ==
  \/ /\ WorkerGoto(w, "writeId", "serve")
     /\ at[Session(w)] \in Reading
     /\ received' = [received EXCEPT ![Session(w)] = Append(@, sess[w].id)]
     /\ UNCHANGED <<serverPipe, at, quitSent, mainVars, active_clients,
                    sessionIDs, bufVars, sess, wtmp, endVars>>
  \/ /\ wpc[w] = "writeId" /\ ~ killed
     /\ at[Session(w)] \notin Reading
     /\ killed' = TRUE
     /\ UNCHANGED <<clientVars, mainVars, active_clients, sessionIDs, bufVars,
                    workerVars, spurious, noneFree>>

(* Faulty variant of the next action: the session id is not given back.    *)
WorkerQuitKeepsId(w) ==
  /\ WorkerGoto(w, "serve", "clamp")
  /\ quitSent[Session(w)]
  /\ quitSent' = [quitSent EXCEPT ![Session(w)] = FALSE]
  /\ UNCHANGED <<serverPipe, at, received, mainVars, active_clients,
                 sessionIDs, bufVars, sess, wtmp, endVars>>

(* The command '2' ends the session; without it the worker reads for ever. *)
WorkerQuit(w) ==
  /\ WorkerGoto(w, "serve", "clamp")
  /\ quitSent[Session(w)]
  /\ quitSent' = [quitSent EXCEPT ![Session(w)] = FALSE]
  /\ sessionIDs' = [sessionIDs EXCEPT ![sess[w].id] = 0]
  /\ UNCHANGED <<serverPipe, at, received, mainVars, active_clients, bufVars,
                 sess, wtmp, endVars>>

WorkerClamp(w) ==
  /\ \/ active_clients > N /\ WorkerGoto(w, "clamp", "clampStore")
     \/ active_clients <= N /\ WorkerGoto(w, "clamp", "check")
  /\ OnlyWorker(w) /\ UNCHANGED <<sess, wtmp>>

WorkerClampStore(w) ==
  /\ WorkerGoto(w, "clampStore", "check")
  /\ active_clients' = N
  /\ UNCHANGED <<clientVars, mainVars, sessionIDs, bufVars, sess, wtmp, endVars>>

WorkerCheck(w) ==
  /\ \/ active_clients = N /\ WorkerGoto(w, "check", "signal")
     \/ active_clients # N /\ WorkerGoto(w, "check", "load")
  /\ OnlyWorker(w) /\ UNCHANGED <<sess, wtmp>>

(* buffer_not_full is signalled without server_mutex.                      *)
WorkerSignal(w) ==
  /\ WorkerGoto(w, "signal", "load")
  /\ pc' = IF pc = "waiting" THEN "enter" ELSE pc
  /\ UNCHANGED <<clientVars, new, tmp, cursor, active_clients, sessionIDs,
                 bufVars, sess, wtmp, endVars>>

(* active_clients = active_clients - 1 *)
WorkerLoad(w) ==
  /\ WorkerGoto(w, "load", "store")
  /\ wtmp' = [wtmp EXCEPT ![w] = active_clients]
  /\ OnlyWorker(w) /\ UNCHANGED sess

WorkerStore(w) ==
  /\ WorkerGoto(w, "store", "start")
  /\ active_clients' = wtmp[w] - 1
  /\ UNCHANGED <<clientVars, mainVars, sessionIDs, bufVars, sess, wtmp, endVars>>

-----------------------------------------------------------------------------
Client(c) == \/ Request(c) \/ ClientOpenReq(c) \/ ClientOpenResp(c)
             \/ ReadId(c) \/ Quit(c) \/ Unlink(c) \/ Abandon(c)
MainSteps == \/ MainRead \/ MainCheck \/ MainWait \/ MainEnter \/ MainClamp
             \/ MainClampStore \/ MainLoad \/ MainStore \/ MainScan
             \/ MainEnqueue \/ MainCountLoad \/ MainCountStore \/ MainSignal
Worker(w) == \/ WorkerWait(w) \/ WorkerWake(w) \/ WorkerTake(w)
             \/ WorkerFrontLoad(w) \/ WorkerFrontStore(w)
             \/ WorkerCountLoad(w) \/ WorkerCountStore(w)
             \/ WorkerOpenReq(w) \/ WorkerOpenResp(w) \/ WorkerWriteId(w)
             \/ WorkerQuit(w) \/ WorkerClamp(w) \/ WorkerClampStore(w)
             \/ WorkerCheck(w) \/ WorkerSignal(w) \/ WorkerLoad(w)
             \/ WorkerStore(w)

Next == \/ \E c \in Clients : Client(c)
        \/ MainSteps \/ MainSpurious
        \/ \E w \in Workers : Worker(w) \/ WorkerSpurious(w)

Spec == Init /\ [][Next]_vars

(* The threads run, and a client that has asked goes on to its session id; *)
(* nobody needs to ask, to quit, or to wake without a signal.              *)
Fairness ==
  /\ \A c \in Clients : /\ WF_vars(ClientOpenReq(c) \/ ClientOpenResp(c) \/ ReadId(c))
                        /\ WF_vars(Unlink(c))
  /\ WF_vars(MainSteps)
  /\ \A w \in Workers : WF_vars(Worker(w))
FairSpec == Spec /\ Fairness

-----------------------------------------------------------------------------
Sessions == [client : Clients \cup {NoClient}, id : Ids]
ClientLabels == {"start", "openReq", "openResp", "readId", "connected",
                 "closed", "abandoned", "gone"}
MainLabels == {"read", "check", "beforeWait", "waiting", "enter", "clamp",
               "clampStore", "load", "store", "scan", "enqueue", "countLoad",
               "countStore", "signal"}
WorkerLabels == {"start", "waiting", "woken", "take", "frontLoad",
                 "frontStore", "countLoad", "countStore", "openReq",
                 "openResp", "writeId", "serve", "clamp", "clampStore",
                 "check", "signal", "load", "store", "dead", "stuck"}

(* Type invariant; front and rear stay inside the buffer.                  *)
TypeOK ==
  /\ serverPipe \in Seq(Clients)
  /\ at \in [Clients -> ClientLabels]
  /\ received \in [Clients -> Seq(Ids)]
  /\ quitSent \in [Clients -> BOOLEAN]
  /\ pc \in MainLabels /\ new \in Sessions /\ tmp \in Int /\ cursor \in 0 .. N
  /\ active_clients \in Int
  /\ sessionIDs \in [Ids -> {0, 1}]
  /\ data \in [Ids -> Sessions]
  /\ front \in Ids /\ rear \in Ids \cup {-1} /\ count \in Int
  /\ wpc \in [Workers -> WorkerLabels]
  /\ sess \in [Workers -> Sessions]
  /\ wtmp \in [Workers -> Int]
  /\ killed \in BOOLEAN /\ spurious \in 0 .. MaxSpurious
  /\ noneFree \in BOOLEAN

(* However the unlocked updates of active_clients race, and however many   *)
(* clients come, it never exceeds the limit by more than one: the clamps   *)
(* bound every value that is loaded before an increment.                   *)
ActiveBounded == active_clients <= N + 1

IdOf(c) == received[c][1]
Connected == {c \in Clients : at[c] = "connected"}
Asked == {c \in Clients : at[c] # "start"}
Handled == {c \in Clients : at[c] \in {"closed", "gone"} /\ ~ quitSent[c]}

(* The session id a connected client holds is its own and stays marked     *)
(* until it quits, unless a scan (server/main.c:346) has found no id free: *)
(* it then kept the id of the client before.  However many clients come,   *)
(* that does not happen before one of them has quit, and not to the first  *)
(* N + 1, as long as no thread wakes without a signal.                     *)
OwnIds ==
  /\ ~ noneFree => \A c \in Connected : sessionIDs[IdOf(c)] = 1
  /\ ~ noneFree => \A c, d \in Connected : IdOf(c) = IdOf(d) => c = d
  /\ noneFree /\ spurious = 0 => Handled # {} /\ Cardinality(Asked) >= N + 2

(* As long as no thread wakes without a signal, a worker never takes a     *)
(* slot that no client was put in.                                         *)
NoPhantom ==
  spurious = 0 =>
    \A w \in Workers : wpc[w] \in {"openReq", "openResp"} => Session(w) # NoClient

(* A client whose request is read while the buffer is empty, every worker  *)
(* waits and the limit is not reached is given a session.                  *)
AllFree == /\ pc = "check" /\ active_clients < N
           /\ count = 0 /\ front = NextSlot(rear)
           /\ \A w \in Workers : wpc[w] = "waiting"
ServedWhenFree ==
  \A c \in Clients :
    (AllFree /\ new.client = c) ~> (at[c] = "connected" \/ killed)

(* A client that quits frees its session id: the id is free at some later  *)
(* time, or the server was killed.                                         *)
QuitFreesId ==
  \A c \in Clients : \A i \in Ids :
    (quitSent[c] /\ IdOf(c) = i) ~> (sessionIDs[i] = 0 \/ killed)

(* A session put in the buffer is removed by the worker that takes it      *)
(* ("Function to remove a session from the buffer", server/main.c:72): no  *)
(* two workers hold the session of one client.                             *)
TakenOnce ==
  \A w, v \in Workers :
    Session(w) # NoClient /\ Session(w) = Session(v)
      /\ {wpc[w], wpc[v]} \cap {"start", "waiting", "woken", "take"} = {}
      => w = v

(* The id that the server sends is that of the client's session ("Send the *)
(* session_id back to the client", server/main.c:118): no two clients that *)
(* are connected were sent one.                                            *)
SentOwnId ==
  \A c, d \in Connected : IdOf(c) = IdOf(d) => c = d
=============================================================================
