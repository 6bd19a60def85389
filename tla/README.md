# A verification project for the IST Event Management System

The repository holds four programs that share one idea, a store of events with
numbered seats: three batch programs (`Exercicio1`, `Exercicio2`, `Exercicio3`)
that run the commands of `.jobs` files, and a client/server pair (`server/`,
`client/`) that talks through named pipes. This directory holds TLA+ models of
them, the TLC configurations that check the models on small instances, and
theorems that TLAPS proves for every value of the constants. `PROJECT.json`
relates every definition to the lines it models and lists the runs, the
hazards, the findings and the theorems.

## Inventory

| Component | Source | State | Operations | Hard parts |
|---|---|---|---|---|
| Event store of the server | `server/operations.c`, `server/eventlist.c` | list of events under a read-write lock; per event its seats and counter under a mutex | `ems_create`, `ems_reserve`, `ems_show`, `ems_list_events`, `ems_program_status` | eight workers and the main thread call it at once; the list is unlocked before the event is locked; two validating loops before the marks; the status report holds the list |
| Admission of clients | `server/main.c` | ring buffer of sessions, `active_clients`, `sessionIDs`, two condition variables | main loop, `enqueueSession`, `dequeueSession`, worker thread | waits without a predicate, dequeue outside the mutex, a count updated by everybody, FIFOs that vanish |
| Client API | `client/api.c` | two FIFOs, the session id | `ems_setup`, `ems_quit`, one call per command | answers of two writes read by two reads, fixed buffers |
| Client program | `client/main.c`, `client/parser.c` | a job file, an output file | the job loop | returns that skip `ems_quit` |
| Threads of Exercicio3 | `Exercicio3/p1_base/main.c` | one job file shared by the threads, one mutex, per-thread waits and results | `processFile`, the loop of `main` | BARRIER and WAIT across threads, mutex left locked on some commands |
| Event store of Exercicio3 | `Exercicio3/p1_base/operations.c` | list under one read-write lock, a mutex for seats, a mutex for output | the four commands | check under the read lock and again under the write lock, rollback of a failed reservation |
| Processes | `Exercicio2/p1_base/main.c`, `Exercicio3/p1_base/main.c` | number of children; in each child a position in its job file, a store, an output file | fork, wait, `processFile` | the limit MAX_PROC, all children awaited, a child ends at any time |
| Sequential store | `Exercicio1/p1_base/operations.c` (the same in `Exercicio2`) | list of events | the four commands | rollback of a failed reservation, buffers sized for short numbers |
| Parsers, number I/O | `*/parser.c`, `common/io.c` | the position in a file | `get_next`, `parse_*`, `cleanup`, `read_uint`, `parse_uint` | an error found after the end of the line, end of file in the middle of a command |
| Driver of Exercicio1 | `Exercicio1/p1_base/main.c` | the directory, the files of the job in hand | `main` | as a child of Exercicio2 |

What makes each correct. *Store*: a call takes effect at one instant, a seat is
given once, ids are unique, every call is answered. *Admission*: a client that
asks gets a session of its own, ids come back, the limit holds. *Threads*: every
command is run once, nothing crosses a barrier. *Processes*: never more than
MAX_PROC children and none left behind. *Job files*: every line is read as the
command it is, and the output is what the commands ask for in their order. *Client*: the answer printed is the
answer the server gave.

## Modules

| Module | What it is |
|---|---|
| `SeatGrid` | the seating plan: `seat_index`, the bounds test, the order of SHOW |
| `StoreInterface` | the calls of a store and their answers |
| `EventStore` | abstract: every call takes effect at one instant |
| `ServerStore` | the server's store, one action per lock operation and per seat; implements `EventStore` |
| `BatchStore` | the store of Exercicio3, with its rollback and its output lock; implements `EventStore` for all but SHOW |
| `SessionPool` | admission: main thread, workers, clients and their FIFOs |
| `ClientSession` | one client and its worker: requests and answers as streams in two pipes, with the buffers of both sides |
| `JobOrder` | abstract: commands start in file order, a bounded number at once, nothing across a BARRIER |
| `BatchThreads` | the threads of one job file and the loop that joins them; implements `JobOrder` |
| `ProcessPool` | the parent that forks a child for each job file |
| `JobParser` | the parser of the job files, over a sequence of characters |
| `JobGrammar` | abstract: what each line of a job file means, by the grammar that HELP prints |
| `SequentialStore` | the store of the programs without threads, as operators from list to list |
| `JobReference` | abstract: what the commands of a job file ask for, with seats given as a set |
| `JobProcesses` | `ProcessPool` with children that read real job files with `JobParser` and run them on a `SequentialStore`; compared with `JobGrammar` and `JobReference` |
| `MC...` | small instances for TLC: definitions that a .cfg gives to constants |
| `...Proofs` | theorems, one module for each module proved about (`JobProcessesProofs` also has those of `ProcessPool`) |
| `CommonProofs` | theorems that these use: of `SeatGrid`, and of natural numbers, partial sums and folds |

`PROJECT.json` gives, for every definition of these modules, the lines it
stands for. Every passing property also has a mutant there: a plausible bug in
one definition (often an operator whose comment says "faulty variant", kept next
to the definition it would replace) under which TLC finds the property violated.

### How state and actions correspond to the code

*ServerStore.* `list` is the linked list of `eventlist.c`: a sequence of records
with the fields of `struct Event`, `data` numbered from 0 as the array is, and
`mutex` holding the thread that has the event locked. `writer` and `readers` are
the list's `pthread_rwlock_t` (default attributes: readers are let in whenever no
writer holds it, and one thread may hold several read locks). `pc[t]` is where a
thread stands between two visible steps of the function it runs; `ev`, `rid`,
`cur` and `buf` are that function's locals (the event found, the reservation id,
the loop index, the ids copied so far). One action runs from one lock operation
to the next, except where a loop reads or writes seats one by one: there a turn
of the loop is an action, so that a missing lock would show. A loop that only
reads under a lock that excludes every writer is one action. `Invoke` and
`Return` are the worker's reading of a request and its writing of the answer.

*BatchStore.* The same shape over `Exercicio3/p1_base/operations.c`. `Lock`
guards short sections, each of which is one action, so it needs no variable;
`outputLock` and the events' mutexes are held across several and have one.
`stop` remembers at which seat a reservation failed, which is where the rollback
ends. `output` is the output file as a sequence of writes, each with the number
of the call that made it.

*SessionPool.* `at`, `received` and `quitSent` are the clients' side: which FIFOs
exist and who has them open follows from a client's place. `data`, `front`,
`rear` and `count` are `sessionBuffer`. Every `x++` or `x--` made outside a lock
is a load and a store, with the loaded value in `tmp` or `wtmp`.
`session_mutex` is held by the main thread over a stretch of labels
(`MainInside`), which is what the workers' waits test. A condition variable is
the set of threads at their label "waiting"; a signal wakes one of them or is
lost. A FIFO open waits for the other end, or fails when the client has removed
the FIFO; a write to a FIFO nobody reads kills the server. (The worker opens its
second FIFO even without the first, `server/main.c:109`; as it is lost either way, the
model does not tell how.) `spurious` counts the wakeups without a signal, and
`noneFree` remembers that a scan has found no id free; no guard reads
it, it is there for the properties.

*ClientSession.* `req` holds whole requests, `resp` the numbers of the answers,
each with the form it is written in (text, `int`, `size_t`, `unsigned`), from
which its bytes follow. `Send` is the write of a request, and the actions named
`...Read` are one `read` each, up to the size of the buffer there; what
is then decoded and returned is part of the same action. `Take` is the worker's read
and the call it makes of the store; `Write` is one `write` of the answer, of
which SHOW has two (`pieces`). The store is left open: a call gets any answer
the store can give. `told` remembers that answer, so that what
is printed can be compared with it, and `cut` remembers that a read has left part of an
answer in the pipe. After that the two sides are out of step, which the model
follows (answers taken for another call, two requests in one read of the worker,
a write to a client that has left), and of which nothing is claimed.

*BatchThreads.* `pos` is the next line of the file, `threadArray[t]` whether a
delay is waiting for thread t (index 0 is the flag of the barrier, as in the
code), `at[t]` the command that t is running outside `mutex`. `mutex` is held
from the top of the loop over the reading of a line; as all of that is one
action, the variable is only ever set by the commands that go round the loop
without unlocking it. A delay is one bit: its length is not told apart.

*ProcessPool.* `entries` is what `readdir` has still to return, `child[f]` the life of
the child of one file, `active_processes` the counter.

*JobParser.* Each function of `parser.c` is an operator of the file and of the
number of characters read, and returns the new number with the command. A
`read` of several characters takes them whatever they are, which is how a keyword
cut short takes the newline and part of the next line. `read_uint` is also
`parse_uint` of `common/io.c`. At the end of a file nothing ends the digits in
its buffer: what was there before is appended (`Stale`, chosen freely).

*SequentialStore and JobProcesses.* A child of `ProcessPool` has its job file
(`job`), the position in it (`at`), its list of events (`list`) and its output
(`out`, a line for each row of a SHOW and each event of a LIST); `begun` is
kept for the properties and says where each command began. A child shares
nothing with anybody, so that a command is one step (`Execute`): reading it,
running it, writing its output. A kill comes between two commands; output cut in
the middle of one is not told apart. `Finish` is the return of `processFile`,
`EndsEarly` a child that cannot open its files or that a signal ends.
`JobReference` never parses: a job file is a text and the table of its lines, with
the command that each means by `JobGrammar` (`LinesAssumption`, which TLC
evaluates for every file of the run). The grammar is stated without reading
anything: the marks of a line are what is no digit, its fields stand between
them, and a line is a command if it has the number of fields that HELP shows,
the marks shown between them, and values up to `UINT_MAX`. It has in common with
the parser the keywords and what a sequence of digits is worth. What HELP does
not say it takes from the code: a missing number is 0, an empty line and a `#`
ask for nothing, anything may follow the delay of a WAIT, and a RESERVE has fewer
than `MAX_RESERVATION_SIZE` seats.

*EventStore* keeps a catalog of events with an owner for each seat, a pending
call and an outcome for each thread. ServerStore maps onto it with a reservation
taking effect when it gets its number (a seat that is still to be marked counts
as owned); BatchStore with a reservation taking effect when its event is
unlocked (a seat that is being marked or undone counts as free). The two differ
in one more thing, the constant `Repeats`: the server accepts a request that
names a seat twice, Exercicio3 rejects it.

*JobOrder* has the next line and the set of lines being run. BatchThreads maps
onto it with the barrier being passed not when its line is read but when `main`
has joined all threads and resets the flag: until then `next` is the line of the
BARRIER, one before `pos`.

## Runs

| Run | Instance | What it shows |
|---|---|---|
| `store` | 2 workers, 3 calls, 2 ids, 2 status reports, one row of two seats, fair | lock discipline (`StoreInv`), unique ids, seats against the counter, nothing freed or moved, linearizability, with reports going on; every call is answered until a report is asked for, and a call that only reads the list always |
| `store_create` (violated) | 2 workers, 2 calls, 1 report, fair | a report over a non-empty list never gives its read lock back: no CREATE returns any more |
| `pool_safety` | 4 clients, 2 workers, a spurious wakeup | a connected client's id is its own and marked until a scan finds none free, which takes a quit and N + 2 clients; no worker takes a slot never filled; the racing count stays at most one above the limit; indices stay in range |
| `pool_ids` (violated) | 4 clients, 2 workers | the fourth client is let in while both ids are in use, and is sent that of the third |
| `pool_free` | 2 clients, 2 workers, fair | a client that comes to an idle server is served; a quit gives the id back |
| `pool_once` (violated) | 2 clients, 2 workers | two workers that dequeue together serve one client |
| `client` | 3 calls, plans of one and two seats, lists of up to 4 events, fair | both sides stay in step, what is printed is what the store answered to that call, calls return and a quit frees the worker, until an answer is too long for a read |
| `client_show` (violated) | 2 calls, the code's buffer sizes, fair | SHOW of a missing event, or one whose first read takes all, never returns |
| `batch` | 2 threads, 4 calls, 2 ids, fair | ids, rollback, committed seats, linearizability of CREATE, RESERVE and LIST, every call returns |
| `threads` | 2 threads, every file of at most 4 commands, fair | the results of a round agree, all is run at the end, `JobOrder` is implemented, delays are taken, the job ends |
| `threads_help` (violated) | HELP then a command, fair | HELP keeps the mutex: the job never ends |
| `jobs` | 3 job files, one other, limit 2, 386 directories, fair | limit, counter, all children awaited, the parent ends; only a malformed line takes others with it, at most two commands; the output is what the lines that were heeded ask for; the counter of an event and its seats agree |

### The bounds, and why they are enough

- `MaxCalls`: three in the server's store, a CREATE and two calls that overlap
  (two RESERVEs, a RESERVE and a SHOW, a CREATE and a LIST), while the main
  thread reports. Four in the store of Exercicio3: CREATE, then two RESERVEs that
  overlap while a third call looks. The theorems cover any number of either.
- `pipeBuffer` and `showBuffer` of run `client` are scaled down (26 and 24 bytes
  for 100 and 500) so that answers fall on both sides of the limit at sizes TLC
  can reach: a LIST of three events and a SHOW of one seat fit, a LIST of four and a
  SHOW of two do not; a SHOW of one seat just fits its first read when
  that one comes late and takes everything. With the code's sizes the limit is met by a LIST of 23 events, a
  SHOW of more than 120 seats, or of 20 and more when the first read comes late.
  `client_show` has the code's sizes.
- Two seats in one row: a request can then be wholly free, half taken, wholly
  taken, repeat a seat, or name a row that is not there whose `seat_index`
  falls inside the array. More seats add longer loops and no new outcome; that
  `seat_index` is one to one is proved for every plan (`CommonProofs`).
- Two workers and, in `SessionPool`, up to four clients: with two workers the
  ring wraps round and both race on it; the third client comes when the
  limit is reached, and the fourth may come past it: four is the least number for which,
  with no spurious wakeup, a scan can find no id free (`OwnIds`, proved for any number),
  and what then happens is run `pool_ids`.
- `MaxSpurious`: wakeups without a signal, of which `pool_safety` has one at most. The code
  tests no predicate after `pthread_cond_wait`, so that one makes a worker
  take an empty slot; `NoPhantom` and the last part of `OwnIds` speak of the time
  before it, `ActiveBounded` and the rest of `OwnIds` hold in spite of it. Behind it
  `Bound` (`MCSessionPool`) follows the instance for three clients only, of whom one
  leaves; without it four clients come and go as they like. `pool_free`, `pool_once`
  and `pool_ids` have none: what they show needs none.
- Files of at most four commands: two barriers with work on both sides, or a
  delay that is left before a barrier and taken after it.
- Run `jobs`: one file begins with a CREATE, goes on with any of 32 lines and any
  of 6, and ends with SHOW and LIST in either order, once without the last
  newline; two more are cut short in a keyword or after it. The 32 lines
  have each command, and errors that the parser finds early and late in a
  line: two lines are as far as a malformed one reaches. Two other
  files and a limit of two make the parent wait for room. `UINT_MAX` is 9999 and
  `MAX_RESERVATION_SIZE` 3, so that short lines fall on both sides of them.
- Each action of the specifications fires in some passing run.

CHECK_DEADLOCK is off everywhere: calls, clients, files and commands are
bounded, so every instance comes to a legitimate end. What must not stop is
stated as a liveness property instead.

### Fairness

Threads run: a thread that can take its next step does in the end (weak fairness
of each thread as a whole), which is what the scheduler of a POSIX system gives.
Nothing has to be asked: no fairness on `Invoke`, on a new client, on a quit or
on a status report. A lock that is free and wanted again and again is taken in
the end; as calls and commands are bounded, weak fairness is enough, for
overtaking must stop. In `JobProcesses` the parent and each child run, and nobody
has to be killed: that a child ends is a result, since every command takes it
further in its file. (A child can run whenever it is running, so that its weak
fairness is written with that in place of ENABLED: `ChildRuns`.) With the
threads of Exercicio3 for children the same is what `JobFinishes` says of the files that
unlock `mutex`; after a HELP (`threads_help`) the parent does wait for ever. In `SessionPool` a client that has asked goes on until it
has its id, and may keep its session for ever.

## Proofs

All theorems hold for every value of the constants that satisfies the modules'
named assumptions: values for "no one" and "no file" that are no thread and no
file, plans, seats and ids that are natural numbers, files made of the commands
there are, finitely many files, at least one thread and room for one child,
natural bounds, and job files that are what they are: a sequence of characters,
none of them the character 0, with the table of its lines by `JobGrammar`.
Because the provers know nothing of strings it is also assumed that what lies
behind a last number is digits, and of each keyword its length (four to eight)
and that it has no newline. No assumption speaks of behaviour, and TLC evaluates
each on the runs.

- `CommonProofs`: `seat_index` of a seat of the plan is inside the array
  (`SeatIndexInRange`), tells seats apart (`SeatIndexInjective`), and counts in
  the order SHOW prints (`RowMajorIndex`, `RowMajorInPlan`). Then what the other
  proofs need of the natural numbers, with sets in place of predicates: a set of
  numbers has a least element (from the library's well-founded `<`), the partial
  sums of a sequence of numbers exist and are numbers, and a fold over a sequence
  goes through as many values as there are elements (`FoldExists`, `FoldSteps`),
  so that what each step keeps holds of its result.
- `ServerStoreProofs`: `StoreInv`, for any number of workers and calls. It is
  inductive as it stands: unique ids need that the id looked up under the write
  lock is still absent when the event is linked (`FreshId`), which needs that
  the writer is alone (`ListLockMatches`); seats are never reassigned because
  what a RESERVE has found free is free or its own until it is marked
  (`SeatsFree`), which needs that the event is locked by one thread
  (`EventLockMatches`) and that the pointer kept across the unlock of the list
  is good. The argument is modular: a step of one thread keeps the invariants of
  the others if it touches only what it has locked (`OthersInv`), and each
  action is shown to do so. From it, `TypeCorrect`, `UniqueIds` and
  `SeatsReservedForever` (the action property `ReservedForever`).
  `StoreInv` says nothing of what a call has computed; `AnswerInv` does, and is
  inductive together with it (`AnswersHold`): the seats that a RESERVE has marked
  carry the last number its event has given out, the ids that a SHOW or a LIST
  has copied are those of the event or list it has locked, a thread has an
  answer exactly when it is done, and the seats of an event carry numbers that it
  has given out, each of those that are made at least one. From it,
  `CountMatchesSeats` and `Linearizable`: every step is a step of `EventStore` or a
  stutter. A RESERVE takes effect where it takes its number (its failures where
  the event is unlocked, or not found), a SHOW and a LIST where they unlock what
  they have copied, a CREATE where it links the event or finds the id. That a
  number given out has a seat needs a request to name a seat at least, which
  the client makes sure of (`client/main.c:64`) and `StoreInterface` assumes.
- `BatchStoreProofs`: the inductive invariant `BatchInv` adds to the type invariant
  where the locks and the pointers are (`LocksMatch`, `PointersGood`), where the
  loop of `ems_reserve` and the one that undoes it are (`LoopMatches`), and what they have
  marked (`MarksMatch`): the seats a reservation has passed are inside the plan and
  all different, and those it has marked and not undone are exactly the
  ones that carry its number (`CarryNumber`). The seat at which it stops is out of the
  plan, or taken, or passed before (`Blocked`), and stays so while the marks are
  undone, which is what makes the failure one that `EventStore` allows. From
  it, `TypeCorrect`, `UniqueIds`, `CountMatchesSeats` (a rollback undoes all it did)
  and `MadeForever` (it undoes nothing else). `Linearizable` needs in addition that calls
  have numbers of their own and that a LIST has copied the nodes it has
  passed (`OutputInv`); its hypothesis is that the events of the list fit the
  buffer of LIST (`EventsFit`), without which the code drops an event and the
  property is false. `FewCallsLinearizable` replaces it by a bound on
  the calls: there are never more events than calls (`FewEvents`).
  `NoListTorn` needs no such hypothesis: with a buffer of any size, so that one LIST
  writes several times, no other call's output comes between its writes. Its
  invariant is that who prints has written last, if at all, and who does not print
  yet has written nothing (`WritesInv`), as `outputLock` makes sure. It is no property
  of a run, whose buffer takes the whole list; TLC found no violation of
  it with three events and a buffer of one line.
- `BatchThreadsProofs`: the inductive invariant adds to the type invariant what
  each round of threads has in common (`RoundsMatch`: who exists, given where
  main is; that the flag is set when a thread has ended for the barrier), why a thread
  has ended (`EndsMatch`) and which command it runs (`CommandsMatch`). From it,
  `AllResultsAgree` (so that the misplaced `break` at `main.c:305` is
  harmless), `MainEndsLast`, and `OrderImplemented`: every step of the threads is a
  step of `JobOrder` or a stutter, so the specification implies
  `ImplementsJobOrder`, for any number of threads and any files.
- `SessionPoolProofs`, for any number of workers: types and `ActiveBounded`, for
  any number of clients and spurious wakeups. The count alone is not inductive:
  the invariant bounds every value on its way into it (`LoadsBounded`), the limit
  for what the main thread has clamped and loaded, one more for what a worker has
  loaded.
  `TakesAClient` (`NoPhantom`): as long as no thread woke without a signal, the
  invariant `SlotInv` says that until the last slot is written the indices do not
  wrap round, and that every take begun or promised (a signal for each
  session put in) stays behind `rear`, whichever values of `front` the racing workers
  have loaded; once all slots are written nothing can go wrong any more.
  `IdsAreOwn` (`OwnIds`) needs no bound on the clients and no hypothesis. Its
  invariant `OwnInv` follows an id from the scan through the buffer and the worker to
  its client (`IdsGiven`, as long as no scan has found none free), a client from its start to
  the scan (`InOrder`), and what client and worker know of each other
  (`SidesAgree`). `Counting` is about when a scan can find none: `active_clients` is exact as
  long as no quit was handled, for only the main thread changes it, so that at most N
  clients are served; and the ids in use and the clients that have given theirs back are
  never more than those served. A scan that finds none has therefore a client before it
  that has quit, and more than N that were served besides the one it is for (`PastLimit`).
- `ClientSessionProofs`, for any plans, values, calls and buffers: `StaysInStep`
  (`InStep`) and `PrintsWhatWasTold` (`PrintsTheAnswer`). The invariant `SessionInv`
  is that, while nothing was cut, the places of the client and its worker
  determine what the two pipes hold: nothing between two calls, a request, so
  many of the one or two writes of an answer less those read, or the quit. Its steps need
  that a read which is long enough takes the whole of what was written, of any length:
  `Read` and `Total` are sums over the fields in a pipe.
- `JobParserProofs`, for texts of any length and contents: wherever a command
  begins, the parser returns one with arguments of its kind and a place further on
  (`CommandsTyped`, from the folds of the parser and of the lists of seats).
  `LinesRead` says which: from the head of a line that the grammar knows the
  parser reads exactly the command that the line means, and stops behind its
  newline; of any other line it makes no command, and calls `cleanup` from a place
  inside the line or, after a keyword cut short, within eight characters of its
  head. (A last line without a newline is read to its end too, but if it has
  numbers not always as what it means: nothing ends the digits, and a RESERVE is
  refused.) The proof follows the parser digit by digit (`NumberRun`) and seat by
  seat, and the grammar mark by mark, and shows that both come by the same places.
  A command line is longer than three characters (`CommandIsLong`) and a keyword
  not longer than eight, which bounds what `cleanup` passes when the newline was
  read already (`ReadToLineEnd`): at most one command line whole and the line in
  which it stops.
- `JobProcessesProofs`: of the pool, the counter is the number of children not
  waited for; the invariant adds that the file to be forked has no child yet
  (`NoChildYet`). From it, `ChildrenBounded`, `CounterExact`, `EveryChildReaped`.
  The program with its job files implements `ProcessPool`
  (`PoolImplemented`), so that `LimitKept` holds whatever the files contain.
  Of the children: `JobsTypeCorrect` follows from `CommandsTyped`. With
  the invariant that the numbers on an event's seats are those of its reservations,
  `ems_reserve` either adds one to both or, undone, leaves the event as it was:
  `NumbersAreHeld`. `CommandDoesAsAsked` compares the store with
  `JobReference`, which knows neither indices nor marks nor a rollback: a list of
  events stands for a state of the reference (`StandsFor`: the plan of each event,
  and what each seat was given as a set), and each command takes it to a list
  that stands for what the reference asks for. `AnswersAsAsked` puts these together along
  the file: the commands that a child has run are those the parser finds one behind the
  other from the beginning, and its output is the reference's `Outcome` of them, up to the ids
  that LIST garbles. TLC found `CommandsAnswered`, the property it states, to hold on
  the instance of run `jobs`.
  The last two theorems join this with the parser. As a child reads only where its file
  goes on (`LinesInv`), every command begins at the head of a line and
  is read to the end of it or, if the line is invalid, takes no more than two
  commands behind it: `LostAreFew` (`LostOnlyAfterInvalid`). As commands begin further and
  further on, the lines that a child has begun are, in the order of the file, the
  commands it has run; the fold over all lines that defines `Expected` and the
  one over the commands go through the same states, so that `OutputsAreRight`
  (`OutputsRight`) follows from `CommandsAnswered`. Only the last line of a file
  can be one of those that `Readable` leaves out, so that no line is expected
  behind it.

*Only model-checked*: what is stated under fairness, as liveness is out of the
prover's reach: `AllAnswered` and `ReadersAnswered` of the stores, `ServedWhenFree` and
`QuitFreesId`, `CallsReturn` and `QuitFreesWorker`, `DelaysTaken` and
`JobFinishes`, `ParentEnds`. Every invariant and every other action property of
the passing runs, both refinements of `EventStore` and that of `JobOrder` are
theorems too.

## Findings

1. `ems_program_status` leaves the list read-locked (`server/operations.c:434`):
   run `store_create`.
2. `dequeueSession` runs outside the mutex (`server/main.c:101`): run `pool_once`.
3. SHOW reads its answer in two reads, the server writes it in one or two
   (`client/api.c:181`, `server/operations.c:204`): run `client_show`.
4. HELP, WAIT 0 and an invalid WAIT keep the mutex
   (`Exercicio3/p1_base/main.c:134`): run `threads_help`.
5. Two connected clients can have one session id (`server/main.c:346`): run `pool_ids`.
   A worker signals that there is room (238) before it lowers the count (240), so that the
   count goes past the limit, which the main thread tests for equality (321); the
   client that it lets in then finds no id free and is sent that of the client before.

What run `jobs` shows beside what it checks, each a choice of the code that
no document or comment contradicts in so many words:

- A malformed line may take valid ones with it: `cleanup` (`Exercicio2/p1_base/parser.c:41`)
  skips to the next newline even when the one of the malformed line was already
  read, as the end of a number or as one of the characters of a keyword. `parser.h`
  says of `get_next` that it "reads a line". `LostOnlyAfterInvalid` says
  how far this goes: at most two commands, and never after a line that is valid.
- A missing number is 0 (`SHOW ` is SHOW 0). A list that is closed at
  exactly `MAX_RESERVATION_SIZE` seats is rejected. A RESERVE in a last line without a
  newline is rejected; the other commands accept it.
- LIST cuts ids of four digits and more and writes bytes from behind its buffer
  (`Exercicio2/p1_base/operations.c:207`).

## What is not modelled

- Code that cannot be reached, or whose failure ends the program at once:
  `ems_terminate` of the server, a failing `ems_init`, `pthread_create`, or
  `open` of the input file of a job.
- Undefined behaviour: a WAIT that names a thread which does not exist indexes
  `threadArray` out of range (`Exercicio3/p1_base/main.c:108`), and
  `pthread_join` writes eight bytes into an `int` (284). The models' files name
  threads that exist.
- The text of answers: digits, newlines and the sizes of buffers that depend on
  them (SHOW cuts ids of five digits in Exercicio3,
  `Exercicio3/p1_base/operations.c:248`, and in the other two those with as many digits as
  three for each column, `Exercicio2/p1_base/operations.c:178`). LIST of Exercicio3 drops the event that
  does not fit its buffer (328); the model does the same, and the run gives it
  room.
- The delay `state_access_delay_ms`: any thread may be slow at any step.
- The flag that SIGUSR1 sets: the main thread of `ServerStore` reports at any
  time, which allows more.
- A RESERVE request of more than 99 characters, which overruns its buffer
  (`client/api.c:140`). What the client's `ems_create` returns is random and
  what `ems_reserve` returns is 0, as in the code (119, 155); nothing is claimed
  of the two.
- SHOW of Exercicio3 reads seats without the event's lock
  (`Exercicio3/p1_base/operations.c:246`) and may print a reservation that is
  undone. The model has it; no document promises otherwise, so the refinement
  leaves SHOW out and no run is spent on it.
- The parsers: numbers of 16 digits and more, which overrun the buffer of
  `read_uint`; the thread of a WAIT, which only Exercicio3 and the client read;
  the arguments of the command line.
- Two job files with one name up to the first dot (`a.jobs`, `a.b.jobs`) have one output file
  (`Exercicio2/p1_base/main.c:191`), though each is promised one of its own
  (README.md:18 of the repository). The model assumes there are none.
- Log lines, and that a child inherits what the parent had printed into a buffer
  and not yet written.
- Exercicio1 as one process: its loop over the commands is that of a child of
  Exercicio2 and is modelled there; that it takes the files one after the other is not.

Hazards that no property covers are in `PROJECT.json` with the reason.

## Plan

What is left, in this order:

1. That the threads of Exercicio3 (`BatchThreads`) are children that
   `ProcessPool` can have: its safety for both programs by one refinement.
2. The parser of Exercicio3 and of the client, which also read the thread of a
   WAIT: a variant of `parse_wait` and of `IsWait`, for which `LinesRead` should
   hold with few changes.
3. `AnswersAsAsked` for a child of Exercicio3 with one thread, whose store differs
   from `SequentialStore` in its locks and in the way it undoes a reservation.

The instance of each new run stays at the sizes above; runs whose question a
theorem answers make room for new ones.
