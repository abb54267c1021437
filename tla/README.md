# Specifications of the event management system (EMS)

The repository holds two deliveries of one program that keeps events with
numbered seats and reservations:

* `src/proj1`: a batch program. One child process per `.jobs` file, several
  threads per process, each taking the next command of the file.
* `src/proj2`: a server and its clients. Clients connect over a named pipe, each
  gets a session thread of the server and sends its commands over two pipes of
  its own.

This directory holds TLA+ models of both, the TLC configurations that check them,
and proofs for TLAPS. Line numbers are those of the files under `src/`.

## 1. Inventory

### 1.1 Components

| component | code | state | operations | module |
|---|---|---|---|---|
| Server event store | `proj2/server/operations.c`, `eventlist.c` | linked list of events under a readers-writer lock; per event a mutex, the seats and a counter of reservations; `print_mutex` | `ems_create`, `ems_reserve`, `ems_show`, `ems_list_events`, `ems_show_all` | `ServerEvents` over `SeatBooking`, `ServerEventsProofs`, `ServerBookingProofs` |
| Server session queue | `proj2/server/main_server.c` | named pipe, linked list of clients, two mutexes, two condition variables, the SIGUSR1 flag | accept loop of `main`, `addClient`, `popClient`, the waiting of `threads_function`, the signal handler | `SessionQueue` over `ClientLine`, `SessionQueueProofs` |
| Session protocol | `main_server.c:327-541`, `proj2/client/api.c`, `common/io.c` | two pipes per session, op codes, answers | SETUP, QUIT, CREATE, RESERVE, SHOW, LIST | `EmsServer` over `Conversation`, `EmsServerProofs` |
| Client command loop | `proj2/client/main_client.c`, `parser.c` | a job file | read a command, call the API, WAIT | `EmsServer`, `ClientReader` |
| Job threads | `proj1/main.c:123-398` | file position and barrier flag under `mutex`, a delay per thread under its own mutex | fetch a command, WAIT, BARRIER, create and join rounds of threads | `JobThreads`, `JobThreadsProofs` |
| Job event store | `proj1/operations.c`, `eventlist.c` | list under a mutex, `id_being_processed`, per event a lock, seats, counter | `ems_create`, `ems_reserve`, `ems_show`, `ems_list_events` | `EventStore`, `EventStoreProofs` |
| Job process | the two above, with `qsort` of the coordinates | both | a job file from its first line to its last | `JobProcess`, `JobProcessProofs` |
| Process pool | `proj1/main.c:55-121` | directory position, `num_proc`, `pid`, the children | fork, wait | `ProcessPool`, `JobProgram`, `JobProgramProofs` |
| Command parser | `proj1/parser.c`, `proj2/client/parser.c` | file position | a line to a command | `CommandReader`, `ClientReader`, lemmas in `JobProgramProofs` |
| Delays, constants, build files, job examples | `constants.h`, `Makefile`, `jobs/` | none | none | the job examples are inputs of `MCJobProcess` |

### 1.2 Interactions

proj1: the parent forks a child for every `.jobs` file, waits for one before it
forks more than `MAX_PROC`, and waits for the rest at the end; parent and
children share nothing else. The main thread of a child creates `MAX_THREADS` threads and joins them.
The threads share the file descriptor, the barrier flag and the delays, and call
the store outside of `mutex`. Every `.out` file belongs to one process.

proj2: clients and server share the server's pipe; a client and its session
thread share the two pipes of the session; `main` and the session threads share
the client list (`queue_mutex`, `clients_mutex`, `clients_cond`);
session threads and the SIGUSR1 work of `main` share the event store. Locks are
taken in the order list, event, printer.

### 1.3 What is hard, and what makes each component correct

The hazards, one by one and at their lines, are in `PROJECT.json`. In short:

* *Server store.* Seats are checked and stored in one hold of the event's mutex,
  but `ems_show` copies them without it; `ems_show_all` takes every lock there
  is; error paths print while holding locks; early returns of
  `ems_list_events` keep the read lock. Correct means: the store does nothing
  but create events once and make whole reservations of free seats
  (`ImplementsBooking`), no reservation is overwritten, a printed picture is of
  one moment, every call returns.
* *Session queue.* Two mutexes around one list and a condition variable that is
  signalled under only one of them; `tail` dangles after the last pop; a signal
  flag without a lock. Correct means: a first-come first-served line
  (`ImplementsLine`), no lost wakeup, every client served.
* *Session protocol.* Opens that block until the other side comes, answers in
  pieces, a client that exits without QUIT (`safe_read` then reads end-of-file
  for ever), writes to a client that is gone, a thread that gives up without an
  answer. Correct means: every request is carried out exactly once, after it was
  asked and before its call returns (`ImplementsConversation`), an answer is
  whole and belongs to the request before it, calls return and clients get to
  their QUIT. The last two hold but for what a LIST that keeps the store's read lock
  does to a CREATE; that this CREATE takes its own thread with it and holds up
  nothing else is what the properties say.
* *Process pool.* `num_proc` counts forks and not children, `pid` is at once the
  result of fork, of wait and what decides whether the parent waits at the end.
  Correct means: never more than `MAX_PROC` children, no file left out and no
  child left behind, the parent ends.
* *Command parser.* `cleanup` drops the rest of a line, and when the newline was
  eaten before, the next line too. Correct means: what was written as a
  command is read as that command, a refused line costs itself or exactly the one
  behind it, and the next command is read from the beginning of a line.
* *Job threads.* A barrier made of returning and re-creating threads; delays
  that one thread resets while others add. Correct means: no line behind a
  barrier is read while one before it is executed, the whole file is read, no
  delay is lost, the process ends.
* *Job store.* A reservation takes its number and each seat in separate critical
  sections and is rolled back when a seat is refused; an event is built outside
  the mutex with only its id marked. Correct means: completed reservations are
  whole and disjoint for ever, failed ones leave nothing behind, ids are unique.
* *Job process.* Between two barriers commands overtake each other; sorting the
  coordinates keeps overlapping reservations from refusing each other in a
  circle. Correct means: with barriers the file order, without them the results
  the job files' comments promise.

## 2. The modules

A step of every model is what a thread does between two points at which another
thread can see or change something it uses. A critical section nobody can look
into is one step; anything the code does without a lock is as many steps as the
race can tell apart.

**`SeatBooking`** is what a store promises: events appear once, and a booking
puts a new number on free seats, all at once. It has no threads and no locks.

**`ServerEvents`** is `proj2/server/operations.c`. `events` is the linked list as
a sequence, so an event pointer is a position (nodes are never removed while
threads run). `readers`/`writer` are the readers-writer lock, `events[p].mutex`
the event's mutex, `printer` is `print_mutex`. The lookup of `ems_create` and its
append are two steps of one hold of the write lock, because on the way to the
error report a thread may have to wait for the printer (`FailList`).
`ems_reserve` is `ReserveLookup`, `ReserveLock`, `ReserveCheck`, one
`ReserveWrite` per seat, `ReserveUnlock` or `FailEvent`: the stores are separate
steps because `ems_show` reads the same seats without the mutex. That is a data
race; `memcpy` promises no order, so `ShowCopy` copies the seats one at a time in
any order. `ems_show_all` takes the read lock, the mutexes in list order, then the
printer.

**`ClientLine`** is the promise of the queue: clients join at the end of a line
and leave it at the front.

**`SessionQueue`** is `main_server.c` without the inside of a session: the accept
loop (`MainTop` to `MainSignal`), the handler (`Signal`, which also interrupts a
blocked read, as SA_RESTART is not set), and the waiting of a session thread
(`LockClients` to `TakeClient`). What is done under `queue_mutex` is one step, so
that mutex has no variable; `clients_mutex` has one. The list has its `head`, `tail` and `next`
pointers; a node is named by its client. A client writes its 81-byte SETUP with one `write`, below
`PIPE_BUF`, so the pipe is a sequence of whole messages (`PipeRoom` of them at
most); a one-byte message with
another op code stands for everything `main` drops.

**`JobThreads`** is `child_code` and `thread_function`. A file is the sequence of
commands its lines parse to; `pos` is the next line. `Fetch` is everything under
`mutex`. Calls of the store are one step (`Execute`). `asked` and `slept` are
ghosts.

**`EventStore`** is `proj1/operations.c`, each critical section a step. The mutex
of the list and the lock of an event are held inside single steps, so they have
no variables. `id_being_processed` is `-1` or an id. `grants` is a ghost: the
completed reservations. An id never changes, so the two critical sections
that read a node's id and then its `next` are one step of `ListNode`. `Spec` bounds
the calls of each thread; `OpenSpec` is the store of a process, whose threads may
call it at any time.

**`JobProcess`** composes the two: a store command calls `EventStore` when it is
fetched, with the coordinates sorted, and `Execute` happens when it has returned.
`qsort` is what the library promises of the comparison it is given: the same
coordinates, each as often as before, none before an earlier one. Coordinates are natural numbers, and
`compareCoordinates`, which subtracts them as `int`, compares them as such. `ImplementsParts` says that
the process is both `JobThreads` and a store that is called as any program may.
`InOrder` is the reference, a recursive function: what the commands of a file do
one after the other.

**`CommandReader`** is the parser, as operators: a file is a sequence of
characters, and every function of `parser.c` goes from the position of the file
descriptor to what it returns and the position it leaves. Keywords are a
constant with their first letter, the rest of the word and whether they stand
alone. `Coordinates` is the loop of `parse_reserve`, as a recursive function,
and `Closed` what follows it. **`ClientReader`** is the client's parser: the
same code without BARRIER, with the thread of WAIT left out, and with a
`parse_uint` that does not clear its buffer, so that a number that ends at the
end of the file goes on with what the buffer holds (`junk`).

**`ProcessPool`** is the parent of proj1: `readdir`, `fork`, `wait`, the last loop.
A child is the name of its file in `running` or, when it has exited and was not
waited for, in `zombies`. Of `pid` only the sign matters, and it is not
initialised. **`JobProgram`** lets every child read its file with `CommandReader`, or give it up
where a round of threads begins (`RoundBegins`): at the start, without memory or
files, or behind a BARRIER, when every thread of the round gets NULL from its
`malloc` and the child takes that for the end of the file.

**`Conversation`** is what the server promises one client: line, welcome, and a
request after the other, each carried out exactly once. **`EmsServer`** is clients and
session threads together. It stands on `ClientLine`: `SessionQueue` is shown to
implement that line, so the queue is one here (`Join`, `Serve`, `Leave`). Each
client has a FIFO for requests and one for answers, of `RespRoom` words; an
answer goes through it word by word, as `safe_write` and `safe_read` may split it
anywhere. What a client asks is what `ClientReader` reads from its job file; of the store
there is what decides whether a call returns (`StoreCall`): `stored`, is there an
event, so that a LIST without one is told from the others, and `kept`, has a LIST
left the read lock of the list behind. A CREATE then waits for ever, and its
thread with it. Apart from that, what the store answers is left open, and a call is one
step, as `server_events` allows. `Dies`,
`OpenFails`, `ServeNoMemory` and a dropped SETUP are faults, `MaxFaults` of them.

The `MC...` modules give constants their values and declare symmetry.
`PROJECT.json` (`map`) names the source lines of every definition.

### What is abstracted

* The number of a session: the server takes it over from each request
  (`main_server.c:389`) and uses it nowhere.
* Keywords are two letters long instead of four to eight, and `UINT_MAX` is 15:
  what the parser does depends on whether a word is complete and a number fits.
* Messages, the text of `.out` files and of stdout: `out` holds which command
  printed what, not characters.
* `pthread_mutex_*`, `pthread_rwlock_*`, `pthread_mutex_init`, `pthread_create`
  and `pthread_join` succeed; writes to stdout and to `.out` succeed. `malloc`
  and `calloc` may fail wherever `MallocFails` is TRUE, but for the unchecked
  `malloc` of `addClient` and the startup allocations, which come before any
  thread.
* Delays of simulated accesses (`get_event_with_delay`) take no time: they only
  make interleavings longer, and every interleaving is explored anyway.
* SIGUSR1 is handled by the main thread. A session thread has not
  blocked the signal in the moments between its creation and `pthread_sigmask`;
  the flag it would set is the same, and only the interruption of a blocked
  read would be missing.
* A readers-writer lock lets a reader in while a writer waits, as glibc's default kind
  does.
* A copy of `unsigned int` seats is read and written one whole seat at a time.

## 3. The runs

| run | module | what it shows |
|---|---|---|
| `server_events` | `MCServerEvents` | two sessions and `ems_show_all`, two calls each, from an empty list or one event, failing mallocs: types; ids unique; every number given out is on a seat; SHOW never reports a number that was not given out; a seat never changes hands; what `ems_show_all` prints does not change while it prints; and the whole implements `SeatBooking` |
| `server_liveness` | `MCServerEvents` | every call returns: no circle of locks (deadlock is checked too: the run ends only in `Finished`) |
| `session_queue` | `SessionQueue` | the queue implements `ClientLine`; no lost wakeup; `tail` is right whenever it is used; every client whose SETUP is in the pipe is served |
| `job_files` | `MCJobThreads` | all 400 files of up to three lines over seven kinds of line, and four longer ones, two threads, failing mallocs: barrier order, all lines read, delays kept, and the process ends |
| `store` | `MCEventStore` | three threads, two calls each, failing mallocs, reservations of the same seats in both orders, SHOW and LIST: reservations are whole, disjoint, and rolled back completely; LIST prints a prefix of the list although events are appended meanwhile |
| `job_process` | `MCJobProcess` | two threads with the real store implement `JobThreads` and the open store, and end; 56 files with a BARRIER behind every command, among them a repeated seat and a missing one: they do what one thread would; of reservations that overlap in a circle exactly one succeeds |
| `ems_server` | `MCEmsServer` | three clients and two session threads, one fault at any moment: every request carried out exactly once (`Conversation`), answers whole; a call returns unless its thread gives up or it is a CREATE behind a kept read lock (`Stuck`); and without faults every client gets to its QUIT, but for those who are stuck and, when every thread is, those in line |
| `job_program` | `MCJobProgram` | the parent, its children and their files: every pair of lines of fifteen kinds, the last with or without its newline; fifteen refused lines whose mistake is their newline, each with a SHOW, a LIST or (but for keywords) a comment or an empty line it takes along, and one more behind it; every line with one character changed or left out, and two more behind it; a directory of five files with failing forks and children: which lines are which commands, where reading goes on, how many children there are, what is skipped, and that the program ends |

Each property has a mutant of the code in `PROJECT.json`, under which TLC finds
it violated.

### Bounds, and why they are enough

* *Threads.* Two session threads plus `main` are enough for every pair of
  operations to meet, in any order, with the third locker; `MAX_SESSION_COUNT`
  is 5, but a session thread holds at most the list and one event. The job store
  has three threads: a rollback needs one thread to give back, one that took the
  seat, and one that comes in between. `job_process` has two: three with the real
  store are out of TLC's reach, and what three threads do in the store is what
  the run `store` shows.
* *Calls.* Two calls per thread: one to set the scene and one to race; with
  two, a thread also starts from what its previous call left behind (a lock that
  was kept). Several runs start with an event in the list instead.
* *Seats.* An event of two seats is the smallest on which a reservation can be
  partial; the job process uses 2x2, where `seat_index` can confuse rows with
  columns.
* *Job files.* `job_files` takes every file up to its bound instead of chosen
  ones; the longer ones and those of `MCJobProcess` are cut down from
  `proj1/jobs` (21, 23): smaller events, shorter reservations.
* *Clients.* Three clients for two session threads: one waits while both threads
  are busy. The pipe holds one message (`PipeRoom`); the others wait to
  write, and the list is where clients queue up. In `ems_server` a response FIFO
  holds two words, fewer than the shortest answer of SHOW or LIST, so every such
  answer is written and read in pieces; an event has one seat, which makes the data of
  SHOW one word behind two sizes of two. In the third set of job files a LIST of the empty
  store can leave both threads in a CREATE and the last client in line;
  `server_session_lost` has files without LIST, so that only the client without a
  job file can keep a thread.
* *Faults.* One (`MaxFaults`) at any moment of any client or thread; the run that
  shows a lost thread needs none.
* *Processes.* `MAX_PROC` is 2 with five files and two failing forks: enough for
  the count to be full although there is no child, and for a wait that fails. One
  entry is no `.jobs` file, and one directory has none at all.
* *Characters.* A misspelt line has one wrong or missing character: a newline, a
  digit, a blank or a letter in any place. Of these only where reading goes on is
  claimed (`ReadsStartAtLines`), and so of a RESERVE of exactly `MaxCoords` seats,
  which the code refuses and `parser.h` allows. `TakingLines` are refused lines
  whose mistake is the newline itself: after each number, bracket and seat a
  command may break off at, and in a keyword.
* *Signals and spurious wakeups.* One each (`MaxSignals`, `MaxSpurious`):
  enough to meet every other step.
* `CHECK_DEADLOCK FALSE` is given where the system really may stop: when all
  bounded calls are used up, or when nobody connects any more.

### Fairness

`WF` of each thread's steps, for the scheduler runs every thread that can
run; a mutex is modelled as free or owned, and weak fairness of the whole thread
suffices because in the runs that use it nobody takes locks for ever. Calls,
connections and signals are never forced. In `session_queue` a session ends
(`EndSession` is a step of its thread); `ClientsFinish` of `ems_server` shows that
sessions end when nobody fails, and `server_session_lost` that one of a client
without a QUIT does not. The other way round, `ems_server` takes from
`session_queue` (`ClientIsServed`) that a free thread serves the next client, and
from `server_liveness` that calls of the store return. That run starts with an
event in the list and has memory to spare, so no LIST keeps the read lock in it; where one
does (`server_list_leak`), `EmsServer` has a CREATE wait for ever itself, and the other
calls, which only read, return: a reader waits neither for readers nor, with the default
attributes of `pthread_rwlock_init` in glibc, for a writer that waits (`CanRdLock` of
`ServerEvents`). `JobEnds` of `job_files`
assumes that sleeps and store commands end; `job_process` shows the latter for the
real store. In `job_program` the fairness of a child says "it is not running
infinitely often, or it takes a step infinitely often", which is `WF` of its steps
with "it runs" for ENABLED: a running child always has a step.

### Disagreements between the code and its documents

Four runs expect a violation, one property each; `findings` in `PROJECT.json`
quotes the line they contradict.

| run | what the code does |
|---|---|
| `server_list_leak` | LIST of an empty store, or without memory, returns with the read lock held (`operations.c:300-326`): the next CREATE never returns |
| `server_torn_show` | SHOW copies seats without the event's mutex and answers with half a reservation |
| `store_duplicate_events` | one mark for all creates: an id can be created twice |
| `server_session_lost` | a client that exits without QUIT keeps its session thread for ever: `safe_read` reads end-of-file again and again |

More were seen while modelling, and have no run of their own:

* `client_waiting` is never assigned, so `MAX_CLIENTS_WAITING` (4) bounds nothing
  (`main_server.c:193`).
* `ems_reserve` of proj1 returns 0 for a reservation it rolled back
  (`operations.c:184`; `operations.h:52` says 1).
* A SIGUSR1 between the test of the flag and the blocking read, or between
  printing and the reset of the flag, is not answered (`main_server.c:182-200`).
* A create that runs out of memory leaves its mark (`proj1/operations.c:103`).
* A rollback gives back a number that others have passed, so two reservations may
  share one (`proj1/operations.c:178`).
* `jobs/23.jobs` and `jobs/4.jobs` lack a BARRIER behind their first command, which
  their own comments need.
* When the last fork fails, the parent of proj1 waits for none of its children
  (`main.c:101`); when `MAX_PROC` forks were counted and there is no child left, a
  file is skipped (`main.c:82-84`). `ParentWaits`, `EveryFileIsRead` and
  `FewFailuresSkipNothing` say exactly when.
* `get_next` reads a keyword's worth of characters before it compares them: a
  misspelt short line swallows the beginning of the next one, which is then
  refused with it (`parser.c:54`; `parser.h:27` says "Reads a line").
* A line that is refused at its newline loses the line behind it: the newline has been
  read when `cleanup` is called (`parser.c:21`, `182-200`). `LinesAreCommands` says
  that it is never more than that one.
* When every thread of a later round gets NULL from its `malloc`, the child takes the
  BARRIER before it for the end of the file (`main.c:206-215`, `230-234`).
* A RESERVE on a last line without a newline is refused (`parser.c:213` reads one
  character more), every other command is taken; one with exactly
  `MAX_RESERVATION_SIZE` coordinates is refused as well (`parser.c:208`; `parser.h:42`
  calls `max` the "Maximum number of coordinates to read").
* The client's number on a last line without a newline is followed by whatever the
  buffer holds (`common/io.c:12`, not cleared).
* HELP says `WAIT <delay_ms>` (`main_client.c:113`), and the client sleeps seconds.
* When `ems_show` or `ems_list_events` of the server returns NULL, the client gets
  no answer and waits for ever (`main_server.c:476-481`, `509-514`); when the client's own
  `malloc` fails (`api.c:233`, `319`) the rest of the answer stays in the pipe.

## 4. Proofs and plan

### 4.1 What is proved

`JobThreadsProofs` proves, for every number of threads and every set of job files,
under the named assumptions of `JobThreads` (`MaxThreads` is a natural number, a
file is a sequence of commands, store commands are not control commands):

* `Typed`: `Spec => []TypeOK`. It includes that a WAIT that is carried out names
  an existing thread, so `data->threads[thread_id-1]` is never out of bounds.
* `BarriersSeparate`: `Spec => []BarrierOrder`.
* `NothingIsSkipped`: `Spec => []AllLinesRead`.
* `DelaysConserved`: `Spec => []DelaysAreKept`.

The inductive invariant is `Inv == TypeOK /\ NoBarrierInside /\ JoinedHaveExited /\
ResultsAreTrue`. `BarrierOrder` alone is not inductive: nothing in it keeps a
thread from reading on past a barrier. `NoBarrierInside` adds that the flag is
still up, and the flag goes down only in `MainRestart`, where by
`JoinedHaveExited` nobody is busy. `AllLinesRead` needs what a thread's return
value means (`ResultsAreTrue`): 0 only at the end of the file, and `foundBarrier`
remembers every 1. There is one lemma per conjunct, with one step per action.

`JobProcessProofs` proves, under the assumption `CommandsAssumption` of
`JobProcess` besides (a store command is one the parser delivers):

* `ProcessImplementsItsParts`: `ProcessSpec => ImplementsParts`. A thread's
  step is a step of `JobThreads` or happens inside the store, where `JobThreads`
  sees nothing; and a call is one the store admits, because sorting changes
  neither the number nor the kind of the coordinates (`QsortSorts`,
  `QsortKeepsSeats`; that every request has a sorted order is proved as well, from
  a shortest one that would have none). No invariant is needed.
* `BarriersHoldTheStore` and `ProcessSkipsNothing`: `BarrierOrder` and
  `AllLinesRead` of the process, by that refinement and the theorems above.
* `ProcessKeepsItsStore`: the five properties of the store (see
  `EventStoreProofs`) hold of the process, however many calls its file makes.
* `OneReservationWins`: `ProcessSpec => []OneReserveSucceeds`, for any number of
  threads and of reservations that pairwise overlap, if `malloc` does not fail,
  there is a thread at all, and the file's reservations can be had one by one
  (`Sellable`: of the event of line 1, seats it has, none named twice). Each
  hypothesis is needed: with seats that do not exist every reservation may be refused.

The last one is the reason for which `parser.c:301` sorts. `RaceInv` says: as
long as nobody has won, whoever was refused a seat was refused for the sake of
somebody who is still buying and has a seat at least as far in the order
(`RefusedForOneAhead`), so when all others are through somebody is still buying
(`OneIsLive`). It is kept because a refused thread's next seat lies behind all
it has taken (`TakenComeFirst`): if the seat belongs to a thread that is itself
being rolled back, the one that made it give up is further ahead. Without sorting the first
two of a circle could each be refused for the sake of the other. The rest of the
invariant ties the store to the file: which line a thread in the store executes
(`Executes`), that the event is there once line 3 is read (`Creates`, with
`NoBarrierInside`), and that a grant has the seats of a line. It rests on the
invariants of both parts and on `RoundInv` (a thread main is about to create is not running). TLC
checked `RaceInv` for three threads and three reservations in a circle before it was proved.

* `BarriersMakeItSequential`: `ProcessSpec => []BarriersGiveFileOrder`, for any
  number of threads and every file with a BARRIER after each command, if there is
  a thread and `malloc` does not fail. Without memory a command is dropped, and
  which one depends on the schedule; without a thread nothing is executed.

`InOrder` is a recursive function; that it exists, and that line `n` acts on what
the lines before it leave (`RunExists`, `RunGoesOn`), is shown by a least
counterexample. `OrderInv` is the inductive invariant: at most one thread is in
the store; when none is, the store and the output are what the lines read so far
make of them; and a thread in the store found it as the lines before its own
leave it (`Midway`). For the last part the reservation under way is taken back in
thought (`Unsold`: its seats free, its number not given out). So a rollback must
lead back to the very store the call found, which holds as nobody else is
inside, and a reservation is refused by the code exactly if `InOrder` refuses it,
although the code tries seats one by one in sorted order and `InOrder` looks at
all of them as written. That at most one thread is inside follows from
`NoBarrierInside`: the line before every command is a BARRIER.

`JobProgramProofs` proves, for every directory, every `MAX_PROC`, any number of
failing forks and every content of the files, under `PoolAssumption`:

* `ProgramIsAPool`: `Spec => PoolSpec`, the program refines the pool whose
  children just run and exit. What children read is invisible to the parent.
* `PoolTyped` (`PoolTypeOK`), `NeverTooManyChildren` (`ChildrenBounded`),
  `SkippingNeedsFailures` (`FewFailuresSkipNothing`) and `NoChildLeftBehind`
  (`ParentWaits`), each as `Spec => []...`.
* `LinesAreReadWhole` (`ReadsStartAtLines`) and `FilesAreRead` (`EveryFileIsRead`),
  under `ReaderAssumption` besides: a line does not hold the mark of the file's end,
  and keywords that do not stand alone are those of the four parse functions.
* `CommandsAreTheLines`: `Spec => []LinesAreCommands`, if every piece of which
  something is claimed, read alone, is read as its command (`EveryLineIsRead`). A piece
  is a line, or a line whose mistake is its newline with the line it takes along.
* `WrittenCommandsAreRead`: `Spec => []LinesAreCommands`, if every such piece is
  written as one (`EveryLineIsWritten`): a command as HELP describes it
  (main.c:368-376) with numbers up to `UINT_MAX` and fewer than `MaxCoords` seats, a
  comment, an empty line, or a line whose first character begins no command; the
  last line of a file may lack its newline unless it is a RESERVE. Only of a
  refused line that begins like a command does this still assume that the parser,
  reading it alone, refuses it and stops at its end.

The bound on children is not inductive, for the parent forks by `num_proc` and
never looks at its children. The invariant adds how the two are related: there
are never more children than `num_proc` counts, one fewer between a `wait` and the
`fork` that follows it, and one fewer with every round of the last loop; and the
children that are missing are forks that failed. The proof counts with the
theorems on finite sets of the library.

The other two need the parser. `CommandIsRead` says of `ReadCommand`, for every
text and every position: at the end of the text it returns EOC and stays there,
and otherwise it goes on and stops behind a newline or at the end. There is one
lemma for each function of `parser.c` on the way, as its `cleanup` depends on
whether the newline was already eaten; the rounds of `parse_reserve` are counted
(`LoopIsRead`). From there `ReadInv` says where each child is in its file
(`Reading`) and that every file the parent has passed is being read, was read to
its end, was skipped, or was given up (`GivenUp`) at its beginning or behind a
BARRIER (`Accounted`).

`CommandsAreTheLines` takes what a line is read as from the line alone to the
file it stands in. `StandsIn` says that a text has another one from some place on;
for each function of the parser a lemma (`NumberMoves`, `CleanupMoves`,
`CreateMoves`, `LoopMoves`, ...) says that what it does in the one it does in
the other, that many characters further on, as long as it looks at nothing behind the
end of the shorter text. `LineIsRead` puts them together: at the start of a line
the next command is that of the line, and the next position the start of the line
behind it. `Ordered`, on top of `ReadInv`, then says of every child that its
position is the start of piece `n` when it has read `n - 1` commands, up to the
first piece of which nothing is claimed; from there on only `ReadsStartAtLines`
holds. A child at the end of a file of which all is claimed has therefore read as many commands as
there are pieces (`AsManyAsLines`), for every piece has a character.

`WrittenCommandsAreRead` removes the parser from the hypothesis. `IsShow`, `IsWait`,
`IsCreate`, `IsReserve`, `IsAlone`, `IsComment`, `IsEmpty` and `IsUnknown` say how a
line is put together from characters, digits and keywords, without a word about
reading; a lemma each (`ShowRead`, `WaitRead`, ...) says that `ReadCommand` makes of
that line, and of nothing behind it, the command it was put together from.
`NumberThen` and `NumberEnds` do it for a number and the character behind it,
`KeywordRead` for a keyword. The seats of a RESERVE are put together by the
operator that makes a file of its lines (`TextOf`), so `PartStands` says where each
begins; `SeatRead` is one round of the loop, and `RoundDone` steps from one seat to
the next until the loop stands at the closing bracket (`ListRead`). The value of a
number is what `ValueOf` says of its digits on both sides: that `ValueOf` is the
decimal value is a fact about a recursive function and left to the runs.

`ServerEventsProofs` proves, for every set of sessions, ids, sizes and requests,
every list to start from and any number of calls, under the assumptions
`ThreadAssumption`, `RequestAssumption`, `BoundAssumption` and
`PreloadedAssumption` of `ServerEvents`:

* `TypesHold`: `Spec => []TypeOK`.
* `IdsStayUnique`: `Spec => []EventIdsUnique`.
* `ReservationsAreKept`: `Spec => SeatsKeepTheirReservation`.
* `ShowAllIsOneMoment`: `Spec => ShowAllPrintsOneMoment`.
* `ReservationsStayInside`: `ems_reserve` stores inside `event->data` only. TLC
  does not check this one, as a store outside leaves a function unchanged.

The argument has three layers. `Typed`: the variables have their types, a thread
at a label is in the call that has the label, a thread that goes on with an event
has found one, `ems_show_all` holds a read lock. `ListIsLocked` and
`EventsAreLocked`: the writer of the list is the thread at `append` or
`fail_list`, and nobody reads meanwhile; a thread inside an event owns its
mutex; `ems_show_all` owns the events it has passed. On top of these,
`AppendedIsNew` (the id about to be appended is in no event) carries
`EventIdsUnique`, and `SeatsAreFree` (the seats still to be stored to are in
bounds and free, or already carry this very reservation, when a request names a
seat twice) carries `SeatsKeepTheirReservation`. Two lemmas do most of the work:
`LockedEventsKept` (a session changes no event another thread has locked) and
`AppendIsAlone` (nothing is appended while somebody reads).

`ServerBookingProofs` goes on from there, under the same assumptions (`Dims` is
finite, as a dimension is a `size_t`):

* `NumbersAreOnSeats`: `Spec => []IssuedIdsAreOnSeats`.
* `ShowIsReal`: `Spec => []ShowReportsRealReservations`.
* `StoreIsABooking`: `Spec => ImplementsBooking`, the refinement of `SeatBooking`.

A reservation is stored seat by seat and booked in one step, the one that gives
out its number (`ReserveCheck`). So the seats are looked at as the mapping looks
at them: a seat a thread has still to store to already shows its number
(`SeatView`). By `SeatsAreFree` and `LockedEventsKept`, a step then leaves every
event as it is seen, books a set of free seats of one event, or appends a free
event (`StepBooks`); the theorems follow from this one lemma. `NumbersInv`, in
both directions (every number on a seat was given out, every number given out is
on a seat), is inductive by it alone. `CopyInv` says that what SHOW has copied of a taken seat is
still true, since a seat never changes hands; of a free seat it says nothing, which is
why `server_torn_show` finds half a reservation.

`SessionQueueProofs` proves, for every set of clients and every finite set of
session threads, under `NameAssumption`, `BoundAssumption` and `WorkerAssumption`
of `SessionQueue`:

* `QueueTypes` (`TypeOK`), `NoWakeupIsLost` (`NoLostWakeup`) and `TailIsLast`
  (`ListEndsAtTail`), each as `Spec => []...`.
* `QueueIsALine`: `Spec => ImplementsLine`.

The invariant has the list as a sequence: there is a `q` of which `head`, `next`,
`tail` and `num_clients` are the links (`Chain`), and every client is in one
place only, unwritten, in the pipe, about to be added, in `q` or in a session
(`PlacesApart`); `tail` is only claimed to be right while the list is not empty,
for `popClient` leaves it behind. Every step moves `q` as the line moves. `NoLostWakeup` speaks of threads
that sleep, and is not inductive: a thread that has seen an empty list and not
yet reached `pthread_cond_wait` sleeps next. `WakeInv` counts for it, too, and
`LockInv` says that such a thread owns `clients_mutex`, without which `main` does
not signal.

`EmsServerProofs` proves, for every number of clients and threads, every job file
and every `RespRoom` and `MaxFaults`, under `SessionAssumption` of `EmsServer`:

* `SessionTypes` (`TypeOK`) and `WholeAnswers` (`AnswersAreWhole`), as `Spec => []...`.
* `PipesConverse`: `Spec => ImplementsConversation`.

Its invariant says at which places a client and its thread may be at the same
time (`SessionOf`), and what the FIFOs hold then: nothing before a request and
after its answer (`Quiet`); a request not carried out has no word of an answer
anywhere (`Asked`); for one that was carried out, the words the client has, those
in the FIFO and those the thread has not written yet are, one behind the other, one
whole answer (`Answered`). A client that died is excepted, and so is a thread that gave up: then nothing is left
in the FIFO and the client waits for ever, as section 3 says.

`EventStoreProofs` proves, for every set of threads, events and calls (requests
of any length, seats named twice or out of bounds included) and any number of
calls of each thread, under `CallAssumption` and `BoundAssumption` of `EventStore`:

* `StoreIsSafe`: `OpenSpec => []Safe`, where `Safe` is the conjunction of the next five.
* `TypeIsKept` (`TypeOK`), `GrantsAreKept` (`GrantsHold`), `NoSeatIsSoldTwice`
  (`GrantsAreDisjoint`), `NothingIsLeftBehind` (`SeatsAreAccountedFor`) and
  `EveryListIsAPrefix` (`ListsArePrefixes`), each as `Spec => []...`, for the
  bounded store implements the open one.

`GrantsHold` says nothing of reservations under way, so it is not inductive: a
rollback could free a seat of a grant. The invariant `IInv` says who holds which
seat. The seats a reservation has taken carry its number (`SeatsHeld`) and belong
to no other reservation, under way or completed (`ReserversApart`,
`GrantsApart`); a seat that is not free has an owner (`SeatsOwned`);
`reservations` is the number of completed reservations and of threads in the
middle of one (`CountersMatch`), so it never falls below zero and a number is
never 0, the mark of a free seat. It does not say that numbers differ: they need
not (after a rollback the next reservation gets the number of one that is still
there, `operations.c:178`), and the proof shows that nothing else depends on it. There is one lemma for each kind of step: those that
change no reservation (`QuietKeeps`), a new event, a number given out, a seat
taken, a reservation completed, one given up. `ListsInv`, on top of it, says
that what a thread has written down is the list up to its node.

Only model-checked, with the reason:

* all liveness (`CallsReturn`, `ClientIsServed`, `JobEnds`, `ProgramEnds`,
  `CallsAreAnswered`, `ClientsFinish`): fairness and ENABLED are out of the
  prover's reach.
* what `ClientReader` makes of a line; it shares its operators with `CommandReader`, but not its
  `parse_uint`.

### 4.2 Plan

Done, in this order: `SeatBooking`, `ServerEvents`, `ClientLine`, `SessionQueue`,
`JobThreads`, `EventStore`, `JobProcess`, `JobThreadsProofs`, `JobProcessProofs`,
`ServerEventsProofs`, `CommandReader`, `ProcessPool`, `JobProgram`,
`JobProgramProofs`, `Conversation`, `ClientReader`, `EmsServer`,
`EventStoreProofs`, `SessionQueueProofs`, `ServerBookingProofs`,
`EmsServerProofs`, the parser's lemmas and the store of the process, the order
that barriers give, the commands of lines. Every safety invariant of a passing
run is a theorem. Next: what `ClientReader` makes of a line, as for `CommandReader`.

### 4.3 Not modelled

`ems_init` and `ems_terminate` as steps (they run before the first and after
the last thread; the server never reaches `ems_terminate`), failing pthread calls
and failing output, the growth of output buffers, the startup errors of both
programs, and the simulated access times with their arithmetic (`operations.c:20`
of the server multiplies microseconds by 1000 into `tv_nsec`): they change how long
a step takes and nothing else.

## 5. Running

    tlc -workers 2 -config server_events.cfg MCServerEvents
    tlapm ServerEventsProofs.tla
    tlapm JobThreadsProofs.tla
    tlapm JobProcessProofs.tla
    tlapm JobProgramProofs.tla
    tlapm EventStoreProofs.tla
    tlapm SessionQueueProofs.tla
    tlapm ServerBookingProofs.tla
    tlapm EmsServerProofs.tla

No run takes more than two or three minutes; the longest proof takes about five.
