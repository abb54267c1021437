----------------------------- MODULE JobThreads -----------------------------
(***************************************************************************)
(* How one child process of proj1 runs a job file (proj1/main.c,           *)
(* child_code and thread_function).  MAX_THREADS threads read the next     *)
(* command of the file under `mutex` and execute it outside; WAIT adds to  *)
(* the delay of one thread or of all; at BARRIER every thread returns and  *)
(* the main thread, having joined them all, starts them again.             *)
(*                                                                         *)
(* The commands of the event store take one step here.  JobProcess puts    *)
(* the store (EventStore) in their place.                                  *)
(***************************************************************************)
EXTENDS Integers, Sequences

CONSTANTS MaxThreads,     \* MAX_THREADS, the third argument of the program
          StoreCommands,  \* the CREATE, RESERVE, SHOW and LIST commands
          JobFiles,       \* the job files: what each line of one parses to
          MallocFails     \* whether a thread's first malloc may return NULL

(* WAIT d, WAIT d t, BARRIER, and every line that does nothing: a comment,   *)
(* an empty line, HELP, a line that does not parse.                          *)
ControlCommands ==
  [op : {"wait_all"}, delay : Nat]
    \cup [op : {"wait_one"}, delay : Nat, thread : Nat]
    \cup [op : {"barrier", "skip"}]

Commands == StoreCommands \cup ControlCommands

ASSUME ThreadsAssumption == MaxThreads \in Nat /\ MallocFails \in BOOLEAN
ASSUME FilesAssumption ==
  /\ \A c \in StoreCommands : c.op \notin {"wait_all", "wait_one", "barrier", "skip"}
  /\ JobFiles \subseteq Seq(Commands)

Threads  == 1 .. MaxThreads   \* thread_id + 1, the number WAIT uses
NoResult == -1                \* a thread returned NULL

VARIABLES job,            \* the file
          pos,            \* where fdR is: the next line to read
          barrier,        \* data->barrier
          delay,          \* data->threads[t].delay
          pc, line, i,    \* of each thread: where it is, the line it read last,
                          \* the loop counter of WAIT for all threads
          result,         \* what it returned
          mpc, mi,        \* where the main thread is, its loop counter
          foundBarrier,
          asked, slept    \* ghosts: the delays given to a thread, those it slept

fileVars   == <<job, pos, barrier>>
delayVars  == <<delay, asked, slept>>
threadVars == <<pc, line, i, result>>
mainVars   == <<mpc, mi, foundBarrier>>
jobVars    == <<fileVars, delayVars, threadVars, mainVars>>

Init ==
  /\ job \in JobFiles /\ pos = 1 /\ barrier = FALSE
  /\ delay = [t \in Threads |-> 0]
  /\ asked = [t \in Threads |-> 0] /\ slept = [t \in Threads |-> 0]
  /\ pc = [t \in Threads |-> "none"]
  /\ line = [t \in Threads |-> 0]
  /\ i = [t \in Threads |-> 1]
  /\ result = [t \in Threads |-> NoResult]
  /\ mpc = "create" /\ mi = 1 /\ foundBarrier = FALSE

Goto(t, label) == pc' = [pc EXCEPT ![t] = label]
Exit(t, r)     == Goto(t, "exited") /\ result' = [result EXCEPT ![t] = r]

-----------------------------------------------------------------------------
(* thread_function *)

Start(t) ==
  /\ pc[t] = "start"
  /\ \/ Goto(t, "top") /\ UNCHANGED result
     \/ MallocFails /\ Exit(t, NoResult)
  /\ UNCHANGED <<fileVars, delayVars, line, i, mainVars>>

(* Under mutex_wait_thread: a delay is taken and reset in one step. *)
TakeDelay(t) ==
  /\ pc[t] = "top" /\ delay[t] # 0
  /\ delay' = [delay EXCEPT ![t] = 0]
  /\ slept' = [slept EXCEPT ![t] = @ + delay[t]]
  /\ Goto(t, "sleep")
  /\ UNCHANGED <<fileVars, asked, line, i, result, mainVars>>

(* Mutant of Sleep: the delay is reset after the sleep. *)
SleepThenReset(t) ==
  /\ pc[t] = "sleep"
  /\ Goto(t, "top")
  /\ delay' = [delay EXCEPT ![t] = 0]
  /\ UNCHANGED <<fileVars, asked, slept, line, i, result, mainVars>>

Sleep(t) ==
  /\ pc[t] = "sleep"
  /\ Goto(t, "top")
  /\ UNCHANGED <<fileVars, delayVars, line, i, result, mainVars>>

NoDelay(t) ==
  /\ pc[t] = "top" /\ delay[t] = 0
  /\ Goto(t, "fetch")
  /\ UNCHANGED <<fileVars, delayVars, line, i, result, mainVars>>

SeesBarrier(t) ==
  /\ pc[t] = "fetch" /\ barrier
  /\ Exit(t, 1)
  /\ UNCHANGED <<fileVars, delayVars, line, i, mainVars>>

(* Mutant of SeesEnd: the end of the file returns what a barrier returns. *)
SeesEndAsBarrier(t) ==
  /\ pc[t] = "fetch" /\ ~barrier /\ pos > Len(job)
  /\ Exit(t, 1)
  /\ UNCHANGED <<fileVars, delayVars, line, i, mainVars>>

SeesEnd(t) ==
  /\ pc[t] = "fetch" /\ ~barrier /\ pos > Len(job)
  /\ Exit(t, 0)
  /\ UNCHANGED <<fileVars, delayVars, line, i, mainVars>>

(* Mutant of AfterFetch: the thread number of WAIT is not checked. *)
AfterFetchAnyThread(c) ==
  IF c \in StoreCommands THEN "exec"
  ELSE IF c.op \in {"wait_all", "wait_one"} /\ c.delay > 0 THEN "wait" ELSE "top"

(* Where a command leads: the store, the loop of WAIT, or the next command.  *)
AfterFetch(c) ==
  IF c \in StoreCommands THEN "exec"
  ELSE IF \/ c.op = "wait_all" /\ c.delay > 0
          \/ c.op = "wait_one" /\ c.delay > 0 /\ c.thread \in Threads
       THEN "wait"
       ELSE "top"

(* Mutant of Fetch: the barrier flag is not looked at. *)
FetchThroughBarrier(t) ==
  /\ pc[t] = "fetch" /\ pos <= Len(job)
  /\ pos' = pos + 1
  /\ line' = [line EXCEPT ![t] = pos]
  /\ barrier' = (barrier \/ job[pos].op = "barrier")
  /\ i' = [i EXCEPT ![t] = 1]
  /\ Goto(t, AfterFetch(job[pos]))
  /\ UNCHANGED <<job, delayVars, result, mainVars>>

(* get_next and the parse_ function, under `mutex`. *)
Fetch(t) ==
  /\ pc[t] = "fetch" /\ ~barrier /\ pos <= Len(job)
  /\ pos' = pos + 1
  /\ line' = [line EXCEPT ![t] = pos]
  /\ barrier' = (job[pos].op = "barrier")
  /\ i' = [i EXCEPT ![t] = 1]
  /\ Goto(t, AfterFetch(job[pos]))
  /\ UNCHANGED <<job, delayVars, result, mainVars>>

Execute(t) ==
  /\ pc[t] = "exec"
  /\ Goto(t, "top")
  /\ UNCHANGED <<fileVars, delayVars, line, i, result, mainVars>>

AddDelay(u, d) ==
  /\ delay' = [delay EXCEPT ![u] = @ + d]
  /\ asked' = [asked EXCEPT ![u] = @ + d]

WaitOne(t) ==
  /\ pc[t] = "wait" /\ job[line[t]].op = "wait_one"
  /\ AddDelay(job[line[t]].thread, job[line[t]].delay)
  /\ Goto(t, "top")
  /\ UNCHANGED <<fileVars, slept, line, i, result, mainVars>>

(* One thread after the other, each under its own mutex_wait_thread. *)
WaitAll(t) ==
  /\ pc[t] = "wait" /\ job[line[t]].op = "wait_all" /\ i[t] <= MaxThreads
  /\ AddDelay(i[t], job[line[t]].delay)
  /\ i' = [i EXCEPT ![t] = @ + 1]
  /\ UNCHANGED <<fileVars, slept, pc, line, result, mainVars>>

WaitAllDone(t) ==
  /\ pc[t] = "wait" /\ job[line[t]].op = "wait_all" /\ i[t] > MaxThreads
  /\ Goto(t, "top")
  /\ UNCHANGED <<fileVars, delayVars, line, i, result, mainVars>>

-----------------------------------------------------------------------------
(* child_code: the loop that creates and joins the threads. *)

MainCreate ==
  /\ mpc = "create" /\ mi <= MaxThreads
  /\ Goto(mi, "start")
  /\ mi' = mi + 1
  /\ UNCHANGED <<fileVars, delayVars, line, i, result, mpc, foundBarrier>>

MainCreated ==
  /\ mpc = "create" /\ mi > MaxThreads
  /\ mpc' = "join" /\ mi' = 1
  /\ UNCHANGED <<fileVars, delayVars, threadVars, foundBarrier>>

MainJoin ==
  /\ mpc = "join" /\ mi <= MaxThreads
  /\ pc[mi] = "exited"
  /\ foundBarrier' = (foundBarrier \/ result[mi] = 1)
  /\ mi' = mi + 1
  /\ UNCHANGED <<fileVars, delayVars, threadVars, mpc>>

(* Mutant of MainRestart: it does not wait for the threads still running. *)
MainRestartsEarly ==
  /\ mpc = "join" /\ foundBarrier
  /\ mpc' = "create" /\ mi' = 1
  /\ barrier' = FALSE /\ foundBarrier' = FALSE
  /\ UNCHANGED <<job, pos, delayVars, threadVars>>

MainRestart ==
  /\ mpc = "join" /\ mi > MaxThreads /\ foundBarrier
  /\ mpc' = "create" /\ mi' = 1
  /\ barrier' = FALSE /\ foundBarrier' = FALSE
  /\ UNCHANGED <<job, pos, delayVars, threadVars>>

(* Mutant of MainEnd: one round is enough. *)
MainEndsAfterOneRound ==
  /\ mpc = "join" /\ mi > MaxThreads
  /\ mpc' = "done"
  /\ UNCHANGED <<fileVars, delayVars, threadVars, mi, foundBarrier>>

MainEnd ==
  /\ mpc = "join" /\ mi > MaxThreads /\ ~foundBarrier
  /\ mpc' = "done"
  /\ UNCHANGED <<fileVars, delayVars, threadVars, mi, foundBarrier>>

-----------------------------------------------------------------------------
(* What a thread does apart from fetching commands and executing those of    *)
(* the store.                                                                *)
ControlStep(t) ==
  \/ Start(t) \/ TakeDelay(t) \/ Sleep(t) \/ NoDelay(t) \/ SeesBarrier(t)
  \/ SeesEnd(t) \/ WaitOne(t) \/ WaitAll(t) \/ WaitAllDone(t)

ThreadStep(t) == ControlStep(t) \/ Fetch(t) \/ Execute(t)

MainStep == MainCreate \/ MainCreated \/ MainJoin \/ MainRestart \/ MainEnd

Ended == mpc = "done" /\ UNCHANGED jobVars

Next == (\E t \in Threads : ThreadStep(t)) \/ MainStep \/ Ended

Spec == Init /\ [][Next]_jobVars

(* Every thread that can run does run; a sleep and a store command end.      *)
FairSpec ==
  /\ Spec
  /\ WF_jobVars(MainStep)
  /\ \A t \in Threads : WF_jobVars(ThreadStep(t))

-----------------------------------------------------------------------------
(* Properties *)

Busy(t) == pc[t] \in {"exec", "wait"}

(* A thread that executes a line has read it; a WAIT that is carried out has *)
(* a positive delay, and a thread number the code accepts.                   *)
ValidWait(c) ==
  /\ c.op \in {"wait_all", "wait_one"} /\ c.delay > 0
  /\ c.op = "wait_one" => c.thread \in Threads
LineOK(t) ==
  /\ Busy(t) => line[t] \in 1 .. pos - 1
  /\ pc[t] = "wait" => ValidWait(job[line[t]])

(* Every variable has its type, and every thread a line it may execute.      *)
TypeOK ==
  /\ job \in JobFiles /\ pos \in 1 .. Len(job) + 1 /\ barrier \in BOOLEAN
  /\ delay \in [Threads -> Nat] /\ asked \in [Threads -> Nat] /\ slept \in [Threads -> Nat]
  /\ pc \in [Threads -> {"none", "start", "top", "sleep", "fetch", "exec", "wait", "exited"}]
  /\ line \in [Threads -> Nat]
  /\ i \in [Threads -> 1 .. MaxThreads + 1]
  /\ result \in [Threads -> {NoResult, 0, 1}]
  /\ mpc \in {"create", "join", "done"} /\ mi \in 1 .. MaxThreads + 1
  /\ foundBarrier \in BOOLEAN
  /\ \A t \in Threads : LineOK(t)

IsBarrier(l) == job[l].op = "barrier"

(* BARRIER: while a command from before a barrier is executed, no line after *)
(* that barrier has been read (lines 182-217, 268-274, 382-386).             *)
BarrierOrder ==
  \A t \in Threads : Busy(t) =>
    \A b \in line[t] .. pos - 1 : IsBarrier(b) => b = pos - 1

(* The process ends only when the whole file was read and every command has  *)
(* returned, if in the last round any thread got its memory.                 *)
AllLinesRead ==
  mpc = "done" =>
    /\ \A t \in Threads : pc[t] = "exited"
    /\ (\E t \in Threads : result[t] # NoResult) => pos = Len(job) + 1

(* No delay is lost or served twice, although a thread resets its delay      *)
(* while others add to it.                                                   *)
DelaysAreKept == \A t \in Threads : delay[t] + slept[t] = asked[t]

(* A file is always processed to its end: barriers, sleeps and joins never   *)
(* block each other.                                                         *)
JobEnds == <>(mpc = "done")
=============================================================================
