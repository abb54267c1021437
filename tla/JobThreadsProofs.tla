-------------------------- MODULE JobThreadsProofs --------------------------
(***************************************************************************)
(* Safety of the job threads for every number of threads and every job     *)
(* file: the inductive invariant Inv, and what follows from it.            *)
(***************************************************************************)
EXTENDS JobThreads, TLAPS

(* BarrierOrder is not inductive: a thread that reads the line after a       *)
(* barrier would break it, and only the flag keeps threads from doing so.    *)
(* Inside the lines a busy thread spans there is no barrier unless it is the *)
(* last line read and the flag is up.                                        *)
NoBarrierInside ==
  \A t \in Threads : Busy(t) =>
    \A b \in line[t] .. pos - 1 : IsBarrier(b) => b = pos - 1 /\ barrier

(* The threads the main thread has joined in this round have returned.       *)
Joined(t) == (mpc = "join" /\ t < mi) \/ mpc = "done"
JoinedHaveExited == \A t \in Threads : Joined(t) => pc[t] = "exited"

(* A thread returns 0 at the end of the file only, and foundBarrier holds    *)
(* what the joined threads returned.                                         *)
ResultsAreTrue ==
  /\ \A t \in Threads : result[t] = 0 => pos = Len(job) + 1
  /\ \A t \in Threads : Joined(t) /\ result[t] = 1 => foundBarrier
  /\ mpc = "done" => ~foundBarrier

Inv == TypeOK /\ NoBarrierInside /\ JoinedHaveExited /\ ResultsAreTrue

-----------------------------------------------------------------------------
(* Every line of the file is a command, and a line on which a thread waits   *)
(* carries a number of milliseconds and, for WAIT d t, an existing thread.   *)
LEMMA LinesAreCommands ==
  ASSUME job \in JobFiles
  PROVE  /\ Len(job) \in Nat /\ DOMAIN job = 1 .. Len(job)
         /\ \A l \in 1 .. Len(job) : job[l] \in Commands
<1>1. job \in Seq(Commands)
  BY FilesAssumption
<1> QED
  BY <1>1

(* AfterFetch sends a thread to WAIT's loop only with what the loop needs.   *)
LEMMA AfterFetchValid ==
  ASSUME NEW c \in Commands
  PROVE  /\ AfterFetch(c) \in {"exec", "wait", "top"}
         /\ AfterFetch(c) = "wait" => ValidWait(c)
         /\ ValidWait(c) => c.delay \in Nat
         /\ c.op = "barrier" => AfterFetch(c) = "top"
<1>1. CASE c \in StoreCommands
  <2>1. c.op \notin {"wait_all", "wait_one", "barrier", "skip"}
    BY <1>1, FilesAssumption
  <2> QED
    BY <1>1, <2>1 DEF AfterFetch, ValidWait
<1>2. CASE c \in ControlCommands /\ c \notin StoreCommands
  BY <1>2 DEF ControlCommands, AfterFetch, ValidWait
<1> QED
  BY <1>1, <1>2 DEF Commands

(* The thread numbers, for steps in which the set itself stays folded.       *)
LEMMA ThreadNumbers ==
  /\ MaxThreads \in Nat
  /\ \A n : n \in Threads <=> n \in Nat /\ 1 <= n /\ n <= MaxThreads
BY ThreadsAssumption DEF Threads

(* Adding a number at one place keeps a function of numbers one.             *)
LEMMA AddKeepsNat ==
  ASSUME NEW S, NEW f \in [S -> Nat], NEW u, NEW d \in Nat
  PROVE  [f EXCEPT ![u] = @ + d] \in [S -> Nat]
<1>1. \A x \in S : f[x] + d \in Nat
  OBVIOUS
<1>2. \A x \in S : [f EXCEPT ![u] = @ + d][x] \in Nat
  BY <1>1
<1> QED
  BY <1>2

(* The WAIT a thread carries out has a number, and a thread to give it to.   *)
LEMMA WaitDelay ==
  ASSUME TypeOK, NEW t \in Threads, pc[t] = "wait"
  PROVE  /\ job[line[t]].delay \in Nat
         /\ job[line[t]].op = "wait_one" => job[line[t]].thread \in Threads
<1>1. /\ Len(job) \in Nat
      /\ \A l \in 1 .. Len(job) : job[l] \in Commands
  BY LinesAreCommands DEF TypeOK
<1>2. line[t] \in 1 .. Len(job) /\ ValidWait(job[line[t]])
  BY <1>1 DEF TypeOK, LineOK, Busy
<1> QED
  BY <1>1, <1>2, AfterFetchValid DEF ValidWait

-----------------------------------------------------------------------------
LEMMA InitInv == Init => Inv
<1> SUFFICES ASSUME Init PROVE Inv
  OBVIOUS
<1>1. Len(job) \in Nat /\ MaxThreads \in Nat
  BY LinesAreCommands, ThreadsAssumption DEF Init
<1>2. \A t \in Threads : LineOK(t)
  BY DEF Init, LineOK, Busy
<1>3. TypeOK
  <2>1. /\ delay \in [Threads -> Nat] /\ asked \in [Threads -> Nat]
        /\ slept \in [Threads -> Nat] /\ line \in [Threads -> Nat]
    BY DEF Init
  <2>2. pc \in [Threads -> {"none", "start", "top", "sleep", "fetch", "exec", "wait", "exited"}]
    BY DEF Init
  <2>3. /\ i \in [Threads -> 1 .. MaxThreads + 1] /\ mi \in 1 .. MaxThreads + 1
        /\ result \in [Threads -> {NoResult, 0, 1}] /\ pos \in 1 .. Len(job) + 1
    BY <1>1 DEF Init, NoResult
  <2> QED
    BY <1>2, <2>1, <2>2, <2>3 DEF Init, TypeOK
<1>4. NoBarrierInside /\ JoinedHaveExited /\ ResultsAreTrue
  BY DEF Init, NoBarrierInside, Busy, JoinedHaveExited, Joined, ResultsAreTrue, NoResult
<1> QED
  BY <1>3, <1>4 DEF Inv

LEMMA TypeStep == TypeOK /\ [Next]_jobVars => TypeOK'
<1> SUFFICES ASSUME TypeOK, [Next]_jobVars PROVE TypeOK'
  OBVIOUS
<1> USE ThreadsAssumption DEF fileVars, delayVars, threadVars, mainVars, Goto, Exit, NoResult
<1>0. /\ Len(job) \in Nat
      /\ \A l \in 1 .. Len(job) : job[l] \in Commands
  BY LinesAreCommands DEF TypeOK
<1>1. ASSUME NEW t \in Threads, Start(t) PROVE TypeOK'
  BY <1>1 DEF TypeOK, LineOK, Busy, Start
<1>2. ASSUME NEW t \in Threads, TakeDelay(t) PROVE TypeOK'
  BY <1>2 DEF TypeOK, LineOK, Busy, TakeDelay
<1>3. ASSUME NEW t \in Threads, Sleep(t) PROVE TypeOK'
  BY <1>3 DEF TypeOK, LineOK, Busy, Sleep
<1>4. ASSUME NEW t \in Threads, NoDelay(t) PROVE TypeOK'
  BY <1>4 DEF TypeOK, LineOK, Busy, NoDelay
<1>5. ASSUME NEW t \in Threads, SeesBarrier(t) PROVE TypeOK'
  BY <1>5 DEF TypeOK, LineOK, Busy, SeesBarrier
<1>6. ASSUME NEW t \in Threads, SeesEnd(t) PROVE TypeOK'
  BY <1>6 DEF TypeOK, LineOK, Busy, SeesEnd
<1>7. ASSUME NEW t \in Threads, Fetch(t) PROVE TypeOK'
  BY <1>7, AfterFetchValid, <1>0 DEF TypeOK, LineOK, Busy, Fetch
<1>8. ASSUME NEW t \in Threads, Execute(t) PROVE TypeOK'
  BY <1>8 DEF TypeOK, LineOK, Busy, Execute
<1>9. ASSUME NEW t \in Threads, WaitOne(t) PROVE TypeOK'
  <2>1. delay' \in [Threads -> Nat] /\ asked' \in [Threads -> Nat]
    BY <1>9, WaitDelay, AddKeepsNat DEF TypeOK, WaitOne, AddDelay
  <2> QED
    BY <1>9, <2>1 DEF TypeOK, LineOK, Busy, WaitOne
<1>10. ASSUME NEW t \in Threads, WaitAll(t) PROVE TypeOK'
  <2>1. delay' \in [Threads -> Nat] /\ asked' \in [Threads -> Nat]
    BY <1>10, WaitDelay, AddKeepsNat DEF TypeOK, WaitAll, AddDelay
  <2>2. i' \in [Threads -> 1 .. MaxThreads + 1]
    BY <1>10, ThreadNumbers DEF TypeOK, WaitAll
  <2> QED
    BY <1>10, <2>1, <2>2 DEF TypeOK, LineOK, Busy, WaitAll
<1>11. ASSUME NEW t \in Threads, WaitAllDone(t) PROVE TypeOK'
  BY <1>11 DEF TypeOK, LineOK, Busy, WaitAllDone
<1>12. CASE MainCreate
  <2>1. mi' \in 1 .. MaxThreads + 1
    BY <1>12 DEF TypeOK, MainCreate
  <2> QED
    BY <1>12, <2>1 DEF TypeOK, LineOK, Busy, MainCreate
<1>13. CASE MainCreated
  BY <1>13, ThreadNumbers DEF TypeOK, LineOK, Busy, MainCreated
<1>14. CASE MainJoin
  BY <1>14, ThreadNumbers DEF TypeOK, LineOK, Busy, MainJoin
<1>15. CASE MainRestart
  <2>1. mi' \in 1 .. MaxThreads + 1
    BY <1>15 DEF MainRestart
  <2>2. barrier' \in BOOLEAN /\ foundBarrier' \in BOOLEAN
    BY <1>15 DEF MainRestart
  <2> QED
    BY <1>15, <2>1, <2>2 DEF TypeOK, LineOK, Busy, MainRestart
<1>16. CASE MainEnd
  BY <1>16, ThreadNumbers DEF TypeOK, LineOK, Busy, MainEnd
<1>17. CASE UNCHANGED jobVars
  BY <1>17 DEF TypeOK, LineOK, Busy, jobVars
<1> QED
  BY <1>1, <1>2, <1>3, <1>4, <1>5, <1>6, <1>7, <1>8, <1>9, <1>10, <1>11, <1>12, <1>13, <1>14, <1>15, <1>16, <1>17 DEF Next, ThreadStep, ControlStep, MainStep, Ended

(* Only reading a line, and taking the flag down, can touch this part.       *)
LEMMA BarrierStep ==
  ASSUME TypeOK, NoBarrierInside, JoinedHaveExited, [Next]_jobVars
  PROVE  NoBarrierInside'
<1> USE DEF fileVars, delayVars, threadVars, mainVars, Goto, Exit
<1>1. ASSUME NEW t \in Threads, Start(t) PROVE NoBarrierInside'
  BY <1>1 DEF TypeOK, NoBarrierInside, Busy, IsBarrier, Start
<1>2. ASSUME NEW t \in Threads, TakeDelay(t) PROVE NoBarrierInside'
  BY <1>2 DEF TypeOK, NoBarrierInside, Busy, IsBarrier, TakeDelay
<1>3. ASSUME NEW t \in Threads, Sleep(t) PROVE NoBarrierInside'
  BY <1>3 DEF TypeOK, NoBarrierInside, Busy, IsBarrier, Sleep
<1>4. ASSUME NEW t \in Threads, NoDelay(t) PROVE NoBarrierInside'
  BY <1>4 DEF TypeOK, NoBarrierInside, Busy, IsBarrier, NoDelay
<1>5. ASSUME NEW t \in Threads, SeesBarrier(t) PROVE NoBarrierInside'
  BY <1>5 DEF TypeOK, NoBarrierInside, Busy, IsBarrier, SeesBarrier
<1>6. ASSUME NEW t \in Threads, SeesEnd(t) PROVE NoBarrierInside'
  BY <1>6 DEF TypeOK, NoBarrierInside, Busy, IsBarrier, SeesEnd
<1>7. ASSUME NEW t \in Threads, Fetch(t) PROVE NoBarrierInside'
  <2>1. Len(job) \in Nat /\ pos \in 1 .. Len(job) /\ job[pos] \in Commands
    BY <1>7, LinesAreCommands DEF TypeOK, Fetch
  <2>2. IsBarrier(pos) => pc'[t] = "top"
    BY <1>7, <2>1, AfterFetchValid DEF TypeOK, IsBarrier, Fetch
  <2> SUFFICES ASSUME NEW u \in Threads, Busy(u)', NEW b \in line'[u] .. pos, IsBarrier(b)
               PROVE  b = pos /\ barrier'
    BY <1>7, <2>1 DEF NoBarrierInside, IsBarrier, Fetch
  <2>3. CASE u = t
    BY <1>7, <2>1, <2>2, <2>3 DEF TypeOK, Busy, Fetch
  <2>4. CASE u # t
    <3>1. Busy(u) /\ line'[u] = line[u] /\ line[u] \in Nat
      BY <1>7, <2>4 DEF TypeOK, Busy, Fetch
    <3>2. b \in line[u] .. pos - 1 => FALSE
      BY <1>7, <2>1, <3>1 DEF NoBarrierInside, Fetch
    <3>3. b = pos
      BY <2>1, <3>1, <3>2
    <3> QED
      BY <1>7, <3>3 DEF IsBarrier, Fetch
  <2> QED
    BY <2>3, <2>4
<1>8. ASSUME NEW t \in Threads, Execute(t) PROVE NoBarrierInside'
  BY <1>8 DEF TypeOK, NoBarrierInside, Busy, IsBarrier, Execute
<1>9. ASSUME NEW t \in Threads, WaitOne(t) PROVE NoBarrierInside'
  BY <1>9 DEF TypeOK, NoBarrierInside, Busy, IsBarrier, WaitOne
<1>10. ASSUME NEW t \in Threads, WaitAll(t) PROVE NoBarrierInside'
  BY <1>10 DEF TypeOK, NoBarrierInside, Busy, IsBarrier, WaitAll
<1>11. ASSUME NEW t \in Threads, WaitAllDone(t) PROVE NoBarrierInside'
  BY <1>11 DEF TypeOK, NoBarrierInside, Busy, IsBarrier, WaitAllDone
<1>12. CASE MainCreate
  BY <1>12 DEF TypeOK, NoBarrierInside, Busy, IsBarrier, MainCreate
<1>13. CASE MainCreated
  BY <1>13 DEF TypeOK, NoBarrierInside, Busy, IsBarrier, MainCreated
<1>14. CASE MainJoin
  BY <1>14 DEF TypeOK, NoBarrierInside, Busy, IsBarrier, MainJoin
<1>15. CASE MainRestart
  <2>1. \A t \in Threads : pc[t] = "exited"
    BY <1>15, ThreadNumbers DEF TypeOK, JoinedHaveExited, Joined, MainRestart
  <2> QED
    BY <1>15, <2>1 DEF NoBarrierInside, Busy, MainRestart
<1>16. CASE MainEnd
  BY <1>16 DEF TypeOK, NoBarrierInside, Busy, IsBarrier, MainEnd
<1>17. CASE UNCHANGED jobVars
  BY <1>17 DEF TypeOK, NoBarrierInside, Busy, IsBarrier, jobVars
<1> QED
  BY <1>1, <1>2, <1>3, <1>4, <1>5, <1>6, <1>7, <1>8, <1>9,
     <1>10, <1>11, <1>12, <1>13, <1>14, <1>15, <1>16, <1>17
  DEF Next, ThreadStep, ControlStep, MainStep, Ended

(* A joined thread takes no step, and nobody is created while main joins.    *)
LEMMA JoinedStep ==
  ASSUME TypeOK, JoinedHaveExited, [Next]_jobVars
  PROVE  JoinedHaveExited'
<1> USE DEF fileVars, delayVars, threadVars, mainVars, Goto, Exit
<1>1. ASSUME NEW t \in Threads, Start(t) PROVE JoinedHaveExited'
  BY <1>1 DEF TypeOK, JoinedHaveExited, Joined, Start
<1>2. ASSUME NEW t \in Threads, TakeDelay(t) PROVE JoinedHaveExited'
  BY <1>2 DEF TypeOK, JoinedHaveExited, Joined, TakeDelay
<1>3. ASSUME NEW t \in Threads, Sleep(t) PROVE JoinedHaveExited'
  BY <1>3 DEF TypeOK, JoinedHaveExited, Joined, Sleep
<1>4. ASSUME NEW t \in Threads, NoDelay(t) PROVE JoinedHaveExited'
  BY <1>4 DEF TypeOK, JoinedHaveExited, Joined, NoDelay
<1>5. ASSUME NEW t \in Threads, SeesBarrier(t) PROVE JoinedHaveExited'
  BY <1>5 DEF TypeOK, JoinedHaveExited, Joined, SeesBarrier
<1>6. ASSUME NEW t \in Threads, SeesEnd(t) PROVE JoinedHaveExited'
  BY <1>6 DEF TypeOK, JoinedHaveExited, Joined, SeesEnd
<1>7. ASSUME NEW t \in Threads, Fetch(t) PROVE JoinedHaveExited'
  BY <1>7 DEF TypeOK, JoinedHaveExited, Joined, Fetch
<1>8. ASSUME NEW t \in Threads, Execute(t) PROVE JoinedHaveExited'
  BY <1>8 DEF TypeOK, JoinedHaveExited, Joined, Execute
<1>9. ASSUME NEW t \in Threads, WaitOne(t) PROVE JoinedHaveExited'
  BY <1>9 DEF TypeOK, JoinedHaveExited, Joined, WaitOne
<1>10. ASSUME NEW t \in Threads, WaitAll(t) PROVE JoinedHaveExited'
  BY <1>10 DEF TypeOK, JoinedHaveExited, Joined, WaitAll
<1>11. ASSUME NEW t \in Threads, WaitAllDone(t) PROVE JoinedHaveExited'
  BY <1>11 DEF TypeOK, JoinedHaveExited, Joined, WaitAllDone
<1>12. CASE MainCreate
  BY <1>12, ThreadNumbers DEF TypeOK, JoinedHaveExited, Joined, MainCreate
<1>13. CASE MainCreated
  BY <1>13, ThreadNumbers DEF TypeOK, JoinedHaveExited, Joined, MainCreated
<1>14. CASE MainJoin
  BY <1>14, ThreadNumbers DEF TypeOK, JoinedHaveExited, Joined, MainJoin
<1>15. CASE MainRestart
  BY <1>15, ThreadNumbers DEF TypeOK, JoinedHaveExited, Joined, MainRestart
<1>16. CASE MainEnd
  BY <1>16, ThreadNumbers DEF TypeOK, JoinedHaveExited, Joined, MainEnd
<1>17. CASE UNCHANGED jobVars
  BY <1>17 DEF TypeOK, JoinedHaveExited, Joined, jobVars
<1> QED
  BY <1>1, <1>2, <1>3, <1>4, <1>5, <1>6, <1>7, <1>8, <1>9,
     <1>10, <1>11, <1>12, <1>13, <1>14, <1>15, <1>16, <1>17
  DEF Next, ThreadStep, ControlStep, MainStep, Ended

(* What the threads returned, and what main makes of it.                     *)
LEMMA ResultsStep ==
  ASSUME TypeOK, JoinedHaveExited, ResultsAreTrue, [Next]_jobVars
  PROVE  ResultsAreTrue'
<1> USE DEF fileVars, delayVars, threadVars, mainVars, Goto, Exit
<1>1. ASSUME NEW t \in Threads, Start(t) PROVE ResultsAreTrue'
  BY <1>1 DEF TypeOK, JoinedHaveExited, ResultsAreTrue, Joined, NoResult, Start
<1>2. ASSUME NEW t \in Threads, TakeDelay(t) PROVE ResultsAreTrue'
  BY <1>2 DEF TypeOK, JoinedHaveExited, ResultsAreTrue, Joined, NoResult, TakeDelay
<1>3. ASSUME NEW t \in Threads, Sleep(t) PROVE ResultsAreTrue'
  BY <1>3 DEF TypeOK, JoinedHaveExited, ResultsAreTrue, Joined, NoResult, Sleep
<1>4. ASSUME NEW t \in Threads, NoDelay(t) PROVE ResultsAreTrue'
  BY <1>4 DEF TypeOK, JoinedHaveExited, ResultsAreTrue, Joined, NoResult, NoDelay
<1>5. ASSUME NEW t \in Threads, SeesBarrier(t) PROVE ResultsAreTrue'
  BY <1>5 DEF TypeOK, JoinedHaveExited, ResultsAreTrue, Joined, NoResult, SeesBarrier
<1>6. ASSUME NEW t \in Threads, SeesEnd(t) PROVE ResultsAreTrue'
  BY <1>6, LinesAreCommands DEF TypeOK, JoinedHaveExited, ResultsAreTrue, Joined, NoResult, SeesEnd
<1>7. ASSUME NEW t \in Threads, Fetch(t) PROVE ResultsAreTrue'
  BY <1>7 DEF TypeOK, JoinedHaveExited, ResultsAreTrue, Joined, NoResult, Fetch
<1>8. ASSUME NEW t \in Threads, Execute(t) PROVE ResultsAreTrue'
  BY <1>8 DEF TypeOK, JoinedHaveExited, ResultsAreTrue, Joined, NoResult, Execute
<1>9. ASSUME NEW t \in Threads, WaitOne(t) PROVE ResultsAreTrue'
  BY <1>9 DEF TypeOK, JoinedHaveExited, ResultsAreTrue, Joined, NoResult, WaitOne
<1>10. ASSUME NEW t \in Threads, WaitAll(t) PROVE ResultsAreTrue'
  BY <1>10 DEF TypeOK, JoinedHaveExited, ResultsAreTrue, Joined, NoResult, WaitAll
<1>11. ASSUME NEW t \in Threads, WaitAllDone(t) PROVE ResultsAreTrue'
  BY <1>11 DEF TypeOK, JoinedHaveExited, ResultsAreTrue, Joined, NoResult, WaitAllDone
<1>12. CASE MainCreate
  BY <1>12, ThreadNumbers DEF TypeOK, JoinedHaveExited, ResultsAreTrue, Joined, NoResult, MainCreate
<1>13. CASE MainCreated
  BY <1>13, ThreadNumbers DEF TypeOK, JoinedHaveExited, ResultsAreTrue, Joined, NoResult, MainCreated
<1>14. CASE MainJoin
  <2>1. \A t \in Threads : Joined(t)' => Joined(t) \/ t = mi
    BY <1>14, ThreadNumbers DEF TypeOK, Joined, MainJoin
  <2>2. result[mi] = 1 => foundBarrier'
    BY <1>14 DEF MainJoin
  <2>3. foundBarrier => foundBarrier'
    BY <1>14 DEF MainJoin
  <2> QED
    BY <1>14, <2>1, <2>2, <2>3 DEF ResultsAreTrue, MainJoin
<1>15. CASE MainRestart
  BY <1>15, ThreadNumbers DEF TypeOK, JoinedHaveExited, ResultsAreTrue, Joined, NoResult, MainRestart
<1>16. CASE MainEnd
  BY <1>16, ThreadNumbers DEF TypeOK, JoinedHaveExited, ResultsAreTrue, Joined, NoResult, MainEnd
<1>17. CASE UNCHANGED jobVars
  BY <1>17 DEF TypeOK, JoinedHaveExited, ResultsAreTrue, Joined, NoResult, jobVars
<1> QED
  BY <1>1, <1>2, <1>3, <1>4, <1>5, <1>6, <1>7, <1>8, <1>9,
     <1>10, <1>11, <1>12, <1>13, <1>14, <1>15, <1>16, <1>17
  DEF Next, ThreadStep, ControlStep, MainStep, Ended

(* A delay grows together with asked, and moves as a whole to slept.         *)
LEMMA DelaysStep ==
  ASSUME TypeOK, DelaysAreKept, [Next]_jobVars
  PROVE  DelaysAreKept'
<1> USE DEF fileVars, delayVars, threadVars, mainVars, Goto, Exit
<1>1. ASSUME NEW t \in Threads, Start(t) PROVE DelaysAreKept'
  BY <1>1 DEF TypeOK, DelaysAreKept, Start
<1>2. ASSUME NEW t \in Threads, TakeDelay(t) PROVE DelaysAreKept'
  BY <1>2 DEF TypeOK, DelaysAreKept, TakeDelay
<1>3. ASSUME NEW t \in Threads, Sleep(t) PROVE DelaysAreKept'
  BY <1>3 DEF TypeOK, DelaysAreKept, Sleep
<1>4. ASSUME NEW t \in Threads, NoDelay(t) PROVE DelaysAreKept'
  BY <1>4 DEF TypeOK, DelaysAreKept, NoDelay
<1>5. ASSUME NEW t \in Threads, SeesBarrier(t) PROVE DelaysAreKept'
  BY <1>5 DEF TypeOK, DelaysAreKept, SeesBarrier
<1>6. ASSUME NEW t \in Threads, SeesEnd(t) PROVE DelaysAreKept'
  BY <1>6 DEF TypeOK, DelaysAreKept, SeesEnd
<1>7. ASSUME NEW t \in Threads, Fetch(t) PROVE DelaysAreKept'
  BY <1>7 DEF TypeOK, DelaysAreKept, Fetch
<1>8. ASSUME NEW t \in Threads, Execute(t) PROVE DelaysAreKept'
  BY <1>8 DEF TypeOK, DelaysAreKept, Execute
<1>9. ASSUME NEW t \in Threads, WaitOne(t) PROVE DelaysAreKept'
  <2>1. job[line[t]].delay \in Nat /\ job[line[t]].thread \in Threads
    BY <1>9, WaitDelay DEF WaitOne
  <2>2. PICK u \in Threads, d \in Nat : /\ delay' = [delay EXCEPT ![u] = @ + d]
                                        /\ asked' = [asked EXCEPT ![u] = @ + d]
    BY <1>9, <2>1 DEF WaitOne, AddDelay
  <2> QED
    BY <1>9, <2>2 DEF TypeOK, DelaysAreKept, WaitOne
<1>10. ASSUME NEW t \in Threads, WaitAll(t) PROVE DelaysAreKept'
  <2>1. job[line[t]].delay \in Nat
    BY <1>10, WaitDelay DEF WaitAll
  <2> QED
    BY <1>10, <2>1 DEF TypeOK, DelaysAreKept, WaitAll, AddDelay
<1>11. ASSUME NEW t \in Threads, WaitAllDone(t) PROVE DelaysAreKept'
  BY <1>11 DEF TypeOK, DelaysAreKept, WaitAllDone
<1>12. CASE MainCreate
  BY <1>12 DEF TypeOK, DelaysAreKept, MainCreate
<1>13. CASE MainCreated
  BY <1>13 DEF TypeOK, DelaysAreKept, MainCreated
<1>14. CASE MainJoin
  BY <1>14 DEF TypeOK, DelaysAreKept, MainJoin
<1>15. CASE MainRestart
  BY <1>15 DEF TypeOK, DelaysAreKept, MainRestart
<1>16. CASE MainEnd
  BY <1>16 DEF TypeOK, DelaysAreKept, MainEnd
<1>17. CASE UNCHANGED jobVars
  BY <1>17 DEF TypeOK, DelaysAreKept, jobVars
<1> QED
  BY <1>1, <1>2, <1>3, <1>4, <1>5, <1>6, <1>7, <1>8, <1>9,
     <1>10, <1>11, <1>12, <1>13, <1>14, <1>15, <1>16, <1>17
  DEF Next, ThreadStep, ControlStep, MainStep, Ended

-----------------------------------------------------------------------------
LEMMA InvStep == Inv /\ [Next]_jobVars => Inv'
BY TypeStep, BarrierStep, JoinedStep, ResultsStep DEF Inv

LEMMA InvHolds == Spec => []Inv
BY InitInv, InvStep, PTL DEF Spec

(* Type correctness, and that a WAIT never adds to a thread that does not    *)
(* exist (main.c:349).                                                       *)
THEOREM Typed == Spec => []TypeOK
BY InvHolds, PTL DEF Inv

(* BARRIER separates the commands before it from those after it, for every   *)
(* number of threads and every file (main.c:182-217, 269-274, 382-386).      *)
THEOREM BarriersSeparate == Spec => []BarrierOrder
<1>1. Inv => BarrierOrder
  BY DEF Inv, NoBarrierInside, BarrierOrder
<1> QED
  BY <1>1, InvHolds, PTL

(* A file is never left half processed while a thread of the last round had  *)
(* memory to run (main.c:200-216, 392-395).                                  *)
THEOREM NothingIsSkipped == Spec => []AllLinesRead
<1>1. Inv => AllLinesRead
  BY DEF Inv, TypeOK, JoinedHaveExited, ResultsAreTrue, Joined, AllLinesRead, NoResult
<1> QED
  BY <1>1, InvHolds, PTL

(* What WAIT orders is slept or still to be slept, never lost                *)
(* (main.c:253-266, 342-346, 353-355).                                       *)
THEOREM DelaysConserved == Spec => []DelaysAreKept
<1>1. Init => DelaysAreKept
  BY DEF Init, DelaysAreKept
<1>2. TypeOK /\ DelaysAreKept /\ [Next]_jobVars => DelaysAreKept'
  BY DelaysStep
<1> QED
  BY <1>1, <1>2, Typed, PTL DEF Spec
=============================================================================
