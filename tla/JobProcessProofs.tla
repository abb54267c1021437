-------------------------- MODULE JobProcessProofs --------------------------
(***************************************************************************)
(* A child process with the real event store behaves as the job threads    *)
(* with one-step commands do, and uses the store as any program may, for   *)
(* every number of threads, every file and every store command; so what is *)
(* proved of the two holds of the process.  Then: a file in which every     *)
(* command is between two BARRIERs is executed in the order it is written.  *)
(***************************************************************************)
EXTENDS JobProcess, JobThreadsProofs, SequenceTheorems, WellFoundedInduction,
        FiniteSetTheorems

StoreProofs == INSTANCE EventStoreProofs
                 WITH Calls <- StoreCalls, pc <- spc, left <- 0, MaxCalls <- 0

(* A step of a thread is a step of JobThreads, or it is inside the store and *)
(* invisible there.                                                          *)
LEMMA ProcessStepRefines ==
  ASSUME NEW t \in Threads, ProcessStep(t)
  PROVE  ThreadStep(t) \/ UNCHANGED jobVars
<1>1. CASE FetchAndCall(t)
  BY <1>1 DEF FetchAndCall, ThreadStep
<1>2. CASE InStore(t)
  BY <1>2 DEF InStore
<1>3. CASE Returned(t)
  BY <1>3 DEF Returned, ThreadStep
<1>4. CASE ControlStep(t) /\ UNCHANGED storeVars
  BY <1>4 DEF ThreadStep
<1> QED
  BY <1>1, <1>2, <1>3, <1>4 DEF ProcessStep

LEMMA NextRefines == [ProcessNext]_processVars => [Next]_jobVars
<1> SUFFICES ASSUME [ProcessNext]_processVars
             PROVE  [Next]_jobVars
  OBVIOUS
<1>1. CASE \E t \in Threads : ProcessStep(t)
  BY <1>1, ProcessStepRefines DEF Next
<1>2. CASE ProcessMain
  BY <1>2 DEF ProcessMain, Next
<1>3. CASE Ended /\ UNCHANGED storeVars
  BY <1>3 DEF Next
<1>4. CASE UNCHANGED processVars
  BY <1>4 DEF processVars
<1> QED
  BY <1>1, <1>2, <1>3, <1>4 DEF ProcessNext

-----------------------------------------------------------------------------
(* qsort puts the coordinates of every request in order. *)

Places   == Nat \X Nat
Sortable(s) == \E r \in Reordered(s) : Ascending(r)

LEMMA LeastNumber ==
  ASSUME NEW S \in SUBSET Nat, S # {}
  PROVE  \E m \in S : \A n \in S : m <= n
<1>1. PICK m \in S : \A n \in S : ~(<<n, m>> \in OpToRel(<, Nat))
  BY NatLessThanWellFounded, WFMin
<1>2. \A n, j \in Nat : <<n, j>> \in OpToRel(<, Nat) <=> n < j
  BY DEF OpToRel
<1>3. \A n \in S : ~(n < m)
  BY <1>1, <1>2
<1> QED
  BY <1>3

(* Some coordinate of a request has no other before it. *)
LEMMA FirstPlace ==
  ASSUME NEW s \in Seq(Places), s # <<>>
  PROVE  \E m \in DOMAIN s : \A n \in DOMAIN s : ~Before(s[n], s[m])
<1>1. \A n \in DOMAIN s : s[n][1] \in Nat /\ s[n][2] \in Nat
  BY DEF Places
<1>2. 1 \in DOMAIN s
  BY EmptySeq
<1>3. PICK x \in {s[n][1] : n \in DOMAIN s} : \A z \in {s[n][1] : n \in DOMAIN s} : x <= z
  <2>1. {s[n][1] : n \in DOMAIN s} \in SUBSET Nat /\ {s[n][1] : n \in DOMAIN s} # {}
    BY <1>1, <1>2
  <2> QED
    BY <2>1, LeastNumber
<1>4. PICK D : D = {n \in DOMAIN s : s[n][1] = x}
  OBVIOUS
<1>5. PICK y \in {s[n][2] : n \in D} : \A z \in {s[n][2] : n \in D} : y <= z
  <2>1. {s[n][2] : n \in D} \in SUBSET Nat /\ {s[n][2] : n \in D} # {}
    BY <1>1, <1>3, <1>4
  <2> QED
    BY <2>1, LeastNumber
<1>6. PICK m \in D : s[m][2] = y
  BY <1>5
<1>7. ASSUME NEW n \in DOMAIN s
      PROVE  ~Before(s[n], s[m])
  <2>1. s[m][1] = x /\ x \in Nat /\ y \in Nat
    BY <1>1, <1>4, <1>6
  <2>2. x <= s[n][1]
    BY <1>3
  <2>3. s[n][1] = x => y <= s[n][2]
    BY <1>4, <1>5
  <2> QED
    BY <1>1, <1>6, <2>1, <2>2, <2>3 DEF Before
<1> QED
  BY <1>4, <1>7

(* The first coordinate, put in front of the others in order, is in order.   *)
LEMMA SortedBehindFirst ==
  ASSUME NEW s \in Seq(Places), NEW m \in DOMAIN s, NEW rest \in Seq(Places),
         \A n \in DOMAIN s : ~Before(s[n], s[m]),
         Len(rest) = Len(s) - 1,
         \A n \in DOMAIN rest : rest[n] = (IF n + 1 = m THEN s[1] ELSE s[n + 1]),
         Sortable(rest)
  PROVE  Sortable(s)
<1>1. PICK L \in Nat : L = Len(s) /\ L > 0
  BY EmptySeq
<1>2. DOMAIN s = 1 .. L /\ DOMAIN rest = 1 .. L - 1
  BY <1>1
<1>3. PICK r \in Reordered(rest) : Ascending(r)
  BY DEF Sortable
<1>4. PICK f \in Orders(1 .. L - 1) : r = [n \in 1 .. L - 1 |-> rest[f[n]]]
  BY <1>2, <1>3 DEF Reordered
<1>5. /\ \A n \in 1 .. L - 1 : f[n] \in 1 .. L - 1 /\ r[n] = rest[f[n]]
      /\ \A v \in 1 .. L - 1 : \E w \in 1 .. L - 1 : f[w] = v
  BY <1>4 DEF Orders
<1> DEFINE g == [n \in 1 .. L |->
                   IF n = 1 THEN m ELSE IF f[n - 1] + 1 = m THEN 1 ELSE f[n - 1] + 1]
           q == [n \in 1 .. L |-> s[g[n]]]
<1>6. /\ g[1] = m /\ 1 \in 1 .. L
      /\ \A n \in 1 .. L - 1 : g[n + 1] = (IF f[n] + 1 = m THEN 1 ELSE f[n] + 1)
  BY <1>1
<1> HIDE DEF g
<1>7. ASSUME NEW n \in 1 .. L
      PROVE  g[n] \in 1 .. L
  <2>1. CASE n = 1
    BY <1>2, <1>6, <2>1
  <2>2. CASE n # 1
    <3>1. PICK n0 \in 1 .. L - 1 : n = n0 + 1
      <4>1. n - 1 \in 1 .. L - 1 /\ n = (n - 1) + 1
        BY <1>1, <2>2
      <4> QED
        BY <4>1
    <3>2. f[n0] + 1 \in 1 .. L
      <4>1. f[n0] \in 1 .. L - 1
        BY <1>5
      <4> QED
        BY <1>1, <4>1
    <3>3. g[n] = (IF f[n0] + 1 = m THEN 1 ELSE f[n0] + 1)
      BY <1>6, <3>1
    <3> QED
      BY <1>6, <3>2, <3>3
  <2> QED
    BY <2>1, <2>2
<1>8. ASSUME NEW v \in 1 .. L
      PROVE  \E w \in 1 .. L : g[w] = v
  <2>1. CASE v = m
    BY <1>6, <2>1
  <2>2. CASE v # m
    <3>1. PICK u \in 1 .. L - 1 : u + 1 = (IF v = 1 THEN m ELSE v)
      <4>1. CASE v = 1
        <5>1. m - 1 \in 1 .. L - 1 /\ (m - 1) + 1 = m
          BY <1>1, <1>2, <2>2, <4>1
        <5> QED
          BY <4>1, <5>1
      <4>2. CASE v # 1
        <5>1. v - 1 \in 1 .. L - 1 /\ (v - 1) + 1 = v
          BY <1>1, <4>2
        <5> QED
          BY <4>2, <5>1
      <4> QED
        BY <4>1, <4>2
    <3>2. PICK w \in 1 .. L - 1 : f[w] = u
      BY <1>5
    <3>3. w + 1 \in 1 .. L /\ g[w + 1] = v
      BY <1>1, <1>6, <2>2, <3>1, <3>2
    <3> QED
      BY <3>3
  <2> QED
    BY <2>1, <2>2
<1>9. g \in Orders(1 .. L)
  <2>1. g \in [1 .. L -> 1 .. L]
    BY <1>7 DEF g
  <2> QED
    BY <1>8, <2>1 DEF Orders
<1>10. q \in Reordered(s)
  BY <1>2, <1>9 DEF Reordered
<1>11. DOMAIN q = 1 .. L /\ \A n \in 1 .. L : q[n] = s[g[n]]
  OBVIOUS
<1>12. \A n \in 1 .. L - 1 : q[n + 1] = r[n]
  <2> SUFFICES ASSUME NEW n \in 1 .. L - 1 PROVE q[n + 1] = r[n]
    OBVIOUS
  <2>1. n + 1 \in 1 .. L /\ r[n] = rest[f[n]] /\ f[n] \in 1 .. L - 1
    BY <1>1, <1>5
  <2>2. rest[f[n]] = (IF f[n] + 1 = m THEN s[1] ELSE s[f[n] + 1])
    BY <1>2, <2>1
  <2> QED
    BY <1>6, <1>11, <2>1, <2>2
<1> HIDE DEF q
<1>13. ASSUME NEW a \in 1 .. L, NEW b \in 1 .. L, a < b
       PROVE  ~Before(q[b], q[a])
  <2>1. CASE a = 1
    BY <1>2, <1>6, <1>7, <1>11, <2>1
  <2>2. CASE a # 1
    <3>1. PICK a0, b0 \in 1 .. L - 1 : a = a0 + 1 /\ b = b0 + 1 /\ a0 < b0
      <4>1. a - 1 \in 1 .. L - 1 /\ b - 1 \in 1 .. L - 1 /\ a - 1 < b - 1
        BY <1>1, <1>13, <2>2
      <4>2. a = (a - 1) + 1 /\ b = (b - 1) + 1
        BY <1>1
      <4> QED
        BY <4>1, <4>2
    <3>2. ~Before(r[b0], r[a0])
      BY <1>3, <1>4, <3>1 DEF Ascending
    <3> QED
      BY <1>12, <3>1, <3>2
  <2> QED
    BY <2>1, <2>2
<1> QED
  BY <1>10, <1>11, <1>13 DEF Sortable, Ascending

LEMMA EveryRequestSorts == \A s \in Seq(Places) : Sortable(s)
<1> DEFINE Bad == {n \in Nat : \E s \in Seq(Places) : Len(s) = n /\ ~Sortable(s)}
<1>1. SUFFICES ASSUME Bad # {} PROVE FALSE
  <2>1. ASSUME NEW s \in Seq(Places) PROVE Len(s) \in Nat
    OBVIOUS
  <2> QED
    BY <1>1, <2>1
<1>2. PICK L \in Bad : \A n \in Bad : L <= n
  BY <1>1, LeastNumber
<1>3. PICK s \in Seq(Places) : Len(s) = L /\ ~Sortable(s)
  OBVIOUS
<1>4. s # <<>>
  <2> SUFFICES ASSUME s = <<>> PROVE Sortable(s)
    BY <1>3
  <2>1. DOMAIN s = {}
    OBVIOUS
  <2>2. PICK f : f = [n \in {} |-> n]
    OBVIOUS
  <2>3. f \in Orders(DOMAIN s)
    BY <2>1, <2>2 DEF Orders
  <2>4. [n \in DOMAIN s |-> s[f[n]]] \in Reordered(s)
    BY <2>3 DEF Reordered
  <2>5. Ascending([n \in DOMAIN s |-> s[f[n]]])
    BY <2>1 DEF Ascending
  <2> QED
    BY <2>4, <2>5 DEF Sortable
<1>5. PICK m \in DOMAIN s : \A n \in DOMAIN s : ~Before(s[n], s[m])
  BY <1>4, FirstPlace
<1>6. L \in Nat /\ L > 0
  BY <1>3, <1>4, EmptySeq
<1>7. PICK rest : rest = [n \in 1 .. L - 1 |-> IF n + 1 = m THEN s[1] ELSE s[n + 1]]
  OBVIOUS
<1>8. rest \in Seq(Places) /\ Len(rest) = L - 1
  <2>1. \A n \in 1 .. L - 1 : s[n + 1] \in Places /\ s[1] \in Places
    BY <1>3, <1>6
  <2>2. rest \in [1 .. L - 1 -> Places] /\ L - 1 \in Nat
    BY <1>6, <1>7, <2>1
  <2> QED
    BY <2>2
<1>9. Sortable(rest)
  <2>1. L - 1 \notin Bad
    BY <1>2, <1>6
  <2> QED
    BY <1>6, <1>8, <2>1
<1> HIDE DEF Bad
<1>10. \A n \in DOMAIN rest : rest[n] = (IF n + 1 = m THEN s[1] ELSE s[n + 1])
  BY <1>7
<1> QED
  BY <1>3, <1>5, <1>8, <1>9, <1>10, SortedBehindFirst

(* qsort returns the same coordinates, in order.                             *)
LEMMA QsortSorts ==
  ASSUME NEW s \in Seq(Places)
  PROVE  qsort(s) \in Reordered(s) /\ Ascending(qsort(s))
  BY EveryRequestSorts DEF Sortable, qsort

LEMMA QsortKeepsSeats ==
  ASSUME NEW s \in Seq(Places)
  PROVE  /\ qsort(s) \in Seq(Places) /\ Len(qsort(s)) = Len(s)
         /\ \A p : (\E n \in DOMAIN s : s[n] = p)
                  <=> (\E n \in DOMAIN qsort(s) : qsort(s)[n] = p)
<1>1. PICK f \in Orders(1 .. Len(s)) : qsort(s) = [n \in 1 .. Len(s) |-> s[f[n]]]
  BY QsortSorts DEF Reordered
<1>2. /\ \A n \in 1 .. Len(s) : f[n] \in 1 .. Len(s)
      /\ \A v \in 1 .. Len(s) : \E w \in 1 .. Len(s) : f[w] = v
  BY DEF Orders
<1>3. DOMAIN s = 1 .. Len(s) /\ DOMAIN qsort(s) = 1 .. Len(s)
  BY <1>1
<1>4. qsort(s) \in [1 .. Len(s) -> Places] /\ Len(s) \in Nat
  BY <1>1, <1>2
<1>5. qsort(s) \in Seq(Places) /\ Len(qsort(s)) = Len(s)
  BY <1>4
<1>6. \A n \in 1 .. Len(s) : qsort(s)[n] = s[f[n]]
  BY <1>1
<1>7. ASSUME NEW n \in DOMAIN s
      PROVE  \E w \in DOMAIN qsort(s) : qsort(s)[w] = s[n]
  BY <1>2, <1>3, <1>6
<1>8. ASSUME NEW n \in DOMAIN qsort(s)
      PROVE  \E w \in DOMAIN s : s[w] = qsort(s)[n]
  BY <1>2, <1>3, <1>6
<1> QED
  BY <1>5, <1>7, <1>8

-----------------------------------------------------------------------------
(* A call of the process is a call of its store. *)

LEMMA CallsTheStore ==
  ASSUME NEW t \in Threads, FetchAndCall(t)
  PROVE  Store!OpenNext \/ UNCHANGED storeVars
<1>1. CASE job[pos] \in StoreCommands
  <2>1. Sorted(job[pos]) \in StoreCalls
    BY <1>1 DEF StoreCalls
  <2>2. Store!Call(t, Sorted(job[pos]))
    BY <1>1 DEF FetchAndCall
  <2> QED
    BY <2>1, <2>2 DEF Store!OpenNext, Store!Begins
<1>2. CASE job[pos] \notin StoreCommands
  BY <1>2 DEF FetchAndCall
<1> QED
  BY <1>1, <1>2

(* A step of a thread is a call of the store, a step inside it, or outside.  *)
LEMMA ThreadUsesStore ==
  ASSUME NEW t \in Threads, ProcessStep(t)
  PROVE  Store!OpenNext \/ UNCHANGED storeVars
<1>1. CASE FetchAndCall(t)
  BY <1>1, CallsTheStore
<1>2. CASE InStore(t)
  BY <1>2 DEF InStore, Store!OpenNext
<1>3. CASE Returned(t)
  BY <1>3 DEF Returned
<1>4. CASE ControlStep(t) /\ UNCHANGED storeVars
  BY <1>4
<1> QED
  BY <1>1, <1>2, <1>3, <1>4 DEF ProcessStep

LEMMA NextUsesStore == [ProcessNext]_processVars => [Store!OpenNext]_(Store!steps)
<1> SUFFICES ASSUME [ProcessNext]_processVars
             PROVE  Store!OpenNext \/ UNCHANGED storeVars
  BY DEF storeVars, Store!steps, Store!store, Store!locals
<1>1. CASE \E t \in Threads : ProcessStep(t)
  BY <1>1, ThreadUsesStore
<1>2. CASE ProcessMain
  BY <1>2 DEF ProcessMain
<1>3. CASE Ended /\ UNCHANGED storeVars
  BY <1>3
<1>4. CASE UNCHANGED processVars
  BY <1>4 DEF processVars
<1> QED
  BY <1>1, <1>2, <1>3, <1>4 DEF ProcessNext

-----------------------------------------------------------------------------
(* The process carries out its file as the threads of JobThreads do: the     *)
(* store adds steps, but none that fetches, waits, starts or joins.  And it  *)
(* uses the store as any program may: a thread calls it only when its last   *)
(* call has returned (main.c:276-332).                                       *)
THEOREM ProcessImplementsItsParts == ProcessSpec => ImplementsParts
<1>1. ProcessInit => Init /\ Store!StoreInit
  BY DEF ProcessInit
<1>2. [ProcessNext]_processVars => [Next]_jobVars
  BY NextRefines
<1>3. [ProcessNext]_processVars => [Store!OpenNext]_(Store!steps)
  BY NextUsesStore
<1> QED
  BY <1>1, <1>2, <1>3, PTL DEF ProcessSpec, ImplementsParts, Spec, Store!OpenSpec

(* No line behind a BARRIER is read while a command from before it is still  *)
(* inside the store.                                                         *)
THEOREM BarriersHoldTheStore == ProcessSpec => []BarrierOrder
  BY ProcessImplementsItsParts, BarriersSeparate, PTL DEF ImplementsParts

(* The process ends only when its whole file was read and every call of the  *)
(* store has returned, if any thread of the last round had memory.           *)
THEOREM ProcessSkipsNothing == ProcessSpec => []AllLinesRead
  BY ProcessImplementsItsParts, NothingIsSkipped, PTL DEF ImplementsParts

-----------------------------------------------------------------------------
(* The store inside the process. *)

(* What a thread hands to the store is a call the store knows, its seats     *)
(* sorted: the hypothesis of everything that is proved of the store.         *)
LEMMA StoreCallsAreCalls == StoreProofs!CallAssumption
<1> SUFFICES ASSUME NEW c \in StoreCommands
             PROVE  /\ Sorted(c).op \in {"create", "reserve", "show", "list"}
                    /\ Sorted(c).op # "list" => Sorted(c).id \in EventIds
                    /\ Sorted(c).op = "create" => Sorted(c).dim \in Nat \X Nat
                    /\ Sorted(c).op = "reserve" =>
                         Sorted(c).seats \in Seq(Nat \X Nat) /\ Sorted(c).seats # <<>>
  BY DEF StoreProofs!CallAssumption, StoreCalls
<1>1. CASE c.op = "reserve"
  <2>1. c \in [op : {"reserve"}, id : EventIds, seats : Seq(Nat \X Nat) \ {<<>>}]
    BY <1>1, CommandsAssumption
  <2>2. c.seats \in Seq(Places) /\ c.seats # <<>> /\ c.id \in EventIds
    BY <2>1 DEF Places
  <2>3. /\ Sorted(c).op = "reserve" /\ Sorted(c).id = c.id
        /\ Sorted(c).seats = qsort(c.seats)
    BY <1>1, <2>1 DEF Sorted
  <2>4. qsort(c.seats) \in Seq(Places) /\ qsort(c.seats) # <<>>
    BY <2>2, QsortKeepsSeats, EmptySeq
  <2> QED
    BY <2>2, <2>3, <2>4 DEF Places
<1>2. CASE c.op # "reserve"
  <2>1. Sorted(c) = c
    BY <1>2 DEF Sorted
  <2>2. \/ c.op = "list"
        \/ c.op = "show" /\ c.id \in EventIds
        \/ c \in [op : {"create"}, id : EventIds, dim : Nat \X Nat]
    BY <1>2, CommandsAssumption
  <2>3. CASE c \in [op : {"create"}, id : EventIds, dim : Nat \X Nat]
    BY <2>1, <2>3
  <2> QED
    BY <2>1, <2>2, <2>3
<1> QED
  BY <1>1, <1>2

LEMMA StoreConstants == StoreProofs!BoundAssumption /\ StoreProofs!CallAssumption
  BY StoreCallsAreCalls, ThreadsAssumption DEF StoreProofs!BoundAssumption

(* The store the theorems are about is the store of the process. *)
LEMMA SameSteps ==
  ASSUME NEW t, NEW c
  PROVE  /\ Store!Call(t, c) <=> StoreProofs!Call(t, c)
         /\ Store!Step(t) <=> StoreProofs!Step(t)
  BY Zenon
     DEF Store!Step, StoreProofs!Step, Store!CreateMark,
         StoreProofs!CreateMark, Store!CreateAppend, StoreProofs!CreateAppend,
         Store!CreateNoMemory, StoreProofs!CreateNoMemory, Store!ReserveFind,
         StoreProofs!ReserveFind, Store!ReserveCount,
         StoreProofs!ReserveCount, Store!TakeSeat, StoreProofs!TakeSeat,
         Store!RefuseSeat, StoreProofs!RefuseSeat, Store!ReserveDone,
         StoreProofs!ReserveDone, Store!Rollback, StoreProofs!Rollback,
         Store!ShowFind, StoreProofs!ShowFind, Store!ShowCopy,
         StoreProofs!ShowCopy, Store!ListHead, StoreProofs!ListHead,
         Store!ListNode, StoreProofs!ListNode, Store!WriteOut,
         StoreProofs!WriteOut, Store!PrintNoMemory, StoreProofs!PrintNoMemory,
         Store!Call, StoreProofs!Call, Store!Find, StoreProofs!Find,
         Store!Goto, StoreProofs!Goto, Store!Return, StoreProofs!Return,
         Store!Exists, StoreProofs!Exists, Store!NewEvent,
         StoreProofs!NewEvent, Store!get_event, StoreProofs!get_event,
         Store!seat_index, StoreProofs!seat_index, Store!InBounds,
         StoreProofs!InBounds, Store!Seat, StoreProofs!Seat, Store!SeatIsFree,
         StoreProofs!SeatIsFree, Store!SeatsTaken, StoreProofs!SeatsTaken,
         Store!Printed, StoreProofs!Printed, Store!store, StoreProofs!store,
         Store!locals, StoreProofs!locals

LEMMA SameStore ==
  /\ Store!StoreInit <=> StoreProofs!StoreInit
  /\ [Store!OpenNext]_(Store!steps) <=> [StoreProofs!OpenNext]_(StoreProofs!steps)
<1>1. Store!StoreInit <=> StoreProofs!StoreInit
  BY DEF Store!StoreInit, StoreProofs!StoreInit, Store!NoCall, StoreProofs!NoCall
<1>2. Store!OpenNext <=> StoreProofs!OpenNext
  BY SameSteps DEF Store!OpenNext, StoreProofs!OpenNext, Store!Begins, StoreProofs!Begins
<1>3. UNCHANGED Store!steps <=> UNCHANGED StoreProofs!steps
  BY DEF Store!steps, StoreProofs!steps, Store!store, StoreProofs!store,
         Store!locals, StoreProofs!locals
<1> QED
  BY <1>1, <1>2, <1>3

LEMMA SameProperties ==
  StoreProofs!Safe
    <=> (/\ Store!TypeOK /\ Store!GrantsHold /\ Store!GrantsAreDisjoint
         /\ Store!SeatsAreAccountedFor /\ Store!ListsArePrefixes)
  BY Zenon
     DEF StoreProofs!Safe, Store!Cardinality, StoreProofs!Cardinality,
         Store!TypeOK, StoreProofs!TypeOK, Store!GrantsHold, StoreProofs!GrantsHold,
         Store!GrantsAreDisjoint,
         StoreProofs!GrantsAreDisjoint, Store!SeatsAreAccountedFor,
         StoreProofs!SeatsAreAccountedFor, Store!ListsArePrefixes,
         StoreProofs!ListsArePrefixes, Store!Reserving,
         StoreProofs!Reserving, Store!SeatsTaken, StoreProofs!SeatsTaken,
         Store!Seat, StoreProofs!Seat, Store!seat_index,
         StoreProofs!seat_index, Store!NoCall, StoreProofs!NoCall

(* While a file of any length is executed by any number of threads, no seat  *)
(* is sold twice, no completed reservation loses a seat, a reservation that  *)
(* is refused leaves nothing behind, and every LIST names the events in the  *)
(* order of their creation (operations.c:123-184, 307-342).                  *)
THEOREM ProcessKeepsItsStore ==
  ProcessSpec => [](/\ Store!TypeOK /\ Store!GrantsHold /\ Store!GrantsAreDisjoint
                    /\ Store!SeatsAreAccountedFor /\ Store!ListsArePrefixes)
<1>1. StoreProofs!OpenSpec => []StoreProofs!Safe
  BY StoreConstants, StoreProofs!StoreIsSafe
<1>2. Store!OpenSpec => StoreProofs!OpenSpec
  BY SameStore, PTL DEF Store!OpenSpec, StoreProofs!OpenSpec
<1> QED
  BY <1>1, <1>2, ProcessImplementsItsParts, SameProperties, PTL DEF ImplementsParts
-----------------------------------------------------------------------------
(* One of several reservations made at the same time wins. *)

(* A race that can be won: the reservations are for the event of line 1, for *)
(* seats it has, and none names a seat twice.                                *)
Sellable(file) ==
  \A n \in 3 .. Len(file) :
    /\ file[n].id = file[1].id
    /\ \A j \in DOMAIN file[n].seats :
         /\ file[n].seats[j][1] \in 1 .. file[1].dim[1]
         /\ file[n].seats[j][2] \in 1 .. file[1].dim[2]
    /\ \A j, l \in DOMAIN file[n].seats : file[n].seats[j] = file[n].seats[l] => j = l

ARace == job \in JobFiles /\ Races(job) /\ Sellable(job)

(* The index of a seat in the event of line 1, the seats a reservation has   *)
(* taken and the one its loop is at.                                         *)
SeatNo(c)   == (c[1] - 1) * job[1].dim[2] + c[2] - 1
Taken(t)    == {SeatNo(call[t].seats[n]) : n \in 1 .. k[t]}
NextSeat(t) == SeatNo(call[t].seats[k[t] + 1])

InCall(t)   == spc[t] # "idle"
Live(t)     == spc[t] = "seats"
Ahead(t, s) == Live(t) /\ \E r \in Taken(t) : s <= r
Creating    == {"create", "append"}
Buying      == {"reserve", "count", "seats", "rollback"}

(* A thread inside the store executes the line it read last: the CREATE of   *)
(* line 1, or one of the reservations; and no two threads the same line.     *)
Executes ==
  /\ \A t \in Threads : InCall(t) =>
       /\ pc[t] = "exec" /\ line[t] \in 1 .. pos - 1
       /\ call[t] = Sorted(job[line[t]])
       /\ \/ line[t] = 1 /\ spc[t] \in Creating
          \/ line[t] \in 3 .. Len(job) /\ spc[t] \in Buying
  /\ \A t, u \in Threads : InCall(t) /\ InCall(u) /\ line[t] = line[u] => t = u

(* The event is there as soon as the thread of line 1 has returned. *)
IsTheEvent(e) == e.id = job[1].id /\ e.rows = job[1].dim[1] /\ e.cols = job[1].dim[2]
Creates ==
  /\ \A p \in DOMAIN events : p = 1 /\ IsTheEvent(events[1])
  /\ pos = 1 => events = <<>> /\ id_being_processed = -1
  /\ pos # 1 => events # <<>> \/ \E t \in Threads : InCall(t) /\ line[t] = 1
  /\ \A t \in Threads : InCall(t) /\ line[t] = 1 =>
       events = <<>> /\ (spc[t] = "create" => id_being_processed = -1)

(* A completed reservation has the seats of a line. *)
GrantsAreLines ==
  \A g \in grants :
    /\ g.event = 1
    /\ \E n \in 3 .. Len(job) : g.seats = {SeatNo(c) : c \in SeatsOf(job[n])}

(* As long as nobody has won, whoever was refused was refused for the sake   *)
(* of a reservation that is ahead: one that is still live and has taken a    *)
(* seat at least as far as the refused one.  So when all the others are      *)
(* through, one is still live.                                               *)
Refusals == \A t \in Threads : spc[t] = "rollback" => k[t] < Len(call[t].seats)
RefusedForOneAhead ==
  \A t \in Threads : spc[t] = "rollback" => \E w \in Threads : Ahead(w, NextSeat(t))
OneIsLive ==
  \A n \in 3 .. pos - 1 :
    \/ \E t \in Threads : InCall(t) /\ line[t] = n
    \/ \E w \in Threads : Live(w)

RaceInv ==
  /\ Executes /\ Creates /\ GrantsAreLines /\ Refusals
  /\ grants = {} => RefusedForOneAhead /\ OneIsLive

(* The lines of a race. *)
LEMMA RaceLines ==
  ASSUME ARace
  PROVE  /\ Len(job) \in Nat /\ Len(job) > 2 /\ DOMAIN job = 1 .. Len(job)
         /\ job[1].op = "create" /\ job[1].id \in EventIds /\ job[1].dim \in Nat \X Nat
         /\ job[1] \in StoreCommands /\ job[2] \notin StoreCommands /\ IsBarrier(2)
         /\ \A n \in 3 .. Len(job) :
              job[n] \in StoreCommands
                /\ job[n] \in [op : {"reserve"}, id : EventIds, seats : Seq(Places) \ {<<>>}]
<1>1. Len(job) \in Nat /\ DOMAIN job = 1 .. Len(job) /\ \A l \in 1 .. Len(job) : job[l] \in Commands
  BY LinesAreCommands DEF ARace
<1>2. /\ Len(job) > 2 /\ job[1].op = "create" /\ job[2].op = "barrier"
      /\ \A n \in 3 .. Len(job) : job[n].op = "reserve"
  BY DEF ARace, Races
<1>3. \A c \in Commands : c.op \in {"create", "reserve"} => c \in StoreCommands
  BY DEF Commands, ControlCommands
<1>4. job[1] \in StoreCommands
  BY <1>1, <1>2, <1>3
<1>5. job[1] \in [op : {"create"}, id : EventIds, dim : Nat \X Nat]
  BY <1>2, <1>4, CommandsAssumption
<1>6. job[2] \notin StoreCommands
  BY <1>2, FilesAssumption
<1>7. ASSUME NEW n \in 3 .. Len(job)
      PROVE  job[n] \in StoreCommands
               /\ job[n] \in [op : {"reserve"}, id : EventIds, seats : Seq(Places) \ {<<>>}]
  <2>1. job[n].op = "reserve" /\ job[n] \in StoreCommands
    BY <1>1, <1>2, <1>3
  <2> QED
    BY <2>1, CommandsAssumption DEF Places
<1> QED
  BY <1>1, <1>2, <1>4, <1>5, <1>6, <1>7 DEF IsBarrier

LEMMA QsortKeepsApart ==
  ASSUME NEW s \in Seq(Places), \A j, l \in DOMAIN s : s[j] = s[l] => j = l
  PROVE  \A j, l \in DOMAIN qsort(s) : qsort(s)[j] = qsort(s)[l] => j = l
<1> DEFINE L == 1 .. Len(s)
<1>1. PICK f \in Orders(L) : qsort(s) = [n \in L |-> s[f[n]]]
  BY QsortSorts DEF Reordered
<1>2. f \in [L -> L] /\ \A v \in L : \E w \in L : f[w] = v
  BY DEF Orders
<1>3. IsFiniteSet(L)
  BY FS_Interval
<1>4. f \in Surjection(L, L)
  BY <1>2 DEF Surjection
<1>5. f \in Injection(L, L)
  BY <1>3, <1>4, FS_SurjSameCardinalityImpliesInj
<1>6. \A j, l \in L : f[j] = f[l] => j = l
  BY <1>2, <1>5 DEF Injection, IsInjective
<1>7. DOMAIN s = L
  OBVIOUS
<1> HIDE DEF L
<1>8. DOMAIN qsort(s) = L /\ \A n \in L : qsort(s)[n] = s[f[n]]
  BY <1>1
<1> QED
  BY <1>2, <1>6, <1>7, <1>8

(* In rows and columns that exist, a seat that comes before another one has  *)
(* the smaller index (operations.c:50-56).                                   *)
LEMMA SeatsInOrder ==
  ASSUME NEW c \in Places, NEW d \in Places, NEW cols \in Nat,
         c[2] \in 1 .. cols, d[2] \in 1 .. cols, c[1] >= 1, d[1] >= 1, Before(c, d)
  PROVE  (c[1] - 1) * cols + c[2] - 1 < (d[1] - 1) * cols + d[2] - 1
<1>1. PICK a \in Nat, b \in Nat : a = c[1] - 1 /\ b = d[1] - 1
  BY DEF Places
<1>2. c[2] \in Nat /\ d[2] \in Nat
  BY DEF Places
<1>3. CASE a = b
  BY <1>1, <1>2, <1>3 DEF Before, Places
<1>4. CASE a # b
  <2>1. a + 1 <= b
    BY <1>1, <1>2, <1>4 DEF Before, Places
  <2>2. PICK r \in Nat : b = a + 1 + r
    <3>1. b - (a + 1) \in Nat /\ b = a + 1 + (b - (a + 1))
      BY <2>1
    <3> QED
      BY <3>1
  <2>3. a * cols \in Nat /\ b * cols \in Nat /\ r * cols \in Nat /\ b * cols = a * cols + cols + r * cols
    BY <2>2
  <2> QED
    BY <1>1, <1>2, <2>3
<1> QED
  BY <1>3, <1>4

(* What the store is called with for a reservation of the race. *)
LEMMA RaceSeats ==
  ASSUME ARace, NEW n \in 3 .. Len(job), NEW c, c = Sorted(job[n])
  PROVE  /\ c.op = "reserve" /\ c.id = job[1].id
         /\ c.seats \in Seq(Places) /\ c.seats # <<>>
         /\ \A j \in DOMAIN c.seats :
              c.seats[j][1] \in 1 .. job[1].dim[1] /\ c.seats[j][2] \in 1 .. job[1].dim[2]
         /\ {SeatNo(c.seats[j]) : j \in DOMAIN c.seats} = {SeatNo(d) : d \in SeatsOf(job[n])}
         /\ \A j, l \in DOMAIN c.seats : j < l => SeatNo(c.seats[j]) < SeatNo(c.seats[l])
<1>1. job[n] \in [op : {"reserve"}, id : EventIds, seats : Seq(Places) \ {<<>>}]
  BY RaceLines
<1>2. PICK s \in Seq(Places) : s = job[n].seats /\ s # <<>>
  BY <1>1
<1>3. c.op = "reserve" /\ c.id = job[n].id /\ c.seats = qsort(s)
  BY <1>1, <1>2 DEF Sorted
<1>4. PICK q : q = qsort(s)
  OBVIOUS
<1>5. q \in Seq(Places) /\ Len(q) = Len(s) /\ q # <<>>
  BY <1>2, <1>4, QsortKeepsSeats, EmptySeq
<1>6. /\ \A j \in DOMAIN s : \E l \in DOMAIN q : q[l] = s[j]
      /\ \A l \in DOMAIN q : \E j \in DOMAIN s : s[j] = q[l]
  BY <1>4, QsortKeepsSeats
<1>7. /\ job[n].id = job[1].id
      /\ \A j \in DOMAIN s : s[j][1] \in 1 .. job[1].dim[1] /\ s[j][2] \in 1 .. job[1].dim[2]
      /\ \A j, l \in DOMAIN s : s[j] = s[l] => j = l
  BY <1>2 DEF ARace, Sellable
<1>8. \A j \in DOMAIN q : q[j][1] \in 1 .. job[1].dim[1] /\ q[j][2] \in 1 .. job[1].dim[2]
  BY <1>6, <1>7
<1>9. {SeatNo(q[j]) : j \in DOMAIN q} = {SeatNo(d) : d \in SeatsOf(job[n])}
  BY <1>2, <1>6 DEF SeatsOf
<1>10. ASSUME NEW j \in DOMAIN q, NEW l \in DOMAIN q, j < l
       PROVE  SeatNo(q[j]) < SeatNo(q[l])
  <2>1. ~Before(q[l], q[j])
    BY <1>4, <1>10, QsortSorts DEF Ascending
  <2>2. q[j] # q[l]
    <3>1. j # l
      BY <1>5, <1>10
    <3>2. q[j] = q[l] => j = l
      BY <1>4, <1>7, QsortKeepsApart
    <3> QED
      BY <3>1, <3>2
  <2>3. q[j] \in Places /\ q[l] \in Places
    BY <1>5
  <2>4. Before(q[j], q[l])
    BY <2>1, <2>2, <2>3 DEF Before, Places
  <2>5. job[1].dim[2] \in Nat
    BY RaceLines
  <2>6. PICK cols \in Nat : cols = job[1].dim[2]
    BY <2>5
  <2>7. /\ q[j][2] \in 1 .. cols /\ q[l][2] \in 1 .. cols
        /\ q[j][1] >= 1 /\ q[l][1] >= 1
    BY <1>8, <2>6
  <2>8. (q[j][1] - 1) * cols + q[j][2] - 1 < (q[l][1] - 1) * cols + q[l][2] - 1
    BY <2>3, <2>4, <2>7, SeatsInOrder
  <2> QED
    BY <2>6, <2>8 DEF SeatNo
<1> QED
  BY <1>3, <1>4, <1>5, <1>7, <1>8, <1>9, <1>10

-----------------------------------------------------------------------------
(* The rounds of main: a thread that is not yet created in a round is not    *)
(* running, and one that has returned left a result, if malloc never fails.  *)

RoundInv ==
  /\ \A t \in Threads : mpc = "create" /\ mi <= t => pc[t] \in {"none", "exited"}
  /\ \A t \in Threads : pc[t] = "exited" /\ ~MallocFails => result[t] # NoResult

LEMMA RoundStep ==
  ASSUME TypeOK, JoinedHaveExited, RoundInv, [Next]_jobVars
  PROVE  RoundInv'
<1> USE DEF fileVars, delayVars, threadVars, mainVars, Goto, Exit, NoResult
<1>1. ASSUME NEW t \in Threads, Start(t) PROVE RoundInv'
  BY <1>1 DEF TypeOK, RoundInv, Start
<1>2. ASSUME NEW t \in Threads, TakeDelay(t) PROVE RoundInv'
  BY <1>2 DEF TypeOK, RoundInv, TakeDelay
<1>3. ASSUME NEW t \in Threads, Sleep(t) PROVE RoundInv'
  BY <1>3 DEF TypeOK, RoundInv, Sleep
<1>4. ASSUME NEW t \in Threads, NoDelay(t) PROVE RoundInv'
  BY <1>4 DEF TypeOK, RoundInv, NoDelay
<1>5. ASSUME NEW t \in Threads, SeesBarrier(t) PROVE RoundInv'
  <2>1. /\ UNCHANGED <<mpc, mi>> /\ DOMAIN pc = Threads /\ DOMAIN result = Threads
        /\ pc' = [pc EXCEPT ![t] = "exited"] /\ result' = [result EXCEPT ![t] = 1]
    BY <1>5 DEF TypeOK, SeesBarrier
  <2> QED
    BY <2>1 DEF RoundInv
<1>6. ASSUME NEW t \in Threads, SeesEnd(t) PROVE RoundInv'
  <2>1. /\ UNCHANGED <<mpc, mi>> /\ DOMAIN pc = Threads /\ DOMAIN result = Threads
        /\ pc' = [pc EXCEPT ![t] = "exited"] /\ result' = [result EXCEPT ![t] = 0]
    BY <1>6 DEF TypeOK, SeesEnd
  <2> QED
    BY <2>1 DEF RoundInv
<1>7. ASSUME NEW t \in Threads, Fetch(t) PROVE RoundInv'
  <2>1. AfterFetch(job[pos]) # "exited"
    BY DEF AfterFetch
  <2> QED
    BY <1>7, <2>1 DEF TypeOK, RoundInv, Fetch
<1>8. ASSUME NEW t \in Threads, Execute(t) PROVE RoundInv'
  BY <1>8 DEF TypeOK, RoundInv, Execute
<1>9. ASSUME NEW t \in Threads, WaitOne(t) PROVE RoundInv'
  BY <1>9 DEF TypeOK, RoundInv, WaitOne
<1>10. ASSUME NEW t \in Threads, WaitAll(t) PROVE RoundInv'
  BY <1>10 DEF TypeOK, RoundInv, WaitAll
<1>11. ASSUME NEW t \in Threads, WaitAllDone(t) PROVE RoundInv'
  BY <1>11 DEF TypeOK, RoundInv, WaitAllDone
<1>12. CASE MainCreate
  <2>1. /\ mpc = "create" /\ mi \in Nat /\ mi' = mi + 1 /\ UNCHANGED <<mpc, result>>
        /\ pc' = [pc EXCEPT ![mi] = "start"] /\ DOMAIN pc = Threads
    BY <1>12, ThreadsAssumption DEF TypeOK, MainCreate
  <2>2. \A t \in Threads : t \in Nat
    BY ThreadNumbers
  <2>3. ASSUME NEW t \in Threads, mi' <= t PROVE pc'[t] \in {"none", "exited"}
    <3>1. t # mi /\ mi <= t
      BY <2>1, <2>2, <2>3
    <3> QED
      BY <2>1, <3>1 DEF RoundInv
  <2>4. ASSUME NEW t \in Threads, pc'[t] = "exited", ~MallocFails PROVE result'[t] # NoResult
    <3>1. pc[t] = "exited"
      BY <2>1, <2>4
    <3> QED
      BY <2>1, <2>4, <3>1 DEF RoundInv
  <2> QED
    BY <2>3, <2>4 DEF RoundInv
<1>13. CASE MainCreated
  BY <1>13 DEF TypeOK, RoundInv, MainCreated
<1>14. CASE MainJoin
  BY <1>14 DEF TypeOK, RoundInv, MainJoin
<1>15. CASE MainRestart
  BY <1>15, ThreadNumbers DEF TypeOK, RoundInv, JoinedHaveExited, Joined, MainRestart
<1>16. CASE MainEnd
  BY <1>16 DEF TypeOK, RoundInv, MainEnd
<1>17. CASE UNCHANGED jobVars
  BY <1>17 DEF RoundInv, jobVars
<1> QED
  BY <1>1, <1>2, <1>3, <1>4, <1>5, <1>6, <1>7, <1>8, <1>9,
     <1>10, <1>11, <1>12, <1>13, <1>14, <1>15, <1>16, <1>17
  DEF Next, ThreadStep, ControlStep, MainStep, Ended

LEMMA RoundHolds == Spec => []RoundInv
<1>1. Init => RoundInv
  BY DEF Init, RoundInv
<1>2. Inv /\ RoundInv /\ [Next]_jobVars => RoundInv'
  BY RoundStep DEF Inv
<1> QED
  BY <1>1, <1>2, InvHolds, PTL DEF Spec

-----------------------------------------------------------------------------
(* The steps of a race. *)

(* What holds in every state of the process, whatever file it executes.      *)
Always == Inv /\ RoundInv /\ StoreProofs!IInv

(* A step that leaves the store and the file alone. *)
LEMMA OutsideStore ==
  ASSUME RaceInv, UNCHANGED <<storeVars, job, pos, line>>,
         \A t \in Threads : InCall(t) => pc'[t] = "exec"
  PROVE  RaceInv'
<1>1. \A c : SeatNo(c)' = SeatNo(c')
  BY DEF SeatNo
<1>2. \A t \in Threads : Taken(t)' = Taken(t) /\ NextSeat(t)' = NextSeat(t)
  BY DEF Taken, NextSeat, SeatNo, storeVars
<1>3. Executes'
  BY DEF RaceInv, Executes, InCall, storeVars
<1>4. Creates'
  BY DEF RaceInv, Creates, IsTheEvent, InCall, storeVars
<1>5. GrantsAreLines' /\ Refusals'
  BY DEF RaceInv, GrantsAreLines, Refusals, SeatNo, storeVars
<1>6. grants' = {} => RefusedForOneAhead' /\ OneIsLive'
  BY <1>2 DEF RaceInv, RefusedForOneAhead, OneIsLive, Ahead, Live, InCall, storeVars
<1> QED
  BY <1>3, <1>4, <1>5, <1>6 DEF RaceInv

(* While a reservation is executed, the event is there and the thread of     *)
(* line 1 has returned: the BARRIER of line 2 is between them.               *)
LEMMA EventIsThere ==
  ASSUME ARace, Always, RaceInv, NEW t \in Threads, InCall(t), line[t] # 1
  PROVE  /\ line[t] \in 3 .. Len(job) /\ spc[t] \in Buying /\ pos > 3
         /\ DOMAIN events = {1} /\ IsTheEvent(events[1]) /\ events[1] \in StoreProofs!Event
         /\ \A u \in Threads : InCall(u) => line[u] # 1
<1>1. line[t] \in 3 .. Len(job) /\ line[t] \in 1 .. pos - 1 /\ spc[t] \in Buying
  BY DEF RaceInv, Executes
<1>2. pos \in Nat /\ pos > 3
  BY <1>1 DEF Always, Inv, TypeOK
<1>3. ASSUME NEW u \in Threads, InCall(u), line[u] = 1
      PROVE  FALSE
  <2>1. Busy(u)
    BY <1>3 DEF RaceInv, Executes, Busy
  <2>2. 2 \in line[u] .. pos - 1 /\ IsBarrier(2)
    BY <1>2, <1>3, RaceLines
  <2>3. 2 = pos - 1
    BY <2>1, <2>2 DEF Always, Inv, NoBarrierInside
  <2> QED
    BY <1>2, <2>3
<1>4. events # <<>>
  BY <1>2, <1>3 DEF RaceInv, Creates
<1>5. events \in Seq(StoreProofs!Event)
  BY DEF Always, StoreProofs!IInv, StoreProofs!Typed, StoreProofs!EventsTyped
<1>6. 1 \in DOMAIN events /\ events[1] \in StoreProofs!Event
  BY <1>4, <1>5, EmptySeq
<1> QED
  BY <1>1, <1>2, <1>3, <1>6 DEF RaceInv, Creates

(* A thread that reserves: its request, and its seats in the store.          *)
LEMMA Buyers ==
  ASSUME ARace, Always, RaceInv, NEW t \in Threads, InCall(t), line[t] # 1
  PROVE  /\ call[t].op = "reserve" /\ call[t].id = job[1].id
         /\ call[t].seats \in Seq(Places) /\ Len(call[t].seats) \in Nat
         /\ \A j \in 1 .. Len(call[t].seats) :
              /\ SeatNo(call[t].seats[j]) \in Int
              /\ StoreProofs!InBounds(events[1], call[t].seats[j])
         /\ {SeatNo(call[t].seats[j]) : j \in 1 .. Len(call[t].seats)}
              = {SeatNo(d) : d \in SeatsOf(job[line[t]])}
         /\ \A j, l \in 1 .. Len(call[t].seats) :
              j < l => SeatNo(call[t].seats[j]) < SeatNo(call[t].seats[l])
<1>1. PICK n \in 3 .. Len(job) : n = line[t]
  BY EventIsThere
<1>2. PICK c : c = call[t] /\ c = Sorted(job[n])
  BY <1>1 DEF RaceInv, Executes
<1>3. /\ c.op = "reserve" /\ c.id = job[1].id
      /\ c.seats \in Seq(Places)
      /\ \A j \in DOMAIN c.seats :
           c.seats[j][1] \in 1 .. job[1].dim[1] /\ c.seats[j][2] \in 1 .. job[1].dim[2]
      /\ {SeatNo(c.seats[j]) : j \in DOMAIN c.seats} = {SeatNo(d) : d \in SeatsOf(job[n])}
      /\ \A j, l \in DOMAIN c.seats : j < l => SeatNo(c.seats[j]) < SeatNo(c.seats[l])
  BY <1>2, RaceSeats
<1>4. DOMAIN c.seats = 1 .. Len(c.seats) /\ Len(c.seats) \in Nat
  BY <1>3
<1>5. job[1].dim[2] \in Nat
  BY RaceLines
<1>6. ASSUME NEW j \in 1 .. Len(c.seats)
      PROVE  SeatNo(c.seats[j]) \in Int /\ StoreProofs!InBounds(events[1], c.seats[j])
  <2>1. c.seats[j] \in Places
    BY <1>3
  <2>2. SeatNo(c.seats[j]) \in Int
    BY <1>5, <2>1 DEF SeatNo, Places
  <2> QED
    BY <1>3, <1>4, <2>2, EventIsThere DEF StoreProofs!InBounds, IsTheEvent
<1> QED
  BY <1>1, <1>2, <1>3, <1>4, <1>6

LEMMA SeatsByNumber ==
  ASSUME ARace, Always, RaceInv, NEW t \in Threads, spc[t] \in {"count", "seats", "rollback"}
  PROVE  /\ InCall(t) /\ line[t] # 1 /\ ev[t] = 1 /\ k[t] \in Nat
         /\ spc[t] # "count" => k[t] <= Len(call[t].seats)
         /\ \A n : StoreProofs!Seat(t, n) = SeatNo(call[t].seats[n])
         /\ StoreProofs!SeatsTaken(t) = Taken(t)
<1>1. InCall(t) /\ line[t] # 1
  BY DEF InCall, RaceInv, Executes, Creating
<1>2. DOMAIN events = {1} /\ IsTheEvent(events[1])
  BY <1>1, EventIsThere
<1>3. ev[t] = 1
  BY <1>2 DEF Always, StoreProofs!IInv, StoreProofs!Typed, StoreProofs!EventsFound
<1>4. k[t] \in Nat
  BY DEF Always, StoreProofs!IInv, StoreProofs!Typed, StoreProofs!LocalsTyped
<1>5. spc[t] # "count" => k[t] \in 0 .. Len(call[t].seats)
  BY DEF Always, StoreProofs!IInv, StoreProofs!Typed, StoreProofs!EventsFound, StoreProofs!Busy
<1>6. \A n : StoreProofs!Seat(t, n) = SeatNo(call[t].seats[n])
  BY <1>2, <1>3 DEF StoreProofs!Seat, StoreProofs!seat_index, SeatNo, IsTheEvent
<1>7. StoreProofs!SeatsTaken(t) = Taken(t)
  BY <1>6 DEF StoreProofs!SeatsTaken, Taken
<1>8. spc[t] # "count" => k[t] <= Len(call[t].seats)
  BY <1>5
<1> QED
  BY <1>1, <1>3, <1>4, <1>6, <1>7, <1>8

(* A step inside the store: only the thread that takes it moves, its command *)
(* stays the same, and the event keeps its size.                             *)
Alone(t) ==
  /\ UNCHANGED jobVars /\ call'[t] = call[t]
  /\ \A u \in Threads : u # t => spc'[u] = spc[u] /\ call'[u] = call[u] /\ k'[u] = k[u]

LEMMA StoreStepAlone ==
  ASSUME Always, NEW t \in Threads, InStore(t)
  PROVE  /\ StoreProofs!Step(t) /\ Alone(t) /\ StoreProofs!ListGrows
         /\ DOMAIN spc = Threads /\ DOMAIN k = Threads
<1>1. StoreProofs!Step(t) /\ UNCHANGED jobVars
  BY SameSteps DEF InStore
<1>2. StoreProofs!Acts(t)
  BY <1>1 DEF StoreProofs!Step, StoreProofs!Acts, StoreProofs!Quiet
<1>3. StoreProofs!Typed
  BY DEF Always, StoreProofs!IInv
<1>4. StoreProofs!OthersWait(t)
  BY <1>2, <1>3, StoreConstants, StoreProofs!StepIsLocal
<1>5. StoreProofs!ListGrows
  BY <1>2, <1>3, StoreConstants, StoreProofs!StepGrowsList
<1>6. UNCHANGED call
  BY <1>1
     DEF StoreProofs!Step, StoreProofs!CreateMark, StoreProofs!CreateAppend,
         StoreProofs!CreateNoMemory, StoreProofs!ReserveFind, StoreProofs!ReserveCount,
         StoreProofs!TakeSeat, StoreProofs!RefuseSeat, StoreProofs!ReserveDone,
         StoreProofs!Rollback, StoreProofs!ShowFind, StoreProofs!ShowCopy,
         StoreProofs!ListHead, StoreProofs!ListNode, StoreProofs!WriteOut,
         StoreProofs!PrintNoMemory, StoreProofs!Find, StoreProofs!locals
<1>7. DOMAIN spc = Threads /\ DOMAIN k = Threads
  BY <1>3 DEF StoreProofs!Typed, StoreProofs!LocalsTyped
<1> QED
  BY <1>1, <1>4, <1>5, <1>6, <1>7 DEF Alone, StoreProofs!OthersWait

LEMMA SameSeats ==
  ASSUME UNCHANGED job, NEW u, call'[u] = call[u], k'[u] = k[u]
  PROVE  Taken(u)' = Taken(u) /\ NextSeat(u)' = NextSeat(u)
  BY DEF Taken, NextSeat, SeatNo

LEMMA ExecutesOn ==
  ASSUME RaceInv, NEW t \in Threads, Alone(t), InCall(t),
         \/ spc'[t] = "idle"
         \/ spc[t] \in Creating /\ spc'[t] \in Creating
         \/ spc[t] \in Buying /\ spc'[t] \in Buying
  PROVE  Executes'
<1>1. UNCHANGED <<job, pos, pc, line>>
  BY DEF Alone, jobVars, fileVars, threadVars
<1>2. \A u \in Threads : InCall(u)' => InCall(u) /\ call'[u] = call[u]
  BY DEF Alone, InCall
<1>3. Creating \cap Buying = {}
  BY DEF Creating, Buying
<1>4. ASSUME NEW u \in Threads, InCall(u)'
      PROVE  (pc[u] = "exec" /\ line[u] \in 1 .. pos - 1
               /\ call[u] = Sorted(job[line[u]])
               /\ (\/ line[u] = 1 /\ spc[u] \in Creating
                   \/ line[u] \in 3 .. Len(job) /\ spc[u] \in Buying))'
  <2>1. /\ pc[u] = "exec" /\ line[u] \in 1 .. pos - 1
        /\ call[u] = Sorted(job[line[u]])
        /\ \/ line[u] = 1 /\ spc[u] \in Creating
           \/ line[u] \in 3 .. Len(job) /\ spc[u] \in Buying
    BY <1>2, <1>4 DEF RaceInv, Executes
  <2>2. CASE u = t
    BY <1>1, <1>2, <1>3, <1>4, <2>1, <2>2 DEF InCall, Sorted, Creating, Buying
  <2>3. CASE u # t
    <3>1. spc'[u] = spc[u]
      BY <2>3 DEF Alone
    <3> QED
      BY <1>1, <1>2, <1>4, <2>1, <3>1 DEF Sorted, Creating, Buying
  <2> QED
    BY <2>2, <2>3
<1>5. \A u, v \in Threads : InCall(u)' /\ InCall(v)' /\ line'[u] = line'[v] => u = v
  BY <1>1, <1>2 DEF RaceInv, Executes
<1> QED
  BY <1>4, <1>5 DEF Executes

(* A step of a reservation leaves the event what it is.                      *)
LEMMA EventStays ==
  ASSUME ARace, Always, RaceInv, NEW t \in Threads, Alone(t), InCall(t), line[t] # 1,
         StoreProofs!ListGrows, DOMAIN events' = DOMAIN events
  PROVE  Creates'
<1>1. UNCHANGED <<job, pos, line>>
  BY DEF Alone, jobVars, fileVars, threadVars
<1>2. DOMAIN events = {1} /\ IsTheEvent(events[1]) /\ pos > 3
  BY EventIsThere
<1>3. IsTheEvent(events[1])'
  BY <1>1, <1>2 DEF IsTheEvent, StoreProofs!ListGrows, StoreProofs!SameSize
<1>4. events' # <<>>
  BY <1>2
<1>5. pos # 1
  BY <1>2 DEF Always, Inv, TypeOK
<1>6. \A u \in Threads : InCall(u) => line[u] # 1
  BY EventIsThere
<1>7. \A u \in Threads : InCall(u)' => InCall(u)
  BY DEF Alone, InCall
<1> QED
  BY <1>1, <1>2, <1>3, <1>4, <1>5, <1>6, <1>7 DEF Creates

(* A step that refuses nobody and completes nothing.                         *)
LEMMA RaceGoesOn ==
  ASSUME RaceInv, NEW t \in Threads, Alone(t), UNCHANGED grants,
         InCall(t), spc'[t] # "rollback", line[t] # 1 => InCall(t)',
         Live(t) => Live(t)' /\ Taken(t) \subseteq Taken(t)'
  PROVE  /\ GrantsAreLines' /\ Refusals'
         /\ grants' = {} => RefusedForOneAhead' /\ OneIsLive'
<1>1. UNCHANGED <<job, pos, line>>
  BY DEF Alone, jobVars, fileVars, threadVars
<1>2. GrantsAreLines'
  BY <1>1 DEF RaceInv, GrantsAreLines, SeatNo
<1>3. \A u \in Threads : spc'[u] = "rollback" =>
        spc[u] = "rollback" /\ k'[u] = k[u] /\ call'[u] = call[u]
  BY DEF Alone
<1>4. Refusals'
  BY <1>3 DEF RaceInv, Refusals
<1>5. ASSUME NEW w \in Threads, Live(w) PROVE Live(w)' /\ Taken(w) \subseteq Taken(w)'
  <2>1. CASE w = t
    BY <1>5, <2>1
  <2>2. CASE w # t
    BY <1>1, <1>5, <2>2, SameSeats DEF Alone, Live
  <2> QED
    BY <2>1, <2>2
<1>6. ASSUME grants' = {} PROVE RefusedForOneAhead'
  <2> SUFFICES ASSUME NEW u \in Threads, spc'[u] = "rollback"
               PROVE  \E w \in Threads : Ahead(w, NextSeat(u))'
    BY DEF RefusedForOneAhead
  <2>1. PICK w \in Threads : Ahead(w, NextSeat(u))
    BY <1>3, <1>6 DEF RaceInv, RefusedForOneAhead
  <2>2. NextSeat(u)' = NextSeat(u)
    BY <1>1, <1>3, SameSeats
  <2>3. Live(w)' /\ Taken(w) \subseteq Taken(w)'
    BY <1>5, <2>1 DEF Ahead
  <2> QED
    BY <2>1, <2>2, <2>3 DEF Ahead
<1>7. ASSUME grants' = {} PROVE OneIsLive'
  <2> SUFFICES ASSUME NEW n \in 3 .. pos - 1
               PROVE  (\E u \in Threads : InCall(u) /\ line[u] = n)'
                        \/ (\E w \in Threads : Live(w))'
    BY <1>1 DEF OneIsLive
  <2>1. CASE \E w \in Threads : Live(w)
    BY <1>5, <2>1
  <2>2. ASSUME NEW u \in Threads, InCall(u), line[u] = n
        PROVE  InCall(u)'
    <3>1. CASE u = t
      BY <2>2, <3>1
    <3>2. CASE u # t
      BY <2>2, <3>2 DEF Alone, InCall
    <3> QED
      BY <3>1, <3>2
  <2> QED
    BY <1>1, <1>7, <2>1, <2>2 DEF RaceInv, OneIsLive
<1> QED
  BY <1>2, <1>4, <1>6, <1>7

LEMMA CreateRaces ==
  ASSUME ARace, Always, ~MallocFails, RaceInv, NEW t \in Threads, InStore(t),
         InCall(t), line[t] = 1
  PROVE  RaceInv'
<1>0. /\ StoreProofs!Step(t) /\ Alone(t) /\ DOMAIN spc = Threads
      /\ UNCHANGED <<job, pos, line>>
  BY StoreStepAlone DEF Alone, jobVars, fileVars, threadVars
<1>1. /\ spc[t] \in {"create", "append"} /\ call[t] = Sorted(job[1])
      /\ line[t] \in 1 .. pos - 1 /\ events = <<>>
      /\ spc[t] = "create" => id_being_processed = -1
      /\ \A u \in Threads : InCall(u) /\ line[u] = 1 => u = t
  BY DEF RaceInv, Executes, Creates, Creating
<1>2. pos # 1
  BY <1>1 DEF Always, Inv, TypeOK
<1>3. call[t] = job[1] /\ job[1].id \in Nat
  BY <1>1, RaceLines, CommandsAssumption DEF Sorted
<1>4. CASE StoreProofs!CreateMark(t)
  <2>1. spc[t] = "create" /\ id_being_processed # call[t].id
    BY <1>1, <1>3, <1>4 DEF StoreProofs!CreateMark
  <2>2. ~StoreProofs!Exists(call[t].id)
    BY <1>1 DEF StoreProofs!Exists, StoreProofs!get_event
  <2>3. spc'[t] = "append" /\ UNCHANGED <<events, grants>>
    BY <1>0, <1>4, <2>1, <2>2 DEF StoreProofs!CreateMark, StoreProofs!Goto
  <2>4. Executes'
    BY <1>0, <2>1, <2>3, ExecutesOn DEF Creating
  <2>5. Creates'
    <3>1. \A u \in Threads : InCall(u)' /\ line'[u] = 1 => u = t
      BY <1>0, <1>1 DEF Alone, InCall
    <3>2. InCall(t)' /\ line'[t] = 1
      BY <1>0, <2>3 DEF InCall
    <3> QED
      BY <1>0, <1>1, <1>2, <2>3, <3>1, <3>2 DEF Creates
  <2>6. /\ GrantsAreLines' /\ Refusals'
        /\ grants' = {} => RefusedForOneAhead' /\ OneIsLive'
    BY <1>0, <2>1, <2>3, RaceGoesOn DEF Live
  <2> QED
    BY <2>4, <2>5, <2>6 DEF RaceInv
<1>5. CASE StoreProofs!CreateAppend(t)
  <2>1. /\ spc[t] = "append" /\ spc'[t] = "idle" /\ UNCHANGED grants
        /\ events' = Append(<<>>, StoreProofs!NewEvent(job[1].id, job[1].dim))
    BY <1>0, <1>1, <1>3, <1>5 DEF StoreProofs!CreateAppend, StoreProofs!Return, StoreProofs!Goto
  <2>2. DOMAIN events' = {1} /\ events'[1] = StoreProofs!NewEvent(job[1].id, job[1].dim)
    BY <2>1
  <2>3. IsTheEvent(events[1])'
    BY <1>0, <2>2 DEF IsTheEvent, StoreProofs!NewEvent
  <2>4. Executes'
    BY <1>0, <2>1, ExecutesOn
  <2>5. Creates'
    <3>1. \A u \in Threads : ~(InCall(u)' /\ line'[u] = 1)
      BY <1>0, <1>1, <2>1 DEF Alone, InCall
    <3>2. 1 \in DOMAIN events' /\ DOMAIN <<>> = {}
      BY <2>2
    <3>3. events' # <<>>
      BY <3>2
    <3> QED
      BY <1>0, <1>2, <2>2, <2>3, <3>1, <3>3 DEF Creates
  <2>6. /\ GrantsAreLines' /\ Refusals'
        /\ grants' = {} => RefusedForOneAhead' /\ OneIsLive'
    BY <1>0, <2>1, RaceGoesOn DEF Live
  <2> QED
    BY <2>4, <2>5, <2>6 DEF RaceInv
<1> QED
  BY <1>0, <1>1, <1>4, <1>5
     DEF StoreProofs!Step, StoreProofs!CreateNoMemory, StoreProofs!ReserveFind,
         StoreProofs!ReserveCount, StoreProofs!TakeSeat, StoreProofs!RefuseSeat,
         StoreProofs!ReserveDone, StoreProofs!Rollback, StoreProofs!ShowFind,
         StoreProofs!ShowCopy, StoreProofs!ListHead, StoreProofs!ListNode,
         StoreProofs!WriteOut, StoreProofs!PrintNoMemory

(* A reservation finds its event, gets its number and takes seats that are   *)
(* free.                                                                     *)
LEMMA BuyRaces ==
  ASSUME ARace, Always, RaceInv, NEW t \in Threads, InStore(t), InCall(t), line[t] # 1,
         \/ StoreProofs!ReserveFind(t) \/ StoreProofs!ReserveCount(t)
         \/ StoreProofs!TakeSeat(t)
  PROVE  RaceInv'
<1>0. /\ Alone(t) /\ StoreProofs!ListGrows /\ DOMAIN spc = Threads /\ DOMAIN k = Threads
      /\ UNCHANGED <<job, pos, line>>
  BY StoreStepAlone DEF Alone, jobVars, fileVars, threadVars
<1>1. spc[t] \in Buying /\ DOMAIN events = {1} /\ IsTheEvent(events[1])
  BY EventIsThere
<1>2. StoreProofs!Typed
  BY DEF Always, StoreProofs!IInv
<1> SUFFICES /\ UNCHANGED grants /\ DOMAIN events' = DOMAIN events
             /\ spc'[t] \in {"count", "seats"}
             /\ Live(t) => Live(t)' /\ Taken(t) \subseteq Taken(t)'
  <2>1. Executes'
    BY <1>0, <1>1, ExecutesOn DEF Buying
  <2>2. Creates'
    BY <1>0, EventStays
  <2>3. InCall(t)' /\ spc'[t] # "rollback"
    BY DEF InCall
  <2>4. /\ GrantsAreLines' /\ Refusals'
        /\ grants' = {} => RefusedForOneAhead' /\ OneIsLive'
    BY <1>0, <2>3, RaceGoesOn
  <2> QED
    BY <2>1, <2>2, <2>4 DEF RaceInv
<1>3. CASE StoreProofs!ReserveFind(t)
  <2>1. call[t].id = events[1].id
    BY <1>1, Buyers DEF IsTheEvent
  <2>2. StoreProofs!get_event(call[t].id) # 0
    <3> DEFINE hits == {p \in DOMAIN events : events[p].id = call[t].id}
    <3>1. hits = {1}
      BY <1>1, <2>1
    <3> HIDE DEF hits
    <3>2. \E p \in hits : \A q \in hits : p <= q
      BY <3>1
    <3>3. (CHOOSE p \in hits : \A q \in hits : p <= q) = 1
      BY <3>1, <3>2
    <3> QED
      BY <3>1, <3>3 DEF StoreProofs!get_event, hits
  <2> QED
    BY <1>0, <1>3, <2>2
       DEF StoreProofs!ReserveFind, StoreProofs!Find, StoreProofs!Goto, StoreProofs!store, Live
<1>4. CASE StoreProofs!ReserveCount(t)
  <2>1. DOMAIN events' = DOMAIN events
    BY <1>2, <1>4, StoreConstants, StoreProofs!CountEvents
  <2> QED
    BY <1>0, <1>4, <2>1 DEF StoreProofs!ReserveCount, StoreProofs!Goto, Live
<1>5. CASE StoreProofs!TakeSeat(t)
  <2>1. DOMAIN events' = DOMAIN events
    BY <1>2, <1>5, StoreConstants, StoreProofs!TakeEvents
  <2>2. spc[t] = "seats" /\ k'[t] = k[t] + 1 /\ UNCHANGED <<spc, grants, call>>
    BY <1>0, <1>5 DEF StoreProofs!TakeSeat
  <2>3. k[t] \in Nat
    BY <2>2, SeatsByNumber
  <2>4. 1 .. k[t] \subseteq 1 .. k'[t]
    BY <2>2, <2>3
  <2>5. Taken(t) \subseteq Taken(t)'
    BY <1>0, <2>2, <2>4 DEF Taken, SeatNo
  <2> QED
    BY <2>1, <2>2, <2>5 DEF Live
<1> QED
  BY <1>3, <1>4, <1>5

LEMMA TakenAreNumbers ==
  ASSUME ARace, Always, RaceInv, NEW t \in Threads, spc[t] \in {"seats", "rollback"}
  PROVE  Taken(t) \subseteq Int
<1>1. InCall(t) /\ line[t] # 1 /\ k[t] \in Nat /\ k[t] <= Len(call[t].seats)
  BY SeatsByNumber
<1>2. /\ Len(call[t].seats) \in Nat
      /\ \A j \in 1 .. Len(call[t].seats) : SeatNo(call[t].seats[j]) \in Int
  BY <1>1, Buyers
<1> QED
  BY <1>1, <1>2 DEF Taken

(* The seats a reservation has taken come before the one its loop is at.     *)
LEMMA TakenComeFirst ==
  ASSUME ARace, Always, RaceInv, NEW t \in Threads, spc[t] \in {"seats", "rollback"},
         k[t] < Len(call[t].seats)
  PROVE  /\ NextSeat(t) \in Int /\ Taken(t) \subseteq Int
         /\ \A r \in Taken(t) : r < NextSeat(t)
<1>1. InCall(t) /\ line[t] # 1 /\ k[t] \in Nat
  BY SeatsByNumber
<1>2. PICK s : s = call[t].seats
  OBVIOUS
<1>3. /\ Len(s) \in Nat
      /\ \A j \in 1 .. Len(s) : SeatNo(s[j]) \in Int
      /\ \A j, l \in 1 .. Len(s) : j < l => SeatNo(s[j]) < SeatNo(s[l])
  BY <1>1, <1>2, Buyers
<1>4. k[t] + 1 \in 1 .. Len(s) /\ \A n \in 1 .. k[t] : n \in 1 .. Len(s) /\ n < k[t] + 1
  BY <1>1, <1>2, <1>3
<1>5. NextSeat(t) = SeatNo(s[k[t] + 1]) /\ Taken(t) = {SeatNo(s[n]) : n \in 1 .. k[t]}
  BY <1>2 DEF NextSeat, Taken
<1> QED
  BY <1>3, <1>4, <1>5

(* A seat that cannot be had has been taken by a reservation, and one that   *)
(* is ahead of it is still live, if nobody has won.                          *)
LEMMA SomebodyIsAhead ==
  ASSUME ARace, Always, RaceInv, grants = {}, NEW t \in Threads, StoreProofs!RefuseSeat(t)
  PROVE  \E w \in Threads : w # t /\ Ahead(w, NextSeat(t))
<1>1. spc[t] = "seats" /\ k[t] < Len(call[t].seats) /\ ~StoreProofs!SeatIsFree(t)
  BY DEF StoreProofs!RefuseSeat
<1>2. /\ InCall(t) /\ line[t] # 1 /\ ev[t] = 1 /\ k[t] \in Nat
      /\ \A n : StoreProofs!Seat(t, n) = SeatNo(call[t].seats[n])
  BY <1>1, SeatsByNumber
<1>3. PICK s : s = NextSeat(t) /\ s = StoreProofs!Seat(t, k[t] + 1)
  BY <1>2 DEF NextSeat
<1>4. s \in Int /\ Taken(t) \subseteq Int /\ \A r \in Taken(t) : r < s
  BY <1>1, <1>3, TakenComeFirst
<1>5. k[t] + 1 \in 1 .. Len(call[t].seats)
  BY <1>1, <1>2, Buyers
<1>6. PICK c : c = call[t].seats[k[t] + 1]
  OBVIOUS
<1>7. StoreProofs!InBounds(events[1], c) /\ c \in Nat \X Nat
  <2>1. StoreProofs!InBounds(events[1], c)
    BY <1>2, <1>5, <1>6, Buyers
  <2>2. call[t].seats \in Seq(Places)
    BY <1>2, Buyers
  <2> QED
    BY <1>5, <1>6, <2>1, <2>2 DEF Places
<1>8. 1 \in DOMAIN events /\ events[1] \in StoreProofs!Event
  BY <1>2, EventIsThere
<1>9. s \in StoreProofs!Seats(events[1])
  BY <1>2, <1>3, <1>6, <1>7, <1>8, StoreConstants, StoreProofs!SeatIndexInside
     DEF StoreProofs!Seat
<1>10. events[1].data[s] # 0
  BY <1>1, <1>2, <1>3, <1>6, <1>7 DEF StoreProofs!SeatIsFree
<1>11. PICK x \in Threads : StoreProofs!Busy(x) /\ s \in StoreProofs!SeatsTaken(x)
  BY <1>8, <1>9, <1>10 DEF Always, StoreProofs!IInv, StoreProofs!Held, StoreProofs!SeatsOwned
<1>12. spc[x] \in {"seats", "rollback"}
  BY <1>11 DEF StoreProofs!Busy
<1>13. s \in Taken(x)
  BY <1>11, <1>12, SeatsByNumber
<1>14. CASE spc[x] = "seats"
  BY <1>3, <1>4, <1>13, <1>14 DEF Ahead, Live
<1>15. CASE spc[x] = "rollback"
  <2>1. k[x] < Len(call[x].seats)
    BY <1>15 DEF RaceInv, Refusals
  <2>2. NextSeat(x) \in Int /\ s < NextSeat(x)
    BY <1>12, <1>13, <2>1, TakenComeFirst
  <2>3. PICK w \in Threads : Ahead(w, NextSeat(x))
    BY <1>15 DEF RaceInv, RefusedForOneAhead
  <2>4. PICK r \in Taken(w) : NextSeat(x) <= r
    BY <2>3 DEF Ahead
  <2>5. Taken(w) \subseteq Int
    BY <2>3, TakenAreNumbers DEF Ahead, Live
  <2>6. s < r
    BY <1>4, <2>2, <2>4, <2>5
  <2>7. w # t
    BY <1>4, <2>4, <2>5, <2>6
  <2> QED
    BY <1>3, <1>4, <2>3, <2>4, <2>5, <2>6, <2>7 DEF Ahead
<1> QED
  BY <1>12, <1>14, <1>15

LEMMA RefuseRaces ==
  ASSUME ARace, Always, RaceInv, NEW t \in Threads, InStore(t), InCall(t), line[t] # 1,
         StoreProofs!RefuseSeat(t)
  PROVE  RaceInv'
<1>0. /\ Alone(t) /\ StoreProofs!ListGrows /\ DOMAIN spc = Threads
      /\ UNCHANGED <<job, pos, line>>
  BY StoreStepAlone DEF Alone, jobVars, fileVars, threadVars
<1>1. /\ spc[t] = "seats" /\ spc'[t] = "rollback" /\ k[t] < Len(call[t].seats)
      /\ UNCHANGED <<events, grants, call, k>>
  BY <1>0 DEF StoreProofs!RefuseSeat, StoreProofs!Goto, StoreProofs!store, StoreProofs!locals
<1>2. Executes'
  BY <1>0, <1>1, ExecutesOn DEF Buying
<1>3. Creates'
  BY <1>0, <1>1, EventStays
<1>4. GrantsAreLines'
  BY <1>0, <1>1 DEF RaceInv, GrantsAreLines, SeatNo
<1>5. Refusals'
  BY <1>0, <1>1 DEF RaceInv, Refusals, Alone
<1>6. \A u \in Threads : Taken(u)' = Taken(u) /\ NextSeat(u)' = NextSeat(u)
  BY <1>0, <1>1, SameSeats
<1>7. ASSUME NEW w \in Threads, w # t, Live(w) PROVE Live(w)'
  BY <1>0, <1>7 DEF Live, Alone
<1>8. ASSUME grants' = {} PROVE RefusedForOneAhead' /\ OneIsLive'
  <2>1. PICK w \in Threads : w # t /\ Ahead(w, NextSeat(t))
    BY <1>1, <1>8, SomebodyIsAhead
  <2>2. Live(w) /\ Live(w)'
    BY <1>7, <2>1 DEF Ahead
  <2>3. OneIsLive'
    BY <1>0, <2>2 DEF OneIsLive
  <2>4. ASSUME NEW u \in Threads, spc'[u] = "rollback"
        PROVE  \E x \in Threads : x # t /\ Ahead(x, NextSeat(u))
    <3>1. CASE u = t
      BY <2>1, <3>1
    <3>2. CASE u # t
      <4>1. spc[u] = "rollback"
        BY <1>0, <2>4, <3>2 DEF Alone
      <4>2. PICK x \in Threads : Ahead(x, NextSeat(u))
        BY <1>1, <1>8, <4>1 DEF RaceInv, RefusedForOneAhead
      <4>3. CASE x = t
        <5>1. PICK r \in Taken(t) : NextSeat(u) <= r
          BY <4>2, <4>3 DEF Ahead
        <5>2. PICK q \in Taken(w) : NextSeat(t) <= q
          BY <2>1 DEF Ahead
        <5>3. /\ r \in Int /\ NextSeat(t) \in Int /\ r < NextSeat(t)
          BY <1>1, TakenComeFirst
        <5>4. NextSeat(u) \in Int
          BY <4>1, TakenComeFirst DEF RaceInv, Refusals
        <5>5. q \in Int
          BY <2>2, TakenAreNumbers DEF Live
        <5>6. NextSeat(u) <= q
          BY <5>1, <5>2, <5>3, <5>4, <5>5
        <5> QED
          BY <2>1, <2>2, <5>6 DEF Ahead
      <4> QED
        BY <4>2, <4>3
    <3> QED
      BY <3>1, <3>2
  <2>5. ASSUME NEW u \in Threads, spc'[u] = "rollback"
        PROVE  \E x \in Threads : Ahead(x, NextSeat(u))'
    <3>1. PICK x \in Threads : x # t /\ Ahead(x, NextSeat(u))
      BY <2>4, <2>5
    <3> QED
      BY <1>6, <1>7, <3>1 DEF Ahead
  <2> QED
    BY <2>3, <2>5 DEF RefusedForOneAhead
<1> QED
  BY <1>2, <1>3, <1>4, <1>5, <1>8 DEF RaceInv

LEMMA DoneRaces ==
  ASSUME ARace, Always, RaceInv, NEW t \in Threads, InStore(t), InCall(t), line[t] # 1,
         StoreProofs!ReserveDone(t)
  PROVE  RaceInv'
<1>0. /\ Alone(t) /\ StoreProofs!ListGrows /\ DOMAIN spc = Threads
      /\ UNCHANGED <<job, pos, line>>
  BY StoreStepAlone DEF Alone, jobVars, fileVars, threadVars
<1>1. /\ spc[t] = "seats" /\ spc'[t] = "idle" /\ k[t] = Len(call[t].seats)
      /\ UNCHANGED <<events, call, k>>
      /\ grants' = grants \cup {[by |-> t, event |-> ev[t], id |-> rid[t],
                                 seats |-> StoreProofs!SeatsTaken(t)]}
  BY <1>0 DEF StoreProofs!ReserveDone, StoreProofs!Return, StoreProofs!Goto, StoreProofs!locals
<1>2. Executes'
  BY <1>0, <1>1, ExecutesOn
<1>3. Creates'
  BY <1>0, <1>1, EventStays
<1>4. ev[t] = 1 /\ StoreProofs!SeatsTaken(t) = {SeatNo(d) : d \in SeatsOf(job[line[t]])}
  BY <1>1, SeatsByNumber, Buyers DEF Taken
<1>5. line[t] \in 3 .. Len(job)
  BY EventIsThere
<1>6. \A g \in grants' : g.event = 1 /\ \E n \in 3 .. Len(job) :
        g.seats = {SeatNo(d) : d \in SeatsOf(job[n])}
  BY <1>1, <1>4, <1>5 DEF RaceInv, GrantsAreLines
<1>7. GrantsAreLines'
  BY <1>0, <1>6 DEF GrantsAreLines, SeatNo
<1>8. Refusals'
  BY <1>0, <1>1 DEF RaceInv, Refusals, Alone
<1>9. grants' # {}
  BY <1>1
<1> QED
  BY <1>2, <1>3, <1>7, <1>8, <1>9 DEF RaceInv

LEMMA RollbackRaces ==
  ASSUME ARace, Always, RaceInv, NEW t \in Threads, InStore(t), InCall(t), line[t] # 1,
         StoreProofs!Rollback(t)
  PROVE  RaceInv'
<1>0. /\ Alone(t) /\ StoreProofs!ListGrows /\ DOMAIN spc = Threads
      /\ UNCHANGED <<job, pos, line>>
  BY StoreStepAlone DEF Alone, jobVars, fileVars, threadVars
<1>1. spc[t] = "rollback" /\ spc'[t] = "idle" /\ UNCHANGED <<grants, call, k>>
  BY <1>0 DEF StoreProofs!Rollback, StoreProofs!Return, StoreProofs!Goto, StoreProofs!locals
<1>2. Executes'
  BY <1>0, <1>1, ExecutesOn
<1>3. Creates'
  <2>1. DOMAIN events' = DOMAIN events
    BY StoreConstants, StoreProofs!RollbackEvents DEF Always, StoreProofs!IInv
  <2> QED
    BY <1>0, <2>1, EventStays
<1>4. GrantsAreLines'
  BY <1>0, <1>1 DEF RaceInv, GrantsAreLines, SeatNo
<1>5. Refusals'
  BY <1>0, <1>1 DEF RaceInv, Refusals, Alone
<1>6. \A u \in Threads : Taken(u)' = Taken(u) /\ NextSeat(u)' = NextSeat(u)
  BY <1>0, <1>1, SameSeats
<1>7. ASSUME NEW w \in Threads, Live(w) PROVE Live(w)'
  BY <1>0, <1>1, <1>7 DEF Live, Alone
<1>8. ASSUME grants' = {} PROVE RefusedForOneAhead' /\ OneIsLive'
  <2>1. RefusedForOneAhead
    BY <1>1, <1>8 DEF RaceInv
  <2>2. PICK w \in Threads : Live(w)
    BY <1>1, <2>1 DEF RefusedForOneAhead, Ahead
  <2>3. OneIsLive'
    BY <1>7, <2>2 DEF OneIsLive
  <2>4. ASSUME NEW u \in Threads, spc'[u] = "rollback"
        PROVE  \E x \in Threads : Ahead(x, NextSeat(u))'
    <3>1. spc[u] = "rollback"
      BY <1>0, <1>1, <2>4 DEF Alone
    <3>2. PICK x \in Threads : Ahead(x, NextSeat(u))
      BY <2>1, <3>1 DEF RefusedForOneAhead
    <3> QED
      BY <1>6, <1>7, <3>2 DEF Ahead
  <2> QED
    BY <2>3, <2>4 DEF RefusedForOneAhead
<1> QED
  BY <1>2, <1>3, <1>4, <1>5, <1>8 DEF RaceInv

LEMMA InStoreRaces ==
  ASSUME ARace, Always, ~MallocFails, RaceInv, NEW t \in Threads, InStore(t)
  PROVE  RaceInv'
<1>1. StoreProofs!Step(t)
  BY StoreStepAlone
<1>2. InCall(t)
  BY <1>1
     DEF InCall, StoreProofs!Step, StoreProofs!CreateMark, StoreProofs!CreateAppend,
         StoreProofs!CreateNoMemory, StoreProofs!ReserveFind, StoreProofs!ReserveCount,
         StoreProofs!TakeSeat, StoreProofs!RefuseSeat, StoreProofs!ReserveDone,
         StoreProofs!Rollback, StoreProofs!ShowFind, StoreProofs!ShowCopy,
         StoreProofs!ListHead, StoreProofs!ListNode, StoreProofs!WriteOut,
         StoreProofs!PrintNoMemory
<1>3. CASE line[t] = 1
  BY <1>2, <1>3, CreateRaces
<1>4. CASE line[t] # 1
  <2>1. spc[t] \in {"reserve", "count", "seats", "rollback"}
    BY <1>2, <1>4, EventIsThere DEF Buying
  <2>2. \/ StoreProofs!ReserveFind(t) \/ StoreProofs!ReserveCount(t)
        \/ StoreProofs!TakeSeat(t) \/ StoreProofs!RefuseSeat(t)
        \/ StoreProofs!ReserveDone(t) \/ StoreProofs!Rollback(t)
    BY <1>1, <2>1
       DEF StoreProofs!Step, StoreProofs!CreateMark, StoreProofs!CreateAppend,
           StoreProofs!CreateNoMemory, StoreProofs!ShowFind, StoreProofs!ShowCopy,
           StoreProofs!ListHead, StoreProofs!ListNode, StoreProofs!WriteOut,
           StoreProofs!PrintNoMemory
  <2> QED
    BY <1>2, <1>4, <2>2, BuyRaces, RefuseRaces, DoneRaces, RollbackRaces
<1> QED
  BY <1>3, <1>4

(* The next line is read and called.                                         *)
LEMMA FetchRaces ==
  ASSUME ARace, Always, RaceInv, NEW t \in Threads, FetchAndCall(t)
  PROVE  RaceInv'
<1>1. /\ pc[t] = "fetch" /\ pos <= Len(job) /\ UNCHANGED job /\ pos' = pos + 1
      /\ line' = [line EXCEPT ![t] = pos] /\ pc' = [pc EXCEPT ![t] = AfterFetch(job[pos])]
  BY DEF FetchAndCall, Fetch, Goto
<1>2. /\ pos \in Nat /\ pos >= 1 /\ DOMAIN pc = Threads /\ DOMAIN line = Threads
      /\ pos \in DOMAIN job
  BY <1>1, RaceLines DEF Always, Inv, TypeOK
<1>3. ~InCall(t)
  BY <1>1 DEF RaceInv, Executes
<1>4. DOMAIN spc = Threads /\ DOMAIN call = Threads
  BY DEF Always, StoreProofs!IInv, StoreProofs!Typed, StoreProofs!LocalsTyped
<1>5. \/ pos = 1 \/ pos = 2 \/ pos \in 3 .. Len(job)
  BY <1>1, <1>2, RaceLines
<1> DEFINE c == Sorted(job[pos])
<1>6. /\ UNCHANGED <<events, id_being_processed, grants, k>>
      /\ \A u \in Threads : u # t => spc'[u] = spc[u] /\ call'[u] = call[u]
      /\ job[pos] \in StoreCommands => spc'[t] = c.op /\ call'[t] = c
      /\ job[pos] \notin StoreCommands => spc'[t] = spc[t]
  <2>1. CASE job[pos] \in StoreCommands
    <3>1. StoreProofs!Call(t, c)
      BY <2>1, SameSteps DEF FetchAndCall
    <3> HIDE DEF c
    <3> QED
      BY <1>4, <2>1, <3>1 DEF StoreProofs!Call, StoreProofs!Goto, StoreProofs!store
  <2>2. CASE job[pos] \notin StoreCommands
    BY <2>2 DEF FetchAndCall, storeVars
  <2> QED
    BY <2>1, <2>2
<1>7. /\ pos = 1 => job[pos] \in StoreCommands /\ c = job[1] /\ c.op = "create"
      /\ pos = 2 => job[pos] \notin StoreCommands
      /\ pos \in 3 .. Len(job) => job[pos] \in StoreCommands /\ c.op = "reserve"
  <2>1. pos = 1 => job[pos] \in StoreCommands /\ c = job[1] /\ c.op = "create"
    BY RaceLines DEF Sorted
  <2>2. pos = 2 => job[pos] \notin StoreCommands
    BY RaceLines
  <2>3. pos \in 3 .. Len(job) => job[pos] \in StoreCommands /\ c.op = "reserve"
    BY RaceLines, RaceSeats
  <2> QED
    BY <2>1, <2>2, <2>3
<1>8. /\ InCall(t)' => pos # 2 /\ call'[t] = c /\ line'[t] = pos /\ pc'[t] = "exec"
                         /\ \/ pos = 1 /\ spc'[t] = "create"
                            \/ pos \in 3 .. Len(job) /\ spc'[t] = "reserve"
      /\ pos # 2 => InCall(t)'
      /\ spc'[t] \notin {"seats", "rollback"}
  <2>1. job[pos] \in StoreCommands => pc'[t] = "exec" /\ line'[t] = pos
    BY <1>1, <1>2 DEF AfterFetch
  <2> HIDE DEF c
  <2> QED
    BY <1>3, <1>5, <1>6, <1>7, <2>1 DEF InCall
<1>9. \A u \in Threads : u # t => (InCall(u)' <=> InCall(u)) /\ (Live(u)' <=> Live(u))
                                     /\ line'[u] = line[u] /\ pc'[u] = pc[u]
  BY <1>1, <1>2, <1>6 DEF InCall, Live
<1> HIDE DEF c
<1>10. Executes'
  <2>1. ASSUME NEW u \in Threads, InCall(u)'
        PROVE  /\ pc'[u] = "exec" /\ line'[u] \in 1 .. pos' - 1
               /\ call'[u] = Sorted(job[line'[u]])
               /\ \/ line'[u] = 1 /\ spc'[u] \in Creating
                  \/ line'[u] \in 3 .. Len(job) /\ spc'[u] \in Buying
    <3>1. CASE u = t
      BY <1>1, <1>2, <1>8, <2>1, <3>1 DEF c, Creating, Buying
    <3>2. CASE u # t
      <4>1. /\ pc[u] = "exec" /\ line[u] \in 1 .. pos - 1
            /\ call[u] = Sorted(job[line[u]])
            /\ \/ line[u] = 1 /\ spc[u] \in Creating
               \/ line[u] \in 3 .. Len(job) /\ spc[u] \in Buying
        BY <1>9, <2>1, <3>2 DEF RaceInv, Executes
      <4> QED
        BY <1>1, <1>2, <1>6, <1>9, <3>2, <4>1
    <3> QED
      BY <3>1, <3>2
  <2>2. ASSUME NEW u \in Threads, NEW v \in Threads, InCall(u)', InCall(v)', line'[u] = line'[v]
        PROVE  u = v
    <3>1. \A w \in Threads : w # t /\ InCall(w) => line[w] < pos
      BY <1>2 DEF RaceInv, Executes
    <3>2. CASE u # t /\ v # t
      BY <1>9, <2>2, <3>2 DEF RaceInv, Executes
    <3>3. CASE u = t \/ v = t
      BY <1>2, <1>8, <1>9, <2>2, <3>1, <3>3
    <3> QED
      BY <3>2, <3>3
  <2>3. \A l : Sorted(job[l])' = Sorted(job'[l])
    BY DEF Sorted
  <2> QED
    BY <1>1, <2>1, <2>2, <2>3 DEF Executes
<1>11. Creates'
  <2>1. \A p \in DOMAIN events : p = 1 /\ IsTheEvent(events[1])
    BY DEF RaceInv, Creates
  <2>2. \A p \in DOMAIN events' : p = 1 /\ IsTheEvent(events[1])'
    BY <1>1, <1>6, <2>1 DEF IsTheEvent
  <2>3. pos' # 1
    BY <1>1, <1>2
  <2>4. events' # <<>> \/ \E u \in Threads : InCall(u)' /\ line'[u] = 1
    <3>1. CASE pos = 1
      BY <1>8, <3>1
    <3>2. CASE pos # 1
      BY <1>3, <1>6, <1>9, <3>2 DEF RaceInv, Creates
    <3> QED
      BY <3>1, <3>2
  <2>5. ASSUME NEW u \in Threads, InCall(u)', line'[u] = 1
        PROVE  events' = <<>> /\ (spc'[u] = "create" => id_being_processed' = -1)
    <3>1. CASE u = t
      <4>1. pos = 1
        BY <1>8, <2>5, <3>1
      <4> QED
        BY <1>6, <4>1 DEF RaceInv, Creates
    <3>2. CASE u # t
      BY <1>6, <1>9, <2>5, <3>2 DEF RaceInv, Creates
    <3> QED
      BY <3>1, <3>2
  <2> QED
    BY <2>2, <2>3, <2>4, <2>5 DEF Creates
<1>12. GrantsAreLines'
  BY <1>1, <1>6 DEF RaceInv, GrantsAreLines, SeatNo
<1>13. \A u \in Threads : spc'[u] = "rollback" =>
         u # t /\ spc[u] = "rollback" /\ k'[u] = k[u] /\ call'[u] = call[u]
  BY <1>6, <1>8
<1>14. Refusals'
  BY <1>13 DEF RaceInv, Refusals
<1>15. ASSUME NEW w \in Threads, Live(w) PROVE Live(w)' /\ Taken(w)' = Taken(w)
  <2>1. w # t
    BY <1>3, <1>15 DEF Live, InCall
  <2> QED
    BY <1>1, <1>6, <1>9, <1>15, <2>1, SameSeats
<1>16. ASSUME grants' = {} PROVE RefusedForOneAhead'
  <2> SUFFICES ASSUME NEW u \in Threads, spc'[u] = "rollback"
               PROVE  \E w \in Threads : Ahead(w, NextSeat(u))'
    BY DEF RefusedForOneAhead
  <2>1. PICK w \in Threads : Ahead(w, NextSeat(u))
    BY <1>6, <1>13, <1>16 DEF RaceInv, RefusedForOneAhead
  <2>2. NextSeat(u)' = NextSeat(u)
    BY <1>1, <1>6, <1>13, SameSeats
  <2> QED
    BY <1>15, <2>1, <2>2 DEF Ahead
<1>17. ASSUME grants' = {} PROVE OneIsLive'
  <2> SUFFICES ASSUME NEW n \in 3 .. pos' - 1
               PROVE  (\E u \in Threads : InCall(u) /\ line[u] = n)'
                        \/ (\E w \in Threads : Live(w))'
    BY DEF OneIsLive
  <2>1. CASE n = pos
    BY <1>8, <2>1
  <2>2. CASE n # pos
    <3>1. n \in 3 .. pos - 1
      BY <1>1, <1>2, <2>2
    <3>2. \/ \E u \in Threads : InCall(u) /\ line[u] = n
          \/ \E w \in Threads : Live(w)
      BY <1>6, <1>17, <3>1 DEF RaceInv, OneIsLive
    <3> QED
      BY <1>3, <1>9, <1>15, <3>2
  <2> QED
    BY <2>1, <2>2
<1> QED
  BY <1>10, <1>11, <1>12, <1>14, <1>16, <1>17 DEF RaceInv

(* What happens outside the store touches no thread that is inside.          *)
LEMMA OutsideSteps ==
  ASSUME Always, NEW t \in Threads,
         Returned(t) \/ (ControlStep(t) /\ UNCHANGED storeVars)
  PROVE  /\ UNCHANGED <<storeVars, job, pos, line>>
         /\ \A u \in Threads : u # t => pc'[u] = pc[u]
         /\ InCall(t) => pc[t] # "exec"
<1> USE DEF fileVars, delayVars, threadVars, mainVars, Goto, Exit
<1>0. UNCHANGED storeVars
  BY DEF Returned
<1>1. DOMAIN pc = Threads
  BY DEF Always, Inv, TypeOK
<1>2. CASE Returned(t)
  BY <1>0, <1>1, <1>2 DEF Returned, Execute, InCall
<1>3. CASE Start(t) \/ TakeDelay(t) \/ Sleep(t) \/ NoDelay(t)
  BY <1>0, <1>1, <1>3 DEF Start, TakeDelay, Sleep, NoDelay
<1>4. CASE SeesBarrier(t) \/ SeesEnd(t)
  BY <1>0, <1>1, <1>4 DEF SeesBarrier, SeesEnd
<1>5. CASE WaitOne(t) \/ WaitAll(t) \/ WaitAllDone(t)
  BY <1>0, <1>1, <1>5 DEF WaitOne, WaitAll, WaitAllDone
<1> QED
  BY <1>2, <1>3, <1>4, <1>5 DEF ControlStep

LEMMA MainSteps ==
  ASSUME Always, ProcessMain
  PROVE  /\ UNCHANGED <<storeVars, job, pos, line>>
         /\ \A u \in Threads : pc[u] = "exec" => pc'[u] = "exec"
<1> USE DEF fileVars, delayVars, threadVars, mainVars, Goto
<1>1. UNCHANGED storeVars /\ MainStep
  BY DEF ProcessMain
<1>2. UNCHANGED <<job, pos, line>>
  BY <1>1 DEF MainStep, MainCreate, MainCreated, MainJoin, MainRestart, MainEnd
<1>3. ASSUME NEW u \in Threads, pc[u] = "exec" PROVE pc'[u] = "exec"
  <2>1. CASE MainCreate
    <3>1. mi <= mi /\ u \in Nat
      BY ThreadNumbers DEF Always, Inv, TypeOK
    <3>2. u # mi
      BY <1>3, <2>1, <3>1 DEF Always, RoundInv, MainCreate
    <3> QED
      BY <1>3, <2>1, <3>2 DEF MainCreate, Always, Inv, TypeOK
  <2>2. CASE MainCreated \/ MainJoin \/ MainRestart \/ MainEnd
    BY <1>3, <2>2 DEF MainCreated, MainJoin, MainRestart, MainEnd
  <2> QED
    BY <1>1, <2>1, <2>2 DEF MainStep
<1> QED
  BY <1>1, <1>2, <1>3

LEMMA ControlRaces ==
  ASSUME Always, RaceInv, NEW t \in Threads,
         Returned(t) \/ (ControlStep(t) /\ UNCHANGED storeVars)
  PROVE  RaceInv'
<1>1. \A u \in Threads : InCall(u) => pc'[u] = "exec"
  BY OutsideSteps DEF RaceInv, Executes
<1> QED
  BY <1>1, OutsideSteps, OutsideStore

LEMMA MainRaces ==
  ASSUME Always, RaceInv, ProcessMain
  PROVE  RaceInv'
<1>1. \A u \in Threads : InCall(u) => pc'[u] = "exec"
  BY MainSteps DEF RaceInv, Executes
<1> QED
  BY <1>1, MainSteps, OutsideStore

LEMMA RaceStep ==
  ASSUME ARace, Always, ~MallocFails, RaceInv, [ProcessNext]_processVars
  PROVE  RaceInv'
<1>1. ASSUME NEW t \in Threads, ProcessStep(t) PROVE RaceInv'
  BY <1>1, FetchRaces, InStoreRaces, ControlRaces DEF ProcessStep
<1>2. CASE ProcessMain
  BY <1>2, MainRaces
<1>3. ASSUME UNCHANGED <<jobVars, storeVars>> PROVE RaceInv'
  <2>1. UNCHANGED <<storeVars, job, pos, line, pc>>
    BY <1>3 DEF jobVars, fileVars, threadVars
  <2>2. \A u \in Threads : InCall(u) => pc'[u] = "exec"
    BY <2>1 DEF RaceInv, Executes
  <2> QED
    BY <2>1, <2>2, OutsideStore
<1> QED
  BY <1>1, <1>2, <1>3 DEF ProcessNext, Ended, processVars

LEMMA RaceStart ==
  ASSUME ProcessInit
  PROVE  RaceInv
<1>1. /\ events = <<>> /\ id_being_processed = -1 /\ grants = {} /\ pos = 1
      /\ \A t \in Threads : spc[t] = "idle"
  BY SameStore DEF ProcessInit, Init, StoreProofs!StoreInit
<1>2. \A t \in Threads : ~InCall(t) /\ spc[t] # "rollback"
  BY <1>1 DEF InCall
<1>3. Executes
  BY <1>2 DEF Executes
<1>4. Creates
  BY <1>1, <1>2 DEF Creates
<1>5. GrantsAreLines /\ Refusals /\ RefusedForOneAhead
  BY <1>1, <1>2 DEF GrantsAreLines, Refusals, RefusedForOneAhead
<1>6. OneIsLive
  BY <1>1 DEF OneIsLive
<1> QED
  BY <1>3, <1>4, <1>5, <1>6 DEF RaceInv

LEMMA AlwaysHolds == ProcessSpec => []Always
<1>1. ProcessSpec => Spec /\ StoreProofs!OpenSpec
  BY ProcessImplementsItsParts, SameStore, PTL
     DEF ImplementsParts, Store!OpenSpec, StoreProofs!OpenSpec
<1>2. Spec => [](Inv /\ RoundInv)
  BY InvHolds, RoundHolds, PTL
<1>3. StoreProofs!OpenSpec => []StoreProofs!IInv
  BY StoreConstants, StoreProofs!IInvHolds
<1> QED
  BY <1>1, <1>2, <1>3, PTL DEF Always

LEMMA JobStays == [ProcessNext]_processVars => UNCHANGED job
<1> SUFFICES ASSUME [ProcessNext]_processVars PROVE UNCHANGED job
  OBVIOUS
<1> USE DEF fileVars, jobVars
<1>1. ASSUME NEW t \in Threads, ProcessStep(t) PROVE UNCHANGED job
  BY <1>1
     DEF ProcessStep, FetchAndCall, InStore, Returned, ControlStep, Fetch, Execute,
         Start, TakeDelay, Sleep, NoDelay, SeesBarrier, SeesEnd, WaitOne, WaitAll, WaitAllDone
<1>2. CASE ProcessMain
  BY <1>2 DEF ProcessMain, MainStep, MainCreate, MainCreated, MainJoin, MainRestart, MainEnd
<1> QED
  BY <1>1, <1>2 DEF ProcessNext, Ended, processVars

LEMMA SameRace == UNCHANGED job => (ARace' <=> ARace)
<1> SUFFICES ASSUME UNCHANGED job PROVE ARace' <=> ARace
  OBVIOUS
<1>1. \A n : SeatsOf(job[n])' = SeatsOf(job[n])
  BY DEF SeatsOf
<1>2. Races(job)' <=> Races(job)
  BY <1>1 DEF Races
<1>3. Sellable(job)' <=> Sellable(job)
  BY DEF Sellable
<1> QED
  BY <1>2, <1>3 DEF ARace

LEMMA RaceHolds ==
  ASSUME ~MallocFails
  PROVE  ProcessSpec => [](ARace => RaceInv)
<1>1. ProcessInit => (ARace => RaceInv)
  BY RaceStart
<1>2. Always /\ (ARace => RaceInv) /\ [ProcessNext]_processVars => (ARace => RaceInv)'
  <2> SUFFICES ASSUME Always, ARace => RaceInv, [ProcessNext]_processVars, ARace'
               PROVE  RaceInv'
    OBVIOUS
  <2>1. UNCHANGED job
    BY JobStays
  <2>2. ARace' <=> ARace
    BY <2>1, SameRace
  <2> QED
    BY <2>2, RaceStep
<1> QED
  BY <1>1, <1>2, AlwaysHolds, PTL DEF ProcessSpec

(* When the process is done, one reservation has won, and only one.          *)
LEMMA RaceWon ==
  ASSUME ~MallocFails, MaxThreads > 0, ARace, Always, RaceInv, mpc = "done",
         AllLinesRead, Store!GrantsAreDisjoint
  PROVE  Cardinality(grants) = 1
<1>1. /\ 1 \in Threads /\ \A t \in Threads : pc[t] = "exited"
  BY ThreadNumbers DEF AllLinesRead
<1>2. result[1] # NoResult
  BY <1>1 DEF Always, RoundInv
<1>3. pos = Len(job) + 1
  BY <1>1, <1>2 DEF AllLinesRead
<1>4. grants # {}
  <2>1. \A t \in Threads : ~InCall(t) /\ ~Live(t)
    BY <1>1 DEF RaceInv, Executes, Live, InCall
  <2>2. 3 \in 3 .. pos - 1
    <3>1. Len(job) \in Nat /\ Len(job) > 2
      BY RaceLines
    <3> QED
      BY <1>3, <3>1
  <2> QED
    BY <2>1, <2>2 DEF RaceInv, OneIsLive
<1>5. PICK g \in grants : TRUE
  BY <1>4
<1>6. ASSUME NEW h \in grants PROVE h = g
  <2>1. PICK m \in 3 .. Len(job) : g.seats = {SeatNo(d) : d \in SeatsOf(job[m])}
    BY DEF RaceInv, GrantsAreLines
  <2>2. PICK n \in 3 .. Len(job) : h.seats = {SeatNo(d) : d \in SeatsOf(job[n])}
    BY DEF RaceInv, GrantsAreLines
  <2>3. PICK d : d \in SeatsOf(job[m]) /\ d \in SeatsOf(job[n])
    BY DEF ARace, Races
  <2>4. SeatNo(d) \in g.seats \cap h.seats
    BY <2>1, <2>2, <2>3
  <2>5. g.event = h.event
    BY DEF RaceInv, GrantsAreLines
  <2> QED
    BY <2>4, <2>5 DEF Store!GrantsAreDisjoint
<1>7. grants = {g}
  BY <1>6
<1> QED
  BY <1>7, FS_Singleton

(* jobs/23.jobs:5: of several reservations that pairwise overlap, made at    *)
(* the same time for seats of an event that is there, one succeeds, however  *)
(* the threads interleave seat by seat: they never refuse each other until   *)
(* all are refused, because parser.c:295-303 sorts the seats of each.        *)
(* Provided a thread runs, malloc does not fail, and no reservation of the   *)
(* file names a seat twice or a seat or event that is not there.             *)
THEOREM OneReservationWins ==
  ASSUME MaxThreads > 0, ~MallocFails,
         \A file \in JobFiles : Races(file) => Sellable(file)
  PROVE  ProcessSpec => []OneReserveSucceeds
<1>1. Always => (Races(job) => ARace)
  BY DEF Always, Inv, TypeOK, ARace
<1>2. Always /\ (ARace => RaceInv) /\ AllLinesRead /\ Store!GrantsAreDisjoint
        => OneReserveSucceeds
  BY <1>1, RaceWon DEF OneReserveSucceeds
<1>3. ProcessSpec => []AllLinesRead
  BY ProcessImplementsItsParts, NothingIsSkipped, PTL DEF ImplementsParts
<1>4. ProcessSpec => []Store!GrantsAreDisjoint
  BY ProcessKeepsItsStore, PTL
<1> QED
  BY <1>2, <1>3, <1>4, AlwaysHolds, RaceHolds, PTL

-----------------------------------------------------------------------------
(* What the commands of a file do one after the other. *)

(* Run(file)[n] is what the first n lines do: the recursion of InOrder.      *)
Nothing         == [events |-> <<>>, out |-> <<>>]
IsRun(g, n, file) ==
  g = [l \in 0 .. n |-> IF l = 0 THEN Nothing ELSE Effect(g[l - 1], file[l])]
Run(file) == CHOOSE g : IsRun(g, Len(file), file)

LEMMA RunExists ==
  ASSUME NEW file, NEW n \in Nat
  PROVE  \E g : IsRun(g, n, file)
<1> DEFINE S == {m \in Nat : ~\E g : IsRun(g, m, file)}
<1> SUFFICES ASSUME S # {} PROVE FALSE
  OBVIOUS
<1>1. PICK m \in S : \A l \in S : m <= l
  <2>1. S \in SUBSET Nat
    OBVIOUS
  <2> HIDE DEF S
  <2> QED
    BY <2>1, LeastNumber
<1>2. CASE m = 0
  <2>1. IsRun([l \in 0 .. 0 |-> Nothing], 0, file)
    BY DEF IsRun
  <2> QED
    BY <1>1, <1>2, <2>1
<1>3. CASE m > 0
  <2>1. m - 1 \in Nat /\ m - 1 \notin S
    BY <1>1, <1>3
  <2>2. PICK g : IsRun(g, m - 1, file)
    BY <2>1
  <2> DEFINE h == [l \in 0 .. m |-> IF l = 0 THEN Nothing ELSE Effect(g[l - 1], file[l])]
  <2>3. \A l \in 0 .. m - 1 : h[l] = g[l]
    BY <1>3, <2>2 DEF IsRun
  <2>4. \A l \in 0 .. m : l # 0 => h[l - 1] = g[l - 1]
    <3>1. m \in Nat /\ \A l \in 0 .. m : l # 0 => l - 1 \in 0 .. m - 1
      OBVIOUS
    <3> HIDE DEF h
    <3> QED
      BY <2>3, <3>1
  <2>5. IsRun(h, m, file)
    BY <2>4 DEF IsRun
  <2> QED
    BY <1>1, <2>5
<1> QED
  BY <1>1, <1>2, <1>3

LEMMA RunGoesOn ==
  ASSUME NEW file, Len(file) \in Nat
  PROVE  /\ InOrder(file) = Run(file)[Len(file)]
         /\ Run(file)[0] = Nothing
         /\ \A n \in 1 .. Len(file) : Run(file)[n] = Effect(Run(file)[n - 1], file[n])
<1>1. InOrder(file) = Run(file)[Len(file)]
  BY DEF InOrder, Run, IsRun, Nothing
<1>2. IsRun(Run(file), Len(file), file)
  BY RunExists DEF Run
<1>3. \A l \in 0 .. Len(file) :
        Run(file)[l] = IF l = 0 THEN Nothing ELSE Effect(Run(file)[l - 1], file[l])
  BY <1>2 DEF IsRun
<1> QED
  BY <1>1, <1>3

(* What a command does, operation by operation, to a list of events in which *)
(* no id is twice.                                                           *)
State(es, os) == [events |-> es, out |-> os]
IdsOnce(es)   == \A p, q \in DOMAIN es : es[p].id = es[q].id => p = q

LEMMA EffectOfOther ==
  ASSUME NEW s, NEW c, c \notin StoreCommands
  PROVE  Effect(s, c) = s
  BY Zenon DEF Effect

LEMMA EffectOfList ==
  ASSUME NEW es, NEW os, NEW c \in StoreCommands, c.op = "list"
  PROVE  Effect(State(es, os), c)
           = State(es, Append(os, [op |-> "list", text |-> [p \in DOMAIN es |-> es[p].id]]))
<1>1. Effect(State(es, os), c)
        = [State(es, os) EXCEPT !.out = Append(@, [op |-> c.op, text |-> [p \in DOMAIN es |-> es[p].id]])]
  <2>1. State(es, os).events = es
    BY DEF State
  <2> QED
    BY <2>1, Zenon DEF Effect
<1> QED
  BY <1>1 DEF State

LEMMA FoundOnce ==
  ASSUME NEW es, IdsOnce(es), NEW p \in DOMAIN es
  PROVE  Position(es, es[p].id) = {p} /\ (CHOOSE q \in Position(es, es[p].id) : TRUE) = p
<1>1. Position(es, es[p].id) = {p}
  BY DEF IdsOnce, Position
<1> QED
  BY <1>1

LEMMA EffectOfCreate ==
  ASSUME NEW es, NEW os, NEW c \in StoreCommands, c.op = "create"
  PROVE  /\ Position(es, c.id) = {} =>
              Effect(State(es, os), c) = State(Append(es, Store!NewEvent(c.id, c.dim)), os)
         /\ Position(es, c.id) # {} => Effect(State(es, os), c) = State(es, os)
<1>1. State(es, os).events = es
  BY DEF State
<1>2. ASSUME Position(es, c.id) = {}
      PROVE  Effect(State(es, os), c) = [State(es, os) EXCEPT !.events = Append(@, Store!NewEvent(c.id, c.dim))]
  BY <1>1, <1>2, Zenon DEF Effect
<1>3. ASSUME Position(es, c.id) # {}
      PROVE  Effect(State(es, os), c) = State(es, os)
  BY <1>1, <1>3, Zenon DEF Effect
<1> QED
  BY <1>2, <1>3 DEF State

LEMMA EffectOfShow ==
  ASSUME NEW es, IdsOnce(es), NEW os, NEW c \in StoreCommands, c.op = "show"
  PROVE  /\ Position(es, c.id) = {} => Effect(State(es, os), c) = State(es, os)
         /\ \A p \in DOMAIN es : es[p].id = c.id =>
              Effect(State(es, os), c) = State(es, Append(os, [op |-> "show", text |-> es[p].data]))
<1>1. State(es, os).events = es
  BY DEF State
<1>2. ASSUME Position(es, c.id) = {}
      PROVE  Effect(State(es, os), c) = State(es, os)
  BY <1>1, <1>2, Zenon DEF Effect
<1>3. ASSUME NEW p \in DOMAIN es, es[p].id = c.id
      PROVE  Effect(State(es, os), c)
               = [State(es, os) EXCEPT !.out = Append(@, [op |-> c.op, text |-> es[p].data])]
  <2>1. Position(es, c.id) # {} /\ (CHOOSE q \in Position(es, c.id) : TRUE) = p
    BY <1>3, FoundOnce
  <2> QED
    BY <1>1, <2>1, Zenon DEF Effect
<1> QED
  BY <1>2, <1>3 DEF State

LEMMA EffectOfReserve ==
  ASSUME NEW es, IdsOnce(es), NEW os, NEW c \in StoreCommands, c.op = "reserve"
  PROVE  /\ Position(es, c.id) = {} => Effect(State(es, os), c) = State(es, os)
         /\ \A p \in DOMAIN es : es[p].id = c.id =>
              /\ CanTake(es[p], c.seats) =>
                   Effect(State(es, os), c) = State([es EXCEPT ![p] = Take(@, c.seats)], os)
              /\ ~CanTake(es[p], c.seats) => Effect(State(es, os), c) = State(es, os)
<1>1. State(es, os).events = es
  BY DEF State
<1>2. ASSUME Position(es, c.id) = {}
      PROVE  Effect(State(es, os), c) = State(es, os)
  BY <1>1, <1>2, Zenon DEF Effect
<1>3. ASSUME NEW p \in DOMAIN es, es[p].id = c.id, CanTake(es[p], c.seats)
      PROVE  Effect(State(es, os), c) = [State(es, os) EXCEPT !.events[p] = Take(@, c.seats)]
  <2>1. p \in Position(es, c.id) /\ (CHOOSE q \in Position(es, c.id) : TRUE) = p
    BY <1>3, FoundOnce
  <2> QED
    BY <1>1, <1>3, <2>1, Zenon DEF Effect
<1>4. ASSUME NEW p \in DOMAIN es, es[p].id = c.id, ~CanTake(es[p], c.seats)
      PROVE  Effect(State(es, os), c) = State(es, os)
  <2>1. Position(es, c.id) = {p}
    BY <1>4, FoundOnce
  <2>2. ~\E q \in Position(es, c.id) : CanTake(es[q], c.seats)
    BY <1>4, <2>1
  <2> QED
    BY <1>1, <2>1, <2>2, Zenon DEF Effect
<1>5. \A p : [State(es, os) EXCEPT !.events[p] = Take(@, c.seats)]
               = State([es EXCEPT ![p] = Take(@, c.seats)], os)
  BY DEF State
<1> QED
  BY <1>2, <1>3, <1>4, <1>5

-----------------------------------------------------------------------------
(* In which order a request names its seats makes no difference to what it   *)
(* does.                                                                     *)
LEMMA SortedIsAsGood ==
  ASSUME NEW e, NEW s \in Seq(Places)
  PROVE  /\ CanTake(e, qsort(s)) <=> CanTake(e, s)
         /\ Take(e, qsort(s)) = Take(e, s)
<1>1. PICK q : q = qsort(s)
  OBVIOUS
<1>2. /\ \A j \in DOMAIN s : \E l \in DOMAIN q : q[l] = s[j]
      /\ \A l \in DOMAIN q : \E j \in DOMAIN s : s[j] = q[l]
  BY <1>1, QsortKeepsSeats
<1>3. PICK f \in Orders(1 .. Len(s)) : q = [n \in 1 .. Len(s) |-> s[f[n]]]
  BY <1>1, QsortSorts DEF Reordered
<1>9. f \in [1 .. Len(s) -> 1 .. Len(s)] /\ \A v \in 1 .. Len(s) : \E w \in 1 .. Len(s) : f[w] = v
  BY DEF Orders
<1>4. DOMAIN s = 1 .. Len(s) /\ DOMAIN q = 1 .. Len(s)
  BY <1>3
<1>5. ASSUME \A m, n \in DOMAIN q : m # n => q[m] # q[n],
             NEW m \in DOMAIN s, NEW n \in DOMAIN s, m # n
      PROVE  s[m] # s[n]
  <2>1. PICK a \in DOMAIN q, b \in DOMAIN q : f[a] = m /\ f[b] = n
    BY <1>4, <1>9
  <2>2. q[a] = s[m] /\ q[b] = s[n] /\ a # b
    BY <1>3, <1>4, <1>5, <2>1
  <2> QED
    BY <1>5, <2>2
<1>6. ASSUME \A m, n \in DOMAIN s : m # n => s[m] # s[n],
             NEW m \in DOMAIN q, NEW n \in DOMAIN q, m # n
      PROVE  q[m] # q[n]
  BY <1>1, <1>6, QsortKeepsApart
<1>7. CanTake(e, q) <=> CanTake(e, s)
  <2>1. (\A n \in DOMAIN q : Store!InBounds(e, q[n]) /\ e.data[Store!seat_index(e, q[n])] = 0)
          <=> (\A n \in DOMAIN s : Store!InBounds(e, s[n]) /\ e.data[Store!seat_index(e, s[n])] = 0)
    BY <1>2
  <2>2. (\A m, n \in DOMAIN q : m # n => q[m] # q[n]) <=> (\A m, n \in DOMAIN s : m # n => s[m] # s[n])
    BY <1>5, <1>6
  <2> QED
    BY <2>1, <2>2 DEF CanTake
<1>8. {Store!seat_index(e, q[n]) : n \in DOMAIN q} = {Store!seat_index(e, s[n]) : n \in DOMAIN s}
  BY <1>2
<1>10. Take(e, q) = Take(e, s)
  BY <1>8 DEF Take
<1> QED
  BY <1>1, <1>7, <1>10

(* Two seats in bounds with one index are one seat. *)
LEMMA OneSeatPerIndex ==
  ASSUME NEW e \in StoreProofs!Event, NEW c \in Places, NEW d \in Places,
         StoreProofs!InBounds(e, c), StoreProofs!InBounds(e, d),
         StoreProofs!seat_index(e, c) = StoreProofs!seat_index(e, d)
  PROVE  c = d
<1>1. PICK cols \in Nat : cols = e.cols
  BY DEF StoreProofs!Event
<1>2. /\ c[2] \in 1 .. cols /\ d[2] \in 1 .. cols /\ c[1] \in 1 .. e.rows /\ d[1] \in 1 .. e.rows
      /\ (c[1] - 1) * cols + c[2] - 1 = (d[1] - 1) * cols + d[2] - 1
  BY <1>1 DEF StoreProofs!InBounds, StoreProofs!seat_index
<1>3. /\ c[1] \in Nat /\ c[2] \in Nat /\ d[1] \in Nat /\ d[2] \in Nat /\ c[1] >= 1 /\ d[1] >= 1
      /\ c = <<c[1], c[2]>> /\ d = <<d[1], d[2]>>
  BY <1>2 DEF Places
<1>4. (c[1] - 1) * cols + c[2] - 1 \in Int /\ (d[1] - 1) * cols + d[2] - 1 \in Int
  BY <1>3
<1>5. ~Before(c, d) /\ ~Before(d, c)
  <2>1. ~Before(c, d)
    BY <1>2, <1>3, <1>4, SeatsInOrder
  <2>2. ~Before(d, c)
    BY <1>2, <1>3, <1>4, SeatsInOrder
  <2> QED
    BY <2>1, <2>2
<1>6. c[1] = d[1] /\ c[2] = d[2]
  BY <1>3, <1>5 DEF Before
<1> QED
  BY <1>3, <1>6

(* The event with another number of reservations and other seats. *)
Sold(e, r, d) == [id |-> e.id, rows |-> e.rows, cols |-> e.cols, reservations |-> r, data |-> d]

LEMMA EventParts ==
  ASSUME NEW e \in StoreProofs!Event
  PROVE  /\ e = Sold(e, e.reservations, e.data)
         /\ \A r : [e EXCEPT !.reservations = r] = Sold(e, r, e.data)
         /\ \A d : [e EXCEPT !.data = d] = Sold(e, e.reservations, d)
<1>1. e = Sold(e, e.reservations, e.data)
  BY DEF StoreProofs!Event, Sold
<1>2. PICK id, x, y, n, m : e = [id |-> id, rows |-> x, cols |-> y, reservations |-> n, data |-> m]
  BY <1>1 DEF Sold
<1> QED
  BY <1>1, <1>2 DEF Sold

(* The event when the reservation that has taken the seats S is given up     *)
(* (operations.c:176-184).                                                   *)
Freed(d, S)     == [s \in DOMAIN d |-> IF s \in S THEN 0 ELSE d[s]]
GivenBack(e, S) == Sold(e, e.reservations - 1, Freed(e.data, S))

AnEvent(e) == e \in StoreProofs!Event /\ e.data \in [StoreProofs!Seats(e) -> Nat]

(* A number is given out, and back. *)
LEMMA CountedAndBack ==
  ASSUME NEW e, AnEvent(e), NEW f, f = [e EXCEPT !.reservations = @ + 1]
  PROVE  GivenBack(f, {}) = e
<1>1. f = Sold(e, e.reservations + 1, e.data) /\ e = Sold(e, e.reservations, e.data)
  BY EventParts DEF AnEvent
<1>2. AnEvent(f)
  BY <1>1 DEF AnEvent, Sold, StoreProofs!Event, StoreProofs!Seats
<1>3. GivenBack(f, {}) = Sold(f, f.reservations - 1, Freed(f.data, {}))
  BY DEF GivenBack
<1>4. f.data = e.data /\ f.reservations - 1 = e.reservations
      /\ f.id = e.id /\ f.rows = e.rows /\ f.cols = e.cols
  BY <1>1 DEF Sold, AnEvent, StoreProofs!Event
<1>5. Freed(e.data, {}) = e.data
  BY DEF Freed, AnEvent
<1>6. GivenBack(f, {}) = e
  BY <1>1, <1>3, <1>4, <1>5 DEF Sold
<1> QED
  BY <1>6

(* A free seat is taken, and given back with the others. *)
LEMMA TakenAndBack ==
  ASSUME NEW e, AnEvent(e), NEW S, NEW x \in StoreProofs!Seats(e), e.data[x] = 0, NEW r \in Nat,
         NEW f, f = [e EXCEPT !.data[x] = r]
  PROVE  GivenBack(f, S \cup {x}) = GivenBack(e, S)
<1> DEFINE d == [e.data EXCEPT ![x] = r]
<1>1. f = Sold(e, e.reservations, d)
  BY EventParts DEF AnEvent
<1>2. d \in [StoreProofs!Seats(e) -> Nat] /\ DOMAIN d = DOMAIN e.data
  BY DEF AnEvent
<1>3. d \in StoreProofs!SeatMaps
  <2>1. e.rows * e.cols \in Int
    BY DEF AnEvent, StoreProofs!Event
  <2> QED
    BY <1>2, <2>1 DEF StoreProofs!SeatMaps, StoreProofs!Seats
<1>4. Freed(d, S \cup {x}) = Freed(e.data, S)
  BY <1>2 DEF Freed, AnEvent
<1> HIDE DEF d
<1>5. AnEvent(f)
  <2>1. AnEvent(Sold(e, e.reservations, d))
    BY ONLY AnEvent(e), <1>2, <1>3
       DEF AnEvent, Sold, StoreProofs!Event, StoreProofs!Seats
  <2> QED
    BY <1>1, <2>1
<1>6. /\ GivenBack(f, S \cup {x}) = Sold(f, f.reservations - 1, Freed(f.data, S \cup {x}))
      /\ GivenBack(e, S) = Sold(e, e.reservations - 1, Freed(e.data, S))
  BY DEF GivenBack
<1>7. f.data = d /\ f.reservations = e.reservations
      /\ f.id = e.id /\ f.rows = e.rows /\ f.cols = e.cols
  BY <1>1 DEF Sold
<1>8. GivenBack(f, S \cup {x}) = GivenBack(e, S)
  BY <1>4, <1>6, <1>7 DEF Sold
<1> QED
  BY <1>1, <1>8

(* A reservation that has all its seats has done what Take does at once. *)
LEMMA TakenIsTake ==
  ASSUME NEW e, AnEvent(e), NEW cs \in Seq(Places), NEW S,
         \A s : s \in S <=> \E n \in DOMAIN cs : s = StoreProofs!seat_index(e, cs[n]),
         \A n \in DOMAIN cs : StoreProofs!InBounds(e, cs[n]),
         \A m, n \in DOMAIN cs : m # n => cs[m] # cs[n],
         \A s \in S : e.data[s] = e.reservations
  PROVE  CanTake(GivenBack(e, S), cs) /\ Take(GivenBack(e, S), cs) = e
<1> DEFINE d == Freed(e.data, S)
<1>1. PICK f : f = GivenBack(e, S)
  OBVIOUS
<1>2. f = Sold(e, e.reservations - 1, d)
  BY <1>1 DEF GivenBack
<1>3. f.rows = e.rows /\ f.cols = e.cols /\ f.id = e.id /\ f.data = d /\ f.reservations + 1 = e.reservations
  BY <1>2 DEF Sold, AnEvent, StoreProofs!Event
<1>4. \A c : Store!seat_index(f, c) = StoreProofs!seat_index(e, c)
  BY <1>3 DEF Store!seat_index, StoreProofs!seat_index
<1>5. \A c : Store!InBounds(f, c) <=> StoreProofs!InBounds(e, c)
  BY <1>3 DEF Store!InBounds, StoreProofs!InBounds
<1>6. ASSUME NEW n \in DOMAIN cs
      PROVE  Store!InBounds(f, cs[n]) /\ f.data[Store!seat_index(f, cs[n])] = 0
  <2>1. PICK x : x = StoreProofs!seat_index(e, cs[n]) /\ x \in S
    BY <1>6
  <2>2. x \in StoreProofs!Seats(e)
    <3>1. cs[n] \in Nat \X Nat
      BY <1>6 DEF Places
    <3> QED
      BY <1>6, <2>1, <3>1, StoreConstants, StoreProofs!SeatIndexInside DEF AnEvent
  <2>3. d[x] = 0
    BY <2>1, <2>2 DEF Freed, AnEvent
  <2> QED
    BY <1>3, <1>4, <1>5, <2>1, <2>3
<1>7. CanTake(f, cs)
  BY <1>6 DEF CanTake
<1>8. {Store!seat_index(f, cs[n]) : n \in DOMAIN cs} = S
  BY <1>4
<1> DEFINE g == [s \in DOMAIN d |-> IF s \in S THEN e.reservations ELSE d[s]]
<1>9. g = e.data
  <2>1. DOMAIN d = DOMAIN e.data /\ \A s \in DOMAIN d : s \notin S => d[s] = e.data[s]
    BY DEF Freed
  <2> HIDE DEF d
  <2>2. \A s \in DOMAIN e.data : g[s] = e.data[s]
    BY <2>1
  <2> QED
    BY <2>1, <2>2 DEF AnEvent
<1> HIDE DEF d
<1>10. f = [id |-> e.id, rows |-> e.rows, cols |-> e.cols, reservations |-> e.reservations - 1, data |-> d]
  BY <1>2 DEF Sold
<1>11. Take(f, cs) = [[f EXCEPT !.reservations = e.reservations] EXCEPT !.data = g]
  <2>1. [f EXCEPT !.reservations = e.reservations].data = d
    BY <1>10
  <2> QED
    BY <1>3, <1>8, <2>1 DEF Take
<1>12. Take(f, cs) = Sold(e, e.reservations, e.data)
  <2>1. PICK h : h = [f EXCEPT !.reservations = e.reservations]
    OBVIOUS
  <2>2. h = [id |-> e.id, rows |-> e.rows, cols |-> e.cols, reservations |-> e.reservations, data |-> d]
    BY <1>10, <2>1
  <2>3. [h EXCEPT !.data = e.data] = Sold(e, e.reservations, e.data)
    BY <2>2 DEF Sold
  <2> QED
    BY <1>9, <1>11, <2>1, <2>3
<1>13. Take(f, cs) = e
  BY <1>12, EventParts DEF AnEvent
<1> QED
  BY <1>1, <1>7, <1>13

-----------------------------------------------------------------------------
(* Between barriers the process is where Run is. *)

AFile == job \in JobFiles /\ Separated(job)

(* What a call has done so far, taken back: the store before the call.       *)
Selling(t) == spc[t] \in {"seats", "rollback"}
Unsold(t) ==
  IF Selling(t)
    THEN [events EXCEPT ![ev[t]] = GivenBack(events[ev[t]], StoreProofs!SeatsTaken(t))]
    ELSE events

(* A thread in the middle of a call that found the store in the state s.     *)
Midway(t, s) ==
  /\ s = State(Unsold(t), out)
  /\ spc[t] = "append" => Position(events, call[t].id) = {}
  /\ spc[t] # "append" => id_being_processed = -1
  /\ spc[t] \in {"count", "seats", "rollback", "copy"} => events[ev[t]].id = call[t].id
  /\ Selling(t) =>
       /\ rid[t] = events[ev[t]].reservations
       /\ \A n \in 1 .. k[t] : StoreProofs!InBounds(events[ev[t]], call[t].seats[n])
       /\ \A m, n \in 1 .. k[t] : m # n => call[t].seats[m] # call[t].seats[n]
  /\ spc[t] = "rollback" =>
       ~CanTake(GivenBack(events[ev[t]], StoreProofs!SeatsTaken(t)), call[t].seats)
  /\ spc[t] = "print" =>
       Effect(s, job[line[t]]) = State(events, Append(out, StoreProofs!Printed(t)))

(* One thread at most is in the store, and executes the line it read last.   *)
OneCall ==
  /\ \A t \in Threads : InCall(t) =>
       /\ pc[t] = "exec" /\ line[t] \in 1 .. pos - 1
       /\ job[line[t]] \in StoreCommands /\ call[t] = Sorted(job[line[t]])
  /\ \A t, u \in Threads : InCall(t) /\ InCall(u) => t = u

(* It found the store as the lines before its own leave it; and when nobody  *)
(* is in the store, it is as the lines read so far leave it.                 *)
OrderInv ==
  /\ OneCall /\ IdsOnce(events)
  /\ \A t \in Threads : InCall(t) => Midway(t, Run(job)[line[t] - 1])
  /\ (\A t \in Threads : ~InCall(t)) =>
       State(events, out) = Run(job)[pos - 1] /\ id_being_processed = -1

LEMMA FileLines ==
  ASSUME AFile
  PROVE  /\ Len(job) \in Nat /\ DOMAIN job = 1 .. Len(job)
         /\ \A n \in 1 .. Len(job) :
              /\ job[n] \in Commands
              /\ ~IsBarrier(n) => n + 1 \in 1 .. Len(job) /\ IsBarrier(n + 1)
              /\ IsBarrier(n) => job[n] \notin StoreCommands
<1>1. Len(job) \in Nat /\ DOMAIN job = 1 .. Len(job) /\ \A l \in 1 .. Len(job) : job[l] \in Commands
  BY LinesAreCommands DEF AFile
<1>2. ASSUME NEW n \in 1 .. Len(job), ~IsBarrier(n)
      PROVE  n + 1 \in 1 .. Len(job) /\ IsBarrier(n + 1)
  <2>1. n \in DOMAIN job /\ n \in Nat /\ n >= 1
    BY <1>1
  <2>2. n < Len(job) /\ job[n + 1].op = "barrier"
    BY <1>2, <2>1 DEF AFile, Separated, IsBarrier
  <2> QED
    BY <1>1, <2>1, <2>2 DEF IsBarrier
<1>3. ASSUME NEW n \in 1 .. Len(job), IsBarrier(n)
      PROVE  job[n] \notin StoreCommands
  BY <1>3, FilesAssumption DEF IsBarrier
<1> QED
  BY <1>1, <1>2, <1>3

(* A thread in the store executes the line read last, or a BARRIER has been  *)
(* read behind it and nothing else can be.                                   *)
LEMMA LineOfCall ==
  ASSUME AFile, Always, OneCall, NEW t \in Threads, InCall(t)
  PROVE  /\ line[t] \in 1 .. Len(job) /\ pos \in Nat /\ pos <= Len(job) + 1
         /\ line[t] + 1 \in 1 .. Len(job) /\ IsBarrier(line[t] + 1)
         /\ \/ pos - 1 = line[t]
            \/ pos - 1 = line[t] + 1 /\ barrier
<1>1. pos \in 1 .. Len(job) + 1 /\ line[t] \in 1 .. pos - 1 /\ Len(job) \in Nat
  BY FileLines DEF Always, Inv, TypeOK, OneCall
<1>2. line[t] \in 1 .. Len(job) /\ job[line[t]] \in StoreCommands
  BY <1>1 DEF OneCall
<1>3. line[t] + 1 \in 1 .. Len(job) /\ IsBarrier(line[t] + 1)
  BY <1>2, FileLines
<1>4. CASE line[t] + 1 \in line[t] .. pos - 1
  <2>1. Busy(t)
    BY DEF OneCall, Busy
  <2> QED
    BY <1>1, <1>2, <1>3, <1>4, <2>1 DEF Always, Inv, NoBarrierInside
<1>5. CASE line[t] + 1 \notin line[t] .. pos - 1
  <2>1. \A p, l \in Int : l \in 1 .. p - 1 /\ l + 1 \notin l .. p - 1 => p - 1 = l
    OBVIOUS
  <2>2. pos \in Int /\ line[t] \in Int
    BY <1>1
  <2>3. pos - 1 = line[t]
    BY <1>1, <1>5, <2>1, <2>2
  <2> QED
    BY <1>1, <1>2, <1>3, <2>3
<1> QED
  BY <1>1, <1>2, <1>3, <1>4, <1>5

(* Where Run is when the call of t has returned. *)
LEMMA RunAfterCall ==
  ASSUME AFile, Always, OneCall, NEW t \in Threads, InCall(t)
  PROVE  Run(job)[pos - 1] = Effect(Run(job)[line[t] - 1], job[line[t]])
<1> DEFINE l == line[t]
           r == Run(job)
<1>1. /\ l \in 1 .. Len(job) /\ Len(job) \in Nat
      /\ l + 1 \in 1 .. Len(job) /\ IsBarrier(l + 1)
      /\ pos - 1 = l \/ pos - 1 = l + 1
  BY FileLines, LineOfCall
<1>2. \A n \in 1 .. Len(job) : r[n] = Effect(r[n - 1], job[n])
  BY <1>1, RunGoesOn
<1>3. r[l] = Effect(r[l - 1], job[l])
  BY <1>1, <1>2
<1>4. r[l + 1] = r[l]
  <2>1. job[l + 1] \notin StoreCommands
    BY <1>1, FileLines
  <2>2. r[l + 1] = Effect(r[l], job[l + 1])
    <3>1. (l + 1) - 1 = l
      BY <1>1
    <3> QED
      BY <1>1, <1>2, <3>1
  <2> QED
    BY <2>1, <2>2, EffectOfOther
<1> QED
  BY <1>1, <1>3, <1>4

LEMMA NobodyElse ==
  ASSUME OneCall, NEW t \in Threads, InCall(t), Alone(t)
  PROVE  /\ \A u \in Threads : InCall(u)' => u = t
         /\ UNCHANGED <<job, pos, pc, line, barrier>>
<1>1. UNCHANGED <<job, pos, pc, line, barrier>>
  BY DEF Alone, jobVars, fileVars, threadVars
<1>2. \A u \in Threads : InCall(u)' => u = t
  BY DEF Alone, InCall, OneCall
<1> QED
  BY <1>1, <1>2

(* A call returns. *)
LEMMA CallEnds ==
  ASSUME AFile, Always, OrderInv, NEW t \in Threads, InCall(t), Alone(t), spc'[t] = "idle",
         IdsOnce(events'), id_being_processed' = -1,
         State(events', out') = Effect(Run(job)[line[t] - 1], job[line[t]])
  PROVE  OrderInv'
<1>1. OneCall
  BY DEF OrderInv
<1>2. \A u \in Threads : ~InCall(u)'
  BY <1>1, NobodyElse DEF InCall
<1>3. UNCHANGED <<job, pos>>
  BY <1>1, NobodyElse
<1>4. OneCall'
  BY <1>2 DEF OneCall
<1>5. State(events', out') = Run(job)[pos - 1]
  BY <1>1, RunAfterCall
<1>6. Run(job)[pos - 1]' = Run(job)[pos - 1]
  BY <1>3
<1>7. State(events, out)' = State(events', out') /\ IdsOnce(events)'
  BY DEF State, IdsOnce
<1> QED
  BY <1>2, <1>4, <1>5, <1>6, <1>7 DEF OrderInv

(* A call goes on. *)
LEMMA CallGoesOn ==
  ASSUME OrderInv, NEW t \in Threads, InCall(t), Alone(t), InCall(t)', IdsOnce(events'),
         NEW s, s = Run(job)[line[t] - 1], Midway(t, s)'
  PROVE  OrderInv'
<1>1. OneCall
  BY DEF OrderInv
<1>2. \A u \in Threads : InCall(u)' => u = t
  BY <1>1, NobodyElse
<1>3. UNCHANGED <<job, pos, pc, line>> /\ call'[t] = call[t]
  BY <1>1, NobodyElse DEF Alone
<1>4. OneCall'
  <2>1. /\ pc'[t] = "exec" /\ line'[t] \in 1 .. pos' - 1
        /\ job'[line'[t]] \in StoreCommands /\ call'[t] = Sorted(job'[line'[t]])
    BY <1>1, <1>3 DEF OneCall
  <2>2. \A c : Sorted(c)' = Sorted(c')
    BY DEF Sorted
  <2> QED
    BY <1>2, <2>1, <2>2 DEF OneCall
<1>5. Run(job)[line[t] - 1]' = s
  BY <1>3
<1>6. \A u \in Threads : InCall(u)' => Midway(u, Run(job)[line[u] - 1])'
  BY <1>2, <1>5
<1>7. IdsOnce(events)'
  BY DEF IdsOnce
<1>8. ~\A u \in Threads : ~InCall(u)'
  OBVIOUS
<1> QED
  BY <1>4, <1>6, <1>7, <1>8 DEF OrderInv

LEMMA MidwayStays ==
  ASSUME UNCHANGED <<storeVars, job>>, NEW t \in Threads, line'[t] = line[t], NEW s, Midway(t, s)
  PROVE  Midway(t, s)'
<1>1. UNCHANGED <<events, out, spc, call, ev, k, rid, buf, id_being_processed>>
  BY DEF storeVars
<1>2. Selling(t)' <=> Selling(t)
  BY <1>1 DEF Selling
<1>3. /\ StoreProofs!SeatsTaken(t)' = StoreProofs!SeatsTaken(t)
      /\ StoreProofs!Printed(t)' = StoreProofs!Printed(t)
  BY <1>1 DEF StoreProofs!SeatsTaken, StoreProofs!Seat, StoreProofs!seat_index, StoreProofs!Printed
<1>4. Unsold(t)' = Unsold(t)
  BY <1>1, <1>2, <1>3 DEF Unsold
<1> QED
  BY <1>1, <1>2, <1>3, <1>4 DEF Midway

(* A step outside the store. *)
LEMMA OutsideKeepsOrder ==
  ASSUME OrderInv, UNCHANGED <<storeVars, job, pos, line>>,
         \A t \in Threads : InCall(t) => pc'[t] = "exec"
  PROVE  OrderInv'
<1>1. \A t \in Threads : InCall(t)' <=> InCall(t)
  BY DEF InCall, storeVars
<1>2. OneCall'
  <2>1. \A c : Sorted(c)' = Sorted(c')
    BY DEF Sorted
  <2> QED
    BY <1>1, <2>1 DEF OrderInv, OneCall, storeVars
<1>3. IdsOnce(events)'
  BY DEF OrderInv, IdsOnce, storeVars
<1>4. ASSUME NEW t \in Threads, InCall(t) PROVE Midway(t, Run(job)[line[t] - 1])'
  <2>1. PICK s : s = Run(job)[line[t] - 1]
    OBVIOUS
  <2>2. Run(job)[line[t] - 1]' = s
    BY <2>1
  <2>3. Midway(t, s)
    BY <1>4, <2>1 DEF OrderInv
  <2>4. Midway(t, s)'
    BY <2>3, MidwayStays
  <2> QED
    BY <2>2, <2>4
<1>5. ASSUME \A t \in Threads : ~InCall(t)
      PROVE  State(events', out') = Run(job')[pos' - 1] /\ id_being_processed' = -1
  BY <1>5 DEF OrderInv, storeVars
<1> QED
  BY <1>1, <1>2, <1>3, <1>4, <1>5 DEF OrderInv

-----------------------------------------------------------------------------
(* The steps inside the store. *)

(* The call of a thread is its line of the file, with its seats in order.    *)
LEMMA CallIs ==
  ASSUME OneCall, NEW t \in Threads, InCall(t), NEW c, c = job[line[t]]
  PROVE  /\ c \in StoreCommands /\ call[t].op = c.op
         /\ c.op # "list" => call[t].id = c.id /\ c.id \in EventIds
         /\ c.op = "create" => call[t].dim = c.dim /\ c.dim \in Nat \X Nat
         /\ c.op = "reserve" => c.seats \in Seq(Places) /\ call[t].seats = qsort(c.seats)
<1>1. c \in StoreCommands /\ call[t] = Sorted(c)
  BY DEF OneCall
<1>2. CASE c.op # "reserve"
  BY <1>1, <1>2, CommandsAssumption DEF Sorted
<1>3. CASE c.op = "reserve"
  <2>1. c \in [op : {"reserve"}, id : EventIds, seats : Seq(Nat \X Nat) \ {<<>>}]
    BY <1>1, <1>3, CommandsAssumption
  <2>2. call[t] = [c EXCEPT !.seats = qsort(@)]
    BY <1>1, <1>3 DEF Sorted
  <2> QED
    BY <1>1, <1>3, <2>1, <2>2 DEF Places
<1> QED
  BY <1>2, <1>3

(* get_event finds the event of an id, if there is one.                      *)
LEMMA Lookup ==
  ASSUME StoreProofs!EventsTyped, NEW id
  PROVE  /\ StoreProofs!get_event(id) = 0 <=> Position(events, id) = {}
         /\ StoreProofs!get_event(id) # 0 =>
              /\ StoreProofs!get_event(id) \in DOMAIN events
              /\ events[StoreProofs!get_event(id)].id = id
<1> DEFINE hits == {p \in DOMAIN events : events[p].id = id}
<1>1. DOMAIN events = 1 .. Len(events) /\ Len(events) \in Nat
  BY LenProperties DEF StoreProofs!EventsTyped
<1>2. Position(events, id) = hits
  BY DEF Position
<1>3. CASE hits = {}
  BY <1>2, <1>3 DEF StoreProofs!get_event
<1>4. CASE hits # {}
  <2>1. \E p \in hits : \A q \in hits : p <= q
    <3>1. hits \in SUBSET Nat
      BY <1>1
    <3> HIDE DEF hits
    <3> QED
      BY <1>4, <3>1, LeastNumber
  <2>2. StoreProofs!get_event(id) = CHOOSE p \in hits : \A q \in hits : p <= q
    BY <1>4 DEF StoreProofs!get_event
  <2>3. StoreProofs!get_event(id) \in hits
    BY <2>1, <2>2
  <2> QED
    BY <1>1, <1>2, <1>4, <2>3
<1> QED
  BY <1>3, <1>4

(* What holds of the thread that takes a step in the store. *)
LEMMA TheCall ==
  ASSUME Always, OrderInv, NEW t \in Threads, InStore(t), InCall(t)
  PROVE  /\ StoreProofs!Typed /\ StoreProofs!EventsTyped /\ events \in Seq(StoreProofs!Event)
         /\ Alone(t) /\ StoreProofs!ListGrows /\ call'[t] = call[t]
         /\ OneCall /\ IdsOnce(events) /\ Midway(t, Run(job)[line[t] - 1])
         /\ DOMAIN spc = Threads /\ DOMAIN ev = Threads /\ DOMAIN k = Threads /\ DOMAIN rid = Threads
<1>1. StoreProofs!Typed
  BY DEF Always, StoreProofs!IInv
<1>2. Alone(t) /\ StoreProofs!ListGrows /\ call'[t] = call[t]
  BY StoreStepAlone DEF Alone
<1> QED
  BY <1>1, <1>2
     DEF OrderInv, StoreProofs!Typed, StoreProofs!LocalsTyped, StoreProofs!EventsTyped

LEMMA IdsStay ==
  ASSUME IdsOnce(events), StoreProofs!ListGrows, DOMAIN events' = DOMAIN events
  PROVE  IdsOnce(events')
  BY DEF IdsOnce, StoreProofs!ListGrows, StoreProofs!SameSize

LEMMA CreateMarkInOrder ==
  ASSUME AFile, Always, OrderInv, NEW t \in Threads, InStore(t), InCall(t),
         StoreProofs!CreateMark(t)
  PROVE  OrderInv'
<1> USE TheCall
<1>1. PICK s, c : s = Run(job)[line[t] - 1] /\ c = job[line[t]]
  OBVIOUS
<1>2. spc[t] = "create" /\ call[t].op = "create" /\ call[t] \in StoreCalls
  BY DEF StoreProofs!CreateMark, StoreProofs!Typed, StoreProofs!CallsFit, StoreProofs!InCall
<1>3. c \in StoreCommands /\ c.op = "create" /\ call[t].id = c.id /\ c.id \in EventIds
  BY <1>1, <1>2, CallIs
<1>4. s = State(events, out) /\ id_being_processed = -1
  BY <1>1, <1>2 DEF Midway, Unsold, Selling
<1>5. UNCHANGED <<events, out>>
  BY DEF StoreProofs!CreateMark, StoreProofs!store
<1>6. IdsOnce(events')
  BY <1>5 DEF IdsOnce
<1>7. CASE StoreProofs!Exists(call[t].id)
  <2>1. Position(events, c.id) # {}
    BY <1>3, <1>7, Lookup DEF StoreProofs!Exists
  <2>2. Effect(s, c) = State(events', out')
    BY <1>3, <1>4, <1>5, <2>1, EffectOfCreate
  <2>3. spc'[t] = "idle" /\ id_being_processed' = -1
    BY <1>4, <1>7 DEF StoreProofs!CreateMark, StoreProofs!Return, StoreProofs!Goto, StoreProofs!store
  <2> QED
    BY <1>1, <1>6, <2>2, <2>3, CallEnds
<1>8. CASE ~StoreProofs!Exists(call[t].id)
  <2>1. id_being_processed # call[t].id
    BY <1>3, <1>4, CommandsAssumption
  <2>2. spc'[t] = "append"
    BY <1>8, <2>1 DEF StoreProofs!CreateMark, StoreProofs!Goto
  <2>3. Position(events', call'[t].id) = {}
    BY <1>5, <1>8, Lookup DEF StoreProofs!Exists, Position
  <2>4. State(Unsold(t), out)' = s
    BY <1>4, <1>5, <2>2 DEF Unsold, Selling, State
  <2>5. Position(events, call[t].id)' = {}
    BY <2>3 DEF Position
  <2>6. Midway(t, s)'
    BY <2>2, <2>4, <2>5 DEF Midway, Selling
  <2>7. InCall(t)'
    BY <2>2 DEF InCall
  <2> QED
    BY <1>1, <1>6, <2>6, <2>7, CallGoesOn
<1> QED
  BY <1>7, <1>8

LEMMA CreateAppendInOrder ==
  ASSUME AFile, Always, OrderInv, NEW t \in Threads, InStore(t), InCall(t),
         StoreProofs!CreateAppend(t)
  PROVE  OrderInv'
<1> USE TheCall
<1>1. PICK s, c : s = Run(job)[line[t] - 1] /\ c = job[line[t]]
  OBVIOUS
<1>2. spc[t] = "append" /\ call[t].op = "create" /\ call[t] \in StoreCalls
  BY DEF StoreProofs!CreateAppend, StoreProofs!Typed, StoreProofs!CallsFit, StoreProofs!InCall
<1>3. /\ c \in StoreCommands /\ c.op = "create" /\ call[t].id = c.id /\ c.id \in EventIds
      /\ call[t].dim = c.dim /\ c.dim \in Nat \X Nat
  BY <1>1, <1>2, CallIs
<1>4. s = State(events, out) /\ Position(events, c.id) = {}
  BY <1>1, <1>2, <1>3 DEF Midway, Unsold, Selling
<1>5. PICK e : e = Store!NewEvent(c.id, c.dim)
  OBVIOUS
<1>6. /\ events' = Append(events, e) /\ id_being_processed' = -1 /\ out' = out
      /\ spc'[t] = "idle"
  BY <1>3, <1>5
     DEF StoreProofs!CreateAppend, StoreProofs!Return, StoreProofs!Goto,
         StoreProofs!NewEvent, Store!NewEvent
<1>7. Effect(s, c) = State(events', out')
  BY <1>3, <1>4, <1>5, <1>6, EffectOfCreate
<1>8. e.id = c.id /\ e \in StoreProofs!Event
  <2>1. e = StoreProofs!NewEvent(c.id, c.dim)
    BY <1>5 DEF Store!NewEvent, StoreProofs!NewEvent
  <2>2. e \in StoreProofs!Event
    BY <1>3, <2>1, StoreConstants, StoreProofs!NewEventTyped
  <2>3. e.id = c.id
    BY <2>1 DEF StoreProofs!NewEvent
  <2> QED
    BY <2>2, <2>3
<1>9. IdsOnce(events')
  <2>1. /\ DOMAIN events = 1 .. Len(events) /\ Len(events) \in Nat
        /\ DOMAIN events' = 1 .. Len(events) + 1
        /\ \A q \in 1 .. Len(events) : events'[q] = events[q]
        /\ events'[Len(events) + 1] = e
    BY <1>6, <1>8
  <2>2. \A q \in DOMAIN events : events[q].id # c.id
    BY <1>4 DEF Position
  <2> QED
    BY <1>8, <2>1, <2>2 DEF IdsOnce
<1> QED
  BY <1>1, <1>6, <1>7, <1>9, CallEnds

LEMMA ReserveFindInOrder ==
  ASSUME AFile, Always, OrderInv, NEW t \in Threads, InStore(t), InCall(t),
         StoreProofs!ReserveFind(t)
  PROVE  OrderInv'
<1> USE TheCall
<1>1. PICK s, c : s = Run(job)[line[t] - 1] /\ c = job[line[t]]
  OBVIOUS
<1>2. spc[t] = "reserve" /\ call[t].op = "reserve" /\ call[t] \in StoreCalls
  BY DEF StoreProofs!ReserveFind, StoreProofs!Typed, StoreProofs!CallsFit, StoreProofs!InCall
<1>3. c \in StoreCommands /\ c.op = "reserve" /\ call[t].id = c.id
  BY <1>1, <1>2, CallIs
<1>4. s = State(events, out) /\ id_being_processed = -1
  BY <1>1, <1>2 DEF Midway, Unsold, Selling
<1>5. UNCHANGED <<events, out, id_being_processed>> /\ ev'[t] = StoreProofs!get_event(call[t].id)
  BY DEF StoreProofs!ReserveFind, StoreProofs!Find, StoreProofs!store
<1>6. IdsOnce(events')
  BY <1>5 DEF IdsOnce
<1>7. CASE StoreProofs!get_event(call[t].id) = 0
  <2>1. Effect(s, c) = State(events', out')
    BY <1>3, <1>4, <1>5, <1>7, Lookup, EffectOfReserve
  <2>2. spc'[t] = "idle" /\ id_being_processed' = -1
    BY <1>4, <1>5, <1>7
       DEF StoreProofs!ReserveFind, StoreProofs!Find, StoreProofs!Return, StoreProofs!Goto
  <2> QED
    BY <1>1, <1>6, <2>1, <2>2, CallEnds
<1>8. CASE StoreProofs!get_event(call[t].id) # 0
  <2>1. spc'[t] = "count"
    BY <1>8 DEF StoreProofs!ReserveFind, StoreProofs!Find, StoreProofs!Goto
  <2>2. events'[ev'[t]].id = call'[t].id
    BY <1>5, <1>8, Lookup
  <2>3. State(Unsold(t), out)' = s
    BY <1>4, <1>5, <2>1 DEF Unsold, Selling, State
  <2>4. Midway(t, s)'
    BY <1>4, <1>5, <2>1, <2>2, <2>3 DEF Midway, Selling
  <2>5. InCall(t)'
    BY <2>1 DEF InCall
  <2> QED
    BY <1>1, <1>6, <2>4, <2>5, CallGoesOn
<1> QED
  BY <1>7, <1>8

(* The event a reservation is at work on.                                    *)
LEMMA TheEvent ==
  ASSUME Always, NEW t \in Threads, spc[t] \in {"count", "seats", "rollback"}
  PROVE  /\ ev[t] \in DOMAIN events /\ events \in Seq(StoreProofs!Event)
         /\ AnEvent(events[ev[t]]) /\ events[ev[t]].reservations \in Nat
<1>1. StoreProofs!Typed /\ StoreProofs!CountersMatch
  BY DEF Always, StoreProofs!IInv
<1>2. ev[t] \in DOMAIN events
  BY <1>1 DEF StoreProofs!Typed, StoreProofs!EventsFound
<1>3. StoreProofs!EventsTyped /\ events \in Seq(StoreProofs!Event)
  BY <1>1 DEF StoreProofs!Typed, StoreProofs!EventsTyped
<1>4. AnEvent(events[ev[t]])
  BY <1>2, <1>3, StoreProofs!EventFacts, StoreConstants DEF AnEvent
<1>5. events[ev[t]].reservations \in Nat
  BY <1>1, <1>2, StoreConstants, StoreProofs!NumbersFromCounters DEF StoreProofs!NumbersTyped
<1> QED
  BY <1>2, <1>3, <1>4, <1>5

(* An element of a list is replaced, and replaced again. *)
LEMMA Replaced ==
  ASSUME NEW S, NEW es \in Seq(S), NEW p \in DOMAIN es, NEW x, NEW fs,
         fs = [es EXCEPT ![p] = x]
  PROVE  /\ DOMAIN fs = DOMAIN es /\ fs[p] = x
         /\ \A q \in DOMAIN es : q # p => fs[q] = es[q]
<1>1. es \in [1 .. Len(es) -> S]
  OBVIOUS
<1> QED
  BY <1>1

LEMMA ReplacedAgain ==
  ASSUME NEW S, NEW es \in Seq(S), NEW p \in DOMAIN es, NEW x, NEW y,
         NEW fs, fs = [es EXCEPT ![p] = x], NEW gs, gs = [fs EXCEPT ![p] = y]
  PROVE  /\ gs = [es EXCEPT ![p] = y]
         /\ y = es[p] => gs = es
<1>1. es \in [1 .. Len(es) -> S]
  OBVIOUS
<1>2. PICK D : es \in [D -> S] /\ D = DOMAIN es
  BY <1>1
<1>3. DOMAIN fs = D /\ fs[p] = x /\ \A q \in D : q # p => fs[q] = es[q]
  BY <1>2
<1>4. gs = [q \in D |-> IF q = p THEN y ELSE es[q]]
  BY <1>2, <1>3
<1>5. [es EXCEPT ![p] = y] = [q \in D |-> IF q = p THEN y ELSE es[q]]
  BY <1>2
<1>6. y = es[p] => [q \in D |-> IF q = p THEN y ELSE es[q]] = es
  BY <1>2
<1> QED
  BY <1>4, <1>5, <1>6

LEMMA ReserveCountInOrder ==
  ASSUME AFile, Always, OrderInv, NEW t \in Threads, InStore(t), InCall(t),
         StoreProofs!ReserveCount(t)
  PROVE  OrderInv'
<1>0. /\ Alone(t) /\ StoreProofs!ListGrows /\ call'[t] = call[t]
      /\ IdsOnce(events) /\ Midway(t, Run(job)[line[t] - 1])
      /\ DOMAIN spc = Threads /\ DOMAIN k = Threads /\ DOMAIN rid = Threads
  BY TheCall
<1>1. PICK s, p, e : s = Run(job)[line[t] - 1] /\ p = ev[t] /\ e = events[p]
  OBVIOUS
<1>2. spc[t] = "count"
  BY DEF StoreProofs!ReserveCount
<1>3. s = State(events, out) /\ id_being_processed = -1 /\ e.id = call[t].id
  BY <1>0, <1>1, <1>2 DEF Midway, Unsold, Selling
<1>4. /\ p \in DOMAIN events /\ events \in Seq(StoreProofs!Event)
      /\ AnEvent(e) /\ e.reservations \in Nat
  BY <1>1, <1>2, TheEvent
<1>5. PICK f : f = [e EXCEPT !.reservations = @ + 1]
  OBVIOUS
<1>6. /\ events' = [events EXCEPT ![p] = f] /\ rid'[t] = e.reservations + 1 /\ k'[t] = 0
      /\ spc'[t] = "seats" /\ UNCHANGED <<id_being_processed, out, ev>>
  BY <1>0, <1>1, <1>5 DEF StoreProofs!ReserveCount, StoreProofs!Goto
<1>7. /\ DOMAIN events' = DOMAIN events /\ events'[p] = f
      /\ [events' EXCEPT ![p] = e] = events
  <2>1. PICK es, fs : es = events /\ fs = events'
    OBVIOUS
  <2>2. es \in Seq(StoreProofs!Event) /\ p \in DOMAIN es /\ fs = [es EXCEPT ![p] = f] /\ e = es[p]
    BY <1>1, <1>4, <1>6, <2>1
  <2>3. DOMAIN fs = DOMAIN es /\ fs[p] = f /\ [fs EXCEPT ![p] = e] = es
    <3>1. DOMAIN fs = DOMAIN es /\ fs[p] = f
      BY <2>2, Replaced
    <3>2. PICK gs : gs = [fs EXCEPT ![p] = e]
      OBVIOUS
    <3>3. gs = es
      BY <2>2, <3>2, ReplacedAgain
    <3> QED
      BY <3>1, <3>2, <3>3
  <2> QED
    BY <1>1, <2>1, <2>3
<1>8. StoreProofs!SeatsTaken(t)' = {}
  BY <1>6 DEF StoreProofs!SeatsTaken
<1>9. f.id = e.id /\ f.reservations = e.reservations + 1
  BY <1>4, <1>5, EventParts DEF AnEvent, Sold
<1>10. GivenBack(f, {}) = e
  BY <1>4, <1>5, CountedAndBack
<1>11. Unsold(t)' = events
  BY <1>1, <1>6, <1>7, <1>8, <1>10 DEF Unsold, Selling
<1>12. State(Unsold(t), out)' = s
  BY <1>3, <1>6, <1>11 DEF State
<1>13. Midway(t, s)'
  BY <1>0, <1>1, <1>3, <1>6, <1>7, <1>9, <1>12 DEF Midway, Selling
<1>14. InCall(t)' /\ IdsOnce(events')
  BY <1>0, <1>6, <1>7, IdsStay DEF InCall
<1> QED
  BY <1>0, <1>1, <1>13, <1>14, CallGoesOn

(* The seats of the request so far, and of the event.                        *)
LEMMA TheSeats ==
  ASSUME Always, NEW t \in Threads, spc[t] \in {"seats", "rollback"}
  PROVE  /\ call[t].seats \in Seq(Places) /\ Len(call[t].seats) \in Nat
         /\ k[t] \in 0 .. Len(call[t].seats) /\ k[t] \in Nat
         /\ rid[t] \in Nat /\ rid[t] # 0
         /\ \A n \in 1 .. Len(call[t].seats) : call[t].seats[n] \in Places
         /\ \A s \in StoreProofs!SeatsTaken(t) :
              s \in StoreProofs!Seats(events[ev[t]]) /\ events[ev[t]].data[s] = rid[t]
         /\ StoreProofs!SeatsTaken(t)
              = {StoreProofs!seat_index(events[ev[t]], call[t].seats[n]) : n \in 1 .. k[t]}
<1>1. StoreProofs!Typed /\ StoreProofs!SeatsHeld /\ StoreProofs!Busy(t)
  BY DEF Always, StoreProofs!IInv, StoreProofs!Held, StoreProofs!Busy
<1>2. /\ call[t].seats \in Seq(Nat \X Nat) /\ Len(call[t].seats) \in Nat
      /\ k[t] \in 0 .. Len(call[t].seats) /\ rid[t] \in Nat
      /\ \A n \in 1 .. Len(call[t].seats) : call[t].seats[n] \in Nat \X Nat
  BY <1>1, StoreConstants, StoreProofs!SeatFacts
<1>3. StoreProofs!SeatsTaken(t)
        = {StoreProofs!seat_index(events[ev[t]], call[t].seats[n]) : n \in 1 .. k[t]}
  BY DEF StoreProofs!SeatsTaken, StoreProofs!Seat
<1>4. /\ rid[t] # 0
      /\ \A s \in StoreProofs!SeatsTaken(t) :
           s \in StoreProofs!Seats(events[ev[t]]) /\ events[ev[t]].data[s] = rid[t]
  BY <1>1 DEF StoreProofs!SeatsHeld
<1>5. k[t] \in Nat
  BY <1>2
<1> QED
  BY <1>2, <1>3, <1>4, <1>5 DEF Places

(* The store before a reservation under way. *)
LEMMA BeforeSelling ==
  ASSUME AFile, Always, OrderInv, NEW t \in Threads, InStore(t), InCall(t), Selling(t),
         NEW s, s = Run(job)[line[t] - 1], NEW c, c = job[line[t]],
         NEW p, p = ev[t], NEW e, e = events[p], NEW S, S = StoreProofs!SeatsTaken(t),
         NEW g, g = GivenBack(e, S), NEW es, es = Unsold(t)
  PROVE  /\ s = State(es, out) /\ id_being_processed = -1
         /\ p \in DOMAIN events /\ AnEvent(e) /\ e.id = call[t].id
         /\ IdsOnce(es) /\ DOMAIN es = DOMAIN events
         /\ es[p] = GivenBack(e, S) /\ es[p].id = c.id
         /\ es[p].rows = e.rows /\ es[p].cols = e.cols /\ es[p].data = Freed(e.data, S)
         /\ c \in StoreCommands /\ c.op = "reserve" /\ c.seats \in Seq(Places)
         /\ call[t].seats = qsort(c.seats)
<1> USE TheCall
<1>1. spc[t] \in {"seats", "rollback"}
  BY DEF Selling
<1>2. s = State(es, out) /\ id_being_processed = -1 /\ e.id = call[t].id
  BY <1>1 DEF Midway, Unsold
<1>3. call[t].op = "reserve"
  BY <1>1 DEF StoreProofs!Typed, StoreProofs!CallsFit, StoreProofs!InCall
<1>4. /\ c \in StoreCommands /\ c.op = "reserve" /\ call[t].id = c.id
      /\ c.seats \in Seq(Places) /\ call[t].seats = qsort(c.seats)
  BY <1>3, CallIs
<1>5. p \in DOMAIN events /\ AnEvent(e)
  BY <1>1, TheEvent
<1>6. /\ DOMAIN es = DOMAIN events /\ es[p] = GivenBack(e, S)
      /\ \A q \in DOMAIN events : q # p => es[q] = events[q]
  <2>1. es = [events EXCEPT ![p] = g]
    BY DEF Unsold
  <2> QED
    BY <1>5, <2>1, Replaced
<1>7. /\ es[p].id = e.id /\ es[p].rows = e.rows /\ es[p].cols = e.cols
      /\ es[p].data = Freed(e.data, S)
  BY <1>6 DEF GivenBack, Sold
<1>8. \A q \in DOMAIN es : es[q].id = events[q].id
  BY <1>6, <1>7
<1>9. IdsOnce(es)
  BY <1>6, <1>8 DEF IdsOnce
<1> QED
  BY <1>2, <1>4, <1>5, <1>6, <1>7, <1>9

LEMMA TakeSeatInOrder ==
  ASSUME AFile, Always, OrderInv, NEW t \in Threads, InStore(t), InCall(t),
         StoreProofs!TakeSeat(t)
  PROVE  OrderInv'
<1>0. /\ StoreProofs!Typed /\ Alone(t) /\ StoreProofs!ListGrows /\ call'[t] = call[t]
      /\ IdsOnce(events) /\ Midway(t, Run(job)[line[t] - 1]) /\ DOMAIN k = Threads
      /\ events \in Seq(StoreProofs!Event)
  BY TheCall
<1>1. PICK s, p, e, S, g, n :
        /\ s = Run(job)[line[t] - 1] /\ p = ev[t] /\ e = events[p]
        /\ S = StoreProofs!SeatsTaken(t) /\ g = GivenBack(e, S) /\ n = k[t]
  OBVIOUS
<1>2. spc[t] = "seats" /\ n < Len(call[t].seats)
  BY <1>1 DEF StoreProofs!TakeSeat
<1>3. PICK c, x : c = call[t].seats[n + 1] /\ x = StoreProofs!seat_index(e, c)
  OBVIOUS
<1>4. /\ s = State([events EXCEPT ![p] = g], out) /\ id_being_processed = -1
      /\ e.id = call[t].id /\ rid[t] = e.reservations
      /\ \A m \in 1 .. n : StoreProofs!InBounds(e, call[t].seats[m])
      /\ \A l, m \in 1 .. n : l # m => call[t].seats[l] # call[t].seats[m]
  BY <1>0, <1>1, <1>2 DEF Midway, Unsold, Selling
<1>5. /\ p \in DOMAIN events /\ AnEvent(e)
      /\ rid[t] \in Nat /\ rid[t] # 0 /\ n \in Nat
      /\ S = {StoreProofs!seat_index(e, call[t].seats[m]) : m \in 1 .. n}
      /\ \A y \in S : e.data[y] = rid[t]
  BY <1>1, <1>2, TheEvent, TheSeats
<1>6. StoreProofs!InBounds(e, c) /\ e.data[x] = 0 /\ StoreProofs!Seat(t, n + 1) = x
  BY <1>1, <1>3 DEF StoreProofs!TakeSeat, StoreProofs!SeatIsFree, StoreProofs!Seat
<1>7. x \in StoreProofs!Seats(e) /\ DOMAIN events' = DOMAIN events
  BY <1>0, <1>1, <1>6, StoreConstants, StoreProofs!TakeEvents
<1>8. PICK f : f = [e EXCEPT !.data[x] = rid[t]]
  OBVIOUS
<1>9. /\ events' = [events EXCEPT ![p] = f] /\ k'[t] = n + 1
      /\ UNCHANGED <<id_being_processed, out, spc, ev, rid>>
  BY <1>0, <1>1, <1>6, <1>8 DEF StoreProofs!TakeSeat
<1>10. f.id = e.id /\ f.rows = e.rows /\ f.cols = e.cols /\ f.reservations = e.reservations
  BY <1>5, <1>8 DEF AnEvent, StoreProofs!Event
<1>11. events'[p] = f /\ [events' EXCEPT ![p] = g] = [events EXCEPT ![p] = g]
  <2>1. PICK es, fs : es = events /\ fs = events'
    OBVIOUS
  <2>2. es \in Seq(StoreProofs!Event) /\ p \in DOMAIN es /\ fs = [es EXCEPT ![p] = f]
    BY <1>0, <1>5, <1>9, <2>1
  <2>3. fs[p] = f
    BY <2>2, Replaced
  <2>4. PICK gs : gs = [fs EXCEPT ![p] = g]
    OBVIOUS
  <2>5. gs = [es EXCEPT ![p] = g]
    BY <2>2, <2>4, ReplacedAgain
  <2> QED
    BY <2>1, <2>3, <2>4, <2>5
<1>12. 1 .. n + 1 = (1 .. n) \cup {n + 1} /\ n + 1 \notin 1 .. n
  BY <1>5
<1>13. /\ StoreProofs!SeatsTaken(t)' = S \cup {x}
       /\ \A d : StoreProofs!InBounds(f, d) <=> StoreProofs!InBounds(e, d)
  <2>1. \A d : StoreProofs!seat_index(f, d) = StoreProofs!seat_index(e, d)
    BY <1>10 DEF StoreProofs!seat_index
  <2>2. StoreProofs!SeatsTaken(t)'
          = {StoreProofs!seat_index(f, call[t].seats[m]) : m \in 1 .. n + 1}
    BY <1>0, <1>1, <1>9, <1>11
       DEF StoreProofs!SeatsTaken, StoreProofs!Seat, StoreProofs!seat_index
  <2>3. StoreProofs!SeatsTaken(t)'
          = {StoreProofs!seat_index(e, call[t].seats[m]) : m \in 1 .. n + 1}
    BY <2>1, <2>2
  <2>4. StoreProofs!SeatsTaken(t)' = S \cup {x}
    BY <1>3, <1>5, <1>12, <2>3
  <2>5. \A d : StoreProofs!InBounds(f, d) <=> StoreProofs!InBounds(e, d)
    BY <1>10 DEF StoreProofs!InBounds
  <2> QED
    BY <2>4, <2>5
<1>14. GivenBack(f, S \cup {x}) = g
  <2>1. PICK r \in Nat : f = [e EXCEPT !.data[x] = r]
    BY <1>5, <1>8
  <2> QED
    BY <1>1, <1>5, <1>6, <1>7, <2>1, TakenAndBack
<1>15. State(Unsold(t), out)' = s
  <2>1. Unsold(t)' = [events' EXCEPT ![p] = GivenBack(f, S \cup {x})]
    BY <1>1, <1>2, <1>9, <1>11, <1>13 DEF Unsold, Selling
  <2> QED
    BY <1>4, <1>9, <1>11, <1>14, <2>1 DEF State
<1>16. \A m \in 1 .. n + 1 : StoreProofs!InBounds(f, call[t].seats[m])
  BY <1>3, <1>4, <1>6, <1>12, <1>13
<1>17. \A l, m \in 1 .. n + 1 : l # m => call[t].seats[l] # call[t].seats[m]
  <2>1. \A l \in 1 .. n : call[t].seats[l] # c
    BY <1>3, <1>5, <1>6
  <2> QED
    BY <1>3, <1>4, <1>12, <2>1
<1>18. Midway(t, s)'
  <2>1. spc'[t] = "seats" /\ Selling(t)'
    BY <1>2, <1>9 DEF Selling
  <2>2. /\ rid'[t] = f.reservations /\ f.id = call'[t].id
        /\ id_being_processed' = -1
    BY <1>0, <1>4, <1>9, <1>10
  <2>3. \A m \in 1 .. k'[t] : StoreProofs!InBounds(events[ev[t]], call[t].seats[m])'
    BY <1>0, <1>1, <1>9, <1>11, <1>16 DEF StoreProofs!InBounds
  <2>4. \A l, m \in 1 .. k'[t] : l # m => call'[t].seats[l] # call'[t].seats[m]
    BY <1>0, <1>9, <1>17
  <2> QED
    BY <1>1, <1>9, <1>11, <1>15, <2>1, <2>2, <2>3, <2>4 DEF Midway
<1>19. InCall(t)' /\ IdsOnce(events')
  BY <1>0, <1>2, <1>7, <1>9, IdsStay DEF InCall
<1> QED
  BY <1>0, <1>1, <1>18, <1>19, CallGoesOn

LEMMA RefuseSeatInOrder ==
  ASSUME AFile, Always, OrderInv, NEW t \in Threads, InStore(t), InCall(t),
         StoreProofs!RefuseSeat(t)
  PROVE  OrderInv'
<1>0. /\ Alone(t) /\ call'[t] = call[t] /\ IdsOnce(events)
      /\ Midway(t, Run(job)[line[t] - 1]) /\ DOMAIN spc = Threads
  BY TheCall
<1>1. PICK s, p, e, S, g, n, cs :
        /\ s = Run(job)[line[t] - 1] /\ p = ev[t] /\ e = events[p]
        /\ S = StoreProofs!SeatsTaken(t) /\ g = GivenBack(e, S) /\ n = k[t] + 1
        /\ cs = call[t].seats
  OBVIOUS
<1>2. /\ spc[t] = "seats" /\ spc'[t] = "rollback" /\ k[t] < Len(cs)
      /\ UNCHANGED <<events, id_being_processed, out, ev, k, rid>>
  BY <1>0, <1>1 DEF StoreProofs!RefuseSeat, StoreProofs!Goto, StoreProofs!store, StoreProofs!locals
<1>3. PICK c, x : c = cs[n] /\ x = StoreProofs!seat_index(e, c)
  OBVIOUS
<1>4. /\ AnEvent(e) /\ cs \in Seq(Places) /\ k[t] \in Nat /\ Len(cs) \in Nat
      /\ DOMAIN cs = 1 .. Len(cs)
      /\ \A m \in 1 .. Len(cs) : cs[m] \in Places
      /\ S = {StoreProofs!seat_index(e, cs[m]) : m \in 1 .. k[t]}
  BY <1>1, <1>2, TheEvent, TheSeats
<1>5. n \in DOMAIN cs /\ n \notin 1 .. k[t] /\ 1 .. k[t] \subseteq DOMAIN cs /\ c \in Places
  BY <1>1, <1>2, <1>3, <1>4
<1>6. ~(StoreProofs!InBounds(e, c) /\ e.data[x] = 0)
  BY <1>1, <1>3 DEF StoreProofs!RefuseSeat, StoreProofs!SeatIsFree, StoreProofs!Seat
<1>7. \A m \in 1 .. k[t] : StoreProofs!InBounds(e, cs[m])
  BY <1>0, <1>1, <1>2 DEF Midway, Selling
<1>8. /\ g.rows = e.rows /\ g.cols = e.cols /\ g.data = Freed(e.data, S)
      /\ \A d : Store!seat_index(g, d) = StoreProofs!seat_index(e, d)
      /\ \A d : Store!InBounds(g, d) <=> StoreProofs!InBounds(e, d)
  BY <1>1
     DEF GivenBack, Sold, Store!seat_index, StoreProofs!seat_index,
         Store!InBounds, StoreProofs!InBounds
<1>9. ASSUME CanTake(g, cs) PROVE FALSE
  <2>1. StoreProofs!InBounds(e, c) /\ g.data[x] = 0
    BY <1>3, <1>5, <1>8, <1>9 DEF CanTake
  <2>2. e.data[x] # 0 /\ x \in StoreProofs!Seats(e)
    <3>1. c \in Nat \X Nat
      BY <1>5 DEF Places
    <3> QED
      BY <1>3, <1>4, <1>6, <2>1, <3>1, StoreConstants, StoreProofs!SeatIndexInside DEF AnEvent
  <2>3. x \in S
    BY <1>4, <1>8, <2>1, <2>2 DEF Freed, AnEvent
  <2>4. PICK m \in 1 .. k[t] : x = StoreProofs!seat_index(e, cs[m])
    BY <1>4, <2>3
  <2>5. cs[m] = c
    <3>1. cs[m] \in Places /\ StoreProofs!InBounds(e, cs[m]) /\ e \in StoreProofs!Event
      BY <1>4, <1>5, <1>7 DEF AnEvent
    <3> QED
      BY <1>3, <1>5, <2>1, <2>4, <3>1, OneSeatPerIndex
  <2> QED
    BY <1>3, <1>5, <1>9, <2>5 DEF CanTake
<1>10. /\ StoreProofs!SeatsTaken(t)' = S
       /\ Unsold(t)' = Unsold(t)
  <2>1. StoreProofs!SeatsTaken(t)' = S
    BY <1>0, <1>1, <1>2 DEF StoreProofs!SeatsTaken, StoreProofs!Seat, StoreProofs!seat_index
  <2> QED
    BY <1>1, <1>2, <2>1 DEF Unsold, Selling
<1>11. Midway(t, s)'
  <2>1. Selling(t) /\ Selling(t)'
    BY <1>2 DEF Selling
  <2>2. ~CanTake(GivenBack(events'[ev'[t]], StoreProofs!SeatsTaken(t)'), call'[t].seats)
    BY <1>0, <1>1, <1>2, <1>9, <1>10
  <2>3. ~CanTake(GivenBack(events[ev[t]], StoreProofs!SeatsTaken(t)), call[t].seats)'
    BY <2>2
  <2> QED
    BY <1>0, <1>1, <1>2, <1>10, <2>1, <2>3 DEF Midway, StoreProofs!InBounds, State
<1>12. InCall(t)' /\ IdsOnce(events')
  BY <1>0, <1>2 DEF InCall, IdsOnce
<1> QED
  BY <1>0, <1>1, <1>11, <1>12, CallGoesOn

LEMMA ReserveDoneInOrder ==
  ASSUME AFile, Always, OrderInv, NEW t \in Threads, InStore(t), InCall(t),
         StoreProofs!ReserveDone(t)
  PROVE  OrderInv'
<1>0. /\ Alone(t) /\ IdsOnce(events) /\ Midway(t, Run(job)[line[t] - 1]) /\ DOMAIN spc = Threads
      /\ events \in Seq(StoreProofs!Event)
  BY TheCall
<1>1. PICK s, c, p, e, S, g, cs :
        /\ s = Run(job)[line[t] - 1] /\ c = job[line[t]] /\ p = ev[t] /\ e = events[p]
        /\ S = StoreProofs!SeatsTaken(t) /\ g = GivenBack(e, S) /\ cs = call[t].seats
  OBVIOUS
<1>2. PICK es, fs : es = [events EXCEPT ![p] = g] /\ fs = events
  OBVIOUS
<1>3. /\ spc[t] = "seats" /\ k[t] = Len(cs) /\ spc'[t] = "idle"
      /\ UNCHANGED <<events, id_being_processed, out>>
  BY <1>0, <1>1 DEF StoreProofs!ReserveDone, StoreProofs!Return, StoreProofs!Goto
<1>4. /\ s = State(es, out) /\ id_being_processed = -1 /\ p \in DOMAIN events /\ AnEvent(e)
      /\ IdsOnce(es) /\ p \in DOMAIN es /\ es[p] = g /\ es[p].id = c.id
      /\ c \in StoreCommands /\ c.op = "reserve" /\ c.seats \in Seq(Places)
      /\ cs = qsort(c.seats)
  <2>1. Selling(t) /\ es = Unsold(t)
    BY <1>1, <1>2, <1>3 DEF Selling, Unsold
  <2> QED
    BY <1>1, <2>1, BeforeSelling
<1>5. /\ cs \in Seq(Places) /\ Len(cs) \in Nat
      /\ S = {StoreProofs!seat_index(e, cs[n]) : n \in 1 .. k[t]}
      /\ \A x \in S : e.data[x] = rid[t]
  BY <1>1, <1>3, TheSeats
<1>6. /\ rid[t] = e.reservations
      /\ \A n \in 1 .. k[t] : StoreProofs!InBounds(e, cs[n])
      /\ \A m, n \in 1 .. k[t] : m # n => cs[m] # cs[n]
  BY <1>0, <1>1, <1>3 DEF Midway, Selling
<1>7. DOMAIN cs = 1 .. k[t]
  BY <1>3, <1>5
<1>8. CanTake(g, cs) /\ Take(g, cs) = e
  <2>1. \A x : x \in S <=> \E n \in DOMAIN cs : x = StoreProofs!seat_index(e, cs[n])
    BY <1>5, <1>7
  <2>2. /\ \A n \in DOMAIN cs : StoreProofs!InBounds(e, cs[n])
        /\ \A m, n \in DOMAIN cs : m # n => cs[m] # cs[n]
        /\ \A x \in S : e.data[x] = e.reservations
    BY <1>5, <1>6, <1>7
  <2> QED
    <3>1. AnEvent(e) /\ cs \in Seq(Places)
      BY <1>4, <1>5
    <3>2. CanTake(GivenBack(e, S), cs) /\ Take(GivenBack(e, S), cs) = e
      BY <2>1, <2>2, <3>1, TakenIsTake, Zenon
    <3> QED
      BY <1>1, <3>2
<1>9. CanTake(g, c.seats) /\ Take(g, c.seats) = e
  BY <1>4, <1>8, SortedIsAsGood
<1>10. PICK hs : hs = [es EXCEPT ![p] = e]
  OBVIOUS
<1>11. Effect(s, c) = State(hs, out)
  <2>1. CanTake(es[p], c.seats)
    BY <1>4, <1>9
  <2>2. Effect(State(es, out), c) = State([es EXCEPT ![p] = Take(@, c.seats)], out)
    BY <1>4, <2>1, EffectOfReserve
  <2>3. [es EXCEPT ![p] = Take(@, c.seats)] = hs
    BY <1>4, <1>9, <1>10
  <2> QED
    BY <1>4, <2>2, <2>3
<1>12. hs = fs
  <2>1. fs \in Seq(StoreProofs!Event) /\ p \in DOMAIN fs /\ es = [fs EXCEPT ![p] = g] /\ e = fs[p]
    BY <1>0, <1>1, <1>2, <1>4
  <2> QED
    BY <1>10, <2>1, ReplacedAgain
<1>13. Effect(s, c) = State(events', out')
  BY <1>2, <1>3, <1>11, <1>12
<1>14. IdsOnce(events') /\ id_being_processed' = -1
  BY <1>0, <1>3, <1>4 DEF IdsOnce
<1> QED
  BY <1>0, <1>1, <1>3, <1>13, <1>14, CallEnds

LEMMA RollbackInOrder ==
  ASSUME AFile, Always, OrderInv, NEW t \in Threads, InStore(t), InCall(t),
         StoreProofs!Rollback(t)
  PROVE  OrderInv'
<1>0. /\ StoreProofs!Typed /\ StoreProofs!ListGrows /\ Alone(t) /\ IdsOnce(events)
      /\ Midway(t, Run(job)[line[t] - 1]) /\ DOMAIN spc = Threads
      /\ events \in Seq(StoreProofs!Event)
  BY TheCall
<1>1. PICK s, c, p, e, S, g :
        /\ s = Run(job)[line[t] - 1] /\ c = job[line[t]] /\ p = ev[t] /\ e = events[p]
        /\ S = StoreProofs!SeatsTaken(t) /\ g = GivenBack(e, S)
  OBVIOUS
<1>2. PICK es : es = [events EXCEPT ![p] = g]
  OBVIOUS
<1>3. /\ spc[t] = "rollback" /\ spc'[t] = "idle"
      /\ UNCHANGED <<id_being_processed, out>>
  BY <1>0 DEF StoreProofs!Rollback, StoreProofs!Return, StoreProofs!Goto
<1>4. /\ s = State(es, out) /\ id_being_processed = -1 /\ p \in DOMAIN events /\ AnEvent(e)
      /\ IdsOnce(es) /\ p \in DOMAIN es /\ es[p] = g /\ es[p].id = c.id
      /\ c \in StoreCommands /\ c.op = "reserve" /\ c.seats \in Seq(Places)
      /\ call[t].seats = qsort(c.seats)
  <2>1. Selling(t) /\ es = Unsold(t)
    BY <1>1, <1>2, <1>3 DEF Selling, Unsold
  <2> QED
    BY <1>1, <2>1, BeforeSelling
<1>5. ~CanTake(es[p], c.seats)
  <2>1. ~CanTake(g, call[t].seats)
    BY <1>0, <1>1, <1>3 DEF Midway
  <2> QED
    BY <1>4, <2>1, SortedIsAsGood
<1>6. Effect(s, c) = State(es, out)
  BY <1>4, <1>5, EffectOfReserve
<1>7. events' = es
  <2>1. /\ events' \in Seq(StoreProofs!Event) /\ DOMAIN events' = DOMAIN events
        /\ \A q \in DOMAIN events : q # p => events'[q] = events[q]
        /\ events'[p].id = e.id /\ events'[p].rows = e.rows /\ events'[p].cols = e.cols
        /\ events'[p].reservations = e.reservations - 1
        /\ events'[p].data
             = [x \in StoreProofs!Seats(e) |-> IF x \in S THEN 0 ELSE e.data[x]]
    BY <1>0, <1>1, StoreConstants, StoreProofs!RollbackEvents
       DEF StoreProofs!EventsTyped, StoreProofs!OthersSame, StoreProofs!SameSize
  <2>2. PICK h : h = events'[p] /\ h \in StoreProofs!Event
    BY <1>4, <2>1
  <2>3. h.data = Freed(e.data, S)
    BY <1>4, <2>1, <2>2 DEF Freed, AnEvent
  <2>4. h = g
    <3>1. h = Sold(h, h.reservations, h.data)
      BY <2>2, EventParts
    <3>2. h = Sold(e, e.reservations - 1, Freed(e.data, S))
      BY <2>1, <2>2, <2>3, <3>1 DEF Sold
    <3> QED
      BY <1>1, <3>2 DEF GivenBack
  <2>5. /\ DOMAIN es = DOMAIN events
        /\ \A q \in DOMAIN events : q # p => es[q] = events[q]
    BY <1>0, <1>2, <1>4, Replaced
  <2>6. \A q \in DOMAIN events : events'[q] = es[q]
    BY <1>4, <2>1, <2>2, <2>4, <2>5
  <2>7. PICK fs, D : /\ fs = events' /\ D = DOMAIN fs /\ fs = [q \in D |-> fs[q]]
    BY <2>1
  <2>8. PICK D2 : D2 = DOMAIN es /\ es = [q \in D2 |-> es[q]]
    BY <1>0, <1>2
  <2> QED
    BY <2>1, <2>5, <2>6, <2>7, <2>8
<1>8. IdsOnce(events') /\ id_being_processed' = -1 /\ Effect(s, c) = State(events', out')
  BY <1>3, <1>4, <1>6, <1>7 DEF IdsOnce
<1> QED
  BY <1>0, <1>1, <1>3, <1>8, CallEnds

LEMMA ShowFindInOrder ==
  ASSUME AFile, Always, OrderInv, NEW t \in Threads, InStore(t), InCall(t),
         StoreProofs!ShowFind(t)
  PROVE  OrderInv'
<1> USE TheCall
<1>1. PICK s, c : s = Run(job)[line[t] - 1] /\ c = job[line[t]]
  OBVIOUS
<1>2. spc[t] = "show" /\ call[t].op = "show" /\ call[t] \in StoreCalls
  BY DEF StoreProofs!ShowFind, StoreProofs!Typed, StoreProofs!CallsFit, StoreProofs!InCall
<1>3. c \in StoreCommands /\ c.op = "show" /\ call[t].id = c.id
  BY <1>1, <1>2, CallIs
<1>4. s = State(events, out) /\ id_being_processed = -1
  BY <1>1, <1>2 DEF Midway, Unsold, Selling
<1>5. UNCHANGED <<events, out, id_being_processed>> /\ ev'[t] = StoreProofs!get_event(call[t].id)
  BY DEF StoreProofs!ShowFind, StoreProofs!Find, StoreProofs!store
<1>6. IdsOnce(events')
  BY <1>5 DEF IdsOnce
<1>7. CASE StoreProofs!get_event(call[t].id) = 0
  <2>1. Effect(s, c) = State(events', out')
    BY <1>3, <1>4, <1>5, <1>7, Lookup, EffectOfShow
  <2>2. spc'[t] = "idle" /\ id_being_processed' = -1
    BY <1>4, <1>5, <1>7
       DEF StoreProofs!ShowFind, StoreProofs!Find, StoreProofs!Return, StoreProofs!Goto
  <2> QED
    BY <1>1, <1>6, <2>1, <2>2, CallEnds
<1>8. CASE StoreProofs!get_event(call[t].id) # 0
  <2>1. spc'[t] = "copy"
    BY <1>8 DEF StoreProofs!ShowFind, StoreProofs!Find, StoreProofs!Goto
  <2>2. events'[ev'[t]].id = call'[t].id
    BY <1>5, <1>8, Lookup
  <2>3. State(Unsold(t), out)' = s
    BY <1>4, <1>5, <2>1 DEF Unsold, Selling, State
  <2>4. Midway(t, s)'
    BY <1>4, <1>5, <2>1, <2>2, <2>3 DEF Midway, Selling
  <2>5. InCall(t)'
    BY <2>1 DEF InCall
  <2> QED
    BY <1>1, <1>6, <2>4, <2>5, CallGoesOn
<1> QED
  BY <1>7, <1>8

(* What SHOW or LIST has in its buffer when it goes to write it.             *)
LEMMA WritesNext ==
  ASSUME AFile, Always, OrderInv, NEW t \in Threads, InStore(t), InCall(t), spc'[t] = "print",
         UNCHANGED <<events, out>>, id_being_processed' = -1,
         NEW s, s = Run(job)[line[t] - 1], NEW c, c = job[line[t]], s = State(events, out),
         Effect(s, c) = State(events, Append(out, [op |-> call[t].op, text |-> buf'[t]]))
  PROVE  OrderInv'
<1> USE TheCall
<1>1. UNCHANGED <<job, line>>
  BY DEF Alone, jobVars, fileVars, threadVars
<1>2. State(Unsold(t), out)' = s
  BY DEF Unsold, Selling, State
<1>3. Effect(s, job[line[t]])' = Effect(s, c)
  <2>1. PICK d : d = job[line[t]]
    OBVIOUS
  <2>2. job'[line'[t]] = d
    BY <1>1, <2>1
  <2> QED
    BY <1>1
<1>4. StoreProofs!Printed(t)' = [op |-> call[t].op, text |-> buf'[t]]
  BY DEF StoreProofs!Printed
<1>5. State(events, Append(out, StoreProofs!Printed(t)))'
        = State(events, Append(out, [op |-> call[t].op, text |-> buf'[t]]))
  BY <1>4 DEF State
<1>6. Midway(t, s)'
  BY <1>2, <1>3, <1>5 DEF Midway, Selling
<1>7. InCall(t)' /\ IdsOnce(events')
  BY DEF InCall, IdsOnce
<1> QED
  BY <1>6, <1>7, CallGoesOn

LEMMA ShowCopyInOrder ==
  ASSUME AFile, Always, StoreProofs!ListsInv, OrderInv, NEW t \in Threads, InStore(t), InCall(t),
         StoreProofs!ShowCopy(t)
  PROVE  OrderInv'
<1>0. /\ StoreProofs!Typed /\ OneCall /\ IdsOnce(events)
      /\ Midway(t, Run(job)[line[t] - 1]) /\ DOMAIN spc = Threads
  BY TheCall
<1>1. PICK s, c, p : s = Run(job)[line[t] - 1] /\ c = job[line[t]] /\ p = ev[t]
  OBVIOUS
<1>2. spc[t] = "copy" /\ call[t].op = "show" /\ p \in DOMAIN events
  BY <1>0, <1>1
     DEF StoreProofs!ShowCopy, StoreProofs!Typed, StoreProofs!CallsFit, StoreProofs!InCall,
         StoreProofs!EventsFound
<1>3. c \in StoreCommands /\ c.op = "show" /\ call[t].id = c.id
  BY <1>0, <1>1, <1>2, CallIs
<1>4. s = State(events, out) /\ id_being_processed = -1 /\ events[p].id = c.id
  BY <1>0, <1>1, <1>2, <1>3 DEF Midway, Unsold, Selling
<1>5. /\ UNCHANGED <<events, out, id_being_processed>> /\ spc'[t] = "print"
      /\ buf'[t] = events[p].data
  BY <1>0, <1>1
     DEF StoreProofs!ShowCopy, StoreProofs!store, StoreProofs!Goto,
         StoreProofs!ListsInv, StoreProofs!LinesTyped
<1>6. Effect(s, c) = State(events, Append(out, [op |-> "show", text |-> events[p].data]))
  BY <1>0, <1>2, <1>3, <1>4, EffectOfShow
<1> QED
  BY <1>1, <1>2, <1>4, <1>5, <1>6, WritesNext

LEMMA ListHeadInOrder ==
  ASSUME AFile, Always, StoreProofs!ListsInv, OrderInv, NEW t \in Threads, InStore(t), InCall(t),
         StoreProofs!ListHead(t)
  PROVE  OrderInv'
<1>0. /\ StoreProofs!Typed /\ Alone(t) /\ OneCall /\ IdsOnce(events)
      /\ Midway(t, Run(job)[line[t] - 1]) /\ DOMAIN spc = Threads
  BY TheCall
<1>1. PICK s, c : s = Run(job)[line[t] - 1] /\ c = job[line[t]]
  OBVIOUS
<1>2. spc[t] = "list" /\ call[t].op = "list"
  BY <1>0, <1>1 DEF StoreProofs!ListHead, StoreProofs!Typed, StoreProofs!CallsFit, StoreProofs!InCall
<1>3. c \in StoreCommands /\ c.op = "list"
  BY <1>0, <1>1, <1>2, CallIs
<1>4. s = State(events, out) /\ id_being_processed = -1
  BY <1>0, <1>1, <1>2 DEF Midway, Unsold, Selling
<1>5. UNCHANGED <<events, id_being_processed>> /\ IdsOnce(events')
  BY <1>0 DEF StoreProofs!ListHead, IdsOnce
<1>6. CASE events = <<>>
  <2>1. out' = Append(out, [op |-> "list", text |-> <<>>]) /\ spc'[t] = "idle"
    BY <1>0, <1>6 DEF StoreProofs!ListHead, StoreProofs!Return, StoreProofs!Goto
  <2>2. [p \in DOMAIN events |-> events[p].id] = <<>>
    BY <1>6
  <2>3. Effect(s, c) = State(events', out')
    BY <1>3, <1>4, <1>5, <2>1, <2>2, EffectOfList
  <2> QED
    BY <1>0, <1>1, <1>4, <1>5, <2>1, <2>3, CallEnds
<1>7. CASE events # <<>>
  <2>1. out' = out /\ spc'[t] = "node"
    BY <1>0, <1>7 DEF StoreProofs!ListHead, StoreProofs!Goto
  <2>2. State(Unsold(t), out)' = s
    BY <1>4, <1>5, <2>1 DEF Unsold, Selling, State
  <2>3. Midway(t, s)' /\ InCall(t)'
    BY <1>4, <1>5, <2>1, <2>2 DEF Midway, Selling, InCall
  <2> QED
    BY <1>0, <1>1, <1>5, <2>3, CallGoesOn
<1> QED
  BY <1>6, <1>7

LEMMA ListNodeInOrder ==
  ASSUME AFile, Always, StoreProofs!ListsInv, OrderInv, NEW t \in Threads, InStore(t), InCall(t),
         StoreProofs!ListNode(t)
  PROVE  OrderInv'
<1>0. /\ StoreProofs!Typed /\ Alone(t) /\ OneCall /\ IdsOnce(events)
      /\ Midway(t, Run(job)[line[t] - 1]) /\ DOMAIN spc = Threads
      /\ events \in Seq(StoreProofs!Event)
  BY TheCall
<1>1. PICK s, c, n : s = Run(job)[line[t] - 1] /\ c = job[line[t]] /\ n = ev[t]
  OBVIOUS
<1>2. spc[t] = "node" /\ call[t].op = "list" /\ n \in DOMAIN events
  BY <1>0, <1>1
     DEF StoreProofs!ListNode, StoreProofs!Typed, StoreProofs!CallsFit, StoreProofs!InCall,
         StoreProofs!EventsFound
<1>3. c \in StoreCommands /\ c.op = "list"
  BY <1>0, <1>1, <1>2, CallIs
<1>4. s = State(events, out) /\ id_being_processed = -1
  BY <1>0, <1>1, <1>2 DEF Midway, Unsold, Selling
<1>5. /\ UNCHANGED <<events, out, id_being_processed>> /\ IdsOnce(events')
      /\ buf'[t] = Append(buf[t], events[n].id)
  BY <1>0, <1>1
     DEF StoreProofs!ListNode, StoreProofs!store, StoreProofs!ListsInv,
         StoreProofs!LinesTyped, IdsOnce
<1>6. CASE n < Len(events)
  <2>1. spc' = spc
    BY <1>1, <1>6 DEF StoreProofs!ListNode
  <2>2. State(Unsold(t), out)' = s
    BY <1>2, <1>4, <1>5, <2>1 DEF Unsold, Selling, State
  <2>3. Midway(t, s)' /\ InCall(t)'
    BY <1>2, <1>4, <1>5, <2>1, <2>2 DEF Midway, Selling, InCall
  <2> QED
    BY <1>0, <1>1, <1>5, <2>3, CallGoesOn
<1>7. CASE ~(n < Len(events))
  <2>1. spc'[t] = "print"
    BY <1>0, <1>1, <1>7 DEF StoreProofs!ListNode, StoreProofs!Goto
  <2>2. PICK b, L : b = buf[t] /\ L = Len(events)
    OBVIOUS
  <2>3. /\ b \in Seq(EventIds) /\ Len(b) = n - 1 /\ \A j \in DOMAIN b : b[j] = events[j].id
    BY <1>1, <1>2, <2>2 DEF StoreProofs!ListsInv, StoreProofs!Walk, StoreProofs!Prefix
  <2>4. DOMAIN events = 1 .. L /\ L \in Nat /\ n = L /\ DOMAIN b = 1 .. L - 1
    <3>1. DOMAIN events = 1 .. L /\ L \in Nat
      BY <1>0, <2>2
    <3>2. n = L
      BY <1>2, <1>7, <2>2, <3>1
    <3> QED
      BY <2>3, <3>1, <3>2
  <2>5. PICK x : x = events[n].id
    OBVIOUS
  <2>6. Append(b, x) = [p \in 1 .. L |-> events[p].id]
    <3>1. Len(b) + 1 = L /\ x \in EventIds
      <4>1. events[n] \in StoreProofs!Event
        BY <1>0, <1>2
      <4> QED
        BY <2>3, <2>4, <2>5, <4>1 DEF StoreProofs!Event
    <3>2. PICK a : a = Append(b, x)
      OBVIOUS
    <3>3. /\ a \in Seq(EventIds) /\ Len(a) = L /\ a[L] = x
          /\ \A p \in 1 .. L - 1 : a[p] = b[p]
      BY <2>3, <2>4, <3>1, <3>2, AppendProperties
    <3>4. a = [p \in 1 .. L |-> a[p]]
      BY <3>3
    <3>5. \A p \in 1 .. L : a[p] = events[p].id
      BY <2>3, <2>4, <2>5, <3>3
    <3> QED
      BY <3>2, <3>4, <3>5
  <2>7. buf'[t] = [p \in DOMAIN events |-> events[p].id]
    BY <1>5, <2>2, <2>4, <2>5, <2>6
  <2>8. Effect(s, c) = State(events, Append(out, [op |-> "list", text |-> buf'[t]]))
    BY <1>3, <1>4, <2>7, EffectOfList
  <2> QED
    BY <1>1, <1>2, <1>4, <1>5, <2>1, <2>8, WritesNext
<1> QED
  BY <1>6, <1>7

LEMMA WriteOutInOrder ==
  ASSUME AFile, Always, OrderInv, NEW t \in Threads, InStore(t), InCall(t),
         StoreProofs!WriteOut(t)
  PROVE  OrderInv'
<1>0. Alone(t) /\ IdsOnce(events) /\ Midway(t, Run(job)[line[t] - 1]) /\ DOMAIN spc = Threads
  BY TheCall
<1>1. PICK s, c : s = Run(job)[line[t] - 1] /\ c = job[line[t]]
  OBVIOUS
<1>2. /\ spc[t] = "print" /\ spc'[t] = "idle" /\ out' = Append(out, StoreProofs!Printed(t))
      /\ UNCHANGED <<events, id_being_processed>>
  BY <1>0 DEF StoreProofs!WriteOut, StoreProofs!Return, StoreProofs!Goto
<1>3. Effect(s, c) = State(events', out') /\ id_being_processed' = -1
  BY <1>0, <1>1, <1>2 DEF Midway
<1>4. IdsOnce(events')
  BY <1>0, <1>2 DEF IdsOnce
<1> QED
  BY <1>0, <1>1, <1>2, <1>3, <1>4, CallEnds

LEMMA InStoreInOrder ==
  ASSUME AFile, Always, StoreProofs!ListsInv, ~MallocFails, OrderInv,
         NEW t \in Threads, InStore(t)
  PROVE  OrderInv'
<1>1. StoreProofs!Step(t)
  BY StoreStepAlone
<1>2. InCall(t)
  BY <1>1
     DEF InCall, StoreProofs!Step, StoreProofs!CreateMark, StoreProofs!CreateAppend,
         StoreProofs!CreateNoMemory, StoreProofs!ReserveFind, StoreProofs!ReserveCount,
         StoreProofs!TakeSeat, StoreProofs!RefuseSeat, StoreProofs!ReserveDone,
         StoreProofs!Rollback, StoreProofs!ShowFind, StoreProofs!ShowCopy,
         StoreProofs!ListHead, StoreProofs!ListNode, StoreProofs!WriteOut,
         StoreProofs!PrintNoMemory
<1>3. ~StoreProofs!CreateNoMemory(t) /\ ~StoreProofs!PrintNoMemory(t)
  BY DEF StoreProofs!CreateNoMemory, StoreProofs!PrintNoMemory
<1>4. CASE StoreProofs!CreateMark(t) \/ StoreProofs!CreateAppend(t)
  BY <1>2, <1>4, CreateMarkInOrder, CreateAppendInOrder
<1>5. CASE \/ StoreProofs!ReserveFind(t) \/ StoreProofs!ReserveCount(t)
           \/ StoreProofs!TakeSeat(t) \/ StoreProofs!RefuseSeat(t)
           \/ StoreProofs!ReserveDone(t) \/ StoreProofs!Rollback(t)
  BY <1>2, <1>5, ReserveFindInOrder, ReserveCountInOrder, TakeSeatInOrder, RefuseSeatInOrder,
     ReserveDoneInOrder, RollbackInOrder
<1>6. CASE \/ StoreProofs!ShowFind(t) \/ StoreProofs!ShowCopy(t) \/ StoreProofs!ListHead(t)
           \/ StoreProofs!ListNode(t) \/ StoreProofs!WriteOut(t)
  BY <1>2, <1>6, ShowFindInOrder, ShowCopyInOrder, ListHeadInOrder, ListNodeInOrder,
     WriteOutInOrder
<1> QED
  BY <1>1, <1>3, <1>4, <1>5, <1>6 DEF StoreProofs!Step

-----------------------------------------------------------------------------
(* The steps outside the store. *)

(* The next line is read, and called if it is a command of the store.        *)
LEMMA FetchInOrder ==
  ASSUME AFile, Always, OrderInv, NEW t \in Threads, FetchAndCall(t)
  PROVE  OrderInv'
<1>0. OneCall /\ IdsOnce(events)
  BY DEF OrderInv
<1>1. /\ pc[t] = "fetch" /\ ~barrier /\ pos <= Len(job) /\ UNCHANGED job /\ pos' = pos + 1
      /\ line' = [line EXCEPT ![t] = pos] /\ pc' = [pc EXCEPT ![t] = AfterFetch(job[pos])]
  BY DEF FetchAndCall, Fetch, Goto
<1>2. /\ pos \in Nat /\ pos >= 1 /\ DOMAIN pc = Threads /\ DOMAIN line = Threads
      /\ Len(job) \in Nat /\ pos \in 1 .. Len(job)
  BY <1>1, FileLines DEF Always, Inv, TypeOK
<1>3. ~InCall(t)
  BY <1>0, <1>1 DEF OneCall
<1>4. ASSUME NEW u \in Threads, InCall(u) PROVE IsBarrier(pos)
  <2>1. IsBarrier(line[u] + 1) /\ line[u] \in 1 .. Len(job) /\ pos - 1 = line[u]
    BY <1>0, <1>1, <1>4, LineOfCall
  <2>2. line[u] + 1 = pos
    BY <1>2, <2>1
  <2> QED
    BY <2>1, <2>2
<1>5. DOMAIN spc = Threads /\ DOMAIN call = Threads
  BY DEF Always, StoreProofs!IInv, StoreProofs!Typed, StoreProofs!LocalsTyped
<1>6. /\ UNCHANGED <<events, id_being_processed, out>> /\ IdsOnce(events)'
  BY <1>0, SameSteps DEF FetchAndCall, storeVars, StoreProofs!Call, StoreProofs!store, IdsOnce
<1>7. \A c : Sorted(c)' = Sorted(c')
  BY DEF Sorted
<1>8. PICK r : r = Run(job)
  OBVIOUS
<1>9. Run(job)' = r
  BY <1>1, <1>8
<1>10. CASE job[pos] \in StoreCommands
  <2>1. ~IsBarrier(pos)
    BY <1>2, <1>10, FileLines
  <2>2. \A u \in Threads : ~InCall(u)
    BY <1>4, <2>1
  <2>3. State(events, out) = r[pos - 1] /\ id_being_processed = -1
    BY <1>8, <2>2 DEF OrderInv
  <2>4. PICK c : c = Sorted(job[pos])
    OBVIOUS
  <2>5. StoreProofs!Call(t, c)
    BY <1>10, <2>4, SameSteps DEF FetchAndCall
  <2>6. spc'[t] = c.op /\ call'[t] = c /\ \A u \in Threads : u # t => spc'[u] = spc[u]
    BY <1>5, <2>5 DEF StoreProofs!Call, StoreProofs!Goto
  <2>7. c.op \in {"create", "reserve", "show", "list"}
    <3>1. c \in StoreCalls
      BY <1>10, <2>4 DEF StoreCalls
    <3> QED
      BY <3>1, StoreConstants DEF StoreProofs!CallAssumption
  <2>8. pc'[t] = "exec" /\ line'[t] = pos /\ pos' - 1 = pos
    BY <1>1, <1>2, <1>10 DEF AfterFetch
  <2>9. InCall(t)' /\ \A u \in Threads : InCall(u)' => u = t
    BY <2>2, <2>6, <2>7 DEF InCall
  <2>10. OneCall'
    <3>1. /\ pc'[t] = "exec" /\ line'[t] \in 1 .. pos' - 1
          /\ job'[line'[t]] \in StoreCommands /\ call'[t] = Sorted(job'[line'[t]])
      BY <1>1, <1>2, <1>10, <2>4, <2>6, <2>8
    <3> QED
      BY <1>7, <2>9, <3>1 DEF OneCall
  <2>11. PICK s : s = r[pos - 1]
    OBVIOUS
  <2>12. (Run(job)[line[t] - 1])' = s
    BY <1>9, <2>8, <2>11
  <2>13. State(Unsold(t), out)' = s
    BY <1>6, <2>3, <2>6, <2>7, <2>11 DEF Unsold, Selling, State
  <2>14. Midway(t, s)'
    BY <1>6, <2>3, <2>6, <2>7, <2>13 DEF Midway, Selling
  <2>15. \A u \in Threads : InCall(u)' => Midway(u, Run(job)[line[u] - 1])'
    BY <2>9, <2>12, <2>14
  <2>16. ~\A u \in Threads : ~InCall(u)'
    BY <2>9
  <2> QED
    BY <1>6, <2>10, <2>15, <2>16 DEF OrderInv
<1>11. CASE job[pos] \notin StoreCommands
  <2>1. UNCHANGED storeVars
    BY <1>11 DEF FetchAndCall
  <2>2. \A u \in Threads : InCall(u)' <=> InCall(u)
    BY <2>1 DEF InCall, storeVars
  <2>3. \A u \in Threads : InCall(u) => pc'[u] = pc[u] /\ line'[u] = line[u]
    BY <1>1, <1>2, <1>3
  <2>4. OneCall'
    <3>1. \A u \in Threads : InCall(u) =>
            /\ pc'[u] = "exec" /\ line'[u] \in 1 .. pos' - 1
            /\ job'[line'[u]] \in StoreCommands /\ call'[u] = Sorted(job'[line'[u]])
      BY <1>0, <1>1, <1>2, <2>1, <2>3 DEF OneCall, storeVars
    <3>2. \A u, v \in Threads : InCall(u)' /\ InCall(v)' => u = v
      BY <1>0, <2>2 DEF OneCall
    <3> QED
      BY <1>7, <2>2, <3>1, <3>2 DEF OneCall
  <2>5. ASSUME NEW u \in Threads, InCall(u) PROVE Midway(u, Run(job)[line[u] - 1])'
    <3>1. PICK s : s = Run(job)[line[u] - 1]
      OBVIOUS
    <3>2. Run(job)[line[u] - 1]' = s
      BY <1>1, <2>3, <2>5, <3>1
    <3>3. Midway(u, s)
      BY <2>5, <3>1 DEF OrderInv
    <3>4. Midway(u, s)'
      BY <1>1, <2>1, <2>3, <2>5, <3>3, MidwayStays
    <3> QED
      BY <3>2, <3>4
  <2>6. ASSUME \A u \in Threads : ~InCall(u)
        PROVE  State(events', out') = Run(job')[pos' - 1] /\ id_being_processed' = -1
    <3>1. State(events, out) = r[pos - 1] /\ id_being_processed = -1
      BY <1>8, <2>6 DEF OrderInv
    <3>2. r[pos] = Effect(r[pos - 1], job[pos])
      BY <1>2, <1>8, RunGoesOn
    <3>3. r[pos] = r[pos - 1] /\ pos' - 1 = pos
      BY <1>1, <1>2, <1>11, <3>2, EffectOfOther
    <3> QED
      BY <1>6, <1>9, <3>1, <3>3
  <2>7. State(events, out)' = State(events', out')
    BY DEF State
  <2> QED
    BY <1>6, <2>2, <2>4, <2>5, <2>6, <2>7 DEF OrderInv
<1> QED
  BY <1>10, <1>11

(* Threads and the main thread outside the store. *)
LEMMA OutsideInOrder ==
  ASSUME Always, OrderInv, NEW t \in Threads,
         Returned(t) \/ (ControlStep(t) /\ UNCHANGED storeVars)
  PROVE  OrderInv'
<1>1. UNCHANGED <<storeVars, job, pos, line>> /\ \A u \in Threads : u # t => pc'[u] = pc[u]
  BY OutsideSteps
<1>2. \A u \in Threads : InCall(u) => pc[u] = "exec"
  BY DEF OrderInv, OneCall
<1>3. \A u \in Threads : InCall(u) => pc'[u] = "exec"
  BY <1>1, <1>2, OutsideSteps
<1> QED
  BY <1>1, <1>3, OutsideKeepsOrder

LEMMA MainInOrder ==
  ASSUME Always, OrderInv, ProcessMain
  PROVE  OrderInv'
<1>1. UNCHANGED <<storeVars, job, pos, line>> /\ \A u \in Threads : pc[u] = "exec" => pc'[u] = "exec"
  BY MainSteps
<1>2. \A u \in Threads : InCall(u) => pc'[u] = "exec"
  BY <1>1 DEF OrderInv, OneCall
<1> QED
  BY <1>1, <1>2, OutsideKeepsOrder

LEMMA OrderStep ==
  ASSUME AFile, Always, StoreProofs!ListsInv, ~MallocFails, OrderInv, [ProcessNext]_processVars
  PROVE  OrderInv'
<1>1. ASSUME NEW t \in Threads, ProcessStep(t) PROVE OrderInv'
  BY <1>1, FetchInOrder, InStoreInOrder, OutsideInOrder DEF ProcessStep
<1>2. CASE ProcessMain
  BY <1>2, MainInOrder
<1>3. ASSUME UNCHANGED <<jobVars, storeVars>> PROVE OrderInv'
  <2>1. UNCHANGED <<storeVars, job, pos, line, pc>>
    BY <1>3 DEF jobVars, fileVars, threadVars
  <2>2. \A u \in Threads : InCall(u) => pc'[u] = "exec"
    BY <2>1 DEF OrderInv, OneCall
  <2> QED
    BY <2>1, <2>2, OutsideKeepsOrder
<1> QED
  BY <1>1, <1>2, <1>3 DEF ProcessNext, Ended, processVars

LEMMA OrderStart ==
  ASSUME ProcessInit
  PROVE  AFile => OrderInv
<1> SUFFICES ASSUME AFile PROVE OrderInv
  OBVIOUS
<1>1. /\ events = <<>> /\ id_being_processed = -1 /\ out = <<>> /\ pos = 1
      /\ \A t \in Threads : spc[t] = "idle"
  BY SameStore DEF ProcessInit, Init, StoreProofs!StoreInit
<1>2. \A t \in Threads : ~InCall(t)
  BY <1>1 DEF InCall
<1>3. OneCall /\ IdsOnce(events)
  BY <1>1, <1>2 DEF OneCall, IdsOnce
<1>4. State(events, out) = Run(job)[pos - 1]
  <2>1. Run(job)[0] = Nothing
    BY FileLines, RunGoesOn
  <2> QED
    BY <1>1, <2>1 DEF State, Nothing
<1> QED
  BY <1>1, <1>2, <1>3, <1>4 DEF OrderInv

LEMMA SameFile == UNCHANGED job => (AFile' <=> AFile)
  BY DEF AFile, Separated

LEMMA OrderHolds ==
  ASSUME ~MallocFails
  PROVE  ProcessSpec => [](AFile => OrderInv)
<1>1. ProcessInit => (AFile => OrderInv)
  BY OrderStart
<1>2. Always /\ StoreProofs!ListsInv /\ (AFile => OrderInv) /\ [ProcessNext]_processVars
        => (AFile => OrderInv)'
  <2> SUFFICES ASSUME Always, StoreProofs!ListsInv, AFile => OrderInv,
                      [ProcessNext]_processVars, AFile'
               PROVE  OrderInv'
    OBVIOUS
  <2>1. UNCHANGED job
    BY JobStays
  <2>2. AFile' <=> AFile
    BY <2>1, SameFile
  <2> QED
    BY <2>2, OrderStep
<1>3. ProcessSpec => []StoreProofs!ListsInv
  <2>1. ProcessSpec => StoreProofs!OpenSpec
    BY ProcessImplementsItsParts, SameStore, PTL
       DEF ImplementsParts, Store!OpenSpec, StoreProofs!OpenSpec
  <2>2. StoreProofs!OpenSpec => []StoreProofs!ListsInv
    BY StoreConstants, StoreProofs!ListsHold
  <2> QED
    BY <2>1, <2>2, PTL
<1> QED
  BY <1>1, <1>2, <1>3, AlwaysHolds, PTL DEF ProcessSpec

(* When the process is done, it has done what the lines do in their order.   *)
LEMMA OrderAtTheEnd ==
  ASSUME ~MallocFails, MaxThreads > 0, AFile, Always, OrderInv, mpc = "done", AllLinesRead
  PROVE  out = InOrder(job).out /\ events = InOrder(job).events
<1>1. /\ 1 \in Threads /\ \A t \in Threads : pc[t] = "exited"
  BY ThreadNumbers DEF AllLinesRead
<1>2. result[1] # NoResult
  BY <1>1 DEF Always, RoundInv
<1>3. pos = Len(job) + 1 /\ Len(job) \in Nat
  BY <1>1, <1>2, FileLines DEF AllLinesRead
<1>4. \A t \in Threads : ~InCall(t)
  BY <1>1 DEF OrderInv, OneCall
<1>5. State(events, out) = Run(job)[Len(job)]
  <2>1. pos - 1 = Len(job)
    BY <1>3
  <2> QED
    BY <1>4, <2>1 DEF OrderInv
<1>6. InOrder(job) = State(events, out)
  BY <1>3, <1>5, RunGoesOn
<1> QED
  BY <1>6 DEF State

(* A file with a BARRIER after every command writes and leaves behind what   *)
(* one thread would that executed it line by line, whatever the commands are *)
(* and however many threads execute them: a BARRIER is passed only when the  *)
(* command before it has returned (main.c:182-217, 268-274, 382-386), and no *)
(* two commands are in the store at the same time.  What a command does is   *)
(* then all of it or nothing: a reservation that is refused gives back its   *)
(* seats and its number (operations.c:176-184), and the order in which       *)
(* parser.c:295-303 puts the seats makes no difference to what it does.      *)
(* Provided a thread runs, and malloc does not fail: without memory a        *)
(* command is dropped, which one thread would drop elsewhere or not at all.  *)
THEOREM BarriersMakeItSequential ==
  ASSUME MaxThreads > 0, ~MallocFails
  PROVE  ProcessSpec => []BarriersGiveFileOrder
<1>1. Always => (Separated(job) => AFile)
  BY DEF Always, Inv, TypeOK, AFile
<1>2. Always /\ (AFile => OrderInv) /\ AllLinesRead => BarriersGiveFileOrder
  BY <1>1, OrderAtTheEnd DEF BarriersGiveFileOrder
<1>3. ProcessSpec => []AllLinesRead
  BY ProcessImplementsItsParts, NothingIsSkipped, PTL DEF ImplementsParts
<1> QED
  BY <1>2, <1>3, AlwaysHolds, OrderHolds, PTL
=============================================================================
