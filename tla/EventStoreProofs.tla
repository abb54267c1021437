-------------------------- MODULE EventStoreProofs --------------------------
(***************************************************************************)
(* Safety of the job processes' event store for every set of threads,       *)
(* events and commands and any number of calls.                             *)
(***************************************************************************)
EXTENDS EventStore, SequenceTheorems, FiniteSetTheorems, WellFoundedInduction, TLAPS

Seats(e) == 0 .. e.rows * e.cols - 1
SeatMaps == UNION {[0 .. n - 1 -> Nat] : n \in Int}
Event == [id : EventIds, rows : Nat, cols : Nat, reservations : Int, data : SeatMaps]

EventsTyped ==
  /\ events \in Seq(Event)
  /\ \A p \in DOMAIN events : events[p].data \in [Seats(events[p]) -> Nat]

-----------------------------------------------------------------------------
(* The list and its events. *)

LEMMA SmallestPosition ==
  ASSUME NEW S \in SUBSET Nat, S # {}
  PROVE  \E p \in S : \A q \in S : p <= q
<1>1. PICK p \in S : \A q \in S : ~(<<q, p>> \in OpToRel(<, Nat))
  BY NatLessThanWellFounded, WFMin
<1>2. \A q, r \in Nat : <<q, r>> \in OpToRel(<, Nat) <=> q < r
  BY DEF OpToRel
<1>3. \A q \in S : ~(q < p)
  BY <1>1, <1>2
<1>4. \A q \in S : p <= q
  BY <1>3
<1> QED
  BY <1>4

(* get_event finds an event exactly when there is one. *)
LEMMA GetEvent ==
  ASSUME EventsTyped, NEW id
  PROVE  /\ get_event(id) \in 0 .. Len(events)
         /\ get_event(id) # 0 => get_event(id) \in DOMAIN events
<1> DEFINE hits == {p \in DOMAIN events : events[p].id = id}
<1>1. DOMAIN events = 1 .. Len(events) /\ Len(events) \in Nat
  BY LenProperties DEF EventsTyped
<1>2. CASE hits = {}
  BY <1>1, <1>2 DEF get_event
<1>3. CASE hits # {}
  <2>1. \E p \in hits : \A q \in hits : p <= q
    <3>1. hits \in SUBSET Nat
      BY <1>1
    <3> HIDE DEF hits
    <3> QED
      BY <1>3, <3>1, SmallestPosition
  <2>2. get_event(id) = CHOOSE p \in hits : \A q \in hits : p <= q
    BY <1>3 DEF get_event
  <2>3. get_event(id) \in hits
    BY <2>1, <2>2
  <2> QED
    BY <1>1, <2>3
<1> QED
  BY <1>2, <1>3

LEMMA EventFacts ==
  ASSUME EventsTyped, NEW p \in DOMAIN events
  PROVE  /\ events[p] \in Event
         /\ events[p].data \in [Seats(events[p]) -> Nat]
<1>1. events[p] \in Event
  BY ElementOfSeq, LenProperties DEF EventsTyped
<1> QED
  BY <1>1 DEF EventsTyped

(* A step that changes one event and neither its id nor its size.            *)
OthersSame(p) == \A q \in DOMAIN events : q # p => events'[q] = events[q]

SameSize(p) ==
  /\ events'[p].id = events[p].id
  /\ events'[p].rows = events[p].rows /\ events'[p].cols = events[p].cols

LEMMA OneEventTyped ==
  ASSUME EventsTyped, NEW p \in DOMAIN events, NEW e \in Event,
         e.id = events[p].id, e.rows = events[p].rows, e.cols = events[p].cols,
         e.data \in [Seats(events[p]) -> Nat],
         events' = [events EXCEPT ![p] = e]
  PROVE  /\ EventsTyped' /\ Len(events') = Len(events)
         /\ DOMAIN events' = DOMAIN events
         /\ OthersSame(p) /\ SameSize(p)
         /\ events'[p] = e
<1>1. events[p] \in Event /\ DOMAIN events = 1 .. Len(events) /\ Len(events) \in Nat
  BY EventFacts, LenProperties DEF EventsTyped
<1>2. /\ events' \in Seq(Event) /\ Len(events') = Len(events)
      /\ DOMAIN events' = DOMAIN events
      /\ events'[p] = e
      /\ \A q \in DOMAIN events : q # p => events'[q] = events[q]
  BY <1>1, ExceptSeq, LenProperties DEF EventsTyped
<1>3. \A q \in DOMAIN events' : events'[q].data \in [Seats(events'[q]) -> Nat]
  <2> TAKE q \in DOMAIN events'
  <2>1. CASE q = p
    BY <1>2, <2>1 DEF Seats
  <2>2. CASE q # p
    BY <1>2, <2>2, EventFacts
  <2> QED
    BY <2>1, <2>2
<1> QED
  BY <1>2, <1>3 DEF EventsTyped, OthersSame, SameSize, Seats

LEMMA NewEventTyped ==
  ASSUME NEW id \in EventIds, NEW dim \in Nat \X Nat
  PROVE  /\ NewEvent(id, dim) \in Event
         /\ NewEvent(id, dim).reservations = 0
         /\ NewEvent(id, dim).data \in [Seats(NewEvent(id, dim)) -> Nat]
         /\ \A s \in Seats(NewEvent(id, dim)) : NewEvent(id, dim).data[s] = 0
<1>1. dim[1] \in Nat /\ dim[2] \in Nat
  OBVIOUS
<1>2. dim[1] * dim[2] \in Int
  BY <1>1
<1> DEFINE d == [s \in 0 .. dim[1] * dim[2] - 1 |-> 0]
<1>3. d \in [0 .. dim[1] * dim[2] - 1 -> Nat] /\ \A s \in 0 .. dim[1] * dim[2] - 1 : d[s] = 0
  OBVIOUS
<1>4. d \in SeatMaps
  BY <1>2, <1>3 DEF SeatMaps
<1> HIDE DEF d
<1>5. NewEvent(id, dim) =
        [id |-> id, rows |-> dim[1], cols |-> dim[2], reservations |-> 0, data |-> d]
  BY DEF NewEvent, d
<1>6. NewEvent(id, dim) \in Event
  BY <1>1, <1>4, <1>5 DEF Event
<1>7. Seats(NewEvent(id, dim)) = 0 .. dim[1] * dim[2] - 1
  BY <1>5 DEF Seats
<1> QED
  BY <1>3, <1>5, <1>6, <1>7

LEMMA AppendStep ==
  ASSUME EventsTyped, NEW id \in EventIds, NEW dim \in Nat \X Nat,
         events' = Append(events, NewEvent(id, dim))
  PROVE  /\ EventsTyped'
         /\ Len(events) \in Nat /\ Len(events') = Len(events) + 1
         /\ DOMAIN events = 1 .. Len(events)
         /\ DOMAIN events' = DOMAIN events \cup {Len(events) + 1}
         /\ \A q \in DOMAIN events : events'[q] = events[q]
         /\ events'[Len(events) + 1].reservations = 0
         /\ events'[Len(events) + 1].data \in [Seats(events'[Len(events) + 1]) -> Nat]
         /\ \A s \in Seats(events'[Len(events) + 1]) : events'[Len(events) + 1].data[s] = 0
<1> DEFINE e == NewEvent(id, dim)
<1>1. /\ e \in Event /\ e.reservations = 0 /\ e.data \in [Seats(e) -> Nat]
      /\ \A s \in Seats(e) : e.data[s] = 0
  BY NewEventTyped
<1> HIDE DEF e
<1>2. /\ events' \in Seq(Event) /\ Len(events') = Len(events) + 1
      /\ \A q \in 1 .. Len(events) : events'[q] = events[q]
      /\ events'[Len(events) + 1] = e
  BY <1>1, AppendProperties DEF EventsTyped, e
<1>3. /\ DOMAIN events = 1 .. Len(events) /\ Len(events) \in Nat
      /\ DOMAIN events' = 1 .. Len(events) + 1
  BY <1>2, LenProperties DEF EventsTyped
<1>4. \A q \in DOMAIN events' : events'[q].data \in [Seats(events'[q]) -> Nat]
  <2> TAKE q \in DOMAIN events'
  <2>1. CASE q = Len(events) + 1
    BY <1>1, <1>2, <2>1
  <2>2. CASE q \in DOMAIN events
    BY <1>2, <1>3, <2>2, EventFacts
  <2> QED
    BY <1>3, <2>1, <2>2
<1>5. EventsTyped'
  BY <1>2, <1>4 DEF EventsTyped, Seats
<1> QED
  BY <1>1, <1>2, <1>3, <1>5

-----------------------------------------------------------------------------
(* Types. *)

Labels == {"idle", "create", "append", "reserve", "count", "seats", "rollback",
           "show", "copy", "list", "node", "print"}

LocalsTyped ==
  /\ id_being_processed \in EventIds \cup {-1}
  /\ pc \in [Threads -> Labels]
  /\ call \in [Threads -> Calls \cup {NoCall}]
  /\ ev \in [Threads -> Nat] /\ k \in [Threads -> Nat] /\ rid \in [Threads -> Nat]
  /\ ret \in [Threads -> {0, 1}]

(* A thread at a label is in a call that has the label.                      *)
InCall(t, op) == call[t] \in Calls /\ call[t].op = op
CallsFit ==
  \A t \in Threads :
    /\ pc[t] \in {"create", "append"} => InCall(t, "create")
    /\ pc[t] \in {"reserve", "count", "seats", "rollback"} => InCall(t, "reserve")
    /\ pc[t] \in {"show", "copy"} => InCall(t, "show")
    /\ pc[t] \in {"list", "node"} => InCall(t, "list")

(* A thread that goes on with an event has found one.                        *)
Busy(t) == pc[t] \in {"seats", "rollback"}
EventsFound ==
  \A t \in Threads :
    /\ pc[t] \in {"count", "seats", "rollback", "copy", "node"} => ev[t] \in DOMAIN events
    /\ Busy(t) => k[t] \in 0 .. Len(call[t].seats)

Typed == EventsTyped /\ LocalsTyped /\ CallsFit /\ EventsFound

LEMMA StartTyped == StoreInit => Typed
<1> SUFFICES ASSUME StoreInit PROVE Typed
  OBVIOUS
<1>1. EventsTyped
  BY EmptySeq DEF StoreInit, EventsTyped
<1>2. LocalsTyped
  BY DEF StoreInit, LocalsTyped, Labels
<1>3. CallsFit /\ EventsFound
  BY DEF StoreInit, CallsFit, EventsFound, Busy
<1> QED
  BY <1>1, <1>2, <1>3 DEF Typed

(* What the steps that change the list do to it.                             *)
LEMMA CountEvents ==
  ASSUME Typed, NEW t \in Threads, ReserveCount(t)
  PROVE  /\ ev[t] \in DOMAIN events
         /\ EventsTyped' /\ Len(events') = Len(events) /\ DOMAIN events' = DOMAIN events
         /\ OthersSame(ev[t]) /\ SameSize(ev[t])
         /\ events'[ev[t]].reservations = events[ev[t]].reservations + 1
         /\ events'[ev[t]].data = events[ev[t]].data
<1> DEFINE p == ev[t]
           e == [events[p] EXCEPT !.reservations = @ + 1]
<1>1. p \in DOMAIN events
  BY DEF Typed, EventsFound, ReserveCount
<1>2. events[p] \in Event /\ events[p].data \in [Seats(events[p]) -> Nat]
  BY <1>1, EventFacts DEF Typed
<1>3. /\ e \in Event /\ e.id = events[p].id
      /\ e.rows = events[p].rows /\ e.cols = events[p].cols
      /\ e.reservations = events[p].reservations + 1 /\ e.data = events[p].data
  BY <1>2 DEF Event
<1>4. events' = [events EXCEPT ![p] = e]
  BY DEF ReserveCount
<1> HIDE DEF e
<1> QED
  BY <1>1, <1>2, <1>3, <1>4, OneEventTyped DEF Typed

(* A seat in bounds has its place among the seats.                           *)
LEMMA SeatIndexInside ==
  ASSUME NEW e \in Event, NEW c \in Nat \X Nat, InBounds(e, c)
  PROVE  seat_index(e, c) \in Seats(e)
<1> DEFINE x == c[1]  y == c[2]  n == e.rows  m == e.cols
<1>1. n \in Nat /\ m \in Nat /\ x \in 1 .. n /\ y \in 1 .. m
  BY DEF Event, InBounds
<1>2. /\ (x - 1) * m \in Int /\ (n - x) * m \in Int
      /\ (x - 1) * m >= 0 /\ (n - x) * m >= 0
      /\ n * m = (x - 1) * m + m + (n - x) * m
  BY <1>1, SMTT(30)
<1>3. (x - 1) * m + y - 1 \in 0 .. n * m - 1
  BY <1>1, <1>2
<1> QED
  BY <1>3 DEF seat_index, Seats

LEMMA SeatFacts ==
  ASSUME Typed, NEW t \in Threads, Busy(t)
  PROVE  /\ call[t] \in Calls /\ call[t].op = "reserve"
         /\ call[t].seats \in Seq(Nat \X Nat) /\ call[t].seats # <<>>
         /\ Len(call[t].seats) \in Nat /\ Len(call[t].seats) > 0
         /\ ev[t] \in DOMAIN events /\ k[t] \in 0 .. Len(call[t].seats)
         /\ rid[t] \in Nat
         /\ \A n \in 1 .. Len(call[t].seats) : call[t].seats[n] \in Nat \X Nat
<1>1. call[t] \in Calls /\ call[t].op = "reserve"
  BY DEF Typed, CallsFit, InCall, Busy
<1>2. call[t].seats \in Seq(Nat \X Nat) /\ call[t].seats # <<>>
  BY <1>1, CallAssumption
<1>3. ev[t] \in DOMAIN events /\ k[t] \in 0 .. Len(call[t].seats) /\ rid[t] \in Nat
  BY DEF Typed, EventsFound, Busy, LocalsTyped
<1>4. Len(call[t].seats) \in Nat /\ Len(call[t].seats) # 0
  BY <1>2, LenProperties, EmptySeq
<1> QED
  BY <1>1, <1>2, <1>3, <1>4, ElementOfSeq

LEMMA TakeEvents ==
  ASSUME Typed, NEW t \in Threads, TakeSeat(t)
  PROVE  LET p == ev[t]
             s == Seat(t, k[t] + 1)
         IN  /\ s \in Seats(events[p]) /\ events[p].data[s] = 0
             /\ EventsTyped' /\ Len(events') = Len(events) /\ DOMAIN events' = DOMAIN events
             /\ OthersSame(p) /\ SameSize(p)
             /\ events'[p].reservations = events[p].reservations
             /\ events'[p].data = [events[p].data EXCEPT ![s] = rid[t]]
<1> DEFINE p == ev[t]
           s == Seat(t, k[t] + 1)
           d == [events[p].data EXCEPT ![s] = rid[t]]
           e == [events[p] EXCEPT !.data = d]
<1>0. Busy(t) /\ k[t] + 1 \in 1 .. Len(call[t].seats)
  <2>1. Busy(t)
    BY DEF TakeSeat, Busy
  <2> QED
    BY <2>1, SeatFacts DEF TakeSeat
<1>1. /\ p \in DOMAIN events /\ rid[t] \in Nat
      /\ call[t].seats[k[t] + 1] \in Nat \X Nat
  BY <1>0, SeatFacts
<1>2. events[p] \in Event /\ events[p].data \in [Seats(events[p]) -> Nat]
  BY <1>1, EventFacts DEF Typed
<1>3. InBounds(events[p], call[t].seats[k[t] + 1]) /\ events[p].data[s] = 0
  BY DEF TakeSeat, SeatIsFree
<1>4. s \in Seats(events[p])
  BY <1>1, <1>2, <1>3, SeatIndexInside DEF Seat
<1>5. d \in [Seats(events[p]) -> Nat]
  BY <1>1, <1>2
<1>6. events' = [events EXCEPT ![p] = e]
  BY DEF TakeSeat
<1>7. events[p].rows * events[p].cols \in Int
  BY <1>2 DEF Event
<1>8. d \in SeatMaps
  BY <1>5, <1>7 DEF SeatMaps, Seats
<1> HIDE DEF d, s
<1>9. /\ e \in Event /\ e.id = events[p].id
      /\ e.rows = events[p].rows /\ e.cols = events[p].cols
      /\ e.reservations = events[p].reservations /\ e.data = d
  BY <1>2, <1>8 DEF Event
<1> HIDE DEF e
<1>10. /\ EventsTyped' /\ Len(events') = Len(events) /\ DOMAIN events' = DOMAIN events
       /\ OthersSame(p) /\ SameSize(p) /\ events'[p] = e
  BY <1>1, <1>5, <1>6, <1>9, OneEventTyped DEF Typed
<1> QED
  BY <1>3, <1>4, <1>9, <1>10 DEF d, s

LEMMA RollbackEvents ==
  ASSUME Typed, NEW t \in Threads, Rollback(t)
  PROVE  LET p == ev[t]
         IN  /\ EventsTyped' /\ Len(events') = Len(events) /\ DOMAIN events' = DOMAIN events
             /\ OthersSame(p) /\ SameSize(p)
             /\ events'[p].reservations = events[p].reservations - 1
             /\ events'[p].data = [s \in Seats(events[p]) |->
                  IF s \in SeatsTaken(t) THEN 0 ELSE events[p].data[s]]
<1> DEFINE p == ev[t]
           d == [s \in Seats(events[p]) |->
                  IF s \in SeatsTaken(t) THEN 0 ELSE events[p].data[s]]
           r == events[p].reservations - 1
           e == [id |-> events[p].id, rows |-> events[p].rows, cols |-> events[p].cols,
                 reservations |-> r, data |-> d]
<1>1. p \in DOMAIN events
  BY DEF Typed, EventsFound, Rollback
<1>2. events[p] \in Event /\ events[p].data \in [Seats(events[p]) -> Nat]
  BY <1>1, EventFacts DEF Typed
<1>3. d \in [Seats(events[p]) -> Nat]
  BY <1>2
<1>4. DOMAIN events[p].data = Seats(events[p])
  BY <1>2
<1>5. events' = [events EXCEPT ![p] = [events[p] EXCEPT !.reservations = r, !.data = d]]
  BY <1>1, <1>2, <1>4 DEF Rollback, Event
<1>6. r \in Int /\ events[p].rows * events[p].cols \in Int
  BY <1>2 DEF Event
<1>9. d \in SeatMaps
  BY <1>3, <1>6 DEF SeatMaps, Seats
<1> HIDE DEF d, r
<1>10. [events[p] EXCEPT !.reservations = r, !.data = d] = e
  <2> DEFINE e0 == [events[p] EXCEPT !.reservations = r]
  <2>1. e0 = [id |-> events[p].id, rows |-> events[p].rows, cols |-> events[p].cols,
              reservations |-> r, data |-> events[p].data]
    BY <1>2 DEF Event
  <2>2. [events[p] EXCEPT !.reservations = r, !.data = d] = [e0 EXCEPT !.data = d]
    OBVIOUS
  <2> HIDE DEF e0
  <2>3. [e0 EXCEPT !.data = d] = e
    BY <2>1
  <2> QED
    BY <2>2, <2>3
<1>8. /\ e \in Event /\ e.id = events[p].id
      /\ e.rows = events[p].rows /\ e.cols = events[p].cols
      /\ e.reservations = r /\ e.data = d
  BY <1>2, <1>6, <1>9 DEF Event
<1> HIDE DEF e
<1>7. /\ EventsTyped' /\ Len(events') = Len(events) /\ DOMAIN events' = DOMAIN events
      /\ OthersSame(p) /\ SameSize(p) /\ events'[p] = e
  BY <1>1, <1>3, <1>5, <1>8, <1>10, OneEventTyped DEF Typed
<1> QED
  BY <1>7, <1>8 DEF d, r

LEMMA CreateEvents ==
  ASSUME Typed, NEW t \in Threads, CreateAppend(t)
  PROVE  /\ EventsTyped'
         /\ Len(events) \in Nat /\ Len(events') = Len(events) + 1
         /\ DOMAIN events = 1 .. Len(events)
         /\ DOMAIN events' = DOMAIN events \cup {Len(events) + 1}
         /\ \A q \in DOMAIN events : events'[q] = events[q]
         /\ events'[Len(events) + 1].reservations = 0
         /\ events'[Len(events) + 1].data \in [Seats(events'[Len(events) + 1]) -> Nat]
         /\ \A s \in Seats(events'[Len(events) + 1]) : events'[Len(events) + 1].data[s] = 0
<1>1. InCall(t, "create")
  BY DEF Typed, CallsFit, CreateAppend
<1>2. call[t].id \in EventIds /\ call[t].dim \in Nat \X Nat
  BY <1>1, CallAssumption DEF InCall
<1> QED
  BY <1>2, AppendStep DEF CreateAppend, Typed

-----------------------------------------------------------------------------
(* The steps, by what they change.                                           *)

(* Steps that touch neither the events nor the reservations under way.       *)
Quiet(t) ==
  \/ CreateMark(t) \/ CreateNoMemory(t) \/ ReserveFind(t) \/ RefuseSeat(t)
  \/ ShowFind(t) \/ ShowCopy(t) \/ ListHead(t) \/ ListNode(t)
  \/ WriteOut(t) \/ PrintNoMemory(t) \/ Begins(t)

Acts(t) ==
  Quiet(t) \/ CreateAppend(t) \/ ReserveCount(t) \/ TakeSeat(t) \/ ReserveDone(t) \/ Rollback(t)

LEMMA NextActs == ASSUME OpenNext PROVE \E t \in Threads : Acts(t)
  BY DEF OpenNext, Step, Acts, Quiet

(* A step of a thread leaves the other threads where they are.               *)
OthersWait(t) ==
  \A u \in Threads : u # t =>
    /\ pc'[u] = pc[u] /\ call'[u] = call[u] /\ ev'[u] = ev[u]
    /\ k'[u] = k[u] /\ rid'[u] = rid[u]

LEMMA StepIsLocal ==
  ASSUME Typed, NEW t \in Threads, Acts(t)
  PROVE  OthersWait(t)
<1> USE DEF Typed, LocalsTyped, OthersWait, Goto, Return, locals
<1>1. CASE CreateMark(t) \/ CreateNoMemory(t) \/ CreateAppend(t)
  BY <1>1 DEF CreateMark, CreateNoMemory, CreateAppend
<1>2. CASE ReserveFind(t) \/ ShowFind(t)
  BY <1>2 DEF ReserveFind, ShowFind, Find
<1>3. CASE ReserveCount(t)
  BY <1>3 DEF ReserveCount
<1>4. CASE TakeSeat(t) \/ RefuseSeat(t)
  BY <1>4 DEF TakeSeat, RefuseSeat
<1>5. CASE ReserveDone(t) \/ Rollback(t)
  BY <1>5 DEF ReserveDone, Rollback
<1>6. CASE ShowCopy(t) \/ WriteOut(t) \/ PrintNoMemory(t)
  BY <1>6 DEF ShowCopy, WriteOut, PrintNoMemory
<1>7. CASE ListHead(t) \/ ListNode(t)
  BY <1>7 DEF ListHead, ListNode
<1>8. CASE Begins(t)
  BY <1>8 DEF Begins, Call
<1> QED
  BY <1>1, <1>2, <1>3, <1>4, <1>5, <1>6, <1>7, <1>8 DEF Acts, Quiet

(* A quiet step changes no event and no grant, and its thread is in a        *)
(* reservation after it if it was before, with the same seats.               *)
LEMMA QuietStep ==
  ASSUME Typed, NEW t \in Threads, Quiet(t)
  PROVE  /\ UNCHANGED <<events, grants>>
         /\ Busy(t)' <=> Busy(t)
         /\ Busy(t) => call'[t] = call[t] /\ ev'[t] = ev[t] /\ k'[t] = k[t] /\ rid'[t] = rid[t]
<1> USE DEF Typed, LocalsTyped, Goto, Return, Busy, locals, store
<1>1. CASE CreateMark(t) \/ CreateNoMemory(t)
  BY <1>1 DEF CreateMark, CreateNoMemory
<1>2. CASE ReserveFind(t) \/ ShowFind(t)
  BY <1>2 DEF ReserveFind, ShowFind, Find
<1>4. CASE RefuseSeat(t)
  BY <1>4 DEF RefuseSeat
<1>6. CASE ShowCopy(t) \/ WriteOut(t) \/ PrintNoMemory(t)
  BY <1>6 DEF ShowCopy, WriteOut, PrintNoMemory
<1>7. CASE ListHead(t) \/ ListNode(t)
  BY <1>7 DEF ListHead, ListNode
<1>8. CASE Begins(t)
  <2>1. PICK c \in Calls : Call(t, c)
    BY <1>8 DEF Begins
  <2>2. c.op \notin {"seats", "rollback"}
    BY CallAssumption
  <2> QED
    BY <2>1, <2>2 DEF Call
<1> QED
  BY <1>1, <1>2, <1>4, <1>6, <1>7, <1>8 DEF Quiet

(* Events stay where they are and keep their ids and sizes.                  *)
ListGrows == DOMAIN events \subseteq DOMAIN events' /\ \A q \in DOMAIN events : SameSize(q)

LEMMA StepGrowsList ==
  ASSUME Typed, NEW t \in Threads, Acts(t)
  PROVE  EventsTyped' /\ ListGrows
<1>1. CASE Quiet(t)
  <2>1. UNCHANGED events
    BY <1>1, QuietStep
  <2> QED
    BY <2>1 DEF Typed, EventsTyped, ListGrows, SameSize, Seats
<1>2. CASE CreateAppend(t)
  BY <1>2, CreateEvents DEF ListGrows, SameSize
<1>3. CASE ReserveCount(t)
  BY <1>3, CountEvents DEF ListGrows, SameSize, OthersSame
<1>4. CASE TakeSeat(t)
  BY <1>4, TakeEvents DEF ListGrows, SameSize, OthersSame
<1>5. CASE Rollback(t)
  BY <1>5, RollbackEvents DEF ListGrows, SameSize, OthersSame
<1>6. CASE ReserveDone(t)
  <2>1. UNCHANGED events
    BY <1>6 DEF ReserveDone
  <2> QED
    BY <2>1 DEF Typed, EventsTyped, ListGrows, SameSize, Seats
<1> QED
  BY <1>1, <1>2, <1>3, <1>4, <1>5, <1>6 DEF Acts

-----------------------------------------------------------------------------
(* The types are kept. *)

NumbersTyped == \A p \in DOMAIN events : events[p].reservations \in Nat

LEMMA StepLocals ==
  ASSUME Typed, NumbersTyped, NEW t \in Threads, Acts(t)
  PROVE  LocalsTyped'
<1>0. \A id : get_event(id) \in Nat
  BY GetEvent, LenProperties DEF Typed, EventsTyped
<1>a. \A c \in Calls : c.op \in Labels
  BY CallAssumption DEF Labels
<1> USE DEF Typed, LocalsTyped, Goto, Return, locals, store, Labels
<1>1. CASE CreateMark(t)
  <2>1. call[t].id \in EventIds
    BY <1>1, CallAssumption DEF CreateMark, CallsFit, InCall
  <2> QED
    BY <1>1, <2>1 DEF CreateMark
<1>2. CASE CreateNoMemory(t) \/ CreateAppend(t)
  BY <1>2 DEF CreateNoMemory, CreateAppend
<1>3. CASE ReserveFind(t) \/ ShowFind(t)
  BY <1>0, <1>3 DEF ReserveFind, ShowFind, Find
<1>4. CASE ReserveCount(t)
  <2>1. events[ev[t]].reservations + 1 \in Nat
    BY <1>4, CountEvents DEF NumbersTyped
  <2> QED
    BY <1>4, <2>1 DEF ReserveCount
<1>5. CASE TakeSeat(t)
  <2>1. /\ k' = [k EXCEPT ![t] = @ + 1]
        /\ UNCHANGED <<id_being_processed, pc, call, ev, rid, ret>>
    BY <1>5 DEF TakeSeat
  <2>2. k' \in [Threads -> Nat]
    BY <2>1
  <2> QED
    BY <2>1, <2>2
<1>b. CASE RefuseSeat(t)
  BY <1>b DEF RefuseSeat
<1>6. CASE ReserveDone(t) \/ Rollback(t)
  BY <1>6 DEF ReserveDone, Rollback
<1>7. CASE ShowCopy(t) \/ WriteOut(t) \/ PrintNoMemory(t)
  BY <1>7 DEF ShowCopy, WriteOut, PrintNoMemory
<1>8. CASE ListHead(t)
  BY <1>8 DEF ListHead
<1>c. CASE ListNode(t)
  <2>1. /\ ev' = [ev EXCEPT ![t] = @ + 1]
        /\ pc' = pc \/ pc' = [pc EXCEPT ![t] = "print"]
        /\ UNCHANGED <<id_being_processed, call, k, rid, ret>>
    BY <1>c DEF ListNode
  <2>2. ev' \in [Threads -> Nat] /\ pc' \in [Threads -> Labels]
    BY <2>1
  <2> QED
    BY <2>1, <2>2
<1>9. CASE Begins(t)
  BY <1>9, <1>a DEF Begins, Call
<1> QED
  BY <1>1, <1>2, <1>3, <1>4, <1>5, <1>b, <1>6, <1>7, <1>8, <1>c,
     <1>9 DEF Acts, Quiet

LEMMA StepCallsFit ==
  ASSUME Typed, NEW t \in Threads, Acts(t)
  PROVE  CallsFit'
<1>0. OthersWait(t)
  BY StepIsLocal
<1> SUFFICES
      /\ pc'[t] \in {"create", "append"} => InCall(t, "create")'
      /\ pc'[t] \in {"reserve", "count", "seats", "rollback"} => InCall(t, "reserve")'
      /\ pc'[t] \in {"show", "copy"} => InCall(t, "show")'
      /\ pc'[t] \in {"list", "node"} => InCall(t, "list")'
  BY <1>0 DEF Typed, CallsFit, OthersWait, InCall
<1> USE DEF Typed, CallsFit, LocalsTyped, InCall, Goto, Return, locals, store
<1>1. CASE CreateMark(t) \/ CreateNoMemory(t) \/ CreateAppend(t)
  BY <1>1 DEF CreateMark, CreateNoMemory, CreateAppend
<1>3. CASE ReserveFind(t) \/ ShowFind(t)
  BY <1>3 DEF ReserveFind, ShowFind, Find
<1>4. CASE ReserveCount(t)
  BY <1>4 DEF ReserveCount
<1>5. CASE TakeSeat(t) \/ RefuseSeat(t)
  BY <1>5 DEF TakeSeat, RefuseSeat
<1>6. CASE ReserveDone(t) \/ Rollback(t)
  BY <1>6 DEF ReserveDone, Rollback
<1>7. CASE ShowCopy(t) \/ WriteOut(t) \/ PrintNoMemory(t)
  BY <1>7 DEF ShowCopy, WriteOut, PrintNoMemory
<1>8. CASE ListHead(t) \/ ListNode(t)
  BY <1>8 DEF ListHead, ListNode
<1>9. CASE Begins(t)
  <2>1. PICK c \in Calls : Call(t, c)
    BY <1>9 DEF Begins
  <2> QED
    BY <2>1, CallAssumption DEF Call
<1> QED
  BY <1>1, <1>3, <1>4, <1>5, <1>6, <1>7, <1>8, <1>9 DEF Acts, Quiet

(* A step leaves its own thread at an event of the list.                     *)
LEMMA StepEventsFound ==
  ASSUME Typed, NEW t \in Threads, Acts(t)
  PROVE  EventsFound'
<1>0. OthersWait(t) /\ ListGrows
  BY StepIsLocal, StepGrowsList
<1>b. DOMAIN events = 1 .. Len(events) /\ Len(events) \in Nat
  BY LenProperties DEF Typed, EventsTyped
<1> SUFFICES
      /\ pc'[t] \in {"count", "seats", "rollback", "copy", "node"} =>
           ev'[t] \in DOMAIN events'
      /\ Busy(t)' => k'[t] \in 0 .. Len(call'[t].seats)
  BY <1>0 DEF Typed, EventsFound, OthersWait, ListGrows, Busy
<1>d. DOMAIN events \subseteq DOMAIN events'
  BY <1>0 DEF ListGrows
<1>c. Busy(t) => Len(call[t].seats) \in Nat
  BY SeatFacts
<1>1. CASE CreateMark(t) \/ CreateNoMemory(t) \/ CreateAppend(t)
  BY <1>1 DEF CreateMark, CreateNoMemory, CreateAppend, Typed, LocalsTyped, Goto, Return, Busy
<1>3. CASE ReserveFind(t) \/ ShowFind(t)
  <2>1. get_event(call[t].id) # 0 => get_event(call[t].id) \in DOMAIN events
    BY GetEvent DEF Typed
  <2> HIDE DEF get_event
  <2> QED
    BY <1>d, <1>3, <2>1 DEF ReserveFind, ShowFind, Find, Typed, LocalsTyped, Goto, Return, Busy
<1>4. CASE ReserveCount(t)
  <2>1. ev[t] \in DOMAIN events
    BY <1>4, CountEvents
  <2>2. call[t].seats \in Seq(Nat \X Nat)
    BY <1>4, CallAssumption DEF Typed, CallsFit, InCall, ReserveCount
  <2>3. Len(call[t].seats) \in Nat
    BY <2>2, LenProperties
  <2> QED
    BY <1>d, <1>4, <2>1, <2>3 DEF ReserveCount, Typed, LocalsTyped, Goto, Busy
<1>5. CASE TakeSeat(t) \/ RefuseSeat(t)
  BY <1>c, <1>d, <1>5 DEF TakeSeat, RefuseSeat, Typed, LocalsTyped, EventsFound, Goto, Busy, locals
<1>6. CASE ReserveDone(t) \/ Rollback(t)
  BY <1>6 DEF ReserveDone, Rollback, Typed, LocalsTyped, Return, Goto, Busy
<1>7. CASE ShowCopy(t) \/ WriteOut(t) \/ PrintNoMemory(t)
  BY <1>7 DEF ShowCopy, WriteOut, PrintNoMemory, Typed, LocalsTyped, Return, Goto, Busy
<1>8. CASE ListHead(t)
  <2>1. events # <<>> => 1 \in DOMAIN events
    BY <1>b, EmptySeq DEF Typed, EventsTyped
  <2> QED
    BY <1>d, <1>8, <2>1 DEF ListHead, Typed, LocalsTyped, Return, Goto, Busy
<1>9. CASE ListNode(t)
  <2>1. ev[t] \in DOMAIN events
    BY <1>9 DEF ListNode, Typed, EventsFound
  <2>2. /\ pc[t] = "node" /\ ev'[t] = ev[t] + 1
        /\ \/ ev[t] < Len(events) /\ pc' = pc
           \/ pc' = [pc EXCEPT ![t] = "print"]
    BY <1>9 DEF ListNode, Goto, Typed, LocalsTyped
  <2>3. CASE ev[t] < Len(events) /\ pc' = pc
    <3>1. ev[t] + 1 \in DOMAIN events
      BY <1>b, <2>1, <2>3
    <3> QED
      BY <1>d, <2>2, <2>3, <3>1 DEF Busy
  <2>4. CASE pc' = [pc EXCEPT ![t] = "print"]
    BY <2>4 DEF Busy, Typed, LocalsTyped
  <2> QED
    BY <2>2, <2>3, <2>4
<1>10. CASE Begins(t)
  <2>1. PICK c \in Calls : Call(t, c)
    BY <1>10 DEF Begins
  <2> QED
    BY <2>1, CallAssumption DEF Call, Typed, LocalsTyped, Goto, Busy
<1> QED
  BY <1>1, <1>3, <1>4, <1>5, <1>6, <1>7, <1>8, <1>9, <1>10 DEF Acts, Quiet

LEMMA StepTyped ==
  ASSUME Typed, NumbersTyped, NEW t \in Threads, Acts(t)
  PROVE  Typed'
<1>1. EventsTyped'
  BY StepGrowsList
<1>2. LocalsTyped' /\ CallsFit' /\ EventsFound'
  BY StepLocals, StepCallsFit, StepEventsFound
<1> QED
  BY <1>1, <1>2 DEF Typed

-----------------------------------------------------------------------------
(* Who holds which seat.                                                     *)

Reservers(p) == {t \in Threads : Busy(t) /\ ev[t] = p}
Done(p) == {g \in grants : g.event = p}

(* The seats a reservation has taken carry its number, ...                   *)
SeatsHeld ==
  \A t \in Threads : Busy(t) =>
    /\ rid[t] # 0
    /\ \A s \in SeatsTaken(t) :
         s \in Seats(events[ev[t]]) /\ events[ev[t]].data[s] = rid[t]

(* ... and belong to no other reservation, under way or completed.           *)
ReserversApart ==
  \A t, u \in Threads : Busy(t) /\ Busy(u) /\ t # u /\ ev[t] = ev[u] =>
    SeatsTaken(t) \cap SeatsTaken(u) = {}

GrantsApart ==
  \A t \in Threads, g \in grants : Busy(t) /\ g.event = ev[t] =>
    SeatsTaken(t) \cap g.seats = {}

GrantsTyped ==
  \A g \in grants :
    /\ g.event \in DOMAIN events /\ g.id # 0
    /\ g.seats # {} /\ g.seats \subseteq Seats(events[g.event])

(* Every seat that is not free has an owner.                                 *)
SeatsOwned ==
  \A p \in DOMAIN events : \A s \in Seats(events[p]) : events[p].data[s] # 0 =>
    \/ \E g \in grants : g.event = p /\ s \in g.seats
    \/ \E t \in Threads : Busy(t) /\ ev[t] = p /\ s \in SeatsTaken(t)

(* reservations counts the reservations of its event, done and under way.    *)
CountersMatch ==
  \A p \in DOMAIN events :
    /\ IsFiniteSet(Done(p)) /\ IsFiniteSet(Reservers(p))
    /\ events[p].reservations = Cardinality(Done(p)) + Cardinality(Reservers(p))

Granted == GrantsTyped /\ GrantsHold /\ GrantsAreDisjoint /\ GrantsApart
Held == SeatsHeld /\ ReserversApart /\ SeatsOwned

IInv == Typed /\ Granted /\ Held /\ CountersMatch

LEMMA NumbersFromCounters == CountersMatch => NumbersTyped
<1> SUFFICES ASSUME CountersMatch, NEW p \in DOMAIN events
             PROVE  events[p].reservations \in Nat
  BY DEF NumbersTyped
<1>1. Cardinality(Done(p)) \in Nat /\ Cardinality(Reservers(p)) \in Nat
  BY FS_CardinalityType DEF CountersMatch
<1> QED
  BY <1>1 DEF CountersMatch

LEMMA StartHeld == StoreInit => IInv
<1> SUFFICES ASSUME StoreInit PROVE IInv
  OBVIOUS
<1>1. Typed
  BY StartTyped
<1>2. DOMAIN events = {} /\ grants = {}
  BY DEF StoreInit
<1>3. \A t \in Threads : ~Busy(t)
  BY DEF StoreInit, Busy
<1>4. Granted
  BY <1>2 DEF Granted, GrantsTyped, GrantsHold, GrantsAreDisjoint, GrantsApart
<1>5. Held
  BY <1>2, <1>3 DEF Held, SeatsHeld, ReserversApart, SeatsOwned
<1>6. CountersMatch
  BY <1>2 DEF CountersMatch
<1> QED
  BY <1>1, <1>4, <1>5, <1>6 DEF IInv

(* A step of t leaves the reservations of the other threads as they are.     *)
Same(u) ==
  /\ Busy(u)' <=> Busy(u)
  /\ Busy(u) => /\ ev'[u] = ev[u] /\ rid'[u] = rid[u]
                /\ SeatsTaken(u)' = SeatsTaken(u)

LEMMA SeatsStay ==
  ASSUME Typed, ListGrows, NEW u \in Threads, Busy(u),
         call'[u] = call[u], ev'[u] = ev[u], k'[u] = k[u]
  PROVE  SeatsTaken(u)' = SeatsTaken(u)
<1>1. ev[u] \in DOMAIN events
  BY SeatFacts
<1>2. events'[ev[u]].cols = events[ev[u]].cols
  BY <1>1 DEF ListGrows, SameSize
<1>3. \A n : Seat(u, n)' = Seat(u, n)
  BY <1>2 DEF Seat, seat_index
<1> QED
  BY <1>3 DEF SeatsTaken

LEMMA OthersKeep ==
  ASSUME Typed, NEW t \in Threads, Acts(t)
  PROVE  \A u \in Threads : u # t => Same(u)
<1> SUFFICES ASSUME NEW u \in Threads, u # t PROVE Same(u)
  OBVIOUS
<1>1. /\ pc'[u] = pc[u] /\ call'[u] = call[u] /\ ev'[u] = ev[u]
      /\ k'[u] = k[u] /\ rid'[u] = rid[u]
  BY StepIsLocal DEF OthersWait
<1>2. ListGrows
  BY StepGrowsList
<1>3. Busy(u)' <=> Busy(u)
  BY <1>1 DEF Busy
<1>4. Busy(u) => SeatsTaken(u)' = SeatsTaken(u)
  BY <1>1, <1>2, SeatsStay
<1> QED
  BY <1>1, <1>3, <1>4 DEF Same

(* Events keep their seats. *)
LEMMA SeatBounds ==
  ASSUME ListGrows
  PROVE  \A p \in DOMAIN events :
           /\ p \in DOMAIN events' /\ Seats(events'[p]) = Seats(events[p])
  BY DEF ListGrows, SameSize, Seats

(* A step after which every reservation and every event is as before.        *)
LEMMA NothingMoves ==
  ASSUME IInv, Typed', UNCHANGED <<events, grants>>, \A u \in Threads : Same(u)
  PROVE  IInv'
<1> USE DEF IInv, Same, Seats
<1>1. Granted'
  BY DEF Granted, GrantsTyped, GrantsHold, GrantsAreDisjoint, GrantsApart
<1>2. Held'
  BY DEF Held, SeatsHeld, ReserversApart, SeatsOwned
<1>3. \A p \in DOMAIN events : Done(p)' = Done(p) /\ Reservers(p)' = Reservers(p)
  BY DEF Done, Reservers
<1>4. CountersMatch'
  BY <1>3 DEF CountersMatch
<1> QED
  BY <1>1, <1>2, <1>4

LEMMA QuietKeeps ==
  ASSUME IInv, NEW t \in Threads, Quiet(t)
  PROVE  IInv'
<1>1. Acts(t) /\ Typed
  BY DEF Acts, IInv
<1>2. Typed'
  BY <1>1, StepTyped, NumbersFromCounters DEF IInv
<1>3. /\ UNCHANGED <<events, grants>> /\ (Busy(t)' <=> Busy(t))
      /\ Busy(t) => call'[t] = call[t] /\ ev'[t] = ev[t] /\ k'[t] = k[t] /\ rid'[t] = rid[t]
  BY <1>1, QuietStep
<1>4. Busy(t) => SeatsTaken(t)' = SeatsTaken(t)
  BY <1>1, <1>3, SeatsStay, StepGrowsList
<1>5. \A u \in Threads : u # t => Same(u)
  BY <1>1, OthersKeep
<1> QED
  BY <1>2, <1>3, <1>4, <1>5, NothingMoves DEF Same, IInv

(* A step that adds an event with no reservation.                            *)
LEMMA CreateKeeps ==
  ASSUME IInv, NEW t \in Threads, CreateAppend(t)
  PROVE  IInv'
<1>1. Acts(t) /\ Typed /\ ListGrows /\ GrantsTyped
  BY StepGrowsList DEF Acts, IInv, Granted
<1>2. Typed'
  BY <1>1, StepTyped, NumbersFromCounters DEF IInv
<1>3. grants' = grants /\ ~Busy(t) /\ ~Busy(t)'
  BY <1>1 DEF CreateAppend, Return, Goto, Busy, Typed, LocalsTyped
<1>4. \A u \in Threads : Same(u)
  BY <1>1, <1>3, OthersKeep DEF Same
<1>5. PICK new :
        /\ DOMAIN events' = DOMAIN events \cup {new} /\ new \notin DOMAIN events
        /\ \A p \in DOMAIN events : events'[p] = events[p]
        /\ events'[new].reservations = 0
        /\ \A s \in Seats(events'[new]) : events'[new].data[s] = 0
  <2> DEFINE n == Len(events) + 1
  <2>1. /\ Len(events) \in Nat /\ DOMAIN events = 1 .. Len(events)
        /\ DOMAIN events' = DOMAIN events \cup {n}
        /\ \A q \in DOMAIN events : events'[q] = events[q]
        /\ events'[n].reservations = 0
        /\ \A s \in Seats(events'[n]) : events'[n].data[s] = 0
    BY <1>1, CreateEvents
  <2>2. n \notin DOMAIN events
    BY <2>1
  <2> HIDE DEF n
  <2> QED
    BY <2>1, <2>2
<1>6. \A u \in Threads : Busy(u) => ev[u] \in DOMAIN events
  BY <1>1, SeatFacts
<1>7. \A p \in DOMAIN events : Seats(events'[p]) = Seats(events[p])
  BY <1>5 DEF Seats
<1>8. Granted'
  BY <1>3, <1>4, <1>5, <1>6, <1>7 DEF IInv, Same, Seats,
     Granted, GrantsTyped, GrantsHold, GrantsAreDisjoint, GrantsApart
<1>9. Held'
  <2>1. SeatsHeld' /\ ReserversApart'
    BY <1>4, <1>5, <1>6, <1>7 DEF IInv, Same, Seats, Held, SeatsHeld, ReserversApart
  <2>2. SeatsOwned'
    BY <1>3, <1>4, <1>5, <1>6, <1>7 DEF IInv, Same, Seats, Held, SeatsOwned
  <2> QED
    BY <2>1, <2>2 DEF Held
<1>10. CountersMatch'
  <2>1. \A p \in DOMAIN events : Done(p)' = Done(p) /\ Reservers(p)' = Reservers(p)
    BY <1>3, <1>4 DEF Done, Reservers, Same
  <2>2. Done(new)' = {}
    BY <1>1, <1>3, <1>5 DEF Done, GrantsTyped
  <2>3. Reservers(new)' = {}
    BY <1>4, <1>5, <1>6 DEF Reservers, Same
  <2>4. /\ IsFiniteSet(Done(new)') /\ IsFiniteSet(Reservers(new)')
        /\ events'[new].reservations = Cardinality(Done(new)') + Cardinality(Reservers(new)')
    BY <1>5, <2>2, <2>3, FS_EmptySet
  <2>5. ASSUME NEW p \in DOMAIN events'
        PROVE  /\ IsFiniteSet(Done(p)') /\ IsFiniteSet(Reservers(p)')
               /\ events'[p].reservations = Cardinality(Done(p)') + Cardinality(Reservers(p)')
    <3>1. CASE p = new
      BY <2>4, <3>1
    <3>2. CASE p \in DOMAIN events
      BY <1>5, <2>1, <3>2 DEF IInv, CountersMatch
    <3> QED
      BY <1>5, <3>1, <3>2
  <2> QED
    BY <2>5 DEF CountersMatch
<1> QED
  BY <1>2, <1>8, <1>9, <1>10 DEF IInv

(* A step that gives out a number: the reservation starts with no seat.      *)
LEMMA CountKeeps ==
  ASSUME IInv, NEW t \in Threads, ReserveCount(t)
  PROVE  IInv'
<1>1. Acts(t) /\ Typed /\ GrantsTyped /\ NumbersTyped
  BY NumbersFromCounters DEF Acts, IInv, Granted
<1>2. Typed' /\ ListGrows
  BY <1>1, StepTyped, StepGrowsList
<1>3. PICK p \in DOMAIN events : p = ev[t]
  BY <1>1, CountEvents
<1>4. /\ DOMAIN events' = DOMAIN events /\ OthersSame(p)
      /\ events'[p].reservations = events[p].reservations + 1
      /\ events'[p].data = events[p].data
  BY <1>1, <1>3, CountEvents
<1>5. /\ grants' = grants /\ ~Busy(t) /\ Busy(t)'
      /\ ev'[t] = p /\ k'[t] = 0 /\ rid'[t] = events[p].reservations + 1
  BY <1>1, <1>3 DEF ReserveCount, Goto, Busy, Typed, LocalsTyped
<1>6. SeatsTaken(t)' = {}
  BY <1>5 DEF SeatsTaken
<1>7. rid'[t] # 0
  BY <1>1, <1>5 DEF NumbersTyped
<1>8. \A u \in Threads : u # t => Same(u)
  BY <1>1, OthersKeep
<1>9. \A q \in DOMAIN events :
        events'[q].data = events[q].data /\ Seats(events'[q]) = Seats(events[q])
  BY <1>2, <1>4, SeatBounds DEF OthersSame
<1>10. \A u \in Threads : Busy(u) => ev[u] \in DOMAIN events
  BY <1>1, SeatFacts
<1>11. Granted'
  <2>1. GrantsTyped'
    BY <1>1, <1>4, <1>5, <1>9 DEF Seats, GrantsTyped
  <2>2. GrantsHold'
    BY <1>1, <1>5, <1>9 DEF IInv, Granted, GrantsTyped, GrantsHold
  <2>3. GrantsAreDisjoint'
    BY <1>5 DEF IInv, Granted, GrantsAreDisjoint
  <2>4. GrantsApart'
    BY <1>5, <1>6, <1>8 DEF IInv, Same, Granted, GrantsApart
  <2> QED
    BY <2>1, <2>2, <2>3, <2>4 DEF Granted
<1>12. Held'
  <2>1. SeatsHeld'
    <3>1. ASSUME NEW u \in Threads, Busy(u)'
          PROVE  /\ rid'[u] # 0
                 /\ \A s \in SeatsTaken(u)' :
                      /\ s \in Seats(events'[ev'[u]])
                      /\ events'[ev'[u]].data[s] = rid'[u]
      <4>1. CASE u = t
        BY <1>6, <1>7, <4>1
      <4>2. CASE u # t
        <5>1. Busy(u) /\ ev'[u] = ev[u] /\ rid'[u] = rid[u] /\ SeatsTaken(u)' = SeatsTaken(u)
          BY <1>8, <3>1, <4>2 DEF Same
        <5> QED
          BY <1>9, <1>10, <5>1 DEF IInv, Held, SeatsHeld
      <4> QED
        BY <4>1, <4>2
    <3> QED
      BY <3>1 DEF SeatsHeld, Seats
  <2>2. ReserversApart'
    BY <1>5, <1>6, <1>8 DEF IInv, Same, Held, ReserversApart
  <2>3. SeatsOwned'
    <3>1. ASSUME NEW q \in DOMAIN events', NEW s \in Seats(events'[q]), events'[q].data[s] # 0
          PROVE  \/ \E g \in grants' : g.event = q /\ s \in g.seats
                 \/ \E u \in Threads : Busy(u)' /\ ev'[u] = q /\ s \in SeatsTaken(u)'
      <4>0. q \in DOMAIN events /\ s \in Seats(events[q]) /\ events[q].data[s] # 0
        BY <1>4, <1>9, <3>1
      <4>1. CASE \E u \in Threads : Busy(u) /\ ev[u] = q /\ s \in SeatsTaken(u)
        BY <1>5, <1>8, <4>1 DEF Same
      <4> QED
        BY <1>5, <4>0, <4>1 DEF IInv, Held, SeatsOwned
    <3> QED
      BY <3>1 DEF SeatsOwned, Seats
  <2> QED
    BY <2>1, <2>2, <2>3 DEF Held
<1>13. CountersMatch'
  <2>1. \A q \in DOMAIN events : Done(q)' = Done(q)
    BY <1>5 DEF Done
  <2>2. Reservers(p)' = Reservers(p) \cup {t} /\ t \notin Reservers(p)
    BY <1>5, <1>8 DEF Reservers, Same
  <2>3. \A q \in DOMAIN events : q # p => Reservers(q)' = Reservers(q)
    BY <1>5, <1>8 DEF Reservers, Same
  <2>4. /\ IsFiniteSet(Reservers(p)')
        /\ Cardinality(Reservers(p)') = Cardinality(Reservers(p)) + 1
    BY <2>2, FS_AddElement DEF IInv, CountersMatch
  <2>5. Cardinality(Reservers(p)) \in Nat /\ Cardinality(Done(p)) \in Nat
    BY FS_CardinalityType DEF IInv, CountersMatch
  <2>6. ASSUME NEW q \in DOMAIN events
        PROVE  /\ IsFiniteSet(Done(q)') /\ IsFiniteSet(Reservers(q)')
               /\ events'[q].reservations = Cardinality(Done(q)') + Cardinality(Reservers(q)')
    <3>1. CASE q = p
      BY <1>4, <2>1, <2>4, <2>5, <3>1 DEF IInv, CountersMatch
    <3>2. CASE q # p
      BY <1>4, <2>1, <2>3, <3>2 DEF IInv, CountersMatch, OthersSame
    <3> QED
      BY <3>1, <3>2
  <2> QED
    BY <1>4, <2>6 DEF CountersMatch
<1> QED
  BY <1>2, <1>11, <1>12, <1>13 DEF IInv

(* A step that takes a seat: it was free, so it was nobody's.                *)
LEMMA TakeKeeps ==
  ASSUME IInv, NEW t \in Threads, TakeSeat(t)
  PROVE  IInv'
<1>1. Acts(t) /\ Typed /\ GrantsTyped /\ NumbersTyped
  BY NumbersFromCounters DEF Acts, IInv, Granted
<1>2. Typed' /\ ListGrows
  BY <1>1, StepTyped, StepGrowsList
<1>3. /\ grants' = grants /\ Busy(t) /\ Busy(t)' /\ call'[t] = call[t]
      /\ ev'[t] = ev[t] /\ k'[t] = k[t] + 1 /\ k[t] \in Nat /\ rid'[t] = rid[t]
  BY <1>1 DEF TakeSeat, Busy, Typed, LocalsTyped
<1>4. PICK p \in DOMAIN events : p = ev[t]
  BY <1>1, <1>3, SeatFacts
<1>5. PICK s : s = Seat(t, k[t] + 1)
  OBVIOUS
<1>6. /\ s \in Seats(events[p]) /\ events[p].data[s] = 0
      /\ DOMAIN events' = DOMAIN events /\ OthersSame(p)
      /\ events'[p].reservations = events[p].reservations
      /\ events'[p].data = [events[p].data EXCEPT ![s] = rid[t]]
  BY <1>1, <1>4, <1>5, TakeEvents
<1>7. \A q \in DOMAIN events : Seats(events'[q]) = Seats(events[q])
  BY <1>2, SeatBounds
<1>8. /\ \A q \in DOMAIN events : q # p => events'[q].data = events[q].data
      /\ \A r \in Seats(events[p]) : r # s => events'[p].data[r] = events[p].data[r]
      /\ events'[p].data[s] = rid[t]
  <2>1. events[p].data \in [Seats(events[p]) -> Nat]
    BY <1>1, EventFacts DEF Typed
  <2> QED
    BY <1>6, <2>1 DEF OthersSame
<1>9. SeatsTaken(t)' = SeatsTaken(t) \cup {s}
  <2>1. \A n : Seat(t, n)' = Seat(t, n)
    BY <1>2, <1>3, <1>4 DEF Seat, seat_index, ListGrows, SameSize
  <2>2. SeatsTaken(t)' = {Seat(t, n) : n \in 1 .. k[t] + 1}
    BY <1>3, <2>1 DEF SeatsTaken
  <2>3. 1 .. k[t] + 1 = 1 .. k[t] \cup {k[t] + 1}
    BY <1>3
  <2> QED
    BY <1>5, <2>2, <2>3 DEF SeatsTaken
<1>10. \A u \in Threads : u # t => Same(u)
  BY <1>1, OthersKeep
<1>11. \A u \in Threads : Busy(u) => ev[u] \in DOMAIN events
  BY <1>1, SeatFacts
<1>12. \A u \in Threads : Busy(u) /\ ev[u] = p => s \notin SeatsTaken(u)
  BY <1>6 DEF IInv, Held, SeatsHeld
<1>13. \A g \in grants : g.event = p => s \notin g.seats
  BY <1>6 DEF IInv, Granted, GrantsTyped, GrantsHold
<1>14. Granted'
  <2>1. GrantsTyped' /\ GrantsAreDisjoint'
    BY <1>3, <1>6, <1>7 DEF IInv, Seats, Granted, GrantsTyped, GrantsAreDisjoint
  <2>2. GrantsHold'
    <3>1. ASSUME NEW g \in grants, NEW r \in g.seats
          PROVE  events'[g.event].data[r] = g.id
      <4>1. g.event \in DOMAIN events /\ r \in Seats(events[g.event])
        BY <1>1 DEF GrantsTyped
      <4>2. events[g.event].data[r] = g.id
        BY DEF IInv, Granted, GrantsHold
      <4> QED
        BY <1>8, <1>13, <4>1, <4>2
    <3> QED
      BY <1>3, <3>1 DEF GrantsHold
  <2>3. GrantsApart'
    <3>1. ASSUME NEW u \in Threads, NEW g \in grants, Busy(u)', g.event = ev'[u]
          PROVE  SeatsTaken(u)' \cap g.seats = {}
      <4>1. CASE u = t
        BY <1>3, <1>4, <1>9, <1>13, <3>1, <4>1 DEF IInv, Granted, GrantsApart
      <4>2. CASE u # t
        BY <1>10, <3>1, <4>2 DEF Same, IInv, Granted, GrantsApart
      <4> QED
        BY <4>1, <4>2
    <3> QED
      BY <1>3, <3>1 DEF GrantsApart
  <2> QED
    BY <2>1, <2>2, <2>3 DEF Granted
<1>15. Held'
  <2>1. SeatsHeld'
    <3>1. ASSUME NEW u \in Threads, Busy(u)'
          PROVE  /\ rid'[u] # 0
                 /\ \A r \in SeatsTaken(u)' :
                      /\ r \in Seats(events'[ev'[u]])
                      /\ events'[ev'[u]].data[r] = rid'[u]
      <4>1. CASE u = t
        <5>1. Busy(t) /\ ev[t] = p /\ ev'[t] = p /\ rid'[t] = rid[t] /\ rid[t] # 0
          BY <1>3, <1>4, <1>6, <3>1, <4>1 DEF IInv, Held, SeatsHeld
        <5>2. \A r \in SeatsTaken(t) : r \in Seats(events[p]) /\ events[p].data[r] = rid[t]
          BY <5>1 DEF IInv, Held, SeatsHeld
        <5>3. ASSUME NEW r \in SeatsTaken(t)'
              PROVE  r \in Seats(events'[p]) /\ events'[p].data[r] = rid[t]
          BY <1>6, <1>7, <1>8, <1>9, <5>2
        <5> QED
          BY <4>1, <5>1, <5>3
      <4>2. CASE u # t
        <5>1. Busy(u) /\ ev'[u] = ev[u] /\ rid'[u] = rid[u] /\ SeatsTaken(u)' = SeatsTaken(u)
          BY <1>10, <3>1, <4>2 DEF Same
        <5>2. /\ rid[u] # 0 /\ ev[u] \in DOMAIN events
              /\ \A r \in SeatsTaken(u) :
                   r \in Seats(events[ev[u]]) /\ events[ev[u]].data[r] = rid[u]
          BY <1>11, <5>1 DEF IInv, Held, SeatsHeld
        <5> QED
          BY <1>7, <1>8, <1>12, <5>1, <5>2
      <4> QED
        BY <4>1, <4>2
    <3> QED
      BY <3>1 DEF SeatsHeld, Seats
  <2>2. ReserversApart'
    <3>1. ASSUME NEW u \in Threads, NEW v \in Threads, Busy(u)', Busy(v)', u # v, v # t,
                 ev'[u] = ev'[v]
          PROVE  SeatsTaken(u)' \cap SeatsTaken(v)' = {}
      <4>1. Busy(v) /\ ev'[v] = ev[v] /\ SeatsTaken(v)' = SeatsTaken(v)
        BY <1>10, <3>1 DEF Same
      <4>2. CASE u = t
        <5>1. SeatsTaken(t) \cap SeatsTaken(v) = {}
          BY <1>3, <3>1, <4>1, <4>2 DEF IInv, Held, ReserversApart
        <5>2. s \notin SeatsTaken(v)
          BY <1>3, <1>4, <1>12, <3>1, <4>1, <4>2
        <5> QED
          BY <1>9, <4>1, <4>2, <5>1, <5>2
      <4>3. CASE u # t
        BY <1>10, <3>1, <4>1, <4>3 DEF Same, IInv, Held, ReserversApart
      <4> QED
        BY <4>2, <4>3
    <3>2. \A u, v \in Threads : Busy(u)' /\ Busy(v)' /\ u # v /\ ev'[u] = ev'[v] =>
            SeatsTaken(u)' \cap SeatsTaken(v)' = {}
      BY <3>1
    <3> QED
      BY <3>2 DEF ReserversApart
  <2>3. SeatsOwned'
    <3>1. ASSUME NEW q \in DOMAIN events', NEW r \in Seats(events'[q]), events'[q].data[r] # 0
          PROVE  \/ \E g \in grants' : g.event = q /\ r \in g.seats
                 \/ \E u \in Threads : Busy(u)' /\ ev'[u] = q /\ r \in SeatsTaken(u)'
      <4>0. q \in DOMAIN events /\ r \in Seats(events[q])
        BY <1>6, <1>7
      <4>1. CASE q = p /\ r = s
        BY <1>3, <1>4, <1>9, <4>1
      <4>2. CASE ~(q = p /\ r = s)
        <5>1. events[q].data[r] # 0
          BY <1>8, <3>1, <4>0, <4>2
        <5>2. CASE \E u \in Threads : Busy(u) /\ ev[u] = q /\ r \in SeatsTaken(u)
          BY <1>3, <1>9, <1>10, <5>2 DEF Same
        <5> QED
          BY <1>3, <4>0, <5>1, <5>2 DEF IInv, Held, SeatsOwned
      <4> QED
        BY <4>1, <4>2
    <3> QED
      BY <3>1 DEF SeatsOwned, Seats
  <2> QED
    BY <2>1, <2>2, <2>3 DEF Held
<1>16. CountersMatch'
  <2>1. \A q \in DOMAIN events : Done(q)' = Done(q) /\ Reservers(q)' = Reservers(q)
    BY <1>3, <1>10 DEF Done, Reservers, Same
  <2>2. \A q \in DOMAIN events : events'[q].reservations = events[q].reservations
    BY <1>6 DEF OthersSame
  <2> QED
    BY <1>6, <2>1, <2>2 DEF IInv, CountersMatch
<1> QED
  BY <1>2, <1>14, <1>15, <1>16 DEF IInv

(* A step that completes a reservation: its seats change hands.              *)
LEMMA DoneKeeps ==
  ASSUME IInv, NEW t \in Threads, ReserveDone(t)
  PROVE  IInv'
<1> DEFINE g0 == [by |-> t, event |-> ev[t], id |-> rid[t], seats |-> SeatsTaken(t)]
<1>1. Acts(t) /\ Typed /\ GrantsTyped /\ NumbersTyped
  BY NumbersFromCounters DEF Acts, IInv, Granted
<1>2. Typed' /\ ListGrows
  BY <1>1, StepTyped, StepGrowsList
<1>3. Busy(t) /\ ~Busy(t)' /\ events' = events /\ k[t] = Len(call[t].seats)
  BY <1>1 DEF ReserveDone, Return, Goto, Busy, Typed, LocalsTyped
<1>4. PICK new : new = g0
  OBVIOUS
<1>5. PICK p \in DOMAIN events : p = ev[t]
  BY <1>1, <1>3, SeatFacts
<1>6. /\ grants' = grants \cup {new}
      /\ new.event = p /\ new.id = rid[t] /\ new.seats = SeatsTaken(t)
  BY <1>4, <1>5 DEF ReserveDone
<1> HIDE DEF g0
<1>7. SeatsTaken(t) # {}
  <2>1. 1 \in 1 .. k[t]
    BY <1>1, <1>3, SeatFacts
  <2> QED
    BY <2>1 DEF SeatsTaken
<1>8. \A u \in Threads : u # t => Same(u)
  BY <1>1, OthersKeep
<1>9. /\ rid[t] # 0
      /\ \A r \in SeatsTaken(t) : r \in Seats(events[p]) /\ events[p].data[r] = rid[t]
  BY <1>3, <1>5 DEF IInv, Held, SeatsHeld
<1>10. \A h \in grants : h.event = p => SeatsTaken(t) \cap h.seats = {}
  BY <1>3, <1>5 DEF IInv, Granted, GrantsApart
<1>11. new \notin grants
  BY <1>6, <1>7, <1>10
<1>12. Granted'
  <2>1. GrantsTyped'
    BY <1>3, <1>6, <1>7, <1>9 DEF IInv, Granted, GrantsTyped, Seats
  <2>2. GrantsHold'
    BY <1>3, <1>6, <1>9 DEF IInv, Granted, GrantsHold
  <2>3. GrantsAreDisjoint'
    BY <1>6, <1>10 DEF IInv, Granted, GrantsAreDisjoint
  <2>4. GrantsApart'
    <3>1. ASSUME NEW u \in Threads, NEW g \in grants', Busy(u)', g.event = ev'[u]
          PROVE  SeatsTaken(u)' \cap g.seats = {}
      <4>1. u # t /\ Busy(u) /\ ev'[u] = ev[u] /\ SeatsTaken(u)' = SeatsTaken(u)
        BY <1>3, <1>8, <3>1 DEF Same
      <4>2. CASE g = new
        BY <1>3, <1>5, <1>6, <3>1, <4>1, <4>2 DEF IInv, Held, ReserversApart
      <4>3. CASE g \in grants
        BY <3>1, <4>1, <4>3 DEF IInv, Granted, GrantsApart
      <4> QED
        BY <1>6, <4>2, <4>3
    <3> QED
      BY <3>1 DEF GrantsApart
  <2> QED
    BY <2>1, <2>2, <2>3, <2>4 DEF Granted
<1>13. Held'
  <2>1. SeatsHeld'
    BY <1>3, <1>8 DEF Same, IInv, Held, SeatsHeld, Seats
  <2>2. ReserversApart'
    BY <1>3, <1>8 DEF Same, IInv, Held, ReserversApart
  <2>3. SeatsOwned'
    <3>1. ASSUME NEW q \in DOMAIN events, NEW r \in Seats(events[q]), events[q].data[r] # 0
          PROVE  \/ \E g \in grants' : g.event = q /\ r \in g.seats
                 \/ \E u \in Threads : Busy(u)' /\ ev'[u] = q /\ r \in SeatsTaken(u)'
      <4>1. CASE \E g \in grants : g.event = q /\ r \in g.seats
        BY <1>6, <4>1
      <4>2. ASSUME NEW u \in Threads, Busy(u), ev[u] = q, r \in SeatsTaken(u)
            PROVE  \/ \E g \in grants' : g.event = q /\ r \in g.seats
                   \/ \E v \in Threads : Busy(v)' /\ ev'[v] = q /\ r \in SeatsTaken(v)'
        <5>1. CASE u = t
          BY <1>5, <1>6, <4>2, <5>1
        <5>2. CASE u # t
          BY <1>8, <4>2, <5>2 DEF Same
        <5> QED
          BY <5>1, <5>2
      <4> QED
        BY <3>1, <4>1, <4>2 DEF IInv, Held, SeatsOwned
    <3> QED
      BY <1>3, <3>1 DEF SeatsOwned, Seats
  <2> QED
    BY <2>1, <2>2, <2>3 DEF Held
<1>14. CountersMatch'
  <2>1. /\ Done(p)' = Done(p) \cup {new} /\ new \notin Done(p)
        /\ \A q \in DOMAIN events : q # p => Done(q)' = Done(q)
    BY <1>6, <1>11 DEF Done
  <2>2. /\ Reservers(p)' = Reservers(p) \ {t} /\ t \in Reservers(p)
        /\ \A q \in DOMAIN events : q # p => Reservers(q)' = Reservers(q)
    BY <1>3, <1>5, <1>8 DEF Reservers, Same
  <2>3. /\ IsFiniteSet(Done(p)) /\ IsFiniteSet(Reservers(p))
        /\ events[p].reservations = Cardinality(Done(p)) + Cardinality(Reservers(p))
    BY DEF IInv, CountersMatch
  <2>4. /\ IsFiniteSet(Done(p)') /\ Cardinality(Done(p)') = Cardinality(Done(p)) + 1
    BY <2>1, <2>3, FS_AddElement
  <2>5. /\ IsFiniteSet(Reservers(p)')
        /\ Cardinality(Reservers(p)') = Cardinality(Reservers(p)) - 1
    BY <2>2, <2>3, FS_RemoveElement
  <2>6. Cardinality(Reservers(p)) \in Nat /\ Cardinality(Done(p)) \in Nat
    BY <2>3, FS_CardinalityType
  <2>7. ASSUME NEW q \in DOMAIN events
        PROVE  /\ IsFiniteSet(Done(q)') /\ IsFiniteSet(Reservers(q)')
               /\ events[q].reservations = Cardinality(Done(q)') + Cardinality(Reservers(q)')
    <3>1. CASE q = p
      BY <2>3, <2>4, <2>5, <2>6, <3>1
    <3>2. CASE q # p
      BY <2>1, <2>2, <3>2 DEF IInv, CountersMatch
    <3> QED
      BY <3>1, <3>2
  <2> QED
    BY <1>3, <2>7 DEF CountersMatch
<1> QED
  BY <1>2, <1>12, <1>13, <1>14 DEF IInv

(* A step that gives a reservation up: its seats are free again.             *)
LEMMA RollbackKeeps ==
  ASSUME IInv, NEW t \in Threads, Rollback(t)
  PROVE  IInv'
<1>1. Acts(t) /\ Typed /\ GrantsTyped /\ NumbersTyped
  BY NumbersFromCounters DEF Acts, IInv, Granted
<1>2. Typed' /\ ListGrows
  BY <1>1, StepTyped, StepGrowsList
<1>3. Busy(t) /\ ~Busy(t)' /\ grants' = grants
  BY <1>1 DEF Rollback, Return, Goto, Busy, Typed, LocalsTyped
<1>4. PICK p \in DOMAIN events : p = ev[t]
  BY <1>1, <1>3, SeatFacts
<1>5. PICK taken : taken = SeatsTaken(t)
  OBVIOUS
<1>6. /\ DOMAIN events' = DOMAIN events /\ OthersSame(p)
      /\ events'[p].reservations = events[p].reservations - 1
      /\ events'[p].data =
           [r \in Seats(events[p]) |-> IF r \in taken THEN 0 ELSE events[p].data[r]]
  BY <1>1, <1>4, <1>5, RollbackEvents
<1>7. \A q \in DOMAIN events : Seats(events'[q]) = Seats(events[q])
  BY <1>2, SeatBounds
<1>8. /\ \A q \in DOMAIN events : q # p => events'[q].data = events[q].data
      /\ \A r \in Seats(events[p]) : r \notin taken => events'[p].data[r] = events[p].data[r]
      /\ \A r \in Seats(events[p]) : r \in taken => events'[p].data[r] = 0
  BY <1>6 DEF OthersSame
<1>9. \A u \in Threads : u # t => Same(u)
  BY <1>1, OthersKeep
<1>10. \A u \in Threads : Busy(u) => ev[u] \in DOMAIN events
  BY <1>1, SeatFacts
<1>11. \A g \in grants : g.event = p => taken \cap g.seats = {}
  BY <1>3, <1>4, <1>5 DEF IInv, Granted, GrantsApart
<1>12. \A u \in Threads : Busy(u) /\ u # t /\ ev[u] = p => taken \cap SeatsTaken(u) = {}
  BY <1>3, <1>4, <1>5 DEF IInv, Held, ReserversApart
<1>13. Granted'
  <2>1. GrantsTyped' /\ GrantsAreDisjoint'
    BY <1>3, <1>6, <1>7 DEF IInv, Seats, Granted, GrantsTyped, GrantsAreDisjoint
  <2>2. GrantsHold'
    <3>1. ASSUME NEW g \in grants, NEW r \in g.seats
          PROVE  events'[g.event].data[r] = g.id
      <4>1. g.event \in DOMAIN events /\ r \in Seats(events[g.event])
        BY <1>1 DEF GrantsTyped
      <4>2. events[g.event].data[r] = g.id
        BY DEF IInv, Granted, GrantsHold
      <4> QED
        BY <1>8, <1>11, <4>1, <4>2
    <3> QED
      BY <1>3, <3>1 DEF GrantsHold
  <2>3. GrantsApart'
    BY <1>3, <1>9 DEF IInv, Same, Granted, GrantsApart
  <2> QED
    BY <2>1, <2>2, <2>3 DEF Granted
<1>14. Held'
  <2>1. SeatsHeld'
    <3>1. ASSUME NEW u \in Threads, Busy(u)'
          PROVE  /\ rid'[u] # 0
                 /\ \A r \in SeatsTaken(u)' :
                      /\ r \in Seats(events'[ev'[u]])
                      /\ events'[ev'[u]].data[r] = rid'[u]
      <4>1. /\ Busy(u) /\ u # t
            /\ ev'[u] = ev[u] /\ rid'[u] = rid[u] /\ SeatsTaken(u)' = SeatsTaken(u)
        BY <1>3, <1>9, <3>1 DEF Same
      <4>2. /\ rid[u] # 0 /\ ev[u] \in DOMAIN events
            /\ \A r \in SeatsTaken(u) :
                 r \in Seats(events[ev[u]]) /\ events[ev[u]].data[r] = rid[u]
        BY <1>10, <4>1 DEF IInv, Held, SeatsHeld
      <4> QED
        BY <1>7, <1>8, <1>12, <4>1, <4>2
    <3> QED
      BY <3>1 DEF SeatsHeld, Seats
  <2>2. ReserversApart'
    BY <1>3, <1>9 DEF Same, IInv, Held, ReserversApart
  <2>3. SeatsOwned'
    <3>1. ASSUME NEW q \in DOMAIN events', NEW r \in Seats(events'[q]), events'[q].data[r] # 0
          PROVE  \/ \E g \in grants' : g.event = q /\ r \in g.seats
                 \/ \E u \in Threads : Busy(u)' /\ ev'[u] = q /\ r \in SeatsTaken(u)'
      <4>1. q \in DOMAIN events /\ r \in Seats(events[q]) /\ ~(q = p /\ r \in taken)
        BY <1>6, <1>7, <1>8, <3>1
      <4>2. events[q].data[r] # 0
        BY <1>8, <3>1, <4>1
      <4>3. CASE \E u \in Threads : Busy(u) /\ ev[u] = q /\ r \in SeatsTaken(u)
        <5>1. PICK u \in Threads : Busy(u) /\ ev[u] = q /\ r \in SeatsTaken(u)
          BY <4>3
        <5>2. u # t
          BY <1>4, <1>5, <4>1, <5>1
        <5> QED
          BY <1>9, <5>1, <5>2 DEF Same
      <4> QED
        BY <1>3, <4>1, <4>2, <4>3 DEF IInv, Held, SeatsOwned
    <3> QED
      BY <3>1 DEF SeatsOwned, Seats
  <2> QED
    BY <2>1, <2>2, <2>3 DEF Held
<1>15. CountersMatch'
  <2>1. \A q \in DOMAIN events : Done(q)' = Done(q)
    BY <1>3 DEF Done
  <2>2. /\ Reservers(p)' = Reservers(p) \ {t} /\ t \in Reservers(p)
        /\ \A q \in DOMAIN events : q # p => Reservers(q)' = Reservers(q)
    BY <1>3, <1>4, <1>9 DEF Reservers, Same
  <2>3. /\ IsFiniteSet(Done(p)) /\ IsFiniteSet(Reservers(p))
        /\ events[p].reservations = Cardinality(Done(p)) + Cardinality(Reservers(p))
    BY DEF IInv, CountersMatch
  <2>4. /\ IsFiniteSet(Reservers(p)')
        /\ Cardinality(Reservers(p)') = Cardinality(Reservers(p)) - 1
    BY <2>2, <2>3, FS_RemoveElement
  <2>5. Cardinality(Reservers(p)) \in Nat /\ Cardinality(Done(p)) \in Nat
    BY <2>3, FS_CardinalityType
  <2>6. ASSUME NEW q \in DOMAIN events
        PROVE  /\ IsFiniteSet(Done(q)') /\ IsFiniteSet(Reservers(q)')
               /\ events'[q].reservations = Cardinality(Done(q)') + Cardinality(Reservers(q)')
    <3>1. CASE q = p
      BY <1>6, <2>1, <2>3, <2>4, <2>5, <3>1
    <3>2. CASE q # p
      BY <1>6, <2>1, <2>2, <3>2 DEF IInv, CountersMatch, OthersSame
    <3> QED
      BY <3>1, <3>2
  <2> QED
    BY <1>6, <2>6 DEF CountersMatch
<1> QED
  BY <1>2, <1>13, <1>14, <1>15 DEF IInv

-----------------------------------------------------------------------------
(* The inductive invariant and what it gives.                                *)

LEMMA StutterKeeps == IInv /\ UNCHANGED steps => IInv'
<1> SUFFICES ASSUME IInv, UNCHANGED steps PROVE IInv'
  OBVIOUS
<1> USE DEF steps, store, locals
<1>1. Typed'
  BY DEF IInv, Typed, EventsTyped, LocalsTyped, CallsFit, InCall, EventsFound, Busy, Seats
<1>2. \A u \in Threads : Same(u)
  BY DEF Same, Busy, SeatsTaken, Seat
<1> QED
  BY <1>1, <1>2, NothingMoves

(* The bound on the calls of a thread only takes steps away. *)
LEMMA BoundedIsOpen == Spec => OpenSpec
<1>1. [Next]_vars => [OpenNext]_steps
  BY DEF Next, OpenNext, Begin, vars
<1>2. Init => StoreInit
  BY DEF Init
<1> QED
  BY <1>1, <1>2, PTL DEF Spec, OpenSpec

LEMMA IInvHolds == OpenSpec => []IInv
<1>1. StoreInit => IInv
  BY StartHeld
<1>2. IInv /\ [OpenNext]_steps => IInv'
  <2>1. ASSUME IInv, NEW t \in Threads, Acts(t)
        PROVE  IInv'
    BY <2>1, QuietKeeps, CreateKeeps, CountKeeps, TakeKeeps, DoneKeeps, RollbackKeeps DEF Acts
  <2> QED
    BY <2>1, NextActs, StutterKeeps
<1> QED
  BY <1>1, <1>2, PTL DEF OpenSpec

LEMMA InvTypes == IInv => TypeOK
<1> SUFFICES ASSUME IInv PROVE TypeOK
  OBVIOUS
<1>1. \A p \in DOMAIN events :
        /\ events[p].id \in EventIds /\ events[p].reservations \in Nat
        /\ events[p].data \in [0 .. events[p].rows * events[p].cols - 1 -> Nat]
  BY EventFacts, NumbersFromCounters DEF IInv, Typed, Event, NumbersTyped, Seats
<1>2. \A t \in Threads :
        /\ pc[t] \in {"count", "seats", "rollback", "copy", "node"} => ev[t] \in DOMAIN events
        /\ pc[t] \in {"seats", "rollback"} => k[t] \in 0 .. Len(call[t].seats)
  BY DEF IInv, Typed, EventsFound, Busy
<1>3. LocalsTyped
  BY DEF IInv, Typed
<1> QED
  BY <1>1, <1>2, <1>3 DEF TypeOK, LocalsTyped, Labels

LEMMA InvGrants == IInv => GrantsHold
BY DEF IInv, Granted

LEMMA InvDisjoint == IInv => GrantsAreDisjoint
BY DEF IInv, Granted

LEMMA InvAccounts == IInv => SeatsAreAccountedFor
<1> SUFFICES ASSUME IInv, NEW p \in DOMAIN events
             PROVE  /\ events[p].reservations =
                         Cardinality(Done(p)) + Cardinality(Reservers(p))
                    /\ {s \in DOMAIN events[p].data : events[p].data[s] # 0}
                         = UNION ({g.seats : g \in Done(p)} \cup
                                  {SeatsTaken(t) : t \in Reservers(p)})
  <2>1. \A p : Reservers(p) = {t \in Threads : Reserving(t, p)}
    BY DEF Reservers, Reserving, Busy
  <2> QED
    BY <2>1 DEF SeatsAreAccountedFor, Done
<1>1. DOMAIN events[p].data = Seats(events[p])
  BY EventFacts DEF IInv, Typed
<1>2. \A s \in Seats(events[p]) : events[p].data[s] # 0 =>
        \/ \E g \in Done(p) : s \in g.seats
        \/ \E t \in Reservers(p) : s \in SeatsTaken(t)
  BY DEF IInv, Held, SeatsOwned, Done, Reservers
<1>3. \A g \in Done(p) : \A s \in g.seats :
        s \in Seats(events[p]) /\ events[p].data[s] # 0
  BY DEF IInv, Granted, GrantsTyped, GrantsHold, Done
<1>4. \A t \in Reservers(p) : \A s \in SeatsTaken(t) :
        s \in Seats(events[p]) /\ events[p].data[s] # 0
  BY DEF IInv, Held, SeatsHeld, Reservers
<1>5. {s \in DOMAIN events[p].data : events[p].data[s] # 0}
        = UNION ({g.seats : g \in Done(p)} \cup {SeatsTaken(t) : t \in Reservers(p)})
  BY <1>1, <1>2, <1>3, <1>4
<1> QED
  BY <1>5 DEF IInv, CountersMatch

-----------------------------------------------------------------------------
(* LIST while events are appended.                                           *)

Prefix(b, es) ==
  /\ b \in Seq(EventIds) /\ Len(b) <= Len(es)
  /\ \A j \in DOMAIN b : b[j] = es[j].id

Texts == SeatMaps \cup Seq(EventIds)
Outputs == [op : {"show", "list"}, text : Texts]

(* What a thread has written down so far is the list up to its node, ...     *)
Walk(t) ==
  /\ pc[t] = "node" => Prefix(buf[t], events) /\ Len(buf[t]) = ev[t] - 1
  /\ pc[t] = "print" =>
       call[t].op \in {"show", "list"} /\ (call[t].op = "list" => Prefix(buf[t], events))

(* ... and so is every line that it wrote out.                               *)
LinesTyped == out \in Seq(Outputs) /\ buf \in [Threads -> Texts]
LinesArePrefixes == \A n \in DOMAIN out : out[n].op = "list" => Prefix(out[n].text, events)
ListsInv == LinesTyped /\ (\A t \in Threads : Walk(t)) /\ LinesArePrefixes

LEMMA PrefixStays ==
  ASSUME Typed, EventsTyped', ListGrows
  PROVE  \A b : Prefix(b, events) => Prefix(b, events')
<1> SUFFICES ASSUME NEW b, Prefix(b, events) PROVE Prefix(b, events')
  OBVIOUS
<1>1. /\ DOMAIN events = 1 .. Len(events) /\ Len(events) \in Nat
      /\ DOMAIN events' = 1 .. Len(events') /\ Len(events') \in Nat
      /\ DOMAIN b = 1 .. Len(b) /\ Len(b) \in Nat
  BY LenProperties DEF Typed, EventsTyped, Prefix
<1>2. Len(events) <= Len(events')
  BY <1>1 DEF ListGrows
<1>3. \A j \in DOMAIN b : b[j] = events'[j].id
  BY <1>1 DEF Prefix, ListGrows, SameSize
<1> QED
  BY <1>1, <1>2, <1>3 DEF Prefix

LEMMA AppendOutput ==
  ASSUME LinesTyped, LinesArePrefixes, \A b : Prefix(b, events) => Prefix(b, events'),
         NEW o \in Outputs, o.op = "list" => Prefix(o.text, events'), out' = Append(out, o)
  PROVE  out' \in Seq(Outputs) /\ LinesArePrefixes'
<1>1. /\ out' \in Seq(Outputs) /\ Len(out') = Len(out) + 1
      /\ \A n \in 1 .. Len(out) : out'[n] = out[n]
      /\ out'[Len(out) + 1] = o
  BY AppendProperties DEF LinesTyped
<1>2. /\ DOMAIN out = 1 .. Len(out) /\ Len(out) \in Nat
      /\ DOMAIN out' = 1 .. Len(out) + 1
  BY <1>1, LenProperties DEF LinesTyped
<1>3. ASSUME NEW n \in DOMAIN out', out'[n].op = "list"
      PROVE  Prefix(out'[n].text, events')
  <2>1. CASE n = Len(out) + 1
    BY <1>1, <1>3, <2>1
  <2>2. CASE n \in DOMAIN out
    BY <1>1, <1>2, <1>3, <2>2 DEF LinesArePrefixes
  <2> QED
    BY <1>2, <2>1, <2>2
<1> QED
  BY <1>1, <1>3 DEF LinesArePrefixes

(* Steps that write nothing out. *)
LEMMA LinesStay ==
  ASSUME LinesTyped, LinesArePrefixes, \A b : Prefix(b, events) => Prefix(b, events'), out' = out
  PROVE  out' \in Seq(Outputs) /\ LinesArePrefixes'
  BY DEF LinesTyped, LinesArePrefixes

LEMMA OthersWalk ==
  ASSUME Typed, ListsInv, NEW t \in Threads, Acts(t), buf' = [buf EXCEPT ![t] = buf'[t]],
         \A b : Prefix(b, events) => Prefix(b, events')
  PROVE  \A u \in Threads : u # t => Walk(u)'
<1> SUFFICES ASSUME NEW u \in Threads, u # t PROVE Walk(u)'
  OBVIOUS
<1>1. pc'[u] = pc[u] /\ call'[u] = call[u] /\ ev'[u] = ev[u] /\ buf'[u] = buf[u]
  BY StepIsLocal DEF OthersWait, ListsInv, LinesTyped
<1>2. Walk(u)
  BY DEF ListsInv
<1> QED
  BY <1>1, <1>2 DEF Walk

(* Steps that neither write nor walk.                                        *)
Silent(t) ==
  \/ CreateMark(t) \/ CreateNoMemory(t) \/ CreateAppend(t)
  \/ ReserveFind(t) \/ ReserveCount(t) \/ TakeSeat(t) \/ RefuseSeat(t)
  \/ ReserveDone(t) \/ Rollback(t) \/ ShowFind(t) \/ PrintNoMemory(t) \/ Begins(t)

LEMMA SilentStep ==
  ASSUME Typed, NEW t \in Threads, Silent(t)
  PROVE  UNCHANGED <<out, buf>> /\ pc'[t] \notin {"node", "print"}
<1> USE DEF Typed, LocalsTyped, Goto, Return, locals, store
<1>1. CASE CreateMark(t) \/ CreateNoMemory(t) \/ CreateAppend(t)
  BY <1>1 DEF CreateMark, CreateNoMemory, CreateAppend
<1>2. CASE ReserveFind(t) \/ ShowFind(t)
  BY <1>2 DEF ReserveFind, ShowFind, Find
<1>3. CASE ReserveCount(t)
  BY <1>3 DEF ReserveCount
<1>4. CASE TakeSeat(t) \/ RefuseSeat(t)
  BY <1>4 DEF TakeSeat, RefuseSeat
<1>5. CASE ReserveDone(t) \/ Rollback(t)
  BY <1>5 DEF ReserveDone, Rollback
<1>6. CASE PrintNoMemory(t)
  BY <1>6 DEF PrintNoMemory
<1>7. CASE Begins(t)
  <2>1. PICK c \in Calls : Call(t, c)
    BY <1>7 DEF Begins
  <2> QED
    BY <2>1, CallAssumption DEF Call
<1> QED
  BY <1>1, <1>2, <1>3, <1>4, <1>5, <1>6, <1>7 DEF Silent

(* What a step that writes or walks does to its own thread.                  *)
Walked(t) ==
  /\ buf' \in [Threads -> Texts] /\ buf' = [buf EXCEPT ![t] = buf'[t]]
  /\ Walk(t)'
  /\ out' \in Seq(Outputs) /\ LinesArePrefixes'

LEMMA EmptyPrefix == ASSUME EventsTyped PROVE Prefix(<<>>, events) /\ Len(<<>>) = 0
<1>1. Len(events) \in Nat
  BY LenProperties DEF EventsTyped
<1>2. <<>> \in Seq(EventIds) /\ Len(<<>>) = 0 /\ DOMAIN <<>> = {}
  BY EmptySeq
<1> QED
  BY <1>1, <1>2 DEF Prefix

LEMMA ShowWalks ==
  ASSUME Typed, ListsInv, NEW t \in Threads, ShowCopy(t)
  PROVE  Walked(t)
<1>1. ev[t] \in DOMAIN events /\ call[t].op = "show"
  BY DEF ShowCopy, Typed, EventsFound, CallsFit, InCall
<1>2. events[ev[t]].data \in Texts
  BY <1>1, EventFacts DEF Typed, Event, Texts
<1>3. /\ buf' = [buf EXCEPT ![t] = events[ev[t]].data] /\ UNCHANGED <<events, out>>
      /\ pc'[t] = "print" /\ call'[t].op = "show"
  BY <1>1 DEF ShowCopy, Goto, store, Typed, LocalsTyped
<1>4. buf' \in [Threads -> Texts] /\ buf' = [buf EXCEPT ![t] = buf'[t]]
  BY <1>2, <1>3 DEF ListsInv, LinesTyped
<1>5. Walk(t)'
  BY <1>3 DEF Walk
<1>6. out' \in Seq(Outputs) /\ LinesArePrefixes'
  BY <1>3, LinesStay DEF ListsInv
<1> QED
  BY <1>4, <1>5, <1>6 DEF Walked

LEMMA WriteWalks ==
  ASSUME Typed, ListsInv, NEW t \in Threads, WriteOut(t)
  PROVE  Walked(t)
<1>1. Walk(t) /\ pc[t] = "print" /\ buf[t] \in Texts
  BY DEF WriteOut, ListsInv, LinesTyped
<1>2. Printed(t) \in Outputs /\ (Printed(t).op = "list" => Prefix(Printed(t).text, events))
  BY <1>1 DEF Walk, Printed, Outputs
<1>3. /\ out' = Append(out, Printed(t)) /\ UNCHANGED <<events, buf>> /\ pc'[t] = "idle"
  BY DEF WriteOut, Return, Goto, locals, Typed, LocalsTyped
<1>4. out' \in Seq(Outputs) /\ LinesArePrefixes'
  BY <1>2, <1>3, AppendOutput DEF ListsInv
<1>5. buf' \in [Threads -> Texts] /\ buf' = [buf EXCEPT ![t] = buf'[t]]
  BY <1>3 DEF ListsInv, LinesTyped
<1> QED
  BY <1>3, <1>4, <1>5 DEF Walked, Walk

LEMMA HeadWalks ==
  ASSUME Typed, ListsInv, NEW t \in Threads, ListHead(t)
  PROVE  Walked(t)
<1> DEFINE line == [op |-> "list", text |-> <<>>]
<1>1. Prefix(<<>>, events) /\ Len(<<>>) = 0 /\ <<>> \in Texts
  BY EmptyPrefix, EmptySeq DEF Typed, Texts
<1>2. /\ buf' = [buf EXCEPT ![t] = <<>>] /\ UNCHANGED events
      /\ ev'[t] = 1 /\ pc'[t] # "print"
      /\ out' = Append(out, line) \/ out' = out
  BY DEF ListHead, Return, Goto, Typed, LocalsTyped
<1>3. buf' \in [Threads -> Texts] /\ buf' = [buf EXCEPT ![t] = buf'[t]] /\ buf'[t] = <<>>
  BY <1>1, <1>2 DEF ListsInv, LinesTyped
<1>4. Walk(t)'
  BY <1>1, <1>2, <1>3 DEF Walk
<1>5. out' \in Seq(Outputs) /\ LinesArePrefixes'
  <2>1. line \in Outputs /\ line.op = "list" /\ line.text = <<>>
    BY <1>1 DEF Outputs
  <2> HIDE DEF line
  <2>2. CASE out' = Append(out, line)
    BY <1>1, <1>2, <2>1, <2>2, AppendOutput DEF ListsInv
  <2>3. CASE out' = out
    BY <1>2, <2>3, LinesStay DEF ListsInv
  <2> QED
    BY <1>2, <2>2, <2>3
<1> QED
  BY <1>3, <1>4, <1>5 DEF Walked

LEMMA NodeWalks ==
  ASSUME Typed, ListsInv, NEW t \in Threads, ListNode(t)
  PROVE  Walked(t)
<1> DEFINE b == Append(buf[t], events[ev[t]].id)
<1>1. /\ Prefix(buf[t], events) /\ Len(buf[t]) = ev[t] - 1
      /\ ev[t] \in DOMAIN events /\ call[t].op = "list"
  BY DEF ListNode, ListsInv, Walk, Typed, EventsFound, CallsFit, InCall
<1>2. /\ DOMAIN events = 1 .. Len(events) /\ Len(events) \in Nat
      /\ events[ev[t]].id \in EventIds /\ buf[t] \in Seq(EventIds)
  BY <1>1, EventFacts, LenProperties DEF Typed, EventsTyped, Event, Prefix
<1>3. /\ b \in Seq(EventIds) /\ Len(b) = ev[t]
      /\ \A j \in 1 .. ev[t] - 1 : b[j] = buf[t][j]
      /\ b[ev[t]] = events[ev[t]].id
      /\ DOMAIN b = 1 .. ev[t] /\ DOMAIN buf[t] = 1 .. ev[t] - 1
  BY <1>1, <1>2, AppendProperties, LenProperties
<1>4. /\ buf' = [buf EXCEPT ![t] = b] /\ UNCHANGED <<events, out, call>>
      /\ ev'[t] = ev[t] + 1
  BY DEF ListNode, store, Typed, LocalsTyped
<1> HIDE DEF b
<1>5. Prefix(b, events)
  <2>1. Len(b) <= Len(events)
    BY <1>1, <1>2, <1>3
  <2>2. \A j \in 1 .. ev[t] - 1 : b[j] = events[j].id
    BY <1>1, <1>3 DEF Prefix
  <2>3. \A j \in 1 .. ev[t] : j \in 1 .. ev[t] - 1 \/ j = ev[t]
    BY <1>1, <1>2
  <2>4. \A j \in DOMAIN b : b[j] = events[j].id
    BY <1>3, <2>2, <2>3
  <2> QED
    BY <1>3, <2>1, <2>4 DEF Prefix
<1>6. /\ buf' \in [Threads -> Texts] /\ buf' = [buf EXCEPT ![t] = buf'[t]] /\ buf'[t] = b
  BY <1>3, <1>4 DEF ListsInv, LinesTyped, Texts
<1>7. Walk(t)'
  BY <1>1, <1>3, <1>4, <1>5, <1>6 DEF Walk
<1>8. out' \in Seq(Outputs) /\ LinesArePrefixes'
  BY <1>4, LinesStay DEF ListsInv
<1> QED
  BY <1>6, <1>7, <1>8 DEF Walked

LEMMA ListsStep ==
  ASSUME Typed, ListsInv, NEW t \in Threads, Acts(t)
  PROVE  ListsInv'
<1>1. \A b : Prefix(b, events) => Prefix(b, events')
  BY StepGrowsList, PrefixStays
<1>2. Walked(t)
  <2>1. CASE Silent(t)
    <3>1. UNCHANGED <<out, buf>> /\ pc'[t] \notin {"node", "print"}
      BY <2>1, SilentStep
    <3>2. out' \in Seq(Outputs) /\ LinesArePrefixes'
      BY <1>1, <3>1, LinesStay DEF ListsInv
    <3> QED
      BY <3>1, <3>2 DEF Walked, Walk, ListsInv, LinesTyped
  <2>2. CASE ~Silent(t)
    BY <2>2, ShowWalks, WriteWalks, HeadWalks, NodeWalks DEF Acts, Quiet, Silent
  <2> QED
    BY <2>1, <2>2
<1>3. \A u \in Threads : u # t => Walk(u)'
  BY <1>1, <1>2, OthersWalk DEF Walked
<1> QED
  BY <1>2, <1>3 DEF Walked, ListsInv, LinesTyped

LEMMA ListsHold == OpenSpec => []ListsInv
<1>1. StoreInit => ListsInv
  <2> SUFFICES ASSUME StoreInit PROVE ListsInv
    OBVIOUS
  <2>1. /\ out = <<>> /\ buf = [t \in Threads |-> <<>>] /\ pc = [t \in Threads |-> "idle"]
    BY DEF StoreInit
  <2>2. LinesTyped /\ LinesArePrefixes
    BY <2>1, EmptySeq DEF LinesTyped, LinesArePrefixes, Texts
  <2> QED
    BY <2>1, <2>2 DEF ListsInv, Walk
<1>2. IInv /\ ListsInv /\ [OpenNext]_steps => ListsInv'
  <2>1. ASSUME IInv, ListsInv, OpenNext
        PROVE  ListsInv'
    BY <2>1, NextActs, ListsStep DEF IInv
  <2>2. ASSUME ListsInv, UNCHANGED steps
        PROVE  ListsInv'
    BY <2>2 DEF steps, store, locals, ListsInv, LinesTyped, LinesArePrefixes, Walk
  <2> QED
    BY <2>1, <2>2
<1> QED
  BY <1>1, <1>2, IInvHolds, PTL DEF OpenSpec

LEMMA InvLists == ListsInv => ListsArePrefixes
<1> SUFFICES ASSUME ListsInv, NEW n \in DOMAIN out, out[n].op = "list"
             PROVE  /\ Len(out[n].text) <= Len(events)
                    /\ \A j \in DOMAIN out[n].text : out[n].text[j] = events[j].id
  BY DEF ListsArePrefixes
<1> QED
  BY DEF ListsInv, LinesArePrefixes, Prefix

-----------------------------------------------------------------------------
(* What the store promises, whoever calls it and however often. *)

Safe == TypeOK /\ GrantsHold /\ GrantsAreDisjoint /\ SeatsAreAccountedFor /\ ListsArePrefixes

(* Any number of threads may call the store at any time, any number of times *)
(* (operations.c:77-345): no call breaks what the others rely on.            *)
THEOREM StoreIsSafe == OpenSpec => []Safe
<1>1. IInv /\ ListsInv => Safe
  BY InvTypes, InvGrants, InvDisjoint, InvAccounts, InvLists DEF Safe
<1> QED
  BY <1>1, IInvHolds, ListsHold, PTL

(* Every variable has its type, and a thread in the middle of a call works   *)
(* on an event of the list, never past the end of its request               *)
(* (operations.c:132-190, 193-240).                                          *)
THEOREM TypeIsKept == Spec => []TypeOK
<1>1. Safe => TypeOK
  BY DEF Safe
<1> QED
  BY <1>1, BoundedIsOpen, StoreIsSafe, PTL

(* A completed reservation keeps all its seats for ever: what another one    *)
(* takes or gives back (operations.c:153-183) is never among them.           *)
THEOREM GrantsAreKept == Spec => []GrantsHold
<1>1. Safe => GrantsHold
  BY DEF Safe
<1> QED
  BY <1>1, BoundedIsOpen, StoreIsSafe, PTL

(* No seat is sold twice, although ems_reserve takes and releases the        *)
(* event's lock for every seat (operations.c:153-172).                       *)
THEOREM NoSeatIsSoldTwice == Spec => []GrantsAreDisjoint
<1>1. Safe => GrantsAreDisjoint
  BY DEF Safe
<1> QED
  BY <1>1, BoundedIsOpen, StoreIsSafe, PTL

(* Every seat that is not free belongs to a reservation that was completed   *)
(* or is under way, and reservations counts those: one that is given up      *)
(* (operations.c:174-186) leaves nothing behind.                             *)
THEOREM NothingIsLeftBehind == Spec => []SeatsAreAccountedFor
<1>1. Safe => SeatsAreAccountedFor
  BY DEF Safe
<1> QED
  BY <1>1, BoundedIsOpen, StoreIsSafe, PTL

(* Every line of LIST names the events in the order they were created and    *)
(* leaves none out in between, although ems_list_events walks the list       *)
(* without holding its mutex (operations.c:307-342).                         *)
THEOREM EveryListIsAPrefix == Spec => []ListsArePrefixes
<1>1. Safe => ListsArePrefixes
  BY DEF Safe
<1> QED
  BY <1>1, BoundedIsOpen, StoreIsSafe, PTL
=============================================================================
