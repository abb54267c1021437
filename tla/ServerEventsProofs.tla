------------------------- MODULE ServerEventsProofs -------------------------
(***************************************************************************)
(* Safety of the server's event store for every set of sessions, events    *)
(* and requests and any number of calls.                                   *)
(***************************************************************************)
EXTENDS ServerEvents, SequenceTheorems, WellFoundedInduction, TLAPS

SeatMaps == UNION {[0 .. n - 1 -> Nat] : n \in Int}
Event == [id : EventIds, rows : Nat, cols : Nat, reservations : Nat,
          data : SeatMaps, mutex : Threads \cup {NoThread}]

(* get_event finds an event exactly when there is one: a set of positions    *)
(* that is not empty has a smallest member.                                  *)
LEMMA SmallestPosition ==
  ASSUME NEW S \in SUBSET Nat, S # {}
  PROVE  \E p \in S : \A q \in S : p <= q
<1>1. \E p \in S : \A q \in S : ~(<<q, p>> \in OpToRel(<, Nat))
  BY NatLessThanWellFounded, WFMin
<1>2. \A p, q \in Nat : <<q, p>> \in OpToRel(<, Nat) <=> q < p
  BY DEF OpToRel
<1>3. PICK p \in S : \A q \in S : ~(<<q, p>> \in OpToRel(<, Nat))
  BY <1>1
<1>4. \A q \in S : ~(q < p)
  BY <1>2, <1>3
<1>5. \A q \in S : p <= q
  BY <1>4
<1> QED
  BY <1>5

LEMMA GetEvent ==
  ASSUME events \in Seq(Event), NEW id
  PROVE  /\ get_event(id) \in 0 .. Len(events)
         /\ get_event(id) # 0 => events[get_event(id)].id = id
         /\ get_event(id) = 0 => \A p \in DOMAIN events : events[p].id # id
<1> DEFINE hits == {p \in DOMAIN events : events[p].id = id}
<1>1. DOMAIN events = 1 .. Len(events) /\ Len(events) \in Nat
  BY LenProperties
<1>2. CASE hits = {}
  BY <1>1, <1>2 DEF get_event
<1>3. CASE hits # {}
  <2>1. \E p \in hits : \A q \in hits : p <= q
    <3>1. hits \in SUBSET Nat
      BY <1>1
    <3> HIDE DEF hits
    <3> QED
      BY <1>3, <3>1, SmallestPosition
  <2>2. get_event(id) = CHOOSE p \in hits : \A q \in hits : p <= q
    BY <1>3 DEF get_event
  <2>3. get_event(id) \in hits
    BY <2>1, <2>2
  <2> QED
    BY <1>1, <2>3
<1> QED
  BY <1>2, <1>3

(* Replacing one event of the list.                                          *)
LEMMA ReplaceEvent ==
  ASSUME events \in Seq(Event), NEW p \in DOMAIN events, NEW e \in Event,
         events' = [events EXCEPT ![p] = e]
  PROVE  /\ events' \in Seq(Event) /\ Len(events') = Len(events)
         /\ DOMAIN events' = DOMAIN events
         /\ events'[p] = e
         /\ \A q \in DOMAIN events : q # p => events'[q] = events[q]
<1>1. DOMAIN events = 1 .. Len(events) /\ Len(events) \in Nat
  BY LenProperties
<1> QED
  BY <1>1, ExceptSeq, LenProperties

LEMMA NewEventTyped ==
  ASSUME NEW id \in EventIds, NEW dim \in Dims
  PROVE  /\ NewEvent(id, dim) \in Event
         /\ <<NewEvent(id, dim).rows, NewEvent(id, dim).cols>> \in Dims
         /\ NewEvent(id, dim).id = id
         /\ NewEvent(id, dim).mutex = NoThread
         /\ NewEvent(id, dim).reservations = 0
         /\ NewEvent(id, dim).data = [s \in Seats(NewEvent(id, dim)) |-> 0]
         /\ NewEvent(id, dim).data \in [Seats(NewEvent(id, dim)) -> Nat]
<1>1. dim[1] \in Nat /\ dim[2] \in Nat /\ dim = <<dim[1], dim[2]>>
  BY RequestAssumption
<1>2. dim[1] * dim[2] \in Int
  BY <1>1
<1> DEFINE d == [i \in 0 .. dim[1] * dim[2] - 1 |-> 0]
<1>3. d \in [0 .. dim[1] * dim[2] - 1 -> Nat]
  OBVIOUS
<1>4. d \in SeatMaps
  BY <1>2, <1>3 DEF SeatMaps
<1> HIDE DEF d
<1>5. NewEvent(id, dim) = [id |-> id, rows |-> dim[1], cols |-> dim[2],
         reservations |-> 0, data |-> d, mutex |-> NoThread]
  BY DEF NewEvent, d
<1>6. NewEvent(id, dim) \in Event
  BY <1>1, <1>4, <1>5 DEF Event
<1>7. NewEvent(id, dim).rows = dim[1] /\ NewEvent(id, dim).cols = dim[2]
  BY <1>5
<1>8. /\ NewEvent(id, dim).data \in [Seats(NewEvent(id, dim)) -> Nat]
      /\ NewEvent(id, dim).data = [s \in Seats(NewEvent(id, dim)) |-> 0]
  BY <1>3, <1>5, <1>7 DEF Seats, d
<1> QED
  BY <1>1, <1>5, <1>6, <1>7, <1>8

-----------------------------------------------------------------------------
(* How each step changes the list.                                           *)

(* What no step changes about the events that are there.                     *)
EventsTyped ==
  /\ events \in Seq(Event)
  /\ \A p \in DOMAIN events : /\ <<events[p].rows, events[p].cols>> \in Dims
                              /\ events[p].data \in [Seats(events[p]) -> Nat]

(* A change of fields other than id, rows and cols keeps an event an event.  *)
LEMMA SetMutex ==
  ASSUME NEW e \in Event, NEW t \in Threads \cup {NoThread},
         NEW f, f = [e EXCEPT !.mutex = t]
  PROVE  /\ f \in Event /\ f.mutex = t
         /\ f.id = e.id /\ f.rows = e.rows /\ f.cols = e.cols
         /\ f.reservations = e.reservations /\ f.data = e.data
BY DEF Event

LEMMA CountReservation ==
  ASSUME NEW e \in Event, NEW f, f = [e EXCEPT !.reservations = @ + 1]
  PROVE  /\ f \in Event /\ f.mutex = e.mutex
         /\ f.id = e.id /\ f.rows = e.rows /\ f.cols = e.cols
         /\ f.reservations = e.reservations + 1 /\ f.data = e.data
BY DEF Event

LEMMA SetSeats ==
  ASSUME NEW e \in Event, NEW d \in [Seats(e) -> Nat],
         NEW f, f = [e EXCEPT !.data = d]
  PROVE  /\ f \in Event /\ f.mutex = e.mutex
         /\ f.id = e.id /\ f.rows = e.rows /\ f.cols = e.cols
         /\ f.reservations = e.reservations /\ f.data = d
<1>1. e.rows * e.cols \in Int
  BY DEF Event
<1>2. d \in SeatMaps
  BY <1>1 DEF SeatMaps, Seats
<1> QED
  BY <1>2 DEF Event

(* The event at p after a step is another event with the same size.          *)
SameEvent(p) ==
  /\ events'[p].id = events[p].id
  /\ events'[p].rows = events[p].rows /\ events'[p].cols = events[p].cols
OthersSame(p) == \A q \in DOMAIN events : q # p => events'[q] = events[q]

LEMMA EventFacts ==
  ASSUME EventsTyped, NEW p \in DOMAIN events
  PROVE  /\ events[p] \in Event
         /\ events[p].data \in [Seats(events[p]) -> Nat]
         /\ <<events[p].rows, events[p].cols>> \in Dims
<1>1. events[p] \in Event
  BY ElementOfSeq, LenProperties DEF EventsTyped
<1> QED
  BY <1>1 DEF EventsTyped

LEMMA OneEventTyped ==
  ASSUME EventsTyped, NEW p \in DOMAIN events, NEW e \in Event,
         e.rows = events[p].rows, e.cols = events[p].cols, e.id = events[p].id,
         e.data \in [Seats(events[p]) -> Nat],
         events' = [events EXCEPT ![p] = e]
  PROVE  /\ EventsTyped' /\ Len(events') = Len(events)
         /\ DOMAIN events' = DOMAIN events
         /\ events'[p] = e /\ SameEvent(p) /\ OthersSame(p)
<1>1. /\ events' \in Seq(Event) /\ Len(events') = Len(events)
      /\ DOMAIN events' = DOMAIN events
      /\ events'[p] = e
      /\ \A q \in DOMAIN events : q # p => events'[q] = events[q]
  BY ReplaceEvent DEF EventsTyped
<1>2. <<e.rows, e.cols>> \in Dims
  BY EventFacts
<1>3. e.data \in [Seats(e) -> Nat]
  BY DEF Seats
<1>4. \A q \in DOMAIN events' :
        /\ <<events'[q].rows, events'[q].cols>> \in Dims
        /\ events'[q].data \in [Seats(events'[q]) -> Nat]
  <2> TAKE q \in DOMAIN events'
  <2>1. CASE q = p
    BY <1>1, <1>2, <1>3, <2>1
  <2>2. CASE q # p
    BY <1>1, <2>2, EventFacts
  <2> QED
    BY <2>1, <2>2
<1>5. EventsTyped'
  BY <1>1, <1>4 DEF EventsTyped, Seats
<1> QED
  BY <1>1, <1>5 DEF SameEvent, OthersSame

LEMMA MutexStep ==
  ASSUME EventsTyped, NEW p \in DOMAIN events, NEW t \in Threads \cup {NoThread},
         events' = [events EXCEPT ![p].mutex = t]
  PROVE  /\ EventsTyped' /\ Len(events') = Len(events)
         /\ DOMAIN events' = DOMAIN events
         /\ SameEvent(p) /\ OthersSame(p)
         /\ events'[p].mutex = t /\ events'[p].data = events[p].data
         /\ events'[p].reservations = events[p].reservations
<1> DEFINE e == [events[p] EXCEPT !.mutex = t]
<1>1. events' = [events EXCEPT ![p] = e]
  OBVIOUS
<1>2. events[p] \in Event /\ events[p].data \in [Seats(events[p]) -> Nat]
  BY EventFacts
<1>3. /\ e \in Event /\ e.mutex = t /\ e.data = events[p].data
      /\ e.reservations = events[p].reservations
      /\ e.id = events[p].id /\ e.rows = events[p].rows /\ e.cols = events[p].cols
  BY <1>2, SetMutex
<1> HIDE DEF e
<1> QED
  BY <1>1, <1>2, <1>3, OneEventTyped

LEMMA CountStep ==
  ASSUME EventsTyped, NEW p \in DOMAIN events,
         events' = [events EXCEPT ![p].reservations = @ + 1]
  PROVE  /\ EventsTyped' /\ Len(events') = Len(events)
         /\ DOMAIN events' = DOMAIN events
         /\ SameEvent(p) /\ OthersSame(p)
         /\ events'[p].mutex = events[p].mutex /\ events'[p].data = events[p].data
         /\ events'[p].reservations = events[p].reservations + 1
<1> DEFINE e == [events[p] EXCEPT !.reservations = @ + 1]
<1>1. events' = [events EXCEPT ![p] = e]
  OBVIOUS
<1>2. events[p] \in Event /\ events[p].data \in [Seats(events[p]) -> Nat]
  BY EventFacts
<1>3. /\ e \in Event /\ e.mutex = events[p].mutex /\ e.data = events[p].data
      /\ e.reservations = events[p].reservations + 1
      /\ e.id = events[p].id /\ e.rows = events[p].rows /\ e.cols = events[p].cols
  BY <1>2, CountReservation
<1> HIDE DEF e
<1> QED
  BY <1>1, <1>2, <1>3, OneEventTyped

LEMMA StoreStep ==
  ASSUME EventsTyped, NEW p \in DOMAIN events, NEW s, NEW r \in Nat,
         events' = [events EXCEPT ![p].data[s] = r]
  PROVE  /\ EventsTyped' /\ Len(events') = Len(events)
         /\ DOMAIN events' = DOMAIN events
         /\ SameEvent(p) /\ OthersSame(p)
         /\ events'[p].mutex = events[p].mutex
         /\ events'[p].reservations = events[p].reservations
         /\ s \in Seats(events[p]) => events'[p].data[s] = r
         /\ \A x \in Seats(events[p]) : events'[p].data[x] \in {r, events[p].data[x]}
         /\ \A x \in Seats(events[p]) \ {s} : events'[p].data[x] = events[p].data[x]
<1> DEFINE d == [events[p].data EXCEPT ![s] = r]
           e == [events[p] EXCEPT !.data = d]
<1>1. events' = [events EXCEPT ![p] = e]
  OBVIOUS
<1>2. events[p] \in Event /\ d \in [Seats(events[p]) -> Nat]
  BY EventFacts
<1> HIDE DEF d
<1>3. /\ e \in Event /\ e.mutex = events[p].mutex /\ e.data = d
      /\ e.reservations = events[p].reservations
      /\ e.id = events[p].id /\ e.rows = events[p].rows /\ e.cols = events[p].cols
  BY <1>2, SetSeats
<1> HIDE DEF e
<1>4. /\ EventsTyped' /\ Len(events') = Len(events)
      /\ DOMAIN events' = DOMAIN events
      /\ events'[p] = e /\ SameEvent(p) /\ OthersSame(p)
  BY <1>1, <1>2, <1>3, OneEventTyped
<1>5. /\ s \in Seats(events[p]) => d[s] = r
      /\ \A x \in Seats(events[p]) : d[x] \in {r, events[p].data[x]}
      /\ \A x \in Seats(events[p]) \ {s} : d[x] = events[p].data[x]
  BY EventFacts DEF d
<1> QED
  BY <1>3, <1>4, <1>5

LEMMA AppendStep ==
  ASSUME EventsTyped, NEW id \in EventIds, NEW dim \in Dims,
         events' = Append(events, NewEvent(id, dim))
  PROVE  /\ EventsTyped' /\ Len(events') = Len(events) + 1
         /\ Len(events) \in Nat
         /\ DOMAIN events' = DOMAIN events \cup {Len(events) + 1}
         /\ Len(events) + 1 \notin DOMAIN events
         /\ \A q \in DOMAIN events : events'[q] = events[q]
         /\ events'[Len(events) + 1].id = id
         /\ events'[Len(events) + 1].mutex = NoThread
         /\ events'[Len(events) + 1].reservations = 0
         /\ events'[Len(events) + 1].data = [s \in Seats(events'[Len(events) + 1]) |-> 0]
<1> DEFINE e == NewEvent(id, dim)
<1>1. /\ e \in Event /\ <<e.rows, e.cols>> \in Dims
      /\ e.id = id /\ e.mutex = NoThread /\ e.data \in [Seats(e) -> Nat]
      /\ e.reservations = 0 /\ e.data = [s \in Seats(e) |-> 0]
  BY NewEventTyped
<1> HIDE DEF e
<1>2. /\ events' \in Seq(Event) /\ Len(events') = Len(events) + 1
      /\ \A q \in 1 .. Len(events) : events'[q] = events[q]
      /\ events'[Len(events) + 1] = e
  BY <1>1, AppendProperties DEF EventsTyped, e
<1>3. /\ DOMAIN events = 1 .. Len(events) /\ Len(events) \in Nat
      /\ DOMAIN events' = 1 .. Len(events) + 1
  BY <1>2, LenProperties DEF EventsTyped
<1>4. \A q \in DOMAIN events' :
        /\ <<events'[q].rows, events'[q].cols>> \in Dims
        /\ events'[q].data \in [Seats(events'[q]) -> Nat]
  <2> TAKE q \in DOMAIN events'
  <2>1. CASE q = Len(events) + 1
    BY <1>1, <1>2, <2>1
  <2>2. CASE q \in DOMAIN events
    BY <1>2, <1>3, <2>2, EventFacts
  <2> QED
    BY <1>3, <2>1, <2>2
<1>5. EventsTyped'
  BY <1>2, <1>4 DEF EventsTyped, Seats
<1> QED
  BY <1>1, <1>2, <1>3, <1>5

LEMMA UnlockAllStep ==
  ASSUME EventsTyped,
         events' = [p \in DOMAIN events |-> [events[p] EXCEPT !.mutex = NoThread]]
  PROVE  /\ EventsTyped' /\ Len(events') = Len(events)
         /\ DOMAIN events' = DOMAIN events
         /\ \A q \in DOMAIN events :
              /\ SameEvent(q) /\ events'[q].data = events[q].data
              /\ events'[q].reservations = events[q].reservations
<1>1. /\ DOMAIN events = 1 .. Len(events) /\ Len(events) \in Nat
  BY LenProperties DEF EventsTyped
<1>2. \A q \in DOMAIN events :
        /\ events'[q] \in Event /\ events'[q].data = events[q].data
        /\ events'[q].reservations = events[q].reservations
        /\ SameEvent(q)
  <2> TAKE q \in DOMAIN events
  <2>1. events[q] \in Event
    BY EventFacts
  <2>2. events'[q] = [events[q] EXCEPT !.mutex = NoThread]
    OBVIOUS
  <2> QED
    BY <2>1, <2>2, SetMutex DEF SameEvent
<1>3. events' \in [1 .. Len(events) -> Event]
  BY <1>1, <1>2
<1>4. events' \in Seq(Event) /\ Len(events') = Len(events)
  <2>1. DOMAIN events' = 1 .. Len(events)
    BY <1>1
  <2>2. events' \in Seq(Event)
    BY <1>1, <1>3
  <2> QED
    BY <1>1, <2>1, <2>2, LenProperties
<1>5. \A q \in DOMAIN events :
        /\ <<events'[q].rows, events'[q].cols>> \in Dims
        /\ events'[q].data \in [Seats(events'[q]) -> Nat]
  BY <1>2, EventFacts DEF SameEvent, Seats
<1> QED
  BY <1>1, <1>2, <1>3, <1>4, <1>5 DEF EventsTyped, Seats

LEMMA InitEvents ==
  ASSUME Init
  PROVE  /\ EventsTyped
         /\ \A p \in DOMAIN events : events[p].mutex = NoThread
         /\ \A p, q \in DOMAIN events : events[p].id = events[q].id => p = q
         /\ \A p \in DOMAIN events : /\ events[p].reservations = 0
                                     /\ events[p].data = [s \in Seats(events[p]) |-> 0]
<1>1. PICK l \in Preloaded :
        events = [i \in DOMAIN l |-> NewEvent(l[i][1], l[i][2])]
  BY DEF Init
<1>2. l \in Seq(EventIds \X Dims) /\ DOMAIN l = 1 .. Len(l) /\ Len(l) \in Nat
  BY PreloadedAssumption
<1>3. \A i \in DOMAIN l : l[i][1] \in EventIds /\ l[i][2] \in Dims
  BY <1>2, ElementOfSeq
<1>4. \A i \in DOMAIN l :
        /\ events[i] \in Event
        /\ <<events[i].rows, events[i].cols>> \in Dims
        /\ events[i].id = l[i][1] /\ events[i].mutex = NoThread
        /\ events[i].data \in [Seats(events[i]) -> Nat]
        /\ events[i].reservations = 0
        /\ events[i].data = [s \in Seats(events[i]) |-> 0]
  <2> TAKE i \in DOMAIN l
  <2> DEFINE e == NewEvent(l[i][1], l[i][2])
  <2>1. events[i] = e
    BY <1>1
  <2>2. /\ e \in Event /\ <<e.rows, e.cols>> \in Dims
        /\ e.id = l[i][1] /\ e.mutex = NoThread /\ e.reservations = 0
        /\ e.data \in [Seats(e) -> Nat] /\ e.data = [s \in Seats(e) |-> 0]
    BY <1>3, NewEventTyped
  <2> QED
    BY <2>1, <2>2
<1>5. DOMAIN events = DOMAIN l
  BY <1>1
<1>6. events \in [1 .. Len(l) -> Event]
  BY <1>1, <1>2, <1>4, <1>5
<1>7. events \in Seq(Event)
  BY <1>2, <1>6
<1>8. \A i, j \in DOMAIN l : i # j => l[i][1] # l[j][1]
  BY PreloadedAssumption
<1>9. \A p, q \in DOMAIN events : events[p].id = events[q].id => p = q
  <2> SUFFICES ASSUME NEW p \in DOMAIN events, NEW q \in DOMAIN events,
                      events[p].id = events[q].id
               PROVE  p = q
    OBVIOUS
  <2>1. events[p].id = l[p][1] /\ events[q].id = l[q][1]
    BY <1>4, <1>5
  <2> QED
    BY <1>5, <1>8, <2>1
<1> QED
  BY <1>4, <1>5, <1>7, <1>9 DEF EventsTyped

-----------------------------------------------------------------------------
(* The inductive invariant.                                                  *)

(* The rest of TypeOK, whose first conjunct EventsTyped implies.             *)
LocalsTyped ==
  /\ readers \in [Threads -> Nat]
  /\ writer \in Workers \cup {NoThread}
  /\ printer \in {Main, NoThread}
  /\ pc \in [Threads -> {"idle", "create", "append", "fail_list", "reserve",
                         "lock_event", "check", "write", "fail_event", "fail",
                         "show", "copy", "list", "lock_events", "print"}]
  /\ call \in [Threads -> Calls \cup {NoCall}]
  /\ ev \in [Threads -> 0 .. Len(events)]
  /\ k \in [Threads -> Nat]
  /\ rid \in [Threads -> Nat]
  /\ ret \in [Threads -> {-1, 0, 1}]
  /\ left \in [Threads -> 0 .. MaxCalls]

LEMMA TypeOKParts == EventsTyped /\ LocalsTyped => TypeOK
<1> SUFFICES ASSUME EventsTyped, LocalsTyped
             PROVE  TypeOK
  OBVIOUS
<1>1. \A p \in DOMAIN events :
        /\ events[p].id \in EventIds
        /\ <<events[p].rows, events[p].cols>> \in Dims
        /\ events[p].reservations \in Nat
        /\ events[p].data \in [Seats(events[p]) -> Nat]
        /\ events[p].mutex \in Threads \cup {NoThread}
  <2> TAKE p \in DOMAIN events
  <2>1. /\ events[p] \in Event
        /\ events[p].data \in [Seats(events[p]) -> Nat]
        /\ <<events[p].rows, events[p].cols>> \in Dims
    BY EventFacts
  <2> QED
    BY <2>1 DEF Event
<1> QED
  BY <1>1 DEF TypeOK, LocalsTyped

CreateCalls  == [op : {"create"}, id : EventIds, dim : Dims]
ReserveCalls == [op : {"reserve"}, id : EventIds, seats : Requests]

(* A thread is where its call takes it.                                      *)
CallsFit ==
  /\ pc[Main] \in {"idle", "lock_events", "print"}
  /\ \A w \in Workers :
       /\ pc[w] \notin {"lock_events", "print"}
       /\ pc[w] \in {"create", "append"} => call[w] \in CreateCalls
       /\ pc[w] \in {"reserve", "lock_event", "check", "write", "fail_event"} =>
            call[w] \in ReserveCalls

(* A thread that goes on with an event has found one.                        *)
HasEvent(w) == pc[w] \in {"lock_event", "check", "write", "fail_event"}
FoundEvents == \A w \in Workers : HasEvent(w) => ev[w] \in DOMAIN events

(* ems_show_all holds the list's read lock.                                  *)
ReadsList == pc[Main] \in {"lock_events", "print"} => readers[Main] > 0

(* The list: its writer is the thread that may append, and is alone.         *)
ListIsLocked ==
  /\ \A w \in Workers : pc[w] \in {"append", "fail_list"} <=> writer = w
  /\ writer # NoThread => \A t \in Threads : readers[t] = 0

(* The events: a reservation in progress owns its event, ems_show_all those  *)
(* it has passed.                                                            *)
Inside(w) == pc[w] \in {"check", "write", "fail_event"}
EventsAreLocked ==
  /\ \A w \in Workers : Inside(w) => events[ev[w]].mutex = w
  /\ pc[Main] = "lock_events" => \A p \in DOMAIN events : p <= k[Main] => events[p].mutex = Main
  /\ pc[Main] = "print" => \A p \in DOMAIN events : events[p].mutex = Main

(* The id a thread is about to append is still new.                          *)
AppendedIsNew ==
  \A w \in Workers : pc[w] = "append" =>
    \A p \in DOMAIN events : events[p].id # call[w].id

(* The seats a thread has still to store to are seats of its event, and free *)
(* or its own: a request may name a seat twice.                              *)
SeatsAreFree ==
  \A w \in Workers : pc[w] = "write" =>
    \A i \in DOMAIN call[w].seats : i > k[w] =>
      LET s == seat_index(events[ev[w]], call[w].seats[i])
      IN  s \in Seats(events[ev[w]]) /\ events[ev[w]].data[s] \in {0, rid[w]}

Typed == EventsTyped /\ LocalsTyped /\ CallsFit /\ FoundEvents /\ ReadsList

-----------------------------------------------------------------------------
(* Every step keeps the types.                                               *)

ListGrows ==
  /\ EventsTyped' /\ Len(events') >= Len(events)
  /\ \A p \in DOMAIN events : p \in DOMAIN events' /\ SameEvent(p)

LEMMA ListUnchanged == EventsTyped /\ UNCHANGED events => ListGrows
<1> SUFFICES ASSUME EventsTyped, UNCHANGED events
             PROVE  ListGrows
  OBVIOUS
<1>1. Len(events) \in Nat
  BY LenProperties DEF EventsTyped
<1> QED
  BY <1>1 DEF ListGrows, EventsTyped, SameEvent, Seats

LEMMA OneEventGrows ==
  ASSUME EventsTyped, EventsTyped', Len(events') = Len(events),
         DOMAIN events' = DOMAIN events, NEW p, SameEvent(p), OthersSame(p)
  PROVE  ListGrows
<1>1. Len(events) \in Nat
  BY LenProperties DEF EventsTyped
<1>2. \A q \in DOMAIN events : q \in DOMAIN events' /\ SameEvent(q)
  BY DEF OthersSame, SameEvent
<1> QED
  BY <1>1, <1>2 DEF ListGrows

LEMMA WorkerGrowsList ==
  ASSUME Typed, NEW w \in Workers, Call(w) \/ WorkerStep(w)
  PROVE  ListGrows
<1>1. EventsTyped /\ LocalsTyped /\ w \in Threads /\ Len(events) \in Nat
  BY LenProperties DEF Typed, EventsTyped, Threads
<1>2. HasEvent(w) => ev[w] \in DOMAIN events
  BY DEF Typed, FoundEvents
<1>3. CASE CreateAppend(w)
  <2>1. call[w].id \in EventIds /\ call[w].dim \in Dims
    BY <1>3 DEF CreateAppend, At, Typed, CallsFit, CreateCalls
  <2> QED
    BY <1>1, <1>3, <2>1, AppendStep DEF CreateAppend, SameEvent, ListGrows
<1>4. CASE ReserveLock(w)
  <2>1. ev[w] \in DOMAIN events /\ events' = [events EXCEPT ![ev[w]].mutex = w]
    BY <1>2, <1>4 DEF ReserveLock, At, HasEvent
  <2>2. /\ EventsTyped' /\ Len(events') = Len(events)
        /\ DOMAIN events' = DOMAIN events /\ SameEvent(ev[w]) /\ OthersSame(ev[w])
    BY <1>1, <2>1, MutexStep
  <2> QED
    BY <1>1, <2>2, OneEventGrows
<1>5. CASE ReserveCheck(w)
  <2>1. ev[w] \in DOMAIN events
    BY <1>2, <1>5 DEF ReserveCheck, At, HasEvent
  <2>2. \/ events' = [events EXCEPT ![ev[w]].reservations = @ + 1]
        \/ UNCHANGED events
    BY <1>5 DEF ReserveCheck
  <2>3. CASE UNCHANGED events
    BY <1>1, <2>3, ListUnchanged
  <2>4. CASE events' = [events EXCEPT ![ev[w]].reservations = @ + 1]
    <3>1. /\ EventsTyped' /\ Len(events') = Len(events)
          /\ DOMAIN events' = DOMAIN events /\ SameEvent(ev[w]) /\ OthersSame(ev[w])
      BY <1>1, <2>1, <2>4, CountStep
    <3> QED
      BY <1>1, <3>1, OneEventGrows
  <2> QED
    BY <2>2, <2>3, <2>4
<1>6. CASE ReserveWrite(w)
  <2> DEFINE s == seat_index(events[ev[w]], call[w].seats[k[w] + 1])
  <2>1. ev[w] \in DOMAIN events /\ rid[w] \in Nat
    BY <1>1, <1>2, <1>6 DEF ReserveWrite, At, HasEvent, LocalsTyped
  <2>2. events' = [events EXCEPT ![ev[w]].data[s] = rid[w]]
    BY <1>6 DEF ReserveWrite
  <2> HIDE DEF s
  <2>3. /\ EventsTyped' /\ Len(events') = Len(events)
        /\ DOMAIN events' = DOMAIN events /\ SameEvent(ev[w]) /\ OthersSame(ev[w])
    BY <1>1, <2>1, <2>2, StoreStep
  <2> QED
    BY <1>1, <2>3, OneEventGrows
<1>7. CASE ReserveUnlock(w) \/ FailEvent(w)
  <2>1. /\ ev[w] \in DOMAIN events
        /\ events' = [events EXCEPT ![ev[w]].mutex = NoThread]
    BY <1>2, <1>7 DEF ReserveUnlock, FailEvent, At, HasEvent
  <2>2. /\ EventsTyped' /\ Len(events') = Len(events)
        /\ DOMAIN events' = DOMAIN events /\ SameEvent(ev[w]) /\ OthersSame(ev[w])
    BY <1>1, <2>1, MutexStep
  <2> QED
    BY <1>1, <2>2, OneEventGrows
<1>8. CASE UNCHANGED events
  BY <1>1, <1>8, ListUnchanged
<1> QED
  BY <1>3, <1>4, <1>5, <1>6, <1>7, <1>8
  DEF Call, WorkerStep, CreateLock, CreateNoMemory, FailList, ReserveLookup, Lookup,
      Fail, NullReturn, ShowLookup, ShowNoMemory, ShowCopy, ShowReturn,
      ListAll, ListEmpty, ListNoMemory, shared

LEMMA MainGrowsList ==
  ASSUME Typed, ShowAll \/ MainStep
  PROVE  ListGrows
<1>1. EventsTyped /\ Len(events) \in Nat /\ DOMAIN events = 1 .. Len(events)
  BY LenProperties DEF Typed, EventsTyped
<1>2. CASE ShowAllLock
  <2> DEFINE p == k[Main] + 1
  <2>1. p \in DOMAIN events /\ Main \in Threads
    BY <1>1, <1>2 DEF ShowAllLock, Typed, LocalsTyped, Threads
  <2>2. events' = [events EXCEPT ![p].mutex = Main]
    BY <1>2 DEF ShowAllLock
  <2> HIDE DEF p
  <2>3. /\ EventsTyped' /\ Len(events') = Len(events)
        /\ DOMAIN events' = DOMAIN events /\ SameEvent(p) /\ OthersSame(p)
    BY <1>1, <2>1, <2>2, MutexStep
  <2> QED
    BY <1>1, <2>3, OneEventGrows
<1>3. CASE ShowAllUnlock
  BY <1>1, <1>3, UnlockAllStep DEF ShowAllUnlock, ListGrows
<1>4. CASE UNCHANGED events
  BY <1>1, <1>4, ListUnchanged
<1> QED
  BY <1>2, <1>3, <1>4 DEF ShowAll, MainStep, ShowAllPrint

LEMMA WorkerLocalsTyped ==
  ASSUME Typed, NEW w \in Workers, Call(w) \/ WorkerStep(w)
  PROVE  LocalsTyped'
<1>1. /\ LocalsTyped /\ w \in Threads /\ Len(events) \in Nat
      /\ ListGrows /\ Len(events') \in Nat
  BY WorkerGrowsList, LenProperties DEF Typed, EventsTyped, ListGrows, Threads
<1>2. ev \in [Threads -> 0 .. Len(events')]
  BY <1>1 DEF LocalsTyped, ListGrows
<1> USE DEF Goto, Return, At, shared, locals
<1>3. CASE Call(w)
  <2>1. PICK c \in Calls : /\ call' = [call EXCEPT ![w] = c] /\ Goto(w, c.op)
                           /\ left' = [left EXCEPT ![w] = @ - 1]
    BY <1>3 DEF Call
  <2>2. c.op \in {"create", "reserve", "show", "list"}
    BY DEF Calls
  <2>3. pc' = [pc EXCEPT ![w] = c.op]
    BY <2>1
  <2>4. left[w] \in 1 .. MaxCalls /\ MaxCalls \in Nat
    BY <1>1, <1>3, BoundAssumption DEF Call, LocalsTyped
  <2>5. left' \in [Threads -> 0 .. MaxCalls]
    BY <1>1, <2>1, <2>4 DEF LocalsTyped
  <2>6. call' \in [Threads -> Calls \cup {NoCall}]
    BY <1>1, <2>1 DEF LocalsTyped
  <2> QED
    BY <1>1, <1>2, <1>3, <2>2, <2>3, <2>5, <2>6 DEF LocalsTyped, Call
<1>4. CASE CreateLock(w)
  BY <1>1, <1>2, <1>4 DEF LocalsTyped, CreateLock
<1>5. CASE CreateAppend(w)
  BY <1>1, <1>2, <1>5 DEF LocalsTyped, CreateAppend
<1>6. CASE CreateNoMemory(w)
  BY <1>1, <1>2, <1>6 DEF LocalsTyped, CreateNoMemory
<1>7. CASE FailList(w)
  BY <1>1, <1>2, <1>7 DEF LocalsTyped, FailList
<1>8. CASE ReserveLookup(w)
  <2>1. get_event(call[w].id) \in 0 .. Len(events')
    BY <1>1, GetEvent DEF Typed, EventsTyped, ListGrows
  <2> QED
    BY <1>1, <1>2, <1>8, <2>1 DEF LocalsTyped, ReserveLookup, Lookup
<1>9. CASE ReserveLock(w)
  BY <1>1, <1>2, <1>9 DEF LocalsTyped, ReserveLock
<1>10. CASE ReserveCheck(w)
  <2> DEFINE n == events[ev[w]].reservations + 1
  <2>1. n \in Nat
    <3>1. events[ev[w]] \in Event
      BY <1>10, EventFacts DEF ReserveCheck, Typed, FoundEvents, HasEvent
    <3> QED
      BY <3>1 DEF Event
  <2>2. rid' \in [Threads -> Nat] /\ k' \in [Threads -> Nat]
    <3>1. \/ rid' = [rid EXCEPT ![w] = n] /\ k' = [k EXCEPT ![w] = 0]
          \/ UNCHANGED <<rid, k>>
      BY <1>10 DEF ReserveCheck
    <3>2. rid \in [Threads -> Nat] /\ k \in [Threads -> Nat]
      BY <1>1 DEF LocalsTyped
    <3> HIDE DEF n
    <3> QED
      BY <2>1, <3>1, <3>2
  <2>3. \/ Goto(w, "write") \/ Goto(w, "fail_event")
    BY <1>10 DEF ReserveCheck
  <2> QED
    BY <1>1, <1>2, <1>10, <2>2, <2>3 DEF LocalsTyped, ReserveCheck
<1>11. CASE ReserveWrite(w)
  BY <1>1, <1>2, <1>11 DEF LocalsTyped, ReserveWrite
<1>12. CASE ReserveUnlock(w)
  BY <1>1, <1>2, <1>12 DEF LocalsTyped, ReserveUnlock
<1>13. CASE FailEvent(w)
  BY <1>1, <1>2, <1>13 DEF LocalsTyped, FailEvent
<1>14. CASE Fail(w)
  BY <1>1, <1>2, <1>14 DEF LocalsTyped, Fail
<1>15. CASE NullReturn(w)
  BY <1>1, <1>2, <1>15 DEF LocalsTyped, NullReturn
<1>16. CASE ShowLookup(w)
  <2>1. get_event(call[w].id) \in 0 .. Len(events')
    BY <1>1, GetEvent DEF Typed, EventsTyped, ListGrows
  <2> QED
    BY <1>1, <1>2, <1>16, <2>1 DEF LocalsTyped, ShowLookup, Lookup
<1>17. CASE ShowNoMemory(w)
  BY <1>1, <1>2, <1>17 DEF LocalsTyped, ShowNoMemory
<1>18. CASE ShowCopy(w)
  BY <1>1, <1>2, <1>18 DEF LocalsTyped, ShowCopy
<1>19. CASE ShowReturn(w)
  BY <1>1, <1>2, <1>19 DEF LocalsTyped, ShowReturn
<1>20. CASE ListAll(w)
  BY <1>1, <1>2, <1>20 DEF LocalsTyped, ListAll
<1>21. CASE ListEmpty(w)
  BY <1>1, <1>2, <1>21 DEF LocalsTyped, ListEmpty, KeepReadLock
<1>22. CASE ListNoMemory(w)
  BY <1>1, <1>2, <1>22 DEF LocalsTyped, ListNoMemory, KeepReadLock
<1> QED
  BY <1>3, <1>4, <1>5, <1>6, <1>7, <1>8, <1>9, <1>10, <1>11, <1>12, <1>13, <1>14, <1>15, <1>16, <1>17, <1>18, <1>19, <1>20, <1>21, <1>22 DEF WorkerStep

LEMMA MainLocalsTyped ==
  ASSUME Typed, ShowAll \/ MainStep
  PROVE  LocalsTyped'
<1>1. /\ LocalsTyped /\ Main \in Threads /\ Len(events) \in Nat
      /\ ListGrows /\ Len(events') \in Nat
  BY MainGrowsList, LenProperties DEF Typed, EventsTyped, ListGrows, Threads
<1>2. ev \in [Threads -> 0 .. Len(events')]
  BY <1>1 DEF LocalsTyped, ListGrows
<1> USE DEF Goto, Return, At, shared, locals
<1>3. CASE ShowAll
  <2>1. left[Main] \in 1 .. MaxCalls /\ MaxCalls \in Nat
    BY <1>1, <1>3, BoundAssumption DEF ShowAll, LocalsTyped
  <2> QED
    BY <1>1, <1>2, <1>3, <2>1 DEF LocalsTyped, ShowAll, KeepReadLock
<1>4. CASE ShowAllLock
  BY <1>1, <1>2, <1>4 DEF LocalsTyped, ShowAllLock
<1>5. CASE ShowAllPrint
  BY <1>1, <1>2, <1>5 DEF LocalsTyped, ShowAllPrint
<1>6. CASE ShowAllUnlock
  <2>1. readers[Main] \in Nat /\ readers[Main] > 0
    BY <1>1, <1>6 DEF LocalsTyped, ShowAllUnlock, Typed, CallsFit, ReadsList
  <2> QED
    BY <1>1, <1>2, <1>6, <2>1 DEF LocalsTyped, ShowAllUnlock
<1> QED
  BY <1>3, <1>4, <1>5, <1>6 DEF MainStep

(* A worker's step moves that worker only; no worker is in ems_show_all.     *)
LEMMA WorkerCallsFit ==
  ASSUME Typed, NEW w \in Workers, Call(w) \/ WorkerStep(w)
  PROVE  /\ CallsFit' /\ pc'[Main] = pc[Main]
         /\ \A v \in Workers \ {w} : pc'[v] = pc[v] /\ call'[v] = call[v]
<1>1. /\ LocalsTyped /\ CallsFit /\ w \in Threads /\ Main \in Threads /\ w # Main
      /\ \A v \in Workers : v \in Threads
  BY ThreadAssumption DEF Typed, Threads
<1> USE DEF Goto, Return, At, shared, locals
<1>2. CASE Call(w)
  <2>1. PICK c \in Calls : call' = [call EXCEPT ![w] = c] /\ Goto(w, c.op)
    BY <1>2 DEF Call
  <2>2. /\ c.op \in {"create", "reserve", "show", "list"}
        /\ c.op = "create" => c \in CreateCalls
        /\ c.op = "reserve" => c \in ReserveCalls
    BY DEF Calls, CreateCalls, ReserveCalls
  <2>3. /\ pc'[w] = c.op /\ call'[w] = c
        /\ \A v \in Threads \ {w} : pc'[v] = pc[v] /\ call'[v] = call[v]
    BY <1>1, <2>1 DEF LocalsTyped
  <2> QED
    BY <1>1, <2>2, <2>3 DEF CallsFit
<1>3. CASE CreateLock(w)
  BY <1>1, <1>3 DEF LocalsTyped, CallsFit, CreateLock
<1>4. CASE CreateAppend(w)
  BY <1>1, <1>4 DEF LocalsTyped, CallsFit, CreateAppend
<1>5. CASE CreateNoMemory(w)
  BY <1>1, <1>5 DEF LocalsTyped, CallsFit, CreateNoMemory
<1>6. CASE FailList(w)
  BY <1>1, <1>6 DEF LocalsTyped, CallsFit, FailList
<1>7. CASE ReserveLookup(w)
  BY <1>1, <1>7 DEF LocalsTyped, CallsFit, ReserveLookup, Lookup
<1>8. CASE ReserveLock(w)
  BY <1>1, <1>8 DEF LocalsTyped, CallsFit, ReserveLock
<1>9. CASE ReserveCheck(w)
  BY <1>1, <1>9 DEF LocalsTyped, CallsFit, ReserveCheck
<1>10. CASE ReserveWrite(w)
  BY <1>1, <1>10 DEF LocalsTyped, CallsFit, ReserveWrite
<1>11. CASE ReserveUnlock(w)
  BY <1>1, <1>11 DEF LocalsTyped, CallsFit, ReserveUnlock
<1>12. CASE FailEvent(w)
  BY <1>1, <1>12 DEF LocalsTyped, CallsFit, FailEvent
<1>13. CASE Fail(w)
  BY <1>1, <1>13 DEF LocalsTyped, CallsFit, Fail
<1>14. CASE NullReturn(w)
  BY <1>1, <1>14 DEF LocalsTyped, CallsFit, NullReturn
<1>15. CASE ShowLookup(w)
  BY <1>1, <1>15 DEF LocalsTyped, CallsFit, ShowLookup, Lookup
<1>16. CASE ShowNoMemory(w)
  BY <1>1, <1>16 DEF LocalsTyped, CallsFit, ShowNoMemory
<1>17. CASE ShowCopy(w)
  BY <1>1, <1>17 DEF LocalsTyped, CallsFit, ShowCopy
<1>18. CASE ShowReturn(w)
  BY <1>1, <1>18 DEF LocalsTyped, CallsFit, ShowReturn
<1>19. CASE ListAll(w)
  BY <1>1, <1>19 DEF LocalsTyped, CallsFit, ListAll
<1>20. CASE ListEmpty(w)
  BY <1>1, <1>20 DEF LocalsTyped, CallsFit, ListEmpty
<1>21. CASE ListNoMemory(w)
  BY <1>1, <1>21 DEF LocalsTyped, CallsFit, ListNoMemory
<1> QED
  BY <1>2, <1>3, <1>4, <1>5, <1>6, <1>7, <1>8, <1>9, <1>10, <1>11, <1>12, <1>13, <1>14, <1>15, <1>16, <1>17, <1>18, <1>19, <1>20, <1>21 DEF WorkerStep

LEMMA WorkerFoundEvents ==
  ASSUME Typed, NEW w \in Workers, Call(w) \/ WorkerStep(w)
  PROVE  /\ FoundEvents' /\ ReadsList'
         /\ \A v \in Workers \ {w} : ev'[v] = ev[v] /\ k'[v] = k[v] /\ rid'[v] = rid[v]
         /\ k'[Main] = k[Main]
<1>1. /\ LocalsTyped /\ w \in Threads /\ Main \in Threads /\ w # Main
      /\ \A v \in Workers : v \in Threads
  BY ThreadAssumption DEF Typed, Threads
<1>2. /\ ListGrows /\ pc'[Main] = pc[Main]
      /\ \A v \in Workers \ {w} : pc'[v] = pc[v]
  BY WorkerGrowsList, WorkerCallsFit
<1>3. \A v \in Workers \ {w} : ev'[v] = ev[v] /\ k'[v] = k[v] /\ rid'[v] = rid[v]
  BY <1>1 DEF LocalsTyped, locals, Call, WorkerStep, CreateLock, CreateAppend,
       CreateNoMemory, FailList, ReserveLookup, Lookup, ReserveLock, ReserveCheck,
       ReserveWrite, ReserveUnlock, FailEvent, Fail, NullReturn, ShowLookup,
       ShowNoMemory, ShowCopy, ShowReturn, ListAll, ListEmpty, ListNoMemory
<1>4. readers'[Main] = readers[Main] /\ k'[Main] = k[Main]
  BY <1>1 DEF LocalsTyped, shared, locals, Call, WorkerStep, CreateLock, CreateAppend,
       CreateNoMemory, FailList, ReserveLookup, Lookup, ReserveLock, ReserveCheck,
       ReserveWrite, ReserveUnlock, FailEvent, Fail, NullReturn, ShowLookup,
       ShowNoMemory, ShowCopy, ShowReturn, ListAll, ListEmpty, ListNoMemory, KeepReadLock
<1>5. ReadsList'
  BY <1>2, <1>4 DEF ReadsList, Typed
<1>6. HasEvent(w)' => ev'[w] \in DOMAIN events
  <2> USE DEF Goto, Return, At, HasEvent
  <2>1. HasEvent(w)' => ReserveLookup(w) \/ (HasEvent(w) /\ ev'[w] = ev[w])
    <3>1. CASE Call(w)
      <4>1. PICK c \in Calls : Goto(w, c.op)
        BY <3>1 DEF Call
      <4>2. c.op \in {"create", "reserve", "show", "list"}
        BY DEF Calls
      <4> QED
        BY <1>1, <4>1, <4>2 DEF LocalsTyped
    <3>2. CASE WorkerStep(w) /\ ~Call(w)
      BY <1>1, <3>2 DEF LocalsTyped, locals, WorkerStep, CreateLock, CreateAppend,
         CreateNoMemory, FailList, ReserveLock, ReserveCheck,
         ReserveWrite, ReserveUnlock, FailEvent, Fail, NullReturn, ShowLookup, Lookup,
         ShowNoMemory, ShowCopy, ShowReturn, ListAll, ListEmpty, ListNoMemory
    <3> QED
      BY <3>1, <3>2
  <2>2. CASE ReserveLookup(w)
    <3>1. get_event(call[w].id) \in 0 .. Len(events) /\ DOMAIN events = 1 .. Len(events)
      BY GetEvent, LenProperties DEF Typed, EventsTyped
    <3>2. HasEvent(w)' => get_event(call[w].id) # 0 /\ ev'[w] = get_event(call[w].id)
      BY <1>1, <2>2 DEF ReserveLookup, Lookup, Exists, LocalsTyped
    <3> QED
      BY <3>1, <3>2
  <2> QED
    BY <2>1, <2>2 DEF Typed, FoundEvents
<1>7. \A v \in Workers : HasEvent(v)' => ev'[v] \in DOMAIN events
  BY <1>2, <1>3, <1>6 DEF Typed, FoundEvents, HasEvent
<1>8. FoundEvents'
  BY <1>2, <1>7 DEF FoundEvents, ListGrows
<1> QED
  BY <1>3, <1>4, <1>5, <1>8

LEMMA WorkerTyped ==
  ASSUME Typed, NEW w \in Workers, Call(w) \/ WorkerStep(w)
  PROVE  Typed'
BY WorkerGrowsList, WorkerLocalsTyped, WorkerCallsFit, WorkerFoundEvents DEF Typed, ListGrows

(* ems_show_all moves no worker.                                             *)
LEMMA MainTyped ==
  ASSUME Typed, ShowAll \/ MainStep
  PROVE  /\ Typed'
         /\ \A v \in Workers : /\ pc'[v] = pc[v] /\ readers'[v] = readers[v]
                               /\ k'[v] = k[v]
         /\ UNCHANGED <<call, ev, rid, writer>>
<1>1. /\ LocalsTyped /\ Main \in Threads
      /\ \A v \in Workers : v \in Threads /\ v # Main
  BY ThreadAssumption DEF Typed, Threads
<1>2. /\ \A v \in Workers : /\ pc'[v] = pc[v] /\ readers'[v] = readers[v]
                            /\ k'[v] = k[v]
      /\ UNCHANGED <<call, ev, rid, writer>>
      /\ pc'[Main] \in {"idle", "lock_events", "print"}
  BY <1>1 DEF LocalsTyped, shared, locals, Goto, Return, At, MainStep, ShowAll,
       ShowAllLock, ShowAllPrint, ShowAllUnlock, KeepReadLock
<1>3. ReadsList'
  <2>1. readers[Main] \in Nat
    BY <1>1 DEF LocalsTyped
  <2>2. CASE ShowAll
    BY <1>1, <2>1, <2>2 DEF LocalsTyped, ShowAll, KeepReadLock, ReadsList
  <2>3. CASE ShowAllLock \/ ShowAllPrint
    BY <1>1, <2>3 DEF LocalsTyped, ShowAllLock, ShowAllPrint, Goto, At, locals,
         Typed, ReadsList
  <2>4. CASE ShowAllUnlock
    BY <1>1, <2>4 DEF LocalsTyped, ShowAllUnlock, Return, Goto, ReadsList
  <2> QED
    BY <2>2, <2>3, <2>4 DEF MainStep
<1>4. FoundEvents'
  BY <1>2, MainGrowsList DEF Typed, FoundEvents, HasEvent, ListGrows
<1>5. CallsFit'
  BY <1>2 DEF Typed, CallsFit
<1> QED
  BY <1>2, <1>3, <1>4, <1>5, MainGrowsList, MainLocalsTyped DEF Typed, ListGrows

LEMMA NextTyped == Typed /\ [Next]_vars => Typed'
<1> SUFFICES ASSUME Typed, [Next]_vars
             PROVE  Typed'
  OBVIOUS
<1>1. CASE \E w \in Workers : Call(w) \/ WorkerStep(w)
  BY <1>1, WorkerTyped
<1>2. CASE ShowAll \/ MainStep
  BY <1>2, MainTyped
<1>3. CASE UNCHANGED vars
  BY <1>3 DEF vars, Typed, EventsTyped, LocalsTyped, CallsFit, FoundEvents, ReadsList,
       HasEvent, Seats
<1> QED
  BY <1>1, <1>2, <1>3 DEF Next, Finished

LEMMA InitTyped == Init => Typed
<1> SUFFICES ASSUME Init
             PROVE  Typed
  OBVIOUS
<1>1. EventsTyped /\ Len(events) \in Nat
  BY InitEvents, LenProperties DEF EventsTyped
<1>2. Main \in Threads /\ \A w \in Workers : w \in Threads
  BY DEF Threads
<1>3. LocalsTyped
  BY <1>1, BoundAssumption DEF Init, LocalsTyped
<1> QED
  BY <1>1, <1>2, <1>3 DEF Typed, Init, CallsFit, FoundEvents, HasEvent, ReadsList

(* Every variable keeps its type: in particular the event pointer of a       *)
(* thread stays inside the list, whatever is appended meanwhile              *)
(* (operations.c:78-272).                                                    *)
THEOREM TypesHold == Spec => []TypeOK
<1>1. Typed => TypeOK
  BY TypeOKParts DEF Typed
<1> QED
  BY <1>1, InitTyped, NextTyped, PTL DEF Spec

-----------------------------------------------------------------------------
(* The locks.                                                                *)

LEMMA WorkerListIsLocked ==
  ASSUME Typed, ListIsLocked, NEW w \in Workers, Call(w) \/ WorkerStep(w)
  PROVE  ListIsLocked'
<1>1. /\ LocalsTyped /\ w \in Threads /\ w # NoThread
      /\ \A v \in Workers : v \in Threads /\ v # NoThread
      /\ \A v \in Workers \ {w} : pc'[v] = pc[v]
  BY ThreadAssumption, WorkerCallsFit DEF Typed, Threads
<1> USE DEF Goto, Return, At
<1> DEFINE W(v) == pc[v] \in {"append", "fail_list"}
<1>2. CASE CreateLock(w)
  BY <1>1, <1>2 DEF LocalsTyped, ListIsLocked, CreateLock, CanWrLock
<1>3. CASE CreateAppend(w) \/ FailList(w)
  BY <1>1, <1>3 DEF LocalsTyped, ListIsLocked, CreateAppend, FailList
<1>4. CASE CreateNoMemory(w)
  BY <1>1, <1>4 DEF LocalsTyped, ListIsLocked, CreateNoMemory, shared
<1>5. CASE ListEmpty(w) \/ ListNoMemory(w)
  BY <1>1, <1>5 DEF LocalsTyped, ListIsLocked, ListEmpty, ListNoMemory, CanRdLock
<1>6. CASE Call(w)
  <2>1. PICK c \in Calls : Goto(w, c.op)
    BY <1>6 DEF Call
  <2>2. c.op \in {"create", "reserve", "show", "list"}
    BY DEF Calls
  <2>3. pc'[w] = c.op /\ pc[w] = "idle"
    BY <1>1, <1>6, <2>1 DEF LocalsTyped, Call
  <2> QED
    BY <1>1, <1>6, <2>2, <2>3 DEF ListIsLocked, Call, shared
<1>7. CASE /\ UNCHANGED <<writer, readers>>
           /\ ~W(w) /\ ~W(w)'
  BY <1>1, <1>7 DEF ListIsLocked
<1>8. CASE ReserveLookup(w) \/ ReserveLock(w) \/ ReserveCheck(w) \/ ReserveWrite(w)
             \/ ReserveUnlock(w) \/ FailEvent(w) \/ Fail(w) \/ NullReturn(w)
             \/ ShowLookup(w) \/ ShowNoMemory(w) \/ ShowCopy(w) \/ ShowReturn(w)
             \/ ListAll(w)
  <2>1. UNCHANGED <<writer, readers>>
    BY <1>8 DEF ReserveLookup, Lookup, ReserveLock, ReserveCheck, ReserveWrite,
         ReserveUnlock, FailEvent, Fail, NullReturn, ShowLookup, ShowNoMemory, ShowCopy,
         ShowReturn, ListAll, shared
  <2>2. ~W(w) /\ ~W(w)'
    BY <1>1, <1>8 DEF LocalsTyped, ReserveLookup, Lookup, ReserveLock, ReserveCheck,
         ReserveWrite, ReserveUnlock, FailEvent, Fail, NullReturn, ShowLookup,
         ShowNoMemory, ShowCopy, ShowReturn, ListAll
  <2> QED
    BY <1>7, <2>1, <2>2
<1> QED
  BY <1>2, <1>3, <1>4, <1>5, <1>6, <1>8 DEF WorkerStep

LEMMA MainListIsLocked ==
  ASSUME Typed, ListIsLocked, ShowAll \/ MainStep
  PROVE  ListIsLocked'
<1>1. LocalsTyped /\ Main \in Threads /\ \A v \in Workers : v \in Threads
  BY DEF Typed, Threads
<1>2. UNCHANGED writer /\ \A v \in Workers : pc'[v] = pc[v]
  BY MainTyped
<1>3. writer # NoThread => \A t \in Threads : readers'[t] = 0
  <2>1. CASE ShowAll
    BY <2>1 DEF ShowAll, CanRdLock
  <2>2. CASE ShowAllLock \/ ShowAllPrint
    BY <2>2 DEF ShowAllLock, ShowAllPrint, ListIsLocked
  <2>3. CASE ShowAllUnlock
    BY <1>1, <2>3 DEF ShowAllUnlock, At, ListIsLocked, Typed, ReadsList
  <2> QED
    BY <2>1, <2>2, <2>3 DEF MainStep
<1> QED
  BY <1>2, <1>3 DEF ListIsLocked

(* Nothing is appended while somebody holds the read lock.                   *)
LEMMA AppendIsAlone ==
  ASSUME Typed, ListIsLocked, NEW w \in Workers, At(w, "append")
  PROVE  /\ \A t \in Threads : readers[t] = 0
         /\ pc[Main] = "idle"
         /\ \A v \in Workers : pc[v] \in {"append", "fail_list"} => v = w
<1>1. writer = w /\ w # NoThread /\ Main \in Threads
  BY ThreadAssumption DEF ListIsLocked, At, Threads
<1> QED
  BY <1>1 DEF ListIsLocked, Typed, ReadsList, CallsFit

(* A session thread changes no event that another thread has locked.         *)
LEMMA LockedEventsKept ==
  ASSUME Typed, EventsAreLocked, NEW w \in Workers, Call(w) \/ WorkerStep(w),
         NEW p \in DOMAIN events, events[p].mutex \notin {w, NoThread}
  PROVE  events'[p] = events[p]
<1>1. HasEvent(w) => ev[w] \in DOMAIN events
  BY DEF Typed, FoundEvents
<1>2. Inside(w) => events[ev[w]].mutex = w
  BY DEF EventsAreLocked
<1> USE DEF At
<1>3. CASE CreateAppend(w)
  <2>1. call[w].id \in EventIds /\ call[w].dim \in Dims
    BY <1>3 DEF CreateAppend, Typed, CallsFit, CreateCalls
  <2> QED
    BY <1>3, <2>1, AppendStep DEF CreateAppend, Typed
<1>4. CASE ReserveLock(w)
  <2>1. p # ev[w] /\ events' = [events EXCEPT ![ev[w]].mutex = w]
    BY <1>4 DEF ReserveLock
  <2> QED
    BY <2>1
<1>5. CASE ReserveCheck(w)
  <2>1. p # ev[w]
    BY <1>2, <1>5 DEF ReserveCheck, Inside
  <2> QED
    BY <1>5, <2>1 DEF ReserveCheck
<1>6. CASE ReserveWrite(w)
  <2>1. p # ev[w]
    BY <1>2, <1>6 DEF ReserveWrite, Inside
  <2> QED
    BY <1>6, <2>1 DEF ReserveWrite
<1>7. CASE ReserveUnlock(w) \/ FailEvent(w)
  <2>1. p # ev[w]
    BY <1>2, <1>7 DEF ReserveUnlock, FailEvent, Inside
  <2> QED
    BY <1>7, <2>1 DEF ReserveUnlock, FailEvent
<1>8. CASE UNCHANGED events
  BY <1>8
<1> QED
  BY <1>3, <1>4, <1>5, <1>6, <1>7, <1>8
  DEF Call, WorkerStep, CreateLock, CreateNoMemory, FailList, ReserveLookup, Lookup,
      Fail, NullReturn, ShowLookup, ShowNoMemory, ShowCopy, ShowReturn,
      ListAll, ListEmpty, ListNoMemory, shared

(* A thread enters an event by locking it and keeps it locked inside.        *)
LEMMA InsideIsLocked ==
  ASSUME Typed, EventsAreLocked, NEW w \in Workers, Call(w) \/ WorkerStep(w), Inside(w)'
  PROVE  ev'[w] = ev[w] /\ ev[w] \in DOMAIN events /\ events'[ev[w]].mutex = w
<1>1. /\ EventsTyped /\ LocalsTyped /\ w \in Threads
      /\ HasEvent(w) => ev[w] \in DOMAIN events
      /\ Inside(w) => events[ev[w]].mutex = w
  BY DEF Typed, FoundEvents, EventsAreLocked, Threads
<1> USE DEF At, Goto, Return, Inside, HasEvent
<1>2. CASE ReserveLock(w)
  <2>1. /\ ev[w] \in DOMAIN events /\ ev' = ev
        /\ events' = [events EXCEPT ![ev[w]].mutex = w]
    BY <1>1, <1>2 DEF ReserveLock, locals
  <2> QED
    BY <1>1, <2>1, MutexStep
<1>3. CASE ReserveCheck(w)
  <2>1. /\ ev[w] \in DOMAIN events /\ ev' = ev /\ events[ev[w]].mutex = w
    BY <1>1, <1>3 DEF ReserveCheck
  <2>2. CASE events' = [events EXCEPT ![ev[w]].reservations = @ + 1]
    BY <1>1, <2>1, <2>2, CountStep
  <2>3. CASE UNCHANGED events
    BY <2>1, <2>3
  <2> QED
    BY <1>3, <2>2, <2>3 DEF ReserveCheck
<1>4. CASE ReserveWrite(w)
  <2> DEFINE s == seat_index(events[ev[w]], call[w].seats[k[w] + 1])
  <2>1. /\ ev[w] \in DOMAIN events /\ ev' = ev /\ events[ev[w]].mutex = w
        /\ rid[w] \in Nat
    BY <1>1, <1>4 DEF ReserveWrite, LocalsTyped
  <2>2. events' = [events EXCEPT ![ev[w]].data[s] = rid[w]]
    BY <1>4 DEF ReserveWrite
  <2> HIDE DEF s
  <2>3. events'[ev[w]].mutex = events[ev[w]].mutex
    BY <1>1, <2>1, <2>2, StoreStep
  <2> QED
    BY <2>1, <2>3
<1>5. CASE Call(w)
  <2>1. PICK c \in Calls : Goto(w, c.op)
    BY <1>5 DEF Call
  <2>2. c.op \in {"create", "reserve", "show", "list"}
    BY DEF Calls
  <2> QED
    BY <1>1, <2>1, <2>2 DEF LocalsTyped
<1> QED
  BY <1>1, <1>2, <1>3, <1>4, <1>5
  DEF LocalsTyped, WorkerStep, CreateLock, CreateAppend, CreateNoMemory, FailList,
      ReserveLookup, Lookup, ReserveUnlock, FailEvent, Fail, NullReturn, ShowLookup,
      ShowNoMemory, ShowCopy, ShowReturn, ListAll, ListEmpty, ListNoMemory

(* Only ems_create makes the list longer.                                    *)
LEMMA ListKeepsLength ==
  ASSUME Typed, NEW w \in Workers, Call(w) \/ WorkerStep(w), ~CreateAppend(w)
  PROVE  DOMAIN events' = DOMAIN events
BY DEF Call, WorkerStep, CreateLock, CreateNoMemory, FailList, ReserveLookup, Lookup,
  ReserveLock, ReserveCheck, ReserveWrite, ReserveUnlock, FailEvent, Fail, NullReturn,
  ShowLookup, ShowNoMemory, ShowCopy, ShowReturn, ListAll, ListEmpty, ListNoMemory, shared

LEMMA WorkerEventsAreLocked ==
  ASSUME Typed, ListIsLocked, EventsAreLocked, NEW w \in Workers,
         Call(w) \/ WorkerStep(w)
  PROVE  EventsAreLocked'
<1>1. /\ w \in Threads /\ Main \notin {w, NoThread}
      /\ \A v \in Workers : v # NoThread
  BY ThreadAssumption DEF Threads
<1>2. /\ pc'[Main] = pc[Main] /\ k'[Main] = k[Main]
      /\ \A v \in Workers \ {w} : pc'[v] = pc[v] /\ ev'[v] = ev[v]
  BY WorkerCallsFit, WorkerFoundEvents
<1>3. \A v \in Workers : Inside(v)' => events'[ev'[v]].mutex = v
  <2> SUFFICES ASSUME NEW v \in Workers, Inside(v)'
               PROVE  events'[ev'[v]].mutex = v
    OBVIOUS
  <2>1. CASE v = w
    BY <2>1, InsideIsLocked
  <2>2. CASE v # w
    <3>1. Inside(v) /\ HasEvent(v) /\ ev'[v] = ev[v]
      BY <1>2, <2>2 DEF Inside, HasEvent
    <3>2. ev[v] \in DOMAIN events /\ events[ev[v]].mutex = v
      BY <3>1 DEF Typed, FoundEvents, EventsAreLocked
    <3>3. events'[ev[v]] = events[ev[v]]
      BY <1>1, <2>2, <3>2, LockedEventsKept
    <3> QED
      BY <3>1, <3>2, <3>3
  <2> QED
    BY <2>1, <2>2
<1>4. pc[Main] # "idle" => DOMAIN events' = DOMAIN events
  <2>1. CreateAppend(w) => pc[Main] = "idle"
    BY AppendIsAlone DEF CreateAppend
  <2> QED
    BY <2>1, ListKeepsLength
<1>5. \A p \in DOMAIN events : events[p].mutex = Main => events'[p].mutex = Main
  BY <1>1, LockedEventsKept
<1> QED
  BY <1>2, <1>3, <1>4, <1>5 DEF EventsAreLocked

LEMMA MainEventsAreLocked ==
  ASSUME Typed, EventsAreLocked, ShowAll \/ MainStep
  PROVE  EventsAreLocked'
<1>1. /\ LocalsTyped /\ EventsTyped /\ Main \in Threads /\ Main # NoThread
      /\ \A v \in Workers : v # Main /\ v # NoThread
      /\ k[Main] \in Nat /\ Len(events) \in Nat /\ DOMAIN events = 1 .. Len(events)
  BY ThreadAssumption, LenProperties DEF Typed, EventsTyped, LocalsTyped, Threads
<1>2. UNCHANGED ev /\ \A v \in Workers : pc'[v] = pc[v]
  BY MainTyped
<1>3. \A v \in Workers : Inside(v) => ev[v] \in DOMAIN events /\ events[ev[v]].mutex = v
  BY DEF Inside, HasEvent, Typed, FoundEvents, EventsAreLocked
<1> USE DEF At, Goto, Return
<1>4. CASE ShowAll
  <2>1. pc'[Main] = "lock_events" /\ k'[Main] = 0 /\ UNCHANGED events
    BY <1>1, <1>4 DEF ShowAll, LocalsTyped
  <2> QED
    BY <1>1, <1>2, <1>3, <2>1 DEF EventsAreLocked, Inside
<1>5. CASE ShowAllLock
  <2> DEFINE p == k[Main] + 1
  <2>1. p \in DOMAIN events /\ events[p].mutex = NoThread
    BY <1>1, <1>5 DEF ShowAllLock
  <2>2. /\ events' = [events EXCEPT ![p].mutex = Main]
        /\ k'[Main] = p /\ pc'[Main] = "lock_events"
    BY <1>1, <1>5 DEF ShowAllLock, LocalsTyped
  <2>3. /\ DOMAIN events' = DOMAIN events /\ OthersSame(p) /\ events'[p].mutex = Main
    BY <1>1, <2>1, <2>2, MutexStep
  <2>4. \A v \in Workers : Inside(v)' => events'[ev'[v]].mutex = v
    BY <1>1, <1>2, <1>3, <2>1, <2>3 DEF Inside, OthersSame
  <2>5. \A q \in DOMAIN events : q <= p => q = p \/ q <= k[Main]
    BY <1>1
  <2>6. \A q \in DOMAIN events : q <= k[Main] => events[q].mutex = Main
    BY <1>5 DEF ShowAllLock, EventsAreLocked
  <2>7. \A q \in DOMAIN events' : q <= k'[Main] => events'[q].mutex = Main
    BY <2>2, <2>3, <2>5, <2>6 DEF OthersSame
  <2> QED
    BY <2>2, <2>4, <2>7 DEF EventsAreLocked
<1>6. CASE ShowAllPrint
  <2>1. /\ UNCHANGED <<events, k>> /\ pc'[Main] = "print"
        /\ \A p \in DOMAIN events : events[p].mutex = Main
    BY <1>1, <1>6 DEF ShowAllPrint, EventsAreLocked, LocalsTyped, locals
  <2> QED
    BY <1>2, <1>3, <2>1 DEF EventsAreLocked, Inside
<1>7. CASE ShowAllUnlock
  <2>1. pc'[Main] = "idle" /\ \A p \in DOMAIN events : events[p].mutex = Main
    BY <1>1, <1>7 DEF ShowAllUnlock, EventsAreLocked, LocalsTyped
  <2>2. \A v \in Workers : ~Inside(v)'
    BY <1>1, <1>2, <1>3, <2>1 DEF Inside
  <2> QED
    BY <2>1, <2>2 DEF EventsAreLocked
<1> QED
  BY <1>4, <1>5, <1>6, <1>7 DEF MainStep

Locked == Typed /\ ListIsLocked /\ EventsAreLocked

LEMMA LocksHold == Spec => []Locked
<1>1. Init => Locked
  <2> SUFFICES ASSUME Init
               PROVE  Locked
    OBVIOUS
  <2>1. \A w \in Workers : w # NoThread /\ w \in Threads
    BY ThreadAssumption DEF Threads
  <2>2. Main \in Threads
    BY DEF Threads
  <2> QED
    BY <2>1, <2>2, InitTyped DEF Init, Locked, ListIsLocked, EventsAreLocked, Inside
<1>2. Locked /\ [Next]_vars => Locked'
  <2> SUFFICES ASSUME Locked, [Next]_vars
               PROVE  Locked'
    OBVIOUS
  <2>1. CASE \E w \in Workers : Call(w) \/ WorkerStep(w)
    BY <2>1, WorkerTyped, WorkerListIsLocked, WorkerEventsAreLocked DEF Locked
  <2>2. CASE ShowAll \/ MainStep
    BY <2>2, MainTyped, MainListIsLocked, MainEventsAreLocked DEF Locked
  <2>3. CASE UNCHANGED vars
    BY <2>3, NextTyped DEF vars, Locked, ListIsLocked, EventsAreLocked, Inside
  <2> QED
    BY <2>1, <2>2, <2>3 DEF Next, Finished
<1> QED
  BY <1>1, <1>2, PTL DEF Spec

(* The picture ems_show_all prints is of one moment: it holds every event    *)
(* (operations.c:352-420).                                                   *)
THEOREM ShowAllIsOneMoment == Spec => ShowAllPrintsOneMoment
<1>1. Locked /\ [Next]_vars => [At(Main, "print") /\ pc'[Main] = "print" => UNCHANGED events]_vars
  <2> SUFFICES ASSUME Locked, Next, At(Main, "print"), pc'[Main] = "print"
               PROVE  UNCHANGED events
    OBVIOUS
  <2>1. /\ LocalsTyped /\ EventsTyped /\ Main \in Threads
        /\ \A p \in DOMAIN events : events[p].mutex = Main
    BY DEF Locked, Typed, EventsAreLocked, At, Threads
  <2>2. CASE \E w \in Workers : Call(w) \/ WorkerStep(w)
    <3>1. PICK w \in Workers : Call(w) \/ WorkerStep(w)
      BY <2>2
    <3>2. Main \notin {w, NoThread}
      BY ThreadAssumption DEF Threads
    <3>3. \A p \in DOMAIN events : events'[p] = events[p]
      BY <2>1, <3>1, <3>2, LockedEventsKept DEF Locked
    <3>4. ~CreateAppend(w)
      BY AppendIsAlone DEF CreateAppend, Locked, At
    <3>5. DOMAIN events' = DOMAIN events /\ EventsTyped'
      BY <3>1, <3>4, ListKeepsLength, WorkerGrowsList DEF Locked, ListGrows
    <3>6. /\ DOMAIN events = 1 .. Len(events) /\ Len(events) \in Nat
          /\ DOMAIN events' = 1 .. Len(events') /\ Len(events') \in Nat
          /\ events \in Seq(Event) /\ events' \in Seq(Event)
      BY <2>1, <3>5, LenProperties DEF EventsTyped
    <3>7. Len(events') = Len(events)
      BY <3>5, <3>6
    <3> QED
      BY <3>3, <3>6, <3>7, SeqEqual
  <2>3. CASE ShowAll \/ MainStep
    BY <2>1, <2>3 DEF At, LocalsTyped, ShowAll, MainStep, ShowAllLock, ShowAllPrint,
         ShowAllUnlock, Return, Goto
  <2> QED
    BY <2>2, <2>3 DEF Next, Finished, vars
<1> QED
  BY <1>1, LocksHold, PTL DEF Spec, ShowAllPrintsOneMoment

-----------------------------------------------------------------------------
(* Event ids.                                                                *)

LEMMA WorkerKeepsIdsUnique ==
  ASSUME Locked, EventIdsUnique, AppendedIsNew, NEW w \in Workers,
         Call(w) \/ WorkerStep(w)
  PROVE  EventIdsUnique' /\ AppendedIsNew'
<1>1. /\ LocalsTyped /\ EventsTyped /\ w \in Threads /\ Typed /\ ListIsLocked
      /\ ListGrows
      /\ \A v \in Workers \ {w} : pc'[v] = pc[v] /\ call'[v] = call[v]
  BY WorkerCallsFit, WorkerGrowsList DEF Locked, Typed, Threads
<1> USE DEF At, Goto, Return
<1>2. CASE CreateAppend(w)
  <2> DEFINE n == Len(events) + 1
  <2>1. call[w].id \in EventIds /\ call[w].dim \in Dims
    BY <1>1, <1>2 DEF CreateAppend, Typed, CallsFit, CreateCalls
  <2>2. /\ DOMAIN events' = DOMAIN events \cup {n} /\ n \notin DOMAIN events
        /\ \A q \in DOMAIN events : events'[q] = events[q]
        /\ events'[n].id = call[w].id
    BY <1>1, <1>2, <2>1, AppendStep DEF CreateAppend
  <2>3. \A q \in DOMAIN events : events[q].id # call[w].id
    BY <1>2 DEF CreateAppend, AppendedIsNew
  <2> HIDE DEF n
  <2>4. EventIdsUnique'
    BY <2>2, <2>3 DEF EventIdsUnique
  <2>5. \A v \in Workers : pc'[v] # "append"
    BY <1>1, <1>2, AppendIsAlone DEF CreateAppend, LocalsTyped
  <2> QED
    BY <2>4, <2>5 DEF AppendedIsNew
<1>3. CASE ~CreateAppend(w)
  <2>1. DOMAIN events' = DOMAIN events /\ \A p \in DOMAIN events : events'[p].id = events[p].id
    BY <1>1, <1>3, ListKeepsLength DEF ListGrows, SameEvent
  <2>2. EventIdsUnique'
    BY <2>1 DEF EventIdsUnique
  <2>3. pc'[w] = "append" => \A p \in DOMAIN events : events[p].id # call'[w].id
    <3>1. CASE CreateLock(w)
      <4>1. get_event(call[w].id) = 0 => \A p \in DOMAIN events : events[p].id # call[w].id
        BY <1>1, GetEvent DEF EventsTyped
      <4> QED
        BY <1>1, <3>1, <4>1 DEF CreateLock, Exists, locals, LocalsTyped
    <3>2. CASE Call(w)
      <4>1. PICK c \in Calls : Goto(w, c.op)
        BY <3>2 DEF Call
      <4>2. c.op # "append"
        BY DEF Calls
      <4> QED
        BY <1>1, <4>1, <4>2 DEF LocalsTyped
    <3>3. CASE WorkerStep(w) /\ ~CreateLock(w)
      BY <1>1, <1>3, <3>3 DEF LocalsTyped, WorkerStep, CreateNoMemory, FailList,
        ReserveLookup, Lookup, ReserveLock, ReserveCheck, ReserveWrite, ReserveUnlock,
        FailEvent, Fail, NullReturn, ShowLookup, ShowNoMemory, ShowCopy, ShowReturn,
        ListAll, ListEmpty, ListNoMemory
    <3> QED
      BY <3>1, <3>2, <3>3
  <2> QED
    BY <1>1, <2>1, <2>2, <2>3 DEF AppendedIsNew
<1> QED
  BY <1>2, <1>3

(* The ids of the list, and those that threads are about to append to it.   *)
LEMMA IdsHold == Spec => [](EventIdsUnique /\ AppendedIsNew)
<1>1. Init => EventIdsUnique /\ AppendedIsNew
  <2> SUFFICES ASSUME Init
               PROVE  EventIdsUnique /\ AppendedIsNew
    OBVIOUS
  <2>1. \A w \in Workers : pc[w] = "idle"
    BY DEF Init, Threads
  <2> QED
    BY <2>1, InitEvents DEF EventIdsUnique, AppendedIsNew
<1>2. Locked /\ EventIdsUnique /\ AppendedIsNew /\ [Next]_vars => EventIdsUnique' /\ AppendedIsNew'
  <2> SUFFICES ASSUME Locked, EventIdsUnique, AppendedIsNew, [Next]_vars
               PROVE  EventIdsUnique' /\ AppendedIsNew'
    OBVIOUS
  <2>1. CASE \E w \in Workers : Call(w) \/ WorkerStep(w)
    BY <2>1, WorkerKeepsIdsUnique
  <2>2. CASE ShowAll \/ MainStep
    <3>1. DOMAIN events' = DOMAIN events
      BY <2>2 DEF ShowAll, MainStep, ShowAllLock, ShowAllPrint, ShowAllUnlock
    <3>2. \A p \in DOMAIN events : events'[p].id = events[p].id
      BY <2>2, MainGrowsList DEF Locked, ListGrows, SameEvent
    <3>3. UNCHANGED call /\ \A v \in Workers : pc'[v] = pc[v]
      BY <2>2, MainTyped DEF Locked
    <3> QED
      BY <3>1, <3>2, <3>3 DEF EventIdsUnique, AppendedIsNew
  <2>3. CASE UNCHANGED vars
    BY <2>3 DEF vars, EventIdsUnique, AppendedIsNew
  <2> QED
    BY <2>1, <2>2, <2>3 DEF Next, Finished
<1> QED
  BY <1>1, <1>2, LocksHold, PTL DEF Spec

(* No two events of the list have the same id: ems_create looks and appends  *)
(* in one hold of the write lock (operations.c:78-143).                      *)
THEOREM IdsStayUnique == Spec => []EventIdsUnique
BY IdsHold, PTL

-----------------------------------------------------------------------------
(* Seats.                                                                    *)

(* The index of a seat inside the event's bounds is inside its data.         *)
LEMMA SeatIndexInside ==
  ASSUME NEW e \in Event, NEW c, c[1] \in Nat, c[2] \in Nat, InBounds(e, c)
  PROVE  seat_index(e, c) \in Seats(e)
<1> DEFINE a == c[1] - 1
           b == e.rows - c[1]
<1>1. /\ e.rows \in Nat /\ e.cols \in Nat
      /\ c[2] >= 1 /\ c[2] <= e.cols
      /\ a \in Nat /\ b \in Nat /\ e.rows = a + b + 1
  BY DEF Event, InBounds
<1> HIDE DEF a, b
<1>2. /\ a * e.cols \in Nat /\ b * e.cols \in Nat
      /\ e.rows * e.cols = a * e.cols + b * e.cols + e.cols
  BY <1>1
<1>3. /\ a * e.cols + c[2] - 1 >= 0
      /\ a * e.cols + c[2] - 1 <= e.rows * e.cols - 1
      /\ a * e.cols + c[2] - 1 \in Int
  BY <1>1, <1>2
<1>4. seat_index(e, c) = a * e.cols + c[2] - 1
  BY DEF seat_index, a
<1> QED
  BY <1>1, <1>3, <1>4 DEF Seats

(* The two sizes of an event fix the place of each seat.                     *)
LEMMA SamePlaces ==
  ASSUME NEW e, NEW f, f.rows = e.rows, f.cols = e.cols
  PROVE  Seats(f) = Seats(e) /\ \A c : seat_index(f, c) = seat_index(e, c)
BY DEF Seats, seat_index

LEMMA MainKeepsSeats ==
  ASSUME Typed, ShowAll \/ MainStep
  PROVE  /\ DOMAIN events' = DOMAIN events
         /\ \A p \in DOMAIN events : SameEvent(p) /\ events'[p].data = events[p].data
<1>1. EventsTyped /\ DOMAIN events' = DOMAIN events
  BY DEF Typed, ShowAll, MainStep, ShowAllLock, ShowAllPrint, ShowAllUnlock
<1>2. \A p \in DOMAIN events : SameEvent(p)
  BY MainGrowsList DEF ListGrows
<1>3. \A p \in DOMAIN events : events'[p].data = events[p].data
  <2>1. CASE ShowAllLock
    BY <1>1, <2>1 DEF ShowAllLock
  <2>2. CASE ShowAllUnlock
    BY <1>1, <2>2, UnlockAllStep DEF ShowAllUnlock
  <2>3. CASE UNCHANGED events
    BY <2>3
  <2> QED
    BY <2>1, <2>2, <2>3 DEF ShowAll, MainStep, ShowAllPrint
<1> QED
  BY <1>1, <1>2, <1>3

LEMMA CheckedSeatsAreFree ==
  ASSUME Locked, NEW w \in Workers, ReserveCheck(w), pc'[w] = "write",
         NEW i \in DOMAIN call[w].seats
  PROVE  LET s == seat_index(events'[ev[w]], call[w].seats[i])
         IN  s \in Seats(events'[ev[w]]) /\ events'[ev[w]].data[s] = 0
<1> DEFINE e == events[ev[w]]
           c == call[w].seats[i]
           s == seat_index(e, c)
<1>1. /\ EventsTyped /\ LocalsTyped /\ w \in Threads /\ ev[w] \in DOMAIN events
      /\ call[w] \in ReserveCalls
  BY DEF Locked, Typed, CallsFit, FoundEvents, HasEvent, ReserveCheck, At, Threads
<1>2. CanReserve(e, call[w].seats) /\ events' = [events EXCEPT ![ev[w]].reservations = @ + 1]
  BY <1>1 DEF ReserveCheck, Goto, LocalsTyped
<1>3. InBounds(e, c) /\ e.data[s] = 0
  BY <1>2 DEF CanReserve, SeatsOf
<1>4. c[1] \in Nat /\ c[2] \in Nat
  <2>1. call[w].seats \in Seq(Nat \X Nat)
    BY <1>1, RequestAssumption DEF ReserveCalls
  <2> QED
    BY <2>1, ElementOfSeq, LenProperties
<1>5. e \in Event
  BY <1>1, EventFacts
<1>6. s \in Seats(e)
  BY <1>3, <1>4, <1>5, SeatIndexInside
<1>7. SameEvent(ev[w]) /\ events'[ev[w]].data = e.data
  BY <1>1, <1>2, CountStep
<1>8. Seats(events'[ev[w]]) = Seats(e) /\ seat_index(events'[ev[w]], c) = s
  BY <1>7, SamePlaces DEF SameEvent
<1> QED
  BY <1>3, <1>6, <1>7, <1>8

LEMMA WorkerSeatsAreFree ==
  ASSUME Locked, SeatsAreFree, NEW w \in Workers, Call(w) \/ WorkerStep(w)
  PROVE  SeatsAreFree'
<1>1. /\ LocalsTyped /\ EventsTyped /\ Typed /\ EventsAreLocked
      /\ \A v \in Workers : v \in Threads /\ v # NoThread
  BY ThreadAssumption DEF Locked, Typed, Threads
<1> USE DEF At, Goto, Return
<1>2. ASSUME NEW v \in Workers \ {w}, pc'[v] = "write"
      PROVE  /\ pc[v] = "write" /\ call'[v] = call[v] /\ ev'[v] = ev[v]
             /\ k'[v] = k[v] /\ rid'[v] = rid[v]
             /\ events'[ev[v]] = events[ev[v]]
  <2>1. /\ pc[v] = "write" /\ call'[v] = call[v] /\ ev'[v] = ev[v]
        /\ k'[v] = k[v] /\ rid'[v] = rid[v]
    BY <1>1, <1>2, WorkerCallsFit, WorkerFoundEvents
  <2>2. ev[v] \in DOMAIN events /\ events[ev[v]].mutex = v
    BY <1>1, <2>1 DEF Typed, FoundEvents, HasEvent, EventsAreLocked, Inside
  <2>3. events'[ev[v]] = events[ev[v]]
    BY <1>1, <2>2, LockedEventsKept
  <2> QED
    BY <2>1, <2>3
<1>3. ASSUME NEW v \in Workers \ {w}, pc'[v] = "write",
             NEW i \in DOMAIN call'[v].seats, i > k'[v]
      PROVE  LET s == seat_index(events'[ev'[v]], call'[v].seats[i])
             IN  s \in Seats(events'[ev'[v]]) /\ events'[ev'[v]].data[s] \in {0, rid'[v]}
  <2>1. LET s == seat_index(events[ev[v]], call[v].seats[i])
        IN  s \in Seats(events[ev[v]]) /\ events[ev[v]].data[s] \in {0, rid[v]}
    BY <1>2, <1>3 DEF SeatsAreFree
  <2> QED
    BY <1>2, <1>3, <2>1
<1>4. ASSUME pc'[w] = "write", NEW i \in DOMAIN call'[w].seats, i > k'[w]
      PROVE  LET s == seat_index(events'[ev'[w]], call'[w].seats[i])
             IN  s \in Seats(events'[ev'[w]]) /\ events'[ev'[w]].data[s] \in {0, rid'[w]}
  <2>1. CASE ReserveCheck(w)
    <3>1. call' = call /\ ev' = ev
      BY <2>1 DEF ReserveCheck
    <3> QED
      BY <1>4, <2>1, <3>1, CheckedSeatsAreFree
  <2>2. CASE ReserveWrite(w)
    <3> DEFINE e == events[ev[w]]
               x == seat_index(e, call[w].seats[k[w] + 1])
               s == seat_index(e, call[w].seats[i])
    <3>1. /\ call' = call /\ ev' = ev /\ rid' = rid /\ pc[w] = "write"
          /\ k[w] \in Nat /\ k'[w] = k[w] + 1 /\ rid[w] \in Nat
          /\ ev[w] \in DOMAIN events
          /\ events' = [events EXCEPT ![ev[w]].data[x] = rid[w]]
      BY <1>1, <2>2 DEF ReserveWrite, LocalsTyped, Typed, FoundEvents, HasEvent
    <3>2. call[w].seats \in Seq(Nat \X Nat)
      BY <3>1, RequestAssumption DEF Locked, Typed, CallsFit, ReserveCalls
    <3>3. i > k[w] /\ i \in DOMAIN call[w].seats
      BY <1>4, <3>1, <3>2, LenProperties
    <3>4. s \in Seats(e) /\ e.data[s] \in {0, rid[w]}
      BY <3>1, <3>3 DEF SeatsAreFree
    <3> HIDE DEF x
    <3>5. /\ SameEvent(ev[w])
          /\ \A y \in Seats(e) : events'[ev[w]].data[y] \in {rid[w], e.data[y]}
      <4>1. /\ EventsTyped /\ ev[w] \in DOMAIN events /\ rid[w] \in Nat
            /\ events' = [events EXCEPT ![ev[w]].data[x] = rid[w]]
        BY <1>1, <3>1
      <4>2. SameEvent(ev[w])
        BY ONLY <4>1, StoreStep
      <4> QED
        BY ONLY <4>1, <4>2, StoreStep
    <3>6. Seats(events'[ev[w]]) = Seats(e) /\ seat_index(events'[ev[w]], call[w].seats[i]) = s
      BY <3>5, SamePlaces DEF SameEvent
    <3>7. events'[ev[w]].data[s] \in {0, rid[w]}
      BY <3>4, <3>5
    <3> QED
      BY <3>1, <3>4, <3>6, <3>7
  <2>3. CASE Call(w)
    <3>1. PICK c \in Calls : Goto(w, c.op)
      BY <2>3 DEF Call
    <3>2. c.op # "write"
      BY DEF Calls
    <3> QED
      BY <1>1, <1>4, <3>1, <3>2 DEF LocalsTyped
  <2> QED
    BY <1>1, <1>4, <2>1, <2>2, <2>3 DEF LocalsTyped, WorkerStep, CreateLock,
      CreateAppend, CreateNoMemory, FailList, ReserveLookup, Lookup, ReserveLock,
      ReserveUnlock, FailEvent, Fail, NullReturn, ShowLookup, ShowNoMemory, ShowCopy,
      ShowReturn, ListAll, ListEmpty, ListNoMemory
<1> QED
  BY <1>3, <1>4 DEF SeatsAreFree

LEMMA SeatsHold == Spec => [](Locked /\ SeatsAreFree)
<1>1. Init => SeatsAreFree
  <2> SUFFICES ASSUME Init
               PROVE  SeatsAreFree
    OBVIOUS
  <2>1. \A w \in Workers : pc[w] = "idle"
    BY DEF Init, Threads
  <2> QED
    BY <2>1 DEF SeatsAreFree
<1>2. Locked /\ SeatsAreFree /\ [Next]_vars => SeatsAreFree'
  <2> SUFFICES ASSUME Locked, SeatsAreFree, [Next]_vars
               PROVE  SeatsAreFree'
    OBVIOUS
  <2>1. CASE \E w \in Workers : Call(w) \/ WorkerStep(w)
    BY <2>1, WorkerSeatsAreFree
  <2>2. CASE ShowAll \/ MainStep
    <3> SUFFICES ASSUME NEW w \in Workers, pc'[w] = "write",
                        NEW i \in DOMAIN call'[w].seats, i > k'[w]
                 PROVE  LET s == seat_index(events'[ev'[w]], call'[w].seats[i])
                        IN  /\ s \in Seats(events'[ev'[w]])
                            /\ events'[ev'[w]].data[s] \in {0, rid'[w]}
      BY DEF SeatsAreFree
    <3>1. /\ pc[w] = "write" /\ k'[w] = k[w]
          /\ UNCHANGED <<call, ev, rid>>
      BY <2>2, MainTyped DEF Locked
    <3>2. ev[w] \in DOMAIN events
      BY <3>1 DEF Locked, Typed, FoundEvents, HasEvent
    <3>3. SameEvent(ev[w]) /\ events'[ev[w]].data = events[ev[w]].data
      BY <2>2, <3>2, MainKeepsSeats DEF Locked
    <3>4. /\ Seats(events'[ev[w]]) = Seats(events[ev[w]])
          /\ \A c : seat_index(events'[ev[w]], c) = seat_index(events[ev[w]], c)
      BY <3>3, SamePlaces DEF SameEvent
    <3>5. LET s == seat_index(events[ev[w]], call[w].seats[i])
          IN  s \in Seats(events[ev[w]]) /\ events[ev[w]].data[s] \in {0, rid[w]}
      BY <3>1 DEF SeatsAreFree
    <3> QED
      BY <3>1, <3>3, <3>4, <3>5
  <2>3. CASE UNCHANGED vars
    BY <2>3 DEF vars, SeatsAreFree, Seats, seat_index
  <2> QED
    BY <2>1, <2>2, <2>3 DEF Next, Finished
<1> QED
  BY <1>1, <1>2, LocksHold, PTL DEF Spec

(* Locking and unlocking change no seat.                                     *)
LEMMA MutexKeepsSeats ==
  ASSUME EventsTyped, NEW p \in DOMAIN events, NEW q, NEW t \in Threads \cup {NoThread},
         events' = [events EXCEPT ![q].mutex = t]
  PROVE  events'[p].data = events[p].data
<1>1. CASE q \in DOMAIN events
  <2>1. events'[q].data = events[q].data /\ OthersSame(q)
    BY <1>1, MutexStep
  <2> QED
    BY <2>1 DEF OthersSame
<1>2. CASE q \notin DOMAIN events
  BY <1>2
<1> QED
  BY <1>1, <1>2

(* No step changes a seat that is taken.                                     *)
LEMMA NextKeepsReservations ==
  ASSUME Locked, SeatsAreFree, [Next]_vars,
         NEW p \in DOMAIN events, NEW s \in Seats(events[p]), events[p].data[s] # 0
  PROVE  events'[p].data[s] = events[p].data[s]
<1>1. EventsTyped /\ LocalsTyped /\ Typed
  BY DEF Locked, Typed
<1>2. ASSUME NEW w \in Workers, ReserveWrite(w), p = ev[w]
      PROVE  events'[p].data[s] = events[p].data[s]
  <2> DEFINE x == seat_index(events[ev[w]], call[w].seats[k[w] + 1])
  <2>1. /\ pc[w] = "write" /\ k[w] < Len(call[w].seats)
        /\ events' = [events EXCEPT ![p].data[x] = rid[w]]
    BY <1>2 DEF ReserveWrite, At
  <2>2. call[w].seats \in Seq(Nat \X Nat) /\ k[w] \in Nat /\ rid[w] \in Nat
    BY <1>1, <2>1, RequestAssumption
    DEF Typed, CallsFit, ReserveCalls, LocalsTyped, Threads
  <2>3. k[w] + 1 \in DOMAIN call[w].seats /\ k[w] + 1 > k[w]
    BY <2>1, <2>2, LenProperties
  <2>4. events[p].data[x] \in {0, rid[w]}
    BY <1>2, <2>1, <2>3 DEF SeatsAreFree
  <2> HIDE DEF x
  <2>5. /\ events'[p].data[s] \in {rid[w], events[p].data[s]}
        /\ s # x => events'[p].data[s] = events[p].data[s]
    <3>1. /\ EventsTyped /\ p \in DOMAIN events /\ rid[w] \in Nat
          /\ events' = [events EXCEPT ![p].data[x] = rid[w]]
      BY <1>1, <2>1, <2>2
    <3>2. \A y \in Seats(events[p]) : events'[p].data[y] \in {rid[w], events[p].data[y]}
      BY ONLY <3>1, StoreStep
    <3>3. \A y \in Seats(events[p]) \ {x} : events'[p].data[y] = events[p].data[y]
      BY ONLY <3>1, StoreStep
    <3> QED
      BY <3>2, <3>3
  <2> QED
    BY <2>4, <2>5
<1>3. ASSUME NEW w \in Workers, Call(w) \/ WorkerStep(w), ~(ReserveWrite(w) /\ p = ev[w])
      PROVE  events'[p].data = events[p].data
  <2> USE DEF At
  <2>1. HasEvent(w) => ev[w] \in DOMAIN events
    BY <1>1 DEF Typed, FoundEvents
  <2>2. CASE CreateAppend(w)
    <3>1. call[w].id \in EventIds /\ call[w].dim \in Dims
      BY <1>1, <2>2 DEF CreateAppend, Typed, CallsFit, CreateCalls
    <3> QED
      BY <1>1, <2>2, <3>1, AppendStep DEF CreateAppend
  <2>3. CASE ReserveLock(w)
    <3>1. events' = [events EXCEPT ![ev[w]].mutex = w] /\ w \in Threads
      BY <2>3 DEF ReserveLock, Threads
    <3> QED
      BY <1>1, <3>1, MutexKeepsSeats
  <2>4. CASE ReserveCheck(w)
    <3>1. CASE events' = [events EXCEPT ![ev[w]].reservations = @ + 1]
      <4>1. ev[w] \in DOMAIN events
        BY <2>1, <2>4 DEF ReserveCheck, HasEvent
      <4>2. events'[ev[w]].data = events[ev[w]].data /\ OthersSame(ev[w])
        BY <1>1, <3>1, <4>1, CountStep
      <4> QED
        BY <4>2 DEF OthersSame
    <3>2. CASE UNCHANGED events
      BY <3>2
    <3> QED
      BY <2>4, <3>1, <3>2 DEF ReserveCheck
  <2>5. CASE ReserveWrite(w)
    <3>1. p # ev[w]
      BY <1>3, <2>5
    <3> QED
      BY <2>5, <3>1 DEF ReserveWrite
  <2>6. CASE ReserveUnlock(w) \/ FailEvent(w)
    <3>1. events' = [events EXCEPT ![ev[w]].mutex = NoThread]
      BY <2>6 DEF ReserveUnlock, FailEvent
    <3> QED
      BY <1>1, <3>1, MutexKeepsSeats
  <2>7. CASE UNCHANGED events
    BY <2>7
  <2> QED
    BY <1>3, <2>2, <2>3, <2>4, <2>5, <2>6, <2>7
    DEF Call, WorkerStep, CreateLock, CreateNoMemory, FailList, ReserveLookup, Lookup,
        Fail, NullReturn, ShowLookup, ShowNoMemory, ShowCopy, ShowReturn,
        ListAll, ListEmpty, ListNoMemory, shared
<1>4. CASE ShowAll \/ MainStep
  BY <1>1, <1>4, MainKeepsSeats
<1>5. CASE UNCHANGED vars
  BY <1>5 DEF vars
<1> QED
  BY <1>2, <1>3, <1>4, <1>5 DEF Next, Finished

(* A reserved seat is not given away and not freed: ems_reserve looks at its *)
(* seats and stores its id in one hold of the event's mutex                  *)
(* (operations.c:175-213).                                                   *)
THEOREM ReservationsAreKept == Spec => SeatsKeepTheirReservation
<1>1. Locked /\ SeatsAreFree /\ [Next]_vars =>
        [\A p \in DOMAIN events : \A s \in Seats(events[p]) :
           events[p].data[s] # 0 => events'[p].data[s] = events[p].data[s]]_vars
  BY NextKeepsReservations
<1> QED
  BY <1>1, SeatsHold, PTL DEF Spec, SeatsKeepTheirReservation

(* What ems_reserve stores, it stores inside event->data: the bounds it      *)
(* checked before still hold at every store (operations.c:175-213).          *)
StoresAreInside ==
  \A w \in Workers : At(w, "write") /\ k[w] < Len(call[w].seats) =>
    seat_index(events[ev[w]], call[w].seats[k[w] + 1]) \in DOMAIN events[ev[w]].data

(* No reservation writes outside the event's array, however large the event  *)
(* and whatever is reserved or created meanwhile.                            *)
THEOREM ReservationsStayInside == Spec => []StoresAreInside
<1>1. Locked /\ SeatsAreFree => StoresAreInside
  <2> SUFFICES ASSUME Locked, SeatsAreFree, NEW w \in Workers, pc[w] = "write",
                      k[w] < Len(call[w].seats)
               PROVE  seat_index(events[ev[w]], call[w].seats[k[w] + 1])
                        \in DOMAIN events[ev[w]].data
    BY DEF StoresAreInside, At
  <2>1. /\ EventsTyped /\ ev[w] \in DOMAIN events /\ k[w] \in Nat
        /\ call[w].seats \in Seq(Nat \X Nat)
    BY RequestAssumption
    DEF Locked, Typed, FoundEvents, HasEvent, LocalsTyped, CallsFit, ReserveCalls, Threads
  <2>2. k[w] + 1 \in DOMAIN call[w].seats /\ k[w] + 1 > k[w]
    BY <2>1, LenProperties
  <2>3. seat_index(events[ev[w]], call[w].seats[k[w] + 1]) \in Seats(events[ev[w]])
    BY <2>2 DEF SeatsAreFree
  <2> QED
    BY <2>1, <2>3, EventFacts
<1> QED
  BY <1>1, SeatsHold, PTL
=============================================================================
