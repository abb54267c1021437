------------------------ MODULE ServerBookingProofs ------------------------
(***************************************************************************)
(* The server's event store books seats as SeatBooking promises, whatever  *)
(* the session threads do at the same time.                                *)
(***************************************************************************)
EXTENDS ServerEventsProofs, FiniteSetTheorems

-----------------------------------------------------------------------------
(* The seats as a caller sees them.                                          *)

(* The seats thread w has still to store its id on.                          *)
ToStore(w) == {seat_index(events[ev[w]], call[w].seats[i]) : i \in k[w] + 1 .. Len(call[w].seats)}
Stores(w, p) == pc[w] = "write" /\ ev[w] = p

(* One thread at most stores to an event, the one that has locked it: what   *)
(* SeatView chooses is determined.                                           *)
LEMMA ViewOfStore ==
  \A p, s : \A w \in Workers : EventsAreLocked /\ Stores(w, p) =>
    SeatView(p, s) = IF s \in ToStore(w) THEN rid[w] ELSE events[p].data[s]
<1> SUFFICES ASSUME NEW p, NEW s, NEW w \in Workers, EventsAreLocked, Stores(w, p)
             PROVE  SeatView(p, s) = IF s \in ToStore(w) THEN rid[w] ELSE events[p].data[s]
  OBVIOUS
<1> DEFINE pending == {v \in Workers :
             /\ At(v, "write") /\ ev[v] = p
             /\ s \in {seat_index(events[p], call[v].seats[i]) : i \in k[v] + 1 .. Len(call[v].seats)}}
<1>1. SeatView(p, s) = IF pending = {} THEN events[p].data[s] ELSE rid[CHOOSE v \in pending : TRUE]
  BY DEF SeatView
<1>2. \A v \in pending : v = w
  BY DEF EventsAreLocked, Inside, Stores, At
<1>3. w \in pending <=> s \in ToStore(w)
  BY DEF Stores, ToStore, At
<1> HIDE DEF pending
<1>4. CASE w \in pending
  <2>1. (CHOOSE v \in pending : TRUE) = w
    BY <1>2, <1>4
  <2> QED
    BY <1>1, <1>3, <1>4, <2>1
<1>5. CASE w \notin pending
  <2>1. pending = {}
    BY <1>2, <1>5
  <2> QED
    BY <1>1, <1>3, <1>5, <2>1
<1> QED
  BY <1>4, <1>5

LEMMA ViewOfRest ==
  \A p, s : (\A w \in Workers : ~Stores(w, p)) => SeatView(p, s) = events[p].data[s]
BY DEF SeatView, Stores, At

LEMMA ViewOfStoreNext ==
  \A p, s : \A w \in Workers : EventsAreLocked' /\ Stores(w, p)' =>
    SeatView(p, s)' = IF s \in ToStore(w)' THEN rid'[w] ELSE events'[p].data[s]
<1>1. (\A p, s : \A w \in Workers : EventsAreLocked /\ Stores(w, p) =>
         SeatView(p, s) = IF s \in ToStore(w) THEN rid[w] ELSE events[p].data[s])'
  BY ViewOfStore, PTL
<1> QED
  BY <1>1

LEMMA ViewOfRestNext ==
  \A p, s : (\A w \in Workers : ~Stores(w, p)') => SeatView(p, s)' = events'[p].data[s]
<1>1. (\A p, s : (\A w \in Workers : ~Stores(w, p)) => SeatView(p, s) = events[p].data[s])'
  BY ViewOfRest, PTL
<1> QED
  BY <1>1

(* What a step does to the booking of event p: nothing, or one reservation   *)
(* of the seats of S.                                                        *)
Kept(p) ==
  /\ SameEvent(p) /\ events'[p].reservations = events[p].reservations
  /\ \A s \in Seats(events[p]) : SeatView(p, s)' = SeatView(p, s)
Booked(p, S) ==
  /\ SameEvent(p) /\ events'[p].reservations = events[p].reservations + 1
  /\ S # {} /\ S \subseteq Seats(events[p])
  /\ \A s \in S : SeatView(p, s) = 0
  /\ \A s \in Seats(events[p]) :
       SeatView(p, s)' = IF s \in S THEN events[p].reservations + 1 ELSE SeatView(p, s)

(* A step that neither stores to an event nor moves a thread that does.      *)
LEMMA KeptAside ==
  ASSUME EventsAreLocked, EventsAreLocked', NEW p \in DOMAIN events,
         SameEvent(p), events'[p].data = events[p].data,
         events'[p].reservations = events[p].reservations,
         \A w \in Workers : Stores(w, p)' <=> Stores(w, p),
         \A w \in Workers : Stores(w, p) =>
           call'[w] = call[w] /\ k'[w] = k[w] /\ rid'[w] = rid[w]
  PROVE  Kept(p)
<1>1. ASSUME NEW s PROVE SeatView(p, s)' = SeatView(p, s)
  <2>1. CASE \A w \in Workers : ~Stores(w, p)
    BY <2>1, ViewOfRest, ViewOfRestNext
  <2>2. ASSUME NEW w \in Workers, Stores(w, p)
        PROVE  SeatView(p, s)' = SeatView(p, s)
    <3>1. /\ Stores(w, p)' /\ call'[w] = call[w] /\ k'[w] = k[w] /\ rid'[w] = rid[w]
          /\ ev[w] = p /\ ev'[w] = p
      BY <2>2 DEF Stores
    <3>2. \A c : seat_index(events'[p], c) = seat_index(events[p], c)
      BY SamePlaces DEF SameEvent
    <3>3. ToStore(w)' = ToStore(w)
      BY <3>1, <3>2 DEF ToStore
    <3>4. SeatView(p, s) = IF s \in ToStore(w) THEN rid[w] ELSE events[p].data[s]
      BY <2>2, ViewOfStore
    <3>5. SeatView(p, s)' = IF s \in ToStore(w)' THEN rid'[w] ELSE events'[p].data[s]
      BY <3>1, ViewOfStoreNext
    <3> QED
      BY <3>1, <3>3, <3>4, <3>5
  <2> QED
    BY <2>1, <2>2
<1> QED
  BY <1>1 DEF Kept

-----------------------------------------------------------------------------
(* How each step changes the booking.                                        *)

(* Locking and unlocking change neither the seats nor the count.             *)
LEMMA MutexKeepsEvent ==
  ASSUME EventsTyped, NEW p \in DOMAIN events, NEW q, NEW t \in Threads \cup {NoThread},
         events' = [events EXCEPT ![q].mutex = t]
  PROVE  /\ SameEvent(p) /\ events'[p].data = events[p].data
         /\ events'[p].reservations = events[p].reservations
<1>1. CASE q \in DOMAIN events
  <2>1. /\ events'[q].data = events[q].data /\ OthersSame(q) /\ SameEvent(q)
        /\ events'[q].reservations = events[q].reservations
    BY <1>1, MutexStep
  <2> QED
    BY <2>1 DEF OthersSame, SameEvent
<1>2. CASE q \notin DOMAIN events
  BY <1>2 DEF SameEvent
<1> QED
  BY <1>1, <1>2

(* Only a reservation changes an event's seats or its count, and only those  *)
(* of its own event.                                                         *)
LEMMA WorkerKeepsEvent ==
  ASSUME Typed, NEW w \in Workers, Call(w) \/ WorkerStep(w), NEW p \in DOMAIN events,
         p = ev[w] => ~ReserveCheck(w) /\ ~ReserveWrite(w)
  PROVE  /\ SameEvent(p) /\ events'[p].data = events[p].data
         /\ events'[p].reservations = events[p].reservations
<1>1. EventsTyped /\ w \in Threads
  BY DEF Typed, Threads
<1>2. CASE CreateAppend(w)
  <2>1. call[w].id \in EventIds /\ call[w].dim \in Dims
    BY <1>2 DEF CreateAppend, Typed, CallsFit, CreateCalls, At
  <2>2. events'[p] = events[p]
    BY <1>1, <1>2, <2>1, AppendStep DEF CreateAppend
  <2> QED
    BY <2>2 DEF SameEvent
<1>3. CASE ReserveLock(w)
  BY <1>1, <1>3, MutexKeepsEvent DEF ReserveLock
<1>4. CASE ReserveCheck(w) \/ ReserveWrite(w)
  <2>1. p # ev[w]
    BY <1>4
  <2>2. events'[p] = events[p]
    BY <1>4, <2>1 DEF ReserveCheck, ReserveWrite
  <2> QED
    BY <2>2 DEF SameEvent
<1>5. CASE ReserveUnlock(w) \/ FailEvent(w)
  BY <1>1, <1>5, MutexKeepsEvent DEF ReserveUnlock, FailEvent
<1>6. CASE UNCHANGED events
  BY <1>6 DEF SameEvent
<1> QED
  BY <1>2, <1>3, <1>4, <1>5, <1>6
  DEF Call, WorkerStep, CreateLock, CreateNoMemory, FailList, ReserveLookup, Lookup,
      Fail, NullReturn, ShowLookup, ShowNoMemory, ShowCopy, ShowReturn,
      ListAll, ListEmpty, ListNoMemory, shared

(* A thread starts to store when its seats are checked, and stops when it    *)
(* unlocks the event.                                                        *)
LEMMA WorkerStores ==
  ASSUME Typed, NEW w \in Workers, Call(w) \/ WorkerStep(w),
         ~ReserveCheck(w), ~ReserveWrite(w), ~ReserveUnlock(w)
  PROVE  pc[w] # "write" /\ pc'[w] # "write"
<1>1. LocalsTyped /\ w \in Threads
  BY DEF Typed, Threads
<1> USE DEF At, Goto, Return
<1>2. CASE Call(w)
  <2>1. PICK c \in Calls : Goto(w, c.op)
    BY <1>2 DEF Call
  <2>2. c.op # "write"
    BY DEF Calls
  <2> QED
    BY <1>1, <1>2, <2>1, <2>2 DEF LocalsTyped, Call
<1> QED
  BY <1>1, <1>2 DEF LocalsTyped, WorkerStep, CreateLock, CreateAppend, CreateNoMemory,
     FailList, ReserveLookup, Lookup, ReserveLock, FailEvent, Fail, NullReturn,
     ShowLookup, ShowNoMemory, ShowCopy, ShowReturn, ListAll, ListEmpty, ListNoMemory

LEMMA OthersStore ==
  ASSUME Typed, NEW w \in Workers, Call(w) \/ WorkerStep(w), NEW v \in Workers \ {w}
  PROVE  /\ pc'[v] = pc[v] /\ ev'[v] = ev[v] /\ call'[v] = call[v]
         /\ k'[v] = k[v] /\ rid'[v] = rid[v]
         /\ \A p : Stores(v, p)' <=> Stores(v, p)
<1>1. /\ pc'[v] = pc[v] /\ ev'[v] = ev[v] /\ call'[v] = call[v]
      /\ k'[v] = k[v] /\ rid'[v] = rid[v]
  BY WorkerCallsFit, WorkerFoundEvents
<1> QED
  BY <1>1 DEF Stores

(* The reservation's thread stores its id on the next of its seats: a caller *)
(* sees the seat as before.                                                  *)
LEMMA StoreKeepsBooking ==
  ASSUME Locked, Locked', SeatsAreFree, NEW w \in Workers, ReserveWrite(w),
         NEW p, p = ev[w]
  PROVE  Kept(p)
<1>1. /\ EventsTyped /\ LocalsTyped /\ w \in Threads /\ p \in DOMAIN events
      /\ k[w] \in Nat /\ rid[w] \in Nat
      /\ call[w] \in ReserveCalls /\ EventsAreLocked /\ EventsAreLocked'
  BY DEF Locked, Typed, CallsFit, FoundEvents, HasEvent, ReserveWrite, At, Threads, LocalsTyped
<1> DEFINE n == k[w] + 1
           x == seat_index(events[p], call[w].seats[n])
<1>2. /\ events' = [events EXCEPT ![p].data[x] = rid[w]]
      /\ k[w] < Len(call[w].seats) /\ k'[w] = n
      /\ ev'[w] = p /\ rid'[w] = rid[w] /\ call'[w] = call[w]
      /\ pc[w] = "write" /\ pc'[w] = "write"
  BY <1>1 DEF ReserveWrite, At, LocalsTyped
<1>3. call[w].seats \in Seq(Nat \X Nat) /\ Len(call[w].seats) \in Nat
  BY <1>1, RequestAssumption, LenProperties DEF ReserveCalls
<1>4. n \in DOMAIN call[w].seats /\ n > k[w] /\ n \in Nat
  BY <1>1, <1>2, <1>3, LenProperties
<1>5. x \in Seats(events[p])
  BY <1>2, <1>4 DEF SeatsAreFree
<1> HIDE DEF x
<1>6. /\ SameEvent(p) /\ events'[p].reservations = events[p].reservations
      /\ events'[p].data[x] = rid[w]
      /\ \A s \in Seats(events[p]) \ {x} : events'[p].data[s] = events[p].data[s]
  BY <1>1, <1>2, <1>5, StoreStep
<1>7. \A c : seat_index(events'[p], c) = seat_index(events[p], c)
  BY <1>6, SamePlaces DEF SameEvent
<1>8. ToStore(w) = ToStore(w)' \cup {x}
  <2>1. k[w] + 1 .. Len(call[w].seats) = (n + 1 .. Len(call[w].seats)) \cup {n}
    BY <1>1, <1>2, <1>3
  <2>2. ToStore(w) = {seat_index(events[p], call[w].seats[i]) : i \in k[w] + 1 .. Len(call[w].seats)}
    BY DEF ToStore
  <2>3. ToStore(w)' = {seat_index(events[p], call[w].seats[i]) : i \in n + 1 .. Len(call[w].seats)}
    BY <1>2, <1>7 DEF ToStore
  <2> HIDE DEF n
  <2> QED
    BY <2>1, <2>2, <2>3 DEF x
<1>9. ASSUME NEW s \in Seats(events[p]) PROVE SeatView(p, s)' = SeatView(p, s)
  <2>1. SeatView(p, s) = IF s \in ToStore(w) THEN rid[w] ELSE events[p].data[s]
    BY <1>1, <1>2, ViewOfStore DEF Stores
  <2>2. SeatView(p, s)' = IF s \in ToStore(w)' THEN rid'[w] ELSE events'[p].data[s]
    BY <1>1, <1>2, ViewOfStoreNext DEF Stores
  <2> QED
    BY <1>2, <1>6, <1>8, <2>1, <2>2
<1> QED
  BY <1>6, <1>9 DEF Kept

(* All seats are stored: unlocking the event shows nothing new.              *)
LEMMA UnlockKeepsBooking ==
  ASSUME Locked, Locked', NEW w \in Workers, ReserveUnlock(w), NEW p, p = ev[w]
  PROVE  Kept(p)
<1>1. /\ Typed /\ EventsTyped /\ LocalsTyped /\ w \in Threads /\ p \in DOMAIN events
      /\ k[w] \in Nat /\ EventsAreLocked /\ EventsAreLocked'
  BY DEF Locked, Typed, FoundEvents, HasEvent, ReserveUnlock, At, Threads, LocalsTyped
<1>2. /\ events' = [events EXCEPT ![p].mutex = NoThread]
      /\ k[w] = Len(call[w].seats) /\ pc[w] = "write" /\ pc'[w] = "idle"
  BY <1>1 DEF ReserveUnlock, At, Return, Goto, LocalsTyped
<1>3. /\ SameEvent(p) /\ events'[p].reservations = events[p].reservations
      /\ events'[p].data = events[p].data
  BY <1>1, <1>2, MutexStep
<1>4. ToStore(w) = {}
  BY <1>1, <1>2 DEF ToStore
<1>5. \A v \in Workers : ~Stores(v, p)'
  <2>1. ASSUME NEW v \in Workers \ {w} PROVE ~Stores(v, p)
    BY <1>1, <1>2 DEF EventsAreLocked, Inside, Stores
  <2> QED
    BY <1>1, <1>2, <2>1, OthersStore DEF WorkerStep, Stores
<1>6. ASSUME NEW s PROVE SeatView(p, s)' = SeatView(p, s)
  <2>1. SeatView(p, s) = events[p].data[s]
    BY <1>1, <1>2, <1>4, ViewOfStore DEF Stores
  <2> QED
    BY <1>3, <1>5, <2>1, ViewOfRestNext
<1> QED
  BY <1>3, <1>6 DEF Kept

(* The check of the seats is where the reservation happens: it takes all the *)
(* seats it asks for, which are free, or none.                               *)
LEMMA CheckBooks ==
  ASSUME Locked, Locked', NEW w \in Workers, ReserveCheck(w), NEW p, p = ev[w]
  PROVE  Kept(p) \/ \E S : Booked(p, S)
<1>1. /\ Typed /\ EventsTyped /\ LocalsTyped /\ w \in Threads /\ p \in DOMAIN events
      /\ call[w] \in ReserveCalls /\ EventsAreLocked /\ EventsAreLocked'
      /\ pc[w] = "check"
  BY DEF Locked, Typed, CallsFit, FoundEvents, HasEvent, ReserveCheck, At, Threads
<1>2. \A v \in Workers : ~Stores(v, p)
  BY <1>1 DEF EventsAreLocked, Inside, Stores
<1>3. \A s : SeatView(p, s) = events[p].data[s]
  BY <1>2, ViewOfRest
<1>4. \A v \in Workers \ {w} : ~Stores(v, p)'
  BY <1>1, <1>2, OthersStore DEF WorkerStep
<1>5. CASE pc'[w] # "write"
  <2>1. UNCHANGED events
    BY <1>1, <1>5 DEF ReserveCheck, Goto, LocalsTyped
  <2>2. \A v \in Workers : ~Stores(v, p)'
    BY <1>4, <1>5 DEF Stores
  <2>3. \A s : SeatView(p, s)' = SeatView(p, s)
    BY <1>3, <2>1, <2>2, ViewOfRestNext
  <2> QED
    BY <2>1, <2>3 DEF Kept, SameEvent
<1>6. CASE pc'[w] = "write"
  <2>1. /\ events' = [events EXCEPT ![p].reservations = @ + 1]
        /\ rid'[w] = events[p].reservations + 1 /\ k'[w] = 0
        /\ ev'[w] = p /\ call'[w] = call[w]
    BY <1>1, <1>6 DEF ReserveCheck, Goto, LocalsTyped
  <2>2. /\ SameEvent(p) /\ events'[p].reservations = events[p].reservations + 1
        /\ events'[p].data = events[p].data
    BY <1>1, <2>1, CountStep
  <2>3. /\ call[w].seats \in Seq(Nat \X Nat) /\ call[w].seats # <<>>
        /\ DOMAIN call[w].seats = 0 + 1 .. Len(call[w].seats)
        /\ 1 \in DOMAIN call[w].seats
    BY <1>1, RequestAssumption, LenProperties, EmptySeq DEF ReserveCalls
  <2>4. ToStore(w)' = {seat_index(events'[p], call[w].seats[i]) : i \in DOMAIN call[w].seats}
    BY <2>1, <2>3 DEF ToStore
  <2>5. Seats(events'[p]) = Seats(events[p])
    BY <2>2, SamePlaces DEF SameEvent
  <2>6. \A i \in DOMAIN call[w].seats :
          /\ seat_index(events'[p], call[w].seats[i]) \in Seats(events'[p])
          /\ events'[p].data[seat_index(events'[p], call[w].seats[i])] = 0
    BY <1>6, CheckedSeatsAreFree
  <2>7. ToStore(w)' # {} /\ ToStore(w)' \subseteq Seats(events[p])
    BY <2>3, <2>4, <2>5, <2>6
  <2>8. \A s \in ToStore(w)' : SeatView(p, s) = 0
    BY <1>3, <2>2, <2>4, <2>6
  <2>9. \A s : SeatView(p, s)' = IF s \in ToStore(w)' THEN rid'[w] ELSE events'[p].data[s]
    BY <1>1, <1>6, <2>1, ViewOfStoreNext DEF Stores
  <2> QED
    BY <1>3, <2>1, <2>2, <2>7, <2>8, <2>9 DEF Booked
<1> QED
  BY <1>5, <1>6

-----------------------------------------------------------------------------
(* The booking as a whole.                                                   *)

(* A step of the store leaves the booking as it is, makes one reservation in *)
(* one event, or adds an event that nobody has booked.                       *)
AllKept == DOMAIN events' = DOMAIN events /\ \A p \in DOMAIN events : Kept(p)
OneBooked(p, S) ==
  /\ p \in DOMAIN events /\ DOMAIN events' = DOMAIN events /\ Booked(p, S)
  /\ \A q \in DOMAIN events : q # p => Kept(q)
OneCreated(n) ==
  /\ n \notin DOMAIN events /\ DOMAIN events' = DOMAIN events \cup {n}
  /\ \A p \in DOMAIN events : Kept(p) /\ events'[n].id # events[p].id
  /\ events'[n].reservations = 0
  /\ \A s \in Seats(events'[n]) : SeatView(n, s)' = 0

LEMMA WorkerBooks ==
  ASSUME Locked, Locked', SeatsAreFree, NEW w \in Workers, Call(w) \/ WorkerStep(w),
         ~CreateAppend(w)
  PROVE  AllKept \/ \E p, S : OneBooked(p, S)
<1>1. Typed /\ EventsAreLocked /\ EventsAreLocked' /\ DOMAIN events' = DOMAIN events
  BY ListKeepsLength DEF Locked
<1>2. ASSUME NEW p \in DOMAIN events,
             p = ev[w] => ~ReserveCheck(w) /\ ~ReserveWrite(w) /\ ~ReserveUnlock(w)
      PROVE  Kept(p)
  <2>1. /\ SameEvent(p) /\ events'[p].data = events[p].data
        /\ events'[p].reservations = events[p].reservations
    BY <1>1, <1>2, WorkerKeepsEvent
  <2>2. ~Stores(w, p) /\ ~Stores(w, p)'
    <3>1. CASE ReserveCheck(w) \/ ReserveWrite(w) \/ ReserveUnlock(w)
      <4>1. p # ev[w] /\ ev'[w] = ev[w]
        BY <1>2, <3>1 DEF ReserveCheck, ReserveWrite, ReserveUnlock, locals
      <4> QED
        BY <4>1 DEF Stores
    <3>2. CASE ~(ReserveCheck(w) \/ ReserveWrite(w) \/ ReserveUnlock(w))
      BY <1>1, <3>2, WorkerStores DEF Stores
    <3> QED
      BY <3>1, <3>2
  <2>3. \A v \in Workers \ {w} : /\ Stores(v, p)' <=> Stores(v, p)
                                 /\ call'[v] = call[v] /\ k'[v] = k[v] /\ rid'[v] = rid[v]
    BY <1>1, OthersStore
  <2> QED
    BY <1>1, <2>1, <2>2, <2>3, KeptAside
<1>3. PICK e : e = ev[w]
  OBVIOUS
<1>4. CASE ReserveWrite(w) \/ ReserveUnlock(w)
  <2>1. Kept(e)
    BY <1>3, <1>4, StoreKeepsBooking, UnlockKeepsBooking
  <2> QED
    BY <1>1, <1>2, <1>3, <2>1 DEF AllKept
<1>5. CASE ReserveCheck(w)
  <2>1. e \in DOMAIN events
    BY <1>1, <1>3, <1>5 DEF Typed, FoundEvents, HasEvent, ReserveCheck, At
  <2>2. Kept(e) \/ \E S : Booked(e, S)
    BY <1>3, <1>5, CheckBooks
  <2>3. \A q \in DOMAIN events : q # e => Kept(q)
    BY <1>2, <1>3
  <2> QED
    BY <1>1, <2>1, <2>2, <2>3 DEF AllKept, OneBooked
<1>6. CASE ~(ReserveCheck(w) \/ ReserveWrite(w) \/ ReserveUnlock(w))
  BY <1>1, <1>2, <1>6 DEF AllKept
<1> QED
  BY <1>4, <1>5, <1>6

LEMMA CreateBooks ==
  ASSUME Locked, Locked', AppendedIsNew, NEW w \in Workers, CreateAppend(w)
  PROVE  \E n : OneCreated(n)
<1> DEFINE n == Len(events) + 1
<1>1. /\ Typed /\ EventsTyped /\ EventsAreLocked /\ EventsAreLocked' /\ LocalsTyped
      /\ w \in Threads /\ pc[w] = "append"
      /\ call[w].id \in EventIds /\ call[w].dim \in Dims
      /\ events' = Append(events, NewEvent(call[w].id, call[w].dim))
  BY DEF Locked, Typed, CreateAppend, CallsFit, CreateCalls, At, Threads
<1>2. PICK m : m = n
  OBVIOUS
<1> HIDE DEF n
<1>3. /\ DOMAIN events' = DOMAIN events \cup {m} /\ m \notin DOMAIN events
      /\ \A q \in DOMAIN events : events'[q] = events[q]
      /\ events'[m].id = call[w].id /\ events'[m].reservations = 0
      /\ events'[m].data = [s \in Seats(events'[m]) |-> 0]
  BY <1>1, <1>2, AppendStep DEF n
<1>4. pc'[w] # "write"
  BY <1>1 DEF CreateAppend, Return, Goto, LocalsTyped
<1>5. \A v \in Workers \ {w} : /\ \A p : Stores(v, p)' <=> Stores(v, p)
                               /\ call'[v] = call[v] /\ k'[v] = k[v] /\ rid'[v] = rid[v]
  BY <1>1, OthersStore DEF WorkerStep
<1>6. \A p : ~Stores(w, p) /\ ~Stores(w, p)'
  BY <1>1, <1>4 DEF Stores
<1>7. ASSUME NEW p \in DOMAIN events
      PROVE  Kept(p) /\ events'[m].id # events[p].id
  <2>1. /\ SameEvent(p) /\ events'[p].data = events[p].data
        /\ events'[p].reservations = events[p].reservations
    BY <1>3 DEF SameEvent
  <2> QED
    BY <1>1, <1>3, <1>5, <1>6, <2>1, KeptAside DEF AppendedIsNew
<1>8. \A v \in Workers : ~Stores(v, m)'
  <2>1. \A v \in Workers : ~Stores(v, m)
    BY <1>1, <1>3 DEF Typed, FoundEvents, HasEvent, Stores
  <2> QED
    BY <1>5, <1>6, <2>1
<1>9. \A s \in Seats(events'[m]) : SeatView(m, s)' = 0
  BY <1>3, <1>8, ViewOfRestNext
<1> QED
  BY <1>3, <1>7, <1>9 DEF OneCreated

LEMMA MainBooks ==
  ASSUME Locked, Locked', ShowAll \/ MainStep
  PROVE  AllKept
<1>1. /\ Typed /\ EventsTyped /\ EventsAreLocked /\ EventsAreLocked'
      /\ LocalsTyped /\ Main \in Threads
  BY DEF Locked, Typed, Threads
<1>2. /\ DOMAIN events' = DOMAIN events
      /\ \A p \in DOMAIN events : SameEvent(p) /\ events'[p].data = events[p].data
  BY <1>1, MainKeepsSeats
<1>3. \A p \in DOMAIN events : events'[p].reservations = events[p].reservations
  <2>1. CASE ShowAllLock
    BY <1>1, <2>1, MutexKeepsEvent DEF ShowAllLock
  <2>2. CASE ShowAllUnlock
    BY <1>1, <2>2, UnlockAllStep DEF ShowAllUnlock
  <2>3. CASE UNCHANGED events
    BY <2>3
  <2> QED
    BY <2>1, <2>2, <2>3 DEF ShowAll, MainStep, ShowAllPrint
<1>4. \A v \in Workers : /\ \A p : Stores(v, p)' <=> Stores(v, p)
                         /\ call'[v] = call[v] /\ k'[v] = k[v] /\ rid'[v] = rid[v]
  BY <1>1, MainTyped DEF Stores
<1>5. \A p \in DOMAIN events : Kept(p)
  BY <1>1, <1>2, <1>3, <1>4, KeptAside
<1> QED
  BY <1>2, <1>5 DEF AllKept

BookingInv == Locked /\ SeatsAreFree /\ EventIdsUnique /\ AppendedIsNew

LEMMA StepBooks ==
  ASSUME BookingInv, BookingInv', [Next]_vars
  PROVE  AllKept \/ (\E p, S : OneBooked(p, S)) \/ (\E n : OneCreated(n))
<1> USE DEF BookingInv
<1>1. ASSUME NEW w \in Workers, Call(w) \/ WorkerStep(w)
      PROVE  AllKept \/ (\E p, S : OneBooked(p, S)) \/ (\E n : OneCreated(n))
  BY <1>1, WorkerBooks, CreateBooks
<1>2. CASE ShowAll \/ MainStep
  BY <1>2, MainBooks
<1>3. CASE UNCHANGED vars
  BY <1>3 DEF vars, AllKept, Kept, SameEvent, SeatView, At, seat_index
<1> QED
  BY <1>1, <1>2, <1>3 DEF Next, Finished

-----------------------------------------------------------------------------
(* The reservation numbers of an event.                                      *)

(* The ids on the seats of an event, as a caller sees them, are those of its *)
(* reservations, and each reservation has a seat.                            *)
NumbersFit(p) ==
  /\ \A s \in Seats(events[p]) : SeatView(p, s) \in 0 .. events[p].reservations
  /\ \A r \in 1 .. events[p].reservations :
       \E s \in Seats(events[p]) : SeatView(p, s) = r
NumbersInv == \A p \in DOMAIN events : NumbersFit(p)

LEMMA StepNumbers ==
  ASSUME NumbersInv, BookingInv, BookingInv', [Next]_vars
  PROVE  NumbersInv'
<1>0. \A p \in DOMAIN events : events[p].reservations \in Nat
  <2> TAKE p \in DOMAIN events
  <2>1. events[p] \in Event
    BY EventFacts DEF BookingInv, Locked, Typed
  <2> QED
    BY <2>1 DEF Event
<1>1. ASSUME NEW p \in DOMAIN events, Kept(p)
      PROVE  NumbersFit(p)'
  <2>1. Seats(events'[p]) = Seats(events[p])
    BY <1>1, SamePlaces DEF Kept, SameEvent
  <2> QED
    BY <1>1, <2>1 DEF Kept, NumbersInv, NumbersFit
<1>2. ASSUME NEW p \in DOMAIN events, NEW S, Booked(p, S)
      PROVE  NumbersFit(p)'
  <2> DEFINE r == events[p].reservations
  <2>1. Seats(events'[p]) = Seats(events[p]) /\ events'[p].reservations = r + 1 /\ r \in Nat
    BY <1>0, <1>2, SamePlaces DEF Booked, SameEvent
  <2>2. \A s \in Seats(events[p]) : SeatView(p, s)' = IF s \in S THEN r + 1 ELSE SeatView(p, s)
    BY <1>2 DEF Booked
  <2>3. \A s \in Seats(events[p]) : SeatView(p, s) \in 0 .. r
    BY DEF NumbersInv, NumbersFit
  <2>4. \A x \in 1 .. r : \E s \in Seats(events[p]) : SeatView(p, s) = x
    BY DEF NumbersInv, NumbersFit
  <2>5. S # {} /\ S \subseteq Seats(events[p]) /\ \A s \in S : SeatView(p, s) = 0
    BY <1>2 DEF Booked
  <2> HIDE DEF r
  <2>6. \A s \in Seats(events[p]) : SeatView(p, s)' \in 0 .. r + 1
    BY <2>1, <2>2, <2>3
  <2>7. ASSUME NEW x \in 1 .. r + 1
        PROVE  \E s \in Seats(events[p]) : SeatView(p, s)' = x
    <3>1. CASE x = r + 1
      BY <2>2, <2>5, <3>1
    <3>2. CASE x # r + 1
      <4>1. x \in 1 .. r
        BY <2>1, <3>2
      <4>2. PICK s \in Seats(events[p]) : SeatView(p, s) = x
        BY <2>4, <4>1
      <4>3. s \notin S
        BY <2>5, <4>1, <4>2
      <4> QED
        BY <2>2, <4>2, <4>3
    <3> QED
      BY <3>1, <3>2
  <2> QED
    BY <2>1, <2>6, <2>7 DEF NumbersFit
<1>3. ASSUME NEW n, OneCreated(n)
      PROVE  NumbersFit(n)'
  BY <1>3 DEF OneCreated, NumbersFit
<1>4. CASE AllKept
  BY <1>1, <1>4 DEF AllKept, NumbersInv
<1>5. ASSUME NEW p, NEW S, OneBooked(p, S) PROVE NumbersInv'
  BY <1>1, <1>2, <1>5 DEF OneBooked, NumbersInv
<1>6. ASSUME NEW n, OneCreated(n) PROVE NumbersInv'
  BY <1>1, <1>3, <1>6 DEF OneCreated, NumbersInv
<1> QED
  BY <1>4, <1>5, <1>6, StepBooks

LEMMA BookingInvHolds == Spec => []BookingInv
<1>1. Locked /\ SeatsAreFree /\ EventIdsUnique /\ AppendedIsNew => BookingInv
  BY DEF BookingInv
<1> QED
  BY <1>1, SeatsHold, IdsHold, PTL

LEMMA NumbersHold == Spec => [](BookingInv /\ NumbersInv)
<1>1. Init => NumbersInv
  <2> SUFFICES ASSUME Init, NEW p \in DOMAIN events
               PROVE  NumbersFit(p)
    BY DEF NumbersInv
  <2>1. \A w \in Workers : ~Stores(w, p)
    BY DEF Init, Threads, Stores
  <2>2. events[p].reservations = 0 /\ events[p].data = [s \in Seats(events[p]) |-> 0]
    BY InitEvents
  <2>3. \A s \in Seats(events[p]) : SeatView(p, s) = 0
    BY <2>1, <2>2, ViewOfRest
  <2> QED
    BY <2>2, <2>3 DEF NumbersFit
<1>2. NumbersInv /\ BookingInv /\ BookingInv' /\ [Next]_vars => NumbersInv'
  BY StepNumbers
<1> QED
  BY <1>1, <1>2, BookingInvHolds, PTL DEF Spec

(* A reservation that fails takes no number, and one that succeeds has a     *)
(* seat: once no session is inside an event, the ids on its seats are        *)
(* exactly 1 .. reservations (operations.c:175-213).                         *)
THEOREM NumbersAreOnSeats == Spec => []IssuedIdsAreOnSeats
<1>1. BookingInv /\ NumbersInv => IssuedIdsAreOnSeats
  <2> SUFFICES ASSUME BookingInv, NumbersInv, NEW p \in DOMAIN events,
                      events[p].mutex \in {NoThread, Main}
               PROVE  {events[p].data[s] : s \in Seats(events[p])} \ {0}
                        = 1 .. events[p].reservations
    BY DEF IssuedIdsAreOnSeats
  <2>1. \A w \in Workers : ~Stores(w, p)
    BY ThreadAssumption DEF BookingInv, Locked, EventsAreLocked, Inside, Stores, Threads
  <2>2. \A s : SeatView(p, s) = events[p].data[s]
    BY <2>1, ViewOfRest
  <2>3. events[p].reservations \in Nat
    <3>1. events[p] \in Event
      BY EventFacts DEF BookingInv, Locked, Typed
    <3> QED
      BY <3>1 DEF Event
  <2>4. /\ \A s \in Seats(events[p]) : events[p].data[s] \in 0 .. events[p].reservations
        /\ \A r \in 1 .. events[p].reservations :
             \E s \in Seats(events[p]) : events[p].data[s] = r
    BY <2>2 DEF NumbersInv, NumbersFit
  <2>5. ASSUME NEW r \in 1 .. events[p].reservations
        PROVE  r \in {events[p].data[s] : s \in Seats(events[p])} \ {0}
    BY <2>3, <2>4
  <2>6. ASSUME NEW s \in Seats(events[p]), events[p].data[s] # 0
        PROVE  events[p].data[s] \in 1 .. events[p].reservations
    BY <2>3, <2>4, <2>6
  <2> QED
    BY <2>5, <2>6
<1> QED
  BY <1>1, NumbersHold, PTL

-----------------------------------------------------------------------------
(* What SHOW answers. *)

(* What ems_show has copied are seats of the event it found, and those that  *)
(* were taken are taken by the same reservation now.                         *)
CopyFits(w) ==
  \A s \in DOMAIN copy[w] :
    /\ ev[w] \in DOMAIN events /\ s \in Seats(events[ev[w]])
    /\ copy[w][s] # 0 => events[ev[w]].data[s] = copy[w][s]

(* Before the lookup nothing is copied.                                      *)
CopyInv ==
  /\ copy = [t \in Threads |-> copy[t]]
  /\ \A w \in Workers :
       /\ pc[w] = "list" => call[w].op = "list"
       /\ pc[w] = "copy" => ev[w] \in DOMAIN events
       /\ call[w].op = "show" => CopyFits(w) /\ (pc[w] = "show" => DOMAIN copy[w] = {})

LEMMA CopyKept ==
  ASSUME Locked, SeatsAreFree, [Next]_vars, ListGrows, NEW w \in Workers, CopyFits(w),
         copy'[w] = copy[w], ev'[w] = ev[w]
  PROVE  CopyFits(w)'
<1> SUFFICES ASSUME NEW s \in DOMAIN copy[w]
             PROVE  /\ ev[w] \in DOMAIN events' /\ s \in Seats(events'[ev[w]])
                    /\ copy[w][s] # 0 => events'[ev[w]].data[s] = copy[w][s]
  BY DEF CopyFits
<1>1. /\ ev[w] \in DOMAIN events /\ s \in Seats(events[ev[w]])
      /\ copy[w][s] # 0 => events[ev[w]].data[s] = copy[w][s]
  BY DEF CopyFits
<1>2. ev[w] \in DOMAIN events' /\ Seats(events'[ev[w]]) = Seats(events[ev[w]])
  BY <1>1, SamePlaces DEF ListGrows, SameEvent
<1>3. ASSUME copy[w][s] # 0 PROVE events'[ev[w]].data[s] = copy[w][s]
  BY <1>1, <1>3, NextKeepsReservations
<1> QED
  BY <1>1, <1>2, <1>3

LEMMA EmptyCopyFits ==
  ASSUME NEW w, DOMAIN copy'[w] = {}
  PROVE  CopyFits(w)'
BY DEF CopyFits

LEMMA WorkerCopies ==
  ASSUME Locked, SeatsAreFree, CopyInv, Next, NEW w \in Workers, Call(w) \/ WorkerStep(w)
  PROVE  CopyInv'
<1>1. /\ Typed /\ EventsTyped /\ LocalsTyped /\ CallsFit /\ w \in Threads /\ ListGrows
      /\ EventsTyped'
      /\ \A v \in Workers : v \in Threads
      /\ copy = [t \in Threads |-> copy[t]]
  BY WorkerGrowsList DEF Locked, Typed, Threads, CopyInv, ListGrows
<1> USE DEF At, Goto, Return
<1>2. copy' = [t \in Threads |-> copy'[t]] /\ \A v \in Workers \ {w} : copy'[v] = copy[v]
  <2>1. CASE \E x : copy' = [copy EXCEPT ![w] = x]
    BY <1>1, <2>1
  <2>2. CASE UNCHANGED copy
    BY <1>1, <2>2
  <2> QED
    BY <2>1, <2>2 DEF Call, WorkerStep, CreateLock, CreateAppend, CreateNoMemory, FailList,
       ReserveLookup, Lookup, ReserveLock, ReserveCheck, ReserveWrite, ReserveUnlock,
       FailEvent, Fail, NullReturn, ShowLookup, ShowNoMemory, ShowCopy, ShowReturn,
       ListAll, ListEmpty, ListNoMemory, locals
<1>3. ASSUME NEW v \in Workers \ {w}
      PROVE  /\ pc'[v] = "list" => call'[v].op = "list"
             /\ pc'[v] = "copy" => ev'[v] \in DOMAIN events'
             /\ call'[v].op = "show" => CopyFits(v)' /\ (pc'[v] = "show" => DOMAIN copy'[v] = {})
  <2>1. pc'[v] = pc[v] /\ ev'[v] = ev[v] /\ call'[v] = call[v] /\ copy'[v] = copy[v]
    BY <1>1, <1>2, OthersStore
  <2>2. call[v].op = "show" => CopyFits(v)'
    BY <1>1, <2>1, CopyKept DEF CopyInv
  <2> QED
    BY <1>1, <2>1, <2>2 DEF CopyInv, ListGrows
<1>4. /\ pc'[w] = "list" => call'[w].op = "list"
      /\ pc'[w] = "copy" => ev'[w] \in DOMAIN events'
      /\ call'[w].op = "show" => CopyFits(w)' /\ (pc'[w] = "show" => DOMAIN copy'[w] = {})
  <2>1. CASE Call(w)
    <3>1. PICK c \in Calls : call' = [call EXCEPT ![w] = c] /\ Goto(w, c.op)
      BY <2>1 DEF Call
    <3>2. c.op \in {"create", "reserve", "show", "list"}
      BY DEF Calls
    <3>3. pc'[w] = c.op /\ call'[w] = c
      BY <1>1, <3>1 DEF LocalsTyped
    <3>4. DOMAIN copy'[w] = {}
      BY <1>1, <2>1 DEF Call
    <3> QED
      BY <3>2, <3>3, <3>4, EmptyCopyFits
  <2>2. CASE ReserveLookup(w)
    <3>1. call'[w].op = "reserve" /\ pc'[w] \in {"lock_event", "fail"}
      BY <1>1, <2>2 DEF ReserveLookup, Lookup, CallsFit, ReserveCalls, LocalsTyped
    <3> QED
      BY <3>1
  <2>3. CASE ShowLookup(w)
    <3>1. /\ call' = call /\ copy' = copy /\ pc[w] = "show" /\ events' = events
          /\ ev'[w] = get_event(call[w].id)
          /\ pc'[w] = IF get_event(call[w].id) # 0 THEN "copy" ELSE "fail"
      BY <1>1, <2>3 DEF ShowLookup, Lookup, LocalsTyped, Exists, shared
    <3>2. get_event(call[w].id) \in 0 .. Len(events) /\ DOMAIN events = 1 .. Len(events)
          /\ Len(events) \in Nat
      BY <1>1, GetEvent, LenProperties DEF EventsTyped
    <3>3. call[w].op = "show" => DOMAIN copy'[w] = {}
      BY <3>1 DEF CopyInv
    <3> QED
      BY <3>1, <3>2, <3>3, EmptyCopyFits
  <2>4. CASE ShowCopy(w)
    <3>1. PICK s \in DOMAIN events[ev[w]].data :
            copy' = [copy EXCEPT ![w] =
                       [x \in DOMAIN copy[w] \cup {s} |->
                          IF x = s THEN events[ev[w]].data[s] ELSE copy[w][x]]]
      BY <2>4 DEF ShowCopy
    <3>2. /\ call' = call /\ ev' = ev /\ events' = events /\ pc' = pc /\ pc[w] = "copy"
          /\ ev[w] \in DOMAIN events
      BY <2>4 DEF ShowCopy, shared, CopyInv
    <3>3. DOMAIN events[ev[w]].data = Seats(events[ev[w]])
      BY <1>1, <3>2, EventFacts
    <3>4. copy'[w] = [x \in DOMAIN copy[w] \cup {s} |->
                        IF x = s THEN events[ev[w]].data[s] ELSE copy[w][x]]
      BY <1>1, <3>1
    <3>5. CopyFits(w) => CopyFits(w)'
      BY <3>2, <3>3, <3>4 DEF CopyFits
    <3> QED
      BY <3>2, <3>5 DEF CopyInv
  <2>5. CASE ListAll(w)
    <3>1. call'[w].op = "list" /\ pc'[w] = "idle"
      BY <1>1, <2>5 DEF ListAll, CopyInv, LocalsTyped
    <3> QED
      BY <3>1
  <2>6. CASE /\ UNCHANGED <<call, ev, copy>>
             /\ pc'[w] \notin {"list", "copy", "show"}
    <3>1. CopyFits(w) => CopyFits(w)'
      BY <1>1, <2>6, CopyKept
    <3> QED
      BY <2>6, <3>1 DEF CopyInv
  <2>7. CASE WorkerStep(w) /\ ~ReserveLookup(w) /\ ~ShowLookup(w) /\ ~ShowCopy(w) /\ ~ListAll(w)
    <3>1. UNCHANGED <<call, ev, copy>>
      BY <2>7 DEF WorkerStep, CreateLock, CreateAppend, CreateNoMemory, FailList,
         ReserveLock, ReserveCheck, ReserveWrite, ReserveUnlock, FailEvent, Fail,
         NullReturn, ShowNoMemory, ShowReturn, ListEmpty, ListNoMemory, locals
    <3>2. pc'[w] \notin {"list", "copy", "show"}
      BY <1>1, <2>7 DEF LocalsTyped, WorkerStep, CreateLock, CreateAppend, CreateNoMemory,
         FailList, ReserveLock, ReserveCheck, ReserveWrite, ReserveUnlock, FailEvent, Fail,
         NullReturn, ShowNoMemory, ShowReturn, ListEmpty, ListNoMemory
    <3> QED
      BY <2>6, <3>1, <3>2
  <2> QED
    BY <2>1, <2>2, <2>3, <2>4, <2>5, <2>7
<1> QED
  BY <1>2, <1>3, <1>4 DEF CopyInv

LEMMA CopiesHold == Spec => []CopyInv
<1>1. Init => CopyInv
  BY DEF Init, CopyInv, CopyFits, Threads, NoCall
<1>2. Locked /\ SeatsAreFree /\ CopyInv /\ [Next]_vars => CopyInv'
  <2> SUFFICES ASSUME Locked, SeatsAreFree, CopyInv, [Next]_vars
               PROVE  CopyInv'
    OBVIOUS
  <2>1. ASSUME NEW w \in Workers, Call(w) \/ WorkerStep(w) PROVE CopyInv'
    <3>1. Next
      BY <2>1 DEF Next
    <3> QED
      BY <2>1, <3>1, WorkerCopies
  <2>2. CASE ShowAll \/ MainStep
    <3>1. ListGrows /\ UNCHANGED <<call, ev, copy>> /\ \A v \in Workers : pc'[v] = pc[v]
      BY <2>2, MainGrowsList, MainTyped
      DEF Locked, ShowAll, MainStep, ShowAllLock, ShowAllPrint, ShowAllUnlock, locals
    <3>2. \A v \in Workers : CopyFits(v) => CopyFits(v)'
      BY <3>1, CopyKept
    <3> QED
      BY <3>1, <3>2 DEF CopyInv, ListGrows
  <2>3. CASE UNCHANGED vars
    BY <2>3 DEF vars, CopyInv, CopyFits, Seats
  <2> QED
    BY <2>1, <2>2, <2>3 DEF Next, Finished
<1> QED
  BY <1>1, <1>2, SeatsHold, PTL DEF Spec

(* SHOW never answers with a reservation that does not exist, or that is     *)
(* taken back later, although it copies the seats without the event's lock   *)
(* (operations.c:265-268).                                                   *)
THEOREM ShowIsReal == Spec => []ShowReportsRealReservations
<1>1. CopyInv => ShowReportsRealReservations
  BY DEF CopyInv, CopyFits, ShowReportsRealReservations
<1> QED
  BY <1>1, CopiesHold, PTL

-----------------------------------------------------------------------------
(* The refinement. *)

(* A finite sequence of numbers has a largest one.                           *)
LEMMA LargestOfSequence ==
  ASSUME NEW n \in Nat, n >= 1, NEW g \in [1 .. n -> Nat]
  PROVE  \E i \in 1 .. n : \A j \in 1 .. n : g[j] <= g[i]
<1> DEFINE Top(m) == \E i \in 1 .. m : \A j \in 1 .. m : g[j] <= g[i]
           bad == {m \in 1 .. n : ~Top(m)}
<1>1. Top(1)
  BY 1 \in 1 .. n
<1>2. ASSUME NEW m \in 1 .. n, m # 1, Top(m - 1) PROVE Top(m)
  <2>1. PICK i \in 1 .. m - 1 : \A j \in 1 .. m - 1 : g[j] <= g[i]
    BY <1>2
  <2>2. /\ i \in 1 .. m /\ i \in 1 .. n /\ m \in 1 .. m
        /\ \A j \in 1 .. m : j \in 1 .. m - 1 \/ j = m
    OBVIOUS
  <2>3. /\ g[i] \in Nat /\ g[m] \in Nat
        /\ \A j \in 1 .. m - 1 : g[j] \in Nat
    BY <2>2
  <2>4. CASE g[m] <= g[i]
    <3>1. \A j \in 1 .. m : g[j] <= g[i]
      BY <2>1, <2>2, <2>4
    <3> QED
      BY <2>2, <3>1
  <2>5. CASE g[i] <= g[m]
    <3>1. \A j \in 1 .. m : g[j] <= g[m]
      BY <2>1, <2>2, <2>3, <2>5
    <3> QED
      BY <2>2, <3>1
  <2> QED
    BY <2>3, <2>4, <2>5
<1> HIDE DEF Top
<1>3. bad = {}
  <2> SUFFICES ASSUME bad # {} PROVE FALSE
    OBVIOUS
  <2>1. bad \in SUBSET Nat
    OBVIOUS
  <2> HIDE DEF bad
  <2>2. PICK m \in bad : \A q \in bad : m <= q
    BY <2>1, SmallestPosition
  <2> USE DEF bad
  <2>3. m \in 1 .. n /\ ~Top(m) /\ m # 1
    BY <1>1
  <2>4. m - 1 \in 1 .. n /\ ~(m <= m - 1)
    BY <2>3
  <2>5. m - 1 \notin bad
    BY <2>2, <2>4
  <2> QED
    BY <1>2, <2>3, <2>4, <2>5
<1>4. Top(n)
  BY <1>3
<1> QED
  BY <1>4 DEF Top

(* MaxSeats is the largest of the sizes a client may ask for.                *)
LEMMA LargestSize ==
  ASSUME NEW any \in Dims
  PROVE  \A d \in Dims : d[1] * d[2] \in 0 .. MaxSeats
<1> DEFINE size(d) == d[1] * d[2]
           Sizes == {size(d) : d \in Dims}
<1>1. \A d \in Dims : size(d) \in Nat
  BY RequestAssumption
<1>2. MaxSeats = CHOOSE m \in Sizes : \A d \in Dims : size(d) <= m
  BY DEF MaxSeats
<1> HIDE DEF size
<1>3. \E m \in Sizes : \A d \in Dims : size(d) <= m
  <2>0. PICK n \in Nat : n = Cardinality(Dims)
    BY RequestAssumption, FS_CardinalityType
  <2>1. PICK f \in [1 .. n -> Dims] : \A d \in Dims : \E i \in 1 .. n : f[i] = d
    BY <2>0, RequestAssumption, FS_CardinalityType DEF ExistsBijection, Bijection, Surjection
  <2> DEFINE g == [i \in 1 .. n |-> size(f[i])]
  <2>2. n >= 1 /\ g \in [1 .. n -> Nat]
    BY <1>1, <2>1
  <2> HIDE DEF g
  <2>3. PICK i \in 1 .. n : \A j \in 1 .. n : g[j] <= g[i]
    BY <2>2, LargestOfSequence
  <2>4. \A j \in 1 .. n : g[j] = size(f[j])
    BY DEF g
  <2>5. size(f[i]) \in Sizes
    BY <2>1
  <2> HIDE DEF Sizes
  <2>6. \A d \in Dims : size(d) <= size(f[i])
    BY <2>1, <2>3, <2>4
  <2> QED
    BY <2>5, <2>6
<1>4. MaxSeats \in Sizes /\ \A d \in Dims : size(d) <= MaxSeats
  BY <1>2, <1>3
<1>5. MaxSeats \in Nat
  BY <1>1, <1>4
<1>6. \A d \in Dims : size(d) \in 0 .. MaxSeats
  BY <1>1, <1>4, <1>5
<1> QED
  BY <1>6 DEF size

(* The two functions SeatBooking is instantiated with, by position.          *)
Ids == {events[p].id : p \in DOMAIN events}
BookOf(p) == [s \in Seats(events[p]) |-> SeatView(p, s)]
ViewsByPosition ==
  /\ BookingView = [id \in Ids |-> BookingView[id]]
  /\ IssuedView = [id \in Ids |-> IssuedView[id]]
  /\ \A p \in DOMAIN events :
       /\ BookingView[events[p].id] = BookOf(p)
       /\ IssuedView[events[p].id] = events[p].reservations

LEMMA Views == EventsTyped /\ EventIdsUnique => ViewsByPosition
<1> SUFFICES ASSUME EventsTyped, EventIdsUnique PROVE ViewsByPosition
  OBVIOUS
<1>1. ASSUME NEW p \in DOMAIN events PROVE get_event(events[p].id) = p
  <2>1. /\ get_event(events[p].id) \in 0 .. Len(events)
        /\ get_event(events[p].id) # 0 => events[get_event(events[p].id)].id = events[p].id
        /\ get_event(events[p].id) # 0
    BY GetEvent DEF EventsTyped
  <2>2. DOMAIN events = 1 .. Len(events) /\ Len(events) \in Nat
    BY LenProperties DEF EventsTyped
  <2>3. get_event(events[p].id) \in DOMAIN events
    BY <2>1, <2>2
  <2> QED
    BY <2>1, <2>3 DEF EventIdsUnique
<1>2. BookingView = [id \in Ids |-> BookOf(get_event(id))]
  BY DEF BookingView, Ids, BookOf
<1>3. IssuedView = [id \in Ids |-> events[get_event(id)].reservations]
  BY DEF IssuedView, Ids
<1>4. \A p \in DOMAIN events : events[p].id \in Ids
  BY DEF Ids
<1> QED
  BY <1>1, <1>2, <1>3, <1>4 DEF ViewsByPosition

LEMMA ViewsNext == EventsTyped' /\ EventIdsUnique' => ViewsByPosition'
BY Views, PTL

(* Events that are kept keep their booking.                                  *)
LEMMA KeptBook ==
  ASSUME ViewsByPosition, ViewsByPosition', NEW p \in DOMAIN events, p \in DOMAIN events',
         Kept(p)
  PROVE  /\ BookingView'[events[p].id] = BookingView[events[p].id]
         /\ IssuedView'[events[p].id] = IssuedView[events[p].id]
<1>1. /\ events'[p].id = events[p].id /\ events'[p].reservations = events[p].reservations
      /\ Seats(events'[p]) = Seats(events[p])
      /\ \A s \in Seats(events[p]) : SeatView(p, s)' = SeatView(p, s)
  BY SamePlaces DEF Kept, SameEvent
<1>2. BookOf(p)' = BookOf(p)
  BY <1>1 DEF BookOf
<1> QED
  BY <1>1, <1>2 DEF ViewsByPosition

LEMMA KeptIsStutter ==
  ASSUME ViewsByPosition, ViewsByPosition', AllKept
  PROVE  BookingView' = BookingView /\ IssuedView' = IssuedView
<1>1. Ids' = Ids
  BY DEF Ids, AllKept, Kept, SameEvent
<1>2. \A id \in Ids : BookingView'[id] = BookingView[id] /\ IssuedView'[id] = IssuedView[id]
  <2> SUFFICES ASSUME NEW p \in DOMAIN events
               PROVE  /\ BookingView'[events[p].id] = BookingView[events[p].id]
                      /\ IssuedView'[events[p].id] = IssuedView[events[p].id]
    BY DEF Ids
  <2> QED
    BY KeptBook DEF AllKept
<1> QED
  BY <1>1, <1>2 DEF ViewsByPosition

LEMMA BookedIsReserve ==
  ASSUME EventIdsUnique, ViewsByPosition, ViewsByPosition', NEW p, NEW S, OneBooked(p, S)
  PROVE  \E e \in DOMAIN IssuedView : Booking!Reserve(e)
<1> DEFINE e == events[p].id
<1>1. /\ p \in DOMAIN events /\ p \in DOMAIN events' /\ DOMAIN events' = DOMAIN events
      /\ events'[p].id = e /\ events'[p].reservations = events[p].reservations + 1
      /\ Seats(events'[p]) = Seats(events[p])
      /\ S # {} /\ S \subseteq Seats(events[p]) /\ \A s \in S : SeatView(p, s) = 0
      /\ \A s \in Seats(events[p]) :
           SeatView(p, s)' = IF s \in S THEN events[p].reservations + 1 ELSE SeatView(p, s)
  BY SamePlaces DEF OneBooked, Booked, SameEvent
<1>2. /\ DOMAIN BookingView = Ids /\ DOMAIN IssuedView = Ids /\ e \in Ids
      /\ BookingView[e] = BookOf(p) /\ BookingView'[e] = BookOf(p)'
      /\ IssuedView[e] = events[p].reservations
      /\ IssuedView'[e] = events[p].reservations + 1
  BY <1>1 DEF ViewsByPosition, Ids
<1>3. Ids' = Ids
  BY <1>1 DEF Ids, OneBooked, Kept, SameEvent
<1>4. \A id \in Ids \ {e} : BookingView'[id] = BookingView[id] /\ IssuedView'[id] = IssuedView[id]
  <2> SUFFICES ASSUME NEW q \in DOMAIN events, q # p
               PROVE  /\ BookingView'[events[q].id] = BookingView[events[q].id]
                      /\ IssuedView'[events[q].id] = IssuedView[events[q].id]
    BY DEF Ids
  <2> QED
    BY <1>1, KeptBook DEF OneBooked
<1>5. IssuedView' = [IssuedView EXCEPT ![e] = @ + 1]
  BY <1>2, <1>3, <1>4 DEF ViewsByPosition
<1>6. BookOf(p)' = [s \in DOMAIN BookOf(p) |-> IF s \in S THEN IssuedView[e] + 1 ELSE BookOf(p)[s]]
  BY <1>1, <1>2 DEF BookOf
<1>7. /\ DOMAIN BookOf(p) = Seats(events[p])
      /\ \A s \in S : BookOf(p)[s] = 0
  BY <1>1 DEF BookOf
<1> HIDE DEF e
<1>8. BookingView' = [BookingView EXCEPT ![e] =
                        [s \in DOMAIN BookingView[e] |->
                           IF s \in S THEN IssuedView[e] + 1 ELSE BookingView[e][s]]]
  BY <1>2, <1>3, <1>4, <1>6 DEF ViewsByPosition
<1>9. S \in (SUBSET DOMAIN BookingView[e]) \ {{}} /\ \A s \in S : BookingView[e][s] = 0
  BY <1>1, <1>2, <1>7
<1>10. Booking!Reserve(e)
  BY <1>5, <1>8, <1>9 DEF Booking!Reserve
<1> QED
  BY <1>2, <1>10

LEMMA CreatedIsCreate ==
  ASSUME EventsTyped', ViewsByPosition, ViewsByPosition', NEW n, OneCreated(n)
  PROVE  \E e \in EventIds : Booking!Create(e)
<1>1. PICK e : e = events'[n].id
  OBVIOUS
<1>2. /\ n \in DOMAIN events' /\ n \notin DOMAIN events
      /\ DOMAIN events' = DOMAIN events \cup {n}
      /\ \A p \in DOMAIN events : Kept(p) /\ events'[p].id = events[p].id /\ events[p].id # e
      /\ events'[n].reservations = 0
      /\ \A s \in Seats(events'[n]) : SeatView(n, s)' = 0
  BY <1>1 DEF OneCreated, Kept, SameEvent
<1>3. PICK m : m = events'[n].rows * events'[n].cols
  OBVIOUS
<1>4. e \in EventIds /\ m \in 0 .. MaxSeats
  <2>1. events'[n] \in Event /\ <<events'[n].rows, events'[n].cols>> \in Dims
    <3>1. events' \in Seq(Event)
      BY DEF EventsTyped
    <3>2. n \in 1 .. Len(events')
      BY <1>2, <3>1, LenProperties
    <3>3. events'[n] \in Event
      BY <3>1, <3>2, ElementOfSeq
    <3> QED
      BY <1>2, <3>3 DEF EventsTyped
  <2>2. events'[n].id \in EventIds
    BY <2>1 DEF Event
  <2> QED
    BY <1>1, <1>3, <2>1, <2>2, LargestSize
<1>5. /\ DOMAIN BookingView = Ids /\ DOMAIN IssuedView = Ids
      /\ Ids' = Ids \cup {e} /\ e \notin Ids
  BY <1>1, <1>2 DEF ViewsByPosition, Ids
<1>6. IssuedView'[e] = 0 /\ BookingView'[e] = [s \in 0 .. m - 1 |-> 0]
  <2>1. BookOf(n)' = [s \in 0 .. m - 1 |-> 0]
    BY <1>2, <1>3 DEF BookOf, Seats
  <2> QED
    BY <1>1, <1>2, <2>1 DEF ViewsByPosition
<1>7. \A id \in Ids : BookingView'[id] = BookingView[id] /\ IssuedView'[id] = IssuedView[id]
  <2> SUFFICES ASSUME NEW q \in DOMAIN events
               PROVE  /\ BookingView'[events[q].id] = BookingView[events[q].id]
                      /\ IssuedView'[events[q].id] = IssuedView[events[q].id]
    BY DEF Ids
  <2> QED
    BY <1>2, KeptBook
<1>8. IssuedView' = [x \in Ids \cup {e} |-> IF x = e THEN 0 ELSE IssuedView[x]]
  BY <1>5, <1>6, <1>7 DEF ViewsByPosition
<1>9. BookingView' = [x \in Ids \cup {e} |->
                        IF x = e THEN [s \in 0 .. m - 1 |-> 0] ELSE BookingView[x]]
  BY <1>5, <1>6, <1>7 DEF ViewsByPosition
<1>10. Booking!Create(e)
  BY <1>4, <1>5, <1>8, <1>9 DEF Booking!Create, Booking!Created
<1> QED
  BY <1>4, <1>10

LEMMA StartBooking == Init => Booking!BookingInit
<1> SUFFICES ASSUME Init PROVE Booking!BookingInit
  OBVIOUS
<1>1. /\ EventsTyped
      /\ \A p \in DOMAIN events : /\ events[p].reservations = 0
                                  /\ events[p].data = [s \in Seats(events[p]) |-> 0]
  BY InitEvents
<1>2. ViewsByPosition
  BY InitEvents, Views DEF EventIdsUnique
<1>3. \A p : \A w \in Workers : ~Stores(w, p)
  BY DEF Init, Threads, Stores
<1>4. ASSUME NEW p \in DOMAIN events
      PROVE  /\ events[p].id \in EventIds /\ IssuedView[events[p].id] = 0
             /\ \E n \in 0 .. MaxSeats : BookingView[events[p].id] = [s \in 0 .. n - 1 |-> 0]
  <2>1. BookOf(p) = [s \in Seats(events[p]) |-> 0]
    <3>1. \A s : SeatView(p, s) = events[p].data[s]
      BY <1>3, ViewOfRest
    <3>2. \A s \in Seats(events[p]) : events[p].data[s] = 0
      BY <1>1
    <3> QED
      BY <3>1, <3>2 DEF BookOf
  <2>2. events[p] \in Event /\ <<events[p].rows, events[p].cols>> \in Dims
    BY <1>1, EventFacts
  <2>3. events[p].rows * events[p].cols \in 0 .. MaxSeats
    BY <2>2, LargestSize
  <2>4. BookingView[events[p].id] = [s \in 0 .. events[p].rows * events[p].cols - 1 |-> 0]
    BY <1>2, <2>1 DEF ViewsByPosition, Seats
  <2> QED
    BY <1>1, <1>2, <2>2, <2>3, <2>4 DEF ViewsByPosition, Event
<1>5. /\ DOMAIN BookingView = Ids /\ DOMAIN IssuedView = Ids
      /\ \A id \in Ids : id \in EventIds /\ IssuedView[id] = 0
      /\ \A id \in Ids : \E n \in 0 .. MaxSeats : BookingView[id] = [s \in 0 .. n - 1 |-> 0]
  BY <1>2, <1>4 DEF ViewsByPosition, Ids
<1>6. IssuedView = [id \in Ids |-> 0]
  BY <1>2, <1>5 DEF ViewsByPosition
<1> QED
  BY <1>5, <1>6 DEF Booking!BookingInit, Booking!Created

(* All threads together do nothing but create events and reserve free seats, *)
(* one whole reservation after the other, although ems_reserve stores seat   *)
(* by seat (operations.c:78-213).                                            *)
THEOREM StoreIsABooking == Spec => ImplementsBooking
<1>1. BookingInv /\ BookingInv' /\ [Next]_vars => [Booking!BookingNext]_(Booking!bookingVars)
  <2> SUFFICES ASSUME BookingInv, BookingInv', [Next]_vars
               PROVE  [Booking!BookingNext]_(Booking!bookingVars)
    OBVIOUS
  <2>1. EventIdsUnique /\ EventsTyped /\ EventsTyped' /\ ViewsByPosition /\ ViewsByPosition'
    BY Views, ViewsNext DEF BookingInv, Locked, Typed
  <2>2. CASE AllKept
    BY <2>1, <2>2, KeptIsStutter DEF Booking!bookingVars
  <2>3. ASSUME NEW p, NEW S, OneBooked(p, S) PROVE Booking!BookingNext
    BY <2>1, <2>3, BookedIsReserve DEF Booking!BookingNext, Booking!Created
  <2>4. ASSUME NEW n, OneCreated(n) PROVE Booking!BookingNext
    BY <2>1, <2>4, CreatedIsCreate DEF Booking!BookingNext
  <2> QED
    BY <2>2, <2>3, <2>4, StepBooks
<1> QED
  BY <1>1, StartBooking, BookingInvHolds, PTL
  DEF Spec, ImplementsBooking, Booking!BookingSpec
=============================================================================
