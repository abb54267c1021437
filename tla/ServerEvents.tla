---------------------------- MODULE ServerEvents ----------------------------
(***************************************************************************)
(* The event store of the server: proj2/server/operations.c and            *)
(* eventlist.c.  Session threads (Workers) run ems_create, ems_reserve,    *)
(* ems_show and ems_list_events; the main thread runs ems_show_all when    *)
(* SIGUSR1 arrives.  The list is guarded by a readers-writer lock, each    *)
(* event by a mutex, stderr and stdout by print_mutex.                     *)
(*                                                                         *)
(* A step is what a thread does between two points where another thread   *)
(* can see or change what it uses: a critical section nobody can look into *)
(* is one step, the unprotected copy of ems_show and the stores of         *)
(* ems_reserve it races with are one step per seat.                        *)
(***************************************************************************)
EXTENDS Integers, Sequences, FiniteSets

CONSTANTS Workers,      \* the session threads
          Main,         \* the thread that runs ems_show_all
          NoThread,     \* the owner of a free lock
          EventIds,     \* event ids the clients use
          Dims,         \* <<rows, columns>> the clients ask for in CREATE
          Requests,     \* coordinate sequences the clients ask for in RESERVE
          Preloaded,    \* the lists of <<id, dim>> created before Init
          MaxCalls,     \* bound: calls of each thread
          MallocFails   \* whether malloc and calloc may return NULL

Threads == Workers \cup {Main}

ASSUME ThreadAssumption ==
  /\ Main \notin Workers
  /\ NoThread \notin Threads
ASSUME RequestAssumption ==
  /\ Dims \subseteq Nat \X Nat /\ IsFiniteSet(Dims)     \* two numbers of type size_t
  /\ Requests \subseteq Seq(Nat \X Nat)
  /\ <<>> \notin Requests       \* parse_reserve rejects an empty list
ASSUME BoundAssumption == MaxCalls \in Nat /\ MallocFails \in BOOLEAN
ASSUME PreloadedAssumption ==
  /\ Preloaded \subseteq Seq(EventIds \X Dims)
  /\ \A l \in Preloaded : \A i, j \in DOMAIN l : i # j => l[i][1] # l[j][1]

VARIABLES events,   \* the list, head first: what struct Event holds, in order
          readers,  \* readers[t]: read locks thread t holds on the list
          writer,   \* the thread that holds the list's write lock
          printer,  \* the owner of print_mutex
          pc,       \* where each thread is
          call,     \* the call each thread is in
          ev,       \* the event pointer it found, as a position in the list
          k,        \* its loop counter
          rid,      \* its reservation_id
          copy,     \* the seats ems_show has copied so far
          ret,      \* what its last call returned, -1 for a NULL pointer
          left      \* calls it may still make (the bound MaxCalls)

shared == <<events, readers, writer, printer>>
locals == <<call, ev, k, rid, copy>>
vars   == <<events, readers, writer, printer, pc, call, ev, k, rid, copy, ret, left>>

Calls ==
  [op : {"create"}, id : EventIds, dim : Dims]
    \cup [op : {"reserve"}, id : EventIds, seats : Requests]
    \cup [op : {"show"}, id : EventIds]
    \cup [op : {"list"}]

NoCall == [op |-> "none"]

-----------------------------------------------------------------------------
(* The data an operation works on. *)

(* Mutant of NewEvent: the seats start at index 1. *)
NewEventFromOne(id, dim) ==
  [id |-> id, rows |-> dim[1], cols |-> dim[2], reservations |-> 0,
   data |-> [i \in 1 .. dim[1] * dim[2] |-> 0], mutex |-> NoThread]

NewEvent(id, dim) ==
  [id |-> id, rows |-> dim[1], cols |-> dim[2], reservations |-> 0,
   data |-> [i \in 0 .. dim[1] * dim[2] - 1 |-> 0], mutex |-> NoThread]

(* Mutant of get_event: the search stops before the tail. *)
get_event_before_tail(id) ==
  LET hits == {p \in DOMAIN events : events[p].id = id /\ p < Len(events)}
  IN  IF hits = {} THEN 0 ELSE CHOOSE p \in hits : \A q \in hits : p <= q

(* The event with this id nearest to the head, 0 when there is none. *)
get_event(id) ==
  LET hits == {p \in DOMAIN events : events[p].id = id}
  IN  IF hits = {} THEN 0 ELSE CHOOSE p \in hits : \A q \in hits : p <= q

seat_index(e, c) == (c[1] - 1) * e.cols + c[2] - 1

InBounds(e, c) == c[1] \in 1 .. e.rows /\ c[2] \in 1 .. e.cols

SeatsOf(e, cs) == {seat_index(e, cs[i]) : i \in DOMAIN cs}

(* Mutant of CanReserve: only the first seat is looked at. *)
CanReserveFirst(e, cs) == InBounds(e, cs[1]) /\ e.data[seat_index(e, cs[1])] = 0

(* Both loops of ems_reserve before it changes anything. *)
CanReserve(e, cs) ==
  /\ \A i \in DOMAIN cs : InBounds(e, cs[i])
  /\ \A s \in SeatsOf(e, cs) : e.data[s] = 0

-----------------------------------------------------------------------------
(* Threads and locks. *)

At(t, label)   == pc[t] = label
Goto(t, label) == pc' = [pc EXCEPT ![t] = label]
Return(t, r)   == Goto(t, "idle") /\ ret' = [ret EXCEPT ![t] = r]

CanRdLock  == writer = NoThread
CanWrLock  == writer = NoThread /\ \A t \in Threads : readers[t] = 0
CanPrint   == printer = NoThread

Init ==
  /\ \E l \in Preloaded : events = [i \in DOMAIN l |-> NewEvent(l[i][1], l[i][2])]
  /\ readers = [t \in Threads |-> 0]
  /\ writer = NoThread
  /\ printer = NoThread
  /\ pc = [t \in Threads |-> "idle"]
  /\ call = [t \in Threads |-> NoCall]
  /\ ev = [t \in Threads |-> 0]
  /\ k = [t \in Threads |-> 0]
  /\ rid = [t \in Threads |-> 0]
  /\ copy = [t \in Threads |-> <<>>]
  /\ ret = [t \in Threads |-> 0]
  /\ left = [t \in Threads |-> MaxCalls]

(* A session thread has read a request and calls the store. *)
Call(w) ==
  /\ At(w, "idle") /\ left[w] > 0
  /\ left' = [left EXCEPT ![w] = @ - 1]
  /\ \E c \in Calls : call' = [call EXCEPT ![w] = c] /\ Goto(w, c.op)
  /\ copy' = [copy EXCEPT ![w] = <<>>]
  /\ UNCHANGED <<shared, ev, k, rid, ret>>

-----------------------------------------------------------------------------
(* ems_create *)

Exists(id) == get_event(id) # 0

CreateLock(w) ==
  /\ At(w, "create") /\ CanWrLock
  /\ writer' = w
  /\ Goto(w, IF Exists(call[w].id) THEN "fail_list" ELSE "append")
  /\ UNCHANGED <<events, readers, printer, locals, ret, left>>

CreateAppend(w) ==
  /\ At(w, "append")
  /\ events' = Append(events, NewEvent(call[w].id, call[w].dim))
  /\ writer' = NoThread
  /\ Return(w, 0)
  /\ UNCHANGED <<readers, printer, locals, left>>

CreateNoMemory(w) ==
  /\ At(w, "append") /\ MallocFails
  /\ Goto(w, "fail_list")
  /\ UNCHANGED <<shared, locals, ret, left>>

(* Reports the error, then releases the write lock it still holds. *)
FailList(w) ==
  /\ At(w, "fail_list") /\ CanPrint
  /\ writer' = NoThread
  /\ Return(w, 1)
  /\ UNCHANGED <<events, readers, printer, locals, left>>

-----------------------------------------------------------------------------
(* ems_reserve *)

(* The lookup of ems_reserve and ems_show, under the read lock. *)
Lookup(w, next) ==
  /\ CanRdLock
  /\ ev' = [ev EXCEPT ![w] = get_event(call[w].id)]
  /\ Goto(w, IF Exists(call[w].id) THEN next ELSE "fail")
  /\ UNCHANGED <<shared, call, k, rid, copy, ret, left>>

ReserveLookup(w) == At(w, "reserve") /\ Lookup(w, "lock_event")

(* Mutant of ReserveLock: the event's mutex is taken whoever holds it. *)
ReserveLocksNothing(w) ==
  /\ At(w, "lock_event")
  /\ events' = [events EXCEPT ![ev[w]].mutex = w]
  /\ Goto(w, "check")
  /\ UNCHANGED <<readers, writer, printer, locals, ret, left>>

ReserveLock(w) ==
  /\ At(w, "lock_event") /\ events[ev[w]].mutex = NoThread
  /\ events' = [events EXCEPT ![ev[w]].mutex = w]
  /\ Goto(w, "check")
  /\ UNCHANGED <<readers, writer, printer, locals, ret, left>>

(* Mutant of ReserveCheck: the number is taken before the seats are checked. *)
ReserveCountsFirst(w) ==
  /\ At(w, "check")
  /\ events' = [events EXCEPT ![ev[w]].reservations = @ + 1]
  /\ rid' = [rid EXCEPT ![w] = events[ev[w]].reservations + 1]
  /\ k' = [k EXCEPT ![w] = 0]
  /\ Goto(w, IF CanReserve(events[ev[w]], call[w].seats) THEN "write" ELSE "fail_event")
  /\ UNCHANGED <<readers, writer, printer, call, ev, copy, ret, left>>

ReserveCheck(w) ==
  /\ At(w, "check")
  /\ \/ /\ CanReserve(events[ev[w]], call[w].seats)
        /\ events' = [events EXCEPT ![ev[w]].reservations = @ + 1]
        /\ rid' = [rid EXCEPT ![w] = events[ev[w]].reservations + 1]
        /\ k' = [k EXCEPT ![w] = 0]
        /\ Goto(w, "write")
     \/ /\ ~CanReserve(events[ev[w]], call[w].seats)
        /\ Goto(w, "fail_event")
        /\ UNCHANGED <<events, rid, k>>
  /\ UNCHANGED <<readers, writer, printer, call, ev, copy, ret, left>>

ReserveWrite(w) ==
  /\ At(w, "write") /\ k[w] < Len(call[w].seats)
  /\ LET s == seat_index(events[ev[w]], call[w].seats[k[w] + 1])
     IN  events' = [events EXCEPT ![ev[w]].data[s] = rid[w]]
  /\ k' = [k EXCEPT ![w] = @ + 1]
  /\ UNCHANGED <<readers, writer, printer, pc, call, ev, rid, copy, ret, left>>

ReserveUnlock(w) ==
  /\ At(w, "write") /\ k[w] = Len(call[w].seats)
  /\ events' = [events EXCEPT ![ev[w]].mutex = NoThread]
  /\ Return(w, 0)
  /\ UNCHANGED <<readers, writer, printer, locals, left>>

(* Mutant of FailEvent: frees the seats that were asked for. *)
FailEventFreesSeats(w) ==
  /\ At(w, "fail_event") /\ CanPrint
  /\ events' = [events EXCEPT ![ev[w]].mutex = NoThread,
       ![ev[w]].data = [s \in DOMAIN @ |->
          IF s \in SeatsOf(events[ev[w]], call[w].seats) THEN 0 ELSE @[s]]]
  /\ Return(w, 1)
  /\ UNCHANGED <<readers, writer, printer, locals, left>>

(* Mutant of FailEvent: returns without releasing the event. *)
FailEventKeepsMutex(w) ==
  /\ At(w, "fail_event") /\ CanPrint
  /\ Return(w, 1)
  /\ UNCHANGED <<events, readers, writer, printer, locals, left>>

(* Seat out of bounds or already reserved: print, then release the event. *)
FailEvent(w) ==
  /\ At(w, "fail_event") /\ CanPrint
  /\ events' = [events EXCEPT ![ev[w]].mutex = NoThread]
  /\ Return(w, 1)
  /\ UNCHANGED <<readers, writer, printer, locals, left>>

(* An error reported with no lock held: event not found, no memory. *)
Fail(w) ==
  /\ At(w, "fail") /\ CanPrint
  /\ Return(w, 1)
  /\ UNCHANGED <<shared, locals, left>>

(* The malloc of error_return failed: ems_show and ems_list_events give NULL. *)
NullReturn(w) ==
  /\ pc[w] \in {"show", "list"} /\ MallocFails /\ CanPrint
  /\ Return(w, -1)
  /\ UNCHANGED <<shared, locals, left>>

-----------------------------------------------------------------------------
(* ems_show: event->data is copied without event->mutex.  memcpy promises no *)
(* order, and a store it races with is seen or not for each seat.            *)

ShowLookup(w) == At(w, "show") /\ Lookup(w, "copy")

ShowNoMemory(w) ==
  /\ At(w, "copy") /\ copy[w] = <<>> /\ MallocFails
  /\ Goto(w, "fail")
  /\ UNCHANGED <<shared, locals, ret, left>>

ShowCopy(w) ==
  /\ At(w, "copy")
  /\ \E s \in DOMAIN events[ev[w]].data \ DOMAIN copy[w] :
       copy' = [copy EXCEPT ![w] =
                  [x \in DOMAIN copy[w] \cup {s} |->
                     IF x = s THEN events[ev[w]].data[s] ELSE copy[w][x]]]
  /\ UNCHANGED <<shared, pc, call, ev, k, rid, ret, left>>

ShowReturn(w) ==
  /\ At(w, "copy") /\ DOMAIN copy[w] = DOMAIN events[ev[w]].data
  /\ Return(w, 0)
  /\ UNCHANGED <<shared, locals, left>>

-----------------------------------------------------------------------------
(* ems_list_events: returns early on an empty list, and when malloc fails,   *)
(* without pthread_rwlock_unlock.                                            *)

(* Mutant of KeepReadLock: the list is read without its lock. *)
KeepNoLock(t) == UNCHANGED readers

KeepReadLock(t) == readers' = [readers EXCEPT ![t] = @ + 1]

ListAll(w) ==
  /\ At(w, "list") /\ CanRdLock
  /\ events # <<>>
  /\ copy' = [copy EXCEPT ![w] = [p \in DOMAIN events |-> events[p].id]]
  /\ Return(w, 0)
  /\ UNCHANGED <<shared, call, ev, k, rid, left>>

ListEmpty(w) ==
  /\ At(w, "list") /\ CanRdLock
  /\ events = <<>>
  /\ KeepReadLock(w)
  /\ Return(w, 0)
  /\ UNCHANGED <<events, writer, printer, locals, left>>

ListNoMemory(w) ==
  /\ At(w, "list") /\ CanRdLock /\ MallocFails
  /\ KeepReadLock(w)
  /\ Goto(w, "fail")
  /\ UNCHANGED <<events, writer, printer, locals, ret, left>>

-----------------------------------------------------------------------------
(* ems_show_all, in the main thread *)

ShowAll ==
  /\ At(Main, "idle") /\ left[Main] > 0 /\ CanRdLock
  /\ left' = [left EXCEPT ![Main] = @ - 1]
  /\ KeepReadLock(Main)
  /\ k' = [k EXCEPT ![Main] = 0]
  /\ Goto(Main, "lock_events")
  /\ UNCHANGED <<events, writer, printer, call, ev, rid, copy, ret>>

ShowAllLock ==
  /\ At(Main, "lock_events") /\ k[Main] < Len(events)
  /\ events[k[Main] + 1].mutex = NoThread
  /\ events' = [events EXCEPT ![k[Main] + 1].mutex = Main]
  /\ k' = [k EXCEPT ![Main] = @ + 1]
  /\ UNCHANGED <<readers, writer, printer, pc, call, ev, rid, copy, ret, left>>

ShowAllPrint ==
  /\ At(Main, "lock_events") /\ k[Main] = Len(events) /\ CanPrint
  /\ printer' = Main
  /\ Goto(Main, "print")
  /\ UNCHANGED <<events, readers, writer, locals, ret, left>>

ShowAllUnlock ==
  /\ At(Main, "print")
  /\ printer' = NoThread
  /\ events' = [p \in DOMAIN events |-> [events[p] EXCEPT !.mutex = NoThread]]
  /\ readers' = [readers EXCEPT ![Main] = @ - 1]
  /\ Return(Main, 0)
  /\ UNCHANGED <<writer, locals, left>>

-----------------------------------------------------------------------------
WorkerStep(w) ==
  \/ CreateLock(w) \/ CreateAppend(w) \/ CreateNoMemory(w) \/ FailList(w)
  \/ ReserveLookup(w) \/ ReserveLock(w) \/ ReserveCheck(w) \/ ReserveWrite(w)
  \/ ReserveUnlock(w) \/ FailEvent(w) \/ Fail(w) \/ NullReturn(w)
  \/ ShowLookup(w) \/ ShowNoMemory(w) \/ ShowCopy(w) \/ ShowReturn(w)
  \/ ListAll(w) \/ ListEmpty(w) \/ ListNoMemory(w)

MainStep == ShowAllLock \/ ShowAllPrint \/ ShowAllUnlock

(* Every client has sent its last request and got its answer. *)
Finished ==
  /\ \A t \in Threads : At(t, "idle") /\ left[t] = 0
  /\ UNCHANGED vars

Next ==
  \/ \E w \in Workers : Call(w) \/ WorkerStep(w)
  \/ ShowAll \/ MainStep
  \/ Finished

Spec == Init /\ [][Next]_vars

(* A thread that can run does run.  Calls themselves are never forced.       *)
FairSpec ==
  /\ Spec
  /\ \A w \in Workers : WF_vars(WorkerStep(w))
  /\ WF_vars(MainStep)
-----------------------------------------------------------------------------
(* Properties *)

Seats(e) == 0 .. e.rows * e.cols - 1

(* Every variable has its type: the fields of struct Event, the lock owners, *)
(* and the locals of the five operations.                                    *)
TypeOK ==
  /\ \A p \in DOMAIN events :
       /\ events[p].id \in EventIds
       /\ <<events[p].rows, events[p].cols>> \in Dims
       /\ events[p].reservations \in Nat
       /\ events[p].data \in [Seats(events[p]) -> Nat]
       /\ events[p].mutex \in Threads \cup {NoThread}
  /\ readers \in [Threads -> Nat]
  /\ writer \in Workers \cup {NoThread}
  /\ printer \in {Main, NoThread}
  /\ pc \in [Threads -> {"idle", "create", "append", "fail_list", "reserve",
                         "lock_event", "check", "write", "fail_event", "fail",
                         "show", "copy", "list", "lock_events", "print"}]
  /\ call \in [Threads -> Calls \cup {NoCall}]
  /\ ev \in [Threads -> 0 .. Len(events)]
  /\ k \in [Threads -> Nat]
  /\ rid \in [Threads -> Nat]
  /\ ret \in [Threads -> {-1, 0, 1}]
  /\ left \in [Threads -> 0 .. MaxCalls]

(* ems_create tests that the id is new and appends the event in one hold of  *)
(* the write lock, so two sessions creating the same event never both        *)
(* succeed (operations.c:78-143).                                            *)
EventIdsUnique ==
  \A p, q \in DOMAIN events : events[p].id = events[q].id => p = q

(* A reservation that could not be completed changes nothing: whenever no    *)
(* session thread is inside an event, the ids on its seats are exactly       *)
(* 1 .. reservations, each of them on some seat (operations.c:181-213).      *)
IssuedIdsAreOnSeats ==
  \A p \in DOMAIN events :
    events[p].mutex \in {NoThread, Main} =>
      {events[p].data[s] : s \in Seats(events[p])} \ {0} = 1 .. events[p].reservations

(* A seat that was reserved is never given to another reservation nor freed: *)
(* the check and the stores of ems_reserve are in one hold of the mutex.     *)
SeatsKeepTheirReservation ==
  [][\A p \in DOMAIN events : \A s \in Seats(events[p]) :
       events[p].data[s] # 0 => events'[p].data[s] = events[p].data[s]]_vars

(* SHOW never reports a reservation that does not exist: every id in the     *)
(* answer is, and stays, the id on that seat (operations.c:265-268).         *)
ShowReportsRealReservations ==
  \A w \in Workers : call[w].op = "show" /\ pc[w] \in {"idle", "copy"} =>
    \A s \in DOMAIN copy[w] : copy[w][s] # 0 => events[ev[w]].data[s] = copy[w][s]

(* While ems_show_all prints, no session thread can change an event or add   *)
(* one: the picture it prints is of one moment (operations.c:352-420).       *)
ShowAllPrintsOneMoment ==
  [][At(Main, "print") /\ pc'[Main] = "print" => UNCHANGED events]_vars

(* The part of a reservation its thread has not stored yet counts as stored: *)
(* the reservation happens when ems_reserve takes its number.                *)
SeatView(p, s) ==
  LET pending == {w \in Workers :
        /\ At(w, "write") /\ ev[w] = p
        /\ s \in {seat_index(events[p], call[w].seats[i]) : i \in k[w] + 1 .. Len(call[w].seats)}}
  IN  IF pending = {} THEN events[p].data[s] ELSE rid[CHOOSE w \in pending : TRUE]

BookingView ==
  [id \in {events[p].id : p \in DOMAIN events} |->
     LET p == get_event(id) IN [s \in Seats(events[p]) |-> SeatView(p, s)]]
IssuedView ==
  [id \in {events[p].id : p \in DOMAIN events} |-> events[get_event(id)].reservations]

MaxSeats == CHOOSE m \in {d[1] * d[2] : d \in Dims} : \A d \in Dims : d[1] * d[2] <= m

Booking == INSTANCE SeatBooking WITH booking <- BookingView, issued <- IssuedView

(* The threads together do nothing but create events and make whole          *)
(* reservations of free seats, one after the other.                          *)
ImplementsBooking == Booking!BookingSpec

(* Every call returns, whatever the other threads do.                        *)
CallsReturn == \A w \in Threads : ~At(w, "idle") ~> At(w, "idle")

(* operations.h:18 of ems_create: "@return 0 if the event was created        *)
(* successfully, 1 otherwise": it returns.                                   *)
CreateReturns == \A w \in Workers : At(w, "create") ~> At(w, "idle")

(* eventlist.h:15: "Mutex to protect the event": the seats SHOW answers with *)
(* hold each finished reservation either whole or not at all.                *)
ShowIsOneMoment ==
  \A w \in Workers : call[w].op = "show" /\ At(w, "idle") /\ ret[w] = 0 =>
    LET e == events[ev[w]]
    IN  \A r \in 1 .. e.reservations : e.mutex = NoThread =>
          {s \in Seats(e) : copy[w][s] = r} \in {{}, {s \in Seats(e) : e.data[s] = r}}
=============================================================================
