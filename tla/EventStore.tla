----------------------------- MODULE EventStore -----------------------------
(***************************************************************************)
(* The event store of the job processes: proj1/operations.c, eventlist.c.  *)
(* The list is guarded by a mutex that is released between looking an      *)
(* event up and using it; an event by a lock that ems_reserve takes and    *)
(* releases once for the number and once for every seat.  Each of these    *)
(* critical sections is one step, and nothing else is shared.              *)
(***************************************************************************)
EXTENDS Integers, Sequences, FiniteSets

CONSTANTS Threads,      \* the threads of the process
          EventIds,     \* the event ids the commands use
          Calls,        \* the calls of the standalone specification
          MaxCalls,     \* bound: calls of each thread there
          MallocFails   \* whether malloc may return NULL

ASSUME BoundAssumption == MaxCalls \in Nat /\ MallocFails \in BOOLEAN
ASSUME CallAssumption ==
  \A c \in Calls :
    /\ c.op \in {"create", "reserve", "show", "list"}
    /\ c.op # "list" => c.id \in EventIds
    /\ c.op = "create" => c.dim \in Nat \X Nat
    /\ c.op = "reserve" => c.seats \in Seq(Nat \X Nat) /\ c.seats # <<>>

VARIABLES events,             \* the list, head first
          id_being_processed, \* the id of an event under construction, or -1
          out,                \* what was written to the .out file
          grants,             \* ghost: the reservations that were completed
          pc, call,           \* of each thread: where it is, the call it is in,
          ev,                 \* the event pointer or list node, as a position
          k, rid,             \* the loop index and reservation_id of ems_reserve
          buf,                \* the buffer of ems_show and ems_list_events
          ret,                \* what its last call returned
          left                \* calls it may still make (the bound MaxCalls)

store  == <<events, id_being_processed, out, grants>>
locals == <<call, ev, k, rid, buf>>
steps  == <<store, pc, locals, ret>>
vars   == <<steps, left>>

NoCall == [op |-> "none"]

-----------------------------------------------------------------------------
(* Mutant of NewEvent: the seats start at index 1. *)
NewEventFromOne(id, dim) ==
  [id |-> id, rows |-> dim[1], cols |-> dim[2], reservations |-> 0,
   data |-> [s \in 1 .. dim[1] * dim[2] |-> 0]]

NewEvent(id, dim) ==
  [id |-> id, rows |-> dim[1], cols |-> dim[2], reservations |-> 0,
   data |-> [s \in 0 .. dim[1] * dim[2] - 1 |-> 0]]

(* The position of the event nearest to the head, 0 when there is none. *)
get_event(id) ==
  LET hits == {p \in DOMAIN events : events[p].id = id}
  IN  IF hits = {} THEN 0 ELSE CHOOSE p \in hits : \A q \in hits : p <= q

seat_index(e, c) == (c[1] - 1) * e.cols + c[2] - 1

InBounds(e, c) == c[1] \in 1 .. e.rows /\ c[2] \in 1 .. e.cols

Goto(t, label) == pc' = [pc EXCEPT ![t] = label]
Return(t, r)   == Goto(t, "idle") /\ ret' = [ret EXCEPT ![t] = r]

StoreInit ==
  /\ events = <<>> /\ id_being_processed = -1 /\ out = <<>> /\ grants = {}
  /\ pc = [t \in Threads |-> "idle"]
  /\ call = [t \in Threads |-> NoCall]
  /\ ev = [t \in Threads |-> 0] /\ k = [t \in Threads |-> 0]
  /\ rid = [t \in Threads |-> 0] /\ buf = [t \in Threads |-> <<>>]
  /\ ret = [t \in Threads |-> 0]

Call(t, c) ==
  /\ pc[t] = "idle"
  /\ call' = [call EXCEPT ![t] = c]
  /\ Goto(t, c.op)
  /\ UNCHANGED <<store, ev, k, rid, buf, ret>>

(* The lookup of ems_reserve and ems_show. *)
Find(t, next) ==
  LET p == get_event(call[t].id)
  IN  /\ ev' = [ev EXCEPT ![t] = p]
      /\ \/ p # 0 /\ Goto(t, next) /\ UNCHANGED ret
         \/ p = 0 /\ Return(t, 1)
      /\ UNCHANGED <<store, call, k, rid, buf>>

-----------------------------------------------------------------------------
(* ems_create *)

Exists(id) == get_event(id) # 0

CreateMark(t) ==
  /\ pc[t] = "create"
  /\ \/ /\ Exists(call[t].id) \/ id_being_processed = call[t].id
        /\ Return(t, 1) /\ UNCHANGED store
     \/ /\ ~Exists(call[t].id) /\ id_being_processed # call[t].id
        /\ id_being_processed' = call[t].id
        /\ Goto(t, "append") /\ UNCHANGED <<events, out, grants, ret>>
  /\ UNCHANGED locals

CreateAppend(t) ==
  /\ pc[t] = "append"
  /\ events' = Append(events, NewEvent(call[t].id, call[t].dim))
  /\ id_being_processed' = -1
  /\ Return(t, 0)
  /\ UNCHANGED <<out, grants, locals>>

(* No memory for the event: the mark stays.  For the list node: it goes.     *)
CreateNoMemory(t) ==
  /\ pc[t] = "append" /\ MallocFails
  /\ id_being_processed' \in {id_being_processed, -1}
  /\ Return(t, 1)
  /\ UNCHANGED <<events, out, grants, locals>>

-----------------------------------------------------------------------------
(* ems_reserve *)

ReserveFind(t) == pc[t] = "reserve" /\ Find(t, "count")

ReserveCount(t) ==
  /\ pc[t] = "count"
  /\ events' = [events EXCEPT ![ev[t]].reservations = @ + 1]
  /\ rid' = [rid EXCEPT ![t] = events[ev[t]].reservations + 1]
  /\ k' = [k EXCEPT ![t] = 0]
  /\ Goto(t, "seats")
  /\ UNCHANGED <<id_being_processed, out, grants, call, ev, buf, ret>>

Seat(t, n) == seat_index(events[ev[t]], call[t].seats[n])

(* The seat the loop is at can be taken: it exists and nobody has it. *)
SeatIsFree(t) ==
  /\ InBounds(events[ev[t]], call[t].seats[k[t] + 1])
  /\ events[ev[t]].data[Seat(t, k[t] + 1)] = 0

(* Mutant of TakeSeat: the seat was looked at, but not under the same lock. *)
TakeSeatUnchecked(t) ==
  /\ pc[t] = "seats" /\ k[t] < Len(call[t].seats)
  /\ InBounds(events[ev[t]], call[t].seats[k[t] + 1])
  /\ events' = [events EXCEPT ![ev[t]].data[Seat(t, k[t] + 1)] = rid[t]]
  /\ k' = [k EXCEPT ![t] = @ + 1]
  /\ UNCHANGED <<id_being_processed, out, grants, pc, call, ev, rid, buf, ret>>

TakeSeat(t) ==
  /\ pc[t] = "seats" /\ k[t] < Len(call[t].seats) /\ SeatIsFree(t)
  /\ events' = [events EXCEPT ![ev[t]].data[Seat(t, k[t] + 1)] = rid[t]]
  /\ k' = [k EXCEPT ![t] = @ + 1]
  /\ UNCHANGED <<id_being_processed, out, grants, pc, call, ev, rid, buf, ret>>

RefuseSeat(t) ==
  /\ pc[t] = "seats" /\ k[t] < Len(call[t].seats) /\ ~SeatIsFree(t)
  /\ Goto(t, "rollback")
  /\ UNCHANGED <<store, locals, ret>>

SeatsTaken(t) == {Seat(t, n) : n \in 1 .. k[t]}

(* Every seat is taken: the reservation is complete. *)
ReserveDone(t) ==
  /\ pc[t] = "seats" /\ k[t] = Len(call[t].seats)
  /\ grants' = grants \cup
       {[by |-> t, event |-> ev[t], id |-> rid[t], seats |-> SeatsTaken(t)]}
  /\ Return(t, 0)
  /\ UNCHANGED <<events, id_being_processed, out, locals>>

(* Mutant of Rollback: the seat that was refused is freed as well. *)
RollbackOneMore(t) ==
  /\ pc[t] = "rollback"
  /\ events' = [events EXCEPT ![ev[t]].reservations = @ - 1,
                              ![ev[t]].data = [s \in DOMAIN @ |->
                    IF \E n \in 1 .. k[t] + 1 : s = Seat(t, n) THEN 0 ELSE @[s]]]
  /\ Return(t, 0)
  /\ UNCHANGED <<id_being_processed, out, grants, locals>>

(* Mutant of Rollback: the number is not given back. *)
RollbackKeepsNumber(t) ==
  /\ pc[t] = "rollback"
  /\ events' = [events EXCEPT ![ev[t]].data =
                  [s \in DOMAIN @ |-> IF s \in SeatsTaken(t) THEN 0 ELSE @[s]]]
  /\ Return(t, 0)
  /\ UNCHANGED <<id_being_processed, out, grants, locals>>

(* A seat was refused: the seats taken so far and the number are given back. *)
Rollback(t) ==
  /\ pc[t] = "rollback"
  /\ events' = [events EXCEPT ![ev[t]].reservations = @ - 1,
                              ![ev[t]].data =
                  [s \in DOMAIN @ |-> IF s \in SeatsTaken(t) THEN 0 ELSE @[s]]]
  /\ Return(t, 0)
  /\ UNCHANGED <<id_being_processed, out, grants, locals>>

-----------------------------------------------------------------------------
(* ems_show and ems_list_events.  An id never changes, so reading it and     *)
(* then moving on to the next node is one step.                              *)

ShowFind(t) == pc[t] = "show" /\ Find(t, "copy")

ShowCopy(t) ==
  /\ pc[t] = "copy"
  /\ buf' = [buf EXCEPT ![t] = events[ev[t]].data]
  /\ Goto(t, "print")
  /\ UNCHANGED <<store, call, ev, k, rid, ret>>

Printed(t) == [op |-> call[t].op, text |-> buf[t]]

WriteOut(t) ==
  /\ pc[t] = "print"
  /\ out' = Append(out, Printed(t))
  /\ Return(t, 0)
  /\ UNCHANGED <<events, id_being_processed, grants, locals>>

ListHead(t) ==
  /\ pc[t] = "list"
  /\ buf' = [buf EXCEPT ![t] = <<>>]
  /\ ev' = [ev EXCEPT ![t] = 1]
  /\ \/ /\ events = <<>>
        /\ out' = Append(out, [op |-> "list", text |-> <<>>])   \* "No events"
        /\ Return(t, 0)
     \/ /\ events # <<>>
        /\ Goto(t, "node") /\ UNCHANGED <<out, ret>>
  /\ UNCHANGED <<events, id_being_processed, grants, call, k, rid>>

(* Mutant of ListNode: moves on before it reads the id. *)
ListNodeSkips(t) ==
  /\ pc[t] = "node"
  /\ ev' = [ev EXCEPT ![t] = @ + 1]
  /\ buf' = [buf EXCEPT ![t] = IF ev[t] < Len(events) THEN Append(@, events[ev[t] + 1].id) ELSE @]
  /\ IF ev[t] < Len(events) THEN UNCHANGED pc ELSE Goto(t, "print")
  /\ UNCHANGED <<store, call, k, rid, ret>>

ListNode(t) ==
  /\ pc[t] = "node"
  /\ buf' = [buf EXCEPT ![t] = Append(@, events[ev[t]].id)]
  /\ ev' = [ev EXCEPT ![t] = @ + 1]
  /\ IF ev[t] < Len(events) THEN UNCHANGED pc ELSE Goto(t, "print")
  /\ UNCHANGED <<store, call, k, rid, ret>>

(* The buffer of SHOW or LIST cannot be had, or cannot grow. *)
PrintNoMemory(t) ==
  /\ pc[t] \in {"copy", "node"} /\ MallocFails
  /\ Return(t, 1)
  /\ UNCHANGED <<store, locals>>

-----------------------------------------------------------------------------
Step(t) ==
  \/ CreateMark(t) \/ CreateAppend(t) \/ CreateNoMemory(t)
  \/ ReserveFind(t) \/ ReserveCount(t) \/ TakeSeat(t) \/ RefuseSeat(t)
  \/ ReserveDone(t) \/ Rollback(t)
  \/ ShowFind(t) \/ ShowCopy(t) \/ ListHead(t) \/ ListNode(t)
  \/ WriteOut(t) \/ PrintNoMemory(t)

Init == StoreInit /\ left = [t \in Threads |-> MaxCalls]

Begins(t) == \E c \in Calls : Call(t, c)

Begin(t) == left[t] > 0 /\ left' = [left EXCEPT ![t] = @ - 1] /\ Begins(t)

Next == \E t \in Threads : Begin(t) \/ (Step(t) /\ UNCHANGED left)

Spec == Init /\ [][Next]_vars

(* The store of a process, whose threads may call it at any time.            *)
OpenNext == \E t \in Threads : Begins(t) \/ Step(t)

OpenSpec == StoreInit /\ [][OpenNext]_steps
-----------------------------------------------------------------------------
(* Properties *)

Reserving(t, p) == pc[t] \in {"seats", "rollback"} /\ ev[t] = p

(* Every variable has its type; a thread in the middle of a call works on an *)
(* event of the list, and never past the end of its request.                 *)
TypeOK ==
  /\ \A p \in DOMAIN events :
       /\ events[p].id \in EventIds /\ events[p].reservations \in Nat
       /\ events[p].data \in [0 .. events[p].rows * events[p].cols - 1 -> Nat]
  /\ id_being_processed \in EventIds \cup {-1}
  /\ pc \in [Threads -> {"idle", "create", "append", "reserve", "count", "seats", "rollback",
                         "show", "copy", "list", "node", "print"}]
  /\ call \in [Threads -> Calls \cup {NoCall}]
  /\ rid \in [Threads -> Nat] /\ k \in [Threads -> Nat] /\ ret \in [Threads -> {0, 1}]
  /\ \A t \in Threads :
       /\ pc[t] \in {"count", "seats", "rollback", "copy", "node"} => ev[t] \in DOMAIN events
       /\ pc[t] \in {"seats", "rollback"} => k[t] \in 0 .. Len(call[t].seats)

(* A completed reservation keeps all its seats for ever, whatever concurrent *)
(* reservations take, are refused or give back (operations.c:153-183).       *)
GrantsHold ==
  \A g \in grants : \A s \in g.seats : events[g.event].data[s] = g.id

(* No seat is in two completed reservations.                                 *)
GrantsAreDisjoint ==
  \A g, h \in grants : g # h /\ g.event = h.event => g.seats \cap h.seats = {}

(* Every seat that is not free belongs to a completed reservation or to one  *)
(* still under way, and reservations counts exactly those: a reservation     *)
(* that is given up leaves nothing behind.                                   *)
SeatsAreAccountedFor ==
  \A p \in DOMAIN events :
    LET done == {g \in grants : g.event = p}
        busy == {t \in Threads : Reserving(t, p)}
    IN  /\ events[p].reservations = Cardinality(done) + Cardinality(busy)
        /\ {s \in DOMAIN events[p].data : events[p].data[s] # 0}
             = UNION ({g.seats : g \in done} \cup {SeatsTaken(t) : t \in busy})

(* operations.c:91 "Event already exists": no id is in the list twice.       *)
EventIdsUnique ==
  \A p, q \in DOMAIN events : events[p].id = events[q].id => p = q

(* Every line of LIST in the .out file names the events in the order they    *)
(* were created, none left out in between, although events are appended      *)
(* while the list is walked without holding its mutex (lines 307-342).       *)
ListsArePrefixes ==
  \A n \in DOMAIN out : out[n].op = "list" =>
    /\ Len(out[n].text) <= Len(events)
    /\ \A j \in DOMAIN out[n].text : out[n].text[j] = events[j].id
=============================================================================
