---------------------------- MODULE SeatBooking ----------------------------
(***************************************************************************)
(* What an event management store promises its callers, with no thread,    *)
(* lock or list in sight: an event is created once, a reservation takes    *)
(* all of its seats in one step or none of them, it gets the next number   *)
(* of its event, and a seat once reserved stays with its reservation.      *)
(* The server's store (ServerEvents) is shown to implement this.           *)
(***************************************************************************)
EXTENDS Integers

CONSTANTS EventIds,   \* the identifiers an event can have
          MaxSeats    \* an event has seats 0 .. n-1 with n at most MaxSeats

VARIABLES booking,    \* booking[e][s]: the reservation seat s of event e
                      \* belongs to, 0 while it is free
          issued      \* issued[e]: how many reservations event e has granted

bookingVars == <<booking, issued>>

Created == DOMAIN issued

(* Some events may exist from the start, with all their seats free. *)
BookingInit ==
  /\ Created \subseteq EventIds
  /\ issued = [e \in Created |-> 0]
  /\ DOMAIN booking = Created
  /\ \A e \in Created : \E n \in 0 .. MaxSeats : booking[e] = [s \in 0 .. n - 1 |-> 0]

(* CREATE e: the event appears with all its seats free. *)
Create(e) ==
  /\ e \notin Created
  /\ issued' = [x \in Created \cup {e} |-> IF x = e THEN 0 ELSE issued[x]]
  /\ \E n \in 0 .. MaxSeats :
       booking' = [x \in Created \cup {e} |->
                    IF x = e THEN [s \in 0 .. n - 1 |-> 0] ELSE booking[x]]

(* RESERVE: all seats of a set S were free, and all of them get one new id. *)
Reserve(e) ==
  /\ issued' = [issued EXCEPT ![e] = @ + 1]
  /\ \E S \in (SUBSET DOMAIN booking[e]) \ {{}} :
       /\ \A s \in S : booking[e][s] = 0
       /\ booking' = [booking EXCEPT ![e] =
                        [s \in DOMAIN @ |-> IF s \in S THEN issued[e] + 1 ELSE @[s]]]

BookingNext == \/ \E e \in EventIds : Create(e)
               \/ \E e \in Created : Reserve(e)

BookingSpec == BookingInit /\ [][BookingNext]_bookingVars
============================================================================
