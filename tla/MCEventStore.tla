---------------------------- MODULE MCEventStore ----------------------------
(* Calls for TLC, and the symmetry of the threads. *)
EXTENDS EventStore, TLC

Creates == [op : {"create"}, id : EventIds, dim : {<<1, 2>>}]

(* The two seats in either order: the store itself does not sort.            *)
Reserves ==
  [op : {"reserve"}, id : {1},
   seats : {<< <<1, 1>>, <<1, 2>> >>, << <<1, 2>>, <<1, 1>> >>}]

AllCalls == Creates \cup Reserves \cup {[op |-> "show", id |-> 1], [op |-> "list"]}

CreatesAndReserves == Creates \cup Reserves
OnlyCreates        == Creates

ThreadSymmetry == Permutations(Threads)
=============================================================================
