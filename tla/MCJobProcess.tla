---------------------------- MODULE MCJobProcess ----------------------------
(* The job files of the repository, with smaller events, for TLC. *)
EXTENDS JobProcess

Create(id)   == [op |-> "create", id |-> id, dim |-> <<2, 2>>]
Reserve(cs)  == [op |-> "reserve", id |-> 1, seats |-> cs]
Show         == [op |-> "show", id |-> 1]
List         == [op |-> "list"]
Barrier      == [op |-> "barrier"]

a == <<1, 1>>   b == <<1, 2>>   c == <<2, 2>>

SomeCommands ==
  {Create(1), Reserve(<<c, a>>), Reserve(<<a, b>>), Reserve(<<b, b>>), Reserve(<<<<3, 1>>>>), Show, List}

(* A BARRIER after every command. *)
WithBarriers(cs) == [n \in 1 .. 2 * Len(cs) |-> IF n % 2 = 1 THEN cs[(n + 1) \div 2] ELSE Barrier]

(* An event, two commands of any kind and a look at the event.               *)
SeparatedFiles ==
  {WithBarriers(<<Create(1), y, z, Show>>) : y \in SomeCommands, z \in SomeCommands}
    \cup {WithBarriers(<<List, y, Create(1), Show>>) : y \in SomeCommands}

(* Reservations in opposite order, and three that overlap in a circle.       *)
RacingFiles ==
  {<<Create(1), Barrier, Reserve(<<a, b>>), Reserve(<<b, a>>)>>,
   <<Create(1), Barrier, Reserve(<<a, b>>), Reserve(<<b, c>>), Reserve(<<c, a>>)>>}

AllFiles == SeparatedFiles \cup RacingFiles

AnyStoreCommand == SomeCommands \cup {Reserve(<<b, a>>), Reserve(<<b, c>>)}
=============================================================================
