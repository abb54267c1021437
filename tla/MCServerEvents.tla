--------------------------- MODULE MCServerEvents ---------------------------
(* Values for the constants of ServerEvents, and the symmetry of its threads. *)
EXTENDS ServerEvents, TLC

OneByTwo == {<<1, 2>>}

(* One seat, the same two seats in both orders, a repeated seat and a seat   *)
(* out of bounds after a valid one.                                          *)
SomeRequests == {<< <<1, 1>> >>, << <<1, 2>>, <<1, 1>> >>, << <<1, 1>>, <<2, 1>> >>}
PairRequests == {<< <<1, 1>>, <<1, 2>> >>, << <<1, 2>> >>}

EmptyList   == {<<>>}
OneEvent    == {<< <<1, <<1, 2>>>> >>}
EmptyOrOne  == EmptyList \cup OneEvent

WorkerSymmetry == Permutations(Workers)
=============================================================================
