---------------------------- MODULE ClientReader ----------------------------
(***************************************************************************)
(* What a client finds in its job file (proj2/client/main_client.c:50-126). *)
(* The client's parser (proj2/client/parser.c) is that of proj1, function   *)
(* by function, but for three things: Keywords has no BARRIER, WAIT takes   *)
(* no thread, and the buffer of parse_uint is not cleared, so a number that *)
(* the end of the file ends goes on with the `junk` the buffer holds.       *)
(***************************************************************************)
EXTENDS Integers, Sequences

CONSTANTS Keywords, UIntMax, MaxCoords

Parser == INSTANCE CommandReader WITH TakesThread <- FALSE

parse_uint(t, p, junk)    == Parser!read_uint(t, p, junk)
get_next(t, p)            == Parser!get_next(t, p)
parse_create(t, p, junk)  == Parser!parse_create(t, p, junk)
parse_reserve(t, p, junk) == Parser!parse_reserve(t, p, junk)
parse_show(t, p, junk)    == Parser!parse_show(t, p, junk)
parse_wait(t, p, junk)    == Parser!parse_wait(t, p, junk)

(* One round of the client's loop: the command, and where the next one is.   *)
Round(t, p, junk) ==
  LET next == get_next(t, p)
  IN  CASE next.command.op = "create"  -> parse_create(t, next.pos, junk)
        [] next.command.op = "reserve" -> parse_reserve(t, next.pos, junk)
        [] next.command.op = "show"    -> parse_show(t, next.pos, junk)
        [] next.command.op = "wait"    -> parse_wait(t, next.pos, junk)
        [] OTHER                       -> next

(* All rounds up to EOC.                                                     *)
Script(t, junk) ==
  LET from[p \in 1 .. Len(t) + 1] ==
        LET round == Round(t, p, junk)
        IN  IF round.command.op = "eoc" THEN <<>> ELSE <<round.command>> \o from[round.pos]
  IN  from[1]
=============================================================================
