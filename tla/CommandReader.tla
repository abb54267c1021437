--------------------------- MODULE CommandReader ---------------------------
(***************************************************************************)
(* How a line of a job file becomes a command (proj1/parser.c; the parser   *)
(* of the client, proj2/client/parser.c, is the same code but for what the  *)
(* constants say).  A file is a sequence of characters, a position in it is *)
(* where its descriptor is, and each function of the parser is an operator  *)
(* from the position it starts at to what it returns and the position it    *)
(* leaves.  Keywords are a constant: only their first letter, their length  *)
(* and whether they stand alone matter to the code.  Read errors and files  *)
(* with a NUL character are left out; a number has fewer than CMD_BUF_SIZE  *)
(* digits.                                                                 *)
(***************************************************************************)
EXTENDS Integers, Sequences, FiniteSetsExt

CONSTANTS Keywords,     \* first letter -> [op, rest of the word, whether it stands alone]
          UIntMax,      \* UINT_MAX
          MaxCoords,    \* MAX_RESERVATION_SIZE
          TakesThread   \* whether WAIT has a thread_id (proj1) or a NULL in its place

NL      == "\n"
Blank   == " "
Eof     == "end of file"       \* what *next is told by '\0'
LineEnd == {NL, Eof}
Digits  == <<"0", "1", "2", "3", "4", "5", "6", "7", "8", "9">>

At(t, p)     == IF p <= Len(t) THEN t[p] ELSE Eof
Behind(t, p) == IF p <= Len(t) THEN p + 1 ELSE p

IsDigit(c) == \E d \in DOMAIN Digits : Digits[d] = c

ValueOf(ds) ==
  LET value[n \in 0 .. Len(ds)] ==
        IF n = 0 THEN 0
        ELSE 10 * value[n - 1] + (CHOOSE d \in DOMAIN Digits : Digits[d] = ds[n]) - 1
  IN  value[Len(ds)]

(* The digits from p on, and the character behind them, which is read too.   *)
(* No digit at all is the number 0.  `junk` is what the buffer holds behind  *)
(* a number that the end of the file ends: nothing in proj1, which clears    *)
(* the buffer.                                                               *)
read_uint(t, p, junk) ==
  LET stop  == Min({q \in p .. Len(t) : ~IsDigit(t[q])} \cup {Len(t) + 1})
      value == ValueOf(SubSeq(t, p, stop - 1) \o (IF stop > Len(t) THEN junk ELSE <<>>))
  IN  [fits |-> value <= UIntMax, value |-> value, next |-> At(t, stop), pos |-> Behind(t, stop)]

EndsWith(number, chars) == number.fits /\ number.next \in chars

(* Everything up to and with the next newline is dropped.                    *)
cleanup(t, p) == Min({q \in p .. Len(t) : t[q] = NL} \cup {Len(t)}) + 1

Result(command, p) == [command |-> command, pos |-> p]

(* Mutant of Invalid: the caller of a parse function cleans up once more. *)
InvalidCleanedTwice(t, p) == Result([op |-> "invalid"], cleanup(t, cleanup(t, p)))

Invalid(t, p)      == Result([op |-> "invalid"], cleanup(t, p))

(* Mutant of Keyword: what stands behind a keyword is left to be read. *)
KeywordWithoutCleanup(t, p) ==
  LET word == Keywords[t[p]]
      rest == SubSeq(t, p + 1, Min({p + Len(word.rest), Len(t)}))
      end  == p + 1 + Len(rest)
  IN  CASE rest # word.rest                           -> Invalid(t, end)
        [] rest = word.rest /\ ~word.alone            -> Result([op |-> word.op], end)
        [] rest = word.rest /\ word.alone /\ At(t, end) \in LineEnd
                                                      -> Result([op |-> word.op], Behind(t, end))
        [] OTHER                                      -> Result([op |-> "invalid"], Behind(t, end))

(* get_next reads a whole keyword's worth of characters before it compares   *)
(* them, even if a newline is among them.                                    *)
Keyword(t, p) ==
  LET word == Keywords[t[p]]
      rest == SubSeq(t, p + 1, Min({p + Len(word.rest), Len(t)}))
      end  == p + 1 + Len(rest)
  IN  CASE rest # word.rest                           -> Invalid(t, end)
        [] rest = word.rest /\ ~word.alone            -> Result([op |-> word.op], end)
        [] rest = word.rest /\ word.alone /\ At(t, end) \in LineEnd
                                                      -> Result([op |-> word.op], Behind(t, end))
        [] OTHER                                      -> Invalid(t, Behind(t, end))

get_next(t, p) ==
  CASE At(t, p) = Eof              -> Result([op |-> "eoc"], p)
    [] At(t, p) \in DOMAIN Keywords -> Keyword(t, p)
    [] At(t, p) = "#"              -> Result([op |-> "empty"], cleanup(t, p + 1))
    [] At(t, p) = NL               -> Result([op |-> "empty"], p + 1)
    [] OTHER                       -> Invalid(t, p + 1)

parse_create(t, p, junk) ==
  LET id   == read_uint(t, p, junk)
      rows == read_uint(t, id.pos, junk)
      cols == read_uint(t, rows.pos, junk)
  IN  CASE ~EndsWith(id, {Blank})   -> Invalid(t, id.pos)
        [] EndsWith(id, {Blank}) /\ ~EndsWith(rows, {Blank})
                                    -> Invalid(t, rows.pos)
        [] EndsWith(id, {Blank}) /\ EndsWith(rows, {Blank}) /\ ~EndsWith(cols, LineEnd)
                                    -> Invalid(t, cols.pos)
        [] OTHER -> Result([op |-> "create", id |-> id.value, dim |-> <<rows.value, cols.value>>],
                           cols.pos)

(* One round of the loop of parse_reserve: "(x,y)" and the character behind. *)
Coordinate(t, loop, junk) ==
  LET x     == read_uint(t, Behind(t, loop.pos), junk)
      y     == read_uint(t, x.pos, junk)
      after == At(t, y.pos)
      bad(p) == [loop EXCEPT !.at = "bad", !.pos = p]
  IN  CASE At(t, loop.pos) # "("  -> bad(Behind(t, loop.pos))
        [] At(t, loop.pos) = "(" /\ ~EndsWith(x, {","}) -> bad(x.pos)
        [] At(t, loop.pos) = "(" /\ EndsWith(x, {","}) /\ ~EndsWith(y, {")"}) -> bad(y.pos)
        [] OTHER ->
             [at     |-> CASE after = Blank -> "next" [] after = "]" -> "closed" [] OTHER -> "bad",
              pos    |-> Behind(t, y.pos),
              coords |-> Append(loop.coords, <<x.value, y.value>>)]

(* The loop of parse_reserve from p on, of at most MaxCoords rounds.         *)
Coordinates(t, p, junk) ==
  LET loop[n \in 0 .. MaxCoords] ==
        IF n = 0 THEN [at |-> "next", pos |-> p, coords |-> <<>>]
        ELSE IF loop[n - 1].at = "next" THEN Coordinate(t, loop[n - 1], junk) ELSE loop[n - 1]
  IN  loop[MaxCoords]

(* A RESERVE ends at a newline, not at the end of the file, and one with     *)
(* `max` coordinates is refused.                                             *)
Closed(t, id, end) ==
  IF end.at # "closed" \/ Len(end.coords) = MaxCoords THEN Invalid(t, end.pos)
  ELSE IF At(t, end.pos) # NL THEN Invalid(t, Behind(t, end.pos))
  ELSE Result([op |-> "reserve", id |-> id, seats |-> end.coords], end.pos + 1)

parse_reserve(t, p, junk) ==
  LET id == read_uint(t, p, junk)
  IN  CASE ~EndsWith(id, {Blank}) -> Invalid(t, id.pos)
        [] EndsWith(id, {Blank}) /\ At(t, id.pos) # "[" -> Invalid(t, Behind(t, id.pos))
        [] OTHER -> Closed(t, id.value, Coordinates(t, Behind(t, id.pos), junk))

parse_show(t, p, junk) ==
  LET id == read_uint(t, p, junk)
  IN  IF EndsWith(id, LineEnd) THEN Result([op |-> "show", id |-> id.value], id.pos)
      ELSE Invalid(t, id.pos)

(* The client passes no thread_id: what stands behind the delay is dropped.  *)
parse_wait(t, p, junk) ==
  LET delay  == read_uint(t, p, junk)
      thread == read_uint(t, delay.pos, junk)
      all(q) == Result([op |-> "wait_all", delay |-> delay.value], q)
  IN  CASE EndsWith(delay, LineEnd) -> all(delay.pos)
        [] EndsWith(delay, {Blank}) /\ ~TakesThread -> all(cleanup(t, delay.pos))
        [] EndsWith(delay, {Blank}) /\ TakesThread /\ EndsWith(thread, LineEnd) ->
             Result([op |-> "wait_one", delay |-> delay.value, thread |-> thread.value], thread.pos)
        [] EndsWith(delay, {Blank}) /\ TakesThread /\ ~EndsWith(thread, LineEnd) ->
             Invalid(t, thread.pos)
        [] OTHER -> Invalid(t, delay.pos)

(* get_next and the parse function its result calls for.                     *)
ReadCommand(t, p, junk) ==
  LET next == get_next(t, p)
  IN  CASE next.command.op = "create"  -> parse_create(t, next.pos, junk)
        [] next.command.op = "reserve" -> parse_reserve(t, next.pos, junk)
        [] next.command.op = "show"    -> parse_show(t, next.pos, junk)
        [] next.command.op = "wait"    -> parse_wait(t, next.pos, junk)
        [] OTHER                       -> next
=============================================================================
