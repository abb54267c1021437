---------------------------- MODULE MCJobProgram ----------------------------
(* Directories and files for TLC, with the keywords cut down to two letters. *)
EXTENDS JobProgram, TLC

ShortKeywords ==
     "C" :> [op |-> "create",  rest |-> <<"R", " ">>, alone |-> FALSE]
  @@ "R" :> [op |-> "reserve", rest |-> <<"E", " ">>, alone |-> FALSE]
  @@ "S" :> [op |-> "show",    rest |-> <<"H", " ">>, alone |-> FALSE]
  @@ "W" :> [op |-> "wait",    rest |-> <<"A", " ">>, alone |-> FALSE]
  @@ "L" :> [op |-> "list",    rest |-> <<"I">>,      alone |-> TRUE]
  @@ "B" :> [op |-> "barrier", rest |-> <<"A">>,      alone |-> TRUE]
  @@ "H" :> [op |-> "help",    rest |-> <<"E">>,      alone |-> TRUE]

Command(chars, c) == [text |-> chars \o <<"\n">>, command |-> c, ends_early |-> FALSE]
Refused(chars)    == Command(chars, [op |-> "invalid"])

show == Command(<<"S", "H", " ", "1">>, [op |-> "show", id |-> 1])
list == Command(<<"L", "I">>, [op |-> "list"])

Seats(n) == [m \in 1 .. 6 * n |-> <<"(", "1", ",", "1", ")", " ">>[((m - 1) % 6) + 1]]
Reserve(n) ==
  <<"R", "E", " ", "1", " ", "[">> \o SubSeq(Seats(n), 1, 6 * n - 1) \o <<"]">>

comment == Command(<<"#", " ", "S">>, [op |-> "empty"])
empty   == Command(<<>>, [op |-> "empty"])

(* Every kind of line.  15 is the largest number; a RESERVE has room for     *)
(* three seats, so four are too many.                                        *)
Lines == {
  show, list, comment, empty,
  Command(<<"C", "R", " ", "1", " ", "2", " ", "1", "5">>,
          [op |-> "create", id |-> 1, dim |-> <<2, 15>>]),
  Command(<<"R", "E", " ", "1", " ", "[", "(", "1", ",", "2", ")", "]">>,
          [op |-> "reserve", id |-> 1, seats |-> <<<<1, 2>>>>]),
  Command(<<"R", "E", " ", "2", " ", "[", "(", "2", ",", "1", ")", " ", "(", "1", ",", "1", ")", "]">>,
          [op |-> "reserve", id |-> 2, seats |-> <<<<2, 1>>, <<1, 1>>>>]),
  Refused(Reserve(4)),
  Command(<<"W", "A", " ", "1", "2">>, [op |-> "wait_all", delay |-> 12]),
  Command(<<"W", "A", " ", "1", " ", "2">>, [op |-> "wait_one", delay |-> 1, thread |-> 2]),
  Command(<<"B", "A">>, [op |-> "barrier"]),
  Command(<<"H", "E">>, [op |-> "help"]),
  Refused(<<"S", "x", " ", "1">>),
  Refused(<<"S", "H", " ", "1", "6", " ">>),
  Refused(<<"x">>)}

(* The last line of a file need not have a newline, unless it is a RESERVE.  *)
Unended(l) == [l EXCEPT !.text = SubSeq(@, 1, Len(@) - 1)]
Endless    == {Unended(l) : l \in {k \in Lines : k.command.op # "reserve" /\ Len(k.text) > 1}}

(* Lines whose mistake is their newline, each with the line it takes with it. *)
(* A keyword that a newline cuts short goes on in the line behind it.        *)
Taking(chars, l) == Refused(chars \o <<"\n">> \o SubSeq(l.text, 1, Len(l.text) - 1))
CutByNewline == {
  <<"C", "R", " ", "1">>, <<"C", "R", " ", "1", " ", "2">>,
  <<"R", "E", " ", "1">>, <<"R", "E", " ", "1", " ">>, <<"R", "E", " ", "1", " ", "[">>,
  <<"R", "E", " ", "1", " ", "[", "(", "1">>, <<"R", "E", " ", "1", " ", "[", "(", "1", ",", "2">>,
  <<"R", "E", " ", "1", " ", "[", "(", "1", ",", "2", ")">>,
  <<"R", "E", " ", "1", " ", "[", "(", "1", ",", "2", ")", " ">>,
  <<"S", "H", " ", "1", "6">>, <<"W", "A", " ", "1", "6">>, <<"W", "A", " ", "1", " ", "1", "6">>}
TakingLines ==
  {Taking(chars, l) : chars \in CutByNewline, l \in {show, list, comment, empty}}
    \cup {Taking(chars, l) : chars \in {<<"C">>, <<"S">>, <<"L">>}, l \in {show, list}}

(* Lines with one character changed or left out, of which nothing is said    *)
(* here; nor is it of a RESERVE of three seats: parser.h:42 calls three the  *)
(* maximum, parser.c:208 refuses it.                                         *)
Changed(l, n, c) == [l EXCEPT !.text[n] = c, !.ends_early = TRUE]
Cut(l, n) == [l EXCEPT !.text = SubSeq(@, 1, n - 1) \o SubSeq(@, n + 1, Len(@)), !.ends_early = TRUE]
Misspelt ==
  UNION {UNION {{Changed(l, n, c) : c \in {"\n", "2", " ", "x"}} \cup {Cut(l, n)} : n \in DOMAIN l.text}
         : l \in Lines}
    \cup {[Refused(Reserve(3)) EXCEPT !.ends_early = TRUE]}

OneFile == [{"a.jobs"} -> {<<k, l>> : k \in Lines, l \in Lines \cup Endless}
                           \cup {<<l, show, list>> : l \in Misspelt}
                           \cup {<<l, show>> : l \in TakingLines}]

ManyNames == <<"a.jobs", "b.jobs", "a.out", "c.jobs", "d.jobs", "e.jobs">>
ManyFiles == {[f \in {"a.jobs", "b.jobs", "c.jobs", "d.jobs", "e.jobs"} |->
                IF f = "a.jobs" THEN <<show, list>> ELSE <<show>>]}

AllTexts       == OneFile \cup ManyFiles
AllDirectories == {<<"a.jobs">>, ManyNames, <<"a.out">>}
AllJobsFiles   == {"a.jobs", "b.jobs", "c.jobs", "d.jobs", "e.jobs"}
=============================================================================
