---------------------------- MODULE MCEmsServer -----------------------------
(* Job files for the clients, read by the client's parser, for TLC. *)
EXTENDS EmsServer, TLC

ShortKeywords ==
     "C" :> [op |-> "create",  rest |-> <<"R", " ">>, alone |-> FALSE]
  @@ "R" :> [op |-> "reserve", rest |-> <<"E", " ">>, alone |-> FALSE]
  @@ "S" :> [op |-> "show",    rest |-> <<"H", " ">>, alone |-> FALSE]
  @@ "W" :> [op |-> "wait",    rest |-> <<"A", " ">>, alone |-> FALSE]
  @@ "L" :> [op |-> "list",    rest |-> <<"I">>,      alone |-> TRUE]

Reader == INSTANCE ClientReader WITH Keywords <- ShortKeywords, UIntMax <- 15, MaxCoords <- 2

(* Between them the files have every request.  A last line without a newline *)
(* reads as a number that depends on what the buffer held.                   *)
CreateAndWait == <<"C", "R", " ", "1", " ", "1", " ", "1", "\n", "W", "A", " ", "1", "\n">>
ListAndShow   == <<"L", "I", "\n", "S", "H", " ", "1">>
ListAndCreate == <<"L", "I", "\n", "C", "R", " ", "1", " ", "1", " ", "1", "\n">>
ReserveAndShow ==
  <<"R", "E", " ", "1", " ", "[", "(", "1", ",", "1", ")", "]", "\n", "S", "H", " ", "1">>

CONSTANTS c1, c2, c3

Files(x, y, z) == c1 :> x @@ c2 :> y @@ c3 :> z
(* In the third, a LIST of the empty store can leave both threads in a       *)
(* CREATE, and the last client waiting for one.                              *)
JobScripts == {
  Files(Reader!Script(CreateAndWait, <<>>), Reader!Script(ListAndShow, <<"3">>), <<>>),
  Files(Reader!Script(ReserveAndShow, <<"7">>), Reader!Script(CreateAndWait, <<>>), NoFile),
  Files(Reader!Script(ListAndCreate, <<>>), Reader!Script(CreateAndWait, <<>>), <<>>)}

(* Without a LIST no CREATE waits: only the client without a job file can    *)
(* keep a thread.                                                            *)
LeaverScripts == {
  Files(Reader!Script(ReserveAndShow, <<"7">>), Reader!Script(CreateAndWait, <<>>), NoFile)}
=============================================================================
