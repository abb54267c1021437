---------------------------- MODULE MCJobThreads ----------------------------
(* Job files for TLC: every file of up to MaxLines lines over a few commands. *)
EXTENDS JobThreads, TLC

CONSTANT MaxLines     \* bound: the lines of a job file

OneStoreCommand == {[op |-> "list"]}

(* WAIT for all and for one thread, for a thread that does not exist, and    *)
(* for no time, next to a store command, a barrier and an empty line.        *)
FewCommands ==
  OneStoreCommand \cup
  {[op |-> "barrier"], [op |-> "skip"],
   [op |-> "wait_all", delay |-> 1], [op |-> "wait_all", delay |-> 0],
   [op |-> "wait_one", delay |-> 2, thread |-> 1],
   [op |-> "wait_one", delay |-> 1, thread |-> MaxThreads + 1]}

AllFiles == UNION {[1 .. n -> FewCommands] : n \in 0 .. MaxLines}

(* Files in which commands stand on both sides of two barriers.              *)
LongerFiles ==
  LET b == [op |-> "barrier"]  l == [op |-> "list"]  w == [op |-> "wait_all", delay |-> 1]
  IN  {<<l, l, b, l, b>>, <<b, l, b, l, l>>, <<w, l, b, b, l>>, <<l, b, w, l>>}

SomeFiles == AllFiles \cup LongerFiles
=============================================================================
