----------------------------- MODULE JobProgram -----------------------------
(***************************************************************************)
(* proj1 from the directory to the commands: the parent of ProcessPool, and *)
(* children that read their file command by command (proj1/main.c:123-226,  *)
(* 277-395) with the parser of CommandReader.  The threads of a child read  *)
(* under `mutex`, one command at a time: which of them reads makes no       *)
(* difference here.  What they do with the commands is JobProcess.          *)
(***************************************************************************)
EXTENDS ProcessPool

CONSTANTS Keywords, UIntMax, MaxCoords,
          MaxChildFails, \* bound: how many children may give up their file
          Texts          \* the files' contents: functions from names to lines

VARIABLES lines,     \* lines[f]: what file f was written as, piece by piece
          fdR,       \* fdR[f]: the place of the child that reads f
          commands,  \* commands[f]: what it has read
          failed     \* the files whose child has given up

Reader == INSTANCE CommandReader WITH TakesThread <- TRUE

readVars    == <<lines, fdR, commands, failed>>
programVars == <<poolVars, readVars>>

(* A piece is a record of its characters and of the command they stand for.  *)
(* It is a line, or a line whose mistake shows only at its newline, together *)
(* with the line behind it: the newline has been read when cleanup is called *)
(* (parser.c:21, 182-200), which then drops that line.                       *)
TextOf(ls) ==
  LET upto[n \in 0 .. Len(ls)] == IF n = 0 THEN <<>> ELSE upto[n - 1] \o ls[n].text
  IN  upto[Len(ls)]

(* A line does not hold the mark of the file's end; a keyword that does not  *)
(* stand alone is one whose parse function is called.                        *)
ASSUME ReaderAssumption ==
  /\ MaxCoords \in Nat
  /\ \A l \in Texts : \A f \in DOMAIN l :
       /\ Len(l[f]) \in Nat /\ DOMAIN l[f] = 1 .. Len(l[f])
       /\ \A n \in DOMAIN l[f] : l[f][n].text \in Seq(STRING \ {Reader!Eof})
  /\ DOMAIN Keywords \subseteq STRING \ {Reader!Eof, Reader!NL, "#"}
  /\ \A k \in DOMAIN Keywords :
       /\ Keywords[k].rest \in Seq(STRING) /\ Keywords[k].op # "eoc"
       /\ Keywords[k].alone \/ Keywords[k].op \in {"create", "reserve", "show", "wait"}

Init ==
  /\ PoolInit
  /\ lines \in {l \in Texts : DOMAIN l = {dir[n] : n \in DOMAIN dir} \cap JobsFiles}
  /\ fdR = [f \in DOMAIN lines |-> 1]
  /\ commands = [f \in DOMAIN lines |-> <<>>]
  /\ failed = {}

Parent == ParentStep /\ UNCHANGED readVars

NextOf(f) == Reader!ReadCommand(TextOf(lines[f]), fdR[f], <<>>)

(* A fetch: the command under fdR, whatever it is but the end.               *)
ChildReads(f) ==
  /\ f \in running
  /\ NextOf(f).command.op # "eoc"
  /\ fdR' = [fdR EXCEPT ![f] = NextOf(f).pos]
  /\ commands' = [commands EXCEPT ![f] = Append(@, NextOf(f).command)]
  /\ UNCHANGED <<poolVars, lines, failed>>

(* Mutant of ChildEnds: a refused line ends the file. *)
ChildEndsAtMistake(f) ==
  /\ f \in running /\ NextOf(f).command.op \in {"eoc", "invalid"}
  /\ ChildExits(f)
  /\ UNCHANGED readVars

ChildEnds(f) ==
  /\ f \in running /\ NextOf(f).command.op = "eoc"
  /\ ChildExits(f)
  /\ UNCHANGED readVars

(* The threads of a round have read nothing yet.                             *)
RoundBegins(f) == commands[f] # <<>> => commands[f][Len(commands[f])].op = "barrier"

(* No memory, no input or no output file: child_code returns at once.  Or    *)
(* every thread of a round, the first or one behind a BARRIER, gets NULL     *)
(* from its malloc: foundBarrier stays 0 and the child leaves the loop.      *)
ChildFails(f) ==
  /\ f \in running /\ RoundBegins(f) /\ Cardinality(failed) < MaxChildFails
  /\ failed' = failed \cup {f}
  /\ ChildExits(f)
  /\ UNCHANGED <<lines, fdR, commands>>

Child(f) == ChildReads(f) \/ ChildEnds(f) \/ ChildFails(f)

Next == Parent \/ (\E f \in running : Child(f)) \/ (PoolEnded /\ UNCHANGED readVars)

Spec == Init /\ [][Next]_programVars

(* Weak fairness of a child, with "f is running" for ENABLED Child(f).       *)
FairChild(f) == []<>(f \notin running) \/ []<><<Child(f)>>_programVars

FairSpec == Spec /\ WF_programVars(Parent) /\ \A f \in JobsFiles : FairChild(f)

-----------------------------------------------------------------------------
(* Properties *)

(* Wherever a command was refused, the next one is read from the beginning   *)
(* of a line: cleanup and the parse functions leave no rest of a line behind *)
(* (parser.c:40-44).                                                         *)
ReadsStartAtLines ==
  \A f \in DOMAIN lines :
    LET t == TextOf(lines[f])
    IN  fdR[f] = 1 \/ fdR[f] > Len(t) \/ t[fdR[f] - 1] = Reader!NL

(* Up to the first piece that is marked to end too early, the commands read  *)
(* are those the pieces were written as, one for each and in their order,    *)
(* and a file without such a piece that was read to its end has given as     *)
(* many commands as it has pieces: a refused line costs itself, or itself    *)
(* and the line behind it when its mistake is its newline, and never a line  *)
(* more (get_next, cleanup and the parse functions, parser.c:40-258).        *)
Sound(f) == {n \in DOMAIN lines[f] : \A m \in 1 .. n : ~lines[f][m].ends_early}
LinesAreCommands ==
  \A f \in DOMAIN lines :
    /\ \A n \in Sound(f) \cap DOMAIN commands[f] : commands[f][n] = lines[f][n].command
    /\ Sound(f) = DOMAIN lines[f] /\ fdR[f] > Len(TextOf(lines[f])) =>
         Len(commands[f]) = Len(lines[f])

(* When the program ends and its last fork did not fail, every .jobs file    *)
(* that a child was forked for was read to its end; or its child had no      *)
(* memory or no file, and then the file was left at its beginning or behind  *)
(* a BARRIER, never in the middle of a round (main.c:128-180, 188-215).      *)
EveryFileIsRead ==
  ppc = "done" /\ pid > 0 =>
    \A f \in DOMAIN lines \ (unforked \cup skipped) :
      fdR[f] > Len(TextOf(lines[f])) \/ (f \in failed /\ RoundBegins(f))

(* The parent ends: it never waits for a child that does not come.           *)
ProgramEnds == <>(ppc = "done" /\ running = {})
=============================================================================
