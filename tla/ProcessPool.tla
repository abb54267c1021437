---------------------------- MODULE ProcessPool ----------------------------
(***************************************************************************)
(* The main process of proj1 (proj1/main.c:55-121): it reads a directory,   *)
(* forks one child for every .jobs file and keeps at most MAX_PROC of them  *)
(* running by waiting for one before it forks the next.  What a child does  *)
(* is the business of JobProgram; here it runs and exits.                   *)
(***************************************************************************)
EXTENDS Integers, Sequences, FiniteSets

CONSTANTS Directories,   \* the entries of a directory, in the order readdir gives
          JobsFiles,     \* the entries with ".jobs" in their name
          MaxProc,       \* MAX_PROC
          MaxForkFails   \* bound: how often fork may fail

ASSUME PoolAssumption ==
  /\ MaxProc \in Nat /\ MaxForkFails \in Nat
  /\ \A d \in Directories :
       /\ d \in Seq(STRING)
       /\ \A m, n \in DOMAIN d : d[m] = d[n] => m = n

VARIABLES dir, entry,         \* the directory, and the place of readdir in it
          ppc, num_proc, pid, \* the parent; of pid only the sign matters
          i,                  \* the loop counter of its last loop
          running, zombies,   \* children by their file: at work, and exited but not waited for
          started,            \* ghosts: the files a child was forked for,
          unforked, skipped   \* those fork failed for, those wait failed for

children == running \cup zombies
dirVars  == <<dir, entry>>
files    == <<started, unforked, skipped>>
poolVars == <<dirVars, ppc, num_proc, pid, i, running, zombies, files>>

PoolInit ==
  /\ dir \in Directories /\ entry = 1
  /\ ppc = "readdir" /\ num_proc = 0 /\ i = 0
  /\ pid \in {-1, 1}                     \* not initialised
  /\ running = {} /\ zombies = {}
  /\ started = {} /\ unforked = {} /\ skipped = {}

file == dir[entry]

(* Mutant of Readdir: the pool takes one process more. *)
ReaddirOneMore ==
  /\ ppc = "readdir" /\ entry <= Len(dir)
  /\ \/ file \notin JobsFiles /\ entry' = entry + 1 /\ ppc' = "readdir"
     \/ /\ file \in JobsFiles /\ entry' = entry
        /\ ppc' = IF num_proc <= MaxProc THEN "fork" ELSE "wait"
  /\ UNCHANGED <<dir, num_proc, pid, i, running, zombies, files>>

Readdir ==
  /\ ppc = "readdir" /\ entry <= Len(dir)
  /\ \/ file \notin JobsFiles /\ entry' = entry + 1 /\ ppc' = "readdir"
     \/ /\ file \in JobsFiles /\ entry' = entry
        /\ ppc' = IF num_proc < MaxProc THEN "fork" ELSE "wait"
  /\ UNCHANGED <<dir, num_proc, pid, i, running, zombies, files>>

(* fork in either branch: the child works on the file, the parent reads on.  *)
Forked ==
  /\ running' = running \cup {file} /\ started' = started \cup {file}
  /\ pid' = 1
  /\ UNCHANGED <<zombies, unforked, skipped>>

ForkFailed ==
  /\ Cardinality(unforked) < MaxForkFails
  /\ unforked' = unforked \cup {file}
  /\ pid' = -1
  /\ UNCHANGED <<running, zombies, started, skipped>>

ReadOn == ppc' = "readdir" /\ entry' = entry + 1

Fork ==
  /\ ppc = "fork"
  /\ \/ Forked /\ num_proc' = num_proc + 1
     \/ ForkFailed /\ num_proc' = num_proc
  /\ ReadOn
  /\ UNCHANGED <<dir, i>>

(* wait blocks while there are children and none has exited.                 *)
Reap(z) == z \in zombies /\ zombies' = zombies \ {z}

WaitForOne ==
  /\ ppc = "wait" /\ \E z \in zombies : Reap(z)
  /\ ppc' = "refork" /\ pid' = 1
  /\ UNCHANGED <<dirVars, num_proc, i, running, files>>

(* Mutant of WaitFails: wait does not block while the children are at work. *)
WaitFailsWhenBusy ==
  /\ ppc = "wait" /\ zombies = {}
  /\ skipped' = skipped \cup {file}
  /\ pid' = -1
  /\ ReadOn
  /\ UNCHANGED <<dir, num_proc, i, running, zombies, started, unforked>>

(* Mutant of WaitFails: the parent tries again and again. *)
WaitFailsForEver ==
  /\ ppc = "wait" /\ children = {}
  /\ pid' = -1
  /\ UNCHANGED <<dirVars, ppc, num_proc, i, running, zombies, files>>

(* wait fails when there is no child at all: the file is left behind.        *)
WaitFails ==
  /\ ppc = "wait" /\ children = {}
  /\ skipped' = skipped \cup {file}
  /\ pid' = -1
  /\ ReadOn
  /\ UNCHANGED <<dir, num_proc, i, running, zombies, started, unforked>>

(* The child that exited makes room for this one: num_proc stays, even if    *)
(* there is no child now.                                                    *)
Refork ==
  /\ ppc = "refork"
  /\ Forked \/ ForkFailed
  /\ ReadOn
  /\ UNCHANGED <<dir, num_proc, i>>

(* Mutant of EndOfDirectory: the test of pid the other way round. *)
EndOfDirectoryNegated ==
  /\ ppc = "readdir" /\ entry > Len(dir)
  /\ ppc' = IF pid < 0 THEN "join" ELSE "done"
  /\ UNCHANGED <<dirVars, num_proc, pid, i, running, zombies, files>>

EndOfDirectory ==
  /\ ppc = "readdir" /\ entry > Len(dir)
  /\ ppc' = IF pid > 0 THEN "join" ELSE "done"
  /\ UNCHANGED <<dirVars, num_proc, pid, i, running, zombies, files>>

(* Mutant of Join: one round too many. *)
JoinOneMore ==
  /\ ppc = "join" /\ i <= num_proc
  /\ \/ (\E z \in zombies : Reap(z))
     \/ children = {} /\ UNCHANGED zombies
  /\ i' = i + 1
  /\ UNCHANGED <<dirVars, ppc, num_proc, pid, running, files>>

(* The last loop; nothing reads the pid it assigns.                          *)
Join ==
  /\ ppc = "join" /\ i < num_proc
  /\ \/ (\E z \in zombies : Reap(z))
     \/ children = {} /\ UNCHANGED zombies
  /\ i' = i + 1
  /\ UNCHANGED <<dirVars, ppc, num_proc, pid, running, files>>

Joined ==
  /\ ppc = "join" /\ i = num_proc
  /\ ppc' = "done"
  /\ UNCHANGED <<dirVars, num_proc, pid, i, running, zombies, files>>

ParentStep ==
  Readdir \/ Fork \/ WaitForOne \/ WaitFails \/ Refork \/ EndOfDirectory \/ Join \/ Joined

ChildExits(f) ==
  /\ f \in running
  /\ running' = running \ {f} /\ zombies' = zombies \cup {f}
  /\ UNCHANGED <<dirVars, ppc, num_proc, pid, i, files>>

PoolEnded == ppc = "done" /\ running = {} /\ UNCHANGED poolVars

PoolNext == ParentStep \/ (\E f \in running : ChildExits(f)) \/ PoolEnded

PoolSpec == PoolInit /\ [][PoolNext]_poolVars

-----------------------------------------------------------------------------
(* Properties *)

(* The parent's variables keep their types, and a child is either at work or *)
(* waits to be waited for.                                                   *)
PoolTypeOK ==
  /\ dir \in Directories /\ entry \in 1 .. Len(dir) + 1
  /\ ppc \in {"readdir", "fork", "wait", "refork", "join", "done"}
  /\ ppc \in {"fork", "wait", "refork"} => entry <= Len(dir)
  /\ num_proc \in 0 .. MaxProc /\ pid \in {-1, 1} /\ i \in 0 .. num_proc
  /\ children \subseteq started /\ running \cap zombies = {}
  /\ started \cup unforked \cup skipped \subseteq {dir[n] : n \in 1 .. entry - 1}

(* Never are more than MAX_PROC children there, whatever forks fail          *)
(* (main.c:70-93).                                                           *)
ChildrenBounded == Cardinality(children) <= MaxProc

(* A file is skipped only when so many forks have failed that num_proc       *)
(* counts MAX_PROC processes although there is none: while fewer fail, a     *)
(* file is left out only because its own fork failed (main.c:80-84).         *)
FewFailuresSkipNothing == skipped # {} => Cardinality(unforked) >= MaxProc

(* The parent that ends after a successful last fork has waited for every    *)
(* child (main.c:101-113).                                                   *)
ParentWaits == ppc = "done" /\ pid > 0 => children = {}
=============================================================================
