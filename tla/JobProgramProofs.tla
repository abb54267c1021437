-------------------------- MODULE JobProgramProofs --------------------------
(***************************************************************************)
(* Proofs about the pool of processes, for every directory, every MAX_PROC  *)
(* and any number of failing forks, whatever the children read; then about  *)
(* what they read, for every content of the files; then about what the      *)
(* parser makes of a line wherever it stands, and of every command written  *)
(* as HELP describes it.                                                    *)
(***************************************************************************)
EXTENDS JobProgram, FiniteSetTheorems, NaturalsInduction, WellFoundedInduction, SequenceTheorems,
        TLAPS

InLoop == ppc \in {"readdir", "fork", "wait"}

(* While the directory is read, num_proc counts the children and at most one *)
(* process that is not there for every fork that failed.                     *)
Counted ==
  /\ IsFiniteSet(children) /\ IsFiniteSet(unforked)
  /\ InLoop =>
       /\ i = 0 /\ Cardinality(children) <= num_proc
       /\ num_proc <= Cardinality(children) + Cardinality(unforked)
  /\ ppc = "refork" =>
       /\ i = 0 /\ Cardinality(children) + 1 <= num_proc
       /\ num_proc <= Cardinality(children) + Cardinality(unforked) + 1
  /\ ppc = "fork" => num_proc < MaxProc
  /\ ppc = "wait" => num_proc = MaxProc
  /\ ppc = "join" => Cardinality(children) <= num_proc - i

PoolInv == PoolTypeOK /\ Counted /\ ChildrenBounded /\ FewFailuresSkipNothing /\ ParentWaits

-----------------------------------------------------------------------------
LEMMA Cardinalities ==
  ASSUME IsFiniteSet(children), IsFiniteSet(unforked)
  PROVE  /\ Cardinality(children) \in Nat /\ Cardinality(unforked) \in Nat
         /\ Cardinality(children) = 0 <=> children = {}
BY FS_CardinalityType, FS_EmptySet

(* The entry under readdir has no child yet, and no failed fork. *)
LEMMA FileIsNew ==
  ASSUME PoolTypeOK, ppc \in {"fork", "wait", "refork"}
  PROVE  /\ file \notin children /\ file \notin unforked
         /\ entry \in Nat /\ entry + 1 \in 1 .. Len(dir) + 1
         /\ \A n \in 1 .. entry - 1 : dir[n] \in {dir[m] : m \in 1 .. (entry + 1) - 1}
         /\ file \in {dir[m] : m \in 1 .. (entry + 1) - 1}
<1>1. /\ dir \in Directories /\ dir \in Seq(STRING) /\ Len(dir) \in Nat
      /\ entry \in 1 .. Len(dir)
  BY PoolAssumption DEF PoolTypeOK
<1>2. \A m, n \in 1 .. Len(dir) : dir[m] = dir[n] => m = n
  BY <1>1, PoolAssumption
<1>3. file \notin {dir[n] : n \in 1 .. entry - 1}
  BY <1>1, <1>2 DEF file
<1> QED
  BY <1>1, <1>3 DEF PoolTypeOK, children, file

LEMMA PoolStart == PoolInit => PoolInv
<1> SUFFICES ASSUME PoolInit PROVE PoolInv
  OBVIOUS
<1>1. /\ dir \in Directories /\ Len(dir) \in Nat /\ children = {}
  BY PoolAssumption DEF PoolInit, children
<1>2. PoolTypeOK
  BY <1>1, PoolAssumption DEF PoolInit, PoolTypeOK
<1>3. IsFiniteSet({}) /\ Cardinality({}) = 0
  BY FS_EmptySet
<1> QED
  BY <1>1, <1>2, <1>3, PoolAssumption
     DEF PoolInv, Counted, ChildrenBounded, FewFailuresSkipNothing, ParentWaits, PoolInit, InLoop

-----------------------------------------------------------------------------
(* What a fork does to the children and to the failed forks. *)
LEMMA ForkedCounts ==
  ASSUME PoolInv, ppc \in {"fork", "refork"}, Forked, ReadOn, dir' = dir
  PROVE  /\ children' = children \cup {file} /\ unforked' = unforked
         /\ IsFiniteSet(children') /\ Cardinality(children') = Cardinality(children) + 1
         /\ started' \cup unforked' \cup skipped' \subseteq {dir'[n] : n \in 1 .. entry' - 1}
         /\ children' \subseteq started' /\ running' \cap zombies' = {}
         /\ entry' \in 1 .. Len(dir) + 1
<1>1. PoolTypeOK /\ IsFiniteSet(children)
  BY DEF PoolInv, Counted
<1>2. children' = children \cup {file} /\ unforked' = unforked
  BY DEF Forked, children
<1>3. entry' = entry + 1
  BY DEF ReadOn
<1>4. IsFiniteSet(children') /\ Cardinality(children') = Cardinality(children) + 1
  <2>1. file \notin children
    BY <1>1, FileIsNew
  <2> HIDE DEF file, children
  <2> QED
    BY ONLY <1>1, <1>2, <2>1, FS_AddElement
<1>5. started' \cup unforked' \cup skipped' \subseteq {dir'[n] : n \in 1 .. entry' - 1}
  <2>1. started \cup unforked \cup skipped \subseteq {dir[m] : m \in 1 .. (entry + 1) - 1}
    BY <1>1, FileIsNew DEF PoolTypeOK
  <2>2. file \in {dir[m] : m \in 1 .. (entry + 1) - 1}
    BY <1>1, FileIsNew
  <2> QED
    BY <1>3, <2>1, <2>2 DEF Forked
<1>6. children' \subseteq started' /\ running' \cap zombies' = {}
  <2>1. file \notin children
    BY <1>1, FileIsNew
  <2> QED
    BY <1>1, <1>2, <2>1 DEF Forked, PoolTypeOK, children
<1> QED
  BY <1>1, <1>2, <1>3, <1>4, <1>5, <1>6, FileIsNew

LEMMA ForkFailedCounts ==
  ASSUME PoolInv, ppc \in {"fork", "refork"}, ForkFailed, ReadOn, dir' = dir
  PROVE  /\ children' = children /\ unforked' = unforked \cup {file}
         /\ IsFiniteSet(unforked') /\ Cardinality(unforked') = Cardinality(unforked) + 1
         /\ started' \cup unforked' \cup skipped' \subseteq {dir'[n] : n \in 1 .. entry' - 1}
         /\ children' \subseteq started' /\ running' \cap zombies' = {}
         /\ entry' \in 1 .. Len(dir) + 1
<1>1. PoolTypeOK /\ IsFiniteSet(unforked)
  BY DEF PoolInv, Counted
<1>2. children' = children /\ unforked' = unforked \cup {file}
  BY DEF ForkFailed, children
<1>3. entry' = entry + 1
  BY DEF ReadOn
<1>4. IsFiniteSet(unforked') /\ Cardinality(unforked') = Cardinality(unforked) + 1
  <2>1. file \notin unforked
    BY <1>1, FileIsNew
  <2> HIDE DEF file
  <2> QED
    BY ONLY <1>1, <1>2, <2>1, FS_AddElement
<1>5. started' \cup unforked' \cup skipped' \subseteq {dir'[n] : n \in 1 .. entry' - 1}
  <2>1. started \cup unforked \cup skipped \subseteq {dir[m] : m \in 1 .. (entry + 1) - 1}
    BY <1>1, FileIsNew DEF PoolTypeOK
  <2>2. file \in {dir[m] : m \in 1 .. (entry + 1) - 1}
    BY <1>1, FileIsNew
  <2> QED
    BY <1>3, <2>1, <2>2 DEF ForkFailed
<1>6. children' \subseteq started' /\ running' \cap zombies' = {}
  BY <1>1 DEF ForkFailed, PoolTypeOK, children
<1>7. entry' \in 1 .. Len(dir) + 1
  BY <1>1, <1>3, FileIsNew
<1> QED
  BY ONLY <1>2, <1>4, <1>5, <1>6, <1>7

LEMMA ReapCounts ==
  ASSUME PoolTypeOK, IsFiniteSet(children), NEW z, Reap(z), running' = running
  PROVE  /\ children' = children \ {z} /\ children' \subseteq children
         /\ IsFiniteSet(children') /\ Cardinality(children') = Cardinality(children) - 1
         /\ running' \cap zombies' = {}
<1>1. z \in children /\ z \notin running
  BY DEF Reap, PoolTypeOK, children
<1>2. children' = children \ {z}
  BY <1>1 DEF Reap, children
<1>3. IsFiniteSet(children') /\ Cardinality(children') = Cardinality(children) - 1
  <2> HIDE DEF children
  <2> QED
    BY ONLY IsFiniteSet(children), <1>1, <1>2, FS_RemoveElement
<1>4. running' \cap zombies' = {}
  BY DEF Reap, PoolTypeOK
<1> QED
  BY ONLY <1>2, <1>3, <1>4

-----------------------------------------------------------------------------
(* Every step of the pool keeps the invariant. *)
LEMMA PoolStep ==
  ASSUME PoolInv, [PoolNext]_poolVars
  PROVE  PoolInv'
<1> USE PoolAssumption
<1>0. /\ PoolTypeOK /\ IsFiniteSet(children) /\ IsFiniteSet(unforked)
      /\ Cardinality(children) \in Nat /\ Cardinality(unforked) \in Nat
      /\ Cardinality(children) = 0 <=> children = {}
      /\ Len(dir) \in Nat /\ num_proc \in Nat /\ num_proc <= MaxProc /\ i \in Nat
      /\ MaxProc \in Nat
  BY Cardinalities DEF PoolInv, Counted, PoolTypeOK
<1>1. CASE Readdir
  <2>1. children' = children /\ unforked' = unforked
    BY <1>1 DEF Readdir, files, children
  <2>2. PoolTypeOK'
    <3>1. CASE file \notin JobsFiles /\ entry' = entry + 1 /\ ppc' = "readdir"
      <4>1. entry' \in 1 .. Len(dir) + 1
        BY <1>0, <1>1, <3>1 DEF Readdir, PoolTypeOK
      <4>2. {dir[n] : n \in 1 .. entry - 1} \subseteq {dir[n] : n \in 1 .. entry' - 1}
        BY <1>0, <3>1 DEF PoolTypeOK
      <4> QED
        BY <1>0, <1>1, <2>1, <3>1, <4>1, <4>2 DEF Readdir, PoolTypeOK, files
    <3>2. CASE file \in JobsFiles /\ entry' = entry /\ ppc' \in {"fork", "wait"}
      BY <1>0, <1>1, <2>1, <3>2 DEF Readdir, PoolTypeOK, files
    <3> QED
      BY <1>1, <3>1, <3>2 DEF Readdir
  <2>3. /\ ppc = "readdir" /\ ppc' \in {"readdir", "fork", "wait"}
        /\ ppc' = "fork" => num_proc < MaxProc
        /\ ppc' = "wait" => ~(num_proc < MaxProc)
        /\ i' = i /\ num_proc' = num_proc /\ skipped' = skipped /\ pid' = pid
    BY <1>1 DEF Readdir, files
  <2> QED
    BY <1>0, <2>1, <2>2, <2>3
       DEF PoolInv, Counted, ChildrenBounded, FewFailuresSkipNothing, ParentWaits, InLoop
<1>2. CASE Fork
  <2>1. /\ ppc = "fork" /\ ppc' = "readdir" /\ i' = i /\ dir' = dir /\ ReadOn
        /\ i = 0 /\ Cardinality(children) <= num_proc /\ num_proc < MaxProc
        /\ num_proc <= Cardinality(children) + Cardinality(unforked)
    BY <1>2 DEF Fork, ReadOn, PoolInv, Counted, InLoop
  <2>2. CASE Forked /\ num_proc' = num_proc + 1
    <3>1. PoolTypeOK'
      <4>1. /\ started' \cup unforked' \cup skipped' \subseteq {dir'[n] : n \in 1 .. entry' - 1}
            /\ children' \subseteq started' /\ running' \cap zombies' = {}
            /\ entry' \in 1 .. Len(dir) + 1
        BY <2>1, <2>2, ForkedCounts
      <4>2. num_proc' \in 0 .. MaxProc /\ i' \in 0 .. num_proc' /\ pid' \in {-1, 1}
        BY <1>0, <2>1, <2>2 DEF Forked
      <4> QED
        BY <1>0, <2>1, <4>1, <4>2 DEF PoolTypeOK
    <3> QED
      BY <1>0, <2>1, <2>2, <3>1, ForkedCounts
         DEF PoolInv, Counted, ChildrenBounded, FewFailuresSkipNothing, ParentWaits, InLoop, Forked
  <2>3. CASE ForkFailed /\ num_proc' = num_proc
    <3>1. PoolTypeOK'
      BY <1>0, <2>1, <2>3, ForkFailedCounts DEF ForkFailed, PoolTypeOK
    <3> QED
      BY <1>0, <2>1, <2>3, <3>1, ForkFailedCounts
         DEF PoolInv, Counted, ChildrenBounded, FewFailuresSkipNothing, ParentWaits, InLoop, ForkFailed
  <2> QED
    BY <1>2, <2>2, <2>3 DEF Fork
<1>3. CASE WaitForOne
  <2>1. PICK z \in zombies : Reap(z)
    BY <1>3 DEF WaitForOne
  <2>2. /\ ppc = "wait" /\ ppc' = "refork" /\ i' = i /\ dir' = dir /\ entry' = entry
        /\ num_proc' = num_proc /\ running' = running /\ started' = started
        /\ unforked' = unforked /\ skipped' = skipped /\ pid' = 1
        /\ i = 0 /\ Cardinality(children) <= num_proc
        /\ num_proc <= Cardinality(children) + Cardinality(unforked)
    BY <1>3 DEF WaitForOne, dirVars, files, PoolInv, Counted, InLoop
  <2>3. PoolTypeOK'
    BY <1>0, <2>1, <2>2, ReapCounts DEF PoolTypeOK
  <2> QED
    BY <1>0, <2>1, <2>2, <2>3, ReapCounts
       DEF PoolInv, Counted, ChildrenBounded, FewFailuresSkipNothing, ParentWaits, InLoop
<1>4. CASE WaitFails
  <2>1. /\ ppc = "wait" /\ children = {} /\ ppc' = "readdir" /\ i' = i /\ dir' = dir
        /\ entry' = entry + 1 /\ num_proc' = num_proc /\ num_proc = MaxProc /\ pid' = -1
        /\ children' = children /\ running' = running /\ zombies' = zombies
        /\ started' = started /\ unforked' = unforked /\ skipped' = skipped \cup {file}
        /\ i = 0 /\ num_proc <= Cardinality(children) + Cardinality(unforked)
    BY <1>4 DEF WaitFails, ReadOn, PoolInv, Counted, InLoop, children
  <2>2. PoolTypeOK'
    BY <1>0, <2>1, FileIsNew DEF PoolTypeOK
  <2>3. Cardinality(children) = 0
    BY <1>0, <2>1
  <2> QED
    BY <1>0, <2>1, <2>2, <2>3
       DEF PoolInv, Counted, ChildrenBounded, FewFailuresSkipNothing, ParentWaits, InLoop
<1>5. CASE Refork
  <2>1. /\ ppc = "refork" /\ ppc' = "readdir" /\ i' = i /\ dir' = dir /\ ReadOn
        /\ num_proc' = num_proc
        /\ i = 0 /\ Cardinality(children) + 1 <= num_proc
        /\ num_proc <= Cardinality(children) + Cardinality(unforked) + 1
    BY <1>5 DEF Refork, ReadOn, PoolInv, Counted
  <2>2. CASE Forked
    <3>1. PoolTypeOK'
      BY <1>0, <2>1, <2>2, ForkedCounts DEF Forked, PoolTypeOK
    <3> QED
      BY <1>0, <2>1, <2>2, <3>1, ForkedCounts
         DEF PoolInv, Counted, ChildrenBounded, FewFailuresSkipNothing, ParentWaits, InLoop, Forked
  <2>3. CASE ForkFailed
    <3>1. PoolTypeOK'
      BY <1>0, <2>1, <2>3, ForkFailedCounts DEF ForkFailed, PoolTypeOK
    <3> QED
      BY <1>0, <2>1, <2>3, <3>1, ForkFailedCounts
         DEF PoolInv, Counted, ChildrenBounded, FewFailuresSkipNothing, ParentWaits, InLoop, ForkFailed
  <2> QED
    BY <1>5, <2>2, <2>3 DEF Refork
<1>6. CASE EndOfDirectory
  <2>1. /\ ppc = "readdir" /\ ppc' \in {"join", "done"} /\ (ppc' = "done" => ~(pid > 0))
        /\ children' = children /\ unforked' = unforked /\ i' = i /\ num_proc' = num_proc
        /\ pid' = pid /\ skipped' = skipped
    BY <1>6 DEF EndOfDirectory, files, children
  <2>2. PoolTypeOK'
    BY <1>0, <1>6, <2>1 DEF EndOfDirectory, PoolTypeOK, files, dirVars
  <2> QED
    BY <1>0, <2>1, <2>2
       DEF PoolInv, Counted, ChildrenBounded, FewFailuresSkipNothing, ParentWaits, InLoop
<1>7. CASE Join
  <2>1. /\ ppc = "join" /\ ppc' = ppc /\ i < num_proc /\ i' = i + 1 /\ num_proc' = num_proc
        /\ dir' = dir /\ entry' = entry /\ running' = running /\ pid' = pid
        /\ started' = started /\ unforked' = unforked /\ skipped' = skipped
        /\ Cardinality(children) <= num_proc - i
    BY <1>7 DEF Join, dirVars, files, PoolInv, Counted
  <2>2. CASE \E z \in zombies : Reap(z)
    <3>1. PICK z \in zombies : Reap(z)
      BY <2>2
    <3>2. PoolTypeOK'
      <4>1. children' \subseteq started' /\ running' \cap zombies' = {}
        BY <1>0, <2>1, <3>1, ReapCounts DEF PoolTypeOK
      <4>2. i' \in 0 .. num_proc'
        BY <1>0, <2>1
      <4> QED
        BY <1>0, <2>1, <4>1, <4>2 DEF PoolTypeOK
    <3> QED
      BY <1>0, <2>1, <3>1, <3>2, ReapCounts
         DEF PoolInv, Counted, ChildrenBounded, FewFailuresSkipNothing, ParentWaits, InLoop
  <2>3. CASE children = {} /\ UNCHANGED zombies
    <3>1. children' = children /\ Cardinality(children) = 0
      BY <1>0, <2>1, <2>3 DEF children
    <3>2. PoolTypeOK'
      BY <1>0, <2>1, <2>3, <3>1 DEF PoolTypeOK
    <3> QED
      BY <1>0, <2>1, <2>3, <3>1, <3>2
         DEF PoolInv, Counted, ChildrenBounded, FewFailuresSkipNothing, ParentWaits, InLoop
  <2> QED
    BY <1>7, <2>2, <2>3 DEF Join
<1>8. CASE Joined
  <2>1. /\ ppc = "join" /\ i = num_proc /\ ppc' = "done" /\ i' = i /\ num_proc' = num_proc
        /\ children' = children /\ unforked' = unforked /\ pid' = pid /\ skipped' = skipped
        /\ Cardinality(children) <= num_proc - i
    BY <1>8 DEF Joined, files, children, PoolInv, Counted
  <2>2. PoolTypeOK'
    BY <1>0, <1>8, <2>1 DEF Joined, PoolTypeOK, files, dirVars
  <2>3. children = {}
    BY <1>0, <2>1
  <2> QED
    BY <1>0, <2>1, <2>2, <2>3
       DEF PoolInv, Counted, ChildrenBounded, FewFailuresSkipNothing, ParentWaits, InLoop
<1>9. CASE \E f \in running : ChildExits(f)
  <2>1. PICK f \in running : ChildExits(f)
    BY <1>9
  <2>2. /\ children' = children /\ running' \cap zombies' = {}
    BY <1>0, <2>1 DEF ChildExits, children, PoolTypeOK
  <2>3. /\ ppc' = ppc /\ i' = i /\ num_proc' = num_proc /\ pid' = pid /\ dir' = dir
        /\ entry' = entry /\ started' = started /\ unforked' = unforked /\ skipped' = skipped
    BY <2>1 DEF ChildExits, files, dirVars
  <2>4. PoolTypeOK'
    BY <1>0, <2>2, <2>3 DEF PoolTypeOK
  <2> QED
    BY <1>0, <2>2, <2>3, <2>4
       DEF PoolInv, Counted, ChildrenBounded, FewFailuresSkipNothing, ParentWaits, InLoop
<1>10. CASE UNCHANGED poolVars
  <2>1. children' = children /\ PoolTypeOK'
    BY <1>0, <1>10 DEF poolVars, files, dirVars, children, PoolTypeOK
  <2> QED
    BY <1>10, <2>1 DEF poolVars, files, dirVars,
       PoolInv, Counted, ChildrenBounded, FewFailuresSkipNothing, ParentWaits, InLoop
<1> QED
  BY <1>1, <1>2, <1>3, <1>4, <1>5, <1>6, <1>7, <1>8, <1>9, <1>10
     DEF PoolNext, ParentStep, PoolEnded

-----------------------------------------------------------------------------
(* The program with its readers is a pool of processes: what a child reads   *)
(* changes nothing for the parent, and a child ends as ProcessPool lets it.  *)
THEOREM ProgramIsAPool == Spec => PoolSpec
<1>1. Init => PoolInit
  BY DEF Init
<1>2. [Next]_programVars => [PoolNext]_poolVars
  <2> SUFFICES ASSUME [Next]_programVars PROVE [PoolNext]_poolVars
    OBVIOUS
  <2>1. CASE Parent
    BY <2>1 DEF Parent, PoolNext
  <2>2. CASE \E f \in running : Child(f)
    <3>1. PICK f \in running : Child(f)
      BY <2>2
    <3>2. ChildExits(f) \/ UNCHANGED poolVars
      BY <3>1 DEF Child, ChildReads, ChildEnds, ChildFails
    <3> QED
      BY <3>1, <3>2 DEF PoolNext
  <2>3. CASE PoolEnded \/ UNCHANGED programVars
    BY <2>3 DEF PoolEnded, programVars
  <2> QED
    BY <2>1, <2>2, <2>3 DEF Next
<1> QED
  BY <1>1, <1>2, PTL DEF Spec, PoolSpec

THEOREM PoolInvariant == Spec => []PoolInv
<1>1. PoolInv /\ [PoolNext]_poolVars => PoolInv'
  BY PoolStep
<1> QED
  BY <1>1, PoolStart, ProgramIsAPool, PTL DEF PoolSpec

(* The parent's variables keep their types, and no child is lost from sight  *)
(* between its exit and the wait for it.                                     *)
THEOREM PoolTyped == Spec => []PoolTypeOK
<1>1. PoolInv => PoolTypeOK
  BY DEF PoolInv
<1> QED
  BY <1>1, PoolInvariant, PTL

(* Never are more than MAX_PROC children there (main.c:70-93).               *)
THEOREM NeverTooManyChildren == Spec => []ChildrenBounded
<1>1. PoolInv => ChildrenBounded
  BY DEF PoolInv
<1> QED
  BY <1>1, PoolInvariant, PTL

(* As long as fewer than MAX_PROC forks fail, wait never fails and no file   *)
(* is skipped (main.c:80-84).                                                *)
THEOREM SkippingNeedsFailures == Spec => []FewFailuresSkipNothing
<1>1. PoolInv => FewFailuresSkipNothing
  BY DEF PoolInv
<1> QED
  BY <1>1, PoolInvariant, PTL

(* A parent whose last fork succeeded leaves no child behind (main.c:101).   *)
THEOREM NoChildLeftBehind == Spec => []ParentWaits
<1>1. PoolInv => ParentWaits
  BY DEF PoolInv
<1> QED
  BY <1>1, PoolInvariant, PTL

-----------------------------------------------------------------------------
LEMMA LeastNat ==
  ASSUME NEW S \in SUBSET Nat, S # {}
  PROVE  \E m \in S : \A n \in S : m <= n
<1>1. PICK m \in S : \A n \in S : ~(<<n, m>> \in OpToRel(<, Nat))
  BY NatLessThanWellFounded, WFMin
<1>2. \A n, k \in Nat : <<n, k>> \in OpToRel(<, Nat) <=> n < k
  BY DEF OpToRel
<1>3. \A n \in S : ~(n < m)
  BY <1>1, <1>2
<1> QED
  BY <1>3

Text == Seq(STRING \ {Reader!Eof})

-----------------------------------------------------------------------------
(* A file is its lines, one behind the other. *)

(* Begin(ls)[n] is what the first n lines hold: the recursion of TextOf.     *)
Longer(t, l)     == t \o l.text
IsUpto(g, n, ls) == g = [k \in 0 .. n |-> IF k = 0 THEN <<>> ELSE Longer(g[k - 1], ls[k])]
Upto(ls) == CHOOSE g : IsUpto(g, Len(ls), ls)

Consist(ls, C) ==
  /\ Len(ls) \in Nat /\ DOMAIN ls = 1 .. Len(ls)
  /\ \A n \in 1 .. Len(ls) : ls[n].text \in Seq(C)
AreLines(ls) == Consist(ls, STRING \ {Reader!Eof})

LEMMA UptoExists ==
  ASSUME NEW ls, NEW n \in Nat
  PROVE  \E g : IsUpto(g, n, ls)
<1> DEFINE S == {m \in Nat : ~\E g : IsUpto(g, m, ls)}
<1> SUFFICES ASSUME S # {} PROVE FALSE
  OBVIOUS
<1>1. PICK m \in S : \A k \in S : m <= k
  <2>1. S \in SUBSET Nat
    OBVIOUS
  <2> HIDE DEF S
  <2> QED
    BY <2>1, LeastNat
<1>2. CASE m = 0
  <2>1. IsUpto([k \in 0 .. 0 |-> <<>>], 0, ls)
    BY DEF IsUpto
  <2> QED
    BY <1>1, <1>2, <2>1
<1>3. CASE m > 0
  <2>1. m - 1 \in Nat /\ m - 1 \notin S
    BY <1>1, <1>3
  <2>2. PICK g : IsUpto(g, m - 1, ls)
    BY <2>1
  <2> DEFINE h == [k \in 0 .. m |-> IF k = 0 THEN <<>> ELSE Longer(g[k - 1], ls[k])]
  <2>3. \A k \in 0 .. m - 1 : h[k] = g[k]
    BY <1>3, <2>2 DEF IsUpto
  <2>4. \A k \in 0 .. m : k # 0 => h[k - 1] = g[k - 1]
    <3>1. m \in Nat /\ \A k \in 0 .. m : k # 0 => k - 1 \in 0 .. m - 1
      OBVIOUS
    <3> HIDE DEF h
    <3> QED
      BY <2>3, <3>1
  <2>5. IsUpto(h, m, ls)
    BY <2>4 DEF IsUpto
  <2> QED
    BY <1>1, <2>5
<1> QED
  BY <1>1, <1>2, <1>3

LEMMA UptoGoesOn ==
  ASSUME NEW ls, Len(ls) \in Nat
  PROVE  /\ TextOf(ls) = Upto(ls)[Len(ls)]
         /\ Upto(ls)[0] = <<>>
         /\ \A n \in 1 .. Len(ls) : Upto(ls)[n] = Longer(Upto(ls)[n - 1], ls[n])
<1>1. TextOf(ls) = Upto(ls)[Len(ls)]
  BY DEF TextOf, Upto, IsUpto, Longer
<1>2. IsUpto(Upto(ls), Len(ls), ls)
  BY UptoExists DEF Upto
<1>3. \A k \in 0 .. Len(ls) :
        Upto(ls)[k] = IF k = 0 THEN <<>> ELSE Longer(Upto(ls)[k - 1], ls[k])
  BY <1>2 DEF IsUpto
<1> QED
  BY <1>1, <1>3

LEMMA UptoConsists ==
  ASSUME NEW ls, NEW C, Consist(ls, C)
  PROVE  \A n \in 0 .. Len(ls) : Upto(ls)[n] \in Seq(C)
<1> DEFINE S == {n \in 0 .. Len(ls) : Upto(ls)[n] \notin Seq(C)}
<1> SUFFICES ASSUME S # {} PROVE FALSE
  OBVIOUS
<1>0. Len(ls) \in Nat
  BY DEF Consist
<1>1. PICK m \in S : \A n \in S : m <= n
  <2>1. S \in SUBSET Nat
    BY <1>0
  <2> HIDE DEF S
  <2> QED
    BY <2>1, LeastNat
<1>2. m # 0
  <2>1. Upto(ls)[0] \in Seq(C)
    <3>1. Upto(ls)[0] = <<>>
      BY <1>0, UptoGoesOn
    <3>2. <<>> \in Seq(C)
      OBVIOUS
    <3> QED
      BY <3>1, <3>2
  <2> QED
    BY <1>1, <2>1
<1>3. m - 1 \in 0 .. Len(ls) /\ m - 1 \notin S
  BY <1>0, <1>1, <1>2
<1>4. Upto(ls)[m] = Upto(ls)[m - 1] \o ls[m].text /\ ls[m].text \in Seq(C)
  <2>1. m \in 1 .. Len(ls)
    BY <1>0, <1>1, <1>2
  <2>2. Upto(ls)[m] = Longer(Upto(ls)[m - 1], ls[m])
    BY <1>0, <2>1, UptoGoesOn
  <2> QED
    BY <2>1, <2>2 DEF Consist, Longer
<1>5. Upto(ls)[m - 1] \in Seq(C)
  BY <1>3
<1> HIDE DEF S
<1>6. Upto(ls)[m] \in Seq(C)
  BY <1>4, <1>5, ConcatProperties
<1> QED
  BY <1>1, <1>6 DEF S

LEMMA UptoIsText ==
  ASSUME NEW ls, AreLines(ls)
  PROVE  \A n \in 0 .. Len(ls) : Upto(ls)[n] \in Text
BY UptoConsists DEF AreLines, Text

(* The place before the first character of line n + 1. *)
EndOf(ls, n) == Len(Upto(ls)[n])

LEMMA Between ==
  ASSUME NEW x \in Nat, NEW y \in Nat, NEW z \in Nat, NEW k \in Nat, x + z <= y, 1 <= k, k <= z
  PROVE  x + k \in 1 .. y
OBVIOUS

(* The n-th part stands in the whole, and ends where the next one begins. *)
LEMMA PartStands ==
  ASSUME NEW ls, NEW C, Consist(ls, C), NEW n \in 1 .. Len(ls)
  PROVE  /\ TextOf(ls) \in Seq(C)
         /\ EndOf(ls, n - 1) \in Nat
         /\ EndOf(ls, n) = EndOf(ls, n - 1) + Len(ls[n].text)
         /\ EndOf(ls, n) <= Len(TextOf(ls))
         /\ n = Len(ls) => EndOf(ls, n) = Len(TextOf(ls))
         /\ \A k \in 1 .. Len(ls[n].text) : TextOf(ls)[EndOf(ls, n - 1) + k] = ls[n].text[k]
<1> DEFINE u == Upto(ls)
           Part(m) == /\ EndOf(ls, n) <= EndOf(ls, m)
                      /\ \A k \in 1 .. Len(ls[n].text) : u[m][EndOf(ls, n - 1) + k] = ls[n].text[k]
<1>0. /\ Len(ls) \in Nat /\ \A m \in 1 .. Len(ls) : ls[m].text \in Seq(C) /\ Len(ls[m].text) \in Nat
      /\ n - 1 \in 0 .. Len(ls)
  BY DEF Consist
<1>1. \A m \in 0 .. Len(ls) : u[m] \in Seq(C) /\ Len(u[m]) \in Nat
  BY UptoConsists
<1>2. \A m \in 1 .. Len(ls) : u[m] = u[m - 1] \o ls[m].text
  BY <1>0, UptoGoesOn DEF Longer
<1> HIDE DEF u
<1>3. ASSUME NEW m \in 1 .. Len(ls)
      PROVE  /\ Len(u[m]) = Len(u[m - 1]) + Len(ls[m].text)
             /\ \A k \in 1 .. Len(u[m - 1]) : u[m][k] = u[m - 1][k]
             /\ \A k \in 1 .. Len(ls[m].text) : u[m][Len(u[m - 1]) + k] = ls[m].text[k]
  <2>1. PICK a \in Seq(C), b \in Seq(C), c \in Seq(C) : a = u[m - 1] /\ b = ls[m].text /\ c = u[m]
    <3>1. m - 1 \in 0 .. Len(ls) /\ m \in 0 .. Len(ls)
      BY <1>0
    <3> QED
      BY <1>0, <1>1, <3>1
  <2>2. c = a \o b /\ Len(a) \in Nat /\ Len(b) \in Nat
    <3>1. c = a \o b
      BY <1>2, <2>1
    <3> QED
      BY <3>1
  <2>3. /\ Len(c) = Len(a) + Len(b)
        /\ \A k \in 1 .. Len(a) + Len(b) : c[k] = IF k <= Len(a) THEN a[k] ELSE b[k - Len(a)]
    BY <2>2, ConcatProperties
  <2>4. \A k \in 1 .. Len(b) : c[Len(a) + k] = b[k]
    <3> TAKE k \in 1 .. Len(b)
    <3>1. Len(a) + k \in 1 .. Len(a) + Len(b) /\ ~(Len(a) + k <= Len(a)) /\ (Len(a) + k) - Len(a) = k
      BY <2>2
    <3> QED
      BY <2>3, <3>1
  <2>5. \A k \in 1 .. Len(a) : c[k] = a[k]
    BY <2>2, <2>3
  <2> QED
    BY <2>1, <2>3, <2>4, <2>5
<1>4. EndOf(ls, n - 1) = Len(u[n - 1]) /\ EndOf(ls, n) = Len(u[n])
  BY DEF EndOf, u
<1>5. Part(n)
  <2>1. Len(u[n]) \in Nat
    BY <1>0, <1>1
  <2>2. \A k \in 1 .. Len(ls[n].text) : u[n][EndOf(ls, n - 1) + k] = ls[n].text[k]
    BY <1>3, <1>4
  <2>3. EndOf(ls, n) <= EndOf(ls, n)
    BY <1>4, <2>1
  <2> QED
    BY <2>2, <2>3
<1>6. Part(Len(ls))
  <2> DEFINE S == {m \in n .. Len(ls) : ~Part(m)}
  <2> SUFFICES ASSUME S # {} PROVE FALSE
    BY <1>0
  <2>1. PICK m \in S : \A q \in S : m <= q
    <3>1. S \in SUBSET Nat
      BY <1>0
    <3> HIDE DEF S
    <3> QED
      BY <3>1, LeastNat
  <2>2. m # n
    BY <1>5, <2>1
  <2>3. m - 1 \in n .. Len(ls) /\ m \in 1 .. Len(ls) /\ m - 1 \in 0 .. Len(ls)
    BY <1>0, <2>1, <2>2
  <2>4. Part(m - 1)
    BY <2>1, <2>3
  <2>5. EndOf(ls, m - 1) = Len(u[m - 1]) /\ EndOf(ls, m) = Len(u[m])
    BY DEF EndOf, u
  <2>6. /\ EndOf(ls, m) = EndOf(ls, m - 1) + Len(ls[m].text)
        /\ EndOf(ls, n) = EndOf(ls, n - 1) + Len(ls[n].text)
        /\ EndOf(ls, m - 1) \in Nat /\ EndOf(ls, n - 1) \in Nat
        /\ Len(ls[n].text) \in Nat /\ Len(ls[m].text) \in Nat
    <3>1. n - 1 \in 0 .. Len(ls)
      BY <1>0
    <3> QED
      BY <1>0, <1>1, <1>3, <1>4, <2>3, <2>5, <3>1
  <2>7. ASSUME NEW k \in 1 .. Len(ls[n].text)
        PROVE  u[m][EndOf(ls, n - 1) + k] = ls[n].text[k]
    <3>1. EndOf(ls, n - 1) + k \in 1 .. Len(u[m - 1])
      <4>1. EndOf(ls, n) <= EndOf(ls, m - 1)
        BY <2>4
      <4>2. k \in Nat /\ 1 <= k /\ k <= Len(ls[n].text)
        BY <2>6
      <4>3. PICK x \in Nat, y \in Nat, z \in Nat :
              /\ x = EndOf(ls, n - 1) /\ y = EndOf(ls, m - 1) /\ z = Len(ls[n].text)
              /\ x + z <= y
        BY <2>6, <4>1
      <4>4. x + k \in 1 .. y
        BY <4>2, <4>3, Between
      <4> QED
        BY <2>5, <4>3, <4>4
    <3> QED
      BY <1>3, <2>3, <2>4, <3>1
  <2>8. EndOf(ls, n) <= EndOf(ls, m)
    <3>1. EndOf(ls, n) <= EndOf(ls, m - 1)
      BY <2>4
    <3> QED
      BY <2>6, <3>1
  <2> QED
    BY <2>1, <2>7, <2>8
<1>7. TextOf(ls) = u[Len(ls)]
  BY <1>0, UptoGoesOn DEF u
<1>8. Len(ls) \in 0 .. Len(ls) /\ EndOf(ls, Len(ls)) = Len(TextOf(ls))
  BY <1>0, <1>7 DEF EndOf, u
<1>9. TextOf(ls) \in Seq(C) /\ EndOf(ls, n - 1) \in Nat
  BY <1>0, <1>1, <1>4, <1>7, <1>8
<1>10. EndOf(ls, n) = EndOf(ls, n - 1) + Len(ls[n].text)
  BY <1>3, <1>4
<1> QED
  BY <1>6, <1>7, <1>8, <1>9, <1>10

LEMMA LineStands ==
  ASSUME NEW ls, AreLines(ls), NEW n \in 1 .. Len(ls)
  PROVE  /\ TextOf(ls) \in Text
         /\ EndOf(ls, n - 1) \in Nat
         /\ EndOf(ls, n) = EndOf(ls, n - 1) + Len(ls[n].text)
         /\ EndOf(ls, n) <= Len(TextOf(ls))
         /\ n = Len(ls) => EndOf(ls, n) = Len(TextOf(ls))
         /\ \A k \in 1 .. Len(ls[n].text) : TextOf(ls)[EndOf(ls, n - 1) + k] = ls[n].text[k]
BY PartStands DEF AreLines, Text

-----------------------------------------------------------------------------
(* The parser: where each of its functions leaves the descriptor. *)

IsPlace(p) == p \in Nat /\ p > 0

(* The place r is behind a newline, or at the end of the text. *)
AtLine(t, r) == IsPlace(r) /\ (r > Len(t) \/ t[r - 1] = Reader!NL)

LEMMA MinIsLeast ==
  ASSUME NEW S \in SUBSET Nat, S # {}
  PROVE  Reader!Min(S) \in S /\ \A n \in S : Reader!Min(S) <= n
<1>1. PICK m \in S : \A n \in S : m <= n
  BY LeastNat
<1> QED
  BY <1>1 DEF Reader!Min

LEMMA TextHasPlaces ==
  ASSUME NEW t \in Text, NEW p, IsPlace(p)
  PROVE  /\ Len(t) \in Nat /\ (Reader!At(t, p) = Reader!Eof <=> p > Len(t))
         /\ p <= Len(t) => Reader!At(t, p) = t[p]
         /\ IsPlace(Reader!Behind(t, p)) /\ Reader!Behind(t, p) >= p
         /\ p <= Len(t) => Reader!Behind(t, p) = p + 1
         /\ p > Len(t) => Reader!Behind(t, p) = p
<1>1. Len(t) \in Nat /\ (p <= Len(t) => t[p] \in STRING \ {Reader!Eof})
  BY DEF Text, IsPlace
<1> QED
  BY <1>1 DEF IsPlace, Reader!At, Reader!Behind

(* Behind a newline, or where there is nothing more, a line begins. *)
LEMMA BehindALine ==
  ASSUME NEW t \in Text, NEW p, IsPlace(p), Reader!At(t, p) \in Reader!LineEnd
  PROVE  AtLine(t, Reader!Behind(t, p))
<1>1. Reader!NL # Reader!Eof
  BY DEF Reader!NL, Reader!Eof
<1> QED
  BY <1>1, TextHasPlaces DEF AtLine, IsPlace, Reader!LineEnd

(* parser.c:40-44. *)
LEMMA CleanupEndsALine ==
  ASSUME NEW t \in Text, NEW p, IsPlace(p)
  PROVE  AtLine(t, Reader!cleanup(t, p))
<1> DEFINE S == {q \in p .. Len(t) : t[q] = Reader!NL} \cup {Len(t)}
<1>1. Len(t) \in Nat
  BY DEF Text
<1>2. S \in SUBSET Nat /\ S # {} /\ (\A q \in S : q = Len(t) \/ t[q] = Reader!NL)
  BY <1>1 DEF IsPlace
<1>3. Reader!cleanup(t, p) = Reader!Min(S) + 1
  BY DEF Reader!cleanup
<1>4. PICK m \in Nat : m = Reader!Min(S) /\ m \in S
  BY <1>2, MinIsLeast
<1>5. m = Len(t) \/ t[m] = Reader!NL
  BY <1>2, <1>4
<1> HIDE DEF S
<1> QED
  BY <1>1, <1>3, <1>4, <1>5 DEF AtLine, IsPlace

LEMMA InvalidEndsALine ==
  ASSUME NEW t \in Text, NEW p, IsPlace(p)
  PROVE  /\ Reader!Invalid(t, p).command.op = "invalid"
         /\ AtLine(t, Reader!Invalid(t, p).pos)
BY CleanupEndsALine DEF Reader!Invalid, Reader!Result

(* parser.c:9-38: a number is read together with the character behind it. *)
LEMMA NumberIsRead ==
  ASSUME NEW t \in Text, NEW p, IsPlace(p), NEW junk
  PROVE  /\ IsPlace(Reader!read_uint(t, p, junk).pos)
         /\ Reader!EndsWith(Reader!read_uint(t, p, junk), Reader!LineEnd)
              => AtLine(t, Reader!read_uint(t, p, junk).pos)
<1> DEFINE S    == {q \in p .. Len(t) : ~Reader!IsDigit(t[q])} \cup {Len(t) + 1}
           stop == Reader!Min(S)
           number == Reader!read_uint(t, p, junk)
<1>1. S \in SUBSET Nat /\ S # {} /\ \A q \in S : IsPlace(q)
  BY DEF Text, IsPlace
<1>2. IsPlace(stop)
  BY <1>1, MinIsLeast
<1>3. number.next = Reader!At(t, stop) /\ number.pos = Reader!Behind(t, stop)
  BY DEF Reader!read_uint
<1>4. Reader!EndsWith(number, Reader!LineEnd) => Reader!At(t, stop) \in Reader!LineEnd
  BY <1>3 DEF Reader!EndsWith
<1> HIDE DEF stop, number
<1> QED
  <2>1. IsPlace(Reader!Behind(t, stop))
    BY <1>2, TextHasPlaces
  <2>2. Reader!At(t, stop) \in Reader!LineEnd => AtLine(t, Reader!Behind(t, stop))
    BY <1>2, BehindALine
  <2> QED
    BY <1>3, <1>4, <2>1, <2>2 DEF number

(* A command whose arguments the parse functions have read. *)
Complete(t, r) == r.command.op # "eoc" /\ AtLine(t, r.pos)

LEMMA InvalidIsComplete ==
  ASSUME NEW t \in Text, NEW p, IsPlace(p)
  PROVE  Complete(t, Reader!Invalid(t, p))
BY InvalidEndsALine DEF Complete

(* parser.c:221-230. *)
LEMMA ShowIsRead ==
  ASSUME NEW t \in Text, NEW p, IsPlace(p), NEW junk
  PROVE  Complete(t, Reader!parse_show(t, p, junk))
<1> DEFINE id == Reader!read_uint(t, p, junk)
           r  == Reader!parse_show(t, p, junk)
<1>1. CASE Reader!EndsWith(id, Reader!LineEnd)
  <2>1. r = Reader!Result([op |-> "show", id |-> id.value], id.pos)
    BY <1>1 DEF Reader!parse_show
  <2> QED
    BY <1>1, <2>1, NumberIsRead DEF Complete, Reader!Result
<1>2. CASE ~Reader!EndsWith(id, Reader!LineEnd)
  <2>1. r = Reader!Invalid(t, id.pos)
    BY <1>2 DEF Reader!parse_show
  <2> QED
    BY <2>1, NumberIsRead, InvalidIsComplete
<1> QED
  BY <1>1, <1>2

(* parser.c:232-258. *)
LEMMA WaitIsRead ==
  ASSUME NEW t \in Text, NEW p, IsPlace(p), NEW junk
  PROVE  Complete(t, Reader!parse_wait(t, p, junk))
<1> DEFINE delay  == Reader!read_uint(t, p, junk)
           thread == Reader!read_uint(t, delay.pos, junk)
           r      == Reader!parse_wait(t, p, junk)
<1>1. /\ IsPlace(delay.pos) /\ (Reader!EndsWith(delay, Reader!LineEnd) => AtLine(t, delay.pos))
      /\ IsPlace(thread.pos) /\ (Reader!EndsWith(thread, Reader!LineEnd) => AtLine(t, thread.pos))
  BY NumberIsRead
<1>2. \/ /\ Reader!EndsWith(delay, Reader!LineEnd)
         /\ r = Reader!Result([op |-> "wait_all", delay |-> delay.value], delay.pos)
      \/ r = Reader!Result([op |-> "wait_all", delay |-> delay.value], Reader!cleanup(t, delay.pos))
      \/ /\ Reader!EndsWith(thread, Reader!LineEnd)
         /\ r = Reader!Result([op |-> "wait_one", delay |-> delay.value, thread |-> thread.value],
                              thread.pos)
      \/ r = Reader!Invalid(t, thread.pos)
      \/ r = Reader!Invalid(t, delay.pos)
  <2>1. CASE Reader!EndsWith(delay, Reader!LineEnd)
    <3>1. ~Reader!EndsWith(delay, {Reader!Blank})
      BY <2>1 DEF Reader!EndsWith, Reader!LineEnd, Reader!NL, Reader!Eof, Reader!Blank
    <3> QED
      BY <2>1, <3>1, Zenon DEF Reader!parse_wait
  <2>2. CASE ~Reader!EndsWith(delay, Reader!LineEnd) /\ Reader!EndsWith(delay, {Reader!Blank})
    BY <2>2, Zenon DEF Reader!parse_wait
  <2>3. CASE ~Reader!EndsWith(delay, Reader!LineEnd) /\ ~Reader!EndsWith(delay, {Reader!Blank})
    BY <2>3, Zenon DEF Reader!parse_wait
  <2> QED
    BY <2>1, <2>2, <2>3
<1> HIDE DEF delay, thread, r
<1>3. Complete(t, r)
  BY <1>1, <1>2, CleanupEndsALine, InvalidIsComplete DEF Complete, Reader!Result
<1> QED
  BY <1>3 DEF r

(* parser.c:137-160. *)
LEMMA CreateIsRead ==
  ASSUME NEW t \in Text, NEW p, IsPlace(p), NEW junk
  PROVE  Complete(t, Reader!parse_create(t, p, junk))
<1> DEFINE id   == Reader!read_uint(t, p, junk)
           rows == Reader!read_uint(t, id.pos, junk)
           cols == Reader!read_uint(t, rows.pos, junk)
           r    == Reader!parse_create(t, p, junk)
<1>1. /\ IsPlace(id.pos) /\ IsPlace(rows.pos) /\ IsPlace(cols.pos)
      /\ Reader!EndsWith(cols, Reader!LineEnd) => AtLine(t, cols.pos)
  BY NumberIsRead
<1>2. \/ r = Reader!Invalid(t, id.pos)
      \/ r = Reader!Invalid(t, rows.pos)
      \/ r = Reader!Invalid(t, cols.pos)
      \/ /\ Reader!EndsWith(cols, Reader!LineEnd)
         /\ r = Reader!Result([op |-> "create", id |-> id.value, dim |-> <<rows.value, cols.value>>],
                              cols.pos)
  BY Zenon DEF Reader!parse_create
<1> HIDE DEF id, rows, cols, r
<1>3. Complete(t, r)
  BY <1>1, <1>2, InvalidIsComplete DEF Complete, Reader!Result
<1> QED
  BY <1>3 DEF r

(* parser.c:176-206: every round of the loop leaves the descriptor at a place. *)
Standing(b) == b = [at |-> b.at, pos |-> b.pos, coords |-> b.coords] /\ IsPlace(b.pos)

LEMMA RoundIsRead ==
  ASSUME NEW t \in Text, NEW b, Standing(b), NEW junk
  PROVE  Standing(Reader!Coordinate(t, b, junk))
<1> DEFINE x == Reader!read_uint(t, Reader!Behind(t, b.pos), junk)
           y == Reader!read_uint(t, x.pos, junk)
           r == Reader!Coordinate(t, b, junk)
           bad(p) == [b EXCEPT !.at = "bad", !.pos = p]
<1>1. /\ IsPlace(Reader!Behind(t, b.pos)) /\ IsPlace(x.pos) /\ IsPlace(y.pos)
      /\ IsPlace(Reader!Behind(t, y.pos))
  BY TextHasPlaces, NumberIsRead DEF Standing
<1>2. ASSUME NEW p, IsPlace(p) PROVE Standing(bad(p))
  <2>1. PICK a, q, cs : b = [at |-> a, pos |-> q, coords |-> cs]
    BY DEF Standing
  <2>2. [b EXCEPT !.at = "bad"] = [at |-> "bad", pos |-> q, coords |-> cs]
    BY <2>1
  <2>3. bad(p) = [[b EXCEPT !.at = "bad"] EXCEPT !.pos = p]
    OBVIOUS
  <2>4. [[at |-> "bad", pos |-> q, coords |-> cs] EXCEPT !.pos = p]
        = [at |-> "bad", pos |-> p, coords |-> cs]
    OBVIOUS
  <2>5. bad(p) = [at |-> "bad", pos |-> p, coords |-> cs]
    BY <2>2, <2>3, <2>4, Zenon
  <2> QED
    BY <1>2, <2>5 DEF Standing
<1>3. \/ r = bad(Reader!Behind(t, b.pos)) \/ r = bad(x.pos) \/ r = bad(y.pos)
      \/ \E a : r = [at |-> a, pos |-> Reader!Behind(t, y.pos),
                     coords |-> Append(b.coords, <<x.value, y.value>>)]
  BY Zenon DEF Reader!Coordinate
<1>4. ASSUME NEW a, NEW cs
      PROVE  Standing([at |-> a, pos |-> Reader!Behind(t, y.pos), coords |-> cs])
  BY <1>1 DEF Standing
<1> HIDE DEF bad, x, y, r
<1>5. Standing(r)
  BY <1>1, <1>2, <1>3, <1>4
<1> QED
  BY <1>5 DEF r

(* parser.c:174-206. *)
LEMMA LoopIsRead ==
  ASSUME NEW t \in Text, NEW p, IsPlace(p), NEW junk
  PROVE  Standing(Reader!Coordinates(t, p, junk))
<1> DEFINE start == [at |-> "next", pos |-> p, coords |-> <<>>]
           Round(b) == IF b.at = "next" THEN Reader!Coordinate(t, b, junk) ELSE b
           IsLoop(g, n) == g = [k \in 0 .. n |-> IF k = 0 THEN start ELSE Round(g[k - 1])]
           loop == CHOOSE g : IsLoop(g, MaxCoords)
<1>1. MaxCoords \in Nat
  BY ReaderAssumption
<1>2. Standing(start)
  BY DEF Standing
<1>3. ASSUME NEW b, Standing(b) PROVE Standing(Round(b))
  BY <1>3, RoundIsRead
<1>4. Reader!Coordinates(t, p, junk) = loop[MaxCoords]
  BY DEF Reader!Coordinates
<1> HIDE DEF start, Round
<1>5. \A n \in Nat : \E g : IsLoop(g, n)
  <2> DEFINE S == {n \in Nat : ~\E g : IsLoop(g, n)}
  <2> SUFFICES ASSUME S # {} PROVE FALSE
    OBVIOUS
  <2>1. PICK m \in S : \A n \in S : m <= n
    BY LeastNat
  <2>2. CASE m = 0
    <3>1. IsLoop([k \in 0 .. 0 |-> start], 0)
      OBVIOUS
    <3> QED
      BY <2>2, <3>1
  <2>3. CASE m > 0
    <3>1. m - 1 \in Nat /\ m - 1 \notin S
      BY <2>1, <2>3
    <3>2. PICK g : IsLoop(g, m - 1)
      BY <3>1
    <3> DEFINE h == [k \in 0 .. m |-> IF k = 0 THEN start ELSE Round(g[k - 1])]
    <3>3. \A k \in 0 .. m - 1 : h[k] = g[k]
      BY <2>3, <3>2
    <3>4. \A k \in 0 .. m : k # 0 => h[k - 1] = g[k - 1]
      <4>1. m \in Nat /\ \A k \in 0 .. m : k # 0 => k - 1 \in 0 .. m - 1
        OBVIOUS
      <4> HIDE DEF h
      <4> QED
        BY <3>3, <4>1
    <3>5. IsLoop(h, m)
      BY <3>4
    <3> QED
      BY <2>1, <3>5
  <2> QED
    BY <2>1, <2>2, <2>3
<1>6. IsLoop(loop, MaxCoords)
  BY <1>1, <1>5
<1> HIDE DEF loop
<1>7. \A k \in 0 .. MaxCoords : loop[k] = IF k = 0 THEN start ELSE Round(loop[k - 1])
  BY <1>6
<1>8. \A n \in 0 .. MaxCoords : Standing(loop[n])
  <2> DEFINE S == {n \in 0 .. MaxCoords : ~Standing(loop[n])}
  <2> SUFFICES ASSUME S # {} PROVE FALSE
    OBVIOUS
  <2>1. PICK m \in S : \A n \in S : m <= n
    <3>1. S \in SUBSET Nat
      BY <1>1
    <3> HIDE DEF S
    <3> QED
      BY <3>1, LeastNat
  <2>2. m # 0
    BY <1>1, <1>2, <1>7
  <2>3. m - 1 \in 0 .. MaxCoords /\ m - 1 \notin S
    BY <1>1, <2>1, <2>2
  <2>4. Standing(Round(loop[m - 1]))
    BY <1>3, <2>3
  <2> QED
    BY <1>7, <2>1, <2>2, <2>4
<1> QED
  BY <1>1, <1>4, <1>8

(* parser.c:162-219. *)
LEMMA ReserveIsRead ==
  ASSUME NEW t \in Text, NEW p, IsPlace(p), NEW junk
  PROVE  Complete(t, Reader!parse_reserve(t, p, junk))
<1> DEFINE id  == Reader!read_uint(t, p, junk)
           end == Reader!Coordinates(t, Reader!Behind(t, id.pos), junk)
           r   == Reader!parse_reserve(t, p, junk)
<1>1. IsPlace(id.pos) /\ IsPlace(Reader!Behind(t, id.pos))
  BY NumberIsRead, TextHasPlaces
<1>2. IsPlace(end.pos) /\ IsPlace(Reader!Behind(t, end.pos))
  <2>1. IsPlace(end.pos)
    BY <1>1, LoopIsRead DEF Standing
  <2> QED
    BY <2>1, TextHasPlaces
<1>3. \/ r = Reader!Invalid(t, id.pos)
      \/ r = Reader!Invalid(t, Reader!Behind(t, id.pos))
      \/ r = Reader!Invalid(t, end.pos)
      \/ r = Reader!Invalid(t, Reader!Behind(t, end.pos))
      \/ /\ Reader!At(t, end.pos) = Reader!NL
         /\ r = Reader!Result([op |-> "reserve", id |-> id.value, seats |-> end.coords], end.pos + 1)
  BY Zenon DEF Reader!parse_reserve, Reader!Closed
<1> HIDE DEF id, end, r
<1>4. Reader!At(t, end.pos) = Reader!NL => AtLine(t, end.pos + 1)
  <2> SUFFICES ASSUME Reader!At(t, end.pos) = Reader!NL PROVE AtLine(t, end.pos + 1)
    OBVIOUS
  <2>1. Reader!NL # Reader!Eof
    BY DEF Reader!NL, Reader!Eof
  <2>2. end.pos <= Len(t) /\ t[end.pos] = Reader!NL
    BY <1>2, <2>1, TextHasPlaces DEF IsPlace
  <2> QED
    BY <1>2, <2>2 DEF AtLine, IsPlace
<1>5. Complete(t, r)
  BY <1>1, <1>2, <1>3, <1>4, InvalidIsComplete DEF Complete, Reader!Result
<1> QED
  BY <1>5 DEF r

ArgumentsFollow(r) == r.command.op \in {"create", "reserve", "show", "wait"} /\ IsPlace(r.pos)

(* parser.c:53-122: a whole keyword is read, then compared. *)
LEMMA KeywordIsRead ==
  ASSUME NEW t \in Text, NEW p, IsPlace(p), p <= Len(t), t[p] \in DOMAIN Keywords
  PROVE  ArgumentsFollow(Reader!Keyword(t, p)) \/ Complete(t, Reader!Keyword(t, p))
<1> DEFINE word == Keywords[t[p]]
           rest == SubSeq(t, p + 1, Reader!Min({p + Len(word.rest), Len(t)}))
           end  == p + 1 + Len(rest)
           r    == Reader!Keyword(t, p)
<1>1. /\ Len(t) \in Nat /\ Len(word.rest) \in Nat /\ word.op # "eoc"
      /\ word.alone \/ word.op \in {"create", "reserve", "show", "wait"}
  BY ReaderAssumption DEF Text
<1>2. IsPlace(end) /\ IsPlace(Reader!Behind(t, end))
  <2>1. {p + Len(word.rest), Len(t)} \in SUBSET Nat
    BY <1>1 DEF IsPlace
  <2>2. PICK m \in Nat : m = Reader!Min({p + Len(word.rest), Len(t)}) /\ p <= m /\ m <= Len(t)
    <3>1. PICK n \in Nat : n = p + Len(word.rest) /\ p <= n
      BY <1>1 DEF IsPlace
    <3>2. Reader!Min({n, Len(t)}) \in {n, Len(t)} /\ Reader!Min({n, Len(t)}) <= Len(t)
      BY <1>1, MinIsLeast
    <3> HIDE DEF word
    <3> QED
      BY <1>1, <3>1, <3>2
  <2>3. t \in Seq(STRING \ {Reader!Eof}) /\ p + 1 \in 1 .. m + 1 /\ m \in Nat
    BY <2>2 DEF Text, IsPlace
  <2>4. Len(rest) \in Nat
    <3>1. rest = SubSeq(t, p + 1, m)
      BY <2>2
    <3>2. SubSeq(t, p + 1, m) \in Seq(STRING \ {Reader!Eof})
      <4>1. \A k \in p + 1 .. m : k \in 1 .. Len(t)
        BY <1>1, <2>2 DEF IsPlace
      <4> QED
        BY <2>3, <4>1, SubSeqProperties
    <3> HIDE DEF rest
    <3> QED
      BY <3>1, <3>2
  <2>5. IsPlace(end)
    <3> HIDE DEF rest
    <3> QED
      BY <2>4 DEF IsPlace
  <2> QED
    BY <2>5, TextHasPlaces
<1>3. \/ r = Reader!Invalid(t, end) \/ r = Reader!Invalid(t, Reader!Behind(t, end))
      \/ ~word.alone /\ r = Reader!Result([op |-> word.op], end)
      \/ /\ Reader!At(t, end) \in Reader!LineEnd
         /\ r = Reader!Result([op |-> word.op], Reader!Behind(t, end))
  BY Zenon DEF Reader!Keyword
<1> HIDE DEF word, rest, end, r
<1>4. CASE ~word.alone /\ r = Reader!Result([op |-> word.op], end)
  <2>1. r.command.op = word.op /\ r.pos = end
    BY <1>4 DEF Reader!Result
  <2>2. ArgumentsFollow(r)
    BY <1>1, <1>2, <1>4, <2>1 DEF ArgumentsFollow
  <2> QED
    BY <2>2 DEF r
<1>5. CASE ~(~word.alone /\ r = Reader!Result([op |-> word.op], end))
  <2>1. Complete(t, r)
    BY <1>1, <1>2, <1>3, <1>5, InvalidIsComplete, BehindALine DEF Complete, Reader!Result
  <2> QED
    BY <2>1 DEF r
<1> QED
  BY <1>4, <1>5

(* parser.c:46-135: get_next returns EOC at the end of the file and there only. *)
LEMMA CommandBegins ==
  ASSUME NEW t \in Text, NEW p, IsPlace(p)
  PROVE  \/ Reader!get_next(t, p).command.op = "eoc" /\ p > Len(t)
         \/ ArgumentsFollow(Reader!get_next(t, p)) \/ Complete(t, Reader!get_next(t, p))
<1> DEFINE r == Reader!get_next(t, p)
<1>1. /\ Len(t) \in Nat /\ (Reader!At(t, p) = Reader!Eof <=> p > Len(t))
      /\ (p <= Len(t) => Reader!At(t, p) = t[p]) /\ IsPlace(p + 1)
  BY TextHasPlaces DEF IsPlace
<1>2. \/ Reader!At(t, p) = Reader!Eof /\ r = Reader!Result([op |-> "eoc"], p)
      \/ /\ Reader!At(t, p) # Reader!Eof /\ Reader!At(t, p) \in DOMAIN Keywords
         /\ r = Reader!Keyword(t, p)
      \/ r = Reader!Result([op |-> "empty"], Reader!cleanup(t, p + 1))
      \/ Reader!At(t, p) = Reader!NL /\ r = Reader!Result([op |-> "empty"], p + 1)
      \/ r = Reader!Invalid(t, p + 1)
  <2>1. CASE Reader!At(t, p) = Reader!Eof
    <3>1. /\ Reader!At(t, p) # "#" /\ Reader!At(t, p) # Reader!NL
          /\ Reader!At(t, p) \notin DOMAIN Keywords
      BY <2>1, ReaderAssumption DEF Reader!Eof, Reader!NL
    <3> QED
      BY <2>1, <3>1, Zenon DEF Reader!get_next
  <2>2. CASE Reader!At(t, p) # Reader!Eof
    <3>1. CASE Reader!At(t, p) \in DOMAIN Keywords
      BY <2>2, <3>1 DEF Reader!get_next
    <3>2. CASE Reader!At(t, p) \notin DOMAIN Keywords /\ Reader!At(t, p) = "#"
      BY <2>2, <3>2 DEF Reader!get_next
    <3>3. CASE Reader!At(t, p) \notin DOMAIN Keywords /\ Reader!At(t, p) # "#"
      BY <2>2, <3>3 DEF Reader!get_next
    <3> QED
      BY <3>1, <3>2, <3>3
  <2> QED
    BY <2>1, <2>2
<1> HIDE DEF r
<1>3. CASE Reader!At(t, p) = Reader!Eof /\ r = Reader!Result([op |-> "eoc"], p)
  BY <1>1, <1>3 DEF Reader!Result, r
<1>4. CASE Reader!At(t, p) # Reader!Eof /\ Reader!At(t, p) \in DOMAIN Keywords /\ r = Reader!Keyword(t, p)
  <2>1. p <= Len(t) /\ t[p] \in DOMAIN Keywords
    BY <1>1, <1>4 DEF IsPlace
  <2> QED
    BY <1>4, <2>1, KeywordIsRead DEF r
<1>5. CASE r = Reader!Result([op |-> "empty"], Reader!cleanup(t, p + 1))
  <2>1. Complete(t, r)
    BY <1>1, <1>5, CleanupEndsALine DEF Complete, Reader!Result
  <2> QED
    BY <2>1 DEF r
<1>6. CASE Reader!At(t, p) = Reader!NL /\ r = Reader!Result([op |-> "empty"], p + 1)
  <2>1. Reader!NL # Reader!Eof
    BY DEF Reader!NL, Reader!Eof
  <2>2. AtLine(t, p + 1)
    BY <1>1, <1>6, <2>1 DEF AtLine, IsPlace
  <2>3. Complete(t, r)
    BY <1>6, <2>2 DEF Complete, Reader!Result
  <2> QED
    BY <2>3 DEF r
<1>7. CASE r = Reader!Invalid(t, p + 1)
  <2>1. Complete(t, r)
    BY <1>1, <1>7, InvalidIsComplete
  <2> QED
    BY <2>1 DEF r
<1> QED
  BY <1>2, <1>3, <1>4, <1>5, <1>6, <1>7

(* A command is read to the end of its line, and only the end of the file is *)
(* taken for the end (main.c:276-390).                                       *)
LEMMA CommandIsRead ==
  ASSUME NEW t \in Text, NEW p, IsPlace(p), NEW junk
  PROVE  \/ Reader!ReadCommand(t, p, junk).command.op = "eoc" /\ p > Len(t)
         \/ Complete(t, Reader!ReadCommand(t, p, junk))
<1> DEFINE next == Reader!get_next(t, p)
           r    == Reader!ReadCommand(t, p, junk)
<1>1. \/ next.command.op = "create" /\ r = Reader!parse_create(t, next.pos, junk)
      \/ next.command.op = "reserve" /\ r = Reader!parse_reserve(t, next.pos, junk)
      \/ next.command.op = "show" /\ r = Reader!parse_show(t, next.pos, junk)
      \/ next.command.op = "wait" /\ r = Reader!parse_wait(t, next.pos, junk)
      \/ next.command.op \notin {"create", "reserve", "show", "wait"} /\ r = next
  BY Zenon DEF Reader!ReadCommand
<1>2. \/ next.command.op = "eoc" /\ p > Len(t)
      \/ ArgumentsFollow(next) \/ Complete(t, next)
  BY CommandBegins
<1> HIDE DEF next, r
<1>3. IsPlace(next.pos) \/ (next.command.op = "eoc" /\ p > Len(t))
  BY <1>2 DEF ArgumentsFollow, Complete, AtLine
<1>4. (r.command.op = "eoc" /\ p > Len(t)) \/ Complete(t, r)
  <2>1. CASE next.command.op \notin {"create", "reserve", "show", "wait"}
    BY <1>1, <1>2, <2>1 DEF ArgumentsFollow
  <2>2. CASE next.command.op \in {"create", "reserve", "show", "wait"}
    <3>1. IsPlace(next.pos)
      BY <1>3, <2>2
    <3> QED
      BY <1>1, <2>2, <3>1, CreateIsRead, ReserveIsRead, ShowIsRead, WaitIsRead
  <2> QED
    BY <2>1, <2>2
<1> QED
  BY <1>4 DEF r

-----------------------------------------------------------------------------
(* Where every file is: at work, given up, read to its end, or still ahead   *)
(* of readdir. *)

Reading ==
  /\ lines \in Texts
  /\ DOMAIN lines \subseteq {dir[n] : n \in 1 .. Len(dir)} \cap JobsFiles
  /\ DOMAIN fdR = DOMAIN lines /\ DOMAIN commands = DOMAIN lines
  /\ \A f \in DOMAIN lines : IsPlace(fdR[f])
  /\ ReadsStartAtLines

IsRead(f)  == fdR[f] > Len(TextOf(lines[f]))
IsAhead(f) == \E n \in entry .. Len(dir) : dir[n] = f
GivenUp(f) == f \in failed /\ RoundBegins(f)

Accounted ==
  /\ \A f \in DOMAIN lines :
       f \in running \cup unforked \cup skipped \/ IsRead(f) \/ IsAhead(f) \/ GivenUp(f)
  /\ ppc \in {"join", "done"} => entry > Len(dir)

ReadInv == Reading /\ Accounted

LEMMA TextsAreText == ASSUME Reading, NEW f \in DOMAIN lines PROVE TextOf(lines[f]) \in Text
<1>1. PICK ls, l : l = lines /\ l \in Texts /\ f \in DOMAIN l /\ ls = l[f]
  BY DEF Reading
<1>2. /\ Len(ls) \in Nat /\ DOMAIN ls = 1 .. Len(ls)
      /\ \A n \in DOMAIN ls : ls[n].text \in Seq(STRING \ {Reader!Eof})
  BY <1>1, ReaderAssumption
<1>3. AreLines(ls)
  BY <1>2 DEF AreLines, Consist
<1>4. TextOf(ls) = Upto(ls)[Len(ls)] /\ Len(ls) \in 0 .. Len(ls)
  BY <1>2, UptoGoesOn
<1>5. \A n \in 0 .. Len(ls) : Upto(ls)[n] \in Text
  BY <1>3, UptoIsText
<1> QED
  BY <1>1, <1>4, <1>5

LEMMA NextIsRead ==
  ASSUME Reading, NEW f \in DOMAIN lines
  PROVE  \/ NextOf(f).command.op = "eoc" /\ IsRead(f)
         \/ NextOf(f).command.op # "eoc" /\ AtLine(TextOf(lines[f]), NextOf(f).pos)
BY TextsAreText, CommandIsRead DEF Reading, NextOf, IsRead, Complete

LEMMA ReadingStarts == Init => ReadInv
<1> SUFFICES ASSUME Init PROVE ReadInv
  OBVIOUS
<1>1. dir \in Seq(STRING) /\ Len(dir) \in Nat /\ DOMAIN dir = 1 .. Len(dir) /\ entry = 1
  BY PoolAssumption DEF Init, PoolInit
<1>2. Reading
  BY <1>1 DEF Init, Reading, IsPlace, ReadsStartAtLines
<1>3. Accounted
  BY <1>1 DEF Init, PoolInit, Accounted, IsAhead
<1> QED
  BY <1>2, <1>3 DEF ReadInv

(* The parent reads nothing, and leaves an entry only for a child, a failed  *)
(* fork or a failed wait. *)
LEMMA ParentReads ==
  ASSUME PoolInv, ReadInv, Parent
  PROVE  ReadInv'
<1>1. UNCHANGED <<lines, fdR, commands, failed>> /\ ParentStep
  BY DEF Parent, readVars
<1>2. dir' = dir /\ Len(dir) \in Nat /\ entry \in Nat /\ entry > 0
  BY <1>1, PoolAssumption DEF ParentStep, Readdir, Fork, WaitForOne, WaitFails, Refork, EndOfDirectory,
     Join, Joined, dirVars, PoolInv, PoolTypeOK
<1>3. Reading'
  BY <1>1, <1>2 DEF ReadInv, Reading, ReadsStartAtLines
<1>4. ASSUME NEW f \in DOMAIN lines
      PROVE  \/ f \in (running \cup unforked \cup skipped)'
             \/ IsRead(f)' \/ IsAhead(f)' \/ GivenUp(f)'
  <2>1. f \in running \cup unforked \cup skipped \/ IsRead(f) \/ IsAhead(f) \/ GivenUp(f)
    BY <1>4 DEF ReadInv, Accounted
  <2>2. IsRead(f)' = IsRead(f) /\ GivenUp(f)' = GivenUp(f) /\ f \in JobsFiles
    BY <1>1, <1>4 DEF IsRead, GivenUp, RoundBegins, ReadInv, Reading
  <2>3. running \subseteq running' /\ unforked \subseteq unforked' /\ skipped \subseteq skipped'
    BY <1>1 DEF ParentStep, Readdir, Fork, WaitForOne, WaitFails, Refork, EndOfDirectory, Join, Joined,
       Forked, ForkFailed, files
  <2>4. \/ entry' = entry
        \/ entry' = entry + 1 /\ (file \notin JobsFiles \/ file \in (running \cup unforked \cup skipped)')
    BY <1>1 DEF ParentStep, Readdir, Fork, WaitForOne, WaitFails, Refork, EndOfDirectory, Join, Joined,
       Forked, ForkFailed, ReadOn, dirVars
  <2>5. IsAhead(f) => IsAhead(f)' \/ f \in (running \cup unforked \cup skipped)'
    <3> SUFFICES ASSUME IsAhead(f), ~IsAhead(f)' PROVE f \in (running \cup unforked \cup skipped)'
      OBVIOUS
    <3>1. PICK n \in entry .. Len(dir) : dir[n] = f
      BY DEF IsAhead
    <3>2. n \notin entry' .. Len(dir)
      BY <1>2, <3>1 DEF IsAhead
    <3>3. n = entry /\ entry' = entry + 1
      BY <1>2, <2>4, <3>2
    <3> QED
      BY <2>2, <2>4, <3>1, <3>3 DEF file
  <2> QED
    BY <2>1, <2>2, <2>3, <2>5
<1>5. (ppc \in {"join", "done"} => entry > Len(dir))'
  BY <1>1, <1>2 DEF ParentStep, Readdir, Fork, WaitForOne, WaitFails, Refork, EndOfDirectory, Join,
     Joined, ReadOn, dirVars, ReadInv, Accounted
<1> QED
  BY <1>1, <1>3, <1>4, <1>5 DEF ReadInv, Accounted

(* A child reads on in its own file, to the end of a line. *)
LEMMA ChildReadsOn ==
  ASSUME ReadInv, NEW g, ChildReads(g)
  PROVE  ReadInv'
<1>1. /\ UNCHANGED <<dir, entry, ppc, running, unforked, skipped, lines, failed>>
      /\ fdR' = [fdR EXCEPT ![g] = NextOf(g).pos] /\ g \in running
      /\ commands' = [commands EXCEPT ![g] = Append(@, NextOf(g).command)]
      /\ NextOf(g).command.op # "eoc"
  BY DEF ChildReads, poolVars, dirVars, files
<1>2. Reading'
  <2>1. DOMAIN fdR' = DOMAIN lines /\ DOMAIN commands' = DOMAIN lines
    BY <1>1 DEF ReadInv, Reading
  <2>2. ASSUME NEW f \in DOMAIN lines
        PROVE  /\ IsPlace(fdR'[f])
               /\ \/ fdR'[f] = 1 \/ fdR'[f] > Len(TextOf(lines[f]))
                  \/ TextOf(lines[f])[fdR'[f] - 1] = Reader!NL
    <3>1. CASE f = g
      <4>1. fdR'[f] = NextOf(f).pos
        BY <1>1, <3>1 DEF ReadInv, Reading
      <4>2. AtLine(TextOf(lines[f]), NextOf(f).pos)
        BY <1>1, <3>1, NextIsRead DEF ReadInv
      <4> QED
        BY <4>1, <4>2 DEF AtLine
    <3>2. CASE f # g
      <4>1. fdR'[f] = fdR[f]
        BY <1>1, <3>2 DEF ReadInv, Reading
      <4> QED
        BY <4>1 DEF ReadInv, Reading, ReadsStartAtLines
    <3> QED
      BY <3>1, <3>2
  <2> QED
    BY <1>1, <2>1, <2>2 DEF ReadInv, Reading, ReadsStartAtLines
<1>3. ASSUME NEW f \in DOMAIN lines, f # g
      PROVE  IsRead(f)' = IsRead(f) /\ GivenUp(f)' = GivenUp(f)
  <2>1. fdR'[f] = fdR[f] /\ commands'[f] = commands[f]
    BY <1>1, <1>3 DEF ReadInv, Reading
  <2> QED
    BY <1>1, <2>1 DEF IsRead, GivenUp, RoundBegins
<1>4. \A f \in DOMAIN lines : IsAhead(f)' = IsAhead(f)
  BY <1>1 DEF IsAhead
<1> QED
  BY <1>1, <1>2, <1>3, <1>4 DEF ReadInv, Accounted

(* A child ends at the end of its file, or has failed. *)
LEMMA ChildIsDone ==
  ASSUME ReadInv, NEW g, ChildEnds(g) \/ ChildFails(g)
  PROVE  ReadInv'
<1>1. /\ UNCHANGED <<dir, entry, ppc, unforked, skipped, lines, fdR, commands>>
      /\ running' = running \ {g} /\ failed \subseteq failed'
      /\ NextOf(g).command.op = "eoc" \/ (g \in failed' /\ RoundBegins(g))
  BY DEF ChildEnds, ChildFails, ChildExits, dirVars, files, readVars
<1>2. Reading'
  BY <1>1 DEF ReadInv, Reading, ReadsStartAtLines
<1>3. \A f \in DOMAIN lines :
        IsRead(f)' = IsRead(f) /\ IsAhead(f)' = IsAhead(f) /\ (GivenUp(f) => GivenUp(f)')
  BY <1>1 DEF IsRead, IsAhead, GivenUp, RoundBegins
<1>4. g \in DOMAIN lines => IsRead(g) \/ GivenUp(g)'
  BY <1>1, NextIsRead DEF ReadInv, GivenUp, RoundBegins
<1> QED
  BY <1>1, <1>2, <1>3, <1>4 DEF ReadInv, Accounted

LEMMA ReadingStays ==
  ASSUME PoolInv, ReadInv, [Next]_programVars
  PROVE  ReadInv'
<1>1. CASE UNCHANGED <<poolVars, readVars>>
  BY <1>1 DEF ReadInv, Reading, ReadsStartAtLines, Accounted, IsRead, IsAhead, GivenUp, RoundBegins,
     poolVars, dirVars, files, readVars
<1>2. \/ Parent \/ UNCHANGED <<poolVars, readVars>>
      \/ \E g \in running : ChildReads(g) \/ ChildEnds(g) \/ ChildFails(g)
  BY DEF Next, Child, PoolEnded, programVars
<1> QED
  BY <1>1, <1>2, ParentReads, ChildReadsOn, ChildIsDone

LEMMA ReadingHolds == Spec => []ReadInv
<1>1. PoolInv /\ ReadInv /\ [Next]_programVars => ReadInv'
  BY ReadingStays
<1> QED
  BY <1>1, ReadingStarts, PoolInvariant, PTL DEF Spec

(* Wherever a child reads on, a line begins: neither a refused command nor a *)
(* complete one leaves a rest of its line behind (parser.c:40-258).          *)
THEOREM LinesAreReadWhole == Spec => []ReadsStartAtLines
<1>1. ReadInv => ReadsStartAtLines
  BY DEF ReadInv, Reading
<1> QED
  BY <1>1, ReadingHolds, PTL

(* When a parent whose last fork succeeded ends, every .jobs file it forked   *)
(* a child for was read to its end, or given up by a child without memory or *)
(* files: at its beginning or behind a BARRIER, where a round of threads     *)
(* begins, and nowhere else (main.c:65-113, 128-180, 188-226).               *)
THEOREM FilesAreRead == Spec => []EveryFileIsRead
<1>1. PoolInv /\ ReadInv => EveryFileIsRead
  <2> SUFFICES ASSUME PoolInv, ReadInv, ppc = "done", pid > 0,
                      NEW f \in DOMAIN lines \ (unforked \cup skipped)
               PROVE  fdR[f] > Len(TextOf(lines[f])) \/ (f \in failed /\ RoundBegins(f))
    BY DEF EveryFileIsRead
  <2>1. running = {}
    BY DEF PoolInv, ParentWaits, children
  <2>2. ~IsAhead(f)
    BY PoolAssumption DEF IsAhead, ReadInv, Accounted, PoolInv, PoolTypeOK
  <2> QED
    BY <2>1, <2>2 DEF ReadInv, Accounted, IsRead, GivenUp
<1> QED
  BY <1>1, ReadingHolds, PoolInvariant, PTL

LEMMA MinIs ==
  ASSUME NEW S \in SUBSET Nat, NEW s \in S, \A n \in S : s <= n
  PROVE  Reader!Min(S) = s
<1>1. Reader!Min(S) \in S /\ \A n \in S : Reader!Min(S) <= n
  BY DEF Reader!Min
<1>2. Reader!Min(S) <= s /\ s <= Reader!Min(S)
  BY <1>1
<1>3. PICK k \in Nat : k = Reader!Min(S)
  BY <1>1
<1> QED
  BY <1>2, <1>3

-----------------------------------------------------------------------------
(* The parser sees only what it reads.  The text u stands in t behind the    *)
(* first d characters: all of it, and then t ends where u does, or all but   *)
(* its last character.                                                       *)
StandsIn(u, t, d, m) ==
  /\ u \in Text /\ t \in Text /\ d \in Nat /\ m \in Nat
  /\ \A k \in 1 .. m : t[k + d] = u[k]
  /\ \/ Len(u) = m /\ Len(t) = m + d
     \/ Len(u) = m + 1 /\ Len(t) >= m + d

(* What is read of u before the place q is what stands in t. *)
Within(u, m, q) == Len(u) = m \/ q <= m + 1

OnPlace(u, q) == q \in 1 .. Len(u) + 1

Number(t, p) == Reader!read_uint(t, p, <<>>)

LEMMA FramePlaces ==
  ASSUME NEW u, NEW t, NEW d, NEW m, StandsIn(u, t, d, m), NEW q, OnPlace(u, q)
  PROVE  /\ Len(u) \in Nat /\ Len(t) \in Nat /\ d \in Nat /\ m \in Nat /\ q \in Nat
         /\ m <= Len(u) /\ m + d <= Len(t) /\ q >= 1 /\ q <= Len(u) + 1
         /\ Len(u) = m => Len(t) = m + d
         /\ Len(u) # m => Len(u) = m + 1
         /\ \A k \in 1 .. m : t[k + d] = u[k]
         /\ \A k \in 1 .. Len(u) : u[k] \in STRING \ {Reader!Eof}
         /\ \A k \in 1 .. Len(t) : t[k] \in STRING \ {Reader!Eof}
BY DEF StandsIn, OnPlace, Text

Piece(u, q, e) == SubSeq(u, q, e)

LEMMA SameText ==
  ASSUME NEW u, NEW t, NEW d, NEW m, StandsIn(u, t, d, m), NEW q, OnPlace(u, q),
         NEW e \in Int, e <= m
  PROVE  Piece(t, q + d, e + d) = Piece(u, q, e)
<1> DEFINE C == STRING \ {Reader!Eof}
<1>0. /\ d \in Nat /\ m \in Nat /\ q \in Nat /\ q >= 1 /\ m <= Len(u) /\ Len(u) \in Nat
      /\ \A k \in 1 .. m : t[k + d] = u[k]
      /\ \A k \in 1 .. Len(u) : u[k] \in C
  BY FramePlaces
<1> HIDE DEF C
<1>1. \A p \in q .. e : p \in 1 .. m /\ u[p] \in C
  BY <1>0
<1>2. \A p \in q + d .. e + d : t[p] = u[p - d] /\ t[p] \in C
  <2> TAKE p \in q + d .. e + d
  <2>1. p - d \in q .. e /\ (p - d) + d = p
    BY <1>0
  <2> QED
    BY <1>0, <1>1, <2>1
<1> DEFINE n == IF q <= e THEN (e - q) + 1 ELSE 0
<1>3. /\ SubSeq(u, q, e) \in Seq(C) /\ Len(SubSeq(u, q, e)) = n
      /\ \A k \in 1 .. n : SubSeq(u, q, e)[k] = u[q + k - 1]
  <2>1. q \in Int /\ e - q + 1 = (e - q) + 1 /\ (q <= e => (e - q) + 1 >= 0)
    BY <1>0
  <2>2. /\ SubSeq(u, q, e) \in Seq(C) /\ Len(SubSeq(u, q, e)) = IF q <= e THEN e - q + 1 ELSE 0
        /\ \A k \in 1 .. e - q + 1 : SubSeq(u, q, e)[k] = u[q + k - 1]
    BY <1>1, <2>1, SubSeqProperties
  <2> QED
    BY <1>0, <2>1, <2>2
<1>4. /\ SubSeq(t, q + d, e + d) \in Seq(C) /\ Len(SubSeq(t, q + d, e + d)) = n
      /\ \A k \in 1 .. n : SubSeq(t, q + d, e + d)[k] = t[(q + d) + k - 1]
  <2> DEFINE a == q + d
             b == e + d
  <2>1. /\ a \in Int /\ b \in Int /\ b - a + 1 = (e - q) + 1
        /\ (a <= b <=> q <= e) /\ (q <= e => (e - q) + 1 >= 0)
    BY <1>0
  <2>2. \A p \in a .. b : t[p] \in C
    BY <1>2
  <2> HIDE DEF a, b
  <2>3. /\ SubSeq(t, a, b) \in Seq(C) /\ Len(SubSeq(t, a, b)) = IF a <= b THEN b - a + 1 ELSE 0
        /\ \A k \in 1 .. b - a + 1 : SubSeq(t, a, b)[k] = t[a + k - 1]
    BY <2>1, <2>2, SubSeqProperties
  <2>4. /\ SubSeq(t, a, b) \in Seq(C) /\ Len(SubSeq(t, a, b)) = n
        /\ \A k \in 1 .. n : SubSeq(t, a, b)[k] = t[a + k - 1]
    BY <1>0, <2>1, <2>3
  <2> QED
    BY <2>4 DEF a, b
<1>5. \A k \in 1 .. n : t[(q + d) + k - 1] = u[q + k - 1]
  <2> TAKE k \in 1 .. n
  <2>1. (q + d) + k - 1 \in q + d .. e + d /\ ((q + d) + k - 1) - d = q + k - 1
    BY <1>0
  <2> QED
    BY <1>2, <2>1
<1>6. PICK x \in Seq(C), y \in Seq(C) : x = SubSeq(u, q, e) /\ y = SubSeq(t, q + d, e + d)
  BY <1>3, <1>4
<1>7. Len(x) = n /\ Len(y) = n
  BY <1>3, <1>4, <1>6
<1> HIDE DEF n
<1>8. \A k \in 1 .. Len(x) : x[k] = y[k]
  BY <1>3, <1>4, <1>5, <1>6, <1>7
<1> QED
  BY <1>6, <1>7, <1>8, SeqEqual DEF Piece

LEMMA SameCharacter ==
  ASSUME NEW u, NEW t, NEW d, NEW m, StandsIn(u, t, d, m), NEW q, OnPlace(u, q),
         Within(u, m, Reader!Behind(u, q))
  PROVE  /\ Reader!At(t, q + d) = Reader!At(u, q)
         /\ Reader!Behind(t, q + d) = Reader!Behind(u, q) + d
<1>0. /\ Len(u) \in Nat /\ Len(t) \in Nat /\ d \in Nat /\ m \in Nat /\ q \in Nat
      /\ m <= Len(u) /\ m + d <= Len(t) /\ q >= 1 /\ q <= Len(u) + 1
      /\ Len(u) = m => Len(t) = m + d
      /\ Len(u) # m => Len(u) = m + 1
      /\ \A k \in 1 .. m : t[k + d] = u[k]
  BY FramePlaces
<1>1. q <= m \/ (Len(u) = m /\ q = m + 1)
  BY <1>0 DEF Within, Reader!Behind
<1>2. CASE q <= m
  <2>1. q <= Len(u) /\ q + d <= Len(t) /\ t[q + d] = u[q]
    BY <1>0, <1>2
  <2> QED
    BY <1>0, <2>1 DEF Reader!At, Reader!Behind
<1>3. CASE Len(u) = m /\ q = m + 1
  <2>1. ~(q <= Len(u)) /\ ~(q + d <= Len(t))
    BY <1>0, <1>3
  <2> QED
    BY <2>1 DEF Reader!At, Reader!Behind
<1> QED
  BY <1>1, <1>2, <1>3

LEMMA BehindIsPlace ==
  ASSUME NEW u \in Text, NEW q, OnPlace(u, q)
  PROVE  OnPlace(u, Reader!Behind(u, q)) /\ Reader!Behind(u, q) >= q
BY DEF OnPlace, Reader!Behind, Text

(* parser.c:9-38. *)
StopsAt(u, q) == Reader!Min({p \in q .. Len(u) : ~Reader!IsDigit(u[p])} \cup {Len(u) + 1})

LEMMA StopIsPlace ==
  ASSUME NEW u \in Text, NEW q, OnPlace(u, q)
  PROVE  /\ StopsAt(u, q) \in q .. Len(u) + 1
         /\ StopsAt(u, q) <= Len(u) => ~Reader!IsDigit(u[StopsAt(u, q)])
         /\ \A p \in q .. StopsAt(u, q) - 1 : Reader!IsDigit(u[p])
<1> DEFINE S == {p \in q .. Len(u) : ~Reader!IsDigit(u[p])} \cup {Len(u) + 1}
<1>1. Len(u) \in Nat /\ q \in Nat /\ q <= Len(u) + 1 /\ q >= 1
  BY DEF OnPlace, Text
<1>2. S \in SUBSET Nat /\ S # {}
  BY <1>1
<1>3. /\ \A p \in S : p \in q .. Len(u) + 1 /\ (p <= Len(u) => ~Reader!IsDigit(u[p]))
      /\ \A p \in q .. Len(u) : ~Reader!IsDigit(u[p]) => p \in S
  BY <1>1
<1>4. StopsAt(u, q) = Reader!Min(S)
  BY DEF StopsAt
<1> HIDE DEF S
<1>5. PICK s \in S : s = StopsAt(u, q) /\ \A n \in S : s <= n
  BY <1>2, <1>4, LeastNat, MinIs
<1>6. ASSUME NEW p \in q .. s - 1 PROVE Reader!IsDigit(u[p])
  <2>1. p \in q .. Len(u) /\ ~(s <= p)
    BY <1>1, <1>3, <1>5
  <2> QED
    BY <1>3, <1>5, <2>1
<1> QED
  BY <1>3, <1>5, <1>6

LEMMA NumberFields ==
  ASSUME NEW u, NEW q
  PROVE  LET v == Reader!ValueOf(Piece(u, q, StopsAt(u, q) - 1) \o <<>>)
         IN  Number(u, q) = [fits |-> v <= UIntMax, value |-> v,
                             next |-> Reader!At(u, StopsAt(u, q)),
                             pos  |-> Reader!Behind(u, StopsAt(u, q))]
BY DEF Number, Reader!read_uint, StopsAt, Piece

LEMMA NumberMoves ==
  ASSUME NEW u, NEW t, NEW d, NEW m, StandsIn(u, t, d, m), NEW q, OnPlace(u, q)
  PROVE  /\ OnPlace(u, Number(u, q).pos) /\ Number(u, q).pos >= q
         /\ Within(u, m, Number(u, q).pos) =>
              /\ Number(t, q + d).fits = Number(u, q).fits
              /\ Number(t, q + d).value = Number(u, q).value
              /\ Number(t, q + d).next = Number(u, q).next
              /\ Number(t, q + d).pos = Number(u, q).pos + d
<1>0. /\ Len(u) \in Nat /\ Len(t) \in Nat /\ d \in Nat /\ m \in Nat /\ q \in Nat
      /\ m <= Len(u) /\ m + d <= Len(t) /\ q >= 1 /\ q <= Len(u) + 1
      /\ Len(u) = m => Len(t) = m + d
      /\ Len(u) # m => Len(u) = m + 1
      /\ \A k \in 1 .. m : t[k + d] = u[k]
  BY FramePlaces
<1>1. u \in Text /\ t \in Text
  BY DEF StandsIn
<1>2. PICK s \in q .. Len(u) + 1 :
        /\ s = StopsAt(u, q) /\ (s <= Len(u) => ~Reader!IsDigit(u[s]))
        /\ \A p \in q .. s - 1 : Reader!IsDigit(u[p])
  BY <1>1, StopIsPlace
<1>3. /\ OnPlace(u, s) /\ OnPlace(u, Reader!Behind(u, s)) /\ Reader!Behind(u, s) >= s
      /\ Number(u, q).pos = Reader!Behind(u, s)
  <2>1. OnPlace(u, s)
    BY <1>0, <1>2 DEF OnPlace
  <2> QED
    BY <1>1, <1>2, <2>1, BehindIsPlace, NumberFields
<1>4. ASSUME Within(u, m, Number(u, q).pos)
      PROVE  /\ Number(t, q + d).fits = Number(u, q).fits
             /\ Number(t, q + d).value = Number(u, q).value
             /\ Number(t, q + d).next = Number(u, q).next
             /\ Number(t, q + d).pos = Number(u, q).pos + d
  <2>1. s <= m \/ (Len(u) = m /\ s = m + 1)
    BY <1>0, <1>2, <1>3, <1>4 DEF Within, Reader!Behind
  <2>2. StopsAt(t, q + d) = s + d
    <3> DEFINE S == {p \in q + d .. Len(t) : ~Reader!IsDigit(t[p])} \cup {Len(t) + 1}
    <3>1. s + d \in S
      <4>1. CASE s <= m
        <5>1. s + d \in q + d .. Len(t) /\ s \in 1 .. m /\ s <= Len(u)
          BY <1>0, <1>2, <4>1
        <5>2. t[s + d] = u[s]
          BY <1>0, <5>1
        <5> QED
          BY <1>2, <5>1, <5>2
      <4>2. CASE Len(u) = m /\ s = m + 1
        BY <1>0, <4>2
      <4> QED
        BY <2>1, <4>1, <4>2
    <3>2. \A n \in S : s + d <= n
      <4> SUFFICES ASSUME NEW n \in S, n < s + d PROVE FALSE
        BY <1>0, <1>2
      <4>0. s + d <= Len(t) + 1 /\ n # Len(t) + 1
        BY <1>0, <1>2, <2>1
      <4>1. n \in q + d .. Len(t) /\ ~Reader!IsDigit(t[n])
        BY <4>0
      <4>2. n - d \in 1 .. m /\ n - d \in q .. s - 1 /\ (n - d) + d = n
        BY <1>0, <1>2, <2>1, <4>1
      <4> QED
        BY <1>0, <1>2, <4>1, <4>2
    <3>3. S \in SUBSET Nat
      BY <1>0
    <3> HIDE DEF S
    <3>4. Reader!Min(S) = s + d
      BY <3>1, <3>2, <3>3, MinIs
    <3> QED
      BY <3>4 DEF StopsAt, S
  <2>3. Piece(t, q + d, (s + d) - 1) = Piece(u, q, s - 1)
    <3>1. s - 1 \in Int /\ s - 1 <= m /\ (s - 1) + d = (s + d) - 1
      BY <1>0, <1>2, <2>1
    <3>2. Piece(t, q + d, (s - 1) + d) = Piece(u, q, s - 1)
      BY <3>1, SameText
    <3> QED
      BY <3>1, <3>2
  <2>4. /\ Reader!At(t, s + d) = Reader!At(u, s)
        /\ Reader!Behind(t, s + d) = Reader!Behind(u, s) + d
    BY <1>3, <1>4, SameCharacter
  <2>5. Piece(t, q + d, StopsAt(t, q + d) - 1) = Piece(u, q, StopsAt(u, q) - 1)
    BY <1>2, <2>2, <2>3
  <2>6. Number(u, q).value = Number(t, q + d).value /\ Number(u, q).fits = Number(t, q + d).fits
    BY <2>5, NumberFields
  <2> QED
    BY <1>2, <2>2, <2>4, <2>6, NumberFields
<1> QED
  <2>1. Reader!Behind(u, s) >= q
    BY <1>0, <1>2, <1>3 DEF OnPlace
  <2> QED
    BY <1>3, <1>4, <2>1

(* parser.c:40-44. *)
LEMMA CleanupMoves ==
  ASSUME NEW u, NEW t, NEW d, NEW m, StandsIn(u, t, d, m), NEW q, OnPlace(u, q)
  PROVE  /\ OnPlace(u, Reader!cleanup(u, q)) /\ Reader!cleanup(u, q) >= q
         /\ Within(u, m, Reader!cleanup(u, q)) => Reader!cleanup(t, q + d) = Reader!cleanup(u, q) + d
<1>0. /\ Len(u) \in Nat /\ Len(t) \in Nat /\ d \in Nat /\ m \in Nat /\ q \in Nat
      /\ m <= Len(u) /\ m + d <= Len(t) /\ q >= 1 /\ q <= Len(u) + 1
      /\ Len(u) = m => Len(t) = m + d
      /\ Len(u) # m => Len(u) = m + 1
      /\ \A k \in 1 .. m : t[k + d] = u[k]
  BY FramePlaces
<1> DEFINE S == {p \in q .. Len(u) : u[p] = Reader!NL} \cup {Len(u)}
           Z == {p \in q + d .. Len(t) : t[p] = Reader!NL} \cup {Len(t)}
<1>1. S \in SUBSET Nat /\ S # {} /\ Z \in SUBSET Nat
  BY <1>0
<1>2. Reader!cleanup(u, q) = Reader!Min(S) + 1 /\ Reader!cleanup(t, q + d) = Reader!Min(Z) + 1
  BY DEF Reader!cleanup
<1>3. PICK s \in S : s = Reader!Min(S) /\ \A n \in S : s <= n
  <2> HIDE DEF S
  <2> QED
    BY <1>1, LeastNat, MinIs
<1>4. s \in Nat /\ s <= Len(u) /\ s + 1 >= q /\ (s # Len(u) => s >= q /\ u[s] = Reader!NL)
  BY <1>0, <1>3
<1>5. ASSUME Within(u, m, s + 1) PROVE Reader!Min(Z) = s + d
  <2>1. s <= m
    BY <1>0, <1>4, <1>5 DEF Within
  <2>2. s + d \in Z
    <3>1. CASE s = Len(u)
      BY <1>0, <2>1, <3>1
    <3>2. CASE s # Len(u) /\ s >= 1
      <4>1. t[s + d] = Reader!NL
        BY <1>0, <1>4, <2>1, <3>2
      <4> QED
        BY <1>0, <1>4, <2>1, <3>2, <4>1
    <3> QED
      BY <1>0, <1>4, <3>1, <3>2
  <2>3. \A n \in Z : s + d <= n
    <3> SUFFICES ASSUME NEW n \in Z, n < s + d PROVE FALSE
      BY <1>0, <1>4
    <3>1. n \in q + d .. Len(t) /\ t[n] = Reader!NL
      BY <1>0, <2>1
    <3>2. n - d \in 1 .. m /\ n - d \in q .. Len(u) /\ (n - d) + d = n /\ n - d < s
      BY <1>0, <1>4, <2>1, <3>1
    <3>3. n - d \in S
      BY <1>0, <3>1, <3>2
    <3> QED
      BY <1>3, <1>4, <3>2, <3>3
  <2> HIDE DEF Z
  <2> QED
    BY <1>1, <2>2, <2>3, MinIs
<1> HIDE DEF S, Z
<1>6. Reader!cleanup(u, q) = s + 1
  BY <1>2, <1>3
<1>7. OnPlace(u, s + 1)
  BY <1>0, <1>4 DEF OnPlace
<1>8. Within(u, m, s + 1) => Reader!cleanup(t, q + d) = s + 1 + d
  BY <1>0, <1>2, <1>4, <1>5
<1> QED
  BY <1>4, <1>6, <1>7, <1>8


(* What is read of u from q on is read of t from q + d on, if t holds as     *)
(* much of u as is read. *)
Moved(r, d) == Reader!Result(r.command, r.pos + d)
Moves(ru, rt, u, d, m, q) ==
  /\ OnPlace(u, ru.pos) /\ ru.pos >= q
  /\ Within(u, m, ru.pos) => rt = Moved(ru, d)

SameNumber(nu, nt, d) ==
  /\ nt.value = nu.value /\ nt.pos = nu.pos + d
  /\ \A chars : Reader!EndsWith(nt, chars) <=> Reader!EndsWith(nu, chars)

LEMMA WithinDown ==
  ASSUME NEW u \in Text, NEW m, NEW q, NEW p, OnPlace(u, p), OnPlace(u, q), q <= p, m \in Nat,
         Within(u, m, p)
  PROVE  Within(u, m, q)
BY DEF Within, OnPlace, Text

LEMMA NumberIsSame ==
  ASSUME NEW u, NEW t, NEW d, NEW m, StandsIn(u, t, d, m), NEW q, OnPlace(u, q)
  PROVE  /\ OnPlace(u, Number(u, q).pos) /\ Number(u, q).pos >= q
         /\ Within(u, m, Number(u, q).pos) => SameNumber(Number(u, q), Number(t, q + d), d)
BY NumberMoves DEF SameNumber, Reader!EndsWith

LEMMA ResultFields ==
  ASSUME NEW c, NEW p, NEW d
  PROVE  /\ Reader!Result(c, p).command = c /\ Reader!Result(c, p).pos = p
         /\ Moved(Reader!Result(c, p), d) = Reader!Result(c, p + d)
BY DEF Reader!Result, Moved

LEMMA InvalidMoves ==
  ASSUME NEW u, NEW t, NEW d, NEW m, StandsIn(u, t, d, m), NEW q, OnPlace(u, q)
  PROVE  Moves(Reader!Invalid(u, q), Reader!Invalid(t, q + d), u, d, m, q)
BY CleanupMoves, ResultFields DEF Moves, Reader!Invalid

(* A refusal from the place p on, wherever p was found. *)
LEMMA RefusalMoves ==
  ASSUME NEW u, NEW t, NEW d, NEW m, StandsIn(u, t, d, m), NEW q, OnPlace(u, q),
         NEW p, OnPlace(u, p), p >= q, NEW ru, ru = Reader!Invalid(u, p), NEW rt,
         Within(u, m, p) => rt = Reader!Invalid(t, p + d)
  PROVE  Moves(ru, rt, u, d, m, q)
<1>1. u \in Text /\ m \in Nat
  BY DEF StandsIn
<1>2. Moves(Reader!Invalid(u, p), Reader!Invalid(t, p + d), u, d, m, p)
  BY InvalidMoves
<1>3. Within(u, m, ru.pos) => Within(u, m, p)
  BY <1>1, <1>2, WithinDown DEF Moves
<1>4. ru.pos >= q
  BY <1>1, <1>2 DEF Moves, OnPlace, Text
<1> QED
  BY <1>2, <1>3, <1>4 DEF Moves

(* A result whose place p was found. *)
LEMMA ResultMoves ==
  ASSUME NEW u, NEW t, NEW d, NEW m, NEW q,
         NEW p, OnPlace(u, p), p >= q, NEW c, NEW ru, ru = Reader!Result(c, p), NEW rt,
         Within(u, m, p) => rt = Reader!Result(c, p + d)
  PROVE  Moves(ru, rt, u, d, m, q)
BY ResultFields DEF Moves

(* parser.c:221-230. *)
LEMMA ShowMoves ==
  ASSUME NEW u, NEW t, NEW d, NEW m, StandsIn(u, t, d, m), NEW q, OnPlace(u, q)
  PROVE  Moves(Reader!parse_show(u, q, <<>>), Reader!parse_show(t, q + d, <<>>), u, d, m, q)
<1> DEFINE End(s) == Reader!EndsWith(s, Reader!LineEnd)
           show(s) == Reader!Result([op |-> "show", id |-> s.value], s.pos)
<1>1. ASSUME NEW s, NEW p
      PROVE  LET id == Number(s, p)
             IN  /\ End(id) => Reader!parse_show(s, p, <<>>) = show(id)
                 /\ ~End(id) => Reader!parse_show(s, p, <<>>) = Reader!Invalid(s, id.pos)
  BY Zenon DEF Reader!parse_show, Number
<1>2. PICK iu, it : iu = Number(u, q) /\ it = Number(t, q + d)
  OBVIOUS
<1>3. PICK ru, rt : ru = Reader!parse_show(u, q, <<>>) /\ rt = Reader!parse_show(t, q + d, <<>>)
  OBVIOUS
<1>4. OnPlace(u, iu.pos) /\ iu.pos >= q /\ (Within(u, m, iu.pos) => SameNumber(iu, it, d))
  BY <1>2, NumberIsSame
<1>5. /\ End(iu) => ru = show(iu)
      /\ ~End(iu) => ru = Reader!Invalid(u, iu.pos)
      /\ End(it) => rt = show(it)
      /\ ~End(it) => rt = Reader!Invalid(t, it.pos)
  BY <1>1, <1>2, <1>3
<1>6. Moves(ru, rt, u, d, m, q)
  <2>1. CASE End(iu)
    <3>1. Within(u, m, iu.pos) =>
            rt = Reader!Result([op |-> "show", id |-> iu.value], iu.pos + d)
      BY <1>4, <1>5, <2>1 DEF SameNumber
    <3> QED
      BY <1>4, <1>5, <2>1, <3>1, ResultMoves
  <2>2. CASE ~End(iu)
    <3>1. Within(u, m, iu.pos) => rt = Reader!Invalid(t, iu.pos + d)
      BY <1>4, <1>5, <2>2 DEF SameNumber
    <3> QED
      BY <1>4, <1>5, <2>2, <3>1, RefusalMoves
  <2> QED
    BY <2>1, <2>2
<1> QED
  BY <1>3, <1>6

(* parser.c:232-258. *)
LEMMA WaitMoves ==
  ASSUME NEW u, NEW t, NEW d, NEW m, StandsIn(u, t, d, m), NEW q, OnPlace(u, q)
  PROVE  Moves(Reader!parse_wait(u, q, <<>>), Reader!parse_wait(t, q + d, <<>>), u, d, m, q)
<1> DEFINE End(s) == Reader!EndsWith(s, Reader!LineEnd)
           Gap(s) == Reader!EndsWith(s, {Reader!Blank})
           all(s) == Reader!Result([op |-> "wait_all", delay |-> s.value], s.pos)
           one(s, z) == Reader!Result([op |-> "wait_one", delay |-> s.value, thread |-> z.value], z.pos)
<1>1. ASSUME NEW s, NEW p
      PROVE  LET delay  == Number(s, p)
                 thread == Number(s, delay.pos)
                 r      == Reader!parse_wait(s, p, <<>>)
             IN  /\ End(delay) => r = all(delay)
                 /\ ~End(delay) /\ ~Gap(delay) => r = Reader!Invalid(s, delay.pos)
                 /\ ~End(delay) /\ Gap(delay) /\ End(thread) => r = one(delay, thread)
                 /\ ~End(delay) /\ Gap(delay) /\ ~End(thread) => r = Reader!Invalid(s, thread.pos)
  <2> DEFINE delay  == Number(s, p)
             thread == Number(s, delay.pos)
             r      == Reader!parse_wait(s, p, <<>>)
  <2>1. CASE End(delay)
    <3>1. ~Gap(delay)
      BY <2>1 DEF Reader!EndsWith, Reader!LineEnd, Reader!NL, Reader!Eof, Reader!Blank
    <3>2. r = all(delay)
      BY <2>1, <3>1, Zenon DEF Reader!parse_wait, Number
    <3> QED
      BY <2>1, <3>2
  <2>2. CASE ~End(delay) /\ ~Gap(delay)
    <3>1. r = Reader!Invalid(s, delay.pos)
      BY <2>2, Zenon DEF Reader!parse_wait, Number
    <3> QED
      BY <2>2, <3>1
  <2>3. CASE ~End(delay) /\ Gap(delay)
    <3>1. End(thread) => r = one(delay, thread)
      BY <2>3, Zenon DEF Reader!parse_wait, Number
    <3>2. ~End(thread) => r = Reader!Invalid(s, thread.pos)
      BY <2>3, Zenon DEF Reader!parse_wait, Number
    <3> QED
      BY <2>3, <3>1, <3>2
  <2> QED
    BY <2>1, <2>2, <2>3
<1>2. PICK au, at, bu, bt :
        /\ au = Number(u, q) /\ at = Number(t, q + d)
        /\ bu = Number(u, au.pos) /\ bt = Number(t, at.pos)
  OBVIOUS
<1>3. PICK ru, rt : ru = Reader!parse_wait(u, q, <<>>) /\ rt = Reader!parse_wait(t, q + d, <<>>)
  OBVIOUS
<1>4. OnPlace(u, au.pos) /\ au.pos >= q /\ (Within(u, m, au.pos) => SameNumber(au, at, d))
  BY <1>2, NumberIsSame
<1>5. /\ OnPlace(u, bu.pos) /\ bu.pos >= au.pos
      /\ Within(u, m, bu.pos) => SameNumber(au, at, d) /\ SameNumber(bu, bt, d)
  <2>1. /\ OnPlace(u, bu.pos) /\ bu.pos >= au.pos
        /\ Within(u, m, bu.pos) => SameNumber(bu, Number(t, au.pos + d), d)
    BY <1>2, <1>4, NumberIsSame
  <2>2. Within(u, m, bu.pos) => Within(u, m, au.pos)
    BY <1>4, <2>1, WithinDown DEF StandsIn
  <2>3. SameNumber(au, at, d) => bt = Number(t, au.pos + d)
    BY <1>2 DEF SameNumber
  <2> QED
    BY <1>4, <2>1, <2>2, <2>3
<1>6. bu.pos >= q
  BY <1>4, <1>5 DEF OnPlace
<1>7. /\ End(au) => ru = all(au)
      /\ ~End(au) /\ ~Gap(au) => ru = Reader!Invalid(u, au.pos)
      /\ ~End(au) /\ Gap(au) /\ End(bu) => ru = one(au, bu)
      /\ ~End(au) /\ Gap(au) /\ ~End(bu) => ru = Reader!Invalid(u, bu.pos)
  BY <1>1, <1>2, <1>3
<1>8. /\ End(at) => rt = all(at)
      /\ ~End(at) /\ ~Gap(at) => rt = Reader!Invalid(t, at.pos)
      /\ ~End(at) /\ Gap(at) /\ End(bt) => rt = one(at, bt)
      /\ ~End(at) /\ Gap(at) /\ ~End(bt) => rt = Reader!Invalid(t, bt.pos)
  BY <1>1, <1>2, <1>3
<1>9. Moves(ru, rt, u, d, m, q)
  <2>1. CASE End(au)
    <3>1. Within(u, m, au.pos) =>
            rt = Reader!Result([op |-> "wait_all", delay |-> au.value], au.pos + d)
      BY <1>4, <1>8, <2>1 DEF SameNumber
    <3> QED
      BY <1>4, <1>7, <2>1, <3>1, ResultMoves
  <2>2. CASE ~End(au) /\ ~Gap(au)
    <3>1. Within(u, m, au.pos) => rt = Reader!Invalid(t, au.pos + d)
      BY <1>4, <1>8, <2>2 DEF SameNumber
    <3> QED
      BY <1>4, <1>7, <2>2, <3>1, RefusalMoves
  <2>3. CASE ~End(au) /\ Gap(au) /\ End(bu)
    <3>1. Within(u, m, bu.pos) =>
            rt = Reader!Result([op |-> "wait_one", delay |-> au.value, thread |-> bu.value], bu.pos + d)
      BY <1>5, <1>8, <2>3 DEF SameNumber
    <3> QED
      BY <1>5, <1>6, <1>7, <2>3, <3>1, ResultMoves
  <2>4. CASE ~End(au) /\ Gap(au) /\ ~End(bu)
    <3>1. Within(u, m, bu.pos) => rt = Reader!Invalid(t, bu.pos + d)
      BY <1>5, <1>8, <2>4 DEF SameNumber
    <3> QED
      BY <1>5, <1>6, <1>7, <2>4, <3>1, RefusalMoves
  <2> QED
    BY <2>1, <2>2, <2>3, <2>4
<1> QED
  BY <1>3, <1>9

(* parser.c:137-160. *)
LEMMA CreateMoves ==
  ASSUME NEW u, NEW t, NEW d, NEW m, StandsIn(u, t, d, m), NEW q, OnPlace(u, q)
  PROVE  Moves(Reader!parse_create(u, q, <<>>), Reader!parse_create(t, q + d, <<>>), u, d, m, q)
<1> DEFINE End(s) == Reader!EndsWith(s, Reader!LineEnd)
           Gap(s) == Reader!EndsWith(s, {Reader!Blank})
           create(s, y, z) ==
             Reader!Result([op |-> "create", id |-> s.value, dim |-> <<y.value, z.value>>], z.pos)
<1>1. ASSUME NEW s, NEW p
      PROVE  LET id   == Number(s, p)
                 rows == Number(s, id.pos)
                 cols == Number(s, rows.pos)
                 r    == Reader!parse_create(s, p, <<>>)
             IN  /\ ~Gap(id) => r = Reader!Invalid(s, id.pos)
                 /\ Gap(id) /\ ~Gap(rows) => r = Reader!Invalid(s, rows.pos)
                 /\ Gap(id) /\ Gap(rows) /\ ~End(cols) => r = Reader!Invalid(s, cols.pos)
                 /\ Gap(id) /\ Gap(rows) /\ End(cols) => r = create(id, rows, cols)
  BY Zenon DEF Reader!parse_create, Number
<1>2. PICK au, at, bu, bt, cu, ct :
        /\ au = Number(u, q) /\ at = Number(t, q + d)
        /\ bu = Number(u, au.pos) /\ bt = Number(t, at.pos)
        /\ cu = Number(u, bu.pos) /\ ct = Number(t, bt.pos)
  OBVIOUS
<1>3. PICK ru, rt : ru = Reader!parse_create(u, q, <<>>) /\ rt = Reader!parse_create(t, q + d, <<>>)
  OBVIOUS
<1>4. OnPlace(u, au.pos) /\ au.pos >= q /\ (Within(u, m, au.pos) => SameNumber(au, at, d))
  BY <1>2, NumberIsSame
<1>5. /\ OnPlace(u, bu.pos) /\ bu.pos >= au.pos
      /\ Within(u, m, bu.pos) => SameNumber(au, at, d) /\ SameNumber(bu, bt, d)
  <2>1. /\ OnPlace(u, bu.pos) /\ bu.pos >= au.pos
        /\ Within(u, m, bu.pos) => SameNumber(bu, Number(t, au.pos + d), d)
    BY <1>2, <1>4, NumberIsSame
  <2>2. Within(u, m, bu.pos) => Within(u, m, au.pos)
    BY <1>4, <2>1, WithinDown DEF StandsIn
  <2>3. SameNumber(au, at, d) => bt = Number(t, au.pos + d)
    BY <1>2 DEF SameNumber
  <2> QED
    BY <1>4, <2>1, <2>2, <2>3
<1>6. /\ OnPlace(u, cu.pos) /\ cu.pos >= bu.pos
      /\ Within(u, m, cu.pos) => SameNumber(au, at, d) /\ SameNumber(bu, bt, d) /\ SameNumber(cu, ct, d)
  <2>1. /\ OnPlace(u, cu.pos) /\ cu.pos >= bu.pos
        /\ Within(u, m, cu.pos) => SameNumber(cu, Number(t, bu.pos + d), d)
    BY <1>2, <1>5, NumberIsSame
  <2>2. Within(u, m, cu.pos) => Within(u, m, bu.pos)
    BY <1>5, <2>1, WithinDown DEF StandsIn
  <2>3. SameNumber(bu, bt, d) => ct = Number(t, bu.pos + d)
    BY <1>2 DEF SameNumber
  <2> QED
    BY <1>5, <2>1, <2>2, <2>3
<1>7. bu.pos >= q /\ cu.pos >= q
  BY <1>4, <1>5, <1>6 DEF OnPlace
<1>8. /\ ~Gap(au) => ru = Reader!Invalid(u, au.pos)
      /\ Gap(au) /\ ~Gap(bu) => ru = Reader!Invalid(u, bu.pos)
      /\ Gap(au) /\ Gap(bu) /\ ~End(cu) => ru = Reader!Invalid(u, cu.pos)
      /\ Gap(au) /\ Gap(bu) /\ End(cu) => ru = create(au, bu, cu)
  BY <1>1, <1>2, <1>3
<1>9. /\ ~Gap(at) => rt = Reader!Invalid(t, at.pos)
      /\ Gap(at) /\ ~Gap(bt) => rt = Reader!Invalid(t, bt.pos)
      /\ Gap(at) /\ Gap(bt) /\ ~End(ct) => rt = Reader!Invalid(t, ct.pos)
      /\ Gap(at) /\ Gap(bt) /\ End(ct) => rt = create(at, bt, ct)
  BY <1>1, <1>2, <1>3
<1>10. Moves(ru, rt, u, d, m, q)
  <2>1. CASE ~Gap(au)
    <3>1. Within(u, m, au.pos) => rt = Reader!Invalid(t, au.pos + d)
      BY <1>4, <1>9, <2>1 DEF SameNumber
    <3> QED
      BY <1>4, <1>8, <2>1, <3>1, RefusalMoves
  <2>2. CASE Gap(au) /\ ~Gap(bu)
    <3>1. Within(u, m, bu.pos) => rt = Reader!Invalid(t, bu.pos + d)
      BY <1>5, <1>9, <2>2 DEF SameNumber
    <3> QED
      BY <1>5, <1>7, <1>8, <2>2, <3>1, RefusalMoves
  <2>3. CASE Gap(au) /\ Gap(bu) /\ ~End(cu)
    <3>1. Within(u, m, cu.pos) => rt = Reader!Invalid(t, cu.pos + d)
      BY <1>6, <1>9, <2>3 DEF SameNumber
    <3> QED
      BY <1>6, <1>7, <1>8, <2>3, <3>1, RefusalMoves
  <2>4. CASE Gap(au) /\ Gap(bu) /\ End(cu)
    <3>1. Within(u, m, cu.pos) =>
            rt = Reader!Result([op |-> "create", id |-> au.value, dim |-> <<bu.value, cu.value>>],
                               cu.pos + d)
      BY <1>6, <1>9, <2>4 DEF SameNumber
    <3> QED
      BY <1>6, <1>7, <1>8, <2>4, <3>1, ResultMoves
  <2> QED
    BY <2>1, <2>2, <2>3, <2>4
<1> QED
  BY <1>3, <1>10


(* The state of the loop of parse_reserve. *)
State(a, p, cs) == [at |-> a, pos |-> p, coords |-> cs]
IsState(b)      == b = State(b.at, b.pos, b.coords)
Shifted(b, d)   == State(b.at, b.pos + d, b.coords)
Following(c)      == CASE c = Reader!Blank -> "next" [] c = "]" -> "closed" [] OTHER -> "bad"

LEMMA StateFields ==
  ASSUME NEW a, NEW p, NEW cs
  PROVE  /\ State(a, p, cs).at = a /\ State(a, p, cs).pos = p /\ State(a, p, cs).coords = cs
         /\ IsState(State(a, p, cs))
BY DEF State, IsState

(* One round, by what is found (parser.c:176-206). *)
LEMMA RoundCases ==
  ASSUME NEW s, NEW b, IsState(b)
  PROVE  LET x == Number(s, Reader!Behind(s, b.pos))
             y == Number(s, x.pos)
             r == Reader!Coordinate(s, b, <<>>)
         IN  /\ Reader!At(s, b.pos) # "(" => r = State("bad", Reader!Behind(s, b.pos), b.coords)
             /\ Reader!At(s, b.pos) = "(" /\ ~Reader!EndsWith(x, {","}) => r = State("bad", x.pos, b.coords)
             /\ Reader!At(s, b.pos) = "(" /\ Reader!EndsWith(x, {","}) /\ ~Reader!EndsWith(y, {")"}) =>
                  r = State("bad", y.pos, b.coords)
             /\ Reader!At(s, b.pos) = "(" /\ Reader!EndsWith(x, {","}) /\ Reader!EndsWith(y, {")"}) =>
                  r = State(Following(Reader!At(s, y.pos)), Reader!Behind(s, y.pos),
                            Append(b.coords, <<x.value, y.value>>))
<1> DEFINE x == Number(s, Reader!Behind(s, b.pos))
           y == Number(s, x.pos)
           r == Reader!Coordinate(s, b, <<>>)
           bad(p) == [b EXCEPT !.at = "bad", !.pos = p]
<1>1. /\ Reader!At(s, b.pos) # "(" => r = bad(Reader!Behind(s, b.pos))
      /\ Reader!At(s, b.pos) = "(" /\ ~Reader!EndsWith(x, {","}) => r = bad(x.pos)
      /\ Reader!At(s, b.pos) = "(" /\ Reader!EndsWith(x, {","}) /\ ~Reader!EndsWith(y, {")"}) =>
           r = bad(y.pos)
      /\ Reader!At(s, b.pos) = "(" /\ Reader!EndsWith(x, {","}) /\ Reader!EndsWith(y, {")"}) =>
           r = State(Following(Reader!At(s, y.pos)), Reader!Behind(s, y.pos),
                     Append(b.coords, <<x.value, y.value>>))
  BY Zenon DEF Reader!Coordinate, Number, State, Following
<1>2. ASSUME NEW p PROVE bad(p) = State("bad", p, b.coords)
  <2>1. PICK a, q, cs : b = [at |-> a, pos |-> q, coords |-> cs]
    BY DEF IsState, State
  <2>2. [b EXCEPT !.at = "bad"] = [at |-> "bad", pos |-> q, coords |-> cs]
    BY <2>1
  <2>3. bad(p) = [[b EXCEPT !.at = "bad"] EXCEPT !.pos = p]
    OBVIOUS
  <2>4. [[at |-> "bad", pos |-> q, coords |-> cs] EXCEPT !.pos = p]
        = [at |-> "bad", pos |-> p, coords |-> cs]
    OBVIOUS
  <2>5. bad(p) = [at |-> "bad", pos |-> p, coords |-> cs]
    BY <2>2, <2>3, <2>4, Zenon
  <2> QED
    BY <2>1, <2>5 DEF State
<1> HIDE DEF bad
<1> QED
  BY <1>1, <1>2

LEMMA RoundMoves ==
  ASSUME NEW u, NEW t, NEW d, NEW m, StandsIn(u, t, d, m), NEW b, IsState(b), OnPlace(u, b.pos)
  PROVE  LET r == Reader!Coordinate(u, b, <<>>)
         IN  /\ IsState(r) /\ OnPlace(u, r.pos) /\ r.pos >= b.pos
             /\ Within(u, m, r.pos) => Reader!Coordinate(t, Shifted(b, d), <<>>) = Shifted(r, d)
<1> DEFINE X(s) == Reader!EndsWith(s, {","})
           Y(s) == Reader!EndsWith(s, {")"})
<1>0. u \in Text /\ m \in Nat /\ t \in Text /\ d \in Nat
  BY DEF StandsIn
<1>1. PICK q, cs : q = b.pos /\ cs = b.coords
  OBVIOUS
<1>2. PICK c : c = Shifted(b, d) /\ IsState(c) /\ c.pos = q + d /\ c.coords = cs
  BY <1>1, StateFields DEF Shifted
<1>3. PICK ru, rt, pu, xu, yu, zu :
        /\ ru = Reader!Coordinate(u, b, <<>>) /\ rt = Reader!Coordinate(t, c, <<>>)
        /\ pu = Reader!Behind(u, q) /\ xu = Number(u, pu)
        /\ yu = Number(u, xu.pos) /\ zu = Reader!Behind(u, yu.pos)
  OBVIOUS
<1>4. PICK pt, xt, yt, zt :
        /\ pt = Reader!Behind(t, q + d) /\ xt = Number(t, pt)
        /\ yt = Number(t, xt.pos) /\ zt = Reader!Behind(t, yt.pos)
  OBVIOUS
<1>5. OnPlace(u, q)
  BY <1>1
<1>6. /\ OnPlace(u, pu) /\ pu >= q
      /\ Within(u, m, pu) => Reader!At(t, q + d) = Reader!At(u, q) /\ pt = pu + d
  BY <1>0, <1>3, <1>4, <1>5, BehindIsPlace, SameCharacter
<1>7. /\ OnPlace(u, xu.pos) /\ xu.pos >= pu
      /\ Within(u, m, xu.pos) => SameNumber(xu, xt, d) /\ Within(u, m, pu)
  <2>1. /\ OnPlace(u, xu.pos) /\ xu.pos >= pu
        /\ Within(u, m, xu.pos) => SameNumber(xu, Number(t, pu + d), d)
    BY <1>3, <1>6, NumberIsSame
  <2>2. Within(u, m, xu.pos) => Within(u, m, pu)
    BY <1>0, <1>6, <2>1, WithinDown
  <2> QED
    BY <1>4, <1>6, <2>1, <2>2
<1>8. /\ OnPlace(u, yu.pos) /\ yu.pos >= xu.pos
      /\ Within(u, m, yu.pos) => SameNumber(yu, yt, d) /\ Within(u, m, xu.pos)
  <2>1. /\ OnPlace(u, yu.pos) /\ yu.pos >= xu.pos
        /\ Within(u, m, yu.pos) => SameNumber(yu, Number(t, xu.pos + d), d)
    BY <1>3, <1>7, NumberIsSame
  <2>2. Within(u, m, yu.pos) => Within(u, m, xu.pos)
    BY <1>0, <1>7, <2>1, WithinDown
  <2>3. SameNumber(xu, xt, d) => xt.pos = xu.pos + d
    BY DEF SameNumber
  <2> QED
    BY <1>4, <1>7, <2>1, <2>2, <2>3
<1>9. /\ OnPlace(u, zu) /\ zu >= yu.pos
      /\ Within(u, m, zu) => /\ Reader!At(t, yt.pos) = Reader!At(u, yu.pos) /\ zt = zu + d
                             /\ Within(u, m, yu.pos)
  <2>1. /\ OnPlace(u, zu) /\ zu >= yu.pos
        /\ Within(u, m, zu) => /\ Reader!At(t, yu.pos + d) = Reader!At(u, yu.pos)
                               /\ Reader!Behind(t, yu.pos + d) = zu + d
    BY <1>0, <1>3, <1>8, BehindIsPlace, SameCharacter
  <2>2. Within(u, m, zu) => Within(u, m, yu.pos)
    BY <1>0, <1>8, <2>1, WithinDown
  <2>3. SameNumber(yu, yt, d) => yt.pos = yu.pos + d
    BY DEF SameNumber
  <2> QED
    BY <1>4, <1>8, <2>1, <2>2, <2>3
<1>10. q <= pu /\ q <= xu.pos /\ q <= yu.pos /\ q <= zu
  BY <1>0, <1>5, <1>6, <1>7, <1>8, <1>9 DEF OnPlace, Text
<1>11. /\ Reader!At(u, q) # "(" => ru = State("bad", pu, cs)
       /\ Reader!At(u, q) = "(" /\ ~X(xu) => ru = State("bad", xu.pos, cs)
       /\ Reader!At(u, q) = "(" /\ X(xu) /\ ~Y(yu) => ru = State("bad", yu.pos, cs)
       /\ Reader!At(u, q) = "(" /\ X(xu) /\ Y(yu) =>
            ru = State(Following(Reader!At(u, yu.pos)), zu, Append(cs, <<xu.value, yu.value>>))
  BY <1>1, <1>3, RoundCases
<1>12. /\ Reader!At(t, q + d) # "(" => rt = State("bad", pt, cs)
       /\ Reader!At(t, q + d) = "(" /\ ~X(xt) => rt = State("bad", xt.pos, cs)
       /\ Reader!At(t, q + d) = "(" /\ X(xt) /\ ~Y(yt) => rt = State("bad", yt.pos, cs)
       /\ Reader!At(t, q + d) = "(" /\ X(xt) /\ Y(yt) =>
            rt = State(Following(Reader!At(t, yt.pos)), zt, Append(cs, <<xt.value, yt.value>>))
  BY <1>2, <1>3, <1>4, RoundCases
<1>13. /\ SameNumber(xu, xt, d) => (X(xt) <=> X(xu)) /\ xt.pos = xu.pos + d /\ xt.value = xu.value
       /\ SameNumber(yu, yt, d) => (Y(yt) <=> Y(yu)) /\ yt.pos = yu.pos + d /\ yt.value = yu.value
  BY DEF SameNumber
<1>14. /\ IsState(ru) /\ OnPlace(u, ru.pos) /\ ru.pos >= q
       /\ Within(u, m, ru.pos) => rt = Shifted(ru, d)
  <2>1. CASE Reader!At(u, q) # "("
    <3>1. ru = State("bad", pu, cs)
      BY <1>11, <2>1
    <3>2. ASSUME Within(u, m, pu) PROVE rt = State("bad", pu + d, cs)
      <4>1. Reader!At(t, q + d) # "(" /\ pt = pu + d
        BY <1>6, <2>1, <3>2
      <4> QED
        BY <1>12, <4>1
    <3> QED
      BY <1>6, <1>10, <3>1, <3>2, StateFields DEF Shifted
  <2>2. CASE Reader!At(u, q) = "(" /\ ~X(xu)
    <3>1. ru = State("bad", xu.pos, cs) /\ (Within(u, m, xu.pos) => rt = State("bad", xu.pos + d, cs))
      BY <1>6, <1>7, <1>11, <1>12, <1>13, <2>2
    <3> QED
      BY <1>7, <1>10, <3>1, StateFields DEF Shifted
  <2>3. CASE Reader!At(u, q) = "(" /\ X(xu) /\ ~Y(yu)
    <3>1. ru = State("bad", yu.pos, cs) /\ (Within(u, m, yu.pos) => rt = State("bad", yu.pos + d, cs))
      BY <1>6, <1>7, <1>8, <1>11, <1>12, <1>13, <2>3
    <3> QED
      BY <1>8, <1>10, <3>1, StateFields DEF Shifted
  <2>4. CASE Reader!At(u, q) = "(" /\ X(xu) /\ Y(yu)
    <3> DEFINE a2 == Following(Reader!At(u, yu.pos))
               c2 == Append(cs, <<xu.value, yu.value>>)
    <3>1. ru = State(a2, zu, c2) /\ (Within(u, m, zu) => rt = State(a2, zu + d, c2))
      BY <1>6, <1>7, <1>8, <1>9, <1>11, <1>12, <1>13, <2>4
    <3> HIDE DEF a2, c2
    <3> QED
      BY <1>9, <1>10, <3>1, StateFields DEF Shifted
  <2> QED
    BY <2>1, <2>2, <2>3, <2>4
<1> QED
  BY <1>1, <1>2, <1>3, <1>14

-----------------------------------------------------------------------------
(* The rounds of the loop, from the place p on: the recursion of Coordinates. *)
Again(s, b) == IF b.at = "next" THEN Reader!Coordinate(s, b, <<>>) ELSE b
IsLoop(g, n, s, p) ==
  g = [k \in 0 .. n |-> IF k = 0 THEN State("next", p, <<>>) ELSE Again(s, g[k - 1])]
Loop(s, p) == CHOOSE g : IsLoop(g, MaxCoords, s, p)

LEMMA LoopExists ==
  ASSUME NEW s, NEW p, NEW n \in Nat
  PROVE  \E g : IsLoop(g, n, s, p)
<1> DEFINE S == {k \in Nat : ~\E g : IsLoop(g, k, s, p)}
<1> SUFFICES ASSUME S # {} PROVE FALSE
  OBVIOUS
<1>1. PICK m \in S : \A k \in S : m <= k
  <2>1. S \in SUBSET Nat
    OBVIOUS
  <2> HIDE DEF S
  <2> QED
    BY <2>1, LeastNat
<1>2. CASE m = 0
  <2>1. IsLoop([k \in 0 .. 0 |-> State("next", p, <<>>)], 0, s, p)
    BY DEF IsLoop
  <2> QED
    BY <1>1, <1>2, <2>1
<1>3. CASE m > 0
  <2>1. m - 1 \in Nat /\ m - 1 \notin S
    BY <1>1, <1>3
  <2>2. PICK g : IsLoop(g, m - 1, s, p)
    BY <2>1
  <2> DEFINE h == [k \in 0 .. m |-> IF k = 0 THEN State("next", p, <<>>) ELSE Again(s, g[k - 1])]
  <2>3. \A k \in 0 .. m - 1 : h[k] = g[k]
    BY <1>3, <2>2 DEF IsLoop
  <2>4. \A k \in 0 .. m : k # 0 => h[k - 1] = g[k - 1]
    <3>1. m \in Nat /\ \A k \in 0 .. m : k # 0 => k - 1 \in 0 .. m - 1
      OBVIOUS
    <3> HIDE DEF h
    <3> QED
      BY <2>3, <3>1
  <2>5. IsLoop(h, m, s, p)
    BY <2>4 DEF IsLoop
  <2> QED
    BY <1>1, <2>5
<1> QED
  BY <1>1, <1>2, <1>3

LEMMA LoopGoesOn ==
  ASSUME NEW s, NEW p
  PROVE  /\ MaxCoords \in Nat
         /\ Reader!Coordinates(s, p, <<>>) = Loop(s, p)[MaxCoords]
         /\ Loop(s, p)[0] = State("next", p, <<>>)
         /\ \A n \in 1 .. MaxCoords : Loop(s, p)[n] = Again(s, Loop(s, p)[n - 1])
<1>0. MaxCoords \in Nat
  BY ReaderAssumption
<1>1. Reader!Coordinates(s, p, <<>>) = Loop(s, p)[MaxCoords]
  BY DEF Reader!Coordinates, Loop, IsLoop, State, Again
<1>2. IsLoop(Loop(s, p), MaxCoords, s, p)
  BY <1>0, LoopExists DEF Loop
<1>3. \A k \in 0 .. MaxCoords :
        Loop(s, p)[k] = IF k = 0 THEN State("next", p, <<>>) ELSE Again(s, Loop(s, p)[k - 1])
  BY <1>2 DEF IsLoop
<1> QED
  BY <1>0, <1>1, <1>3

(* parser.c:174-206. *)
LEMMA LoopMoves ==
  ASSUME NEW u, NEW t, NEW d, NEW m, StandsIn(u, t, d, m), NEW q, OnPlace(u, q)
  PROVE  LET r == Reader!Coordinates(u, q, <<>>)
         IN  /\ IsState(r) /\ OnPlace(u, r.pos) /\ r.pos >= q
             /\ Within(u, m, r.pos) => Reader!Coordinates(t, q + d, <<>>) = Shifted(r, d)
<1> DEFINE a == Loop(u, q)
           b == Loop(t, q + d)
           Ok(n) == /\ IsState(a[n]) /\ OnPlace(u, a[n].pos) /\ a[n].pos >= q
                    /\ Within(u, m, a[n].pos) => b[n] = Shifted(a[n], d)
<1>0. MaxCoords \in Nat /\ u \in Text /\ m \in Nat /\ Len(u) \in Nat
  BY ReaderAssumption DEF StandsIn, Text
<1>1. /\ Reader!Coordinates(u, q, <<>>) = a[MaxCoords]
      /\ Reader!Coordinates(t, q + d, <<>>) = b[MaxCoords]
      /\ a[0] = State("next", q, <<>>) /\ b[0] = State("next", q + d, <<>>)
      /\ \A n \in 1 .. MaxCoords : a[n] = Again(u, a[n - 1]) /\ b[n] = Again(t, b[n - 1])
  BY LoopGoesOn
<1> HIDE DEF a, b
<1>2. Ok(0)
  <2>1. Shifted(a[0], d) = b[0] /\ a[0].pos = q /\ IsState(a[0])
    BY <1>1, StateFields DEF Shifted
  <2> QED
    BY <2>1 DEF OnPlace
<1>3. ASSUME NEW n \in 1 .. MaxCoords, Ok(n - 1) PROVE Ok(n)
  <2>1. PICK x, y : x = a[n - 1] /\ y = b[n - 1]
    OBVIOUS
  <2>2. /\ IsState(x) /\ OnPlace(u, x.pos) /\ x.pos >= q
        /\ Within(u, m, x.pos) => y = Shifted(x, d)
    BY <1>3, <2>1
  <2>3. a[n] = Again(u, x) /\ b[n] = Again(t, y)
    BY <1>1, <2>1
  <2>4. CASE x.at = "next"
    <3>1. PICK z : z = Reader!Coordinate(u, x, <<>>)
      OBVIOUS
    <3>2. /\ IsState(z) /\ OnPlace(u, z.pos) /\ z.pos >= x.pos
          /\ Within(u, m, z.pos) => Reader!Coordinate(t, Shifted(x, d), <<>>) = Shifted(z, d)
      BY <2>2, <3>1, RoundMoves
    <3>3. z.pos >= q
      BY <1>0, <2>2, <3>2 DEF OnPlace
    <3>4. Within(u, m, z.pos) => Within(u, m, x.pos)
      BY <1>0, <2>2, <3>2, WithinDown
    <3>5. a[n] = z
      BY <2>3, <2>4, <3>1 DEF Again
    <3>6. Within(u, m, z.pos) => b[n] = Shifted(z, d)
      <4> SUFFICES ASSUME Within(u, m, z.pos) PROVE b[n] = Shifted(z, d)
        OBVIOUS
      <4>1. y = Shifted(x, d) /\ y.at = "next"
        BY <2>2, <2>4, <3>4, StateFields DEF Shifted
      <4> QED
        BY <2>3, <3>2, <4>1 DEF Again
    <3> QED
      BY <3>2, <3>3, <3>5, <3>6
  <2>5. CASE x.at # "next"
    <3>1. a[n] = x
      BY <2>3, <2>5 DEF Again
    <3>2. Within(u, m, x.pos) => b[n] = Shifted(x, d)
      <4> SUFFICES ASSUME Within(u, m, x.pos) PROVE b[n] = Shifted(x, d)
        OBVIOUS
      <4>1. y = Shifted(x, d) /\ y.at # "next"
        BY <2>2, <2>5, StateFields DEF Shifted
      <4> QED
        BY <2>3, <4>1 DEF Again
    <3> QED
      BY <2>2, <3>1, <3>2
  <2> QED
    BY <2>4, <2>5
<1> HIDE DEF Ok
<1>4. Ok(MaxCoords)
  <2> DEFINE S == {n \in 0 .. MaxCoords : ~Ok(n)}
  <2> SUFFICES ASSUME S # {} PROVE FALSE
    BY <1>0
  <2>1. PICK k \in S : \A n \in S : k <= n
    <3>1. S \in SUBSET Nat
      BY <1>0
    <3> HIDE DEF S
    <3> QED
      BY <3>1, LeastNat
  <2>2. k # 0
    BY <1>2, <2>1
  <2>3. k - 1 \in 0 .. MaxCoords /\ k \in 1 .. MaxCoords
    BY <1>0, <2>1, <2>2
  <2>4. Ok(k - 1)
    BY <2>1, <2>3
  <2> QED
    BY <1>3, <2>1, <2>3, <2>4
<1> QED
  BY <1>1, <1>4 DEF Ok


(* parser.c:162-219. *)
LEMMA ReserveMoves ==
  ASSUME NEW u, NEW t, NEW d, NEW m, StandsIn(u, t, d, m), NEW q, OnPlace(u, q)
  PROVE  Moves(Reader!parse_reserve(u, q, <<>>), Reader!parse_reserve(t, q + d, <<>>), u, d, m, q)
<1> DEFINE Gap(s) == Reader!EndsWith(s, {Reader!Blank})
           Bad(b) == b.at # "closed" \/ Len(b.coords) = MaxCoords
           seats(i0, b) == Reader!Result([op |-> "reserve", id |-> i0.value, seats |-> b.coords], b.pos + 1)
<1>0. u \in Text /\ m \in Nat /\ t \in Text /\ d \in Nat
  BY DEF StandsIn
<1>1. ASSUME NEW s, NEW p
      PROVE  LET id  == Number(s, p)
                 end == Reader!Coordinates(s, Reader!Behind(s, id.pos), <<>>)
                 r   == Reader!parse_reserve(s, p, <<>>)
             IN  /\ ~Gap(id) => r = Reader!Invalid(s, id.pos)
                 /\ Gap(id) /\ Reader!At(s, id.pos) # "[" => r = Reader!Invalid(s, Reader!Behind(s, id.pos))
                 /\ Gap(id) /\ Reader!At(s, id.pos) = "[" /\ Bad(end) => r = Reader!Invalid(s, end.pos)
                 /\ Gap(id) /\ Reader!At(s, id.pos) = "[" /\ ~Bad(end) /\ Reader!At(s, end.pos) # Reader!NL
                      => r = Reader!Invalid(s, Reader!Behind(s, end.pos))
                 /\ Gap(id) /\ Reader!At(s, id.pos) = "[" /\ ~Bad(end) /\ Reader!At(s, end.pos) = Reader!NL
                      => r = seats(id, end)
  BY Zenon DEF Reader!parse_reserve, Reader!Closed, Number
<1>2. PICK au, at, pu, pt, eu, et, zu, zt :
        /\ au = Number(u, q) /\ at = Number(t, q + d)
        /\ pu = Reader!Behind(u, au.pos) /\ pt = Reader!Behind(t, at.pos)
        /\ eu = Reader!Coordinates(u, pu, <<>>) /\ et = Reader!Coordinates(t, pt, <<>>)
        /\ zu = Reader!Behind(u, eu.pos) /\ zt = Reader!Behind(t, et.pos)
  OBVIOUS
<1>3. PICK ru, rt : ru = Reader!parse_reserve(u, q, <<>>) /\ rt = Reader!parse_reserve(t, q + d, <<>>)
  OBVIOUS
<1>4. /\ OnPlace(u, au.pos) /\ au.pos >= q
      /\ Within(u, m, au.pos) => (Gap(at) <=> Gap(au)) /\ at.value = au.value /\ at.pos = au.pos + d
  BY <1>2, NumberIsSame DEF SameNumber
<1>5. /\ OnPlace(u, pu) /\ pu >= au.pos
      /\ Within(u, m, pu) => /\ Reader!At(t, at.pos) = Reader!At(u, au.pos) /\ pt = pu + d
                             /\ Within(u, m, au.pos)
  <2>1. /\ OnPlace(u, pu) /\ pu >= au.pos
        /\ Within(u, m, pu) => /\ Reader!At(t, au.pos + d) = Reader!At(u, au.pos)
                               /\ Reader!Behind(t, au.pos + d) = pu + d
    BY <1>0, <1>2, <1>4, BehindIsPlace, SameCharacter
  <2>2. Within(u, m, pu) => Within(u, m, au.pos)
    BY <1>0, <1>4, <2>1, WithinDown
  <2> QED
    BY <1>2, <1>4, <2>1, <2>2
<1>6. /\ IsState(eu) /\ OnPlace(u, eu.pos) /\ eu.pos >= pu
      /\ Within(u, m, eu.pos) => et = Shifted(eu, d) /\ Within(u, m, pu)
  <2>1. /\ IsState(eu) /\ OnPlace(u, eu.pos) /\ eu.pos >= pu
        /\ Within(u, m, eu.pos) => Reader!Coordinates(t, pu + d, <<>>) = Shifted(eu, d)
    BY <1>2, <1>5, LoopMoves
  <2>2. Within(u, m, eu.pos) => Within(u, m, pu)
    BY <1>0, <1>5, <2>1, WithinDown
  <2> QED
    BY <1>2, <1>5, <2>1, <2>2
<1>7. et = Shifted(eu, d) => et.pos = eu.pos + d /\ et.coords = eu.coords /\ et.at = eu.at
  BY StateFields DEF Shifted
<1>8. /\ OnPlace(u, zu) /\ zu >= eu.pos
      /\ Within(u, m, zu) => /\ Reader!At(t, et.pos) = Reader!At(u, eu.pos) /\ zt = zu + d
                             /\ Within(u, m, eu.pos)
  <2>1. /\ OnPlace(u, zu) /\ zu >= eu.pos
        /\ Within(u, m, zu) => /\ Reader!At(t, eu.pos + d) = Reader!At(u, eu.pos)
                               /\ Reader!Behind(t, eu.pos + d) = zu + d
    BY <1>0, <1>2, <1>6, BehindIsPlace, SameCharacter
  <2>2. Within(u, m, zu) => Within(u, m, eu.pos)
    BY <1>0, <1>6, <2>1, WithinDown
  <2> QED
    BY <1>2, <1>6, <1>7, <2>1, <2>2
<1>9. q <= pu /\ q <= eu.pos /\ q <= zu
  BY <1>0, <1>4, <1>5, <1>6, <1>8 DEF OnPlace, Text
<1>10. /\ ~Gap(au) => ru = Reader!Invalid(u, au.pos)
       /\ Gap(au) /\ Reader!At(u, au.pos) # "[" => ru = Reader!Invalid(u, pu)
       /\ Gap(au) /\ Reader!At(u, au.pos) = "[" /\ Bad(eu) => ru = Reader!Invalid(u, eu.pos)
       /\ Gap(au) /\ Reader!At(u, au.pos) = "[" /\ ~Bad(eu) /\ Reader!At(u, eu.pos) # Reader!NL
            => ru = Reader!Invalid(u, zu)
       /\ Gap(au) /\ Reader!At(u, au.pos) = "[" /\ ~Bad(eu) /\ Reader!At(u, eu.pos) = Reader!NL
            => ru = seats(au, eu)
  BY <1>1, <1>2, <1>3
<1>11. /\ ~Gap(at) => rt = Reader!Invalid(t, at.pos)
       /\ Gap(at) /\ Reader!At(t, at.pos) # "[" => rt = Reader!Invalid(t, pt)
       /\ Gap(at) /\ Reader!At(t, at.pos) = "[" /\ Bad(et) => rt = Reader!Invalid(t, et.pos)
       /\ Gap(at) /\ Reader!At(t, at.pos) = "[" /\ ~Bad(et) /\ Reader!At(t, et.pos) # Reader!NL
            => rt = Reader!Invalid(t, zt)
       /\ Gap(at) /\ Reader!At(t, at.pos) = "[" /\ ~Bad(et) /\ Reader!At(t, et.pos) = Reader!NL
            => rt = seats(at, et)
  BY <1>1, <1>2, <1>3
<1>12. Moves(ru, rt, u, d, m, q)
  <2>1. CASE ~Gap(au)
    <3>1. Within(u, m, au.pos) => rt = Reader!Invalid(t, au.pos + d)
      BY <1>4, <1>11, <2>1
    <3> QED
      BY <1>4, <1>10, <2>1, <3>1, RefusalMoves
  <2>2. CASE Gap(au) /\ Reader!At(u, au.pos) # "["
    <3>1. ASSUME Within(u, m, pu) PROVE rt = Reader!Invalid(t, pu + d)
      <4>1. Gap(at) /\ Reader!At(t, at.pos) # "[" /\ pt = pu + d
        BY <1>4, <1>5, <2>2, <3>1
      <4> QED
        BY <1>11, <4>1
    <3> QED
      BY <1>5, <1>9, <1>10, <2>2, <3>1, RefusalMoves
  <2>3. CASE Gap(au) /\ Reader!At(u, au.pos) = "[" /\ Bad(eu)
    <3>1. ASSUME Within(u, m, eu.pos) PROVE rt = Reader!Invalid(t, eu.pos + d)
      <4>1. Gap(at) /\ Reader!At(t, at.pos) = "[" /\ Bad(et) /\ et.pos = eu.pos + d
        BY <1>4, <1>5, <1>6, <1>7, <2>3, <3>1
      <4> QED
        BY <1>11, <4>1
    <3> QED
      BY <1>6, <1>9, <1>10, <2>3, <3>1, RefusalMoves
  <2>4. CASE Gap(au) /\ Reader!At(u, au.pos) = "[" /\ ~Bad(eu) /\ Reader!At(u, eu.pos) # Reader!NL
    <3>1. ASSUME Within(u, m, zu) PROVE rt = Reader!Invalid(t, zu + d)
      <4>1. Gap(at) /\ Reader!At(t, at.pos) = "[" /\ ~Bad(et)
        BY <1>4, <1>5, <1>6, <1>7, <1>8, <2>4, <3>1
      <4>2. Reader!At(t, et.pos) # Reader!NL /\ zt = zu + d
        BY <1>8, <2>4, <3>1
      <4> QED
        BY <1>11, <4>1, <4>2
    <3> QED
      BY <1>8, <1>9, <1>10, <2>4, <3>1, RefusalMoves
  <2>5. CASE Gap(au) /\ Reader!At(u, au.pos) = "[" /\ ~Bad(eu) /\ Reader!At(u, eu.pos) = Reader!NL
    <3>1. zu = eu.pos + 1
      <4>1. eu.pos <= Len(u)
        BY <2>5 DEF Reader!At, Reader!NL, Reader!Eof
      <4> QED
        BY <1>2, <4>1 DEF Reader!Behind
    <3>2. PICK c : c = [op |-> "reserve", id |-> au.value, seats |-> eu.coords]
      OBVIOUS
    <3>3. ASSUME Within(u, m, zu) PROVE rt = Reader!Result(c, zu + d)
      <4>1. Gap(at) /\ Reader!At(t, at.pos) = "[" /\ ~Bad(et) /\ at.value = au.value
        BY <1>4, <1>5, <1>6, <1>7, <1>8, <2>5, <3>3
      <4>2. Reader!At(t, et.pos) = Reader!NL /\ et.coords = eu.coords /\ et.pos = eu.pos + d
        BY <1>6, <1>7, <1>8, <2>5, <3>3
      <4>3. rt = Reader!Result(c, et.pos + 1)
        BY <1>11, <3>2, <4>1, <4>2
      <4>4. et.pos + 1 = zu + d
        BY <1>0, <1>6, <3>1, <4>2 DEF OnPlace, Text
      <4> QED
        BY <4>3, <4>4
    <3>4. ru = Reader!Result(c, zu)
      BY <1>10, <2>5, <3>1, <3>2
    <3> QED
      BY <1>8, <1>9, <3>3, <3>4, ResultMoves
  <2> QED
    BY <2>1, <2>2, <2>3, <2>4, <2>5
<1> QED
  BY <1>3, <1>12

-----------------------------------------------------------------------------
(* The last character of a whole keyword's worth of them (parser.c:53-122). *)
LastOf(s, p, l) == Reader!Min({p + l, Len(s)})

LEMMA LastIs ==
  ASSUME NEW s \in Text, NEW p \in Nat, p <= Len(s), NEW l \in Nat
  PROVE  LastOf(s, p, l) = IF p + l <= Len(s) THEN p + l ELSE Len(s)
<1>1. Len(s) \in Nat
  BY DEF Text
<1>2. {p + l, Len(s)} \in SUBSET Nat
  BY <1>1
<1>3. CASE p + l <= Len(s)
  <2>1. Reader!Min({p + l, Len(s)}) = p + l
    BY <1>1, <1>2, <1>3, MinIs
  <2> QED
    BY <1>3, <2>1 DEF LastOf
<1>4. CASE ~(p + l <= Len(s))
  <2>1. Reader!Min({p + l, Len(s)}) = Len(s)
    BY <1>1, <1>2, <1>4, MinIs
  <2> QED
    BY <1>4, <2>1 DEF LastOf
<1> QED
  BY <1>3, <1>4

LEMMA KeywordCases ==
  ASSUME NEW s, NEW p
  PROVE  LET word == Keywords[s[p]]
             rest == SubSeq(s, p + 1, LastOf(s, p, Len(word.rest)))
             end  == p + 1 + Len(rest)
             r    == Reader!Keyword(s, p)
         IN  /\ rest # word.rest => r = Reader!Invalid(s, end)
             /\ rest = word.rest /\ ~word.alone => r = Reader!Result([op |-> word.op], end)
             /\ rest = word.rest /\ word.alone /\ Reader!At(s, end) \in Reader!LineEnd
                  => r = Reader!Result([op |-> word.op], Reader!Behind(s, end))
             /\ rest = word.rest /\ word.alone /\ Reader!At(s, end) \notin Reader!LineEnd
                  => r = Reader!Invalid(s, Reader!Behind(s, end))
BY Zenon DEF Reader!Keyword, LastOf

LEMMA KeywordMoves ==
  ASSUME NEW u, NEW t, NEW d, NEW m, StandsIn(u, t, d, m), NEW q, OnPlace(u, q), q <= Len(u),
         u[q] \in DOMAIN Keywords, q <= m
  PROVE  Moves(Reader!Keyword(u, q), Reader!Keyword(t, q + d), u, d, m, q + 1)
<1>0. /\ Len(u) \in Nat /\ Len(t) \in Nat /\ d \in Nat /\ m \in Nat /\ q \in Nat
      /\ m <= Len(u) /\ m + d <= Len(t) /\ q >= 1 /\ q <= Len(u) + 1
      /\ Len(u) = m => Len(t) = m + d
      /\ Len(u) # m => Len(u) = m + 1
      /\ t[q + d] = u[q] /\ u \in Text /\ t \in Text
  <2>1. /\ Len(u) \in Nat /\ Len(t) \in Nat /\ d \in Nat /\ m \in Nat /\ q \in Nat
        /\ m <= Len(u) /\ m + d <= Len(t) /\ q >= 1 /\ q <= Len(u) + 1
        /\ Len(u) = m => Len(t) = m + d
        /\ Len(u) # m => Len(u) = m + 1
        /\ \A k \in 1 .. m : t[k + d] = u[k]
    BY FramePlaces
  <2>2. u \in Text /\ t \in Text
    BY DEF StandsIn
  <2> QED
    BY <2>1, <2>2
<1>1. PICK word : word = Keywords[u[q]]
  OBVIOUS
<1>15. PICK l \in Nat : l = Len(word.rest)
  <2>1. Keywords[u[q]].rest \in Seq(STRING)
    BY ReaderAssumption
  <2>2. Len(Keywords[u[q]].rest) \in Nat
    BY <2>1
  <2> QED
    BY <1>1, <2>2
<1>2. PICK nu \in Nat, nt \in Nat :
        /\ nu = LastOf(u, q, l) /\ nt = LastOf(t, q + d, l)
        /\ nu >= q /\ nu <= Len(u) /\ (nu <= m => nt = nu + d)
  <2>1. LastOf(u, q, l) = IF q + l <= Len(u) THEN q + l ELSE Len(u)
    BY <1>0, LastIs
  <2>2. LastOf(t, q + d, l) = IF (q + d) + l <= Len(t) THEN (q + d) + l ELSE Len(t)
    <3>1. q + d \in Nat /\ q + d <= Len(t) /\ t \in Text
      BY <1>0
    <3> QED
      BY <3>1, LastIs
  <2> QED
    BY <1>0, <2>1, <2>2
<1>3. PICK wu, wt, eu, et, zu, zt, ru, rt :
        /\ wu = SubSeq(u, q + 1, nu) /\ wt = SubSeq(t, q + d + 1, nt)
        /\ eu = q + 1 + Len(wu) /\ et = q + d + 1 + Len(wt)
        /\ zu = Reader!Behind(u, eu) /\ zt = Reader!Behind(t, et)
        /\ ru = Reader!Keyword(u, q) /\ rt = Reader!Keyword(t, q + d)
  OBVIOUS
<1>4. OnPlace(u, q + 1)
  BY <1>0 DEF OnPlace
<1>5. eu = nu + 1
  <2>1. \A k \in q + 1 .. nu : u[k] \in STRING \ {Reader!Eof}
    <3>1. \A k \in 1 .. Len(u) : u[k] \in STRING \ {Reader!Eof}
      BY FramePlaces
    <3> QED
      BY <1>0, <1>2, <3>1
  <2>2. Len(SubSeq(u, q + 1, nu)) = IF q + 1 <= nu THEN nu - (q + 1) + 1 ELSE 0
    BY <1>0, <2>1, SubSeqProperties
  <2>3. Len(wu) = nu - q
    <3>1. IF q + 1 <= nu THEN nu - (q + 1) + 1 = nu - q ELSE nu - q = 0
      BY <1>0, <1>2
    <3> QED
      BY <1>3, <2>2, <3>1
  <2> QED
    BY <1>0, <1>2, <1>3, <2>3
<1>6. OnPlace(u, eu) /\ eu >= q + 1
  <2>1. eu \in Nat /\ eu >= q + 1 /\ eu <= Len(u) + 1 /\ eu >= 1
    BY <1>0, <1>2, <1>5
  <2> QED
    BY <1>0, <2>1 DEF OnPlace
<1>7. Within(u, m, eu) => wt = wu /\ et = eu + d
  <2> SUFFICES ASSUME Within(u, m, eu) PROVE wt = wu /\ et = eu + d
    OBVIOUS
  <2>1. nu <= m /\ nt = nu + d
    BY <1>0, <1>2, <1>5 DEF Within
  <2>2. Piece(t, (q + 1) + d, nu + d) = Piece(u, q + 1, nu)
    <3>1. nu \in Int /\ nu <= m
      BY <2>1
    <3> QED
      BY <1>4, <3>1, SameText
  <2>3. (q + 1) + d = q + d + 1
    BY <1>0
  <2>4. wt = wu
    BY <1>3, <2>1, <2>2, <2>3 DEF Piece
  <2>5. et = q + d + 1 + Len(wu) /\ eu = q + 1 + Len(wu) /\ Len(wu) = nu - q
    BY <1>0, <1>3, <1>5, <2>4
  <2> QED
    BY <1>0, <2>4, <2>5
<1>8. /\ OnPlace(u, zu) /\ zu >= eu
      /\ Within(u, m, zu) => Reader!At(t, et) = Reader!At(u, eu) /\ zt = zu + d /\ wt = wu
  <2>1. /\ OnPlace(u, zu) /\ zu >= eu
        /\ Within(u, m, zu) => /\ Reader!At(t, eu + d) = Reader!At(u, eu)
                               /\ Reader!Behind(t, eu + d) = zu + d
    BY <1>0, <1>3, <1>6, BehindIsPlace, SameCharacter
  <2>2. Within(u, m, zu) => Within(u, m, eu)
    BY <1>0, <1>6, <2>1, WithinDown
  <2> QED
    BY <1>3, <1>7, <2>1, <2>2
<1>9. zu >= q + 1
  BY <1>0, <1>6, <1>8 DEF OnPlace
<1>10. /\ wu # word.rest => ru = Reader!Invalid(u, eu)
       /\ wu = word.rest /\ ~word.alone => ru = Reader!Result([op |-> word.op], eu)
       /\ wu = word.rest /\ word.alone /\ Reader!At(u, eu) \in Reader!LineEnd
            => ru = Reader!Result([op |-> word.op], zu)
       /\ wu = word.rest /\ word.alone /\ Reader!At(u, eu) \notin Reader!LineEnd
            => ru = Reader!Invalid(u, zu)
  BY <1>1, <1>15, <1>2, <1>3, KeywordCases, Zenon
<1>11. /\ wt # word.rest => rt = Reader!Invalid(t, et)
       /\ wt = word.rest /\ ~word.alone => rt = Reader!Result([op |-> word.op], et)
       /\ wt = word.rest /\ word.alone /\ Reader!At(t, et) \in Reader!LineEnd
            => rt = Reader!Result([op |-> word.op], zt)
       /\ wt = word.rest /\ word.alone /\ Reader!At(t, et) \notin Reader!LineEnd
            => rt = Reader!Invalid(t, zt)
  <2> DEFINE w == Keywords[t[q + d]]
  <2>1. w = word
    BY <1>0, <1>1
  <2>2. wt = SubSeq(t, q + d + 1, LastOf(t, q + d, Len(w.rest)))
    BY <1>15, <1>2, <1>3, <2>1
  <2>3. /\ wt # w.rest => rt = Reader!Invalid(t, et)
        /\ wt = w.rest /\ ~w.alone => rt = Reader!Result([op |-> w.op], et)
        /\ wt = w.rest /\ w.alone /\ Reader!At(t, et) \in Reader!LineEnd
             => rt = Reader!Result([op |-> w.op], zt)
        /\ wt = w.rest /\ w.alone /\ Reader!At(t, et) \notin Reader!LineEnd
             => rt = Reader!Invalid(t, zt)
    BY <1>3, <2>2, KeywordCases, Zenon
  <2> QED
    BY <2>1, <2>3
<1>12. OnPlace(u, q + 1)
  BY <1>0 DEF OnPlace
<1>13. Moves(ru, rt, u, d, m, q + 1)
  <2>1. CASE wu # word.rest
    <3>1. Within(u, m, eu) => rt = Reader!Invalid(t, eu + d)
      BY <1>7, <1>11, <2>1
    <3> QED
      BY <1>6, <1>10, <1>12, <2>1, <3>1, RefusalMoves
  <2>2. CASE wu = word.rest /\ ~word.alone
    <3>1. Within(u, m, eu) => rt = Reader!Result([op |-> word.op], eu + d)
      BY <1>7, <1>11, <2>2
    <3> QED
      BY <1>6, <1>10, <2>2, <3>1, ResultMoves
  <2>3. CASE wu = word.rest /\ word.alone /\ Reader!At(u, eu) \in Reader!LineEnd
    <3>1. Within(u, m, zu) => rt = Reader!Result([op |-> word.op], zu + d)
      BY <1>8, <1>11, <2>3
    <3> QED
      BY <1>8, <1>9, <1>10, <2>3, <3>1, ResultMoves
  <2>4. CASE wu = word.rest /\ word.alone /\ Reader!At(u, eu) \notin Reader!LineEnd
    <3>1. Within(u, m, zu) => rt = Reader!Invalid(t, zu + d)
      BY <1>8, <1>11, <2>4
    <3> QED
      BY <1>8, <1>9, <1>10, <1>12, <2>4, <3>1, RefusalMoves
  <2> QED
    BY <2>1, <2>2, <2>3, <2>4
<1> QED
  BY <1>3, <1>13

(* parser.c:46-135: behind a character that is there. *)
LEMMA FirstCases ==
  ASSUME NEW s, NEW p, Reader!At(s, p) # Reader!Eof
  PROVE  /\ Reader!At(s, p) \in DOMAIN Keywords => Reader!get_next(s, p) = Reader!Keyword(s, p)
         /\ Reader!At(s, p) \notin DOMAIN Keywords /\ Reader!At(s, p) = "#" =>
              Reader!get_next(s, p) = Reader!Result([op |-> "empty"], Reader!cleanup(s, p + 1))
         /\ Reader!At(s, p) \notin DOMAIN Keywords /\ Reader!At(s, p) = Reader!NL =>
              Reader!get_next(s, p) = Reader!Result([op |-> "empty"], p + 1)
         /\ Reader!At(s, p) \notin DOMAIN Keywords /\ Reader!At(s, p) # "#" /\ Reader!At(s, p) # Reader!NL
              => Reader!get_next(s, p) = Reader!Invalid(s, p + 1)
<1>1. Reader!NL # "#" /\ "#" \notin DOMAIN Keywords /\ Reader!NL \notin DOMAIN Keywords
  BY ReaderAssumption DEF Reader!NL
<1>2. CASE Reader!At(s, p) \in DOMAIN Keywords
  <2>1. Reader!get_next(s, p) = Reader!Keyword(s, p)
    BY <1>1, <1>2 DEF Reader!get_next
  <2> QED
    BY <1>2, <2>1
<1>3. CASE Reader!At(s, p) \notin DOMAIN Keywords /\ Reader!At(s, p) = "#"
  BY <1>1, <1>3 DEF Reader!get_next
<1>4. CASE Reader!At(s, p) \notin DOMAIN Keywords /\ Reader!At(s, p) = Reader!NL
  BY <1>1, <1>4 DEF Reader!get_next
<1>5. CASE Reader!At(s, p) \notin DOMAIN Keywords /\ Reader!At(s, p) # "#" /\ Reader!At(s, p) # Reader!NL
  BY <1>1, <1>5 DEF Reader!get_next
<1> QED
  BY <1>2, <1>3, <1>4, <1>5

LEMMA FirstMoves ==
  ASSUME NEW u, NEW t, NEW d, NEW m, StandsIn(u, t, d, m), NEW q, OnPlace(u, q), q <= Len(u)
  PROVE  Moves(Reader!get_next(u, q), Reader!get_next(t, q + d), u, d, m, q + 1)
<1>0. /\ Len(u) \in Nat /\ Len(t) \in Nat /\ d \in Nat /\ m \in Nat /\ q \in Nat
      /\ m <= Len(u) /\ m + d <= Len(t) /\ q >= 1
      /\ Len(u) = m => Len(t) = m + d
      /\ Len(u) # m => Len(u) = m + 1
      /\ u \in Text /\ t \in Text /\ u[q] # Reader!Eof
      /\ \A k \in 1 .. m : t[k + d] = u[k]
  <2>1. /\ Len(u) \in Nat /\ Len(t) \in Nat /\ d \in Nat /\ m \in Nat /\ q \in Nat
        /\ m <= Len(u) /\ m + d <= Len(t) /\ q >= 1 /\ q <= Len(u) + 1
        /\ Len(u) = m => Len(t) = m + d
        /\ Len(u) # m => Len(u) = m + 1
        /\ \A k \in 1 .. m : t[k + d] = u[k]
        /\ \A k \in 1 .. Len(u) : u[k] \in STRING \ {Reader!Eof}
    BY FramePlaces
  <2>2. u \in Text /\ t \in Text
    BY DEF StandsIn
  <2> QED
    BY <2>1, <2>2
<1>2. PICK c, ru, rt : c = u[q] /\ ru = Reader!get_next(u, q) /\ rt = Reader!get_next(t, q + d)
  OBVIOUS
<1>3. Reader!At(u, q) = c /\ c # Reader!Eof /\ OnPlace(u, q + 1)
  BY <1>0, <1>2 DEF Reader!At, OnPlace
<1>4. Within(u, m, q + 1) => q <= m /\ Reader!At(t, q + d) = c
  BY <1>0, <1>2 DEF Within, Reader!At
<1>5. (q + 1) + d = q + d + 1
  BY <1>0
<1>6. CASE c \in DOMAIN Keywords
  <2>1. ru = Reader!Keyword(u, q)
    BY FirstCases, <1>2, <1>3, <1>6
  <2>2. ASSUME q <= m PROVE Moves(ru, rt, u, d, m, q + 1)
    <3>1. rt = Reader!Keyword(t, q + d)
      <4>1. Reader!At(t, q + d) = c
        BY <1>0, <1>2, <2>2 DEF Reader!At
      <4> QED
        BY FirstCases, <1>2, <1>3, <1>6, <4>1
    <3> QED
      BY <1>2, <1>6, <2>1, <2>2, <3>1, KeywordMoves
  <2>3. ASSUME ~(q <= m) PROVE Moves(ru, rt, u, d, m, q + 1)
    <3>1. OnPlace(u, ru.pos) /\ ru.pos >= q + 1
      <4>1. StandsIn(u, u, 0, Len(u)) /\ q <= Len(u)
        BY <1>0 DEF StandsIn
      <4>2. Moves(Reader!Keyword(u, q), Reader!Keyword(u, q + 0), u, 0, Len(u), q + 1)
        BY <1>2, <1>6, <4>1, KeywordMoves
      <4> QED
        BY <2>1, <4>2 DEF Moves
    <3>2. ~Within(u, m, ru.pos)
      BY <1>0, <2>3, <3>1 DEF Within, OnPlace
    <3> QED
      BY <3>1, <3>2 DEF Moves
  <2> QED
    BY <1>2, <2>2, <2>3
<1>7. CASE c \notin DOMAIN Keywords /\ c = "#"
  <2>1. ru = Reader!Result([op |-> "empty"], Reader!cleanup(u, q + 1))
    BY FirstCases, <1>2, <1>3, <1>7
  <2>2. PICK z : z = Reader!cleanup(u, q + 1)
    OBVIOUS
  <2>3. /\ OnPlace(u, z) /\ z >= q + 1
        /\ Within(u, m, z) => Reader!cleanup(t, (q + 1) + d) = z + d
    BY <1>3, <2>2, CleanupMoves
  <2>4. ASSUME Within(u, m, z) PROVE rt = Reader!Result([op |-> "empty"], z + d)
    <3>1. Within(u, m, q + 1)
      BY <1>0, <1>3, <2>3, <2>4, WithinDown
    <3>2. rt = Reader!Result([op |-> "empty"], Reader!cleanup(t, q + d + 1))
      BY FirstCases, <1>2, <1>3, <1>4, <1>7, <3>1
    <3> QED
      BY <1>5, <2>3, <2>4, <3>2
  <2>5. Moves(ru, rt, u, d, m, q + 1)
    BY <2>1, <2>2, <2>3, <2>4, ResultMoves
  <2> QED
    BY <1>2, <2>5
<1>8. CASE c \notin DOMAIN Keywords /\ c = Reader!NL
  <2>1. ru = Reader!Result([op |-> "empty"], q + 1)
    BY FirstCases, <1>2, <1>3, <1>8
  <2>2. Within(u, m, q + 1) => rt = Reader!Result([op |-> "empty"], (q + 1) + d)
    BY FirstCases, <1>2, <1>3, <1>4, <1>5, <1>8
  <2>3. q + 1 >= q + 1
    BY <1>0
  <2>4. Moves(ru, rt, u, d, m, q + 1)
    BY <1>3, <2>1, <2>2, <2>3, ResultMoves
  <2> QED
    BY <1>2, <2>4
<1>9. CASE c \notin DOMAIN Keywords /\ c # "#" /\ c # Reader!NL
  <2>1. ru = Reader!Invalid(u, q + 1)
    BY FirstCases, <1>2, <1>3, <1>9
  <2>2. Within(u, m, q + 1) => rt = Reader!Invalid(t, (q + 1) + d)
    BY FirstCases, <1>2, <1>3, <1>4, <1>5, <1>9
  <2>3. q + 1 >= q + 1
    BY <1>0
  <2>4. Moves(ru, rt, u, d, m, q + 1)
    BY <1>3, <2>1, <2>2, <2>3, RefusalMoves
  <2> QED
    BY <1>2, <2>4
<1> QED
  BY <1>6, <1>7, <1>8, <1>9

(* get_next and the parse function its result calls for. *)
LEMMA CommandCases ==
  ASSUME NEW s, NEW p
  PROVE  LET n == Reader!get_next(s, p)
             r == Reader!ReadCommand(s, p, <<>>)
         IN  /\ n.command.op = "create" => r = Reader!parse_create(s, n.pos, <<>>)
             /\ n.command.op = "reserve" => r = Reader!parse_reserve(s, n.pos, <<>>)
             /\ n.command.op = "show" => r = Reader!parse_show(s, n.pos, <<>>)
             /\ n.command.op = "wait" => r = Reader!parse_wait(s, n.pos, <<>>)
             /\ n.command.op \notin {"create", "reserve", "show", "wait"} => r = n
BY DEF Reader!ReadCommand

LEMMA CommandMoves ==
  ASSUME NEW u, NEW t, NEW d, NEW m, StandsIn(u, t, d, m), NEW q, OnPlace(u, q), q <= Len(u)
  PROVE  Moves(Reader!ReadCommand(u, q, <<>>), Reader!ReadCommand(t, q + d, <<>>), u, d, m, q)
<1>0. u \in Text /\ m \in Nat /\ t \in Text /\ d \in Nat /\ Len(u) \in Nat /\ q \in Nat
  BY DEF StandsIn, Text, OnPlace
<1>2. PICK nu, nt, ru, rt :
        /\ nu = Reader!get_next(u, q) /\ nt = Reader!get_next(t, q + d)
        /\ ru = Reader!ReadCommand(u, q, <<>>) /\ rt = Reader!ReadCommand(t, q + d, <<>>)
  OBVIOUS
<1>3. /\ OnPlace(u, nu.pos) /\ nu.pos >= q + 1
      /\ Within(u, m, nu.pos) => nt.command = nu.command /\ nt.pos = nu.pos + d
  <2>1. Moves(nu, nt, u, d, m, q + 1)
    BY <1>2, FirstMoves
  <2>2. nt = Moved(nu, d) => nt.command = nu.command /\ nt.pos = nu.pos + d
    BY ResultFields DEF Moved
  <2> QED
    BY <2>1, <2>2 DEF Moves
<1>4. ASSUME NEW z, Moves(ru, z, u, d, m, nu.pos), Within(u, m, nu.pos) => rt = z
      PROVE  Moves(ru, rt, u, d, m, q)
  <2>1. OnPlace(u, ru.pos) /\ ru.pos >= nu.pos /\ (Within(u, m, ru.pos) => z = Moved(ru, d))
    BY <1>4 DEF Moves
  <2>2. Within(u, m, ru.pos) => Within(u, m, nu.pos)
    BY <1>0, <1>3, <2>1, WithinDown
  <2>3. ru.pos >= q
    BY <1>0, <1>3, <2>1 DEF OnPlace
  <2> QED
    BY <1>4, <2>1, <2>2, <2>3 DEF Moves
<1>5. CASE nu.command.op = "create"
  <2>1. ru = Reader!parse_create(u, nu.pos, <<>>)
    BY CommandCases, <1>2, <1>5
  <2>2. Within(u, m, nu.pos) => rt = Reader!parse_create(t, nu.pos + d, <<>>)
    BY CommandCases, <1>2, <1>3, <1>5
  <2>3. Moves(ru, Reader!parse_create(t, nu.pos + d, <<>>), u, d, m, nu.pos)
    BY <1>3, <2>1, CreateMoves
  <2> QED
    BY <1>2, <1>4, <2>2, <2>3
<1>6. CASE nu.command.op = "reserve"
  <2>1. ru = Reader!parse_reserve(u, nu.pos, <<>>)
    BY CommandCases, <1>2, <1>6
  <2>2. Within(u, m, nu.pos) => rt = Reader!parse_reserve(t, nu.pos + d, <<>>)
    BY CommandCases, <1>2, <1>3, <1>6
  <2>3. Moves(ru, Reader!parse_reserve(t, nu.pos + d, <<>>), u, d, m, nu.pos)
    BY <1>3, <2>1, ReserveMoves
  <2> QED
    BY <1>2, <1>4, <2>2, <2>3
<1>7. CASE nu.command.op = "show"
  <2>1. ru = Reader!parse_show(u, nu.pos, <<>>)
    BY CommandCases, <1>2, <1>7
  <2>2. Within(u, m, nu.pos) => rt = Reader!parse_show(t, nu.pos + d, <<>>)
    BY CommandCases, <1>2, <1>3, <1>7
  <2>3. Moves(ru, Reader!parse_show(t, nu.pos + d, <<>>), u, d, m, nu.pos)
    BY <1>3, <2>1, ShowMoves
  <2> QED
    BY <1>2, <1>4, <2>2, <2>3
<1>8. CASE nu.command.op = "wait"
  <2>1. ru = Reader!parse_wait(u, nu.pos, <<>>)
    BY CommandCases, <1>2, <1>8
  <2>2. Within(u, m, nu.pos) => rt = Reader!parse_wait(t, nu.pos + d, <<>>)
    BY CommandCases, <1>2, <1>3, <1>8
  <2>3. Moves(ru, Reader!parse_wait(t, nu.pos + d, <<>>), u, d, m, nu.pos)
    BY <1>3, <2>1, WaitMoves
  <2> QED
    BY <1>2, <1>4, <2>2, <2>3
<1>9. CASE nu.command.op \notin {"create", "reserve", "show", "wait"}
  <2>1. ru = nu
    BY CommandCases, <1>2, <1>9
  <2>2. Within(u, m, nu.pos) => rt = nt
    BY CommandCases, <1>2, <1>3, <1>9
  <2>3. Moves(nu, nt, u, d, m, q + 1)
    BY <1>2, FirstMoves
  <2>4. nu.pos >= nu.pos
    BY <1>0, <1>3 DEF OnPlace
  <2>5. Moves(ru, nt, u, d, m, nu.pos)
    BY <2>1, <2>3, <2>4 DEF Moves
  <2> QED
    BY <1>2, <1>4, <2>2, <2>5
<1> QED
  BY <1>5, <1>6, <1>7, <1>8, <1>9

-----------------------------------------------------------------------------
(* A line that stands for its command: it is read as that and to its end,    *)
(* with the beginning of another line behind it or, for the last line of a   *)
(* file, with nothing behind it.                                             *)
ReadsAs(text, l) == Reader!ReadCommand(text, 1, <<>>) = Reader!Result(l.command, Len(l.text) + 1)
StandsFor(ls, n) ==
  /\ ls[n].text # <<>>
  /\ \/ ReadsAs(ls[n].text \o <<Head(ls[n].text)>>, ls[n])
     \/ n = Len(ls) /\ ReadsAs(ls[n].text, ls[n])
EveryLineIsRead ==
  \A l \in Texts : \A f \in DOMAIN l : \A n \in DOMAIN l[f] :
    l[f][n].ends_early \/ StandsFor(l[f], n)

(* A line in its file is read as it is read alone. *)
LEMMA LineIsRead ==
  ASSUME NEW ls, AreLines(ls), NEW n \in 1 .. Len(ls), StandsFor(ls, n)
  PROVE  Reader!ReadCommand(TextOf(ls), EndOf(ls, n - 1) + 1, <<>>)
           = Reader!Result(ls[n].command, EndOf(ls, n) + 1)
<1>1. PICK x, t, d, e :
        /\ x = ls[n].text /\ t = TextOf(ls) /\ d = EndOf(ls, n - 1) /\ e = EndOf(ls, n)
  OBVIOUS
<1>2. PICK m : m = Len(x)
  OBVIOUS
<1>3. /\ x \in Text /\ t \in Text /\ d \in Nat /\ e = d + m /\ e <= Len(t)
      /\ n = Len(ls) => e = Len(t)
      /\ \A k \in 1 .. m : t[d + k] = x[k]
  <2>1. ls[n].text \in Text
    BY DEF AreLines, Consist, Text
  <2>2. /\ TextOf(ls) \in Text
        /\ EndOf(ls, n - 1) \in Nat
        /\ EndOf(ls, n) = EndOf(ls, n - 1) + Len(ls[n].text)
        /\ EndOf(ls, n) <= Len(TextOf(ls))
        /\ n = Len(ls) => EndOf(ls, n) = Len(TextOf(ls))
        /\ \A k \in 1 .. Len(ls[n].text) : TextOf(ls)[EndOf(ls, n - 1) + k] = ls[n].text[k]
    BY LineStands
  <2> QED
    BY <1>1, <1>2, <2>1, <2>2
<1>4. m \in Nat /\ m > 0 /\ Len(t) \in Nat
  <2>1. x # <<>>
    BY <1>1 DEF StandsFor
  <2> QED
    BY <1>2, <1>3, <2>1, EmptySeq DEF Text
<1>5. ASSUME NEW u, StandsIn(u, t, d, m), ReadsAs(u, ls[n])
      PROVE  Reader!ReadCommand(t, d + 1, <<>>) = Reader!Result(ls[n].command, e + 1)
  <2>1. PICK ru, rt, c :
          /\ ru = Reader!ReadCommand(u, 1, <<>>) /\ rt = Reader!ReadCommand(t, 1 + d, <<>>)
          /\ c = ls[n].command
    OBVIOUS
  <2>2. OnPlace(u, 1) /\ 1 <= Len(u)
    BY <1>4, <1>5 DEF StandsIn, OnPlace
  <2>3. Moves(ru, rt, u, d, m, 1)
    BY <1>5, <2>1, <2>2, CommandMoves
  <2>4. ru = Reader!Result(c, m + 1)
    BY <1>1, <1>2, <1>5, <2>1 DEF ReadsAs
  <2>5. ru.command = c /\ ru.pos = m + 1
    BY <2>4, ResultFields
  <2>6. Within(u, m, ru.pos)
    BY <1>4, <2>5 DEF Within
  <2>7. rt = Reader!Result(c, (m + 1) + d)
    BY <2>3, <2>5, <2>6 DEF Moves, Moved
  <2>8. (m + 1) + d = e + 1 /\ 1 + d = d + 1
    BY <1>3, <1>4
  <2> QED
    BY <2>1, <2>7, <2>8
<1>6. CASE ReadsAs(x \o <<Head(x)>>, ls[n])
  <2> DEFINE C == STRING \ {Reader!Eof}
             u == x \o <<x[1]>>
  <2>1. x[1] \in C /\ Head(x) = x[1]
    BY <1>2, <1>3, <1>4 DEF Text
  <2>2. <<x[1]>> \in Seq(C) /\ Len(<<x[1]>>) = 1
    <3> HIDE DEF C
    <3> QED
      BY <2>1
  <2>3. x \in Seq(C)
    BY <1>3 DEF Text
  <2>4. /\ u \in Seq(C) /\ Len(u) = Len(x) + 1
        /\ \A k \in 1 .. Len(x) + 1 : u[k] = IF k <= Len(x) THEN x[k] ELSE <<x[1]>>[k - Len(x)]
    BY <2>2, <2>3, ConcatProperties
  <2> HIDE DEF u
  <2>5. \A k \in 1 .. m : t[k + d] = u[k]
    <3> TAKE k \in 1 .. m
    <3>1. u[k] = x[k] /\ k + d = d + k
      BY <1>2, <1>3, <1>4, <2>4
    <3> QED
      BY <1>3, <3>1
  <2>6. u \in Text /\ Len(u) = m + 1 /\ Len(t) >= m + d
    BY <1>2, <1>3, <1>4, <2>4 DEF Text
  <2>7. StandsIn(u, t, d, m)
    BY <1>3, <1>4, <2>5, <2>6 DEF StandsIn
  <2>8. ReadsAs(u, ls[n])
    BY <1>6, <2>1 DEF u
  <2> QED
    BY <1>1, <1>5, <2>7, <2>8
<1>7. CASE n = Len(ls) /\ ReadsAs(x, ls[n])
  <2>1. \A k \in 1 .. m : t[k + d] = x[k]
    <3> TAKE k \in 1 .. m
    <3>1. k + d = d + k
      BY <1>3
    <3> QED
      BY <1>3, <3>1
  <2>2. Len(t) = m + d /\ Len(x) = m
    BY <1>2, <1>3, <1>4, <1>7
  <2>3. StandsIn(x, t, d, m)
    BY <1>3, <1>4, <2>1, <2>2 DEF StandsIn
  <2> QED
    BY <1>1, <1>5, <1>7, <2>3
<1> QED
  BY <1>1, <1>6, <1>7 DEF StandsFor

(* As long as the lines are sound, the next line is read from its beginning. *)
InItsFile(f) ==
  /\ \E S : commands[f] \in Seq(S)
  /\ Len(commands[f]) \in {0} \cup Sound(f) => fdR[f] = EndOf(lines[f], Len(commands[f])) + 1
  /\ \A n \in Sound(f) \cap DOMAIN commands[f] : commands[f][n] = lines[f][n].command
  /\ Sound(f) = DOMAIN lines[f] => Len(commands[f]) <= Len(lines[f])

Ordered == DOMAIN commands = DOMAIN lines /\ \A f \in DOMAIN lines : InItsFile(f)

LEMMA OrderStarts == Init => Ordered
<1> SUFFICES ASSUME Init PROVE Ordered
  OBVIOUS
<1>1. /\ DOMAIN commands = DOMAIN lines /\ lines \in Texts
      /\ \A f \in DOMAIN lines : commands[f] = <<>> /\ fdR[f] = 1
  BY DEF Init
<1>2. ASSUME NEW f \in DOMAIN lines PROVE InItsFile(f)
  <2>1. commands[f] = <<>> /\ Len(commands[f]) = 0 /\ DOMAIN commands[f] = {}
    BY <1>1
  <2>2. commands[f] \in Seq({})
    BY <2>1
  <2>3. EndOf(lines[f], 0) = 0
    <3>1. Len(lines[f]) \in Nat
      BY <1>1, ReaderAssumption
    <3>2. Upto(lines[f])[0] = <<>>
      BY <3>1, UptoGoesOn
    <3> QED
      BY <3>2 DEF EndOf
  <2>4. fdR[f] = EndOf(lines[f], 0) + 1
    BY <1>1, <2>3
  <2>5. Len(commands[f]) <= Len(lines[f])
    BY <1>1, <2>1, ReaderAssumption
  <2> QED
    BY <2>1, <2>2, <2>4, <2>5 DEF InItsFile
<1> QED
  BY <1>1, <1>2 DEF Ordered

(* Behind the last line of a file there is no command.                       *)
LEMMA NothingBehindTheEnd ==
  ASSUME NEW t, NEW p, Reader!At(t, p) = Reader!Eof, NEW junk
  PROVE  Reader!ReadCommand(t, p, junk).command.op = "eoc"
<1>1. Reader!get_next(t, p) = Reader!Result([op |-> "eoc"], p)
  <2>1. Reader!Eof \notin DOMAIN Keywords /\ Reader!Eof # "#" /\ Reader!Eof # Reader!NL
    BY ReaderAssumption DEF Reader!Eof, Reader!NL
  <2> QED
    BY <2>1, Zenon DEF Reader!get_next
<1>2. Reader!get_next(t, p).command.op = "eoc"
  BY <1>1 DEF Reader!Result
<1> QED
  BY <1>2 DEF Reader!ReadCommand

(* Every line has a character, so that the place behind line k is not the    *)
(* end of the file unless it is the last.                                    *)
LEMMA LinesAreThere ==
  ASSUME NEW ls, AreLines(ls), NEW k \in 0 .. Len(ls), \A n \in 1 .. Len(ls) : ls[n].text # <<>>
  PROVE  /\ k < Len(ls) => EndOf(ls, k) + 1 <= Len(TextOf(ls))
         /\ k = Len(ls) => Reader!At(TextOf(ls), EndOf(ls, k) + 1) = Reader!Eof
<1>1. PICK m \in Nat : m = Len(ls)
  BY DEF AreLines, Consist
<1>2. ASSUME k < m PROVE EndOf(ls, k) + 1 <= Len(TextOf(ls))
  <2>1. k + 1 \in 1 .. Len(ls) /\ (k + 1) - 1 = k
    BY <1>1, <1>2
  <2>2. PICK x : x = ls[k + 1].text
    OBVIOUS
  <2>3. x \in Text /\ x # <<>>
    BY <2>1, <2>2 DEF AreLines, Consist, Text
  <2>4. PICK z \in Nat : z = Len(x) /\ z > 0
    BY <2>3, EmptySeq DEF Text
  <2>5. TextOf(ls) \in Text /\ EndOf(ls, k) \in Nat /\ EndOf(ls, k + 1) = EndOf(ls, k) + z
        /\ EndOf(ls, k + 1) <= Len(TextOf(ls))
    BY <2>1, <2>2, <2>4, LineStands
  <2>6. Len(TextOf(ls)) \in Nat
    BY <2>5 DEF Text
  <2> QED
    BY <2>4, <2>5, <2>6
<1>3. EndOf(ls, m) = Len(TextOf(ls)) /\ Len(TextOf(ls)) \in Nat
  <2>1. TextOf(ls) = Upto(ls)[Len(ls)] /\ m \in 0 .. Len(ls)
    BY <1>1, UptoGoesOn
  <2>2. TextOf(ls) \in Text
    BY <1>1, <2>1, UptoIsText
  <2> QED
    BY <1>1, <2>1, <2>2 DEF EndOf, Text
<1>4. ASSUME k = m PROVE Reader!At(TextOf(ls), EndOf(ls, k) + 1) = Reader!Eof
  <2>1. ~(EndOf(ls, k) + 1 <= Len(TextOf(ls)))
    BY <1>3, <1>4
  <2> QED
    BY <2>1 DEF Reader!At
<1> QED
  BY <1>1, <1>2, <1>4

LEMMA SoundBefore ==
  ASSUME NEW f \in DOMAIN lines, AreLines(lines[f]), NEW k \in Nat, k + 1 \in Sound(f)
  PROVE  /\ k \in {0} \cup Sound(f) /\ k + 1 \in 1 .. Len(lines[f])
         /\ ~lines[f][k + 1].ends_early
<1>1. Len(lines[f]) \in Nat /\ DOMAIN lines[f] = 1 .. Len(lines[f])
  BY DEF AreLines, Consist
<1>2. /\ k + 1 \in 1 .. Len(lines[f]) /\ \A m \in 1 .. k + 1 : ~lines[f][m].ends_early
  BY <1>1 DEF Sound
<1>3. \A m \in 1 .. k : m \in 1 .. k + 1
  OBVIOUS
<1>4. k # 0 => k \in 1 .. Len(lines[f])
  BY <1>1, <1>2
<1> QED
  BY <1>1, <1>2, <1>3, <1>4 DEF Sound

LEMMA SoundFiles ==
  ASSUME EveryLineIsRead, lines \in Texts, NEW f \in DOMAIN lines, Sound(f) = DOMAIN lines[f]
  PROVE  /\ AreLines(lines[f]) /\ Sound(f) = 1 .. Len(lines[f])
         /\ \A n \in 1 .. Len(lines[f]) : lines[f][n].text # <<>>
<1>1. AreLines(lines[f]) /\ DOMAIN lines[f] = 1 .. Len(lines[f])
  BY ReaderAssumption DEF AreLines, Consist, Text
<1>2. ASSUME NEW n \in DOMAIN lines[f] PROVE lines[f][n].text # <<>>
  <2>1. n \in Nat /\ n \in 1 .. n
    BY <1>1 DEF AreLines, Consist
  <2>2. ~lines[f][n].ends_early
    BY <2>1 DEF Sound
  <2> QED
    BY <2>2 DEF EveryLineIsRead, StandsFor
<1> QED
  BY <1>1, <1>2

LEMMA OrderIsRead ==
  ASSUME EveryLineIsRead, ReadInv, Ordered, NEW g, ChildReads(g)
  PROVE  Ordered'
<1>1. PICK c, p : c = NextOf(g).command /\ p = NextOf(g).pos
  OBVIOUS
<1>2. /\ lines' = lines /\ lines \in Texts /\ DOMAIN fdR = DOMAIN lines
      /\ DOMAIN commands = DOMAIN lines
      /\ fdR' = [fdR EXCEPT ![g] = p] /\ commands' = [commands EXCEPT ![g] = Append(@, c)]
  BY <1>1 DEF ChildReads, ReadInv, Reading, Ordered
<1>3. ASSUME NEW f \in DOMAIN lines, f # g PROVE InItsFile(f)'
  <2>1. commands'[f] = commands[f] /\ fdR'[f] = fdR[f]
    BY <1>2, <1>3
  <2> QED
    BY <1>2, <2>1 DEF Ordered, InItsFile, Sound
<1>4. ASSUME g \in DOMAIN lines PROVE InItsFile(g)'
  <2>1. PICK q, ls, S :
          q = commands[g] /\ ls = lines[g] /\ q \in Seq(S) /\ InItsFile(g)
    BY <1>4 DEF Ordered, InItsFile
  <2>2. PICK k \in Nat : k = Len(q)
    BY <2>1
  <2>3. AreLines(ls)
    BY <1>2, <1>4, <2>1, ReaderAssumption DEF AreLines, Consist, Text
  <2>4. PICK r : r = commands'[g]
    OBVIOUS
  <2>5. r = Append(q, c) /\ fdR'[g] = p
    BY <1>2, <1>4, <2>1, <2>4
  <2>6. /\ r \in Seq(S \cup {c}) /\ Len(r) = k + 1 /\ DOMAIN r = 1 .. k + 1 /\ DOMAIN q = 1 .. k
        /\ \A n \in 1 .. k : r[n] = q[n]
        /\ r[k + 1] = c
    <3>1. q \in Seq(S \cup {c}) /\ c \in S \cup {c}
      BY <2>1
    <3>2. /\ r \in Seq(S \cup {c}) /\ Len(r) = Len(q) + 1
          /\ \A n \in 1 .. Len(q) : r[n] = q[n]
          /\ r[Len(q) + 1] = c
      BY <2>5, <3>1, AppendProperties
    <3> QED
      BY <2>2, <3>1, <3>2
  <2>7. ASSUME k + 1 \in Sound(g)
        PROVE  c = ls[k + 1].command /\ p = EndOf(ls, k + 1) + 1
    <3>1. k \in {0} \cup Sound(g) /\ k + 1 \in 1 .. Len(ls) /\ ~ls[k + 1].ends_early
      BY <1>4, <2>1, <2>3, <2>7, SoundBefore
    <3>2. fdR[g] = EndOf(ls, k) + 1
      BY <2>1, <2>2, <3>1 DEF InItsFile
    <3>3. StandsFor(ls, k + 1)
      <4>1. k + 1 \in DOMAIN ls
        BY <2>3, <3>1 DEF AreLines, Consist
      <4> QED
        BY <1>2, <1>4, <2>1, <3>1, <4>1 DEF EveryLineIsRead
    <3>4. (k + 1) - 1 = k
      OBVIOUS
    <3>5. Reader!ReadCommand(TextOf(ls), EndOf(ls, k) + 1, <<>>)
            = Reader!Result(ls[k + 1].command, EndOf(ls, k + 1) + 1)
      BY <2>3, <3>1, <3>3, <3>4, LineIsRead
    <3>6. NextOf(g) = Reader!Result(ls[k + 1].command, EndOf(ls, k + 1) + 1)
      BY <2>1, <3>2, <3>5 DEF NextOf
    <3> QED
      BY <1>1, <3>6, ResultFields
  <2>8. ASSUME NEW n \in Sound(g) \cap DOMAIN r PROVE r[n] = ls[n].command
    <3>1. CASE n = k + 1
      BY <2>6, <2>7, <2>8, <3>1
    <3>2. CASE n # k + 1
      <4>1. n \in 1 .. k
        BY <2>6, <2>8, <3>2
      <4> QED
        BY <2>1, <2>6, <2>8, <4>1 DEF InItsFile
    <3> QED
      BY <3>1, <3>2
  <2>9. Len(r) \in {0} \cup Sound(g) => fdR'[g] = EndOf(ls, Len(r)) + 1
    <3>1. Len(r) = k + 1 /\ k + 1 # 0
      BY <2>6
    <3> QED
      BY <2>5, <2>7, <3>1
  <2>10. Sound(g)' = Sound(g) /\ lines'[g] = ls
    BY <1>2, <2>1 DEF Sound
  <2>11. ASSUME Sound(g) = DOMAIN ls PROVE Len(r) <= Len(ls)
    <3>1. /\ Sound(g) = 1 .. Len(ls) /\ \A n \in 1 .. Len(ls) : ls[n].text # <<>>
      BY <1>2, <1>4, <2>1, <2>11, SoundFiles
    <3>2. Len(ls) \in Nat /\ k <= Len(ls)
      BY <2>1, <2>2, <2>3, <2>11 DEF InItsFile, AreLines, Consist
    <3>3. fdR[g] = EndOf(ls, k) + 1
      BY <2>1, <2>2, <3>1, <3>2 DEF InItsFile
    <3>4. ASSUME k = Len(ls) PROVE FALSE
      <4>1. Reader!At(TextOf(ls), EndOf(ls, k) + 1) = Reader!Eof
        BY <2>3, <3>1, <3>2, <3>4, LinesAreThere
      <4>2. NextOf(g).command.op = "eoc"
        BY <2>1, <3>3, <4>1, NothingBehindTheEnd DEF NextOf
      <4> QED
        BY <4>2 DEF ChildReads
    <3> QED
      BY <2>6, <3>2, <3>4
  <2> QED
    BY <2>4, <2>6, <2>8, <2>9, <2>10, <2>11 DEF InItsFile
<1> QED
  BY <1>2, <1>3, <1>4 DEF Ordered

LEMMA AsManyAsLines ==
  ASSUME EveryLineIsRead, ReadInv, Ordered, NEW f \in DOMAIN lines,
         Sound(f) = DOMAIN lines[f], fdR[f] > Len(TextOf(lines[f]))
  PROVE  Len(commands[f]) = Len(lines[f])
<1>1. PICK ls, q : ls = lines[f] /\ q = commands[f] /\ InItsFile(f)
  BY DEF Ordered
<1>2. /\ AreLines(ls) /\ Sound(f) = 1 .. Len(ls) /\ \A n \in 1 .. Len(ls) : ls[n].text # <<>>
  BY <1>1, SoundFiles DEF ReadInv, Reading
<1>3. PICK k \in Nat : k = Len(q)
  BY <1>1 DEF InItsFile
<1>4. Len(ls) \in Nat /\ k <= Len(ls)
  BY <1>1, <1>2, <1>3 DEF InItsFile, AreLines, Consist
<1>5. fdR[f] = EndOf(ls, k) + 1
  BY <1>1, <1>2, <1>3, <1>4 DEF InItsFile
<1>6. ASSUME k < Len(ls) PROVE FALSE
  <2>1. EndOf(ls, k) + 1 <= Len(TextOf(ls))
    BY <1>2, <1>4, <1>6, LinesAreThere
  <2>2. TextOf(ls) \in Text
    BY <1>1, TextsAreText DEF ReadInv
  <2> QED
    BY <1>1, <1>5, <2>1, <2>2 DEF ReadInv, Reading, IsPlace, Text
<1> QED
  BY <1>1, <1>3, <1>4, <1>6

(* Up to the first piece that is marked to end too early, the commands read  *)
(* are those the pieces were written as, one for each and in their order,    *)
(* and as many as there are pieces when the file was read to its end         *)
(* (parser.c:40-258, main.c:277-395): what the parser makes of a piece does  *)
(* not depend on where in a file it stands nor on what stands around it,     *)
(* because none is read beyond its end and none is left before it.           *)
THEOREM CommandsAreTheLines ==
  ASSUME EveryLineIsRead
  PROVE  Spec => []LinesAreCommands
<1>1. ReadInv /\ Ordered /\ [Next]_programVars => Ordered'
  <2> SUFFICES ASSUME ReadInv, Ordered, [Next]_programVars PROVE Ordered'
    OBVIOUS
  <2>1. \/ UNCHANGED <<lines, fdR, commands>> \/ \E g \in running : ChildReads(g)
    BY DEF Next, Child, Parent, PoolEnded, ChildEnds, ChildFails, programVars, readVars
  <2>2. CASE UNCHANGED <<lines, fdR, commands>>
    BY <2>2 DEF Ordered, InItsFile, Sound
  <2> QED
    BY <2>1, <2>2, OrderIsRead
<1>2. ReadInv /\ Ordered => LinesAreCommands
  BY AsManyAsLines DEF Ordered, InItsFile, LinesAreCommands
<1> QED
  BY <1>1, <1>2, OrderStarts, ReadingHolds, PTL DEF Spec

-----------------------------------------------------------------------------
(* The commands as they are written, and that the parser reads them as what  *)
(* they were written as. *)

(* The characters a command is made of, those with a meaning by name. *)
Comma        == ","
LeftParen    == "("
RightParen   == ")"
LeftBracket  == "["
RightBracket == "]"
Hash         == "#"
DigitChars   == {Reader!Digits[d] : d \in DOMAIN Reader!Digits}
Chars == STRING \cup DigitChars \cup {Reader!NL, Reader!Blank, Comma, LeftParen, RightParen,
                                      LeftBracket, RightBracket, Hash}
String == Seq(Chars)

(* w is what t has from the place p on. *)
IsAt(w, t, p) ==
  \A k \in 1 .. Len(w) : p + (k - 1) \in 1 .. Len(t) /\ t[p + (k - 1)] = w[k]

LEMMA PlaceIs ==
  ASSUME NEW t \in Text, NEW p, OnPlace(t, p)
  PROVE  p \in Nat /\ p >= 1 /\ p <= Len(t) + 1 /\ Len(t) \in Nat
<1>1. Len(t) \in Nat
  BY DEF Text
<1> QED
  BY <1>1 DEF OnPlace

LEMMA Appended ==
  ASSUME NEW a \in String, NEW b \in String
  PROVE  /\ a \o b \in String /\ Len(a) \in Nat /\ Len(b) \in Nat /\ Len(a \o b) \in Nat
         /\ Len(a \o b) = Len(a) + Len(b)
BY ConcatProperties DEF String

LEMMA PartsAreAt ==
  ASSUME NEW a \in String, NEW b \in String, NEW t \in Text, NEW p \in Nat, IsAt(a \o b, t, p)
  PROVE  IsAt(a, t, p) /\ IsAt(b, t, p + Len(a))
<1>1. PICK c : c = a \o b
  OBVIOUS
<1>2. /\ Len(a) \in Nat /\ Len(b) \in Nat /\ Len(c) = Len(a) + Len(b)
      /\ \A k \in 1 .. Len(a) + Len(b) : c[k] = IF k <= Len(a) THEN a[k] ELSE b[k - Len(a)]
  BY <1>1, ConcatProperties DEF String
<1>3. \A k \in 1 .. Len(c) : p + (k - 1) \in 1 .. Len(t) /\ t[p + (k - 1)] = c[k]
  BY <1>1 DEF IsAt
<1>4. IsAt(a, t, p)
  <2> SUFFICES ASSUME NEW k \in 1 .. Len(a)
               PROVE  p + (k - 1) \in 1 .. Len(t) /\ t[p + (k - 1)] = a[k]
    BY DEF IsAt
  <2>1. k \in 1 .. Len(c) /\ k \in 1 .. Len(a) + Len(b) /\ k <= Len(a)
    BY <1>2
  <2> QED
    BY <1>2, <1>3, <2>1
<1>5. IsAt(b, t, p + Len(a))
  <2> SUFFICES ASSUME NEW k \in 1 .. Len(b)
               PROVE  /\ (p + Len(a)) + (k - 1) \in 1 .. Len(t)
                      /\ t[(p + Len(a)) + (k - 1)] = b[k]
    BY DEF IsAt
  <2>1. PICK j : j = Len(a) + k
    OBVIOUS
  <2>2. /\ j \in 1 .. Len(c) /\ j \in 1 .. Len(a) + Len(b) /\ ~(j <= Len(a)) /\ j - Len(a) = k
        /\ p + (j - 1) = (p + Len(a)) + (k - 1)
    BY <1>2, <2>1
  <2>3. c[j] = b[k]
    BY <1>2, <2>2
  <2> QED
    BY <1>3, <2>2, <2>3
<1> QED
  BY <1>4, <1>5

LEMMA CharIsAt ==
  ASSUME NEW c, NEW t \in Text, NEW p \in Nat, IsAt(<<c>>, t, p)
  PROVE  OnPlace(t, p) /\ p <= Len(t) /\ t[p] = c /\ Reader!At(t, p) = c /\ Reader!Behind(t, p) = p + 1
         /\ c # Reader!Eof
<1>1. Len(<<c>>) = 1 /\ <<c>>[1] = c /\ p + (1 - 1) = p /\ Len(t) \in Nat
  BY DEF Text
<1>2. p \in 1 .. Len(t) /\ t[p] = c
  BY <1>1 DEF IsAt
<1> QED
  BY <1>1, <1>2 DEF OnPlace, Reader!At, Reader!Behind, Text

(* The place behind what stands at p. *)
LEMMA PlaceBehind ==
  ASSUME NEW w \in String, NEW t \in Text, NEW p, OnPlace(t, p), IsAt(w, t, p)
  PROVE  OnPlace(t, p + Len(w)) /\ p + Len(w) \in Nat /\ Len(w) \in Nat /\ Len(t) \in Nat /\ p \in Nat
<1>1. Len(w) \in Nat /\ Len(t) \in Nat /\ p \in 1 .. Len(t) + 1
  BY DEF String, Text, OnPlace
<1>2. CASE Len(w) = 0
  BY <1>1, <1>2 DEF OnPlace
<1>3. CASE Len(w) # 0
  <2>1. Len(w) \in 1 .. Len(w)
    BY <1>1, <1>3
  <2>2. p + (Len(w) - 1) \in 1 .. Len(t)
    BY <2>1 DEF IsAt
  <2> QED
    BY <1>1, <2>2 DEF OnPlace
<1> QED
  BY <1>2, <1>3

LEMMA PieceIs ==
  ASSUME NEW w \in String, NEW t \in Text, NEW p, OnPlace(t, p), IsAt(w, t, p),
         NEW e \in Int, e = p + (Len(w) - 1)
  PROVE  Piece(t, p, e) = w
<1>1. Len(w) \in Nat /\ p \in Nat /\ p >= 1 /\ e - p + 1 = Len(w)
  BY DEF String, Text, OnPlace
<1>2. \A k \in 1 .. Len(w) : t[p + (k - 1)] = w[k] /\ w[k] \in Chars
  BY DEF IsAt, String
<1>3. \A j \in p .. e : t[j] \in Chars
  <2> TAKE j \in p .. e
  <2>1. j - p + 1 \in 1 .. Len(w) /\ p + ((j - p + 1) - 1) = j
    BY <1>1
  <2> QED
    BY <1>2, <2>1
<1>4. /\ SubSeq(t, p, e) \in Seq(Chars)
      /\ Len(SubSeq(t, p, e)) = IF p <= e THEN e - p + 1 ELSE 0
      /\ \A k \in 1 .. e - p + 1 : SubSeq(t, p, e)[k] = t[p + k - 1]
  <2>1. p \in Int
    BY <1>1
  <2> QED
    BY <1>3, <2>1, SubSeqProperties
<1>5. PICK v \in Seq(Chars) : v = SubSeq(t, p, e)
  BY <1>4
<1>6. Len(v) = Len(w)
  BY <1>1, <1>4, <1>5
<1>7. \A k \in 1 .. Len(v) : v[k] = w[k]
  <2> TAKE k \in 1 .. Len(v)
  <2>1. k \in 1 .. e - p + 1 /\ k \in 1 .. Len(w) /\ p + k - 1 = p + (k - 1)
    BY <1>1, <1>6
  <2> QED
    BY <1>2, <1>4, <1>5, <2>1
<1> QED
  BY <1>5, <1>6, <1>7, SeqEqual DEF Piece, String

-----------------------------------------------------------------------------
(* A number that unsigned int can hold; no digit at all is the number 0. *)
Numbers == {ds \in Seq(DigitChars) : Reader!ValueOf(ds) <= UIntMax}

LEMMA NumbersAre ==
  ASSUME NEW ds \in Numbers
  PROVE  /\ ds \in String /\ \A k \in 1 .. Len(ds) : Reader!IsDigit(ds[k])
         /\ Reader!ValueOf(ds) <= UIntMax
<1>1. ds \in Seq(DigitChars) /\ Reader!ValueOf(ds) <= UIntMax
  BY DEF Numbers
<1>2. \A c \in DigitChars : c \in Chars /\ Reader!IsDigit(c)
  BY DEF Chars, DigitChars, Reader!IsDigit
<1> QED
  BY <1>1, <1>2 DEF String

LEMMA NoDigits ==
  /\ ~Reader!IsDigit(Reader!NL) /\ ~Reader!IsDigit(Reader!Blank) /\ ~Reader!IsDigit(Reader!Eof)
  /\ ~Reader!IsDigit(Comma) /\ ~Reader!IsDigit(RightParen)
<1>1. ASSUME NEW c, Reader!IsDigit(c)
      PROVE  \/ c = "0" \/ c = "1" \/ c = "2" \/ c = "3" \/ c = "4"
             \/ c = "5" \/ c = "6" \/ c = "7" \/ c = "8" \/ c = "9"
  <2>1. PICK k \in 1 .. 10 : Reader!Digits[k] = c
    BY <1>1 DEF Reader!IsDigit, Reader!Digits
  <2>2. k = 1 \/ k = 2 \/ k = 3 \/ k = 4 \/ k = 5 \/ k = 6 \/ k = 7 \/ k = 8 \/ k = 9 \/ k = 10
    OBVIOUS
  <2> QED
    BY <2>1, <2>2 DEF Reader!Digits
<1>2. ~Reader!IsDigit(Reader!NL)
  BY <1>1 DEF Reader!NL
<1>3. ~Reader!IsDigit(Reader!Blank)
  BY <1>1 DEF Reader!Blank
<1>4. ~Reader!IsDigit(Reader!Eof)
  BY <1>1 DEF Reader!Eof
<1>5. ~Reader!IsDigit(Comma) /\ ~Reader!IsDigit(RightParen)
  BY <1>1 DEF Comma, RightParen
<1> QED
  BY <1>2, <1>3, <1>4, <1>5

(* parser.c:9-38: a number and the character behind it. *)
LEMMA NumberIsIts ==
  ASSUME NEW ds \in Numbers, NEW t \in Text, NEW p, OnPlace(t, p), IsAt(ds, t, p),
         NEW c, c = Reader!At(t, p + Len(ds)), ~Reader!IsDigit(c)
  PROVE  /\ Number(t, p).fits /\ Number(t, p).value = Reader!ValueOf(ds) /\ Number(t, p).next = c
         /\ Number(t, p).pos = Reader!Behind(t, p + Len(ds))
<1>1. PICK e : e = p + Len(ds)
  OBVIOUS
<1>2. /\ e \in Nat /\ OnPlace(t, e) /\ Len(ds) \in Nat /\ Len(t) \in Nat /\ p \in Nat /\ p >= 1
      /\ ds \in String /\ e <= Len(t) + 1
  <2>1. ds \in String
    BY NumbersAre
  <2>2. OnPlace(t, e) /\ e \in Nat /\ Len(ds) \in Nat /\ Len(t) \in Nat /\ p \in Nat
    BY <1>1, <2>1, PlaceBehind
  <2> QED
    BY <2>1, <2>2 DEF OnPlace
<1>3. e <= Len(t) => t[e] = c
  BY <1>1 DEF Reader!At
<1>4. \A j \in p .. e - 1 : Reader!IsDigit(t[j])
  <2> TAKE j \in p .. e - 1
  <2>1. j - p + 1 \in 1 .. Len(ds) /\ p + ((j - p + 1) - 1) = j
    BY <1>1, <1>2
  <2>2. t[j] = ds[j - p + 1]
    BY <2>1 DEF IsAt
  <2> QED
    BY <2>1, <2>2, NumbersAre
<1>5. StopsAt(t, p) = e
  <2>1. PICK s \in p .. Len(t) + 1 :
          /\ s = StopsAt(t, p) /\ (s <= Len(t) => ~Reader!IsDigit(t[s]))
          /\ \A j \in p .. s - 1 : Reader!IsDigit(t[j])
    BY StopIsPlace
  <2>2. ~(s < e)
    BY <1>2, <1>4, <2>1
  <2>3. ~(e < s)
    <3> SUFFICES ASSUME e < s PROVE FALSE
      OBVIOUS
    <3>1. e \in p .. s - 1 /\ e <= Len(t)
      BY <1>1, <1>2, <2>1
    <3> QED
      BY <1>3, <2>1, <3>1
  <2> QED
    BY <1>2, <2>1, <2>2, <2>3
<1>6. Piece(t, p, e - 1) \o <<>> = ds
  <2>1. e - 1 \in Int /\ e - 1 = p + (Len(ds) - 1)
    BY <1>1, <1>2
  <2>2. Piece(t, p, e - 1) = ds
    BY <1>2, <2>1, PieceIs
  <2>3. ds \o <<>> = ds
    BY <1>2, ConcatEmptySeq DEF String
  <2> QED
    BY <2>2, <2>3
<1>7. Number(t, p) = [fits |-> Reader!ValueOf(ds) <= UIntMax, value |-> Reader!ValueOf(ds),
                      next |-> c, pos |-> Reader!Behind(t, e)]
  <2>1. PICK v : v = Reader!ValueOf(Piece(t, p, StopsAt(t, p) - 1) \o <<>>)
    OBVIOUS
  <2>2. v = Reader!ValueOf(ds)
    BY <1>5, <1>6, <2>1
  <2>3. Number(t, p) = [fits |-> v <= UIntMax, value |-> v, next |-> Reader!At(t, StopsAt(t, p)),
                        pos |-> Reader!Behind(t, StopsAt(t, p))]
    BY <2>1, NumberFields
  <2> QED
    BY <1>1, <1>5, <2>2, <2>3
<1>8. Reader!ValueOf(ds) <= UIntMax
  BY NumbersAre
<1>9. Number(t, p).fits = (Reader!ValueOf(ds) <= UIntMax)
  BY <1>7
<1>10. Number(t, p).fits
  BY <1>8, <1>9
<1> QED
  BY <1>1, <1>7, <1>10

(* A number with something else behind it, and what follows that. *)
Follows(t, p, n, c, v, ds, more) ==
  /\ Reader!EndsWith(n, {c}) /\ n.next = c /\ n.value = Reader!ValueOf(ds)
  /\ OnPlace(t, n.pos) /\ IsAt(more, t, n.pos) /\ p + Len(v) = n.pos + Len(more)

LEMMA NumberThen ==
  ASSUME NEW ds \in Numbers, NEW c \in {Reader!Blank, Comma, RightParen}, NEW more \in String,
         NEW t \in Text, NEW p, OnPlace(t, p), NEW v, v = ds \o (<<c>> \o more), IsAt(v, t, p)
  PROVE  Follows(t, p, Number(t, p), c, v, ds, more)
<1>1. PICK e : e = p + Len(ds)
  OBVIOUS
<1>2. ds \in String /\ <<c>> \in String /\ Len(<<c>>) = 1
  <2>1. ds \in String
    BY NumbersAre
  <2>2. c \in Chars
    BY DEF Chars
  <2> QED
    BY <2>1, <2>2 DEF String
<1>3. /\ <<c>> \o more \in String /\ Len(<<c>> \o more) = 1 + Len(more) /\ Len(more) \in Nat
      /\ Len(ds) \in Nat /\ Len(ds \o (<<c>> \o more)) = Len(ds) + (1 + Len(more))
  <2>1. <<c>> \o more \in String /\ Len(<<c>> \o more) = 1 + Len(more) /\ Len(more) \in Nat
    BY <1>2, Appended
  <2> QED
    BY <1>2, <2>1, Appended
<1>4. p \in Nat /\ IsAt(ds, t, p) /\ IsAt(<<c>> \o more, t, e)
  <2>1. p \in Nat
    BY PlaceIs
  <2> QED
    BY <1>1, <1>2, <1>3, <2>1, PartsAreAt
<1>5. e \in Nat /\ OnPlace(t, e)
  BY <1>1, <1>2, <1>4, PlaceBehind
<1>6. IsAt(<<c>>, t, e) /\ IsAt(more, t, e + 1)
  BY <1>2, <1>4, <1>5, PartsAreAt
<1>7. e <= Len(t) /\ Reader!At(t, e) = c /\ Reader!Behind(t, e) = e + 1
  BY <1>5, <1>6, CharIsAt
<1>8. ~Reader!IsDigit(c)
  BY NoDigits
<1>9. /\ Number(t, p).fits /\ Number(t, p).value = Reader!ValueOf(ds) /\ Number(t, p).next = c
      /\ Number(t, p).pos = e + 1
  BY <1>1, <1>4, <1>7, <1>8, NumberIsIts
<1>10. OnPlace(t, e + 1)
  <2>1. e + 1 \in Nat /\ e + 1 >= 1 /\ e + 1 <= Len(t) + 1 /\ Len(t) \in Nat
    BY <1>5, <1>7, PlaceIs
  <2> QED
    BY <2>1 DEF OnPlace
<1>11. p + (Len(ds) + (1 + Len(more))) = (e + 1) + Len(more)
  <2>1. PICK a \in Nat, b \in Nat : a = Len(ds) /\ b = Len(more)
    BY <1>3
  <2> QED
    BY <1>1, <1>4, <2>1
<1> QED
  BY <1>3, <1>6, <1>9, <1>10, <1>11 DEF Follows, Reader!EndsWith

(* A number with which a line ends. *)
LEMMA NumberEnds ==
  ASSUME NEW ds \in Numbers, NEW t \in Text, NEW p, OnPlace(t, p), IsAt(ds, t, p),
         Reader!At(t, p + Len(ds)) \in Reader!LineEnd
  PROVE  /\ Reader!EndsWith(Number(t, p), Reader!LineEnd)
         /\ ~Reader!EndsWith(Number(t, p), {Reader!Blank})
         /\ Number(t, p).value = Reader!ValueOf(ds)
         /\ Number(t, p).pos = Reader!Behind(t, p + Len(ds))
<1>1. PICK c : c = Reader!At(t, p + Len(ds))
  OBVIOUS
<1>2. ~Reader!IsDigit(c) /\ c \in Reader!LineEnd /\ c # Reader!Blank
  <2>1. c = Reader!NL \/ c = Reader!Eof
    BY <1>1 DEF Reader!LineEnd
  <2>2. Reader!NL # Reader!Blank /\ Reader!Eof # Reader!Blank
    BY DEF Reader!NL, Reader!Eof, Reader!Blank
  <2> QED
    BY <1>1, <2>1, <2>2, NoDigits
<1>3. /\ Number(t, p).fits /\ Number(t, p).value = Reader!ValueOf(ds) /\ Number(t, p).next = c
      /\ Number(t, p).pos = Reader!Behind(t, p + Len(ds))
  BY <1>1, <1>2, NumberIsIts
<1> QED
  BY <1>2, <1>3 DEF Reader!EndsWith

(* parser.c:40-44. *)
LEMMA CleanupReaches ==
  ASSUME NEW t \in Text, NEW p, OnPlace(t, p), NEW e \in p .. Len(t) + 1,
         Reader!At(t, e) \in Reader!LineEnd, \A j \in p .. e - 1 : t[j] # Reader!NL
  PROVE  Reader!cleanup(t, p) = Reader!Behind(t, e)
<1> DEFINE S == {q \in p .. Len(t) : t[q] = Reader!NL} \cup {Len(t)}
<1>1. Len(t) \in Nat /\ p \in Nat /\ e \in Nat /\ p <= e /\ e <= Len(t) + 1
  BY DEF Text, OnPlace
<1>2. Reader!cleanup(t, p) = Reader!Min(S) + 1
  BY DEF Reader!cleanup
<1>3. CASE e <= Len(t)
  <2>1. t[e] = Reader!NL
    <3>1. t[e] # Reader!Eof
      BY <1>1, <1>3 DEF Text, OnPlace
    <3> QED
      BY <1>3, <3>1 DEF Reader!At, Reader!LineEnd
  <2>2. S \in SUBSET Nat /\ e \in S
    BY <1>1, <1>3, <2>1
  <2>3. \A n \in S : e <= n
    <3> SUFFICES ASSUME NEW n \in S, n < e PROVE FALSE
      BY <1>1, <2>2
    <3>1. n \in p .. e - 1 /\ t[n] = Reader!NL
      BY <1>1, <1>3
    <3> QED
      BY <3>1
  <2> HIDE DEF S
  <2>4. Reader!Min(S) = e
    BY <2>2, <2>3, MinIs
  <2> QED
    BY <1>2, <1>3, <2>4 DEF Reader!Behind
<1>4. CASE e = Len(t) + 1
  <2>1. S = {Len(t)}
    BY <1>1, <1>4
  <2>2. Len(t) \in S /\ S \in SUBSET Nat /\ \A n \in S : Len(t) <= n
    BY <1>1, <2>1
  <2> HIDE DEF S
  <2>3. Reader!Min(S) = Len(t)
    BY <2>2, MinIs
  <2> QED
    BY <1>1, <1>2, <1>4, <2>3 DEF Reader!Behind
<1> QED
  BY <1>1, <1>3, <1>4

(* A keyword and what follows it. *)
Keyed(k, args) == <<k>> \o (Keywords[k].rest \o args)
ArgsAt(k)      == 2 + Len(Keywords[k].rest)
Takes(k, op)   == ~Keywords[k].alone /\ Keywords[k].op = op

LEMMA KeyedParts ==
  ASSUME NEW k \in DOMAIN Keywords, NEW args \in String
  PROVE  /\ <<k>> \in String /\ Len(<<k>>) = 1
         /\ Keywords[k].rest \in String /\ Len(Keywords[k].rest) \in Nat
         /\ Keywords[k].rest \o args \in String
         /\ Keyed(k, args) \in String /\ Len(args) \in Nat
         /\ ArgsAt(k) \in Nat /\ Len(Keyed(k, args)) + 1 = ArgsAt(k) + Len(args)
<1>1. <<k>> \in String /\ Len(<<k>>) = 1
  <2>1. k \in Chars
    BY ReaderAssumption DEF Chars
  <2> QED
    BY <2>1 DEF String
<1>2. PICK r : r = Keywords[k].rest
  OBVIOUS
<1>3. r \in String
  <2>1. r \in Seq(STRING)
    BY <1>2, ReaderAssumption
  <2>2. STRING \subseteq Chars
    BY DEF Chars
  <2> QED
    BY <2>1, <2>2, SeqMonotonic DEF String
<1>4. r \o args \in String /\ Len(r) \in Nat /\ Len(args) \in Nat /\ Len(r \o args) = Len(r) + Len(args)
  BY <1>3, Appended
<1>5. <<k>> \o (r \o args) \in String /\ Len(<<k>> \o (r \o args)) = 1 + (Len(r) + Len(args))
  BY <1>1, <1>4, Appended
<1> QED
  BY <1>1, <1>2, <1>3, <1>4, <1>5 DEF Keyed, ArgsAt

(* parser.c:53-122: a keyword as it should be. *)
LEMMA KeywordRead ==
  ASSUME NEW k \in DOMAIN Keywords, NEW args \in String, NEW t \in Text,
         IsAt(Keyed(k, args), t, 1)
  PROVE  /\ OnPlace(t, ArgsAt(k)) /\ IsAt(args, t, ArgsAt(k))
         /\ ~Keywords[k].alone =>
              Reader!get_next(t, 1) = Reader!Result([op |-> Keywords[k].op], ArgsAt(k))
         /\ Keywords[k].alone /\ Reader!At(t, ArgsAt(k)) \in Reader!LineEnd =>
              Reader!get_next(t, 1)
                = Reader!Result([op |-> Keywords[k].op], Reader!Behind(t, ArgsAt(k)))
<1>1. PICK r, l, e : r = Keywords[k].rest /\ l = Len(r) /\ e = ArgsAt(k)
  OBVIOUS
<1>2. r \in String /\ l \in Nat /\ e = 2 + l /\ <<k>> \in String /\ Len(<<k>>) = 1 /\ r \o args \in String
  BY <1>1, KeyedParts DEF ArgsAt
<1>3. IsAt(<<k>>, t, 1) /\ IsAt(r \o args, t, 2)
  <2>1. IsAt(<<k>> \o (r \o args), t, 1)
    BY <1>1 DEF Keyed
  <2>2. IsAt(<<k>>, t, 1) /\ IsAt(r \o args, t, 1 + Len(<<k>>))
    <3>1. 1 \in Nat
      OBVIOUS
    <3> QED
      BY <1>2, <2>1, <3>1, PartsAreAt
  <2>3. 1 + Len(<<k>>) = 2
    BY <1>2
  <2> QED
    BY <2>2, <2>3
<1>4. 1 <= Len(t) /\ t[1] = k /\ Reader!At(t, 1) = k /\ k # Reader!Eof /\ Len(t) \in Nat
  BY <1>3, CharIsAt DEF Text
<1>5. IsAt(r, t, 2) /\ IsAt(args, t, e)
  <2>1. 2 \in Nat
    OBVIOUS
  <2> QED
    BY <1>1, <1>2, <1>3, <2>1, PartsAreAt
<1>6. OnPlace(t, 2)
  BY <1>4 DEF OnPlace
<1>7. OnPlace(t, e) /\ e <= Len(t) + 1
  <2>1. OnPlace(t, 2 + l)
    BY <1>1, <1>2, <1>5, <1>6, PlaceBehind
  <2> QED
    BY <1>2, <2>1, PlaceIs
<1>8. LastOf(t, 1, l) = 1 + l
  <2>1. 1 + l <= Len(t) /\ 1 \in Nat
    BY <1>2, <1>4, <1>7
  <2> QED
    BY <1>2, <1>4, <2>1, LastIs
<1>9. SubSeq(t, 2, 1 + l) = r
  <2>1. 1 + l \in Int /\ 1 + l = 2 + (Len(r) - 1)
    BY <1>1, <1>2
  <2>2. Piece(t, 2, 1 + l) = r
    BY <1>2, <1>5, <1>6, <2>1, PieceIs
  <2> QED
    BY <2>2 DEF Piece
<1>10. PICK word, g : word = Keywords[k] /\ g = Reader!Keyword(t, 1)
  OBVIOUS
<1>11. /\ ~word.alone => g = Reader!Result([op |-> word.op], e)
       /\ word.alone /\ Reader!At(t, e) \in Reader!LineEnd
            => g = Reader!Result([op |-> word.op], Reader!Behind(t, e))
  <2>1. PICK rest, end :
          /\ rest = SubSeq(t, 1 + 1, LastOf(t, 1, Len(Keywords[t[1]].rest))) /\ end = 1 + 1 + Len(rest)
    OBVIOUS
  <2> DEFINE w == Keywords[t[1]]
  <2>2. /\ rest = w.rest /\ ~w.alone => g = Reader!Result([op |-> w.op], end)
        /\ rest = w.rest /\ w.alone /\ Reader!At(t, end) \in Reader!LineEnd
             => g = Reader!Result([op |-> w.op], Reader!Behind(t, end))
    BY <1>10, <2>1, KeywordCases, Zenon
  <2>3. rest = r /\ end = e
    <3>1. Len(Keywords[t[1]].rest) = l /\ 1 + 1 = 2
      BY <1>1, <1>4
    <3>2. rest = r
      BY <1>8, <1>9, <2>1, <3>1
    <3> QED
      BY <1>1, <1>2, <2>1, <3>1, <3>2
  <2>4. w = word
    BY <1>4, <1>10
  <2> HIDE DEF w
  <2> QED
    BY <1>1, <1>10, <2>2, <2>3, <2>4
<1>12. Reader!get_next(t, 1) = g
  BY <1>4, <1>10, FirstCases
<1> QED
  BY <1>1, <1>5, <1>7, <1>10, <1>11, <1>12

(* A command with arguments is read by its parse function, from these on. *)
LEMMA ArgumentsRead ==
  ASSUME NEW k \in DOMAIN Keywords, NEW args \in String, NEW t \in Text,
         IsAt(Keyed(k, args), t, 1), ~Keywords[k].alone
  PROVE  /\ OnPlace(t, ArgsAt(k)) /\ IsAt(args, t, ArgsAt(k)) /\ ArgsAt(k) \in Nat
         /\ Len(Keyed(k, args)) + 1 = ArgsAt(k) + Len(args)
         /\ LET r == Reader!ReadCommand(t, 1, <<>>)
            IN  /\ Keywords[k].op = "create" => r = Reader!parse_create(t, ArgsAt(k), <<>>)
                /\ Keywords[k].op = "reserve" => r = Reader!parse_reserve(t, ArgsAt(k), <<>>)
                /\ Keywords[k].op = "show" => r = Reader!parse_show(t, ArgsAt(k), <<>>)
                /\ Keywords[k].op = "wait" => r = Reader!parse_wait(t, ArgsAt(k), <<>>)
<1>1. /\ OnPlace(t, ArgsAt(k)) /\ IsAt(args, t, ArgsAt(k))
      /\ Reader!get_next(t, 1) = Reader!Result([op |-> Keywords[k].op], ArgsAt(k))
  BY KeywordRead
<1>2. PICK n : n = Reader!get_next(t, 1)
  OBVIOUS
<1>3. n.command.op = Keywords[k].op /\ n.pos = ArgsAt(k)
  BY <1>1, <1>2 DEF Reader!Result
<1>4. LET r == Reader!ReadCommand(t, 1, <<>>)
      IN  /\ n.command.op = "create" => r = Reader!parse_create(t, n.pos, <<>>)
          /\ n.command.op = "reserve" => r = Reader!parse_reserve(t, n.pos, <<>>)
          /\ n.command.op = "show" => r = Reader!parse_show(t, n.pos, <<>>)
          /\ n.command.op = "wait" => r = Reader!parse_wait(t, n.pos, <<>>)
  BY <1>2, CommandCases
<1> QED
  BY <1>1, <1>3, <1>4, KeyedParts

-----------------------------------------------------------------------------
(* HELP: SHOW <event_id>. *)
IsShow(w, c) ==
  \E k \in DOMAIN Keywords, id \in Numbers :
    Takes(k, "show") /\ w = Keyed(k, id) /\ c = [op |-> "show", id |-> Reader!ValueOf(id)]

(* t has w at its beginning, and no more on this line. *)
Holds(t, w) == t \in Text /\ IsAt(w, t, 1) /\ Reader!At(t, Len(w) + 1) \in Reader!LineEnd

(* w is read as the command c, and nothing beyond the end of its line. *)
IsReadAs(w, t, c) ==
  Reader!ReadCommand(t, 1, <<>>) = Reader!Result(c, Reader!Behind(t, Len(w) + 1))

LEMMA ShowRead ==
  ASSUME NEW w, NEW c, IsShow(w, c), NEW t, Holds(t, w)
  PROVE  IsReadAs(w, t, c) /\ w \in String
<1>1. PICK k \in DOMAIN Keywords, id \in Numbers :
        Takes(k, "show") /\ w = Keyed(k, id) /\ c = [op |-> "show", id |-> Reader!ValueOf(id)]
  BY DEF IsShow
<1>2. id \in String
  BY NumbersAre
<1>3. PICK e, n : e = ArgsAt(k) /\ n = Number(t, e)
  OBVIOUS
<1>4. /\ OnPlace(t, e) /\ IsAt(id, t, e) /\ Len(w) + 1 = e + Len(id)
      /\ Reader!ReadCommand(t, 1, <<>>) = Reader!parse_show(t, e, <<>>)
  BY <1>1, <1>2, <1>3, ArgumentsRead DEF Takes, Holds
<1>5. /\ Reader!EndsWith(n, Reader!LineEnd) /\ n.value = Reader!ValueOf(id)
      /\ n.pos = Reader!Behind(t, Len(w) + 1)
  BY <1>3, <1>4, NumberEnds DEF Holds
<1>6. Reader!parse_show(t, e, <<>>) = Reader!Result([op |-> "show", id |-> n.value], n.pos)
  BY <1>3, <1>5 DEF Reader!parse_show, Number
<1>7. w \in String
  BY <1>1, <1>2, KeyedParts
<1> QED
  BY <1>1, <1>4, <1>5, <1>6, <1>7 DEF IsReadAs

(* HELP: WAIT <delay_ms> [thread_id]. *)
Then(ds, more) == ds \o (<<Reader!Blank>> \o more)
IsWait(w, c) ==
  \E k \in DOMAIN Keywords, delay \in Numbers :
    /\ Takes(k, "wait")
    /\ \/ w = Keyed(k, delay) /\ c = [op |-> "wait_all", delay |-> Reader!ValueOf(delay)]
       \/ \E thread \in Numbers :
            /\ w = Keyed(k, Then(delay, thread))
            /\ c = [op     |-> "wait_one", delay |-> Reader!ValueOf(delay),
                    thread |-> Reader!ValueOf(thread)]

LEMMA ThenIsString ==
  ASSUME NEW ds \in Numbers, NEW more \in String
  PROVE  Then(ds, more) \in String
<1>1. ds \in String /\ <<Reader!Blank>> \in String
  <2>1. Reader!Blank \in Chars
    BY DEF Chars
  <2> QED
    BY <2>1, NumbersAre DEF String
<1> QED
  BY <1>1, Appended DEF Then

(* A number, a blank, and what follows. *)
BlankFollows(t, p, n, ds, more) ==
  /\ Reader!EndsWith(n, {Reader!Blank}) /\ ~Reader!EndsWith(n, Reader!LineEnd)
  /\ n.value = Reader!ValueOf(ds) /\ OnPlace(t, n.pos) /\ IsAt(more, t, n.pos)
  /\ p + Len(Then(ds, more)) = n.pos + Len(more)

LEMMA NumberAndBlank ==
  ASSUME NEW ds \in Numbers, NEW more \in String, NEW t \in Text, NEW p, OnPlace(t, p),
         IsAt(Then(ds, more), t, p)
  PROVE  BlankFollows(t, p, Number(t, p), ds, more)
<1>1. PICK c, v, n : c = Reader!Blank /\ v = Then(ds, more) /\ n = Number(t, p)
  OBVIOUS
<1>2. c \in {Reader!Blank, Comma, RightParen} /\ v = ds \o (<<c>> \o more) /\ IsAt(v, t, p)
  BY <1>1 DEF Then
<1>3. Follows(t, p, n, c, v, ds, more)
  BY <1>1, <1>2, NumberThen
<1>4. c \notin Reader!LineEnd
  BY <1>1 DEF Reader!LineEnd, Reader!NL, Reader!Eof, Reader!Blank
<1> QED
  BY <1>1, <1>3, <1>4 DEF Follows, BlankFollows, Reader!EndsWith

LEMMA WaitRead ==
  ASSUME NEW w, NEW c, IsWait(w, c), NEW t, Holds(t, w)
  PROVE  IsReadAs(w, t, c) /\ w \in String
<1>0. t \in Text
  BY DEF Holds
<1>1. PICK k \in DOMAIN Keywords, delay \in Numbers :
        /\ Takes(k, "wait")
        /\ \/ w = Keyed(k, delay) /\ c = [op |-> "wait_all", delay |-> Reader!ValueOf(delay)]
           \/ \E thread \in Numbers :
                /\ w = Keyed(k, Then(delay, thread))
                /\ c = [op     |-> "wait_one", delay |-> Reader!ValueOf(delay),
                        thread |-> Reader!ValueOf(thread)]
  BY DEF IsWait
<1>2. PICK e, n, m, r : /\ e = ArgsAt(k) /\ n = Number(t, e) /\ m = Number(t, n.pos)
                        /\ r = Reader!parse_wait(t, e, <<>>)
  OBVIOUS
<1>3. CASE w = Keyed(k, delay) /\ c = [op |-> "wait_all", delay |-> Reader!ValueOf(delay)]
  <2>1. delay \in String
    BY NumbersAre
  <2>2. /\ OnPlace(t, e) /\ IsAt(delay, t, e) /\ Len(w) + 1 = e + Len(delay)
        /\ Reader!ReadCommand(t, 1, <<>>) = r
    BY <1>1, <1>2, <1>3, <2>1, ArgumentsRead DEF Takes, Holds
  <2>3. /\ Reader!EndsWith(n, Reader!LineEnd) /\ ~Reader!EndsWith(n, {Reader!Blank})
        /\ n.value = Reader!ValueOf(delay) /\ n.pos = Reader!Behind(t, Len(w) + 1)
    BY <1>2, <2>2, NumberEnds DEF Holds
  <2>4. r = Reader!Result([op |-> "wait_all", delay |-> n.value], n.pos)
    BY <1>2, <2>3, Zenon DEF Reader!parse_wait, Number
  <2>5. w \in String
    BY <1>3, <2>1, KeyedParts
  <2> QED
    BY <1>3, <2>2, <2>3, <2>4, <2>5 DEF IsReadAs
<1>4. CASE \E thread \in Numbers :
             /\ w = Keyed(k, Then(delay, thread))
             /\ c = [op     |-> "wait_one", delay |-> Reader!ValueOf(delay),
                     thread |-> Reader!ValueOf(thread)]
  <2>1. PICK thread \in Numbers :
             /\ w = Keyed(k, Then(delay, thread))
             /\ c = [op     |-> "wait_one", delay |-> Reader!ValueOf(delay),
                     thread |-> Reader!ValueOf(thread)]
    BY <1>4
  <2>2. thread \in String /\ Then(delay, thread) \in String
    BY NumbersAre, ThenIsString
  <2>3. /\ OnPlace(t, e) /\ IsAt(Then(delay, thread), t, e)
        /\ Len(w) + 1 = e + Len(Then(delay, thread))
        /\ Reader!ReadCommand(t, 1, <<>>) = r
    BY <1>1, <1>2, <2>1, <2>2, ArgumentsRead DEF Takes, Holds
  <2>35. BlankFollows(t, e, n, delay, thread)
    BY <1>2, <2>2, <2>3, <1>0, NumberAndBlank
  <2>4. /\ Reader!EndsWith(n, {Reader!Blank}) /\ ~Reader!EndsWith(n, Reader!LineEnd)
        /\ n.value = Reader!ValueOf(delay) /\ OnPlace(t, n.pos) /\ IsAt(thread, t, n.pos)
        /\ Len(w) + 1 = n.pos + Len(thread)
    BY <2>3, <2>35 DEF BlankFollows
  <2>5. /\ Reader!EndsWith(m, Reader!LineEnd) /\ m.value = Reader!ValueOf(thread)
        /\ m.pos = Reader!Behind(t, Len(w) + 1)
    BY <1>2, <2>4, NumberEnds DEF Holds
  <2>6. r = Reader!Result([op |-> "wait_one", delay |-> n.value, thread |-> m.value], m.pos)
    BY <1>2, <2>4, <2>5, Zenon DEF Reader!parse_wait, Number
  <2>7. w \in String
    BY <2>1, <2>2, KeyedParts
  <2> QED
    BY <2>1, <2>3, <2>4, <2>5, <2>6, <2>7 DEF IsReadAs
<1> QED
  BY <1>1, <1>3, <1>4

(* HELP: CREATE <event_id> <num_rows> <num_columns>. *)
IsCreate(w, c) ==
  \E k \in DOMAIN Keywords, id \in Numbers, rows \in Numbers, cols \in Numbers :
    /\ Takes(k, "create") /\ w = Keyed(k, Then(id, Then(rows, cols)))
    /\ c = [op |-> "create", id |-> Reader!ValueOf(id),
            dim |-> <<Reader!ValueOf(rows), Reader!ValueOf(cols)>>]

LEMMA CreateRead ==
  ASSUME NEW w, NEW c, IsCreate(w, c), NEW t, Holds(t, w)
  PROVE  IsReadAs(w, t, c) /\ w \in String
<1>0. t \in Text
  BY DEF Holds
<1>1. PICK k \in DOMAIN Keywords, id \in Numbers, rows \in Numbers, cols \in Numbers :
        /\ Takes(k, "create") /\ w = Keyed(k, Then(id, Then(rows, cols)))
        /\ c = [op |-> "create", id |-> Reader!ValueOf(id),
                dim |-> <<Reader!ValueOf(rows), Reader!ValueOf(cols)>>]
  BY DEF IsCreate
<1>2. PICK e, n, m, o, r :
        /\ e = ArgsAt(k) /\ n = Number(t, e) /\ m = Number(t, n.pos) /\ o = Number(t, m.pos)
        /\ r = Reader!parse_create(t, e, <<>>)
  OBVIOUS
<1>3. PICK more : more = Then(rows, cols)
  OBVIOUS
<1>4. cols \in String /\ more \in String /\ Then(id, more) \in String
  BY <1>3, NumbersAre, ThenIsString
<1>5. /\ OnPlace(t, e) /\ IsAt(Then(id, more), t, e) /\ Len(w) + 1 = e + Len(Then(id, more))
      /\ Reader!ReadCommand(t, 1, <<>>) = r
  BY <1>1, <1>2, <1>3, <1>4, ArgumentsRead DEF Takes, Holds
<1>55. BlankFollows(t, e, n, id, more)
  BY <1>2, <1>4, <1>5, <1>0, NumberAndBlank
<1>6. /\ Reader!EndsWith(n, {Reader!Blank}) /\ n.value = Reader!ValueOf(id)
      /\ OnPlace(t, n.pos) /\ IsAt(Then(rows, cols), t, n.pos)
      /\ Len(w) + 1 = n.pos + Len(Then(rows, cols))
  BY <1>3, <1>5, <1>55 DEF BlankFollows
<1>65. BlankFollows(t, n.pos, m, rows, cols)
  BY <1>2, <1>4, <1>6, <1>0, NumberAndBlank
<1>7. /\ Reader!EndsWith(m, {Reader!Blank}) /\ m.value = Reader!ValueOf(rows)
      /\ OnPlace(t, m.pos) /\ IsAt(cols, t, m.pos) /\ Len(w) + 1 = m.pos + Len(cols)
  BY <1>6, <1>65 DEF BlankFollows
<1>8. /\ Reader!EndsWith(o, Reader!LineEnd) /\ o.value = Reader!ValueOf(cols)
      /\ o.pos = Reader!Behind(t, Len(w) + 1)
  BY <1>2, <1>7, NumberEnds DEF Holds
<1>9. r = Reader!Result([op |-> "create", id |-> n.value, dim |-> <<m.value, o.value>>], o.pos)
  BY <1>2, <1>6, <1>7, <1>8, Zenon DEF Reader!parse_create, Number
<1>10. w \in String
  BY <1>1, <1>3, <1>4, KeyedParts
<1> QED
  BY <1>1, <1>5, <1>6, <1>7, <1>8, <1>9, <1>10 DEF IsReadAs

(* HELP: LIST, BARRIER, HELP. *)
IsAlone(w, c) ==
  \E k \in DOMAIN Keywords :
    /\ Keywords[k].alone /\ Keywords[k].op \notin {"create", "reserve", "show", "wait"}
    /\ w = Keyed(k, <<>>) /\ c = [op |-> Keywords[k].op]

LEMMA AloneRead ==
  ASSUME NEW w, NEW c, IsAlone(w, c), NEW t, Holds(t, w)
  PROVE  IsReadAs(w, t, c) /\ w \in String
<1>1. PICK k \in DOMAIN Keywords :
        /\ Keywords[k].alone /\ Keywords[k].op \notin {"create", "reserve", "show", "wait"}
        /\ w = Keyed(k, <<>>) /\ c = [op |-> Keywords[k].op]
  BY DEF IsAlone
<1>2. <<>> \in String
  BY DEF String
<1>3. w \in String /\ Len(w) + 1 = ArgsAt(k)
  <2>1. /\ Keyed(k, <<>>) \in String /\ ArgsAt(k) \in Nat
        /\ Len(Keyed(k, <<>>)) + 1 = ArgsAt(k) + Len(<<>>)
    BY <1>2, KeyedParts
  <2> QED
    BY <1>1, <2>1
<1>4. Reader!get_next(t, 1) = Reader!Result(c, Reader!Behind(t, Len(w) + 1))
  BY <1>1, <1>2, <1>3, KeywordRead DEF Holds
<1>5. Reader!Result(c, Reader!Behind(t, Len(w) + 1)).command.op = Keywords[k].op
  BY <1>1 DEF Reader!Result
<1>6. Reader!ReadCommand(t, 1, <<>>) = Reader!get_next(t, 1)
  BY <1>1, <1>4, <1>5, CommandCases
<1> QED
  BY <1>3, <1>4, <1>6 DEF IsReadAs

-----------------------------------------------------------------------------
(* A comment, an empty line, and a line that begins like no command at all.   *)
HasNoLine(v)    == v \in Seq(STRING) /\ \A n \in 1 .. Len(v) : v[n] # Reader!NL
IsComment(w, c) == \E v : HasNoLine(v) /\ w = <<Hash>> \o v /\ c = [op |-> "empty"]
IsEmpty(w, c)   == w = <<>> /\ c = [op |-> "empty"]
IsUnknown(w, c) ==
  \E a \in STRING : \E v :
    /\ HasNoLine(v) /\ a \notin DOMAIN Keywords \cup {Hash, Reader!NL}
    /\ w = <<a>> \o v /\ c = [op |-> "invalid"]

(* parser.c:40-44: what is behind the first character is dropped. *)
LEMMA RestDropped ==
  ASSUME NEW a \in Chars, NEW v, HasNoLine(v), NEW w, w = <<a>> \o v, NEW t, Holds(t, w)
  PROVE  /\ w \in String /\ Reader!At(t, 1) = a /\ a # Reader!Eof
         /\ Reader!cleanup(t, 2) = Reader!Behind(t, Len(w) + 1)
<1>1. v \in String /\ <<a>> \in String /\ Len(<<a>>) = 1 /\ Len(v) \in Nat
  <2>1. v \in Seq(STRING) /\ STRING \subseteq Chars
    BY DEF HasNoLine, Chars
  <2>2. v \in String
    BY <2>1, SeqMonotonic DEF String
  <2> QED
    BY <2>2 DEF String
<1>2. w \in String /\ Len(w) = 1 + Len(v)
  BY <1>1, Appended
<1>3. t \in Text /\ IsAt(w, t, 1) /\ Reader!At(t, Len(w) + 1) \in Reader!LineEnd
  BY DEF Holds
<1>4. IsAt(<<a>>, t, 1) /\ IsAt(v, t, 2)
  <2>1. 1 \in Nat
    OBVIOUS
  <2>2. IsAt(<<a>>, t, 1) /\ IsAt(v, t, 1 + Len(<<a>>))
    BY <1>1, <1>3, <2>1, PartsAreAt
  <2>3. 1 + Len(<<a>>) = 2
    BY <1>1
  <2> QED
    BY <2>2, <2>3
<1>5. 1 <= Len(t) /\ Reader!At(t, 1) = a /\ a # Reader!Eof /\ Len(t) \in Nat
  BY <1>3, <1>4, CharIsAt DEF Text
<1>6. OnPlace(t, 2)
  BY <1>5 DEF OnPlace
<1>7. PICK e : e = 2 + Len(v)
  OBVIOUS
<1>8. OnPlace(t, e) /\ e = Len(w) + 1 /\ e \in 2 .. Len(t) + 1
  <2>1. OnPlace(t, e)
    BY <1>1, <1>3, <1>4, <1>6, <1>7, PlaceBehind
  <2> QED
    BY <1>1, <1>2, <1>3, <1>7, <2>1, PlaceIs
<1>9. \A j \in 2 .. e - 1 : t[j] # Reader!NL
  <2> TAKE j \in 2 .. e - 1
  <2>1. j - 1 \in 1 .. Len(v) /\ 2 + ((j - 1) - 1) = j
    BY <1>1, <1>7
  <2>2. t[j] = v[j - 1]
    BY <1>4, <2>1 DEF IsAt
  <2> QED
    BY <2>1, <2>2 DEF HasNoLine
<1>10. Reader!cleanup(t, 2) = Reader!Behind(t, e)
  BY <1>3, <1>6, <1>8, <1>9, CleanupReaches
<1> QED
  BY <1>2, <1>5, <1>8, <1>10

LEMMA FirstIsAll ==
  ASSUME NEW t, NEW c, NEW p, Reader!get_next(t, 1) = Reader!Result(c, p),
         c.op \notin {"create", "reserve", "show", "wait"}
  PROVE  Reader!ReadCommand(t, 1, <<>>) = Reader!Result(c, p)
<1>1. Reader!get_next(t, 1).command.op = c.op
  BY DEF Reader!Result
<1> QED
  BY <1>1, CommandCases

LEMMA CommentRead ==
  ASSUME NEW w, NEW c, IsComment(w, c), NEW t, Holds(t, w)
  PROVE  IsReadAs(w, t, c) /\ w \in String
<1>1. PICK v : HasNoLine(v) /\ w = <<Hash>> \o v /\ c = [op |-> "empty"]
  BY DEF IsComment
<1>2. Hash \in Chars /\ Hash = "#" /\ Hash \notin DOMAIN Keywords
  BY ReaderAssumption DEF Chars, Hash
<1>3. /\ w \in String /\ Reader!At(t, 1) = Hash /\ Hash # Reader!Eof
      /\ Reader!cleanup(t, 2) = Reader!Behind(t, Len(w) + 1)
  BY <1>1, <1>2, RestDropped
<1>4. Reader!get_next(t, 1) = Reader!Result([op |-> "empty"], Reader!cleanup(t, 1 + 1))
  BY <1>2, <1>3, FirstCases, Zenon
<1>5. Reader!get_next(t, 1) = Reader!Result(c, Reader!Behind(t, Len(w) + 1))
  BY <1>1, <1>3, <1>4
<1>6. c.op \notin {"create", "reserve", "show", "wait"}
  BY <1>1
<1> QED
  BY <1>3, <1>5, <1>6, FirstIsAll DEF IsReadAs

LEMMA UnknownRead ==
  ASSUME NEW w, NEW c, IsUnknown(w, c), NEW t, Holds(t, w)
  PROVE  IsReadAs(w, t, c) /\ w \in String
<1>1. PICK a \in STRING : \E v :
        /\ HasNoLine(v) /\ a \notin DOMAIN Keywords \cup {Hash, Reader!NL}
        /\ w = <<a>> \o v /\ c = [op |-> "invalid"]
  BY DEF IsUnknown
<1>15. PICK v :
        /\ HasNoLine(v) /\ a \notin DOMAIN Keywords \cup {Hash, Reader!NL}
        /\ w = <<a>> \o v /\ c = [op |-> "invalid"]
  BY <1>1
<1>2. a \in Chars
  BY DEF Chars
<1>3. /\ w \in String /\ Reader!At(t, 1) = a /\ a # Reader!Eof
      /\ Reader!cleanup(t, 2) = Reader!Behind(t, Len(w) + 1)
  BY <1>15, <1>2, RestDropped
<1>4. a \notin DOMAIN Keywords /\ a # "#" /\ a # Reader!NL
  BY <1>15 DEF Hash
<1>5. Reader!get_next(t, 1) = Reader!Invalid(t, 1 + 1)
  BY <1>3, <1>4, FirstCases, Zenon
<1>6. Reader!get_next(t, 1) = Reader!Result(c, Reader!Behind(t, Len(w) + 1))
  BY <1>15, <1>3, <1>5 DEF Reader!Invalid
<1>7. c.op \notin {"create", "reserve", "show", "wait"}
  BY <1>15
<1> QED
  BY <1>3, <1>6, <1>7, FirstIsAll DEF IsReadAs

LEMMA EmptyRead ==
  ASSUME NEW w, NEW c, IsEmpty(w, c), NEW t, Holds(t, w), Reader!At(t, Len(w) + 1) = Reader!NL
  PROVE  IsReadAs(w, t, c) /\ w \in String
<1>1. w = <<>> /\ c = [op |-> "empty"] /\ Len(w) + 1 = 1 /\ w \in String
  BY DEF IsEmpty, String
<1>2. Reader!At(t, 1) = Reader!NL /\ Reader!NL # Reader!Eof /\ Reader!NL # "#"
      /\ Reader!NL \notin DOMAIN Keywords
  BY <1>1, ReaderAssumption DEF Reader!NL, Reader!Eof
<1>3. Reader!get_next(t, 1) = Reader!Result([op |-> "empty"], 1 + 1)
  BY <1>2, FirstCases, Zenon
<1>4. Reader!Behind(t, 1) = 1 + 1
  BY <1>2 DEF Reader!At, Reader!Behind
<1>5. c.op \notin {"create", "reserve", "show", "wait"}
  BY <1>1
<1> QED
  BY <1>1, <1>3, <1>4, <1>5, FirstIsAll DEF IsReadAs

(* HELP: RESERVE <event_id> [(<x1>,<y1>) (<x2>,<y2>) ...].                   *)
Seat(x, y, sep) ==
  <<LeftParen>> \o (x \o (<<Comma>> \o (y \o (<<RightParen>> \o <<sep>>))))
Seats           == [x : Numbers, y : Numbers]
SepOf(ss, n)    == IF n < Len(ss) THEN Reader!Blank ELSE RightBracket
SeatTexts(ss)   == [n \in 1 .. Len(ss) |-> [text |-> Seat(ss[n].x, ss[n].y, SepOf(ss, n))]]
List(ss)        == <<LeftBracket>> \o TextOf(SeatTexts(ss))
SeatValues(ss)  == [n \in 1 .. Len(ss) |-> <<Reader!ValueOf(ss[n].x), Reader!ValueOf(ss[n].y)>>]
IsReserve(w, c) ==
  \E k \in DOMAIN Keywords, id \in Numbers, ss \in Seq(Seats) :
    /\ Takes(k, "reserve") /\ 1 <= Len(ss) /\ Len(ss) < MaxCoords
    /\ w = Keyed(k, Then(id, List(ss)))
    /\ c = [op |-> "reserve", id |-> Reader!ValueOf(id), seats |-> SeatValues(ss)]

LEMMA OneChar ==
  ASSUME NEW c \in {Reader!Blank, Comma, LeftParen, RightParen, LeftBracket, RightBracket}
  PROVE  <<c>> \in String /\ Len(<<c>>) = 1
<1>1. c \in Chars
  BY DEF Chars
<1> QED
  BY <1>1 DEF String

(* How a seat is put together. *)
LEMMA SeatIsString ==
  ASSUME NEW x \in Numbers, NEW y \in Numbers, NEW sep \in {Reader!Blank, RightBracket}
  PROVE  /\ Seat(x, y, sep) \in String /\ Len(Seat(x, y, sep)) \in Nat
         /\ <<RightParen>> \o <<sep>> \in String
         /\ y \o (<<RightParen>> \o <<sep>>) \in String
         /\ <<Comma>> \o (y \o (<<RightParen>> \o <<sep>>)) \in String
         /\ x \o (<<Comma>> \o (y \o (<<RightParen>> \o <<sep>>))) \in String
         /\ Len(Seat(x, y, sep)) = 1 + Len(x \o (<<Comma>> \o (y \o (<<RightParen>> \o <<sep>>))))
<1>1. /\ x \in String /\ y \in String /\ <<sep>> \in String /\ <<RightParen>> \in String
      /\ <<Comma>> \in String /\ <<LeftParen>> \in String /\ Len(<<LeftParen>>) = 1
  BY NumbersAre, OneChar
<1>2. PICK a : a = <<RightParen>> \o <<sep>>
  OBVIOUS
<1>3. a \in String
  BY <1>1, <1>2, Appended
<1>4. y \o a \in String
  BY <1>1, <1>3, Appended
<1>5. <<Comma>> \o (y \o a) \in String
  BY <1>1, <1>4, Appended
<1>6. x \o (<<Comma>> \o (y \o a)) \in String
  BY <1>1, <1>5, Appended
<1>7. PICK b : b = x \o (<<Comma>> \o (y \o a))
  OBVIOUS
<1>8. <<LeftParen>> \o b \in String /\ Len(<<LeftParen>> \o b) = 1 + Len(b) /\ Len(<<LeftParen>> \o b) \in Nat
  BY <1>1, <1>6, <1>7, Appended
<1> QED
  BY <1>2, <1>3, <1>4, <1>5, <1>6, <1>7, <1>8, Zenon DEF Seat

AtOf(sep) == IF sep = Reader!Blank THEN "next" ELSE "closed"

(* parser.c:176-206: a round of the loop reads a seat. *)
LEMMA SeatRead ==
  ASSUME NEW x \in Numbers, NEW y \in Numbers, NEW sep \in {Reader!Blank, RightBracket},
         NEW t \in Text, NEW p, OnPlace(t, p), IsAt(Seat(x, y, sep), t, p), NEW cs
  PROVE  /\ Reader!Coordinate(t, State("next", p, cs), <<>>)
              = State(AtOf(sep), p + Len(Seat(x, y, sep)),
                      Append(cs, <<Reader!ValueOf(x), Reader!ValueOf(y)>>))
         /\ OnPlace(t, p + Len(Seat(x, y, sep)))
<1>1. PICK ys, xs : /\ ys = y \o (<<RightParen>> \o <<sep>>)
                    /\ xs = x \o (<<Comma>> \o ys)
  OBVIOUS
<1>2. /\ <<sep>> \in String /\ ys \in String /\ xs \in String /\ Seat(x, y, sep) = <<LeftParen>> \o xs
      /\ Len(Seat(x, y, sep)) = 1 + Len(xs) /\ <<LeftParen>> \in String /\ Len(<<LeftParen>>) = 1
      /\ Len(<<sep>>) = 1 /\ Len(xs) \in Nat
  <2>1. <<sep>> \in String /\ <<LeftParen>> \in String /\ Len(<<LeftParen>>) = 1 /\ Len(<<sep>>) = 1
    BY OneChar
  <2>2. Seat(x, y, sep) = <<LeftParen>> \o xs
    BY <1>1, Zenon DEF Seat
  <2>3. ys \in String /\ xs \in String /\ Len(Seat(x, y, sep)) = 1 + Len(xs)
    BY <1>1, SeatIsString, Zenon
  <2>4. Len(xs) \in Nat
    BY <2>3 DEF String
  <2> QED
    BY <2>1, <2>2, <2>3, <2>4
<1>3. p \in Nat /\ IsAt(<<LeftParen>>, t, p) /\ IsAt(xs, t, p + 1)
  <2>1. p \in Nat
    BY PlaceIs
  <2>2. IsAt(<<LeftParen>> \o xs, t, p)
    BY <1>2
  <2> QED
    BY <1>2, <2>1, <2>2, PartsAreAt
<1>4. /\ Reader!At(t, p) = LeftParen /\ Reader!Behind(t, p) = p + 1 /\ OnPlace(t, p + 1)
  <2>1. p <= Len(t) /\ Reader!At(t, p) = LeftParen /\ Reader!Behind(t, p) = p + 1
    BY <1>3, CharIsAt
  <2>2. p + 1 \in Nat /\ p + 1 >= 1 /\ p + 1 <= Len(t) + 1 /\ Len(t) \in Nat
    BY <1>3, <2>1, PlaceIs
  <2> QED
    BY <2>1, <2>2 DEF OnPlace
<1>5. PICK n, m : n = Number(t, p + 1) /\ m = Number(t, n.pos)
  OBVIOUS
<1>6. Follows(t, p + 1, n, Comma, xs, x, ys)
  BY <1>1, <1>2, <1>3, <1>4, <1>5, NumberThen
<1>7. /\ Reader!EndsWith(n, {Comma}) /\ n.value = Reader!ValueOf(x)
      /\ OnPlace(t, n.pos) /\ IsAt(ys, t, n.pos) /\ p + 1 + Len(xs) = n.pos + Len(ys)
  BY <1>6 DEF Follows
<1>8. Follows(t, n.pos, m, RightParen, ys, y, <<sep>>)
  BY <1>1, <1>2, <1>5, <1>7, NumberThen
<1>9. /\ Reader!EndsWith(m, {RightParen}) /\ m.value = Reader!ValueOf(y)
      /\ OnPlace(t, m.pos) /\ IsAt(<<sep>>, t, m.pos) /\ n.pos + Len(ys) = m.pos + 1
  BY <1>2, <1>8 DEF Follows
<1>10. /\ Reader!At(t, m.pos) = sep /\ Reader!Behind(t, m.pos) = m.pos + 1 /\ OnPlace(t, m.pos + 1)
  <2>0. m.pos \in Nat
    BY <1>9, PlaceIs
  <2>1. m.pos <= Len(t) /\ Reader!At(t, m.pos) = sep /\ Reader!Behind(t, m.pos) = m.pos + 1
    BY <1>9, <2>0, CharIsAt
  <2>2. m.pos + 1 \in Nat /\ m.pos + 1 >= 1 /\ m.pos + 1 <= Len(t) + 1 /\ Len(t) \in Nat
    BY <2>0, <2>1, <1>9, PlaceIs
  <2> QED
    BY <2>1, <2>2 DEF OnPlace
<1>11. m.pos + 1 = p + Len(Seat(x, y, sep))
  <2>1. PICK l \in Nat : l = Len(xs)
    BY <1>2
  <2> QED
    BY <1>2, <1>3, <1>7, <1>9, <2>1
<1>12. Following(sep) = AtOf(sep)
  <2>1. sep = Reader!Blank \/ sep = "]"
    BY DEF RightBracket
  <2>2. Reader!Blank # "]"
    BY DEF Reader!Blank
  <2> QED
    BY <2>1, <2>2, Zenon DEF Following, AtOf
<1>13. PICK b : b = State("next", p, cs)
  OBVIOUS
<1>14. b.pos = p /\ b.coords = cs /\ IsState(b)
  BY <1>13, StateFields
<1>15. LET u == Number(t, Reader!Behind(t, b.pos))
           v == Number(t, u.pos)
       IN  Reader!At(t, b.pos) = "(" /\ Reader!EndsWith(u, {","}) /\ Reader!EndsWith(v, {")"}) =>
             Reader!Coordinate(t, b, <<>>)
               = State(Following(Reader!At(t, v.pos)), Reader!Behind(t, v.pos),
                       Append(b.coords, <<u.value, v.value>>))
  BY <1>14, RoundCases, Zenon
<1>16. LET u == Number(t, Reader!Behind(t, b.pos))
           v == Number(t, u.pos)
       IN  Reader!At(t, b.pos) = LeftParen /\ Reader!EndsWith(u, {Comma}) /\ Reader!EndsWith(v, {RightParen}) =>
             Reader!Coordinate(t, b, <<>>)
               = State(Following(Reader!At(t, v.pos)), Reader!Behind(t, v.pos),
                       Append(b.coords, <<u.value, v.value>>))
  BY <1>15, Zenon DEF LeftParen, Comma, RightParen
<1>17. n = Number(t, Reader!Behind(t, b.pos))
  BY <1>4, <1>5, <1>14
<1>18. Reader!Coordinate(t, b, <<>>)
         = State(Following(sep), m.pos + 1, Append(cs, <<n.value, m.value>>))
  BY <1>4, <1>5, <1>7, <1>9, <1>10, <1>14, <1>16, <1>17
<1>19. Reader!Coordinate(t, b, <<>>)
         = State(AtOf(sep), p + Len(Seat(x, y, sep)), Append(cs, <<Reader!ValueOf(x), Reader!ValueOf(y)>>))
  BY <1>7, <1>9, <1>11, <1>12, <1>18
<1> QED
  BY <1>10, <1>11, <1>13, <1>19

LEMMA SeatsAre ==
  ASSUME NEW ss \in Seq(Seats), NEW n \in 1 .. Len(ss)
  PROVE  /\ Len(ss) \in Nat /\ ss[n].x \in Numbers /\ ss[n].y \in Numbers
         /\ SepOf(ss, n) \in {Reader!Blank, RightBracket}
<1>1. Len(ss) \in Nat /\ ss[n] \in Seats
  OBVIOUS
<1>2. ss[n].x \in Numbers /\ ss[n].y \in Numbers
  BY <1>1 DEF Seats
<1>3. SepOf(ss, n) \in {Reader!Blank, RightBracket}
  BY Zenon DEF SepOf
<1> QED
  BY <1>1, <1>2, <1>3

LEMMA SeatsConsist ==
  ASSUME NEW ss \in Seq(Seats)
  PROVE  /\ Consist(SeatTexts(ss), Chars) /\ Len(SeatTexts(ss)) = Len(ss) /\ Len(ss) \in Nat
         /\ \A n \in 1 .. Len(ss) : SeatTexts(ss)[n].text = Seat(ss[n].x, ss[n].y, SepOf(ss, n))
<1>1. \A n \in 1 .. Len(ss) :
        /\ SeatTexts(ss)[n].text = Seat(ss[n].x, ss[n].y, SepOf(ss, n))
        /\ SeatTexts(ss)[n].text \in Seq(Chars)
  <2> TAKE n \in 1 .. Len(ss)
  <2>1. SeatTexts(ss)[n].text = Seat(ss[n].x, ss[n].y, SepOf(ss, n))
    BY DEF SeatTexts
  <2>2. Seat(ss[n].x, ss[n].y, SepOf(ss, n)) \in Seq(Chars)
    BY SeatsAre, SeatIsString DEF String
  <2> QED
    BY <2>1, <2>2
<1>2. Len(ss) \in Nat /\ DOMAIN SeatTexts(ss) = 1 .. Len(ss)
  BY DEF SeatTexts
<1>3. Len(SeatTexts(ss)) = Len(ss)
  <2>1. PICK l \in Nat : l = Len(ss)
    BY <1>2
  <2>2. SeatTexts(ss) = [n \in 1 .. l |-> [text |-> Seat(ss[n].x, ss[n].y, SepOf(ss, n))]]
    BY <2>1 DEF SeatTexts
  <2> QED
    BY <2>1, <2>2
<1> QED
  BY <1>1, <1>2, <1>3 DEF Consist

(* What has been read after n seats. *)
ValuesTo(ss, n) == [k \in 1 .. n |-> <<Reader!ValueOf(ss[k].x), Reader!ValueOf(ss[k].y)>>]
LoopAt(ss, n)   == IF n < Len(ss) THEN "next" ELSE "closed"

LEMMA OneMore ==
  ASSUME NEW ss, NEW n \in Nat, n > 0
  PROVE  Append(ValuesTo(ss, n - 1), <<Reader!ValueOf(ss[n].x), Reader!ValueOf(ss[n].y)>>)
           = ValuesTo(ss, n)
<1> DEFINE v(k) == <<Reader!ValueOf(ss[k].x), Reader!ValueOf(ss[k].y)>>
           S == {v(k) : k \in 1 .. n}
<1>1. PICK a, b : a = ValuesTo(ss, n - 1) /\ b = ValuesTo(ss, n)
  OBVIOUS
<1>2. a = [k \in 1 .. n - 1 |-> v(k)] /\ b = [k \in 1 .. n |-> v(k)]
  BY <1>1 DEF ValuesTo
<1>3. n \in 1 .. n /\ \A k \in 1 .. n - 1 : k \in 1 .. n
  OBVIOUS
<1>4. v(n) \in S /\ \A k \in 1 .. n : v(k) \in S
  BY <1>3
<1> HIDE DEF v, S
<1>5. a \in Seq(S) /\ Len(a) = n - 1 /\ b \in Seq(S) /\ Len(b) = n
  BY <1>2, <1>3, <1>4
<1>6. PICK c : c = Append(a, v(n))
  OBVIOUS
<1>7. /\ c \in Seq(S) /\ Len(c) = n /\ c[n] = v(n)
      /\ \A k \in 1 .. n - 1 : c[k] = a[k]
  <2>1. /\ c \in Seq(S) /\ Len(c) = Len(a) + 1
        /\ \A k \in 1 .. Len(a) : c[k] = a[k]
        /\ c[Len(a) + 1] = v(n)
    BY <1>4, <1>5, <1>6, AppendProperties
  <2>2. (n - 1) + 1 = n
    OBVIOUS
  <2> QED
    BY <1>5, <2>1, <2>2
<1>8. \A k \in 1 .. Len(c) : c[k] = b[k]
  <2> TAKE k \in 1 .. Len(c)
  <2>1. k = n \/ k \in 1 .. n - 1
    BY <1>7
  <2> QED
    BY <1>2, <1>3, <1>7, <2>1
<1>9. c = b
  BY <1>5, <1>7, <1>8, SeqEqual
<1> QED
  BY <1>1, <1>6, <1>9 DEF v

(* Where a seat stands in the list. *)
LEMMA SeatStands ==
  ASSUME NEW ss \in Seq(Seats), NEW n \in 1 .. Len(ss), NEW t \in Text, NEW p \in Nat,
         IsAt(TextOf(SeatTexts(ss)), t, p)
  PROVE  /\ IsAt(Seat(ss[n].x, ss[n].y, SepOf(ss, n)), t, p + EndOf(SeatTexts(ss), n - 1))
         /\ p + EndOf(SeatTexts(ss), n) = (p + EndOf(SeatTexts(ss), n - 1))
              + Len(Seat(ss[n].x, ss[n].y, SepOf(ss, n)))
<1>1. PICK ls, w, s : /\ ls = SeatTexts(ss) /\ w = TextOf(ls)
                      /\ s = Seat(ss[n].x, ss[n].y, SepOf(ss, n))
  OBVIOUS
<1>2. Consist(ls, Chars) /\ n \in 1 .. Len(ls) /\ ls[n].text = s
  BY <1>1, SeatsConsist
<1>3. PICK d, e, l : d = EndOf(ls, n - 1) /\ e = EndOf(ls, n) /\ l = Len(s)
  OBVIOUS
<1>4. /\ w \in Seq(Chars) /\ d \in Nat /\ e = d + l /\ e <= Len(w)
      /\ \A k \in 1 .. l : w[d + k] = s[k]
  BY <1>1, <1>2, <1>3, PartStands
<1>5. s \in String
  BY <1>1, SeatsAre, SeatIsString
<1>6. l \in Nat /\ Len(w) \in Nat
  BY <1>3, <1>4, <1>5 DEF String
<1>7. IsAt(s, t, p + d)
  <2> SUFFICES ASSUME NEW k \in 1 .. l
               PROVE  (p + d) + (k - 1) \in 1 .. Len(t) /\ t[(p + d) + (k - 1)] = s[k]
    BY <1>3 DEF IsAt
  <2>1. d + k \in 1 .. Len(w)
    BY <1>4, <1>6, Between
  <2>2. p + ((d + k) - 1) \in 1 .. Len(t) /\ t[p + ((d + k) - 1)] = w[d + k]
    BY <1>1, <2>1 DEF IsAt
  <2>3. p + ((d + k) - 1) = (p + d) + (k - 1)
    BY <1>4, <1>6
  <2> QED
    BY <1>4, <2>2, <2>3
<1>8. p + e = (p + d) + l
  BY <1>4, <1>6
<1> QED
  BY <1>1, <1>3, <1>7, <1>8

(* The state of the loop after n rounds. *)
RoundsDone(ss, t, p, n) ==
  /\ Loop(t, p)[n] = State(LoopAt(ss, n), p + EndOf(SeatTexts(ss), n), ValuesTo(ss, n))
  /\ OnPlace(t, p + EndOf(SeatTexts(ss), n))

LEMMA RoundsBegin ==
  ASSUME NEW ss \in Seq(Seats), 1 <= Len(ss), NEW t \in Text, NEW p, OnPlace(t, p)
  PROVE  RoundsDone(ss, t, p, 0)
<1>1. Len(SeatTexts(ss)) \in Nat /\ Len(ss) \in Nat /\ p \in Nat
  BY SeatsConsist, PlaceIs
<1>2. Upto(SeatTexts(ss))[0] = <<>>
  BY <1>1, UptoGoesOn
<1>3. p + EndOf(SeatTexts(ss), 0) = p
  BY <1>1, <1>2 DEF EndOf
<1>4. ValuesTo(ss, 0) = <<>>
  BY DEF ValuesTo
<1>5. LoopAt(ss, 0) = "next"
  BY <1>1 DEF LoopAt
<1>6. Loop(t, p)[0] = State("next", p, <<>>)
  BY LoopGoesOn
<1> QED
  BY <1>3, <1>4, <1>5, <1>6 DEF RoundsDone

LEMMA RoundDone ==
  ASSUME NEW ss \in Seq(Seats), Len(ss) <= MaxCoords, NEW t \in Text, NEW p, OnPlace(t, p),
         IsAt(TextOf(SeatTexts(ss)), t, p), NEW n \in 1 .. Len(ss), RoundsDone(ss, t, p, n - 1)
  PROVE  RoundsDone(ss, t, p, n)
<1>1. PICK x, y, sep, q, cs : /\ x = ss[n].x /\ y = ss[n].y /\ sep = SepOf(ss, n)
                              /\ q = p + EndOf(SeatTexts(ss), n - 1) /\ cs = ValuesTo(ss, n - 1)
  OBVIOUS
<1>2. /\ x \in Numbers /\ y \in Numbers /\ sep \in {Reader!Blank, RightBracket} /\ Len(ss) \in Nat
      /\ p \in Nat
  BY <1>1, SeatsAre, PlaceIs
<1>3. IsAt(Seat(x, y, sep), t, q) /\ p + EndOf(SeatTexts(ss), n) = q + Len(Seat(x, y, sep))
  BY <1>1, <1>2, SeatStands
<1>4. OnPlace(t, q) /\ Loop(t, p)[n - 1] = State(LoopAt(ss, n - 1), q, cs)
  BY <1>1 DEF RoundsDone
<1>5. LoopAt(ss, n - 1) = "next"
  BY <1>2 DEF LoopAt
<1>6. Loop(t, p)[n] = Reader!Coordinate(t, State("next", q, cs), <<>>)
  <2>1. n \in 1 .. MaxCoords
    BY <1>2, LoopGoesOn
  <2>2. Loop(t, p)[n] = Again(t, State("next", q, cs))
    BY <1>4, <1>5, <2>1, LoopGoesOn
  <2>3. State("next", q, cs).at = "next"
    BY StateFields
  <2> QED
    BY <2>2, <2>3 DEF Again
<1>7. /\ Reader!Coordinate(t, State("next", q, cs), <<>>)
           = State(AtOf(sep), q + Len(Seat(x, y, sep)),
                   Append(cs, <<Reader!ValueOf(x), Reader!ValueOf(y)>>))
      /\ OnPlace(t, q + Len(Seat(x, y, sep)))
  BY <1>2, <1>3, <1>4, SeatRead
<1>8. AtOf(sep) = LoopAt(ss, n)
  <2>1. Reader!Blank # RightBracket
    BY Zenon DEF Reader!Blank, RightBracket
  <2> QED
    BY <1>1, <2>1 DEF AtOf, LoopAt, SepOf
<1>9. Append(cs, <<Reader!ValueOf(x), Reader!ValueOf(y)>>) = ValuesTo(ss, n)
  <2>1. n \in Nat /\ n > 0
    BY <1>2
  <2> QED
    BY <1>1, <2>1, OneMore
<1> QED
  BY <1>3, <1>6, <1>7, <1>8, <1>9 DEF RoundsDone

LEMMA ListRead ==
  ASSUME NEW ss \in Seq(Seats), 1 <= Len(ss), Len(ss) <= MaxCoords, NEW t \in Text,
         NEW p, OnPlace(t, p), IsAt(TextOf(SeatTexts(ss)), t, p)
  PROVE  Reader!Coordinates(t, p, <<>>)
           = State("closed", p + Len(TextOf(SeatTexts(ss))), SeatValues(ss))
<1>0. Len(ss) \in Nat /\ MaxCoords \in Nat
  BY LoopGoesOn
<1>1. RoundsDone(ss, t, p, Len(ss))
  <2> DEFINE S == {n \in 0 .. Len(ss) : ~RoundsDone(ss, t, p, n)}
  <2> SUFFICES ASSUME S # {} PROVE FALSE
    BY <1>0
  <2>1. PICK m \in S : \A k \in S : m <= k
    <3>1. S \in SUBSET Nat
      BY <1>0
    <3> HIDE DEF S
    <3> QED
      BY <3>1, LeastNat
  <2>2. m # 0
    BY <2>1, RoundsBegin
  <2>3. m \in 1 .. Len(ss) /\ m - 1 \in 0 .. Len(ss) /\ m - 1 \notin S
    BY <1>0, <2>1, <2>2
  <2>4. RoundsDone(ss, t, p, m - 1)
    BY <2>3
  <2>5. RoundsDone(ss, t, p, m)
    BY <2>3, <2>4, RoundDone
  <2> QED
    BY <2>1, <2>5
<1>2. PICK b : b = State("closed", p + EndOf(SeatTexts(ss), Len(ss)), ValuesTo(ss, Len(ss)))
  OBVIOUS
<1>3. Loop(t, p)[Len(ss)] = b /\ b.at # "next"
  <2>1. LoopAt(ss, Len(ss)) = "closed"
    BY <1>0 DEF LoopAt
  <2>2. b.at = "closed"
    BY <1>2, StateFields
  <2> QED
    BY <1>1, <1>2, <2>1, <2>2 DEF RoundsDone
<1>4. Loop(t, p)[MaxCoords] = b
  <2> DEFINE S == {n \in Len(ss) .. MaxCoords : Loop(t, p)[n] # b}
  <2> SUFFICES ASSUME S # {} PROVE FALSE
    BY <1>0
  <2>1. PICK m \in S : \A k \in S : m <= k
    <3>1. S \in SUBSET Nat
      BY <1>0
    <3> HIDE DEF S
    <3> QED
      BY <3>1, LeastNat
  <2>2. m # Len(ss)
    BY <1>3, <2>1
  <2>3. m \in 1 .. MaxCoords /\ m - 1 \in Len(ss) .. MaxCoords /\ m - 1 \notin S
    BY <1>0, <2>1, <2>2
  <2>4. Loop(t, p)[m - 1] = b
    BY <2>3
  <2>5. Loop(t, p)[m] = Again(t, b)
    BY <2>3, <2>4, LoopGoesOn
  <2> QED
    BY <1>3, <2>1, <2>5 DEF Again
<1>5. Reader!Coordinates(t, p, <<>>) = b
  BY <1>4, LoopGoesOn
<1>6. EndOf(SeatTexts(ss), Len(ss)) = Len(TextOf(SeatTexts(ss)))
  <2>1. Consist(SeatTexts(ss), Chars) /\ Len(SeatTexts(ss)) = Len(ss)
    BY SeatsConsist
  <2>2. Len(ss) \in 1 .. Len(SeatTexts(ss))
    BY <1>0, <2>1
  <2> QED
    BY <2>1, <2>2, PartStands
<1>7. ValuesTo(ss, Len(ss)) = SeatValues(ss)
  BY DEF ValuesTo, SeatValues
<1> QED
  BY <1>2, <1>5, <1>6, <1>7

(* parser.c:145-219, by what is found. *)
LEMMA ReserveCases ==
  ASSUME NEW s, NEW p
  PROVE  LET id  == Number(s, p)
             end == Reader!Coordinates(s, Reader!Behind(s, id.pos), <<>>)
         IN  /\ Reader!EndsWith(id, {Reader!Blank}) /\ Reader!At(s, id.pos) = LeftBracket
             /\ end.at = "closed" /\ Len(end.coords) # MaxCoords /\ Reader!At(s, end.pos) = Reader!NL
             => Reader!parse_reserve(s, p, <<>>)
                  = Reader!Result([op |-> "reserve", id |-> id.value, seats |-> end.coords], end.pos + 1)
BY Zenon DEF Reader!parse_reserve, Reader!Closed, Number, LeftBracket

LEMMA OneIn == \A m \in Nat, k \in Nat : (m + 1) + k = m + (1 + k)
OBVIOUS

LEMMA ReserveRead ==
  ASSUME NEW w, NEW c, IsReserve(w, c), NEW t, Holds(t, w), Reader!At(t, Len(w) + 1) = Reader!NL
  PROVE  IsReadAs(w, t, c) /\ w \in String
<1>0. t \in Text
  BY DEF Holds
<1>1. PICK k \in DOMAIN Keywords, id \in Numbers, ss \in Seq(Seats) :
        /\ Takes(k, "reserve") /\ 1 <= Len(ss) /\ Len(ss) < MaxCoords
        /\ w = Keyed(k, Then(id, List(ss)))
        /\ c = [op |-> "reserve", id |-> Reader!ValueOf(id), seats |-> SeatValues(ss)]
  BY DEF IsReserve
<1>2. PICK list, more, e, n, r :
        /\ list = TextOf(SeatTexts(ss)) /\ more = List(ss) /\ e = ArgsAt(k) /\ n = Number(t, e)
        /\ r = Reader!parse_reserve(t, e, <<>>)
  OBVIOUS
<1>3. /\ list \in String /\ Len(list) \in Nat /\ more \in String /\ Len(more) = 1 + Len(list)
      /\ more = <<LeftBracket>> \o list
      /\ <<LeftBracket>> \in String /\ Len(<<LeftBracket>>) = 1 /\ Then(id, more) \in String
  <2>1. list \in String
    <3>1. Consist(SeatTexts(ss), Chars) /\ Len(SeatTexts(ss)) = Len(ss) /\ Len(ss) \in Nat
      BY SeatsConsist
    <3>2. 1 \in 1 .. Len(SeatTexts(ss))
      BY <1>1, <3>1
    <3> QED
      BY <1>2, <3>1, <3>2, PartStands DEF String
  <2>2. <<LeftBracket>> \in String /\ Len(<<LeftBracket>>) = 1
    BY OneChar
  <2>3. more = <<LeftBracket>> \o list
    BY <1>2, Zenon DEF List
  <2>4. more \in String /\ Len(more) = 1 + Len(list) /\ Len(list) \in Nat
    BY <2>1, <2>2, <2>3, Appended
  <2> QED
    BY <2>1, <2>2, <2>3, <2>4, ThenIsString
<1>4. /\ OnPlace(t, e) /\ IsAt(Then(id, more), t, e) /\ Len(w) + 1 = e + Len(Then(id, more))
      /\ Reader!ReadCommand(t, 1, <<>>) = r
  BY <1>1, <1>2, <1>3, ArgumentsRead DEF Takes, Holds
<1>5. BlankFollows(t, e, n, id, more)
  BY <1>0, <1>2, <1>3, <1>4, NumberAndBlank
<1>6. /\ Reader!EndsWith(n, {Reader!Blank}) /\ n.value = Reader!ValueOf(id)
      /\ OnPlace(t, n.pos) /\ IsAt(more, t, n.pos) /\ Len(w) + 1 = n.pos + Len(more)
  BY <1>4, <1>5 DEF BlankFollows
<1>7. n.pos \in Nat /\ IsAt(<<LeftBracket>>, t, n.pos) /\ IsAt(list, t, n.pos + 1)
  <2>1. n.pos \in Nat
    BY <1>0, <1>6, PlaceIs
  <2>2. IsAt(<<LeftBracket>> \o list, t, n.pos)
    BY <1>3, <1>6
  <2> QED
    BY <1>0, <1>3, <2>1, <2>2, PartsAreAt
<1>8. /\ Reader!At(t, n.pos) = LeftBracket /\ Reader!Behind(t, n.pos) = n.pos + 1
      /\ OnPlace(t, n.pos + 1)
  <2>1. n.pos <= Len(t) /\ Reader!At(t, n.pos) = LeftBracket /\ Reader!Behind(t, n.pos) = n.pos + 1
    BY <1>0, <1>7, CharIsAt
  <2>2. n.pos + 1 \in Nat /\ n.pos + 1 >= 1 /\ n.pos + 1 <= Len(t) + 1 /\ Len(t) \in Nat
    BY <1>0, <1>6, <1>7, <2>1, PlaceIs
  <2> QED
    BY <2>1, <2>2 DEF OnPlace
<1>9. PICK end : end = Reader!Coordinates(t, n.pos + 1, <<>>)
  OBVIOUS
<1>10. end.at = "closed" /\ end.pos = (n.pos + 1) + Len(list) /\ end.coords = SeatValues(ss)
  <2>1. Len(ss) <= MaxCoords
    BY <1>1, LoopGoesOn
  <2>2. end = State("closed", (n.pos + 1) + Len(list), SeatValues(ss))
    BY <1>0, <1>1, <1>2, <1>7, <1>8, <1>9, <2>1, ListRead
  <2> QED
    BY <2>2, StateFields
<1>11. end.pos = Len(w) + 1
  <2>1. PICK l \in Nat, q \in Nat : l = Len(list) /\ q = n.pos
    BY <1>3, <1>7
  <2>2. end.pos = (q + 1) + l
    BY <1>10, <2>1
  <2>3. Len(w) + 1 = q + (1 + l)
    BY <1>3, <1>6, <2>1
  <2>4. (q + 1) + l = q + (1 + l)
    BY <2>1, OneIn
  <2> QED
    BY <2>2, <2>3, <2>4
<1>12. Len(end.coords) # MaxCoords
  <2>1. PICK l \in Nat : l = Len(ss)
    OBVIOUS
  <2>2. Len(SeatValues(ss)) = l
    <3>1. SeatValues(ss) = [j \in 1 .. l |-> <<Reader!ValueOf(ss[j].x), Reader!ValueOf(ss[j].y)>>]
      BY <2>1 DEF SeatValues
    <3> QED
      BY <3>1
  <2> QED
    BY <1>1, <1>10, <2>1, <2>2, LoopGoesOn
<1>13. r = Reader!Result([op |-> "reserve", id |-> n.value, seats |-> end.coords], end.pos + 1)
  <2>1. end = Reader!Coordinates(t, Reader!Behind(t, n.pos), <<>>)
    BY <1>8, <1>9
  <2> QED
    BY <1>2, <1>6, <1>8, <1>10, <1>11, <1>12, <2>1, ReserveCases
<1>14. Reader!Behind(t, Len(w) + 1) = (Len(w) + 1) + 1
  BY DEF Reader!Behind, Reader!At, Reader!NL, Reader!Eof
<1>15. w \in String
  BY <1>1, <1>2, <1>3, KeyedParts
<1> QED
  BY <1>1, <1>4, <1>6, <1>10, <1>11, <1>13, <1>14, <1>15 DEF IsReadAs

-----------------------------------------------------------------------------
(* What ends where its file ends, and what needs a newline behind it. *)
IsShort(w, c) ==
  IsShow(w, c) \/ IsWait(w, c) \/ IsCreate(w, c) \/ IsAlone(w, c) \/ IsComment(w, c) \/ IsUnknown(w, c)
IsWritten(w, c) == IsShort(w, c) \/ IsReserve(w, c) \/ IsEmpty(w, c)

LEMMA ShortIsRead ==
  ASSUME NEW w, NEW c, IsShort(w, c), NEW t, Holds(t, w)
  PROVE  IsReadAs(w, t, c) /\ w \in String
BY ShowRead, WaitRead, CreateRead, AloneRead, CommentRead, UnknownRead, Zenon DEF IsShort

LEMMA WrittenIsRead ==
  ASSUME NEW w, NEW c, IsWritten(w, c), NEW t, Holds(t, w), Reader!At(t, Len(w) + 1) = Reader!NL
  PROVE  IsReadAs(w, t, c) /\ w \in String
BY ShortIsRead, ReserveRead, EmptyRead, Zenon DEF IsWritten

(* How a line says its command: ended by a newline or, the last one of a     *)
(* file, by the end of the file.  Of a line that is refused and that begins  *)
(* like a command, only that the parser refuses it when it is alone.         *)
SaysIt(ls, n) ==
  \/ \E w \in Seq(STRING) : ls[n].text = w \o <<Reader!NL>> /\ IsWritten(w, ls[n].command)
  \/ n = Len(ls) /\ ls[n].text # <<>> /\ IsShort(ls[n].text, ls[n].command)
  \/ ls[n].command.op = "invalid" /\ StandsFor(ls, n)
EveryLineIsWritten ==
  \A l \in Texts : \A f \in DOMAIN l : \A n \in DOMAIN l[f] :
    l[f][n].ends_early \/ SaysIt(l[f], n)

LEMMA EndedLineStands ==
  ASSUME NEW w \in Seq(STRING), NEW c, IsWritten(w, c), NEW x \in Text, x = w \o <<Reader!NL>>
  PROVE  /\ x # <<>>
         /\ Reader!ReadCommand(x \o <<Head(x)>>, 1, <<>>) = Reader!Result(c, Len(x) + 1)
<1> DEFINE C == STRING \cup {Reader!NL}
<1>1. w \in Seq(C) /\ <<Reader!NL>> \in Seq(C) /\ Len(<<Reader!NL>>) = 1 /\ Len(w) \in Nat
  <2>1. Reader!NL \in C /\ STRING \subseteq C
    OBVIOUS
  <2> HIDE DEF C
  <2>2. w \in Seq(C)
    BY <2>1, SeqMonotonic
  <2>3. PICK a \in C : a = Reader!NL
    BY <2>1
  <2>4. <<a>> \in Seq(C) /\ Len(<<a>>) = 1
    OBVIOUS
  <2> QED
    BY <2>2, <2>3, <2>4
<1> HIDE DEF C
<1>2. /\ Len(x) = Len(w) + 1
      /\ \A k \in 1 .. Len(w) + 1 : x[k] = IF k <= Len(w) THEN w[k] ELSE <<Reader!NL>>[k - Len(w)]
  BY <1>1, ConcatProperties
<1>3. x[Len(w) + 1] = Reader!NL /\ \A k \in 1 .. Len(w) : x[k] = w[k]
  <2>1. /\ Len(w) + 1 \in 1 .. Len(w) + 1 /\ ~(Len(w) + 1 <= Len(w)) /\ (Len(w) + 1) - Len(w) = 1
        /\ \A k \in 1 .. Len(w) : k \in 1 .. Len(w) + 1 /\ k <= Len(w)
    BY <1>1
  <2> QED
    BY <1>2, <2>1
<1>4. x # <<>>
  BY <1>1, <1>2
<1> DEFINE D == STRING \ {Reader!Eof}
<1>5. x \in Seq(D)
  BY DEF Text
<1>6. Head(x) = x[1] /\ x[1] \in D
  BY <1>1, <1>2, <1>5
<1>7. <<x[1]>> \in Seq(D) /\ Len(<<x[1]>>) = 1
  <2> HIDE DEF D
  <2> QED
    BY <1>6
<1>8. PICK t : t = x \o <<x[1]>>
  OBVIOUS
<1>9. /\ t \in Seq(D) /\ Len(t) = Len(x) + 1
      /\ \A k \in 1 .. Len(x) + 1 : t[k] = IF k <= Len(x) THEN x[k] ELSE <<x[1]>>[k - Len(x)]
  <2> HIDE DEF D
  <2> QED
    BY <1>5, <1>7, <1>8, ConcatProperties
<1>10. t \in Text
  BY <1>9 DEF Text
<1>11. \A k \in 1 .. Len(w) : k \in 1 .. Len(t) /\ t[k] = w[k]
  <2>1. \A k \in 1 .. Len(w) : k \in 1 .. Len(x) + 1 /\ k <= Len(x)
    BY <1>1, <1>2
  <2> QED
    BY <1>3, <1>9, <2>1
<1>12. IsAt(w, t, 1)
  <2> SUFFICES ASSUME NEW k \in 1 .. Len(w)
               PROVE  1 + (k - 1) \in 1 .. Len(t) /\ t[1 + (k - 1)] = w[k]
    BY DEF IsAt
  <2>1. 1 + (k - 1) = k
    BY <1>1
  <2> QED
    BY <1>11, <2>1
<1>13. /\ Reader!At(t, Len(w) + 1) = Reader!NL /\ Reader!Behind(t, Len(w) + 1) = Len(x) + 1
  <2>1. Len(w) + 1 \in 1 .. Len(x) + 1 /\ Len(w) + 1 <= Len(x) /\ Len(w) + 1 <= Len(t)
        /\ (Len(w) + 1) + 1 = Len(x) + 1
    BY <1>1, <1>2, <1>9
  <2>2. t[Len(w) + 1] = Reader!NL
    BY <1>3, <1>9, <2>1
  <2> QED
    BY <2>1, <2>2 DEF Reader!At, Reader!Behind
<1>14. Holds(t, w)
  BY <1>10, <1>12, <1>13 DEF Holds, Reader!LineEnd
<1>15. IsReadAs(w, t, c)
  BY <1>13, <1>14, WrittenIsRead
<1> QED
  BY <1>4, <1>6, <1>8, <1>13, <1>15 DEF IsReadAs

LEMMA LastLineStands ==
  ASSUME NEW x \in Text, NEW c, IsShort(x, c)
  PROVE  Reader!ReadCommand(x, 1, <<>>) = Reader!Result(c, Len(x) + 1)
<1>1. Len(x) \in Nat
  BY DEF Text
<1>2. Reader!At(x, Len(x) + 1) = Reader!Eof /\ Reader!Behind(x, Len(x) + 1) = Len(x) + 1
  BY <1>1 DEF Reader!At, Reader!Behind
<1>3. IsAt(x, x, 1)
  <2> SUFFICES ASSUME NEW k \in 1 .. Len(x)
               PROVE  1 + (k - 1) \in 1 .. Len(x) /\ x[1 + (k - 1)] = x[k]
    BY DEF IsAt
  <2>1. 1 + (k - 1) = k
    BY <1>1
  <2> QED
    BY <2>1
<1>4. Holds(x, x)
  BY <1>2, <1>3 DEF Holds, Reader!LineEnd
<1> QED
  BY <1>2, <1>4, ShortIsRead DEF IsReadAs

LEMMA WhatIsSaidIsRead == EveryLineIsWritten => EveryLineIsRead
<1> SUFFICES ASSUME EveryLineIsWritten, NEW l \in Texts, NEW f \in DOMAIN l, NEW n \in DOMAIN l[f],
                    ~l[f][n].ends_early
             PROVE  StandsFor(l[f], n)
  BY DEF EveryLineIsRead
<1>1. PICK ls, x, c : ls = l[f] /\ x = ls[n].text /\ c = ls[n].command
  OBVIOUS
<1>2. x \in Text /\ SaysIt(ls, n)
  BY <1>1, ReaderAssumption DEF EveryLineIsWritten, Text
<1>3. CASE \E w \in Seq(STRING) : x = w \o <<Reader!NL>> /\ IsWritten(w, c)
  <2>1. PICK w \in Seq(STRING) : x = w \o <<Reader!NL>> /\ IsWritten(w, c)
    BY <1>3
  <2>2. x # <<>> /\ Reader!ReadCommand(x \o <<Head(x)>>, 1, <<>>) = Reader!Result(c, Len(x) + 1)
    BY <1>2, <2>1, EndedLineStands
  <2> QED
    BY <1>1, <2>2 DEF StandsFor, ReadsAs
<1>4. CASE n = Len(ls) /\ x # <<>> /\ IsShort(x, c)
  <2>1. Reader!ReadCommand(x, 1, <<>>) = Reader!Result(c, Len(x) + 1)
    BY <1>2, <1>4, LastLineStands
  <2> QED
    BY <1>1, <1>4, <2>1 DEF StandsFor, ReadsAs
<1> QED
  BY <1>1, <1>2, <1>3, <1>4 DEF SaysIt

(* Lines that are written as HELP says (main.c:368-376) are read as the      *)
(* commands they are written as, one per line and in their order, whatever   *)
(* their numbers, their names' letters and the lines around them are: a      *)
(* number up to UINT_MAX is read digit by digit to its value, a RESERVE of   *)
(* fewer than MaxCoords seats to the list of its seats, a comment and an     *)
(* empty line to nothing (parser.c:9-258).                                   *)
THEOREM WrittenCommandsAreRead ==
  ASSUME EveryLineIsWritten
  PROVE  Spec => []LinesAreCommands
BY WhatIsSaidIsRead, CommandsAreTheLines
=============================================================================
