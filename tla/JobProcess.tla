----------------------------- MODULE JobProcess -----------------------------
(***************************************************************************)
(* One child process of proj1 as a whole: the threads of JobThreads        *)
(* execute the commands of a job file on the store of EventStore, and      *)
(* sort the coordinates of every RESERVE before they call it               *)
(* (proj1/main.c:276-332, 301; parser.c:295-303).                          *)
(***************************************************************************)
EXTENDS JobThreads, FiniteSets

CONSTANT EventIds      \* the event ids of the job files

VARIABLES events, id_being_processed, out, grants,    \* the store
          spc, call, ev, k, rid, buf, ret             \* a thread inside a call

(* compareCoordinates: by row, then by column. *)
Before(a, b) == a[1] < b[1] \/ (a[1] = b[1] /\ a[2] < b[2])

(* qsort with compareCoordinates: the same coordinates, none before an       *)
(* earlier one.                                                              *)
Orders(S)    == {f \in [S -> S] : \A v \in S : \E w \in S : f[w] = v}
Reordered(s) == {[n \in DOMAIN s |-> s[f[n]]] : f \in Orders(DOMAIN s)}
Ascending(s) == \A m, n \in DOMAIN s : m < n => ~Before(s[n], s[m])
qsort(s)     == CHOOSE r \in Reordered(s) : Ascending(r)

(* Mutant of Sorted: the coordinates stay as they are in the file. *)
Unsorted(c) == c

(* What a command becomes before it reaches the store. *)
Sorted(c) ==
  IF c.op = "reserve" THEN [c EXCEPT !.seats = qsort(@)] ELSE c

StoreCalls == {Sorted(c) : c \in StoreCommands}

(* Every store command is one the parser delivers: a known operation, an     *)
(* event of the file, unsigned numbers, and for RESERVE at least one seat.   *)
ASSUME CommandsAssumption ==
  /\ EventIds \subseteq Nat
  /\ \A c \in StoreCommands :
       \/ c.op = "list"
       \/ c.op = "show" /\ c.id \in EventIds
       \/ c \in [op : {"create"}, id : EventIds, dim : Nat \X Nat]
       \/ c \in [op : {"reserve"}, id : EventIds, seats : Seq(Nat \X Nat) \ {<<>>}]

Store == INSTANCE EventStore
           WITH Calls <- StoreCalls, pc <- spc, left <- 0, MaxCalls <- 0

storeVars == <<events, id_being_processed, out, grants, spc, call, ev, k, rid, buf, ret>>
processVars == <<jobVars, storeVars>>

ProcessInit == Init /\ Store!StoreInit

(* A store command is called as soon as it has been parsed; no other command *)
(* touches the store.                                                        *)
FetchAndCall(t) ==
  /\ Fetch(t)
  /\ IF job[pos] \in StoreCommands
       THEN Store!Call(t, Sorted(job[pos]))
       ELSE UNCHANGED storeVars

InStore(t) == pc[t] = "exec" /\ Store!Step(t) /\ UNCHANGED jobVars

(* Mutant of Returned: the thread skips the top of its loop. *)
ReturnedToFetch(t) ==
  /\ spc[t] = "idle" /\ pc[t] = "exec"
  /\ Goto(t, "fetch")
  /\ UNCHANGED <<fileVars, delayVars, line, i, result, mainVars, storeVars>>

Returned(t) == spc[t] = "idle" /\ Execute(t) /\ UNCHANGED storeVars

ProcessStep(t) ==
  FetchAndCall(t) \/ InStore(t) \/ Returned(t) \/ (ControlStep(t) /\ UNCHANGED storeVars)

ProcessMain == MainStep /\ UNCHANGED storeVars

ProcessNext ==
  (\E t \in Threads : ProcessStep(t)) \/ ProcessMain \/ (Ended /\ UNCHANGED storeVars)

ProcessSpec == ProcessInit /\ [][ProcessNext]_processVars

FairProcess ==
  /\ ProcessSpec
  /\ WF_processVars(ProcessMain)
  /\ \A t \in Threads : WF_processVars(ProcessStep(t))

-----------------------------------------------------------------------------
(* The reference: what the commands of a file do one after the other. *)

Position(es, id) == {p \in DOMAIN es : es[p].id = id}

CanTake(e, cs) ==
  /\ \A n \in DOMAIN cs : Store!InBounds(e, cs[n]) /\ e.data[Store!seat_index(e, cs[n])] = 0
  /\ \A m, n \in DOMAIN cs : m # n => cs[m] # cs[n]

Take(e, cs) ==
  LET S == {Store!seat_index(e, cs[n]) : n \in DOMAIN cs}
  IN  [e EXCEPT !.reservations = @ + 1,
                !.data = [s \in DOMAIN @ |-> IF s \in S THEN e.reservations + 1 ELSE @[s]]]

Effect(state, c) ==
  LET es == state.events
      write(text) == [state EXCEPT !.out = Append(@, [op |-> c.op, text |-> text])]
  IN  CASE c \notin StoreCommands -> state
        [] c \in StoreCommands /\ c.op = "list" -> write([p \in DOMAIN es |-> es[p].id])
        [] c \in StoreCommands /\ c.op = "create" /\ Position(es, c.id) = {} ->
             [state EXCEPT !.events = Append(@, Store!NewEvent(c.id, c.dim))]
        [] c \in StoreCommands /\ c.op = "show" /\ Position(es, c.id) # {} ->
             write(es[CHOOSE p \in Position(es, c.id) : TRUE].data)
        [] c \in StoreCommands /\ c.op = "reserve"
             /\ \E p \in Position(es, c.id) : CanTake(es[p], c.seats) ->
             LET p == CHOOSE q \in Position(es, c.id) : TRUE
             IN  [state EXCEPT !.events[p] = Take(@, c.seats)]
        [] OTHER -> state

InOrder(file) ==
  LET after[n \in 0 .. Len(file)] ==
        IF n = 0 THEN [events |-> <<>>, out |-> <<>>] ELSE Effect(after[n - 1], file[n])
  IN  after[Len(file)]

-----------------------------------------------------------------------------
(* Properties *)

(* In a file with a BARRIER after every command, as jobs/21.jobs, any number *)
(* of threads writes and leaves behind what one thread would.                *)
Separated(file) ==
  \A n \in DOMAIN file : file[n].op # "barrier" => n < Len(file) /\ file[n + 1].op = "barrier"
BarriersGiveFileOrder ==
  mpc = "done" /\ Separated(job) =>
    /\ out = InOrder(job).out
    /\ events = InOrder(job).events

(* jobs/23.jobs:5 "one of the reserves should fail": of reservations that    *)
(* pairwise overlap and are made at the same time, exactly one succeeds.     *)
SeatsOf(c) == {c.seats[n] : n \in DOMAIN c.seats}
Races(file) ==
  /\ Len(file) > 2 /\ file[1].op = "create" /\ file[2].op = "barrier"
  /\ \A n \in 3 .. Len(file) : file[n].op = "reserve"
  /\ \A m, n \in 3 .. Len(file) : SeatsOf(file[m]) \cap SeatsOf(file[n]) # {}
OneReserveSucceeds == mpc = "done" /\ Races(job) => Cardinality(grants) = 1

(* The process carries out its file as the threads of JobThreads do, and     *)
(* calls its store as any program may; what is shown of the two holds of     *)
(* them together.                                                            *)
ImplementsParts == Spec /\ Store!OpenSpec
=============================================================================
