---------------------------- MODULE SessionQueue ----------------------------
(***************************************************************************)
(* How the server hands clients to its session threads                     *)
(* (proj2/server/main_server.c): main reads SETUP messages from the named   *)
(* pipe and appends each client to a linked list; MAX_SESSION_COUNT threads *)
(* sleep on clients_cond and pop one client each.  SIGUSR1 asks main to     *)
(* print every event.  A session itself is one state here.                 *)
(*                                                                         *)
(* queue_mutex is held for one look at the list at a time (addClient; the  *)
(* test of num_clients with popClient or the release before cond_wait), so *)
(* what is done under it is one step.  clients_mutex is held longer.       *)
(***************************************************************************)
EXTENDS Integers, Sequences, FiniteSets

CONSTANTS Clients,            \* the client processes, each connects once
          Strays,             \* messages on the pipe that are not a SETUP
          Workers,            \* the session threads
          Main,               \* the main thread
          NULL,               \* the null pointer, and the owner of a free mutex
          MaxClientsWaiting,  \* MAX_CLIENTS_WAITING
          PipeRoom,           \* how many messages the pipe holds at a time
          MaxSignals,         \* bound: SIGUSR1 sent to the server
          MaxSpurious,        \* bound: wakeups of pthread_cond_wait without a signal
          MallocFails         \* whether malloc may return NULL

ASSUME NameAssumption ==
  /\ NULL \notin Clients \cup Workers \cup {Main}
  /\ Main \notin Workers
  /\ Clients \cap Strays = {}
ASSUME BoundAssumption ==
  /\ MaxClientsWaiting \in Nat /\ PipeRoom \in Nat /\ MaxSignals \in Nat /\ MaxSpurious \in Nat
  /\ MallocFails \in BOOLEAN
ASSUME WorkerAssumption == IsFiniteSet(Workers)   \* MAX_SESSION_COUNT threads

VARIABLES unsent,           \* clients and strays that have not written yet
          pipe,             \* the server's named pipe
          head, tail, next, \* the linked list; a node is named by its client
          num_clients,      \* queue->num_clients
          clients_mutex,    \* the owner of clients_mutex
          sleeping,         \* the threads asleep on clients_cond
          pc, wpc,          \* where main is, where each session thread is
          request,          \* the client whose SETUP main has read and not added yet
          client,           \* client[w]: the client thread w has popped
          usr1_signalled,   \* the flag the signal handler sets
          signals, spurious \* what is left of MaxSignals and MaxSpurious

list   == <<head, tail, next, num_clients>>
sync   == <<clients_mutex, sleeping>>
usr1   == <<usr1_signalled, signals>>
worker == <<wpc, client, spurious>>
vars   == <<unsent, pipe, list, sync, pc, request, worker, usr1>>

Init ==
  /\ unsent = Clients \cup Strays
  /\ pipe = <<>>
  /\ head = NULL /\ tail = NULL /\ next = [c \in Clients |-> NULL] /\ num_clients = 0
  /\ clients_mutex = NULL /\ sleeping = {}
  /\ pc = "top" /\ request = NULL
  /\ wpc = [w \in Workers |-> "lock_clients"]
  /\ client = [w \in Workers |-> NULL]
  /\ usr1_signalled = FALSE
  /\ signals = MaxSignals /\ spurious = MaxSpurious

-----------------------------------------------------------------------------
(* The processes outside the server. *)

(* One write of at most PIPE_BUF bytes: a message arrives whole, as soon as  *)
(* there is room for it.                                                     *)
Connect(m) ==
  /\ m \in unsent /\ Len(pipe) < PipeRoom
  /\ unsent' = unsent \ {m}
  /\ pipe' = Append(pipe, m)
  /\ UNCHANGED <<list, sync, pc, request, worker, usr1>>

(* handleSIGUSR1 runs in the main thread, the only one that does not block   *)
(* the signal.  A read that is already blocked is interrupted (no            *)
(* SA_RESTART): safe_read returns -1 and the loop starts over.               *)
Signal ==
  /\ signals > 0
  /\ signals' = signals - 1
  /\ usr1_signalled' = TRUE
  /\ pc' = IF pc = "blocked" THEN "top" ELSE pc
  /\ UNCHANGED <<unsent, pipe, list, sync, request, worker>>

-----------------------------------------------------------------------------
(* The loop of main. *)

MainTop ==
  /\ pc = "top"
  /\ pc' = IF usr1_signalled THEN "show" ELSE "room"
  /\ UNCHANGED <<unsent, pipe, list, sync, request, worker, usr1>>

MainShow ==
  /\ pc = "show"
  /\ pc' = "reset"
  /\ UNCHANGED <<unsent, pipe, list, sync, request, worker, usr1>>

MainReset ==
  /\ pc = "reset"
  /\ usr1_signalled' = FALSE
  /\ pc' = "room"
  /\ UNCHANGED <<unsent, pipe, list, sync, request, worker, signals>>

(* client_waiting is 0 when the program starts and no line assigns it, so    *)
(* the loop on queue_cond never waits.                                       *)
client_waiting == 0

MainRoom ==
  /\ pc = "room"
  /\ client_waiting < MaxClientsWaiting
  /\ pc' = "read"
  /\ UNCHANGED <<unsent, pipe, list, sync, request, worker, usr1>>

(* Mutant of MainRead: the op code is not tested. *)
MainReadsAnything ==
  /\ pc \in {"read", "blocked"} /\ pipe # <<>>
  /\ pipe' = Tail(pipe) /\ request' = Head(pipe) /\ pc' = "add"
  /\ UNCHANGED <<unsent, list, sync, worker, usr1>>

(* read: a SETUP is kept, anything else is dropped, an empty pipe blocks.    *)
MainRead ==
  /\ pc \in {"read", "blocked"} /\ pipe # <<>>
  /\ pipe' = Tail(pipe)
  /\ \/ Head(pipe) \in Clients /\ request' = Head(pipe) /\ pc' = "add"
     \/ Head(pipe) \in Strays  /\ pc' = "top" /\ UNCHANGED request
  /\ UNCHANGED <<unsent, list, sync, worker, usr1>>

MainBlock ==
  /\ pc = "read" /\ pipe = <<>>
  /\ pc' = "blocked"
  /\ UNCHANGED <<unsent, pipe, list, sync, request, worker, usr1>>

MainNoMemory ==
  /\ pc = "add" /\ MallocFails
  /\ pc' = "top"
  /\ UNCHANGED <<unsent, pipe, list, sync, request, worker, usr1>>

(* Mutant of addClient: an empty list is told by tail, which popClient keeps. *)
addClientTestsTail(c) ==
  /\ num_clients' = num_clients + 1
  /\ tail' = c
  /\ IF tail = NULL
       THEN head' = c /\ next' = [next EXCEPT ![c] = NULL]
       ELSE head' = head /\ next' = [next EXCEPT ![c] = NULL, ![tail] = c]

(* addClient: the new node goes behind tail, unless the list is empty.       *)
addClient(c) ==
  /\ num_clients' = num_clients + 1
  /\ tail' = c
  /\ IF head = NULL
       THEN head' = c /\ next' = [next EXCEPT ![c] = NULL]
       ELSE head' = head /\ next' = [next EXCEPT ![c] = NULL, ![tail] = c]

(* Mutant of MainAdd: nobody is told. *)
MainAddsSilently ==
  /\ pc = "add"
  /\ addClient(request) /\ request' = NULL
  /\ pc' = "top"
  /\ UNCHANGED <<unsent, pipe, sync, worker, usr1>>

MainAdd ==
  /\ pc = "add"
  /\ addClient(request) /\ request' = NULL
  /\ pc' = "signal"
  /\ UNCHANGED <<unsent, pipe, sync, worker, usr1>>

(* Mutant of MainSignal: signals without holding clients_mutex. *)
MainSignalsUnlocked ==
  /\ pc = "signal"
  /\ \/ sleeping = {} /\ UNCHANGED <<sleeping, wpc>>
     \/ \E w \in sleeping :
          sleeping' = sleeping \ {w} /\ wpc' = [wpc EXCEPT ![w] = "wake"]
  /\ pc' = "top"
  /\ UNCHANGED <<unsent, pipe, list, clients_mutex, request, client, spurious, usr1>>

(* pthread_cond_signal under clients_mutex wakes one sleeper, if any.        *)
MainSignal ==
  /\ pc = "signal" /\ clients_mutex = NULL
  /\ \/ sleeping = {} /\ UNCHANGED <<sleeping, wpc>>
     \/ \E w \in sleeping :
          sleeping' = sleeping \ {w} /\ wpc' = [wpc EXCEPT ![w] = "wake"]
  /\ pc' = "top"
  /\ UNCHANGED <<unsent, pipe, list, clients_mutex, request, client, spurious, usr1>>

-----------------------------------------------------------------------------
(* The loop of a session thread. *)

WGoto(w, label) == wpc' = [wpc EXCEPT ![w] = label]

LockClients(w) ==
  /\ wpc[w] \in {"lock_clients", "wake"} /\ clients_mutex = NULL
  /\ clients_mutex' = w
  /\ WGoto(w, "test")
  /\ UNCHANGED <<unsent, pipe, list, sleeping, pc, request, client, spurious, usr1>>

(* The test of num_clients under queue_mutex: no client.  queue_mutex is     *)
(* released at once, clients_mutex later, by cond_wait.                      *)
FindsNoClient(w) ==
  /\ wpc[w] = "test" /\ num_clients = 0
  /\ WGoto(w, "wait")
  /\ UNCHANGED <<unsent, pipe, list, clients_mutex, sleeping, pc, request, client, spurious, usr1>>

Wait(w) ==
  /\ wpc[w] = "wait"
  /\ clients_mutex' = NULL /\ sleeping' = sleeping \cup {w}
  /\ WGoto(w, "sleep")
  /\ UNCHANGED <<unsent, pipe, list, pc, request, client, spurious, usr1>>

SpuriousWakeup(w) ==
  /\ w \in sleeping /\ spurious > 0
  /\ spurious' = spurious - 1
  /\ sleeping' = sleeping \ {w}
  /\ WGoto(w, "wake")
  /\ UNCHANGED <<unsent, pipe, list, clients_mutex, pc, request, client, usr1>>

popClient(w) ==
  /\ client' = [client EXCEPT ![w] = head]
  /\ head' = next[head]
  /\ num_clients' = num_clients - 1
  /\ UNCHANGED <<tail, next>>

TakeClient(w) ==
  /\ wpc[w] = "test" /\ num_clients # 0
  /\ popClient(w)
  /\ clients_mutex' = NULL
  /\ WGoto(w, "session")
  /\ UNCHANGED <<unsent, pipe, sleeping, pc, request, spurious, usr1>>

(* QUIT, or a pipe that cannot be opened or written: back to the queue.      *)
EndSession(w) ==
  /\ wpc[w] = "session"
  /\ client' = [client EXCEPT ![w] = NULL]
  /\ WGoto(w, "lock_clients")
  /\ UNCHANGED <<unsent, pipe, list, sync, pc, request, spurious, usr1>>

-----------------------------------------------------------------------------
MainStep ==
  \/ MainTop \/ MainShow \/ MainReset \/ MainRoom \/ MainRead \/ MainBlock
  \/ MainNoMemory \/ MainAdd \/ MainSignal

WorkerStep(w) ==
  LockClients(w) \/ FindsNoClient(w) \/ Wait(w) \/ TakeClient(w) \/ EndSession(w)

Next ==
  \/ \E m \in Clients \cup Strays : Connect(m)
  \/ Signal
  \/ MainStep
  \/ \E w \in Workers : WorkerStep(w) \/ SpuriousWakeup(w)

Spec == Init /\ [][Next]_vars

(* Every thread that can run does run, and every session ends.  Nobody is    *)
(* obliged to connect or to send a signal.                                   *)
FairSpec == Spec /\ WF_vars(MainStep) /\ \A w \in Workers : WF_vars(WorkerStep(w))

-----------------------------------------------------------------------------
(* Properties *)

(* Every variable of main and of the session threads has its type; what main *)
(* appends to the list is a client, never a stray message.                   *)
TypeOK ==
  /\ unsent \subseteq Clients \cup Strays
  /\ pipe \in Seq(Clients \cup Strays)
  /\ head \in Clients \cup {NULL} /\ tail \in Clients \cup {NULL}
  /\ next \in [Clients -> Clients \cup {NULL}]
  /\ num_clients \in Nat
  /\ clients_mutex \in Workers \cup {NULL}
  /\ sleeping \subseteq Workers
  /\ pc \in {"top", "show", "reset", "room", "read", "blocked", "add", "signal"}
  /\ wpc \in [Workers -> {"lock_clients", "wake", "test", "wait", "sleep", "session"}]
  /\ request \in Clients \cup {NULL}
  /\ client \in [Workers -> Clients \cup {NULL}]
  /\ usr1_signalled \in BOOLEAN
  /\ signals \in 0 .. MaxSignals /\ spurious \in 0 .. MaxSpurious

(* No wakeup is lost: if a thread sleeps although clients are waiting, there *)
(* are at least as many threads awake and on their way to the queue, or main *)
(* is about to signal.  This is what testing num_clients under clients_mutex *)
(* and signalling under clients_mutex is for (lines 239-241 and 307-317).    *)
OnTheirWay == {w \in Workers : wpc[w] \in {"lock_clients", "wake", "test"}}
NoLostWakeup ==
  sleeping # {} =>
    num_clients <= Cardinality(OnTheirWay) + (IF pc = "signal" THEN 1 ELSE 0)

(* The clients the list holds, from head on. *)
QueueView ==
  LET node[i \in 0 .. num_clients] == IF i <= 1 THEN head ELSE next[node[i - 1]]
  IN  [i \in 1 .. num_clients |-> node[i]]

(* The list ends at tail exactly when it is not empty; addClient relies on   *)
(* head alone to tell, popClient leaves tail behind (lines 554-577).         *)
ListEndsAtTail ==
  IF num_clients = 0 THEN head = NULL
  ELSE QueueView[num_clients] = tail /\ next[tail] = NULL

Line == INSTANCE ClientLine WITH line <- QueueView

(* Seen from outside, list and condition variable are a first-come           *)
(* first-served line: no client is lost, overtaken or served by two threads. *)
ImplementsLine == Line!LineSpec

(* Every client whose SETUP reached the pipe gets a session thread, unless   *)
(* main has no memory for it (lines 222-228) and starts over without it.     *)
Dropped(c) == pc = "top" /\ request = c
ClientIsServed ==
  \A c \in Clients :
    (\E i \in DOMAIN pipe : pipe[i] = c) ~> (Dropped(c) \/ \E w \in Workers : client[w] = c)
=============================================================================
